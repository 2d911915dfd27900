---------------------------- MODULE AccountDeletion ----------------------------
(***************************************************************************)
(* Hosted account deletion: deleteAccount and the saga of                  *)
(* accountDeletionScheduled in platform/src/account.ts, the R2 ledger of   *)
(* deletion_ledger.ts and the tables of migration 0018, for one workspace. *)
(*                                                                         *)
(* D1, R2, KV and WorkOS fail independently and no transaction spans two   *)
(* of them.  Requests and cron passes keep only locals between two awaited *)
(* calls; passes may overlap.  D1 can be restored to an earlier state, the *)
(* ledger in R2 cannot.                                                    *)
(***************************************************************************)
EXTENDS Integers

CONSTANTS
  Requests, Passes,  \* processes
  Keys,              \* API and gateway keys of the workspace
  Prefixes,          \* the R2 prefixes of the workspace
  RetryAfter,        \* DELETION_RETRY_SECONDS, in ticks of the clock
  RequestLife,       \* how long the platform lets a request run
  PassLife,          \* how long the platform lets a cron invocation run
  CronEvery,         \* the period of the cron trigger
  VerdictLife,       \* API_KEY_CACHE_TTL_SECONDS
  MaxSagaFaults,     \* bound: failing or unacknowledged calls, evictions, restores
  None

Procs == Requests \cup Passes
Life(p) == IF p \in Passes THEN PassLife ELSE RequestLife

ASSUME DeletionAssumption ==
  /\ Requests \cap Passes = {}
  /\ RetryAfter \in Nat \ {0} /\ PassLife \in Nat /\ CronEvery \in Nat
  /\ VerdictLife \in Nat \ {0}
  /\ RequestLife \in 0 .. RetryAfter
  /\ MaxSagaFaults \in Nat
  /\ None \notin Requests \cup Passes

(* The platform's limits: a request does not live from one cron trigger    *)
(* (five minutes) to the next, and no cached verdict longer than that.     *)
ASSUME LifeAssumption == RequestLife < CronEvery /\ VerdictLife <= CronEvery

(* The workspace_deletions row.  Its owner is recorded exactly while it is *)
(* pending; "wait" is how long until next_attempt_at.                      *)
Job == [status : {"pending", "r2_grace", "complete"}, workos : BOOLEAN,
        wait : 0 .. RetryAfter]
ASSUME NoneAssumption == None \notin Job  \* no row is not a row
(* D1: the workspace row, whether its browser session and its keys are     *)
(* unrevoked, the job and its workspace_deletion_kv_keys, and whether the  *)
(* user is linked to another workspace.                                    *)
Database == [ws : {"active", "deleting", "gone"}, session : BOOLEAN, keys : BOOLEAN,
             linked : BOOLEAN, job : Job \cup {None},
             kv : [Keys -> {"none", "live", "deleted"}]]
Kinds == {"put", "verdict", "delete", "signout", "pass"}
Local == [kind : Kinds, age : 0 .. PassLife + RequestLife, key : Keys \cup {None},
          status : {"pending", "r2_grace"}, workos : BOOLEAN,
          page : SUBSET Keys, left : SUBSET Prefixes, deleted : BOOLEAN]

VARIABLES
  d1, backup,      \* the database, and the state a restore would bring back
  ledger,          \* the R2 deletion ledger holds the workspace
  identity,        \* the WorkOS user exists
  objects,         \* the prefixes of the workspace that hold objects
  cached,          \* ticks until a key's verdict in KV expires, 0 for none
  pc, loc,         \* the processes
  accepted,        \* somebody was answered 202
  cron,            \* ticks until cron may invoke the Worker again
  sagaFaults, restored

storeVars == <<ledger, identity, objects, cached>>
deletionVars == <<d1, backup, storeVars, pc, loc, accepted, cron, sagaFaults, restored>>

-------------------------------------------------------------------------------
NewLocal(kind) ==
  [kind |-> kind, age |-> 0, key |-> None, status |-> "pending", workos |-> FALSE,
   page |-> {}, left |-> Prefixes, deleted |-> FALSE]

NewDatabase ==
  [ws |-> "active", session |-> TRUE, keys |-> TRUE, linked |-> FALSE, job |-> None,
   kv |-> [k \in Keys |-> "none"]]

DeletionInit ==
  /\ d1 = NewDatabase /\ backup = NewDatabase
  /\ ledger = FALSE /\ identity = TRUE
  /\ objects = {}
  /\ cached = [k \in Keys |-> 0]
  /\ pc = [p \in Procs |-> "idle"]
  /\ loc = [p \in Procs |-> NewLocal("pass")]
  /\ accepted = FALSE /\ cron = 0
  /\ sagaFaults = 0 /\ restored = FALSE

SagaFault == sagaFaults < MaxSagaFaults /\ sagaFaults' = sagaFaults + 1
NoSagaFault == sagaFaults' = sagaFaults
Move(p, label) == pc' = [pc EXCEPT ![p] = label] /\ loc' = loc
Done(p) == /\ pc' = [pc EXCEPT ![p] = "idle"]
           /\ loc' = [loc EXCEPT ![p] = NewLocal("pass")]
Accept(p) == Done(p) /\ accepted' = TRUE

(* next_attempt_at counts from the clock the process read when it started. *)
NextAttempt(p) == IF loc[p].age >= RetryAfter THEN 0 ELSE RetryAfter - loc[p].age
JobIs(status) == d1.job # None /\ d1.job.status = status

-------------------------------------------------------------------------------
(* Authentication                                                          *)

Arrive(p) ==
  /\ pc[p] = "idle" /\ p \in Requests
  /\ \E kind \in Kinds \ {"pass", "verdict"} :
       /\ loc' = [loc EXCEPT ![p] = NewLocal(kind)]
       /\ pc' = [pc EXCEPT ![p] = "session"]
  /\ UNCHANGED <<d1, backup, storeVars, accepted, cron, sagaFaults, restored>>

ArriveWithKey(p) ==
  /\ pc[p] = "idle" /\ p \in Requests
  /\ \E k \in Keys :
       /\ loc' = [loc EXCEPT ![p] = [NewLocal("verdict") EXCEPT !.key = k]]
       /\ pc' = [pc EXCEPT ![p] = "verdict"]
  /\ UNCHANGED <<d1, backup, storeVars, accepted, cron, sagaFaults, restored>>

(* authenticateAccountSession: the session row of an active workspace.     *)
ReadSession(p) ==
  /\ pc[p] = "session"
  /\ IF d1.session /\ d1.ws = "active" THEN Move(p, "fence") ELSE Done(p)
  /\ UNCHANGED <<d1, backup, storeVars, accepted, cron, sagaFaults, restored>>

(* workspaceDeletionBlocksAuthentication: a ledger, or a failing read of   *)
(* it, denies.                                                             *)
CheckLedgerNot(p) ==  \* mutant: a session of an active workspace is enough
  /\ pc[p] = "fence"
  /\ Move(p, loc[p].kind) /\ NoSagaFault
  /\ UNCHANGED <<d1, backup, storeVars, accepted, cron, restored>>
CheckLedger(p) ==
  /\ pc[p] = "fence"
  /\ \/ ~ledger /\ Move(p, loc[p].kind) /\ NoSagaFault
     \/ ledger /\ Done(p) /\ NoSagaFault
     \/ SagaFault /\ Done(p)
  /\ UNCHANGED <<d1, backup, storeVars, accepted, cron, restored>>

(* authenticateApiKey: a cached verdict, or the key's row, whose verdict   *)
(* is then cached.                                                         *)
ReadVerdict(p) ==
  /\ pc[p] = "verdict"
  /\ \/ cached[loc[p].key] > 0 /\ Move(p, "put")
     \/ cached[loc[p].key] = 0 /\ d1.keys /\ d1.ws # "gone" /\ Move(p, "cache")
     \/ cached[loc[p].key] = 0 /\ ~(d1.keys /\ d1.ws # "gone") /\ Done(p)
  /\ UNCHANGED <<d1, backup, storeVars, accepted, cron, sagaFaults, restored>>

CacheVerdict(p) ==
  /\ pc[p] = "cache"
  /\ cached' = [cached EXCEPT ![loc[p].key] = VerdictLife]
  /\ Move(p, "put")
  /\ UNCHANGED <<d1, backup, ledger, identity, objects, accepted, cron, sagaFaults, restored>>

(* What an authenticated request may do to R2.                             *)
PutObject(p) ==
  /\ pc[p] = "put"
  /\ \E x \in Prefixes : objects' = objects \cup {x}
  /\ Done(p)
  /\ UNCHANGED <<d1, backup, ledger, identity, cached, accepted, cron, sagaFaults, restored>>

(* signOut revokes what it authenticated with, of an active workspace.     *)
SignOut(p) ==
  /\ pc[p] = "signout"
  /\ d1' = IF d1.ws = "active" THEN [d1 EXCEPT !.session = FALSE] ELSE d1
  /\ Done(p)
  /\ UNCHANGED <<backup, storeVars, accepted, cron, sagaFaults, restored>>

-------------------------------------------------------------------------------
(* deleteAccount                                                           *)

ReadLinks(p) ==
  /\ pc[p] = "delete"
  /\ IF d1.linked THEN Done(p) ELSE Move(p, "prelock")
  /\ UNCHANGED <<d1, backup, storeVars, accepted, cron, sagaFaults, restored>>

PrelockFailsLate == d1.ws # "active"  \* mutant: the session is not a condition of the lock
PrelockFails == ~(d1.ws = "active" /\ d1.session)
Prelock(p) ==
  /\ pc[p] = "prelock"
  /\ \/ ~PrelockFails /\ d1' = [d1 EXCEPT !.ws = "deleting"] /\ Move(p, "ensure")
     \/ PrelockFails /\ d1' = d1 /\ Move(p, "existing")
  /\ UNCHANGED <<backup, storeVars, accepted, cron, sagaFaults, restored>>

(* Another request won the lock: 202 if its job exists, otherwise 401.     *)
ReadExisting(p) ==
  /\ pc[p] = "existing"
  /\ IF d1.job # None THEN Accept(p) ELSE Done(p) /\ accepted' = accepted
  /\ UNCHANGED <<d1, backup, storeVars, cron, sagaFaults, restored>>

(* ensureDeletionLedger: create-only put, then a read that proves it.  A   *)
(* failure leaves the workspace locked.                                    *)
EnsureDeletionLedger(p) ==
  /\ pc[p] = "ensure"
  /\ \/ ledger' = TRUE /\ Move(p, "job") /\ NoSagaFault
     \/ SagaFault /\ Done(p) /\ ledger' \in {ledger, TRUE}
  /\ UNCHANGED <<d1, backup, identity, objects, cached, accepted, cron, restored>>

(* The acceptance batch.  Its triggers want the locked workspace and no    *)
(* link to another one; whatever it throws, an existing job decides.       *)
CreatedJob(p) ==
  [d1 EXCEPT !.job = [status |-> "pending", workos |-> FALSE, wait |-> 0],
             !.session = FALSE, !.keys = FALSE, !.kv = [k \in Keys |-> "live"]]
CreateJob(p) ==
  /\ pc[p] = "job"
  /\ LET ok == d1.job = None /\ d1.ws = "deleting" /\ ~d1.linked
     IN \/ ok /\ d1' = CreatedJob(p) /\ Move(p, "kvRead") /\ NoSagaFault
        \/ ok /\ SagaFault /\ d1' = CreatedJob(p) /\ Move(p, "jobFailed")
        \/ ~ok /\ d1' = d1 /\ Move(p, "jobFailed") /\ NoSagaFault
        \/ SagaFault /\ d1' = d1 /\ Move(p, "jobFailed")
  /\ UNCHANGED <<backup, storeVars, accepted, cron, restored>>

ReadJobAfterFailureTrusting(p) ==  \* mutant: what threw is assumed to have committed
  /\ pc[p] = "jobFailed"
  /\ Move(p, "kvRead")
  /\ UNCHANGED <<d1, backup, storeVars, accepted, cron, sagaFaults, restored>>
ReadJobAfterFailure(p) ==
  /\ pc[p] = "jobFailed"
  /\ IF d1.job # None THEN Move(p, "kvRead") ELSE Done(p)
  /\ UNCHANGED <<d1, backup, storeVars, accepted, cron, sagaFaults, restored>>

-------------------------------------------------------------------------------
(* deleteWorkspaceKVBatch, in a pass or, once, in the request              *)

KVEnds(p) ==  \* whatever became of the page
  IF p \in Passes THEN Move(p, "retry") /\ accepted' = accepted ELSE Accept(p)

KVRead(p) ==
  /\ pc[p] = "kvRead"
  /\ LET live == {k \in Keys : d1.kv[k] = "live"}
     IN \/ \E page \in (SUBSET live) \ {{}} :
             /\ loc' = [loc EXCEPT ![p].page = page]
             /\ pc' = [pc EXCEPT ![p] = "kvDelete"]
             /\ accepted' = accepted
        \/ live = {} /\ IF p \in Passes THEN Move(p, "sweep") /\ accepted' = accepted
                                        ELSE Accept(p)
  /\ UNCHANGED <<d1, backup, storeVars, cron, sagaFaults, restored>>

Without(page) == [k \in Keys |-> IF k \in page THEN 0 ELSE cached[k]]
KVDelete(p) ==
  /\ pc[p] = "kvDelete"
  /\ \/ cached' = Without(loc[p].page) /\ Move(p, "kvMark") /\ NoSagaFault /\ accepted' = accepted
     \/ SagaFault /\ \E some \in SUBSET loc[p].page : cached' = Without(some)
        /\ KVEnds(p)
  /\ UNCHANGED <<d1, backup, ledger, identity, objects, cron, restored>>

KVMark(p) ==
  /\ pc[p] = "kvMark"
  /\ \/ /\ d1' = [d1 EXCEPT !.kv = [k \in Keys |->
             IF k \in loc[p].page /\ @[k] = "live" THEN "deleted" ELSE @[k]]]
        /\ NoSagaFault
     \/ SagaFault /\ d1' = d1
  /\ KVEnds(p)
  /\ UNCHANGED <<backup, storeVars, cron, restored>>

-------------------------------------------------------------------------------
(* accountDeletionScheduled and processWorkspaceDeletion                   *)

ReadDue(p) ==
  /\ pc[p] = "idle" /\ p \in Passes
  /\ cron = 0 /\ cron' = CronEvery
  /\ d1.job # None /\ d1.job.status # "complete" /\ d1.job.wait = 0
  /\ loc' = [loc EXCEPT ![p] = [NewLocal("pass") EXCEPT
       !.status = d1.job.status, !.workos = d1.job.workos]]
  /\ pc' = [pc EXCEPT ![p] = "authorize"]
  /\ UNCHANGED <<d1, backup, storeVars, accepted, sagaFaults, restored>>

AfterAuthorizationHasty(p) == "kvRead"  \* mutant: local data first, WorkOS some time
AfterAuthorization(p) ==
  IF loc[p].status = "pending" /\ ~loc[p].workos THEN "identity" ELSE "kvRead"

(* The ledger authorizes every destructive step; without it only a retry.  *)
AuthorizePass(p) ==
  /\ pc[p] = "authorize"
  /\ \/ ledger /\ Move(p, AfterAuthorization(p)) /\ NoSagaFault
     \/ ~ledger /\ Move(p, "retry") /\ NoSagaFault
     \/ SagaFault /\ Move(p, "retry")
  /\ UNCHANGED <<d1, backup, storeVars, accepted, cron, restored>>

(* deleteWorkOSIdentity: success and 404 count, a lost answer does not.    *)
DeleteWorkOSIdentity(p) ==
  /\ pc[p] = "identity"
  /\ \/ d1.ws # "gone" /\ identity' = FALSE /\ Move(p, "markIdentity") /\ NoSagaFault
     \/ d1.ws # "gone" /\ SagaFault /\ identity' \in {identity, FALSE} /\ Move(p, "retry")
     \/ d1.ws = "gone" /\ identity' = identity /\ Move(p, "retry") /\ NoSagaFault
  /\ UNCHANGED <<d1, backup, ledger, objects, cached, accepted, cron, restored>>

MarkWorkOSDeleted(p) ==
  /\ pc[p] = "markIdentity"
  /\ \/ /\ JobIs("pending") /\ ~d1.job.workos
        /\ d1' = [d1 EXCEPT !.job.workos = TRUE, !.job.wait = NextAttempt(p)]
        /\ Done(p) /\ NoSagaFault
     \/ ~(JobIs("pending") /\ ~d1.job.workos) /\ d1' = d1 /\ Move(p, "retry") /\ NoSagaFault
     \/ SagaFault /\ d1' = d1 /\ Move(p, "retry")
  /\ UNCHANGED <<backup, storeVars, accepted, cron, restored>>

RetriedJob(p) == [d1.job EXCEPT !.wait = NextAttempt(p)]
(* recordDeletionRetry.                                                    *)
RecordDeletionRetry(p) ==
  /\ pc[p] = "retry"
  /\ \/ /\ d1' = IF d1.job # None /\ d1.job.status # "complete"
                   THEN [d1 EXCEPT !.job = RetriedJob(p)] ELSE d1
        /\ NoSagaFault
     \/ SagaFault /\ d1' = d1
  /\ Done(p)
  /\ UNCHANGED <<backup, storeVars, accepted, cron, restored>>

(* sweepWorkspaceR2, one prefix at a time: its last, empty listing.  A     *)
(* pass may run out of pages or of luck.                                   *)
SweepPrefix(p) ==
  /\ pc[p] = "sweep"
  /\ \/ /\ \E x \in loc[p].left :
             /\ objects' = objects \ {x}
             /\ loc' = [loc EXCEPT ![p].left = @ \ {x},
                                   ![p].deleted = @ \/ x \in objects]
        /\ pc' = pc /\ NoSagaFault
     \/ /\ loc[p].left = {} /\ objects' = objects
        /\ Move(p, IF loc[p].status = "pending" THEN "purge" ELSE "finish") /\ NoSagaFault
     \/ SagaFault /\ objects' = objects /\ Move(p, "retry")
  /\ UNCHANGED <<d1, backup, ledger, identity, cached, accepted, cron, restored>>

KVRestarted == [k \in Keys |-> IF d1.kv[k] = "none" THEN "none" ELSE "live"]
(* workspacePurgeStatements.                                               *)
Purged(p) ==
  [d1 EXCEPT !.ws = "gone", !.session = FALSE, !.keys = FALSE, !.kv = KVRestarted,
     !.job = IF JobIs("pending") /\ @.workos
       THEN [@ EXCEPT !.status = "r2_grace", !.wait = NextAttempt(p)] ELSE @]
PurgeWorkspace(p) ==
  /\ pc[p] = "purge"
  /\ \/ /\ d1' = Purged(p) /\ NoSagaFault
        /\ IF JobIs("pending") /\ d1.job.workos THEN Done(p) ELSE Move(p, "retry")
     \/ SagaFault /\ d1' \in {d1, Purged(p)} /\ Move(p, "retry")
  /\ UNCHANGED <<backup, storeVars, accepted, cron, restored>>

CompletedJob(p) == [d1.job EXCEPT !.status = "complete", !.wait = 0]
(* A sweep of the grace period that found nothing completes the job.       *)
FinishDeletion(p) ==
  /\ pc[p] = "finish"
  /\ \/ /\ loc[p].deleted /\ NoSagaFault
        /\ d1' = [d1 EXCEPT !.kv = KVRestarted,
             !.job = IF JobIs("r2_grace") THEN [@ EXCEPT !.wait = NextAttempt(p)] ELSE @]
     \/ /\ ~loc[p].deleted /\ NoSagaFault
        /\ d1' = [d1 EXCEPT !.kv = [k \in Keys |-> "none"],
             !.job = IF JobIs("r2_grace") THEN CompletedJob(p) ELSE @]
     \/ SagaFault /\ d1' = d1
  /\ Done(p)
  /\ UNCHANGED <<backup, storeVars, accepted, cron, restored>>

RequestStep(p) ==
  \/ Arrive(p) \/ ArriveWithKey(p) \/ ReadSession(p) \/ CheckLedger(p)
  \/ ReadVerdict(p) \/ CacheVerdict(p) \/ PutObject(p) \/ SignOut(p)
  \/ ReadLinks(p) \/ Prelock(p) \/ ReadExisting(p) \/ EnsureDeletionLedger(p)
  \/ CreateJob(p) \/ ReadJobAfterFailure(p)
KVStep(p) == KVRead(p) \/ KVDelete(p) \/ KVMark(p)
PassStep(p) ==
  \/ ReadDue(p) \/ AuthorizePass(p) \/ DeleteWorkOSIdentity(p) \/ MarkWorkOSDeleted(p)
  \/ RecordDeletionRetry(p) \/ SweepPrefix(p) \/ PurgeWorkspace(p) \/ FinishDeletion(p)

-------------------------------------------------------------------------------
(* The rest of the world                                                   *)

(* A Worker is evicted, or a call throws past every handler.               *)
Evict(p) ==
  /\ pc[p] # "idle"
  /\ SagaFault /\ Done(p)
  /\ UNCHANGED <<d1, backup, storeVars, accepted, cron, restored>>

(* The user joins another workspace; the triggers refuse that once the     *)
(* deletion is on record.                                                  *)
JoinOtherWorkspace ==
  /\ ~d1.linked /\ d1.ws # "gone" /\ ~JobIs("pending")
  /\ d1' = [d1 EXCEPT !.linked = TRUE]
  /\ UNCHANGED <<backup, storeVars, pc, loc, accepted, cron, sagaFaults, restored>>

(* The platform lets nothing run past its life.                            *)
Tick ==
  /\ \A p \in Procs : pc[p] # "idle" => loc[p].age < Life(p)
  /\ loc' = [p \in Procs |-> IF pc[p] = "idle" THEN loc[p]
                             ELSE [loc[p] EXCEPT !.age = @ + 1]]
  /\ d1' = IF d1.job # None /\ d1.job.wait > 0
             THEN [d1 EXCEPT !.job.wait = @ - 1] ELSE d1
  /\ cron' = IF cron > 0 THEN cron - 1 ELSE cron
  /\ cached' = [k \in Keys |-> IF cached[k] > 0 THEN cached[k] - 1 ELSE 0]
  /\ UNCHANGED <<backup, ledger, identity, objects, pc, accepted, sagaFaults, restored>>

(* D1 Time Travel: a state of the past comes back while traffic and cron   *)
(* are quiesced.                                                           *)
Bookmark ==
  /\ ~restored /\ sagaFaults < MaxSagaFaults
  /\ backup' = d1
  /\ UNCHANGED <<d1, storeVars, pc, loc, accepted, cron, sagaFaults, restored>>

RestoreD1 ==
  /\ ~restored /\ restored' = TRUE
  /\ SagaFault
  /\ \A p \in Procs : pc[p] = "idle"
  /\ d1' = backup
  /\ UNCHANGED <<backup, storeVars, pc, loc, accepted, cron>>

DeletionNext ==
  \/ \E p \in Requests : RequestStep(p)
  \/ \E p \in Passes : PassStep(p)
  \/ \E p \in Procs : KVStep(p) \/ Evict(p)
  \/ JoinOtherWorkspace \/ Tick \/ Bookmark \/ RestoreD1

DeletionSpec == DeletionInit /\ [][DeletionNext]_deletionVars

-------------------------------------------------------------------------------
(* Properties                                                              *)

SagaLabels == {"idle", "session", "fence", "verdict", "cache", "put", "signout", "delete",
           "prelock", "ensure", "existing", "job", "jobFailed", "kvRead", "kvDelete",
           "kvMark", "authorize", "identity", "markIdentity", "retry", "sweep", "purge",
           "finish"}
(* Every variable stays in its domain, the CHECKs of workspace_deletions   *)
(* included.                                                               *)
ChecksHold(db) ==
  db.job # None => /\ db.job.status # "pending" => db.job.workos
                   /\ db.job.status = "complete" => db.job.wait = 0
TenantOK == d1 \in Database /\ backup \in Database /\ ChecksHold(d1) /\ ChecksHold(backup)
ProcessesOK == pc \in [Procs -> SagaLabels] /\ loc \in [Procs -> Local]
StoresOK ==
  /\ ledger \in BOOLEAN /\ identity \in BOOLEAN /\ accepted \in BOOLEAN
  /\ objects \subseteq Prefixes /\ cached \in [Keys -> 0 .. VerdictLife]
  /\ cron \in 0 .. CronEvery
  /\ sagaFaults \in 0 .. MaxSagaFaults /\ restored \in BOOLEAN
DeletionTypeOK == TenantOK /\ ProcessesOK /\ StoresOK

(* Once anybody was told that the account is being deleted, no session is  *)
(* ever admitted again, not even on a D1 restored to the time before (the  *)
(* head comment of deletion_ledger.ts).                                    *)
AdmissionStep ==
  accepted => \A p \in Requests :
    pc[p] = "fence" => pc'[p] \in {"fence", "idle"}
NoResurrection == [][AdmissionStep]_deletionVars

(* "HandoffGraph keeps the local provider mapping and all tenant D1 data   *)
(* until this succeeds" (privacy.md:170): the tenant's rows go last, after *)
(* the identity, and only behind the ledger.                               *)
RowsOutliveIdentity == d1.ws = "gone" => ~identity /\ ledger

(* When the job says complete nothing of the tenant is left anywhere: no   *)
(* request that authenticated before the revocation, and no verdict cached *)
(* by one, brings back an object or a KV entry.                            *)
CompleteMeansErased ==
  JobIs("complete") =>
    d1.ws = "gone" /\ ~identity /\ objects = {}
    /\ \A k \in Keys : cached[k] = 0 /\ d1.kv[k] = "none"

(* Sign-out is the arbiter: a deletion that comes after it locks nothing   *)
(* and writes no permanent ledger (privacy.md:143).                        *)
SignOutStep ==
  /\ d1.ws = "active" => ledger' = ledger
  /\ (d1.ws = "active" /\ ~d1.session) => d1'.ws = "active"
SignOutFirstWins == [][RestoreD1 \/ SignOutStep]_deletionVars

(* "failures after job creation leave the workspace locked and retry       *)
(* automatically" (privacy.md:185): a deletion that was accepted ends.     *)
DeletionCompletes == accepted ~> (JobIs("complete") \/ restored)
===============================================================================
