----------------------------- MODULE HostedIngest -----------------------------
(***************************************************************************)
(* POST /v1/event-batches of the hosted Worker: handleEventBatches in      *)
(* platform/src/index.ts, the quota module it calls and the D1 triggers    *)
(* its final batch fires.                                                  *)
(*                                                                         *)
(* Every request is a process.  A process keeps nothing but locals between *)
(* two awaited storage calls, so each action is one awaited call and the   *)
(* code up to the next one; other requests, revocation, account deletion   *)
(* and the clock move in between.  The final D1 batch is one transaction   *)
(* and one action.  An evicted Worker is a process that takes no further   *)
(* step.                                                                   *)
(***************************************************************************)
EXTENDS Integers, FiniteSets, Functions

CONSTANTS
  Requests,      \* request processes
  Workspaces, Devices, Keys,
  Home,          \* the workspace a device row is bound to
  CanIngest,     \* the devices whose capabilities include "ingest"
  EventIds, Contents,
  Bodies,        \* raw request bodies that pass validateEventBatch
  EventsOf,      \* the <<event id, content>> pairs of a body's envelope
  Resources,     \* what is metered: events and bytes
  Cost,          \* what a body uses of each resource
  MaxBatch, MaxMonthly, MaxLifetime,
  Period,        \* length of an accounting period
  LegacySlots,   \* (workspace, key) pairs with a receipt older than 0003
  MaxTime,       \* bound: the clock stops here
  StorageFaults, \* whether D1 and R2 calls may fail
  None

Pairs == EventIds \X Contents
Slots == Workspaces \X Keys
Amounts == [Resources -> Nat]

ASSUME IngestAssumption ==
  /\ Home \in [Devices -> Workspaces]
  /\ CanIngest \subseteq Devices
  /\ EventsOf \in [Bodies -> (SUBSET Pairs) \ {{}}]
  /\ Cost \in [Bodies -> Amounts]
  /\ MaxBatch \in Amounts /\ MaxMonthly \in Amounts /\ MaxLifetime \in Amounts
  /\ Period \in Nat \ {0} /\ MaxTime \in Nat
  /\ LegacySlots \subseteq Slots
  /\ StorageFaults \in BOOLEAN
  \* validateEventBatch refuses a batch that names one event id twice
  /\ \A b \in Bodies : \A x, y \in EventsOf[b] : x[1] = y[1] => x = y

(* Rows and messages.  A receipt older than 0003 has no request_hash.      *)
Request == [device : Devices, key : Keys, body : Bodies]
Reservation == [hash : SUBSET Pairs, cost : Amounts,
                status : {"pending", "allowed", "rejected"}, decided : Nat]
Receipt == [slot : Slots, ids : SUBSET EventIds]
ReceiptRow == [hash : {None} \cup SUBSET Pairs, receipt : Receipt]
Denials == {"unauthorized", "forbidden", "conflict", "evidence_conflict",
            "quota_configuration_error", "entitlement_inactive",
            "batch_exceeded", "monthly_exceeded", "lifetime_exceeded",
            "quota_reservation_rejected", "quota_unavailable", "internal"}
Answers == [kind : {"ok"}, receipt : Receipt] \cup [kind : Denials, receipt : {None}]

(* None stands for "no row", "no value": it is none of the above.          *)
ASSUME NoneAssumption ==
  /\ None \notin Request \cup Reservation \cup ReceiptRow \cup Answers
  /\ \A S \in SUBSET Pairs : None # S

VARIABLES
  pc, req, at, abort, answer,                    \* the request processes
  revoked, deleting, tombstoned, entitlement,    \* who may write
  reservations, receipts, evidence,              \* what is recorded
  periodStart, monthly, lifetime,                \* what is charged
  now

requestVars == <<pc, req, at, abort, answer>>
accessVars  == <<revoked, deleting, tombstoned, entitlement>>
ledgerVars  == <<reservations, receipts, evidence, periodStart, monthly, lifetime>>
vars == <<requestVars, accessVars, ledgerVars, now>>

-------------------------------------------------------------------------------
(* Locals of a request                                                     *)

Workspace(r) == Home[req[r].device]
Slot(r) == <<Workspace(r), req[r].key>>
RequestHash(b) == EventsOf[b]

(* buildReceipt: a digest of the workspace, the key and the event ids.     *)
BuildReceipt(s, b) == [slot |-> s, ids |-> {e[1] : e \in EventsOf[b]}]

(* A device that authenticates: not revoked, its workspace not prelocked.  *)
Active(d) == d \notin revoked /\ Home[d] \notin deleting

-------------------------------------------------------------------------------
(* Quota arithmetic                                                        *)

Zero == [x \in Resources |-> 0]
Plus(u, v) == [x \in Resources |-> u[x] + v[x]]
Exceeds(used, cost, max) ==
  \E x \in Resources : used[x] > max[x] \/ cost[x] > max[x] - used[x]

Expired(w, t) == periodStart[w] + Period <= t
PeriodAt(w, t) ==
  IF Expired(w, t)
    THEN periodStart[w] + ((t - periodStart[w]) \div Period) * Period
    ELSE periodStart[w]
MonthlyAt(w, t) == IF Expired(w, t) THEN Zero ELSE monthly[w]

(* readIngestPolicy and validateBatchAgainstPlan: the first failing check. *)
PolicyAnswer(w, b, t) ==
  CASE entitlement[w] = "missing" -> "quota_configuration_error"
    [] entitlement[w] = "suspended" -> "entitlement_inactive"
    [] Exceeds(Zero, Cost[b], MaxBatch) -> "batch_exceeded"
    [] Exceeds(MonthlyAt(w, t), Cost[b], MaxMonthly) -> "monthly_exceeded"
    [] Exceeds(lifetime[w], Cost[b], MaxLifetime) -> "lifetime_exceeded"
    [] OTHER -> "allowed"

-------------------------------------------------------------------------------
(* The D1 batch: which of its statements aborts, and what it writes        *)

(* quota_reservations: an existing row is ignored before any quota check,  *)
(* but not before the deletion guard.                                      *)
ReservationAbortsPreflightOnly(r) ==  \* mutant: no cap check in the trigger
  IF Workspace(r) \in tombstoned THEN {"deletion"} ELSE {}
ReservationAborts(r) ==
  LET w == Workspace(r)
      c == Cost[req[r].body]
      new == reservations[Slot(r)] = None
  IN (IF w \in tombstoned THEN {"deletion"} ELSE {}) \cup
     (IF new /\ entitlement[w] # "active" THEN {"entitlement"} ELSE {}) \cup
     (IF new /\ \/ Exceeds(Zero, c, MaxBatch)
                \/ Exceeds(MonthlyAt(w, at[r]), c, MaxMonthly)
                \/ Exceeds(lifetime[w], c, MaxLifetime)
        THEN {"quota"} ELSE {})

(* idempotency_keys: the commit-time fence, then UNIQUE (workspace, key).  *)
ReceiptAbortsOf0019(r) ==  \* mutant: the fence before migration 0022
  IF req[r].device \in revoked THEN {"device"}
  ELSE IF receipts[Slot(r)] # None THEN {"unique"} ELSE {}
ReceiptAborts(r) ==
  LET fence == (IF Active(req[r].device) THEN {} ELSE {"device"}) \cup
               (IF Workspace(r) \in tombstoned THEN {"deletion"} ELSE {})
  IN IF fence # {} THEN fence
     ELSE IF receipts[Slot(r)] # None THEN {"unique"} ELSE {}

(* events: one event id, one content, for ever.                            *)
EvidenceAbortsNever(r) == {}  \* mutant: INSERT OR IGNORE without the trigger
EvidenceAborts(r) ==
  IF \E e \in EventsOf[req[r].body], f \in evidence :
       f[1] = Workspace(r) /\ f[2][1] = e[1] /\ f[2][2] # e[2]
    THEN {"evidence"} ELSE {}

(* The messages the batch can abort with: its statements run in order.     *)
AbortReasons(r) ==
  IF ReservationAborts(r) # {} THEN ReservationAborts(r)
  ELSE IF ReceiptAborts(r) # {} THEN ReceiptAborts(r)
  ELSE EvidenceAborts(r)

(* The reservation triggers roll the period over and charge; an ignored    *)
(* reservation charges nothing.                                            *)
Reserve(r) ==
  LET w == Workspace(r)
      b == req[r].body
      new == reservations[Slot(r)] = None
  IN /\ reservations' = IF new
          THEN [reservations EXCEPT ![Slot(r)] =
                  [hash |-> RequestHash(b), cost |-> Cost[b],
                   status |-> "allowed", decided |-> at[r]]]
          ELSE reservations
     /\ periodStart' = IF new
          THEN [periodStart EXCEPT ![w] = PeriodAt(w, at[r])] ELSE periodStart
     /\ monthly' = IF new
          THEN [monthly EXCEPT ![w] = Plus(MonthlyAt(w, at[r]), Cost[b])]
          ELSE monthly
     /\ lifetime' = IF new
          THEN [lifetime EXCEPT ![w] = Plus(lifetime[w], Cost[b])] ELSE lifetime

ApplyBatchUnreserved(r) ==  \* mutant: the reservation is not in the batch
  LET b == req[r].body
  IN /\ receipts' = [receipts EXCEPT ![Slot(r)] =
          [hash |-> RequestHash(b), receipt |-> BuildReceipt(Slot(r), b)]]
     /\ evidence' = evidence \cup {<<Workspace(r), e>> : e \in EventsOf[b]}
     /\ UNCHANGED <<reservations, periodStart, monthly, lifetime>>
ApplyBatch(r) ==
  LET b == req[r].body
  IN /\ Reserve(r)
     /\ receipts' = [receipts EXCEPT ![Slot(r)] =
          [hash |-> RequestHash(b), receipt |-> BuildReceipt(Slot(r), b)]]
     /\ evidence' = evidence \cup {<<Workspace(r), e>> : e \in EventsOf[b]}

-------------------------------------------------------------------------------
(* Initial states: a provisioned deployment, perhaps with receipts that    *)
(* migration 0003 carried over without a request hash.                     *)

Init ==
  /\ pc = [r \in Requests |-> "idle"]
  /\ req = [r \in Requests |-> None]
  /\ at = [r \in Requests |-> 0]
  /\ abort = [r \in Requests |-> None]
  /\ answer = [r \in Requests |-> None]
  /\ revoked = {} /\ deleting = {} /\ tombstoned = {}
  /\ entitlement \in [Workspaces -> {"active", "suspended", "missing"}]
  /\ reservations = [s \in Slots |-> None]
  /\ receipts = [s \in Slots |->
       IF s \in LegacySlots
         THEN [hash |-> None, receipt |-> [slot |-> s, ids |-> {}]]
         ELSE None]
  /\ evidence = {}
  /\ periodStart = [w \in Workspaces |-> 0]
  /\ monthly = [w \in Workspaces |-> Zero]
  /\ lifetime = [w \in Workspaces |-> Zero]
  /\ now = 0

-------------------------------------------------------------------------------
(* Request steps                                                           *)

Goto(r, label) ==
  /\ pc' = [pc EXCEPT ![r] = label]
  /\ answer' = answer

Respond(r, kind, receipt) ==
  /\ pc' = [pc EXCEPT ![r] = "answered"]
  /\ answer' = [answer EXCEPT ![r] = [kind |-> kind, receipt |-> receipt]]

Deny(r, kind) == Respond(r, kind, None)

(* The answer to a request whose (workspace, key) already has a receipt.   *)
Replay(r) ==
  LET row == receipts[Slot(r)]
  IN IF row.hash # RequestHash(req[r].body)
       THEN Deny(r, "conflict")
       ELSE Respond(r, "ok", row.receipt)

Arrive(r) ==
  /\ pc[r] = "idle"
  /\ \E d \in Devices, k \in Keys, b \in Bodies :
       req' = [req EXCEPT ![r] = [device |-> d, key |-> k, body |-> b]]
  /\ Goto(r, "auth")
  /\ UNCHANGED <<at, abort, accessVars, ledgerVars, now>>

Authenticate(r) ==
  /\ pc[r] = "auth"
  /\ \/ /\ Active(req[r].device)
        /\ IF req[r].device \in CanIngest
             THEN Goto(r, "receipt") ELSE Deny(r, "forbidden")
     \/ /\ ~Active(req[r].device) \/ StorageFaults
        /\ Deny(r, "unauthorized")
  /\ UNCHANGED <<req, at, abort, accessVars, ledgerVars, now>>

(* A fault in a receipt read escapes the handler: the router answers 500.  *)
ReadReceipt(r) ==
  /\ pc[r] = "receipt"
  /\ \/ receipts[Slot(r)] # None /\ Replay(r) /\ at' = at
     \/ /\ receipts[Slot(r)] = None
        /\ Goto(r, "reservation")
        /\ at' = [at EXCEPT ![r] = now]
     \/ StorageFaults /\ Deny(r, "internal") /\ at' = at
  /\ UNCHANGED <<req, abort, accessVars, ledgerVars, now>>

(* prepareQuotaReservation, first await: the reservation of this key.  It  *)
(* runs before the batch and again after a failed one.                     *)
ReservationVerdict(r) ==
  LET row == reservations[Slot(r)]
  IN CASE row = None -> "free"
       [] row # None /\ \/ row.hash # RequestHash(req[r].body)
                        \/ row.cost # Cost[req[r].body] -> "conflict"
       [] OTHER -> CASE row.status = "allowed" -> "duplicate"
                     [] row.status = "rejected" -> "quota_reservation_rejected"
                     [] OTHER -> "quota_unavailable"

(* prepareQuotaReservation, second await: the entitlement row.             *)
PolicyVerdict(r) == PolicyAnswer(Workspace(r), req[r].body, at[r])

(* A failing quota read denies: hosted ingest never continues unmetered.   *)
QuotaReadFails(r) == StorageFaults /\ Deny(r, "quota_unavailable")

ReadReservation(r) ==
  /\ pc[r] = "reservation"
  /\ \/ ReservationVerdict(r) = "free" /\ Goto(r, "policy")
     \/ ReservationVerdict(r) = "duplicate" /\ Goto(r, "winner")
     \/ /\ ReservationVerdict(r) \notin {"free", "duplicate"}
        /\ Deny(r, ReservationVerdict(r))
     \/ QuotaReadFails(r)
  /\ UNCHANGED <<req, at, abort, accessVars, ledgerVars, now>>

ReadPolicy(r) ==
  /\ pc[r] = "policy"
  /\ \/ PolicyVerdict(r) = "allowed" /\ Goto(r, "commit")
     \/ PolicyVerdict(r) # "allowed" /\ Deny(r, PolicyVerdict(r))
     \/ QuotaReadFails(r)
  /\ UNCHANGED <<req, at, abort, accessVars, ledgerVars, now>>

(* An identical request won between the two reads: answer with its receipt. *)
ReadWinner(r) ==
  /\ pc[r] = "winner"
  /\ \/ receipts[Slot(r)] # None /\ Replay(r)
     \/ receipts[Slot(r)] = None /\ Deny(r, "quota_unavailable")
     \/ StorageFaults /\ Deny(r, "internal")
  /\ UNCHANGED <<req, at, abort, accessVars, ledgerVars, now>>

(* env.DB.batch.  It commits, or commits and the acknowledgement is lost,  *)
(* or aborts as a whole.                                                   *)
Commit(r) ==
  /\ pc[r] = "commit"
  /\ \/ /\ AbortReasons(r) = {}
        /\ ApplyBatch(r)
        /\ \/ /\ Respond(r, "ok", BuildReceipt(Slot(r), req[r].body))
              /\ abort' = abort
           \/ /\ StorageFaults
              /\ Goto(r, "loser")
              /\ abort' = [abort EXCEPT ![r] = "storage"]
     \/ /\ \E e \in AbortReasons(r) \cup (IF StorageFaults THEN {"storage"} ELSE {}) :
             IF e \in {"device", "deletion"}
               THEN Deny(r, "unauthorized") /\ abort' = abort
               ELSE Goto(r, "loser") /\ abort' = [abort EXCEPT ![r] = e]
        /\ UNCHANGED ledgerVars
  /\ UNCHANGED <<req, at, accessVars, now>>

(* After a failed batch: whoever holds the key now is authoritative.       *)
ReadWinnerAfterFailure(r) ==
  /\ pc[r] = "loser"
  /\ \/ receipts[Slot(r)] # None /\ Replay(r)
     \/ receipts[Slot(r)] = None /\ abort[r] = "evidence" /\ Deny(r, "evidence_conflict")
     \/ receipts[Slot(r)] = None /\ abort[r] # "evidence" /\ Goto(r, "recheck")
     \/ StorageFaults /\ Deny(r, "internal")
  /\ UNCHANGED <<req, at, abort, accessVars, ledgerVars, now>>

RecheckReservation(r) ==
  /\ pc[r] = "recheck"
  /\ \/ ReservationVerdict(r) = "free" /\ Goto(r, "explain")
     \/ ReservationVerdict(r) = "duplicate" /\ Deny(r, "internal")
     \/ /\ ReservationVerdict(r) \notin {"free", "duplicate"}
        /\ Deny(r, ReservationVerdict(r))
     \/ QuotaReadFails(r)
  /\ UNCHANGED <<req, at, abort, accessVars, ledgerVars, now>>

RecheckPolicy(r) ==
  /\ pc[r] = "explain"
  /\ \/ PolicyVerdict(r) = "allowed" /\ Deny(r, "internal")
     \/ PolicyVerdict(r) # "allowed" /\ Deny(r, PolicyVerdict(r))
     \/ QuotaReadFails(r)
  /\ UNCHANGED <<req, at, abort, accessVars, ledgerVars, now>>

-------------------------------------------------------------------------------
(* What else moves while a request waits                                   *)

RevokeDevice(d) ==
  /\ Active(d)
  /\ revoked' = revoked \cup {d}
  /\ UNCHANGED <<requestVars, deleting, tombstoned, entitlement, ledgerVars, now>>

(* Account deletion first prelocks the workspace in D1; the tombstone and  *)
(* the revocation of every device follow in one later batch.               *)
PrelockWorkspace(w) ==
  /\ w \notin deleting
  /\ deleting' = deleting \cup {w}
  /\ UNCHANGED <<requestVars, revoked, tombstoned, entitlement, ledgerVars, now>>

CreateDeletionJob(w) ==
  /\ w \in deleting \ tombstoned
  /\ tombstoned' = tombstoned \cup {w}
  /\ revoked' = revoked \cup {d \in Devices : Home[d] = w}
  /\ UNCHANGED <<requestVars, deleting, entitlement, ledgerVars, now>>

Tick ==
  /\ now < MaxTime
  /\ now' = now + 1
  /\ UNCHANGED <<requestVars, accessVars, ledgerVars>>

RequestStep(r) ==
  \/ Arrive(r) \/ Authenticate(r) \/ ReadReceipt(r)
  \/ ReadReservation(r) \/ ReadPolicy(r) \/ ReadWinner(r) \/ Commit(r)
  \/ ReadWinnerAfterFailure(r) \/ RecheckReservation(r) \/ RecheckPolicy(r)

Next ==
  \/ \E r \in Requests : RequestStep(r)
  \/ \E d \in Devices : RevokeDevice(d)
  \/ \E w \in Workspaces : PrelockWorkspace(w) \/ CreateDeletionJob(w)
  \/ Tick

Spec == Init /\ [][Next]_vars

-------------------------------------------------------------------------------
(* Properties                                                              *)

Labels == {"idle", "auth", "receipt", "reservation", "policy", "winner",
           "commit", "loser", "recheck", "explain", "answered"}
(* Every variable stays in its domain, and only a request that has arrived *)
(* has a device, a key and a body.                                         *)
TypeOK ==
  /\ pc \in [Requests -> Labels]
  /\ req \in [Requests -> Request \cup {None}]
  /\ \A r \in Requests : req[r] = None <=> pc[r] = "idle"
  /\ at \in [Requests -> Nat]
  /\ abort \in [Requests -> {"entitlement", "quota", "unique", "evidence", "storage", None}]
  /\ answer \in [Requests -> Answers \cup {None}]
  /\ \A r \in Requests : answer[r] # None <=> pc[r] = "answered"
  /\ revoked \subseteq Devices
  /\ deleting \subseteq Workspaces /\ tombstoned \subseteq deleting
  /\ entitlement \in [Workspaces -> {"active", "suspended", "missing"}]
  /\ reservations \in [Slots -> Reservation \cup {None}]
  /\ \A s \in Slots : reservations[s] # None => reservations[s].status = "allowed"
  /\ receipts \in [Slots -> ReceiptRow \cup {None}]
  /\ evidence \subseteq Workspaces \X Pairs
  /\ periodStart \in [Workspaces -> Nat]
  /\ monthly \in [Workspaces -> Amounts] /\ lifetime \in [Workspaces -> Amounts]
  /\ now \in Nat

(* The quota charge, the receipt and the evidence of a batch exist         *)
(* together or not at all, whichever request wrote them and whatever it    *)
(* lost to (index.ts: the reservation is in the same D1 batch).  A legacy  *)
(* receipt stays and is never charged.                                     *)
AtomicAcceptance ==
  /\ \A s \in Slots \ LegacySlots :
       /\ receipts[s] = None <=> reservations[s] = None
       /\ receipts[s] # None =>
            /\ receipts[s].hash = reservations[s].hash
            /\ \A e \in receipts[s].hash : <<s[1], e>> \in evidence
  /\ \A s \in LegacySlots :
       receipts[s] # None /\ receipts[s].hash = None /\ reservations[s] = None

(* The requests racing for one key are all told the same: an accepted      *)
(* answer carries the receipt on record, and that record is of the very    *)
(* batch the request sent.                                                 *)
AnswersMatchLedger ==
  \A r \in Requests : answer[r] # None /\ answer[r].kind = "ok" =>
    /\ receipts[Slot(r)] # None
    /\ receipts[Slot(r)].hash = RequestHash(req[r].body)
    /\ receipts[Slot(r)].receipt = answer[r].receipt

(* Seeing an allowed reservation means the receipt can be re-read: the     *)
(* 503 branch of the re-read is never taken (the comment at index.ts:929). *)
DuplicateHasReceipt ==
  \A r \in Requests : pc[r] = "winner" =>
    /\ receipts[Slot(r)] # None
    /\ receipts[Slot(r)].hash = RequestHash(req[r].body)

(* One event identity of a workspace has one content.                      *)
OneContent ==
  \A x, y \in evidence : x[1] = y[1] /\ x[2][1] = y[2][1] => x = y

Charged(w) == {k \in Keys : reservations[<<w, k>>] # None}
Charges(w, x) == [k \in Charged(w) |-> reservations[<<w, k>>].cost[x]]

(* The lifetime counters are exactly what the accepted batches used, no    *)
(* retry or race charged twice or for nothing, and never beyond the caps.  *)
LifetimeIsExact ==
  \A w \in Workspaces, x \in Resources :
    lifetime[w][x] = SumFunction(Charges(w, x)) /\ lifetime[w][x] <= MaxLifetime[x]

(* A request that stamped its time before a rollover may charge the period *)
(* after it, never the reverse: the batches decided inside the current     *)
(* period are all on its counter, and the counter is within the cap.       *)
DecidedNow(w) == {k \in Charged(w) : reservations[<<w, k>>].decided >= periodStart[w]}
MonthlyIsConservative ==
  \A w \in Workspaces, x \in Resources :
    /\ SumFunctionOnSet(Charges(w, x), DecidedNow(w)) <= monthly[w][x]
    /\ monthly[w][x] <= MaxMonthly[x]

(* What is charged is what was accepted: for the life of the workspace     *)
(* exactly, and never less than it in the running period.                  *)
CountersAreSound == LifetimeIsExact /\ MonthlyIsConservative

(* A monthly counter goes down only when its period moves forward by a     *)
(* whole number of periods, and never ahead of the clock: a request with   *)
(* an old timestamp cannot reset a newer period.                           *)
RolloverStep ==
  \A w \in Workspaces :
    /\ periodStart'[w] >= periodStart[w]
    /\ (periodStart'[w] - periodStart[w]) % Period = 0
    /\ periodStart'[w] <= now
    /\ (\E x \in Resources : monthly'[w][x] < monthly[w][x])
         => periodStart'[w] > periodStart[w]
RolloverOnlyForward == [][RolloverStep]_vars

(* Receipts, reservations and evidence are written once and never changed. *)
AppendStep ==
  /\ evidence \subseteq evidence'
  /\ \A s \in Slots :
       /\ receipts[s] # None => receipts'[s] = receipts[s]
       /\ reservations[s] # None => reservations'[s] = reservations[s]
AppendOnly == [][AppendStep]_vars

(* The commit is the authorization boundary: what authenticated before a   *)
(* revocation or an account deletion writes nothing after it, and neither  *)
(* a receipt, a charge nor evidence appears in a prelocked workspace.      *)
FenceStep ==
  /\ \A w \in deleting :
       /\ monthly'[w] = monthly[w] /\ lifetime'[w] = lifetime[w]
       /\ periodStart'[w] = periodStart[w]
       /\ \A k \in Keys : /\ receipts'[<<w, k>>] = receipts[<<w, k>>]
                          /\ reservations'[<<w, k>>] = reservations[<<w, k>>]
       /\ \A x \in evidence' : x[1] = w => x \in evidence
  /\ \A r \in Requests : pc[r] = "commit" /\ pc'[r] # "commit"
                         /\ req[r].device \in revoked => UNCHANGED ledgerVars
FencedWrites == [][FenceStep]_vars

(* What clients are promised: at most one batch per (workspace, key), with *)
(* its evidence, accepted in one step (IngestLedger).                      *)
Ledger == INSTANCE IngestLedger WITH
  Batches <- {EventsOf[b] : b \in Bodies}, NoBatch <- None,
  accepted <- [s \in Slots |-> IF receipts[s] = None THEN None ELSE receipts[s].hash]
ImplementsLedger == Ledger!Spec
===============================================================================
