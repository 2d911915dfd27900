------------------------------ MODULE HostedSync ------------------------------
(***************************************************************************)
(* `handoffgraph sync`: Run in internal/hostedsync/sync.go with its state  *)
(* file and its lock, against the hosted service seen as an IngestLedger.  *)
(*                                                                         *)
(* Each invocation is a process that may die between any two steps.  What  *)
(* survives it is the state file (one record per scope, written by an      *)
(* atomic rename), the local event log and whatever it already sent.  A    *)
(* request can be lost, processed late, or processed again: once sent it   *)
(* stays in flight for ever.                                               *)
(***************************************************************************)
EXTENDS Integers

CONSTANTS
  Procs,          \* concurrent invocations
  Tokens,         \* device credentials
  Stores,         \* canonical paths of local event stores
  Workspaces,
  Home,           \* the workspace the server binds a credential to
  Policies,       \* redaction policies the user may configure
  Unsafe,         \* <<store, sequence>> of the events whose redaction fails
  WipesState,     \* the stores whose data directory holds the state file
  BatchSize,
  MaxEvents,      \* bound: captures per store and epoch
  MaxResets,      \* bound: hard resets per store
  None

Scopes == Tokens \X Stores
Epochs == 0 .. MaxResets
Seqs == 0 .. MaxEvents
Files == Stores \X Epochs

(* A canonical redacted envelope: which stretch of which log, redacted by  *)
(* which policy, and the workspace it names.  Its idempotency key is its   *)
(* digest, so the body stands for its own key.                             *)
Body == [ws : Workspaces \cup {None}, store : Stores, epoch : Epochs,
         after : Seqs, through : Seqs, policy : Policies]
(* One scope of the state file, bound to one workspace by its first receipt. *)
ScopeState == [cursor : Seqs, ws : Workspaces \cup {None},
               accepted : BOOLEAN, pending : Body \cup {None}]
(* The options of an invocation, and the high-water mark it captures.      *)
Options == [token : Tokens, store : Stores, epoch : Epochs, policy : Policies,
            preview : BOOLEAN, accept : BOOLEAN, hwm : Seqs]

ASSUME SyncAssumption ==
  /\ Home \in [Tokens -> Workspaces]
  /\ Unsafe \subseteq Stores \X Nat
  /\ WipesState \subseteq Stores
  /\ BatchSize \in Nat \ {0} /\ MaxEvents \in Nat /\ MaxResets \in Nat
  /\ None \notin Procs \cup Workspaces \cup Body \cup Options \cup [Scopes -> ScopeState]
  /\ \A S \in SUBSET ((Stores \X Epochs \X Seqs) \X Policies) : None # S

VARIABLES
  pc, run, mem,    \* an invocation: its step, its options, its copy of the file
  lock,            \* who holds the lock file
  disk,            \* the state file
  log, epoch,      \* events captured in each database file, and the current one
  sent,            \* <<credential, body>> of every request ever sent
  receipts         \* <<workspace, body>> of every batch the server accepted

procVars == <<pc, run, mem>>
localVars == <<log, epoch>>
vars == <<procVars, lock, disk, localVars, sent, receipts>>

-------------------------------------------------------------------------------
(* The server                                                              *)

BodyEvents(b) ==
  {<<<<b.store, b.epoch, n>>, b.policy>> : n \in b.after + 1 .. b.through}
Evidence == UNION {{<<x[1], e>> : e \in BodyEvents(x[2])} : x \in receipts}

Ledger == INSTANCE IngestLedger WITH
  Slots <- Workspaces \X Body,
  Batches <- {BodyEvents(b) : b \in Body},
  NoBatch <- None,
  accepted <- [s \in Workspaces \X Body |->
                 IF s \in receipts THEN BodyEvents(s[2]) ELSE None],
  evidence <- Evidence

(* A body that names another workspace is refused with 404, one that gives *)
(* an event other content with 409; a replay finds its receipt.            *)
Serves(t, b) ==
  /\ b.ws \in {None, Home[t]}
  /\ \/ <<Home[t], b>> \in receipts
     \/ Ledger!Consistent(Evidence \cup Ledger!Recorded(<<Home[t], b>>, BodyEvents(b)))
Record(t, b) == receipts' = receipts \cup {<<Home[t], b>>}

-------------------------------------------------------------------------------
(* The state file, and how an invocation ends                              *)

NewScope == [cursor |-> 0, ws |-> None, accepted |-> FALSE, pending |-> None]
NewDiskState == [sc \in Scopes |-> NewScope]

Scope(p) == <<run[p].token, run[p].store>>
Mine(p) == mem[p][Scope(p)]
HighWatermark(p) == log[<<run[p].store, run[p].epoch>>]

Goto(p, label) == pc' = [pc EXCEPT ![p] = label] /\ UNCHANGED <<run, lock>>
(* Every return, every error and a dead process: the kernel drops the lock. *)
Finish(p) ==
  /\ pc' = [pc EXCEPT ![p] = "idle"]
  /\ run' = [run EXCEPT ![p] = None]
  /\ mem' = [mem EXCEPT ![p] = None]
  /\ lock' = IF lock = p THEN None ELSE lock

SetMine(p, rec) == mem' = [mem EXCEPT ![p] = [@ EXCEPT ![Scope(p)] = rec]]

(* A save is an atomic rename: it happened, or the run ends without it.    *)
SaveState(p, label) ==
  \/ Goto(p, label) /\ disk' = mem[p] /\ mem' = mem
  \/ Finish(p) /\ disk' = disk

-------------------------------------------------------------------------------
(* What Run decides                                                        *)

(* validatePending: the resume is exact.                                   *)
PendingUsable(rec, hwm) ==
  rec.pending # None =>
    /\ rec.pending.after = rec.cursor
    /\ rec.pending.through > rec.pending.after
    /\ rec.pending.through <= hwm
    /\ rec.pending.ws = rec.ws

(* previewRange: every event after the cursor, or after the pending batch, *)
(* goes through the whole redaction pipeline.                              *)
RangeRedacts(p) ==
  LET from == IF Mine(p).pending = None THEN Mine(p).cursor ELSE Mine(p).pending.through
  IN \A n \in from + 1 .. HighWatermark(p) : <<run[p].store, n>> \notin Unsafe

MayUpload(p) ==
  /\ Mine(p).cursor < HighWatermark(p)
  /\ PendingUsable(Mine(p), HighWatermark(p))
  /\ RangeRedacts(p)
  /\ ~run[p].preview
  /\ Mine(p).accepted \/ run[p].accept

(* buildPending: the longest prefix of at most BatchSize events that fits  *)
(* the byte limit; any non-empty prefix may be the one that fits.          *)
NextBatch(p) ==
  [ws : {Mine(p).ws}, store : {run[p].store}, epoch : {run[p].epoch},
   after : {Mine(p).cursor},
   through : {n \in Mine(p).cursor + 1 .. run[p].hwm : n <= Mine(p).cursor + BatchSize},
   policy : {run[p].policy}]

AdvancedToMark(p) ==  \* mutant: the cursor jumps to the high-water mark
  [Mine(p) EXCEPT !.cursor = run[p].hwm, !.pending = None,
                  !.ws = Home[run[p].token]]
AdvancedStillPending(p) ==  \* mutant: the acknowledged batch stays pending
  [Mine(p) EXCEPT !.cursor = @ + BatchSize, !.ws = Home[run[p].token]]
(* A validated receipt moves the cursor to the end of the pending batch.   *)
Advanced(p) ==
  [Mine(p) EXCEPT !.cursor = Mine(p).pending.through, !.pending = None,
                  !.ws = Home[run[p].token]]

-------------------------------------------------------------------------------
(* An invocation, step by step                                             *)

Start(p) ==
  /\ pc[p] = "idle"
  /\ \E t \in Tokens, s \in Stores, pol \in Policies, pre, acc \in BOOLEAN :
       run' = [run EXCEPT ![p] =
         [token |-> t, store |-> s, epoch |-> epoch[s], policy |-> pol,
          preview |-> pre, accept |-> acc, hwm |-> 0]]
  /\ pc' = [pc EXCEPT ![p] = "lock"]
  /\ UNCHANGED <<mem, lock, disk, localVars, sent, receipts>>

AcquireStateLockIgnored(p) ==  \* mutant: a held lock does not stop the run
  /\ pc[p] = "lock"
  /\ pc' = [pc EXCEPT ![p] = "load"]
  /\ lock' = IF run[p].preview THEN lock ELSE p
  /\ UNCHANGED <<run, mem, disk, localVars, sent, receipts>>
(* A mutating run takes the lock or fails at once; a preview takes none.   *)
AcquireStateLock(p) ==
  /\ pc[p] = "lock"
  /\ IF run[p].preview \/ lock = None
       THEN /\ pc' = [pc EXCEPT ![p] = "load"]
            /\ lock' = IF run[p].preview THEN lock ELSE p
            /\ UNCHANGED <<run, mem>>
       ELSE Finish(p)
  /\ UNCHANGED <<disk, localVars, sent, receipts>>

LoadState(p) ==
  /\ pc[p] = "load"
  /\ mem' = [mem EXCEPT ![p] = disk]
  /\ Goto(p, "preview")
  /\ UNCHANGED <<disk, localVars, sent, receipts>>

Preview(p) ==
  /\ pc[p] = "preview"
  /\ \/ /\ MayUpload(p)
        /\ run' = [run EXCEPT ![p].hwm = HighWatermark(p)]
        /\ SetMine(p, [Mine(p) EXCEPT !.accepted = TRUE])
        /\ pc' = [pc EXCEPT ![p] = IF Mine(p).accepted THEN "loop" ELSE "saveAcceptance"]
        /\ lock' = lock
     \/ ~MayUpload(p) /\ Finish(p)
  /\ UNCHANGED <<disk, localVars, sent, receipts>>

SaveAcceptance(p) ==
  /\ pc[p] = "saveAcceptance"
  /\ SaveState(p, "loop")
  /\ UNCHANGED <<localVars, sent, receipts>>

BuildPendingAnew(p) ==  \* mutant: a pending batch is built again
  /\ pc[p] = "loop"
  /\ \/ /\ Mine(p).cursor < run[p].hwm
        /\ \E b \in NextBatch(p) : SetMine(p, [Mine(p) EXCEPT !.pending = b])
        /\ Goto(p, "savePending")
     \/ Mine(p).cursor >= run[p].hwm /\ Finish(p)
  /\ UNCHANGED <<disk, localVars, sent, receipts>>
BuildPending(p) ==
  /\ pc[p] = "loop"
  /\ \/ Mine(p).pending # None /\ Goto(p, "post") /\ mem' = mem
     \/ /\ Mine(p).pending = None /\ Mine(p).cursor < run[p].hwm
        /\ \E b \in NextBatch(p) : SetMine(p, [Mine(p) EXCEPT !.pending = b])
        /\ Goto(p, "savePending")
     \/ Mine(p).pending = None /\ Mine(p).cursor >= run[p].hwm /\ Finish(p)
  /\ UNCHANGED <<disk, localVars, sent, receipts>>

SavePending(p) ==
  /\ pc[p] = "savePending"
  /\ SaveState(p, "post")
  /\ UNCHANGED <<localVars, sent, receipts>>

PostPending(p) ==
  /\ pc[p] = "post"
  /\ sent' = sent \cup {<<run[p].token, Mine(p).pending>>}
  /\ Goto(p, "wait")
  /\ UNCHANGED <<mem, disk, localVars, receipts>>

(* The server answers 200 with a receipt that matches the batch.           *)
ReceiveReceipt(p) ==
  /\ pc[p] = "wait"
  /\ Serves(run[p].token, Mine(p).pending)
  /\ Record(run[p].token, Mine(p).pending)
  /\ SetMine(p, Advanced(p))
  /\ Goto(p, "saveCursor")
  /\ UNCHANGED <<disk, localVars, sent>>

(* Timeout, any other status, or a receipt that fails a check.             *)
PostFails(p) ==
  /\ pc[p] = "wait"
  /\ Finish(p)
  /\ UNCHANGED <<disk, localVars, sent, receipts>>

SaveCursor(p) ==
  /\ pc[p] = "saveCursor"
  /\ SaveState(p, "loop")
  /\ UNCHANGED <<localVars, sent, receipts>>

RunStep(p) ==
  \/ AcquireStateLock(p) \/ LoadState(p) \/ Preview(p) \/ SaveAcceptance(p)
  \/ BuildPending(p) \/ SavePending(p) \/ PostPending(p)
  \/ ReceiveReceipt(p) \/ PostFails(p) \/ SaveCursor(p)

-------------------------------------------------------------------------------
(* What else happens                                                       *)

Crash(p) ==
  /\ pc[p] # "idle"
  /\ Finish(p)
  /\ UNCHANGED <<disk, localVars, sent, receipts>>

(* A request whose sender is gone, or one the transport sends again.       *)
DeliverLate(t, b) ==
  /\ Serves(t, b)
  /\ Record(t, b)
  /\ UNCHANGED <<procVars, lock, disk, localVars, sent>>

Capture(s) ==
  /\ log[<<s, epoch[s]>>] < MaxEvents
  /\ log' = [log EXCEPT ![<<s, epoch[s]>>] = @ + 1]
  /\ UNCHANGED <<procVars, lock, disk, epoch, sent, receipts>>

(* `reset --hard --yes`: the data directory is emptied and the next        *)
(* command creates a new database at the same path.  A running sync keeps  *)
(* the old one open.  The state file and its lock go too where they live   *)
(* in that directory.                                                      *)
ResetHard(s) ==
  /\ epoch[s] < MaxResets
  /\ epoch' = [epoch EXCEPT ![s] = @ + 1]
  /\ disk' = IF s \in WipesState THEN NewDiskState ELSE disk
  /\ lock' = IF s \in WipesState THEN None ELSE lock
  /\ UNCHANGED <<procVars, log, sent, receipts>>

-------------------------------------------------------------------------------
Init ==
  /\ pc = [p \in Procs |-> "idle"]
  /\ run = [p \in Procs |-> None]
  /\ mem = [p \in Procs |-> None]
  /\ lock = None
  /\ disk = NewDiskState
  /\ log = [f \in Files |-> 0]
  /\ epoch = [s \in Stores |-> 0]
  /\ sent = {} /\ receipts = {}

Next ==
  \/ \E p \in Procs : Start(p) \/ RunStep(p) \/ Crash(p)
  \/ \E x \in sent : DeliverLate(x[1], x[2])
  \/ \E s \in Stores : Capture(s)

Spec == Init /\ [][Next]_vars

NextWithResets == Next \/ \E s \in Stores : ResetHard(s)
SpecWithResets == Init /\ [][NextWithResets]_vars

-------------------------------------------------------------------------------
(* Properties                                                              *)

Labels == {"idle", "lock", "load", "preview", "saveAcceptance", "loop",
           "savePending", "post", "wait", "saveCursor"}
(* Every variable stays in its domain, and an invocation has options and a *)
(* copy of the state file exactly while it needs them.                     *)
TypeOK ==
  /\ pc \in [Procs -> Labels]
  /\ run \in [Procs -> Options \cup {None}]
  /\ \A p \in Procs : run[p] = None <=> pc[p] = "idle"
  /\ mem \in [Procs -> [Scopes -> ScopeState] \cup {None}]
  /\ \A p \in Procs : mem[p] = None <=> pc[p] \in {"idle", "lock", "load"}
  /\ lock \in Procs \cup {None}
  /\ disk \in [Scopes -> ScopeState]
  /\ log \in [Files -> Seqs] /\ epoch \in [Stores -> Epochs]
  /\ sent \subseteq Tokens \X Body
  /\ receipts \subseteq Workspaces \X Body

(* Every captured event at or before a durable cursor is on record in the  *)
(* hosted workspace, whatever crashed, was lost or came late: sync never   *)
(* skips an event of the store it is pointed at.                           *)
CursorMeansDelivered ==
  \A t \in Tokens, s \in Stores : \A n \in 1 .. log[<<s, epoch[s]>>] :
    n <= disk[<<t, s>>].cursor => \E pol \in Policies  :
      <<Home[t], <<<<s, epoch[s], n>>, pol>>>> \in Evidence

(* What a scope sends a second time is byte for byte what it sent before,  *)
(* so the server replays instead of charging twice (hosted-sync.md,        *)
(* "Retry and tenant guarantees"); what is new does not overlap the old.   *)
Overlap(b, c) == b.epoch = c.epoch /\ b.after < c.through /\ c.after < b.through
ReplaysAreExact ==
  \A x, y \in sent :
    x[1] = y[1] /\ x[2].store = y[2].store /\ Overlap(x[2], y[2]) => x = y

(* Sync never refuses the state it wrote itself: the checks that refuse a  *)
(* cursor or a pending batch cannot fire while the log is only appended.   *)
NeverWedged ==
  \A t \in Tokens, s \in Stores :
    LET rec == disk[<<t, s>>] IN
    /\ rec.cursor <= log[<<s, epoch[s]>>]
    /\ PendingUsable(rec, log[<<s, epoch[s]>>])

(* A run uploads nothing when redaction fails for any event in its whole   *)
(* range, and nothing captured after its high-water mark.                  *)
FailClosed ==
  \A p \in Procs : pc[p] \in {"post", "wait"} =>
    /\ Mine(p).pending.through <= run[p].hwm
    /\ \A n \in Mine(p).cursor + 1 .. run[p].hwm : <<run[p].store, n>> \notin Unsafe

(* Before a request leaves, its exact body and the user's acceptance of    *)
(* the redaction preview are durable (sync.go:254 and sync.go:236).        *)
DurableStep ==
  \A x \in sent' \ sent :
    /\ disk[<<x[1], x[2].store>>].accepted
    /\ disk[<<x[1], x[2].store>>].pending = x[2]
DurableBeforeSent == [][DurableStep]_vars

(* The state file holds every scope, and each run rewrites all of it: no   *)
(* run takes back what another one recorded.  A cursor, an acceptance and  *)
(* a binding stay, and a pending batch leaves only for the cursor.         *)
ForwardStep ==
  \A sc \in Scopes :
    /\ disk'[sc].cursor >= disk[sc].cursor
    /\ disk[sc].accepted => disk'[sc].accepted
    /\ disk[sc].ws # None => disk'[sc].ws = disk[sc].ws
    /\ disk[sc].pending # None =>
         \/ disk'[sc].pending = disk[sc].pending
         \/ disk'[sc].cursor >= disk[sc].pending.through
NoLostUpdate == [][ForwardStep]_vars

(* The service, driven by crashes, replays and late deliveries, stays the  *)
(* ledger that hosted ingest implements.                                   *)
ServerIsLedger == Ledger!Spec
===============================================================================
