--------------------------- MODULE HostedSyncProofs ---------------------------
(***************************************************************************)
(* Theorems about HostedSync, for any number of invocations, credentials,  *)
(* stores, policies and events, without hard resets.                       *)
(***************************************************************************)
EXTENDS HostedSync, TLAPS

-------------------------------------------------------------------------------
(* The inductive invariant                                                 *)

Durable(p) == disk[Scope(p)]

(* A mutating run past its lock, and one that has decided to upload.       *)
Holding(p) == pc[p] \notin {"idle", "lock"} /\ ~run[p].preview
Uploading(p) == pc[p] \notin {"idle", "lock", "load", "preview"}

(* How an uploading run's copy of its own record differs from the file.    *)
CopyInv(p) ==
  LET d == Durable(p) IN
  /\ mem[p] = [disk EXCEPT ![Scope(p)] = Mine(p)]
  /\ pc[p] = "saveAcceptance" => Mine(p) = [d EXCEPT !.accepted = TRUE]
  /\ pc[p] # "saveAcceptance" => d.accepted
  /\ pc[p] \in {"loop", "post", "wait"} => Mine(p) = d
  /\ pc[p] \in {"post", "wait", "saveCursor"} => d.pending # None
  /\ pc[p] = "savePending" =>
       /\ d.pending = None
       /\ Mine(p).pending \in NextBatch(p)
       /\ Mine(p) = [d EXCEPT !.pending = Mine(p).pending]
  /\ pc[p] = "saveCursor" =>
       /\ Mine(p) = [d EXCEPT !.cursor = d.pending.through, !.pending = None,
                              !.ws = Home[run[p].token]]
       /\ <<Home[run[p].token], d.pending>> \in receipts

(* The range an uploading run works on was previewed and is in the log.    *)
RangeInv(p) ==
  LET d == Durable(p) IN
  /\ run[p].hwm <= log[<<run[p].store, 0>>]
  /\ d.cursor <= run[p].hwm
  /\ d.pending # None => d.pending.through <= run[p].hwm
  /\ \A n \in d.cursor + 1 .. run[p].hwm : <<run[p].store, n>> \notin Unsafe

ProcInv(p) ==
  /\ pc[p] # "idle" => run[p].epoch = 0
  /\ Holding(p) => lock = p
  /\ Uploading(p) => ~run[p].preview
  /\ pc[p] = "preview" /\ ~run[p].preview => mem[p] = disk
  /\ Uploading(p) => CopyInv(p) /\ RangeInv(p)

(* Sequence n of a store is part of a batch on record in workspace w.      *)
Delivered(w, s, n) ==
  \E x \in receipts : /\ x[1] = w /\ x[2].store = s /\ x[2].epoch = 0
                      /\ x[2].after < n /\ n <= x[2].through

RecordInv(t, s, d) ==
  /\ d.cursor <= log[<<s, 0>>]
  /\ d.ws \in {None, Home[t]}
  /\ \A n \in 1 .. d.cursor : Delivered(Home[t], s, n)
  /\ d.pending # None =>
       /\ d.accepted
       /\ d.pending.store = s /\ d.pending.epoch = 0 /\ d.pending.ws = d.ws
       /\ d.pending.after = d.cursor /\ d.cursor < d.pending.through
       /\ d.pending.through <= log[<<s, 0>>]
       /\ \A n \in d.cursor + 1 .. d.pending.through : <<s, n>> \notin Unsafe
ScopeInv(t, s) == RecordInv(t, s, disk[<<t, s>>])

(* What was sent is behind the durable cursor or is the pending batch.     *)
SentInv(t, b) ==
  LET d == disk[<<t, b.store>>] IN
  /\ b.epoch = 0
  /\ b.after < b.through
  /\ b.through <= d.cursor \/ d.pending = b

SyncInv ==
  /\ TypeOK
  /\ epoch = [s \in Stores |-> 0]
  /\ \A p \in Procs : ProcInv(p)
  /\ \A t \in Tokens, s \in Stores : ScopeInv(t, s)
  /\ \A x \in sent : SentInv(x[1], x[2])
  /\ ReplaysAreExact

-------------------------------------------------------------------------------
(* Types                                                                   *)

LEMMA ConstantTypes ==
  /\ 0 \in Seqs /\ 0 \in Epochs
  /\ \A n \in Seqs : n \in Nat
  /\ \A t \in Tokens : Home[t] \in Workspaces
  /\ BatchSize \in Nat \ {0}
  /\ MaxEvents \in Nat
  BY SyncAssumption DEF Seqs, Epochs

LEMMA NoneTypes ==
  /\ None \notin Procs /\ None \notin Workspaces /\ None \notin Body
  /\ None \notin Options /\ None \notin [Scopes -> ScopeState]
  BY SyncAssumption

LEMMA RunTypes ==
  ASSUME TypeOK, NEW p \in Procs, pc[p] # "idle"
  PROVE  /\ run[p] \in Options
         /\ Scope(p) \in Scopes
         /\ Durable(p) \in ScopeState
         /\ pc[p] \notin {"lock", "load"} =>
              mem[p] \in [Scopes -> ScopeState] /\ Mine(p) \in ScopeState
  <1>1. run[p] \in Options
    BY DEF TypeOK
  <1>2. Scope(p) \in Scopes
    BY <1>1 DEF Scope, Scopes, Options
  <1>3. QED
    BY <1>1, <1>2 DEF TypeOK, Durable, Mine

LEMMA FinishTypes ==
  ASSUME TypeOK, NEW p \in Procs, Finish(p), UNCHANGED <<disk, localVars, sent, receipts>>
  PROVE  TypeOK'
  BY NoneTypes DEF TypeOK, Finish, localVars, Labels

LEMMA SetMineTypes ==
  ASSUME TypeOK, NEW p \in Procs, pc[p] \notin {"idle", "lock", "load"},
         NEW rec \in ScopeState, SetMine(p, rec)
  PROVE  /\ mem' \in [Procs -> [Scopes -> ScopeState] \cup {None}]
         /\ mem'[p] = [mem[p] EXCEPT ![Scope(p)] = rec]
         /\ mem'[p][Scope(p)] = rec
         /\ mem'[p] # None
         /\ \A q \in Procs : q # p => mem'[q] = mem[q]
  <1>1. mem[p] \in [Scopes -> ScopeState] /\ Scope(p) \in Scopes
    BY RunTypes
  <1>2. [mem[p] EXCEPT ![Scope(p)] = rec] \in [Scopes -> ScopeState]
    BY <1>1
  <1>3. mem \in [Procs -> [Scopes -> ScopeState] \cup {None}]
    BY DEF TypeOK
  <1>4. mem' = [mem EXCEPT ![p] = [mem[p] EXCEPT ![Scope(p)] = rec]]
    BY <1>3 DEF SetMine
  <1>5. QED
    BY <1>1, <1>2, <1>3, <1>4, NoneTypes

LEMMA NextBatchTypes ==
  ASSUME TypeOK, NEW p \in Procs, pc[p] \notin {"idle", "lock", "load"},
         NEW b \in NextBatch(p)
  PROVE  /\ b \in Body
         /\ b.ws = Mine(p).ws /\ b.store = run[p].store /\ b.epoch = run[p].epoch
         /\ b.after = Mine(p).cursor
         /\ b.after < b.through /\ b.through <= run[p].hwm
         /\ [Mine(p) EXCEPT !.pending = b] \in ScopeState
  <1>1. run[p] \in Options /\ Mine(p) \in ScopeState
    BY RunTypes
  <1>2. /\ Mine(p).cursor \in Seqs /\ run[p].hwm \in Seqs
        /\ Mine(p).ws \in Workspaces \cup {None}
    BY <1>1 DEF ScopeState, Options
  <1>3. /\ b.through \in Mine(p).cursor + 1 .. run[p].hwm
        /\ b.after = Mine(p).cursor /\ b.ws = Mine(p).ws
        /\ b.store = run[p].store /\ b.epoch = run[p].epoch
        /\ b.policy = run[p].policy
        /\ b = [ws |-> b.ws, store |-> b.store, epoch |-> b.epoch,
                after |-> b.after, through |-> b.through, policy |-> b.policy]
    BY DEF NextBatch
  <1>4. b.through \in Seqs /\ b.after < b.through /\ b.through <= run[p].hwm
    BY <1>2, <1>3, SyncAssumption DEF Seqs
  <1>5. b \in Body
    BY <1>1, <1>2, <1>3, <1>4 DEF Body, Options
  <1>6. QED
    BY <1>1, <1>3, <1>4, <1>5 DEF ScopeState

-------------------------------------------------------------------------------
(* A step of one run leaves the others as they are                         *)

LEMMA OtherRuns ==
  ASSUME SyncInv, NEW p \in Procs, NEW q \in Procs, q # p,
         pc'[q] = pc[q], run'[q] = run[q], mem'[q] = mem[q],
         lock' = lock \/ lock = None \/ lock = p,
         disk' = disk \/ Holding(p),
         \A f \in Files : log[f] <= log'[f],
         log' \in [Files -> Seqs],
         receipts \subseteq receipts'
  PROVE  ProcInv(q)'
  <1>1. ProcInv(q) /\ ProcInv(p) /\ TypeOK
    BY DEF SyncInv
  <1>2. p # None /\ q # None
    BY NoneTypes
  <1>3. CASE ~Holding(q)
    <2>1. ~Holding(q)' /\ ~Uploading(q) /\ ~Uploading(q)'
      BY <1>1, <1>3 DEF Holding, Uploading, ProcInv
    <2>2. QED
      BY <1>1, <1>3, <2>1 DEF ProcInv, Holding, Uploading
  <1>4. CASE Holding(q)
    <2>1. lock = q /\ disk' = disk /\ lock' = lock
      BY <1>1, <1>2, <1>4 DEF ProcInv
    <2>2. CASE ~Uploading(q)
      BY <1>1, <2>1, <2>2 DEF ProcInv, Holding, Uploading
    <2>3. CASE Uploading(q)
      <3>1. run[q] \in Options /\ Scope(q) \in Scopes
        BY <1>1, <2>3, RunTypes DEF Uploading
      <3>2. CopyInv(q)'
        BY <1>1, <2>1, <2>3 DEF ProcInv, CopyInv, Durable, Mine, Scope, NextBatch
      <3>3. <<run[q].store, 0>> \in Files
        BY <3>1, ConstantTypes DEF Options, Files
      <3>4. /\ log[<<run[q].store, 0>>] \in Nat /\ log'[<<run[q].store, 0>>] \in Nat
            /\ log[<<run[q].store, 0>>] <= log'[<<run[q].store, 0>>]
            /\ run[q].hwm \in Nat
        BY <3>1, <3>3, <1>1, ConstantTypes DEF TypeOK, Options
      <3>5. RangeInv(q)'
        BY <1>1, <2>1, <2>3, <3>4 DEF ProcInv, RangeInv, Durable, Scope
      <3>6. QED
        BY <1>1, <2>1, <2>3, <3>2, <3>5 DEF ProcInv, Holding, Uploading
    <2>4. QED
      BY <2>2, <2>3
  <1>5. QED
    BY <1>3, <1>4

(* The durable facts survive when the file, the log and what was sent stay. *)
LEMMA DurableFacts ==
  ASSUME SyncInv, disk' = disk, sent' = sent, epoch' = epoch,
         \A f \in Files : log[f] <= log'[f],
         log' \in [Files -> Seqs],
         receipts \subseteq receipts'
  PROVE  /\ (epoch = [s \in Stores |-> 0])'
         /\ \A t \in Tokens, s \in Stores : ScopeInv(t, s)'
         /\ \A x \in sent' : SentInv(x[1], x[2])'
         /\ ReplaysAreExact'
  <1>1. ASSUME NEW t \in Tokens, NEW s \in Stores PROVE ScopeInv(t, s)'
    <2> DEFINE d == disk[<<t, s>>]
    <2>1. d \in ScopeState /\ ScopeInv(t, s)
      BY DEF SyncInv, TypeOK, Scopes
    <2>2. <<s, 0>> \in Files
      BY ConstantTypes DEF Files
    <2>3. log[<<s, 0>>] \in Nat /\ log'[<<s, 0>>] \in Nat /\ log[<<s, 0>>] <= log'[<<s, 0>>]
      BY <2>2, ConstantTypes DEF SyncInv, TypeOK
    <2>4. d.cursor \in Nat /\ (d.pending # None => d.pending.through \in Nat)
      BY <2>1, ConstantTypes DEF ScopeState, Body
    <2>5. \A n \in 1 .. d.cursor : Delivered(Home[t], s, n)'
      BY <2>1 DEF ScopeInv, RecordInv, Delivered
    <2>6. QED
      BY <2>1, <2>3, <2>4, <2>5 DEF ScopeInv, RecordInv
  <1>2. \A x \in sent' : SentInv(x[1], x[2])'
    BY DEF SyncInv, SentInv
  <1>3. QED
    BY <1>1, <1>2 DEF SyncInv, ReplaysAreExact, Overlap

-------------------------------------------------------------------------------
(* One lemma per action                                                    *)

LEMMA FinishKeeps ==
  ASSUME SyncInv, NEW p \in Procs, Finish(p), UNCHANGED <<disk, localVars, sent, receipts>>
  PROVE  SyncInv'
  <1>1. TypeOK /\ TypeOK'
    BY FinishTypes DEF SyncInv
  <1>2. log \in [Files -> Seqs] /\ \A f \in Files : log[f] <= log[f]
    BY <1>1, ConstantTypes DEF TypeOK
  <1>3. pc'[p] = "idle"
    BY <1>1 DEF Finish, TypeOK
  <1>4. ProcInv(p)'
    BY <1>3 DEF ProcInv, Holding, Uploading
  <1>5. ASSUME NEW q \in Procs, q # p PROVE ProcInv(q)'
    <2>1. pc'[q] = pc[q] /\ run'[q] = run[q] /\ mem'[q] = mem[q]
      BY <1>1, <1>5 DEF Finish, TypeOK
    <2>2. lock' = lock \/ lock = p
      BY DEF Finish
    <2>3. QED
      BY <1>2, <1>5, <2>1, <2>2, OtherRuns DEF localVars
  <1>6. QED
    BY <1>1, <1>2, <1>4, <1>5, DurableFacts DEF SyncInv, localVars

(* The steps of a run that write neither the file nor the network.         *)
LEMMA LocalStep ==
  ASSUME SyncInv, TypeOK', NEW p \in Procs, ProcInv(p)',
         \A q \in Procs : q # p => pc'[q] = pc[q] /\ run'[q] = run[q] /\ mem'[q] = mem[q],
         lock' = lock \/ lock = None \/ lock = p,
         UNCHANGED <<disk, localVars, sent>>, receipts \subseteq receipts'
  PROVE  SyncInv'
  <1>1. log \in [Files -> Seqs] /\ \A f \in Files : log[f] <= log[f]
    BY ConstantTypes DEF SyncInv, TypeOK
  <1>2. \A q \in Procs : ProcInv(q)'
    BY <1>1, OtherRuns DEF localVars
  <1>3. QED
    BY <1>1, <1>2, DurableFacts DEF SyncInv, localVars

LEMMA StartKeeps ==
  ASSUME SyncInv, NEW p \in Procs, Start(p)
  PROVE  SyncInv'
  <1>1. PICK t \in Tokens, s \in Stores, pol \in Policies, pre \in BOOLEAN, acc \in BOOLEAN :
          run' = [run EXCEPT ![p] =
            [token |-> t, store |-> s, epoch |-> epoch[s], policy |-> pol,
             preview |-> pre, accept |-> acc, hwm |-> 0]]
    BY DEF Start
  <1> DEFINE o == [token |-> t, store |-> s, epoch |-> epoch[s], policy |-> pol,
                   preview |-> pre, accept |-> acc, hwm |-> 0]
  <1>2. o \in Options /\ o.epoch = 0 /\ o # None
    BY ConstantTypes, NoneTypes DEF SyncInv, Options
  <1>3. run' = [run EXCEPT ![p] = o]
    BY <1>1
  <1> HIDE DEF o
  <1>4. pc' = [pc EXCEPT ![p] = "lock"] /\ pc[p] = "idle"
    BY DEF Start
  <1>5. TypeOK'
    BY <1>2, <1>3, <1>4 DEF SyncInv, TypeOK, Start, localVars, Labels
  <1>6. pc'[p] = "lock" /\ run'[p] = o
    BY <1>3, <1>4 DEF SyncInv, TypeOK
  <1>7. ProcInv(p)'
    BY <1>2, <1>6 DEF ProcInv, Holding, Uploading
  <1>8. \A q \in Procs : q # p => pc'[q] = pc[q] /\ run'[q] = run[q] /\ mem'[q] = mem[q]
    BY <1>3, <1>4 DEF Start, SyncInv, TypeOK
  <1>9. QED
    BY <1>5, <1>7, <1>8, LocalStep DEF Start

LEMMA AcquireKeeps ==
  ASSUME SyncInv, NEW p \in Procs, AcquireStateLock(p)
  PROVE  SyncInv'
  <1>1. CASE ~(run[p].preview \/ lock = None)
    BY <1>1, FinishKeeps DEF AcquireStateLock
  <1>2. CASE run[p].preview \/ lock = None
    <2>1. /\ pc[p] = "lock" /\ pc' = [pc EXCEPT ![p] = "load"]
          /\ lock' = IF run[p].preview THEN lock ELSE p
          /\ UNCHANGED <<run, mem, disk, localVars, sent, receipts>>
      BY <1>2 DEF AcquireStateLock
    <2>2. TypeOK'
      BY <2>1 DEF SyncInv, TypeOK, localVars, Labels
    <2>3. pc'[p] = "load" /\ run'[p].epoch = 0
      BY <2>1 DEF SyncInv, TypeOK, ProcInv
    <2>4. ProcInv(p)'
      BY <2>1, <2>3 DEF ProcInv, Holding, Uploading
    <2>5. \A q \in Procs : q # p => pc'[q] = pc[q] /\ run'[q] = run[q] /\ mem'[q] = mem[q]
      BY <2>1 DEF SyncInv, TypeOK
    <2>6. QED
      BY <1>2, <2>1, <2>2, <2>4, <2>5, LocalStep
  <1>3. QED
    BY <1>1, <1>2

LEMMA LoadKeeps ==
  ASSUME SyncInv, NEW p \in Procs, LoadState(p)
  PROVE  SyncInv'
  <1>1. /\ pc[p] = "load" /\ pc' = [pc EXCEPT ![p] = "preview"]
        /\ mem' = [mem EXCEPT ![p] = disk]
        /\ UNCHANGED <<run, lock, disk, localVars, sent, receipts>>
    BY DEF LoadState, Goto
  <1>2. TypeOK'
    BY <1>1, NoneTypes DEF SyncInv, TypeOK, localVars, Labels
  <1>3. pc'[p] = "preview" /\ mem'[p] = disk
    BY <1>1 DEF SyncInv, TypeOK
  <1>4. ProcInv(p)'
    BY <1>1, <1>3 DEF SyncInv, ProcInv, Holding, Uploading
  <1>5. \A q \in Procs : q # p => pc'[q] = pc[q] /\ run'[q] = run[q] /\ mem'[q] = mem[q]
    BY <1>1 DEF SyncInv, TypeOK
  <1>6. QED
    BY <1>1, <1>2, <1>4, <1>5, LocalStep

LEMMA PreviewKeeps ==
  ASSUME SyncInv, NEW p \in Procs, Preview(p)
  PROVE  SyncInv'
  <1>1. CASE ~MayUpload(p)
    BY <1>1, FinishKeeps DEF Preview
  <1>2. CASE MayUpload(p)
    <2> DEFINE rec == [Mine(p) EXCEPT !.accepted = TRUE]
    <2> DEFINE l == IF Mine(p).accepted THEN "loop" ELSE "saveAcceptance"
    <2>1. /\ pc[p] = "preview" /\ pc' = [pc EXCEPT ![p] = l]
          /\ run' = [run EXCEPT ![p].hwm = HighWatermark(p)]
          /\ SetMine(p, rec)
          /\ UNCHANGED <<lock, disk, localVars, sent, receipts>>
      BY <1>2 DEF Preview
    <2>2. /\ run[p] \in Options /\ Scope(p) \in Scopes
          /\ Mine(p) \in ScopeState /\ mem[p] \in [Scopes -> ScopeState]
      BY <2>1, RunTypes DEF SyncInv
    <2>3. ~run[p].preview /\ mem[p] = disk /\ run[p].epoch = 0 /\ lock = p
      BY <1>2, <2>1 DEF SyncInv, ProcInv, MayUpload, Holding
    <2>4. HighWatermark(p) \in Seqs /\ HighWatermark(p) = log[<<run[p].store, 0>>]
      BY <2>2, <2>3, ConstantTypes DEF HighWatermark, SyncInv, TypeOK, Options, Files
    <2>5. rec \in ScopeState
      BY <2>2 DEF ScopeState
    <2>6. /\ mem' \in [Procs -> [Scopes -> ScopeState] \cup {None}]
          /\ mem'[p] = [mem[p] EXCEPT ![Scope(p)] = rec]
          /\ mem'[p][Scope(p)] = rec /\ mem'[p] # None
          /\ \A q \in Procs : q # p => mem'[q] = mem[q]
      BY <2>1, <2>5, SetMineTypes DEF SyncInv
    <2>7. /\ run'[p] = [run[p] EXCEPT !.hwm = HighWatermark(p)] /\ run'[p] \in Options
          /\ run'[p] # None
          /\ run' \in [Procs -> Options \cup {None}]
          /\ \A q \in Procs : q # p => run'[q] = run[q]
      BY <2>1, <2>2, <2>4, NoneTypes DEF SyncInv, TypeOK, Options
    <2>8. /\ pc'[p] = l /\ l \in {"loop", "saveAcceptance"}
          /\ pc' \in [Procs -> Labels]
          /\ \A q \in Procs : q # p => pc'[q] = pc[q]
      BY <2>1 DEF SyncInv, TypeOK, Labels
    <2> HIDE DEF l, rec
    <2>9. TypeOK'
      BY <2>1, <2>6, <2>7, <2>8 DEF SyncInv, TypeOK, localVars
    <2>10. /\ Scope(p)' = Scope(p) /\ Mine(p)' = rec /\ Mine(p) = Durable(p)
           /\ Durable(p)' = Durable(p)
      BY <2>1, <2>2, <2>3, <2>6, <2>7 DEF Scope, Mine, Durable, Options
    <2>11. CopyInv(p)'
      <3>1. rec = [Durable(p) EXCEPT !.accepted = TRUE]
        BY <2>10 DEF rec
      <3>2. mem'[p] = [disk EXCEPT ![Scope(p)] = rec]
        BY <2>3, <2>6
      <3>3. CASE Mine(p).accepted
        <4>1. rec = Durable(p) /\ Durable(p).accepted /\ pc'[p] = "loop"
          BY <2>2, <2>8, <2>10, <3>1, <3>3 DEF ScopeState, l
        <4>2. QED
          BY <2>1, <2>10, <3>2, <4>1 DEF CopyInv
      <3>4. CASE ~Mine(p).accepted
        BY <2>1, <2>8, <2>10, <3>1, <3>2, <3>4 DEF CopyInv, l
      <3>5. QED
        BY <3>3, <3>4
    <2>12. RangeInv(p)'
      <3> DEFINE d == Durable(p)
      <3>1. /\ run'[p].hwm = HighWatermark(p) /\ run'[p].store = run[p].store
        BY <2>2, <2>7 DEF Options
      <3>2. /\ d \in ScopeState /\ d.cursor < HighWatermark(p)
            /\ PendingUsable(d, HighWatermark(p))
        BY <1>2, <2>2, <2>10 DEF MayUpload
      <3>3. /\ d.cursor \in Nat /\ HighWatermark(p) \in Nat
            /\ d.pending # None => d.pending.through \in Nat
        BY <2>4, <3>2, ConstantTypes DEF ScopeState, Body
      <3>4. d.cursor <= HighWatermark(p)
        BY <3>2, <3>3
      <3>5. d.pending # None => d.pending.through <= HighWatermark(p)
        BY <3>2 DEF PendingUsable
      <3>6. \A n \in d.cursor + 1 .. HighWatermark(p) : <<run[p].store, n>> \notin Unsafe
        <4>1. CASE d.pending = None
          BY <1>2, <2>10, <4>1 DEF MayUpload, RangeRedacts
        <4>2. CASE d.pending # None
          <5>1. \A n \in d.pending.through + 1 .. HighWatermark(p) : <<run[p].store, n>> \notin Unsafe
            BY <1>2, <2>10, <4>2 DEF MayUpload, RangeRedacts
          <5>2. \A n \in d.cursor + 1 .. d.pending.through : <<run[p].store, n>> \notin Unsafe
            <6>1. run[p].token \in Tokens /\ run[p].store \in Stores
              BY <2>2 DEF Options
            <6>2. ScopeInv(run[p].token, run[p].store)
              BY <6>1 DEF SyncInv
            <6>3. QED
              BY <4>2, <6>2 DEF ScopeInv, RecordInv, Durable, Scope
          <5>3. QED
            BY <3>3, <4>2, <5>1, <5>2
        <4>3. QED
          BY <4>1, <4>2
      <3>7. QED
        BY <2>1, <2>4, <2>10, <3>1, <3>3, <3>4, <3>5, <3>6 DEF RangeInv, localVars
    <2>13. ProcInv(p)'
      BY <2>1, <2>2, <2>3, <2>7, <2>8, <2>11, <2>12 DEF ProcInv, Holding, Uploading, Options
    <2>14. QED
      BY <2>1, <2>6, <2>7, <2>8, <2>9, <2>13, LocalStep
  <1>3. QED
    BY <1>1, <1>2

LEMMA UploadingTypes ==
  ASSUME SyncInv, NEW p \in Procs, Uploading(p)
  PROVE  /\ run[p] \in Options /\ run[p].token \in Tokens /\ run[p].store \in Stores
         /\ Scope(p) \in Scopes /\ Scope(p) = <<run[p].token, run[p].store>>
         /\ mem[p] \in [Scopes -> ScopeState] /\ Mine(p) \in ScopeState
         /\ Durable(p) \in ScopeState
         /\ CopyInv(p) /\ RangeInv(p) /\ ProcInv(p)
         /\ run[p].epoch = 0 /\ ~run[p].preview /\ lock = p /\ Holding(p)
         /\ ScopeInv(run[p].token, run[p].store)
         /\ Durable(p) = disk[<<run[p].token, run[p].store>>]
  <1>1. run[p] \in Options
    BY RunTypes DEF SyncInv, Uploading
  <1>2. run[p].token \in Tokens /\ run[p].store \in Stores
    BY <1>1 DEF Options
  <1>3. QED
    BY <1>1, <1>2, RunTypes DEF SyncInv, Uploading, ProcInv, Holding, Scope, Durable

LEMMA BuildPendingKeeps ==
  ASSUME SyncInv, NEW p \in Procs, BuildPending(p)
  PROVE  SyncInv'
  <1>1. pc[p] = "loop" /\ UNCHANGED <<disk, localVars, sent, receipts>>
    BY DEF BuildPending
  <1>2. /\ Uploading(p) /\ pc[p] \in Labels
        /\ Mine(p) = Durable(p) /\ Durable(p).accepted
    BY <1>1, UploadingTypes DEF Uploading, CopyInv, Labels
  <1>3. CASE Mine(p).pending = None /\ Mine(p).cursor >= run[p].hwm /\ Finish(p)
    BY <1>1, <1>3, FinishKeeps
  <1>4. CASE Mine(p).pending # None /\ Goto(p, "post") /\ mem' = mem
    <2>1. /\ pc' = [pc EXCEPT ![p] = "post"] /\ UNCHANGED <<run, lock, mem>>
      BY <1>4 DEF Goto
    <2>2. TypeOK'
      BY <1>1, <2>1 DEF SyncInv, TypeOK, localVars, Labels
    <2>3. pc'[p] = "post" /\ \A q \in Procs : q # p => pc'[q] = pc[q]
      BY <2>1 DEF SyncInv, TypeOK
    <2>4. /\ Scope(p)' = Scope(p) /\ Mine(p)' = Mine(p) /\ Durable(p)' = Durable(p)
      BY <1>1, <2>1 DEF Scope, Mine, Durable
    <2>5. CopyInv(p)'
      BY <1>1, <1>2, <1>4, <2>1, <2>3, <2>4, UploadingTypes DEF CopyInv
    <2>6. RangeInv(p)'
      BY <1>1, <1>2, <2>1, <2>4, UploadingTypes DEF RangeInv, localVars
    <2>7. ProcInv(p)'
      BY <1>2, <2>1, <2>3, <2>5, <2>6, UploadingTypes DEF ProcInv, Uploading, Holding
    <2>8. QED
      BY <1>1, <2>1, <2>2, <2>3, <2>7, LocalStep
  <1>5. ASSUME Mine(p).pending = None, NEW b \in NextBatch(p),
               SetMine(p, [Mine(p) EXCEPT !.pending = b]), Goto(p, "savePending")
        PROVE  SyncInv'
    <2> DEFINE rec == [Mine(p) EXCEPT !.pending = b]
    <2>1. /\ pc' = [pc EXCEPT ![p] = "savePending"] /\ UNCHANGED <<run, lock>>
      BY <1>5 DEF Goto
    <2>2. rec \in ScopeState /\ b \in Body
      BY <1>1, <1>5, NextBatchTypes DEF SyncInv
    <2>3. rec.pending = b
      BY <1>2, UploadingTypes DEF ScopeState
    <2>4. SetMine(p, rec)
      BY <1>5
    <2>5. rec = [Durable(p) EXCEPT !.pending = b]
      BY <1>2
    <2>6. rec.cursor = Mine(p).cursor /\ rec.ws = Mine(p).ws
      BY <1>2, UploadingTypes DEF ScopeState
    <2> HIDE DEF rec
    <2>7. /\ mem' \in [Procs -> [Scopes -> ScopeState] \cup {None}]
          /\ mem'[p] = [mem[p] EXCEPT ![Scope(p)] = rec]
          /\ mem'[p][Scope(p)] = rec /\ mem'[p] # None
          /\ \A q \in Procs : q # p => mem'[q] = mem[q]
      BY <1>1, <2>2, <2>4, SetMineTypes DEF SyncInv
    <2>8. pc'[p] = "savePending" /\ \A q \in Procs : q # p => pc'[q] = pc[q]
      BY <2>1 DEF SyncInv, TypeOK
    <2>9. TypeOK'
      BY <1>1, <2>1, <2>7, <2>8 DEF SyncInv, TypeOK, localVars, Labels
    <2>10. /\ Scope(p)' = Scope(p) /\ Mine(p)' = rec /\ Durable(p)' = Durable(p)
      BY <1>1, <2>1, <2>7 DEF Scope, Mine, Durable
    <2>11. NextBatch(p)' = NextBatch(p)
      BY <2>1, <2>6, <2>10 DEF NextBatch
    <2>12. mem'[p] = [disk EXCEPT ![Scope(p)] = rec]
      <3>1. mem[p] = [disk EXCEPT ![Scope(p)] = Mine(p)]
        BY <1>2, UploadingTypes DEF CopyInv
      <3>2. disk \in [Scopes -> ScopeState] /\ Scope(p) \in Scopes
        BY <1>2, UploadingTypes DEF SyncInv, TypeOK
      <3>3. QED
        BY <2>7, <3>1, <3>2
    <2>13. CopyInv(p)'
      BY <1>1, <1>2, <1>5, <2>3, <2>5, <2>8, <2>10, <2>11, <2>12 DEF CopyInv
    <2>14. RangeInv(p)'
      BY <1>1, <1>2, <2>1, <2>10, UploadingTypes DEF RangeInv, localVars
    <2>15. ProcInv(p)'
      BY <1>2, <2>1, <2>8, <2>13, <2>14, UploadingTypes DEF ProcInv, Uploading, Holding
    <2>16. QED
      BY <1>1, <2>1, <2>7, <2>8, <2>9, <2>15, LocalStep
  <1>6. QED
    BY <1>3, <1>4, <1>5 DEF BuildPending

LEMMA ReceiveKeeps ==
  ASSUME SyncInv, NEW p \in Procs, ReceiveReceipt(p)
  PROVE  SyncInv'
  <1>1. /\ pc[p] = "wait" /\ UNCHANGED <<disk, localVars, sent>>
        /\ receipts' = receipts \cup {<<Home[run[p].token], Mine(p).pending>>}
        /\ SetMine(p, Advanced(p))
        /\ pc' = [pc EXCEPT ![p] = "saveCursor"] /\ UNCHANGED <<run, lock>>
    BY DEF ReceiveReceipt, Record, Goto
  <1>2. Uploading(p) /\ Mine(p) = Durable(p) /\ Durable(p).pending # None
        /\ Durable(p).accepted
    BY <1>1, UploadingTypes DEF Uploading, CopyInv
  <1>3. Mine(p).pending \in Body /\ Home[run[p].token] \in Workspaces
    BY <1>2, UploadingTypes, ConstantTypes DEF ScopeState
  <1>4. Advanced(p) \in ScopeState
    <2>1. Mine(p).pending.through \in Seqs
      BY <1>3 DEF Body
    <2>2. QED
      BY <1>2, <1>3, <2>1, UploadingTypes DEF Advanced, ScopeState
  <1>5. /\ mem' \in [Procs -> [Scopes -> ScopeState] \cup {None}]
        /\ mem'[p] = [mem[p] EXCEPT ![Scope(p)] = Advanced(p)]
        /\ mem'[p][Scope(p)] = Advanced(p) /\ mem'[p] # None
        /\ \A q \in Procs : q # p => mem'[q] = mem[q]
    BY <1>1, <1>4, SetMineTypes DEF SyncInv
  <1>6. pc'[p] = "saveCursor" /\ \A q \in Procs : q # p => pc'[q] = pc[q]
    BY <1>1 DEF SyncInv, TypeOK
  <1>7. receipts' \subseteq Workspaces \X Body /\ receipts \subseteq receipts'
    BY <1>1, <1>3 DEF SyncInv, TypeOK
  <1>8. TypeOK'
    BY <1>1, <1>5, <1>6, <1>7 DEF SyncInv, TypeOK, localVars, Labels
  <1>9. /\ Scope(p)' = Scope(p) /\ Mine(p)' = Advanced(p) /\ Durable(p)' = Durable(p)
    BY <1>1, <1>5 DEF Scope, Mine, Durable
  <1>10. mem'[p] = [disk EXCEPT ![Scope(p)] = Advanced(p)]
    <2>1. mem[p] = [disk EXCEPT ![Scope(p)] = Mine(p)]
      BY <1>2, UploadingTypes DEF CopyInv
    <2>2. disk \in [Scopes -> ScopeState] /\ Scope(p) \in Scopes
      BY <1>2, UploadingTypes DEF SyncInv, TypeOK
    <2>3. QED
      BY <1>5, <2>1, <2>2
  <1>11. CopyInv(p)'
    <2>1. <<Home[run[p].token], Durable(p).pending>> \in receipts'
      BY <1>1, <1>2
    <2>2. Advanced(p) = [Durable(p) EXCEPT !.cursor = Durable(p).pending.through,
                           !.pending = None, !.ws = Home[run[p].token]]
      BY <1>2 DEF Advanced
    <2>3. QED
      BY <1>1, <1>2, <1>6, <1>9, <1>10, <2>1, <2>2 DEF CopyInv
  <1>12. RangeInv(p)'
    BY <1>1, <1>2, <1>9, UploadingTypes DEF RangeInv, localVars
  <1>13. ProcInv(p)'
    BY <1>1, <1>2, <1>6, <1>11, <1>12, UploadingTypes DEF ProcInv, Uploading, Holding
  <1>14. QED
    BY <1>1, <1>5, <1>6, <1>7, <1>8, <1>13, LocalStep

(* One more request: the pending batch of its scope.                       *)
LEMMA SentGrows ==
  ASSUME SyncInv, NEW t \in Tokens, NEW b \in Body,
         disk[<<t, b.store>>].pending = b, disk' = disk,
         sent' = sent \cup {<<t, b>>}
  PROVE  (\A x \in sent' : SentInv(x[1], x[2])') /\ ReplaysAreExact'
  <1> DEFINE s == b.store
  <1>1. b # None /\ s \in Stores /\ b.after \in Nat
    BY NoneTypes, ConstantTypes DEF Body
  <1>2. b.epoch = 0 /\ b.after = disk[<<t, s>>].cursor /\ b.after < b.through
    <2>1. ScopeInv(t, s)
      BY <1>1 DEF SyncInv
    <2>2. QED
      BY <1>1, <2>1 DEF ScopeInv, RecordInv
  <1>3. \A x \in sent' : SentInv(x[1], x[2])'
    <2>1. \A x \in sent : SentInv(x[1], x[2])'
      BY DEF SyncInv, SentInv
    <2>2. SentInv(t, b)'
      BY <1>2 DEF SentInv
    <2>3. QED
      BY <2>1, <2>2
  <1>4. ASSUME NEW x \in sent, x[1] = t, x[2].store = s, x[2] # b
        PROVE  ~Overlap(x[2], b) /\ ~Overlap(b, x[2])
    <2>1. x[2] \in Body
      BY DEF SyncInv, TypeOK
    <2>2. x[2].through <= b.after
      BY <1>2, <1>4 DEF SyncInv, SentInv
    <2>3. x[2].through \in Nat
      BY <2>1, ConstantTypes DEF Body
    <2>4. QED
      BY <1>1, <2>2, <2>3 DEF Overlap
  <1>5. \A x \in sent : x = <<x[1], x[2]>>
    BY DEF SyncInv, TypeOK
  <1>6. ASSUME NEW x \in sent', NEW y \in sent', x[1] = y[1],
               x[2].store = y[2].store, Overlap(x[2], y[2])
        PROVE  x = y
    <2>1. CASE x \in sent /\ y \in sent
      BY <1>6, <2>1 DEF SyncInv, ReplaysAreExact
    <2>2. CASE x = <<t, b>> /\ y \in sent
      BY <1>4, <1>5, <1>6, <2>2
    <2>3. CASE x \in sent /\ y = <<t, b>>
      BY <1>4, <1>5, <1>6, <2>3
    <2>4. QED
      BY <2>1, <2>2, <2>3
  <1>7. QED
    BY <1>3, <1>6 DEF ReplaysAreExact, Overlap

LEMMA PostKeeps ==
  ASSUME SyncInv, NEW p \in Procs, PostPending(p)
  PROVE  SyncInv' /\ DurableStep
  <1>1. /\ pc[p] = "post" /\ UNCHANGED <<run, lock, mem, disk, localVars, receipts>>
        /\ sent' = sent \cup {<<run[p].token, Mine(p).pending>>}
        /\ pc' = [pc EXCEPT ![p] = "wait"]
    BY DEF PostPending, Goto
  <1>2. Uploading(p) /\ Mine(p) = Durable(p) /\ Durable(p).pending # None
        /\ Durable(p).accepted
    BY <1>1, UploadingTypes DEF Uploading, CopyInv
  <1>3. PICK b \in Body, t \in Tokens, s \in Stores :
          b = Mine(p).pending /\ t = run[p].token /\ s = run[p].store
    BY <1>2, UploadingTypes DEF ScopeState
  <1>4. disk[<<t, s>>].pending = b /\ disk[<<t, s>>].accepted /\ b # None
    BY <1>2, <1>3, UploadingTypes
  <1>5. b.store = s
    BY <1>4 DEF SyncInv, ScopeInv, RecordInv
  <1>6. sent' = sent \cup {<<t, b>>}
    BY <1>1, <1>3
  <1>7. TypeOK'
    BY <1>1, <1>6 DEF SyncInv, TypeOK, localVars, Labels
  <1>8. pc'[p] = "wait" /\ \A q \in Procs : q # p => pc'[q] = pc[q]
    BY <1>1 DEF SyncInv, TypeOK
  <1>9. log \in [Files -> Seqs] /\ \A f \in Files : log[f] <= log[f]
    BY ConstantTypes DEF SyncInv, TypeOK
  <1>10. ProcInv(p)'
    <2>1. /\ Scope(p)' = Scope(p) /\ Mine(p)' = Mine(p) /\ Durable(p)' = Durable(p)
      BY <1>1 DEF Scope, Mine, Durable
    <2>2. CopyInv(p)'
      BY <1>1, <1>2, <1>8, <2>1, UploadingTypes DEF CopyInv
    <2>3. RangeInv(p)'
      BY <1>1, <1>2, <2>1, UploadingTypes DEF RangeInv, localVars
    <2>4. QED
      BY <1>1, <1>2, <1>8, <2>2, <2>3, UploadingTypes DEF ProcInv, Uploading, Holding
  <1>11. \A q \in Procs : q # p => ProcInv(q)'
    BY <1>1, <1>8, <1>9, OtherRuns DEF localVars
  <1>12. ASSUME NEW t2 \in Tokens, NEW s2 \in Stores PROVE ScopeInv(t2, s2)'
    <2>1. ScopeInv(t2, s2)
      BY DEF SyncInv
    <2>2. \A n : Delivered(Home[t2], s2, n)' <=> Delivered(Home[t2], s2, n)
      BY <1>1 DEF Delivered
    <2>3. QED
      BY <1>1, <2>1, <2>2 DEF ScopeInv, RecordInv, localVars
  <1>13. (\A x \in sent' : SentInv(x[1], x[2])') /\ ReplaysAreExact'
    BY <1>1, <1>4, <1>5, <1>6, SentGrows
  <1>14. DurableStep
    BY <1>4, <1>5, <1>6 DEF DurableStep
  <1>15. QED
    BY <1>1, <1>7, <1>10, <1>11, <1>12, <1>13, <1>14 DEF SyncInv, localVars

-------------------------------------------------------------------------------
(* The saves: the copy an uploading run holds becomes the file             *)

(* A record that only moves forward, to a state that fits the log and what *)
(* was sent.                                                               *)
LEMMA SaveKeeps ==
  ASSUME SyncInv, NEW p \in Procs, Uploading(p),
         UNCHANGED <<run, lock, mem, localVars, sent, receipts>>,
         disk' = mem[p], pc' \in [Procs -> Labels],
         \A q \in Procs : q # p => pc'[q] = pc[q],
         Uploading(p)', CopyInv(p)', RangeInv(p)',
         ScopeInv(run[p].token, run[p].store)',
         Mine(p).cursor >= Durable(p).cursor,
         \/ Durable(p).pending = None
         \/ Mine(p).pending = Durable(p).pending
         \/ Durable(p).pending.through <= Mine(p).cursor
  PROVE  SyncInv'
  <1>1. /\ mem[p] \in [Scopes -> ScopeState] /\ Scope(p) \in Scopes
        /\ mem[p] = [disk EXCEPT ![Scope(p)] = Mine(p)]
        /\ Holding(p) /\ ~run[p].preview /\ lock = p
        /\ run[p].epoch = 0
        /\ Mine(p) \in ScopeState /\ Durable(p) \in ScopeState
        /\ Scope(p) = <<run[p].token, run[p].store>>
    BY UploadingTypes DEF CopyInv
  <1>2. TypeOK'
    BY <1>1 DEF SyncInv, TypeOK, localVars, Uploading
  <1>3. log \in [Files -> Seqs] /\ \A f \in Files : log[f] <= log[f]
    BY ConstantTypes DEF SyncInv, TypeOK
  <1>4. \A q \in Procs : q # p => ProcInv(q)'
    BY <1>1, <1>3, OtherRuns DEF localVars
  <1>5. ProcInv(p)'
    BY <1>1 DEF ProcInv, Uploading, Holding
  <1>6. \A sc \in Scopes : sc # Scope(p) => disk'[sc] = disk[sc]
    BY <1>1 DEF SyncInv, TypeOK
  <1>7. disk'[Scope(p)] = Mine(p)
    BY DEF Mine
  <1>8. ASSUME NEW t \in Tokens, NEW s \in Stores PROVE ScopeInv(t, s)'
    <2>1. CASE <<t, s>> = Scope(p)
      BY <1>1, <2>1
    <2>2. CASE <<t, s>> # Scope(p)
      <3>1. ScopeInv(t, s) /\ disk'[<<t, s>>] = disk[<<t, s>>]
        BY <1>6, <2>2 DEF SyncInv, Scopes
      <3>2. \A n : Delivered(Home[t], s, n)' <=> Delivered(Home[t], s, n)
        BY DEF Delivered
      <3>3. QED
        BY <3>1, <3>2 DEF ScopeInv, RecordInv, localVars
    <2>3. QED
      BY <2>1, <2>2
  <1>9. ASSUME NEW x \in sent PROVE SentInv(x[1], x[2])'
    <2> DEFINE sc == <<x[1], x[2].store>>
    <2>1. SentInv(x[1], x[2]) /\ x[1] \in Tokens /\ x[2] \in Body /\ sc \in Scopes
      BY DEF SyncInv, TypeOK, Body, Scopes
    <2>2. CASE sc # Scope(p)
      BY <1>6, <2>1, <2>2 DEF SentInv
    <2>3. CASE sc = Scope(p)
      <3>1. /\ x[2].through \in Nat
            /\ Mine(p).cursor \in Nat /\ Durable(p).cursor \in Nat
        BY <1>1, <2>1, ConstantTypes DEF Body, ScopeState
      <3>2. x[2].through <= Durable(p).cursor \/ Durable(p).pending = x[2]
        BY <2>1, <2>3 DEF SentInv, Durable
      <3>3. x[2].through <= Mine(p).cursor \/ Mine(p).pending = x[2]
        BY <2>1, <3>1, <3>2, NoneTypes
      <3>4. QED
        BY <1>7, <2>1, <2>3, <3>3 DEF SentInv
    <2>4. QED
      BY <2>2, <2>3
  <1>10. QED
    BY <1>2, <1>4, <1>5, <1>8, <1>9 DEF SyncInv, localVars, ReplaysAreExact, Overlap

LEMMA SaveSteps ==
  ASSUME SyncInv, NEW p \in Procs, NEW l \in Labels, SaveState(p, l), l # "idle",
         UNCHANGED <<localVars, sent, receipts>>
  PROVE  \/ SyncInv'
         \/ /\ disk' = mem[p] /\ pc' \in [Procs -> Labels] /\ pc'[p] = l
            /\ \A q \in Procs : q # p => pc'[q] = pc[q]
            /\ UNCHANGED <<run, lock, mem>>
  <1>1. CASE Finish(p) /\ disk' = disk
    BY <1>1, FinishKeeps
  <1>2. CASE Goto(p, l) /\ disk' = mem[p] /\ mem' = mem
    BY <1>2 DEF Goto, SyncInv, TypeOK
  <1>3. QED
    BY <1>1, <1>2 DEF SaveState

(* After a save the copy is the file again.                                *)
LEMMA SavedCopy ==
  ASSUME SyncInv, NEW p \in Procs, Uploading(p), disk' = mem[p],
         UNCHANGED <<run, mem, localVars, receipts>>
  PROVE  /\ Mine(p)' = Mine(p) /\ Durable(p)' = Mine(p) /\ Scope(p)' = Scope(p)
         /\ mem'[p] = [disk' EXCEPT ![Scope(p)'] = Mine(p)']
         /\ RecordInv(run[p].token, run[p].store, Mine(p))
              => ScopeInv(run[p].token, run[p].store)'
  <1>1. mem[p] \in [Scopes -> ScopeState] /\ Scope(p) \in Scopes
        /\ Scope(p) = <<run[p].token, run[p].store>>
    BY UploadingTypes
  <1>2. Mine(p)' = Mine(p) /\ Durable(p)' = Mine(p) /\ Scope(p)' = Scope(p)
    BY DEF Mine, Durable, Scope
  <1>3. mem[p] = [mem[p] EXCEPT ![Scope(p)] = mem[p][Scope(p)]]
    BY <1>1
  <1>4. disk'[<<run[p].token, run[p].store>>] = Mine(p)
    BY <1>1 DEF Mine
  <1>5. \A w, s, n : Delivered(w, s, n)' <=> Delivered(w, s, n)
    BY DEF Delivered
  <1>6. RecordInv(run[p].token, run[p].store, Mine(p))
          => ScopeInv(run[p].token, run[p].store)'
    BY <1>4, <1>5 DEF ScopeInv, RecordInv, localVars
  <1>7. QED
    BY <1>1, <1>2, <1>3, <1>6 DEF Mine

LEMMA RecordTypes ==
  ASSUME NEW d \in ScopeState
  PROVE  /\ d.cursor \in Nat /\ d.cursor \in Seqs
         /\ d.ws \in Workspaces \cup {None} /\ d.accepted \in BOOLEAN
         /\ d.pending # None => d.pending \in Body /\ d.pending.through \in Nat
  BY ConstantTypes DEF ScopeState, Body

LEMMA SaveAcceptanceKeeps ==
  ASSUME SyncInv, NEW p \in Procs, SaveAcceptance(p)
  PROVE  SyncInv'
  <1>1. pc[p] = "saveAcceptance" /\ SaveState(p, "loop") /\ UNCHANGED <<localVars, sent, receipts>>
    BY DEF SaveAcceptance
  <1>2. Uploading(p)
    BY <1>1 DEF Uploading
  <1>3. Mine(p) = [Durable(p) EXCEPT !.accepted = TRUE]
    BY <1>1, <1>2, UploadingTypes DEF CopyInv
  <1>4. SUFFICES ASSUME disk' = mem[p], pc' \in [Procs -> Labels], pc'[p] = "loop",
                        \A q \in Procs : q # p => pc'[q] = pc[q],
                        UNCHANGED <<run, lock, mem>>
                 PROVE  SyncInv'
    BY <1>1, SaveSteps DEF Labels
  <1>5. /\ Mine(p).accepted /\ Mine(p).cursor = Durable(p).cursor
        /\ Mine(p).ws = Durable(p).ws /\ Mine(p).pending = Durable(p).pending
    BY <1>2, <1>3, UploadingTypes, RecordTypes
  <1>6. Uploading(p)'
    BY <1>4 DEF Uploading
  <1>7. CopyInv(p)'
    BY <1>1, <1>2, <1>4, <1>5, SavedCopy DEF CopyInv
  <1>8. RangeInv(p)'
    BY <1>1, <1>2, <1>4, <1>5, SavedCopy, UploadingTypes DEF RangeInv, localVars
  <1>9. RecordInv(run[p].token, run[p].store, Mine(p))
    BY <1>2, <1>5, UploadingTypes DEF ScopeInv, RecordInv
  <1>10. Mine(p).cursor >= Durable(p).cursor
    <2>1. Durable(p).cursor \in Nat
      BY <1>2, UploadingTypes, RecordTypes
    <2>2. QED
      BY <1>5, <2>1
  <1>11. ScopeInv(run[p].token, run[p].store)'
    BY <1>1, <1>2, <1>4, <1>9, SavedCopy
  <1>12. QED
    BY <1>1, <1>2, <1>4, <1>5, <1>6, <1>7, <1>8, <1>10, <1>11, SaveKeeps

LEMMA SavePendingKeeps ==
  ASSUME SyncInv, NEW p \in Procs, SavePending(p)
  PROVE  SyncInv'
  <1>1. pc[p] = "savePending" /\ SaveState(p, "post") /\ UNCHANGED <<localVars, sent, receipts>>
    BY DEF SavePending
  <1>2. Uploading(p)
    BY <1>1 DEF Uploading
  <1>3. /\ Durable(p).pending = None /\ Durable(p).accepted
        /\ Mine(p).pending \in NextBatch(p)
        /\ Mine(p) = [Durable(p) EXCEPT !.pending = Mine(p).pending]
    BY <1>1, <1>2, UploadingTypes DEF CopyInv
  <1>4. SUFFICES ASSUME disk' = mem[p], pc' \in [Procs -> Labels], pc'[p] = "post",
                        \A q \in Procs : q # p => pc'[q] = pc[q],
                        UNCHANGED <<run, lock, mem>>
                 PROVE  SyncInv'
    BY <1>1, SaveSteps DEF Labels
  <1>5. /\ Mine(p).accepted = Durable(p).accepted /\ Mine(p).cursor = Durable(p).cursor
        /\ Mine(p).ws = Durable(p).ws
    BY <1>2, <1>3, UploadingTypes DEF ScopeState
  <1> DEFINE b == Mine(p).pending
  <1>6. /\ b \in Body /\ b # None
        /\ b.ws = Mine(p).ws /\ b.store = run[p].store /\ b.epoch = 0
        /\ b.after = Mine(p).cursor
        /\ b.after < b.through /\ b.through <= run[p].hwm
    <2>1. TypeOK /\ pc[p] \notin {"idle", "lock", "load"} /\ b \in NextBatch(p)
      BY <1>1, <1>3 DEF SyncInv
    <2>2. /\ b \in Body
          /\ b.ws = Mine(p).ws /\ b.store = run[p].store /\ b.epoch = run[p].epoch
          /\ b.after = Mine(p).cursor
          /\ b.after < b.through /\ b.through <= run[p].hwm
      BY <2>1, NextBatchTypes
    <2>3. run[p].epoch = 0
      BY <1>2, UploadingTypes
    <2>4. QED
      BY <2>2, <2>3, NoneTypes
  <1>7. Uploading(p)'
    BY <1>4 DEF Uploading
  <1>8. CopyInv(p)'
    BY <1>1, <1>2, <1>3, <1>4, <1>5, <1>6, SavedCopy DEF CopyInv
  <1>9. RangeInv(p)'
    BY <1>1, <1>2, <1>4, <1>5, <1>6, SavedCopy, UploadingTypes DEF RangeInv, localVars
  <1>10. /\ b.through <= log[<<run[p].store, 0>>]
         /\ \A n \in Mine(p).cursor + 1 .. b.through : <<run[p].store, n>> \notin Unsafe
    <2>1. /\ b.through \in Nat /\ run[p].hwm \in Nat /\ Mine(p).cursor \in Nat
          /\ log[<<run[p].store, 0>>] \in Nat
      BY <1>2, <1>6, UploadingTypes, RecordTypes, ConstantTypes
         DEF Body, Options, SyncInv, TypeOK, Files
    <2>2. RangeInv(p)
      BY <1>2, UploadingTypes
    <2>3. QED
      BY <1>5, <1>6, <2>1, <2>2 DEF RangeInv
  <1>11. RecordInv(run[p].token, run[p].store, Mine(p))
    <2>1. RecordInv(run[p].token, run[p].store, Durable(p))
      BY <1>2, UploadingTypes DEF ScopeInv
    <2>2. Mine(p).cursor < b.through
      BY <1>6
    <2>3. QED
      BY <1>3, <1>5, <1>6, <1>10, <2>1, <2>2 DEF RecordInv
  <1>12. Mine(p).cursor >= Durable(p).cursor
    <2>1. Durable(p).cursor \in Nat
      BY <1>2, UploadingTypes, RecordTypes
    <2>2. QED
      BY <1>5, <2>1
  <1>13. ScopeInv(run[p].token, run[p].store)'
    BY <1>1, <1>2, <1>4, <1>11, SavedCopy
  <1>14. QED
    BY <1>1, <1>2, <1>3, <1>4, <1>7, <1>8, <1>9, <1>12, <1>13, SaveKeeps

LEMMA SaveCursorKeeps ==
  ASSUME SyncInv, NEW p \in Procs, SaveCursor(p)
  PROVE  SyncInv'
  <1>1. pc[p] = "saveCursor" /\ SaveState(p, "loop") /\ UNCHANGED <<localVars, sent, receipts>>
    BY DEF SaveCursor
  <1>2. Uploading(p)
    BY <1>1 DEF Uploading
  <1> DEFINE b == Durable(p).pending
  <1> DEFINE w == Home[run[p].token]
  <1>3. /\ b # None /\ Durable(p).accepted
        /\ Mine(p) = [Durable(p) EXCEPT !.cursor = b.through, !.pending = None, !.ws = w]
        /\ <<w, b>> \in receipts
    BY <1>1, <1>2, UploadingTypes DEF CopyInv
  <1>4. SUFFICES ASSUME disk' = mem[p], pc' \in [Procs -> Labels], pc'[p] = "loop",
                        \A q \in Procs : q # p => pc'[q] = pc[q],
                        UNCHANGED <<run, lock, mem>>
                 PROVE  SyncInv'
    BY <1>1, SaveSteps DEF Labels
  <1>5. /\ Mine(p).accepted = Durable(p).accepted /\ Mine(p).cursor = b.through
        /\ Mine(p).ws = w /\ Mine(p).pending = None
    BY <1>2, <1>3, UploadingTypes DEF ScopeState
  <1>6. /\ b \in Body /\ b.through \in Nat /\ Durable(p).cursor \in Nat
        /\ run[p].hwm \in Nat /\ log[<<run[p].store, 0>>] \in Nat
    BY <1>2, <1>3, UploadingTypes, RecordTypes, ConstantTypes
       DEF Options, SyncInv, TypeOK, Files
  <1>7. /\ b.store = run[p].store /\ b.epoch = 0 /\ b.after = Durable(p).cursor
        /\ Durable(p).cursor < b.through /\ b.through <= log[<<run[p].store, 0>>]
        /\ \A n \in 1 .. Durable(p).cursor : Delivered(w, run[p].store, n)
    BY <1>2, <1>3, UploadingTypes DEF ScopeInv, RecordInv
  <1>8. /\ run[p].hwm <= log[<<run[p].store, 0>>] /\ b.through <= run[p].hwm
        /\ \A n \in Durable(p).cursor + 1 .. run[p].hwm : <<run[p].store, n>> \notin Unsafe
    BY <1>2, <1>3, UploadingTypes DEF RangeInv
  <1>9. \A n \in 1 .. b.through : Delivered(w, run[p].store, n)
    <2>1. ASSUME NEW n \in 1 .. b.through PROVE Delivered(w, run[p].store, n)
      <3>1. CASE n <= Durable(p).cursor
        BY <1>6, <1>7, <3>1
      <3>2. CASE ~(n <= Durable(p).cursor)
        <4>1. b.after < n /\ n <= b.through
          BY <1>6, <1>7, <3>2
        <4>2. <<w, b>>[1] = w /\ <<w, b>>[2] = b
          OBVIOUS
        <4>3. QED
          BY <1>3, <1>7, <4>1, <4>2 DEF Delivered
      <3>3. QED
        BY <3>1, <3>2
    <2>2. QED
      BY <2>1
  <1> HIDE DEF b, w
  <1>10. Uploading(p)'
    BY <1>4 DEF Uploading
  <1>11. CopyInv(p)'
    BY <1>1, <1>2, <1>3, <1>4, <1>5, SavedCopy DEF CopyInv
  <1>12. RangeInv(p)'
    <2>1. \A n \in b.through + 1 .. run[p].hwm : <<run[p].store, n>> \notin Unsafe
      BY <1>6, <1>7, <1>8
    <2>2. /\ Durable(p)' = Mine(p) /\ run' = run /\ log' = log
      BY <1>1, <1>2, <1>4, SavedCopy DEF localVars
    <2>3. QED
      BY <1>5, <1>8, <2>1, <2>2 DEF RangeInv
  <1>13. RecordInv(run[p].token, run[p].store, Mine(p))
    BY <1>5, <1>7, <1>9 DEF RecordInv, w
  <1>14. Mine(p).cursor >= Durable(p).cursor /\ Durable(p).pending.through <= Mine(p).cursor
    BY <1>5, <1>6, <1>7 DEF b
  <1>15. ScopeInv(run[p].token, run[p].store)'
    BY <1>1, <1>2, <1>4, <1>13, SavedCopy
  <1>16. QED
    BY <1>1, <1>2, <1>4, <1>10, <1>11, <1>12, <1>14, <1>15, SaveKeeps

-------------------------------------------------------------------------------
(* What other parties do                                                   *)

LEMMA DeliverLateKeeps ==
  ASSUME SyncInv, NEW x \in sent, DeliverLate(x[1], x[2])
  PROVE  SyncInv'
  <1>1. /\ receipts' = receipts \cup {<<Home[x[1]], x[2]>>}
        /\ UNCHANGED <<procVars, lock, disk, localVars, sent>>
    BY DEF DeliverLate, Record
  <1>2. x[1] \in Tokens /\ x[2] \in Body /\ Home[x[1]] \in Workspaces
    BY ConstantTypes DEF SyncInv, TypeOK
  <1>3. TypeOK'
    BY <1>1, <1>2 DEF SyncInv, TypeOK, procVars, localVars
  <1>4. log \in [Files -> Seqs] /\ \A f \in Files : log[f] <= log[f]
    BY ConstantTypes DEF SyncInv, TypeOK
  <1>5. ASSUME NEW p \in Procs PROVE ProcInv(p)'
    <2>1. ProcInv(p) /\ receipts \subseteq receipts'
      BY <1>1 DEF SyncInv
    <2>2. CopyInv(p) => CopyInv(p)'
      BY <1>1 DEF CopyInv, procVars, Durable, Mine, Scope, NextBatch
    <2>3. RangeInv(p) => RangeInv(p)'
      BY <1>1 DEF RangeInv, procVars, localVars, Durable, Scope
    <2>4. QED
      BY <1>1, <2>1, <2>2, <2>3 DEF ProcInv, procVars, Holding, Uploading
  <1>6. QED
    BY <1>1, <1>3, <1>4, <1>5, DurableFacts DEF SyncInv, localVars

LEMMA CaptureKeeps ==
  ASSUME SyncInv, NEW s \in Stores, Capture(s)
  PROVE  SyncInv'
  <1> DEFINE f == <<s, epoch[s]>>
  <1>1. /\ f \in Files /\ log[f] < MaxEvents /\ log' = [log EXCEPT ![f] = log[f] + 1]
        /\ UNCHANGED <<procVars, lock, disk, epoch, sent, receipts>>
    BY ConstantTypes DEF Capture, SyncInv, TypeOK, Files
  <1> HIDE DEF f
  <1>2. log \in [Files -> Seqs]
    BY DEF SyncInv, TypeOK
  <1>3. log[f] + 1 \in Seqs
    BY <1>1, <1>2, ConstantTypes DEF Seqs
  <1>4. log' \in [Files -> Seqs] /\ \A g \in Files : log[g] <= log'[g]
    BY <1>1, <1>2, <1>3, ConstantTypes
  <1>5. TypeOK'
    BY <1>1, <1>4 DEF SyncInv, TypeOK, procVars
  <1>6. ASSUME NEW p \in Procs PROVE ProcInv(p)'
    <2>1. ProcInv(p)
      BY DEF SyncInv
    <2>2. CopyInv(p) => CopyInv(p)'
      BY <1>1 DEF CopyInv, procVars, Durable, Mine, Scope, NextBatch
    <2>3. ASSUME Uploading(p) PROVE RangeInv(p)'
      <3>1. run[p] \in Options /\ RangeInv(p) /\ run[p].store \in Stores
        BY <2>3, UploadingTypes
      <3>2. <<run[p].store, 0>> \in Files
        BY <3>1, ConstantTypes DEF Files
      <3>3. /\ log[<<run[p].store, 0>>] \in Nat /\ log'[<<run[p].store, 0>>] \in Nat
            /\ log[<<run[p].store, 0>>] <= log'[<<run[p].store, 0>>]
            /\ run[p].hwm \in Nat
        BY <1>2, <1>4, <3>1, <3>2, ConstantTypes DEF Options
      <3>4. QED
        BY <1>1, <3>1, <3>3 DEF RangeInv, procVars, Durable, Scope
    <2>4. QED
      BY <1>1, <2>1, <2>2, <2>3 DEF ProcInv, procVars, Holding, Uploading
  <1>7. QED
    BY <1>1, <1>4, <1>5, <1>6, DurableFacts DEF SyncInv

-------------------------------------------------------------------------------
(* The invariant                                                           *)

LEMMA SyncInvInit == Init => SyncInv
  <1> SUFFICES ASSUME Init PROVE SyncInv
    OBVIOUS
  <1>1. NewScope \in ScopeState /\ disk = [sc \in Scopes |-> NewScope]
    BY ConstantTypes DEF Init, NewScope, NewDiskState, ScopeState
  <1>2. TypeOK
    BY <1>1, ConstantTypes DEF Init, TypeOK, Labels
  <1>3. ASSUME NEW t \in Tokens, NEW s \in Stores PROVE ScopeInv(t, s)
    <2>1. disk[<<t, s>>] = NewScope /\ log[<<s, 0>>] = 0
      BY <1>1, ConstantTypes DEF Init, Scopes, Files
    <2>2. QED
      BY <2>1 DEF ScopeInv, RecordInv, NewScope
  <1>4. \A p \in Procs : ProcInv(p)
    BY DEF Init, ProcInv, Holding, Uploading
  <1>5. QED
    BY <1>2, <1>3, <1>4 DEF Init, SyncInv, ReplaysAreExact

LEMMA SyncInvNext == SyncInv /\ [Next]_vars => SyncInv'
  <1> SUFFICES ASSUME SyncInv, [Next]_vars PROVE SyncInv'
    OBVIOUS
  <1>1. ASSUME NEW p \in Procs, Start(p) \/ RunStep(p) \/ Crash(p) PROVE SyncInv'
    <2>1. CASE Start(p)
      BY <2>1, StartKeeps
    <2>2. CASE Crash(p) \/ PostFails(p)
      BY <2>2, FinishKeeps DEF Crash, PostFails
    <2>3. CASE RunStep(p)
      BY <2>2, <2>3, AcquireKeeps, LoadKeeps, PreviewKeeps, SaveAcceptanceKeeps,
         BuildPendingKeeps, SavePendingKeeps, PostKeeps, ReceiveKeeps, SaveCursorKeeps
         DEF RunStep
    <2>4. QED
      BY <1>1, <2>1, <2>2, <2>3
  <1>2. ASSUME NEW x \in sent, DeliverLate(x[1], x[2]) PROVE SyncInv'
    BY <1>2, DeliverLateKeeps
  <1>3. ASSUME NEW s \in Stores, Capture(s) PROVE SyncInv'
    BY <1>3, CaptureKeeps
  <1>4. CASE UNCHANGED vars
    <2>1. ASSUME NEW p \in Procs PROVE ProcInv(p)'
      <3>1. CopyInv(p) => CopyInv(p)'
        BY <1>4 DEF CopyInv, vars, procVars, Durable, Mine, Scope, NextBatch
      <3>2. RangeInv(p) => RangeInv(p)'
        BY <1>4 DEF RangeInv, vars, procVars, localVars, Durable, Scope
      <3>3. QED
        BY <1>4, <3>1, <3>2 DEF SyncInv, ProcInv, vars, procVars, Holding, Uploading
    <2>2. TypeOK'
      BY <1>4 DEF SyncInv, TypeOK, vars, procVars, localVars
    <2>3. log \in [Files -> Seqs] /\ \A f \in Files : log[f] <= log[f]
      BY ConstantTypes DEF SyncInv, TypeOK
    <2>4. QED
      BY <1>4, <2>1, <2>2, <2>3, DurableFacts DEF SyncInv, vars, localVars
  <1>5. QED
    BY <1>1, <1>2, <1>3, <1>4 DEF Next

LEMMA SyncInvAlways == Spec => []SyncInv
  BY SyncInvInit, SyncInvNext, PTL DEF Spec

-------------------------------------------------------------------------------
(* Theorems                                                                *)

(* Every variable keeps its type.                                          *)
THEOREM SyncTypeCorrect == Spec => []TypeOK
  <1>1. SyncInv => TypeOK
    BY DEF SyncInv
  <1>2. QED
    BY <1>1, SyncInvAlways, PTL

(* Crashes, lost, late and repeated requests never make sync skip an event. *)
THEOREM SyncDelivers == Spec => []CursorMeansDelivered
  <1>1. SyncInv => CursorMeansDelivered
    <2> SUFFICES ASSUME SyncInv, NEW t \in Tokens, NEW s \in Stores,
                        NEW n \in 1 .. log[<<s, epoch[s]>>], n <= disk[<<t, s>>].cursor
                 PROVE  \E pol \in Policies :
                          <<Home[t], <<<<s, epoch[s], n>>, pol>>>> \in Evidence
      BY DEF CursorMeansDelivered
    <2>1. epoch[s] = 0 /\ ScopeInv(t, s) /\ disk[<<t, s>>] \in ScopeState
      BY DEF SyncInv, TypeOK, Scopes
    <2>2. disk[<<t, s>>].cursor \in Nat
      BY <2>1, RecordTypes
    <2>3. n \in 1 .. disk[<<t, s>>].cursor
      BY <2>2
    <2>4. Delivered(Home[t], s, n)
      BY <2>1, <2>3 DEF ScopeInv, RecordInv
    <2>5. PICK x \in receipts : /\ x[1] = Home[t] /\ x[2].store = s /\ x[2].epoch = 0
                                /\ x[2].after < n /\ n <= x[2].through
      BY <2>4 DEF Delivered
    <2>6. x[2] \in Body
      BY DEF SyncInv, TypeOK
    <2>7. n \in x[2].after + 1 .. x[2].through /\ x[2].policy \in Policies
      BY <2>5, <2>6, ConstantTypes DEF Body
    <2>8. <<<<s, 0, n>>, x[2].policy>> \in BodyEvents(x[2])
      BY <2>5, <2>7 DEF BodyEvents
    <2>9. <<Home[t], <<<<s, 0, n>>, x[2].policy>>>> \in Evidence
      BY <2>5, <2>8 DEF Evidence
    <2>10. QED
      BY <2>1, <2>7, <2>9
  <1>2. QED
    BY <1>1, SyncInvAlways, PTL

(* No retry charges an event twice: what is sent again is the same bytes.  *)
THEOREM SyncReplaysExactly == Spec => []ReplaysAreExact
  <1>1. SyncInv => ReplaysAreExact
    BY DEF SyncInv
  <1>2. QED
    BY <1>1, SyncInvAlways, PTL

(* Sync always accepts the state it wrote itself.                          *)
THEOREM SyncNeverWedges == Spec => []NeverWedged
  <1>1. SyncInv => NeverWedged
    BY ZenonT(40) DEF SyncInv, NeverWedged, ScopeInv, RecordInv, PendingUsable
  <1>2. QED
    BY <1>1, SyncInvAlways, PTL

(* One event that cannot be redacted closes the boundary for the whole run. *)
THEOREM SyncFailsClosed == Spec => []FailClosed
  <1>1. SyncInv => FailClosed
    <2> SUFFICES ASSUME SyncInv, NEW p \in Procs, pc[p] \in {"post", "wait"}
                 PROVE  /\ Mine(p).pending.through <= run[p].hwm
                        /\ \A n \in Mine(p).cursor + 1 .. run[p].hwm :
                             <<run[p].store, n>> \notin Unsafe
      BY DEF FailClosed
    <2>1. Uploading(p)
      BY DEF Uploading
    <2>2. Mine(p) = Durable(p) /\ Durable(p).pending # None
      BY <2>1, UploadingTypes DEF CopyInv
    <2>3. QED
      BY <2>1, <2>2, UploadingTypes DEF RangeInv
  <1>2. QED
    BY <1>1, SyncInvAlways, PTL

(* Acceptance and the exact body are on disk before a request leaves.      *)
THEOREM SyncIsDurableFirst == Spec => DurableBeforeSent
  <1>1. SyncInv /\ [Next]_vars => [DurableStep]_vars
    <2> SUFFICES ASSUME SyncInv, [Next]_vars PROVE DurableStep
      OBVIOUS
    <2>1. CASE sent' = sent
      BY <2>1 DEF DurableStep
    <2>2. CASE \E p \in Procs : PostPending(p)
      BY <2>2, PostKeeps
    <2>3. sent' = sent \/ \E p \in Procs : PostPending(p)
      BY DEF Next, vars, Start, RunStep, AcquireStateLock, LoadState, Preview,
         SaveAcceptance, BuildPending, SavePending, ReceiveReceipt, PostFails,
         SaveCursor, Crash, DeliverLate, Capture
    <2>4. QED
      BY <2>1, <2>2, <2>3
  <1>2. QED
    BY <1>1, SyncInvAlways, PTL DEF Spec, DurableBeforeSent

(* A save changes its own scope's record only, and only forward.           *)
LEMMA SaveForward ==
  ASSUME SyncInv, NEW p \in Procs, Uploading(p), disk' = mem[p],
         pc[p] \in {"saveAcceptance", "savePending", "saveCursor"}
  PROVE  ForwardStep
  <1> DEFINE b == Durable(p).pending
  <1>1. /\ Durable(p) \in ScopeState /\ Scope(p) \in Scopes /\ disk \in [Scopes -> ScopeState]
        /\ disk' = [disk EXCEPT ![Scope(p)] = Mine(p)]
        /\ Durable(p) = disk[Scope(p)]
    BY UploadingTypes DEF CopyInv, Durable, SyncInv, TypeOK
  <1>2. RecordInv(run[p].token, run[p].store, Durable(p))
    BY UploadingTypes DEF ScopeInv
  <1>3. /\ Durable(p).cursor \in Nat
        /\ Durable(p).ws \in {None, Home[run[p].token]}
        /\ b # None => b.through \in Nat /\ Durable(p).cursor < b.through
    BY <1>1, <1>2, RecordTypes DEF RecordInv
  <1>4. /\ Mine(p).cursor >= Durable(p).cursor
        /\ Durable(p).accepted => Mine(p).accepted
        /\ Durable(p).ws # None => Mine(p).ws = Durable(p).ws
        /\ b # None => Mine(p).pending = b \/ Mine(p).cursor >= b.through
    <2>1. CASE pc[p] = "saveAcceptance"
      <3>1. Mine(p) = [Durable(p) EXCEPT !.accepted = TRUE]
        BY <2>1, UploadingTypes DEF CopyInv
      <3>2. QED
        BY <1>1, <1>3, <3>1 DEF ScopeState
    <2>2. CASE pc[p] = "savePending"
      <3>1. b = None /\ Mine(p) = [Durable(p) EXCEPT !.pending = Mine(p).pending]
        BY <2>2, UploadingTypes DEF CopyInv
      <3>2. QED
        BY <1>1, <1>3, <3>1 DEF ScopeState
    <2>3. CASE pc[p] = "saveCursor"
      <3>1. /\ Mine(p) = [Durable(p) EXCEPT !.cursor = b.through, !.pending = None,
                              !.ws = Home[run[p].token]]
            /\ b # None
        BY <2>3, UploadingTypes DEF CopyInv
      <3>2. /\ Mine(p).cursor = b.through /\ Mine(p).ws = Home[run[p].token]
            /\ Mine(p).accepted = Durable(p).accepted
        BY <1>1, <3>1 DEF ScopeState
      <3>3. QED
        BY <1>3, <3>1, <3>2
    <2>4. QED
      BY <2>1, <2>2, <2>3
  <1>5. ASSUME NEW sc \in Scopes
        PROVE  /\ disk'[sc].cursor >= disk[sc].cursor
               /\ disk[sc].accepted => disk'[sc].accepted
               /\ disk[sc].ws # None => disk'[sc].ws = disk[sc].ws
               /\ disk[sc].pending # None =>
                    \/ disk'[sc].pending = disk[sc].pending
                    \/ disk'[sc].cursor >= disk[sc].pending.through
    <2>1. CASE sc = Scope(p)
      <3>1. disk'[sc] = Mine(p) /\ disk[sc] = Durable(p)
        BY <1>1, <2>1
      <3>2. QED
        BY <1>4, <3>1
    <2>2. CASE sc # Scope(p)
      <3>1. disk'[sc] = disk[sc] /\ disk[sc] \in ScopeState
        BY <1>1, <2>2
      <3>2. disk[sc].cursor \in Nat
        BY <3>1, RecordTypes
      <3>3. QED
        BY <3>1, <3>2
    <2>3. QED
      BY <2>1, <2>2
  <1>6. QED
    BY <1>5 DEF ForwardStep

(* No invocation takes back what another one recorded in the state file.   *)
THEOREM SyncLosesNoUpdate == Spec => NoLostUpdate
  <1>1. SyncInv /\ [Next]_vars => [ForwardStep]_vars
    <2> SUFFICES ASSUME SyncInv, [Next]_vars PROVE ForwardStep
      OBVIOUS
    <2> DEFINE Saves(p) == /\ pc[p] \in {"saveAcceptance", "savePending", "saveCursor"}
                           /\ disk' = mem[p]
    <2>1. CASE disk' = disk
      <3>1. \A sc \in Scopes : disk[sc].cursor \in Nat
        BY RecordTypes DEF SyncInv, TypeOK
      <3>2. QED
        BY <2>1, <3>1 DEF ForwardStep
    <2>2. CASE \E p \in Procs : Saves(p)
      <3>1. PICK p \in Procs : Saves(p)
        BY <2>2
      <3>2. Uploading(p)
        BY <3>1 DEF Uploading
      <3>3. QED
        BY <3>1, <3>2, SaveForward
    <2>3. disk' = disk \/ \E p \in Procs : Saves(p)
      BY DEF Next, vars, Start, RunStep, AcquireStateLock, LoadState, Preview,
         SaveAcceptance, BuildPending, SavePending, PostPending, ReceiveReceipt,
         PostFails, SaveCursor, SaveState, Crash, DeliverLate, Capture
    <2>4. QED
      BY <2>1, <2>2, <2>3
  <1>2. QED
    BY <1>1, SyncInvAlways, PTL DEF Spec, NoLostUpdate

-------------------------------------------------------------------------------
(* The service seen from sync is the ledger that hosted ingest implements  *)

Served == [s \in Workspaces \X Body |-> IF s \in receipts THEN BodyEvents(s[2]) ELSE None]

LEMMA RecordAccepts ==
  ASSUME NEW t \in Tokens, NEW b \in Body, Serves(t, b), Record(t, b)
  PROVE  [Ledger!Next]_Ledger!ledger
  <1> DEFINE slot == <<Home[t], b>>
             content == BodyEvents(b)
  <1>1. slot \in Workspaces \X Body /\ slot[1] = Home[t] /\ slot[2] = b
    BY ConstantTypes
  <1>2. receipts' = receipts \cup {slot}
    BY DEF Record
  <1>3. CASE slot \in receipts
    <2>1. receipts' = receipts
      BY <1>2, <1>3
    <2>2. Evidence' = Evidence /\ Served' = Served
      BY <2>1 DEF Evidence, Served
    <2>3. QED
      BY <2>2 DEF Ledger!ledger, Served
  <1>4. CASE slot \notin receipts
    <2>1. Evidence' = Evidence \cup Ledger!Recorded(slot, content)
      BY <1>1, <1>2 DEF Evidence, Ledger!Recorded
    <2>2. Ledger!Consistent(Evidence')
      BY <1>4, <2>1 DEF Serves
    <2>3. Served[slot] = None
      BY <1>1, <1>4 DEF Served
    <2>4. Served' = [Served EXCEPT ![slot] = content]
      BY <1>1, <1>2 DEF Served
    <2>5. Ledger!Accept(slot, content)
      BY <2>1, <2>2, <2>3, <2>4 DEF Ledger!Accept, Served
    <2>6. content \in {BodyEvents(x) : x \in Body}
      OBVIOUS
    <2>7. Ledger!Next
      BY <1>1, <2>5, <2>6 DEF Ledger!Next
    <2>8. QED
      BY <2>7
  <1>5. QED
    BY <1>3, <1>4

(* Whatever crashes, is lost, comes late or twice, what sync's requests do *)
(* to the service is a behaviour of IngestLedger: one batch per key, and   *)
(* never two redactions of one event in a workspace.                       *)
THEOREM SyncServesLedger == Spec => ServerIsLedger
  <1>1. Init => Ledger!Init
    <2> SUFFICES ASSUME Init PROVE Ledger!Init
      OBVIOUS
    <2>1. Evidence = {}
      BY DEF Init, Evidence
    <2>2. Served = [s \in Workspaces \X Body |-> None]
      BY DEF Init, Served
    <2>3. QED
      BY <2>1, <2>2, Zenon DEF Ledger!Init, Served
  <1>2. SyncInv /\ [Next]_vars => [Ledger!Next]_Ledger!ledger
    <2> SUFFICES ASSUME SyncInv, [Next]_vars PROVE [Ledger!Next]_Ledger!ledger
      OBVIOUS
    <2>1. CASE receipts' = receipts
      <3>1. Evidence' = Evidence /\ Served' = Served
        BY <2>1 DEF Evidence, Served
      <3>2. QED
        BY <3>1 DEF Ledger!ledger, Served
    <2>2. ASSUME NEW p \in Procs, ReceiveReceipt(p) PROVE [Ledger!Next]_Ledger!ledger
      <3>1. Uploading(p) /\ Mine(p) = Durable(p) /\ Durable(p).pending # None
        BY <2>2, UploadingTypes DEF ReceiveReceipt, Uploading, CopyInv
      <3>2. Mine(p).pending \in Body /\ run[p].token \in Tokens
        BY <3>1, UploadingTypes, ConstantTypes DEF ScopeState
      <3>3. Serves(run[p].token, Mine(p).pending) /\ Record(run[p].token, Mine(p).pending)
        BY <2>2 DEF ReceiveReceipt
      <3>4. QED
        BY <3>2, <3>3, RecordAccepts
    <2>3. ASSUME NEW x \in sent, DeliverLate(x[1], x[2]) PROVE [Ledger!Next]_Ledger!ledger
      <3>1. x[1] \in Tokens /\ x[2] \in Body
        BY DEF SyncInv, TypeOK
      <3>2. QED
        BY <2>3, <3>1, RecordAccepts DEF DeliverLate
    <2>4. ASSUME NEW p \in Procs, Start(p) \/ RunStep(p) \/ Crash(p)
          PROVE  receipts' = receipts \/ ReceiveReceipt(p)
      BY <2>4 DEF Start, RunStep, Crash, AcquireStateLock, LoadState, Preview, SaveAcceptance,
         BuildPending, SavePending, PostPending, PostFails, SaveCursor
    <2>5. ASSUME NEW s \in Stores, Capture(s) PROVE receipts' = receipts
      BY <2>5 DEF Capture
    <2>6. QED
      BY <2>1, <2>2, <2>3, <2>4, <2>5 DEF Next, vars
  <1>3. QED
    BY <1>1, <1>2, SyncInvAlways, PTL DEF Spec, ServerIsLedger, Ledger!Spec
===============================================================================
