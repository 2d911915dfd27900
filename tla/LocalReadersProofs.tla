-------------------------- MODULE LocalReadersProofs --------------------------
(***************************************************************************)
(* Theorems about the local database: any number of hooks, imports and     *)
(* readers, any events, batches and sessions; and any number of calls that *)
(* hand a workstream over.                                                 *)
(***************************************************************************)
EXTENDS LocalReaders, Handoffs, SetLemmas

-------------------------------------------------------------------------------
(* The inductive invariant                                                 *)

(* Inside a transaction: the owners still agree with what is stored (the   *)
(* lock keeps others out), and what is left of the batch is still to come, *)
(* was there, or is in the draft, above every number given out.            *)
InsertInv(w) ==
  /\ OwnedAsStored(w)
  /\ EventsOf(todo[w]) \subseteq EventsOf(batch[w])
  /\ \A e \in EventsOf(batch[w]) :
       e \in EventsOf(todo[w]) \cup Recorded \/ \E r \in draft[w] : r.event = e
  /\ \A r \in draft[w] :
       /\ r.by = w /\ r.event \in EventsOf(batch[w])
       /\ lastSeq < r.seq /\ r.seq <= lastSeq + inserted[w]
       /\ \A f \in Recorded : IdOf[f] # IdOf[r.event]

HookInv(w) ==
  /\ pc[w] # "insert" => draft[w] = {}
  /\ (\E r \in rows : r.by = w) => pc[w] = "done"
  /\ pc[w] = "done" => EventsOf(batch[w]) \subseteq Recorded
  /\ pc[w] = "idle" => inserted[w] = 0
  /\ pc[w] \in {"begin", "owners"} => todo[w] = batch[w] /\ inserted[w] = 0
  /\ pc[w] = "insert" => InsertInv(w)

StoreInv ==
  /\ TypeOK
  /\ \A r \in rows : r.seq <= lastSeq
  /\ \A w \in Hooks : HookInv(w)
  /\ OneOwner

-------------------------------------------------------------------------------
(* Sequences and rows                                                      *)

LEMMA EventsOfTail ==
  ASSUME NEW q \in Seq(Events), q # <<>>
  PROVE  /\ Head(q) \in Events /\ Tail(q) \in Seq(Events)
         /\ EventsOf(q) = {Head(q)} \cup EventsOf(Tail(q))
  <1>1. /\ Head(q) = q[1] /\ Tail(q) \in Seq(Events) /\ Len(q) \in Nat /\ Len(q) > 0
        /\ Len(Tail(q)) = Len(q) - 1
        /\ \A i \in 1 .. Len(q) - 1 : Tail(q)[i] = q[i + 1]
    OBVIOUS
  <1>2. Head(q) \in Events
    BY <1>1
  <1>3. ASSUME NEW i \in 1 .. Len(q) PROVE q[i] \in {Head(q)} \cup EventsOf(Tail(q))
    <2>1. CASE i = 1
      BY <1>1, <2>1
    <2>2. CASE i # 1
      <3>1. i - 1 \in 1 .. Len(q) - 1 /\ Tail(q)[i - 1] = q[i]
        BY <1>1, <2>2
      <3>2. QED
        BY <1>1, <3>1 DEF EventsOf
    <2>3. QED
      BY <2>1, <2>2
  <1>4. ASSUME NEW i \in 1 .. Len(q) - 1 PROVE Tail(q)[i] \in EventsOf(q)
    <2>1. i + 1 \in 1 .. Len(q) /\ Tail(q)[i] = q[i + 1]
      BY <1>1
    <2>2. QED
      BY <2>1 DEF EventsOf
  <1>5. Head(q) \in EventsOf(q)
    <2>1. 1 \in 1 .. Len(q)
      BY <1>1
    <2>2. QED
      BY <1>1, <2>1 DEF EventsOf
  <1>6. QED
    BY <1>1, <1>2, <1>3, <1>4, <1>5 DEF EventsOf

LEMMA EventsOfType ==
  ASSUME NEW q \in Seq(Events)
  PROVE  EventsOf(q) \subseteq Events /\ (q = <<>> => EventsOf(q) = {})
  BY DEF EventsOf

LEMMA BatchTypes == Batches \subseteq Seq(Events) /\ Hooks \subseteq Writers
                    /\ Writers \subseteq Invocations /\ Hooks \cap Importers = {}
                    /\ None \notin Writers
  BY EventStoreAssumption DEF Writers
-------------------------------------------------------------------------------
(* What a step of somebody else leaves of a hook's invariant               *)

LEMMA OthersKeep ==
  ASSUME NEW w \in Hooks, HookInv(w),
         pc'[w] = pc[w], batch'[w] = batch[w], todo'[w] = todo[w],
         draft'[w] = draft[w], inserted'[w] = inserted[w],
         rows \subseteq rows', \A r \in rows' \ rows : r.by # w,
         pc[w] = "insert" => rows' = rows /\ lastSeq' = lastSeq
  PROVE  HookInv(w)'
  <1>1. Recorded \subseteq Recorded'
    BY DEF Recorded
  <1>2. (\E r \in rows' : r.by = w) => (\E r \in rows : r.by = w)
    OBVIOUS
  <1>3. pc[w] = "insert" => Recorded' = Recorded
    BY DEF Recorded
  <1>4. ASSUME pc[w] = "insert" PROVE InsertInv(w)'
    <2>1. InsertInv(w)
      BY <1>4 DEF HookInv
    <2>2. OwnedAsStored(w)'
      BY <1>3, <1>4, <2>1 DEF InsertInv, OwnedAsStored
    <2>3. QED
      BY <1>3, <1>4, <2>1, <2>2 DEF InsertInv
  <1>5. QED
    BY <1>1, <1>2, <1>4 DEF HookInv

(* A row appended outside a batch: nobody is inside a transaction.         *)
LEMMA AppendKeeps ==
  ASSUME StoreInv, NEW e \in Events, NEW v \in Invocations \ Hooks,
         lock = None, InsertOrIgnore(e, v), UNCHANGED <<lock, batch, draft, inserted, existing>>,
         \A w \in Hooks : pc'[w] = pc[w] /\ todo'[w] = todo[w],
         TypeOK'
  PROVE  StoreInv' /\ GrowStep
  <1> DEFINE new == [seq |-> lastSeq + 1, event |-> e, by |-> v]
  <1>1. lastSeq' = lastSeq + 1 /\ lastSeq \in Nat /\ rows' \in {rows, rows \cup {new}}
        /\ (rows' # rows => \A f \in Recorded : IdOf[f] # IdOf[e])
    BY DEF InsertOrIgnore, StoreInv, TypeOK
  <1>2. \A r \in rows : r.seq \in Nat /\ r.seq <= lastSeq
    BY DEF StoreInv, TypeOK, Row
  <1>3. \A r \in rows' : r.seq <= lastSeq'
    BY <1>1, <1>2
  <1>4. \A r \in rows' \ rows : r.by \notin Hooks
    BY <1>1
  <1>5. ASSUME NEW w \in Hooks PROVE HookInv(w)'
    <2>1. pc[w] # "insert"
      BY BatchTypes DEF StoreInv, TypeOK
    <2>2. QED
      BY <1>1, <1>4, <2>1, OthersKeep DEF StoreInv
  <1>6. OneOwner'
    BY <1>1, <1>4 DEF StoreInv, OneOwner, Agree
  <1>7. GrowStep
    <2>1. ASSUME NEW r \in rows' \ rows, NEW s \in rows
          PROVE  s.seq < r.seq /\ IdOf[r.event] # IdOf[s.event]
      <3>1. r = new /\ r.seq = lastSeq + 1 /\ r.event = e
        BY <1>1
      <3>2. s.event \in Recorded
        BY DEF Recorded
      <3>3. QED
        BY <1>1, <1>2, <3>1, <3>2
    <2>2. QED
      BY <1>1, <2>1 DEF GrowStep
  <1>8. QED
    BY <1>3, <1>5, <1>6, <1>7 DEF StoreInv

(* A step of one writer that commits nothing.                              *)
LEMMA LocalStep ==
  ASSUME StoreInv, NEW u \in Writers, UNCHANGED <<rows, lastSeq>>, TypeOK',
         \A w \in Hooks \ {u} :
           /\ pc'[w] = pc[w] /\ batch'[w] = batch[w] /\ todo'[w] = todo[w]
           /\ draft'[w] = draft[w] /\ inserted'[w] = inserted[w],
         u \in Hooks => HookInv(u)'
  PROVE  StoreInv' /\ GrowStep
  <1>1. ASSUME NEW w \in Hooks PROVE HookInv(w)'
    BY OthersKeep DEF StoreInv
  <1>2. OneOwner'
    BY DEF StoreInv, OneOwner, Agree
  <1>3. QED
    BY <1>1, <1>2 DEF StoreInv, GrowStep
-------------------------------------------------------------------------------
(* Types                                                                   *)

LEMMA FailType ==
  ASSUME TypeOK, NEW w \in Writers, NEW label \in {"failed", "killed"},
         Rollback(w), Goto(w, label), UNCHANGED <<rows, lastSeq, batch, todo, inserted, existing>>
  PROVE  TypeOK'
  <1>1. pc' \in [Writers -> Labels] /\ draft' \in [Writers -> SUBSET Row]
        /\ lock' \in Writers \cup {None}
    BY DEF TypeOK, Rollback, Goto, Labels
  <1>2. ASSUME NEW x \in Writers PROVE pc'[x] \in {"owners", "insert"} <=> lock' = x
    BY BatchTypes DEF TypeOK, Rollback, Goto
  <1>3. QED
    BY <1>1, <1>2 DEF TypeOK

LEMMA InsertType ==
  ASSUME TypeOK, NEW w \in Writers, InsertNext(w)
  PROVE  TypeOK'
  <1> DEFINE e == Head(todo[w])
             same == {f \in Recorded : IdOf[f] = IdOf[e]}
             new == [seq |-> lastSeq + inserted[w] + 1, event |-> e, by |-> w]
  <1>1. e \in Events /\ Tail(todo[w]) \in Seq(Events) /\ w \in Invocations
    BY EventsOfTail, BatchTypes DEF InsertNext, TypeOK
  <1>2. new \in Row
    <2>1. lastSeq + inserted[w] + 1 \in Nat \ {0}
      BY DEF TypeOK
    <2>2. QED
      BY <1>1, <2>1 DEF Row
  <1>3. CASE /\ draft' = [draft EXCEPT ![w] = @ \cup {new}]
             /\ inserted' = [inserted EXCEPT ![w] = @ + 1]
             /\ todo' = [todo EXCEPT ![w] = Tail(@)]
             /\ UNCHANGED <<storeVars, pc, batch, existing>>
    <2>1. draft' \in [Writers -> SUBSET Row] /\ inserted' \in [Writers -> Nat]
          /\ todo' \in [Writers -> Seq(Events)]
      BY <1>1, <1>2, <1>3 DEF TypeOK
    <2>2. QED
      BY <1>3, <2>1 DEF TypeOK, storeVars
  <1>4. CASE /\ existing' = [existing EXCEPT ![w] = @ + 1]
             /\ todo' = [todo EXCEPT ![w] = Tail(@)]
             /\ UNCHANGED <<storeVars, pc, batch, draft, inserted>>
    <2>1. existing' \in [Writers -> Nat] /\ todo' \in [Writers -> Seq(Events)]
      BY <1>1, <1>4 DEF TypeOK
    <2>2. QED
      BY <1>4, <2>1 DEF TypeOK, storeVars
  <1>5. CASE Fail(w)
    BY <1>5, FailType DEF Fail
  <1>6. QED
    BY <1>3, <1>4, <1>5, Zenon DEF InsertNext

LEMMA InsertOrIgnoreType ==
  ASSUME TypeOK, NEW e \in Events, NEW v \in Invocations, InsertOrIgnore(e, v)
  PROVE  rows' \subseteq Row /\ lastSeq' \in Nat
  <1>1. lastSeq + 1 \in Nat \ {0}
    BY DEF TypeOK
  <1>2. [seq |-> lastSeq + 1, event |-> e, by |-> v] \in Row
    BY <1>1 DEF Row
  <1>3. QED
    BY <1>1, <1>2 DEF TypeOK, InsertOrIgnore

LEMMA WritersType == TypeOK /\ WritersNext => TypeOK'
  <1> SUFFICES ASSUME TypeOK, WritersNext PROVE TypeOK'
    OBVIOUS
  <1>1. ASSUME NEW w \in Hooks, StartBatch(w) PROVE TypeOK'
    <2>1. PICK q \in Batches : /\ batch' = [batch EXCEPT ![w] = q]
                               /\ todo' = [todo EXCEPT ![w] = q]
                               /\ Goto(w, IF Prepared(q) THEN "begin" ELSE "failed")
      BY <1>1 DEF StartBatch
    <2>2. batch' \in [Writers -> Seq(Events)] /\ todo' \in [Writers -> Seq(Events)]
          /\ pc' \in [Writers -> Labels]
      BY <2>1, BatchTypes DEF TypeOK, Goto, Labels
    <2>3. \A x \in Writers : pc'[x] \in {"owners", "insert"} <=> pc[x] \in {"owners", "insert"}
      BY <1>1, <2>1 DEF StartBatch, TypeOK, Goto
    <2>4. QED
      BY <1>1, <2>2, <2>3 DEF StartBatch, TypeOK, storeVars
  <1>2. ASSUME NEW w \in Hooks, BeginImmediate(w) PROVE TypeOK'
    <2>1. pc' \in [Writers -> Labels] /\ lock' = w /\ w \in Writers
      BY <1>2, BatchTypes DEF BeginImmediate, TypeOK, Goto, Labels
    <2>2. \A x \in Writers : pc'[x] \in {"owners", "insert"} <=> lock' = x
      BY <1>2, <2>1, BatchTypes DEF BeginImmediate, TypeOK, Goto
    <2>3. QED
      BY <1>2, <2>1, <2>2 DEF BeginImmediate, TypeOK
  <1>3. ASSUME NEW w \in Hooks, ValidateStoredOwnership(w) PROVE TypeOK'
    <2>1. CASE Fail(w)
      BY <2>1, FailType, BatchTypes DEF Fail
    <2>2. CASE Goto(w, "insert") /\ UNCHANGED <<storeVars, batch, todo, draft, inserted, existing>>
      <3>1. pc' \in [Writers -> Labels]
        BY <2>2 DEF TypeOK, Goto, Labels
      <3>2. \A x \in Writers : pc'[x] \in {"owners", "insert"} <=> pc[x] \in {"owners", "insert"}
        BY <1>3, <2>2 DEF ValidateStoredOwnership, TypeOK, Goto
      <3>3. QED
        BY <2>2, <3>1, <3>2 DEF TypeOK, storeVars
    <2>3. QED
      BY <1>3, <2>1, <2>2 DEF ValidateStoredOwnership
  <1>4. ASSUME NEW w \in Hooks, InsertNext(w) PROVE TypeOK'
    BY <1>4, InsertType, BatchTypes
  <1>5. ASSUME NEW w \in Hooks, Commit(w) PROVE TypeOK'
    <2>1. rows' \subseteq Row /\ lastSeq' \in Nat /\ pc' \in [Writers -> Labels]
          /\ draft' \in [Writers -> SUBSET Row] /\ lock' \in Writers \cup {None}
      BY <1>5, BatchTypes DEF Commit, Rollback, TypeOK, Goto, Labels
    <2>2. \A x \in Writers : pc'[x] \in {"owners", "insert"} <=> lock' = x
      BY <1>5, BatchTypes DEF Commit, Rollback, TypeOK, Goto
    <2>3. QED
      BY <1>5, <2>1, <2>2 DEF Commit, TypeOK
  <1>6. ASSUME NEW w \in Hooks, Abort(w) PROVE TypeOK'
    BY <1>6, FailType, BatchTypes DEF Abort, Fail
  <1>7. ASSUME NEW w \in Importers, StartAppends(w) PROVE TypeOK'
    <2>1. PICK q \in Batches : /\ batch' = [batch EXCEPT ![w] = q]
                               /\ todo' = [todo EXCEPT ![w] = q]
      BY <1>7 DEF StartAppends
    <2>2. batch' \in [Writers -> Seq(Events)] /\ todo' \in [Writers -> Seq(Events)]
          /\ pc' \in [Writers -> Labels]
      BY <1>7, <2>1, BatchTypes DEF StartAppends, TypeOK, Goto, Labels
    <2>3. \A x \in Writers : pc'[x] \in {"owners", "insert"} <=> pc[x] \in {"owners", "insert"}
      BY <1>7 DEF StartAppends, TypeOK, Goto
    <2>4. QED
      BY <1>7, <2>2, <2>3 DEF StartAppends, TypeOK, storeVars
  <1>8. ASSUME NEW w \in Importers, AppendNext(w) PROVE TypeOK'
    <2>1. w \in Writers /\ w \in Invocations
      BY BatchTypes DEF Writers
    <2>2. Head(todo[w]) \in Events /\ todo' \in [Writers -> Seq(Events)]
      BY <1>8, <2>1, EventsOfTail DEF AppendNext, TypeOK
    <2>3. rows' \subseteq Row /\ lastSeq' \in Nat
      BY <1>8, <2>1, <2>2, InsertOrIgnoreType DEF AppendNext, TypeOK
    <2>4. QED
      BY <1>8, <2>2, <2>3 DEF AppendNext, TypeOK
  <1>9. ASSUME NEW w \in Importers, EndAppends(w) PROVE TypeOK'
    <2>1. pc' \in [Writers -> Labels]
      BY <1>9 DEF EndAppends, TypeOK, Goto, Labels
    <2>2. \A x \in Writers : pc'[x] \in {"owners", "insert"} <=> pc[x] \in {"owners", "insert"}
      BY <1>9 DEF EndAppends, TypeOK, Goto
    <2>3. QED
      BY <1>9, <2>1, <2>2 DEF EndAppends, TypeOK, storeVars
  <1>10. ASSUME NEW w \in Writers, Kill(w) PROVE TypeOK'
    BY <1>10, FailType DEF Kill
  <1>11. QED
    BY <1>1, <1>2, <1>3, <1>4, <1>5, <1>6, <1>7, <1>8, <1>9, <1>10
    DEF WritersNext, HookStep, ImporterStep
-------------------------------------------------------------------------------
(* Every step keeps the invariant and only adds at the end of the log      *)

LEMMA FailKeeps ==
  ASSUME StoreInv, NEW w \in Writers, NEW label \in {"failed", "killed"},
         pc[w] \notin {"idle", "done"},
         Rollback(w), Goto(w, label), UNCHANGED <<rows, lastSeq, batch, todo, inserted, existing>>
  PROVE  StoreInv' /\ GrowStep
  <1>1. TypeOK'
    BY FailType DEF StoreInv
  <1>2. ASSUME w \in Hooks PROVE HookInv(w)'
    BY <1>2 DEF StoreInv, HookInv, TypeOK, Goto, Rollback
  <1>3. \A x \in Hooks \ {w} : pc'[x] = pc[x] /\ draft'[x] = draft[x]
    BY BatchTypes DEF Goto, Rollback, StoreInv, TypeOK
  <1>4. QED
    BY <1>1, <1>2, <1>3, LocalStep

LEMMA StartBatchKeeps ==
  ASSUME StoreInv, NEW w \in Hooks, StartBatch(w), TypeOK'
  PROVE  StoreInv' /\ GrowStep
  <1>1. PICK q \in Batches : /\ batch' = [batch EXCEPT ![w] = q]
                             /\ todo' = [todo EXCEPT ![w] = q]
                             /\ Goto(w, IF Prepared(q) THEN "begin" ELSE "failed")
    BY DEF StartBatch
  <1>2. batch'[w] = q /\ todo'[w] = q /\ pc'[w] \in {"begin", "failed"}
        /\ draft'[w] = {} /\ rows' = rows /\ inserted'[w] = inserted[w]
    BY <1>1, BatchTypes DEF StartBatch, StoreInv, HookInv, TypeOK, Goto, storeVars
  <1>3. \A r \in rows : r.by # w
    BY DEF StartBatch, StoreInv, HookInv
  <1>4. inserted[w] = 0
    BY DEF StartBatch, StoreInv, HookInv
  <1>5. HookInv(w)'
    BY <1>2, <1>3, <1>4 DEF HookInv
  <1>6. QED
    BY <1>1, <1>5, BatchTypes, LocalStep DEF StartBatch, Goto, storeVars, StoreInv, TypeOK

LEMMA BeginKeeps ==
  ASSUME StoreInv, NEW w \in Hooks, BeginImmediate(w), TypeOK'
  PROVE  StoreInv' /\ GrowStep
  <1>1. pc'[w] = "owners"
    BY BatchTypes DEF BeginImmediate, Goto, StoreInv, TypeOK
  <1>2. HookInv(w)'
    BY <1>1 DEF BeginImmediate, StoreInv, HookInv
  <1>3. QED
    BY <1>2, BatchTypes, LocalStep DEF BeginImmediate, Goto, StoreInv, TypeOK

LEMMA ValidateKeeps ==
  ASSUME StoreInv, NEW w \in Hooks, ValidateStoredOwnership(w), TypeOK'
  PROVE  StoreInv' /\ GrowStep
  <1>1. CASE Fail(w)
    BY <1>1, FailKeeps, BatchTypes DEF Fail, ValidateStoredOwnership
  <1>2. CASE /\ batch[w] = <<>> \/ OwnedAsStored(w)
             /\ Goto(w, "insert")
             /\ UNCHANGED <<storeVars, batch, todo, draft, inserted, existing>>
    <2>1. pc'[w] = "insert" /\ rows' = rows /\ Recorded' = Recorded
      BY <1>2, BatchTypes DEF Goto, StoreInv, TypeOK, storeVars, Recorded
    <2>2. OwnedAsStored(w)
      <3>1. batch[w] = <<>> => EventsOf(batch[w]) = {}
        BY EventsOfType, BatchTypes DEF StoreInv, TypeOK
      <3>2. QED
        BY <1>2, <3>1 DEF OwnedAsStored, OwnersAgree
    <2>3. draft[w] = {} /\ todo[w] = batch[w]
      BY DEF ValidateStoredOwnership, StoreInv, HookInv
    <2>4. InsertInv(w)'
      BY <1>2, <2>1, <2>2, <2>3 DEF InsertInv, OwnedAsStored, storeVars
    <2>5. HookInv(w)'
      BY <1>2, <2>1, <2>4 DEF HookInv, StoreInv, ValidateStoredOwnership
    <2>6. QED
      BY <1>2, <2>5, BatchTypes, LocalStep DEF Goto, StoreInv, TypeOK, storeVars
  <1>3. QED
    BY <1>1, <1>2 DEF ValidateStoredOwnership

LEMMA InsertKeeps ==
  ASSUME StoreInv, NEW w \in Hooks, InsertNext(w), TypeOK'
  PROVE  StoreInv' /\ GrowStep
  <1> DEFINE e == Head(todo[w])
             same == {f \in Recorded : IdOf[f] = IdOf[e]}
             new == [seq |-> lastSeq + inserted[w] + 1, event |-> e, by |-> w]
  <1>1. /\ InsertInv(w) /\ w \in Writers /\ pc[w] = "insert"
        /\ EventsOf(todo[w]) = {e} \cup EventsOf(Tail(todo[w]))
        /\ lastSeq \in Nat /\ inserted[w] \in Nat
        /\ draft[w] \subseteq Row
    BY EventsOfTail, BatchTypes DEF InsertNext, StoreInv, HookInv, TypeOK
  <1>2. CASE Fail(w)
    BY <1>1, <1>2, FailKeeps DEF Fail
  <1>3. CASE /\ same = {}
             /\ draft' = [draft EXCEPT ![w] = @ \cup {new}]
             /\ inserted' = [inserted EXCEPT ![w] = @ + 1]
             /\ todo' = [todo EXCEPT ![w] = Tail(@)]
             /\ UNCHANGED <<storeVars, pc, batch, existing>>
    <2>1. /\ draft'[w] = draft[w] \cup {new} /\ inserted'[w] = inserted[w] + 1
          /\ todo'[w] = Tail(todo[w]) /\ rows' = rows /\ lastSeq' = lastSeq
          /\ Recorded' = Recorded /\ batch' = batch /\ pc' = pc
      BY <1>1, <1>3 DEF StoreInv, TypeOK, storeVars, Recorded
    <2>2. ASSUME NEW r \in draft'[w]
          PROVE  /\ r.by = w /\ r.event \in EventsOf(batch[w])
                 /\ lastSeq < r.seq /\ r.seq <= lastSeq + inserted'[w]
                 /\ \A f \in Recorded : IdOf[f] # IdOf[r.event]
      <3>1. CASE r \in draft[w]
        <4>1. r.seq \in Nat /\ r.seq <= lastSeq + inserted[w]
          BY <1>1, <3>1 DEF InsertInv, Row
        <4>2. r.seq <= lastSeq + (inserted[w] + 1)
          BY <1>1, <4>1
        <4>3. QED
          BY <1>1, <2>1, <3>1, <4>2 DEF InsertInv
      <3>2. CASE r = new
        <4>1. r.seq = lastSeq + inserted[w] + 1 /\ r.event = e /\ r.by = w
          BY <3>2
        <4>2. e \in EventsOf(batch[w])
          BY <1>1 DEF InsertInv
        <4>3. QED
          BY <1>1, <1>3, <2>1, <4>1, <4>2
      <3>3. QED
        BY <2>1, <3>1, <3>2
    <2>3. ASSUME NEW x \in EventsOf(batch[w])
          PROVE  x \in EventsOf(todo'[w]) \cup Recorded \/ \E r \in draft'[w] : r.event = x
      <3>1. CASE x = e
        <4>1. new \in draft'[w] /\ new.event = e
          BY <2>1
        <4>2. QED
          BY <3>1, <4>1
      <3>2. CASE x # e
        BY <1>1, <2>1, <3>2 DEF InsertInv
      <3>3. QED
        BY <3>1, <3>2
    <2>4. InsertInv(w)'
      BY <1>1, <2>1, <2>2, <2>3 DEF InsertInv, OwnedAsStored
    <2>5. HookInv(w)'
      BY <1>1, <2>1, <2>4 DEF HookInv, StoreInv
    <2>6. QED
      BY <1>1, <1>3, <2>1, <2>5, LocalStep, BatchTypes DEF StoreInv, TypeOK
  <1>4. CASE /\ same = {e}
             /\ existing' = [existing EXCEPT ![w] = @ + 1]
             /\ todo' = [todo EXCEPT ![w] = Tail(@)]
             /\ UNCHANGED <<storeVars, pc, batch, draft, inserted>>
    <2>1. /\ todo'[w] = Tail(todo[w]) /\ rows' = rows /\ lastSeq' = lastSeq
          /\ Recorded' = Recorded
      BY <1>1, <1>4 DEF StoreInv, TypeOK, storeVars, Recorded
    <2>2. e \in Recorded
      BY <1>4
    <2>3. InsertInv(w)'
      BY <1>1, <1>4, <2>1, <2>2 DEF InsertInv, OwnedAsStored
    <2>4. HookInv(w)'
      BY <1>1, <1>4, <2>1, <2>3 DEF HookInv, StoreInv
    <2>5. QED
      BY <1>1, <1>4, <2>1, <2>4, LocalStep, BatchTypes DEF StoreInv, TypeOK
  <1>5. QED
    BY <1>2, <1>3, <1>4, Zenon DEF InsertNext

LEMMA CommitKeeps ==
  ASSUME StoreInv, NEW w \in Hooks, Commit(w), TypeOK'
  PROVE  StoreInv' /\ GrowStep
  <1>1. /\ InsertInv(w) /\ w \in Writers /\ lastSeq \in Nat /\ inserted[w] \in Nat
        /\ draft[w] \subseteq Row /\ rows \subseteq Row /\ EventsOf(todo[w]) = {}
    BY EventsOfType, BatchTypes DEF Commit, StoreInv, HookInv, TypeOK
  <1>2. /\ rows' = rows \cup draft[w] /\ lastSeq' = lastSeq + inserted[w]
        /\ pc'[w] = "done" /\ draft'[w] = {} /\ batch' = batch
    BY <1>1 DEF Commit, Rollback, Goto, StoreInv, TypeOK
  <1>3. Recorded' = Recorded \cup {r.event : r \in draft[w]}
    BY <1>2 DEF Recorded
  <1>4. \A r \in rows' : r.seq <= lastSeq'
    <2>1. ASSUME NEW r \in rows PROVE r.seq <= lastSeq + inserted[w]
      <3>1. r.seq \in Nat /\ r.seq <= lastSeq
        BY <1>1 DEF StoreInv, Row
      <3>2. QED
        BY <1>1, <3>1
    <2>2. QED
      BY <1>1, <1>2, <2>1 DEF InsertInv
  <1>5. EventsOf(batch[w]) \subseteq Recorded'
    BY <1>1, <1>3 DEF InsertInv
  <1>6. HookInv(w)'
    BY <1>2, <1>5 DEF HookInv
  <1>7. ASSUME NEW x \in Hooks PROVE HookInv(x)'
    <2>1. CASE x # w
      <3>1. pc[x] # "insert"
        BY <2>1, BatchTypes DEF Commit, StoreInv, TypeOK
      <3>2. \A r \in rows' \ rows : r.by # x
        BY <1>1, <1>2, <2>1 DEF InsertInv
      <3>3. pc'[x] = pc[x] /\ draft'[x] = draft[x]
        BY <2>1, BatchTypes DEF Commit, Rollback, Goto, StoreInv, TypeOK
      <3>4. QED
        BY <1>2, <3>1, <3>2, <3>3, OthersKeep DEF Commit, StoreInv
    <2>2. QED
      BY <1>6, <2>1
  <1>8. OneOwner'
    <2>1. ASSUME NEW r \in draft[w], NEW s \in rows \cup draft[w]
          PROVE  Agree(r.event, s.event) /\ Agree(s.event, r.event)
      <3>1. r.event \in EventsOf(batch[w])
        BY <1>1 DEF InsertInv
      <3>2. CASE s.event \in EventsOf(batch[w])
        BY <1>1, <3>1, <3>2 DEF InsertInv, OwnedAsStored, OwnersAgree
      <3>3. CASE s \in rows /\ SessionOf[s.event] = SessionOf[r.event]
        <4>1. s.event \in Recorded
          BY <3>3 DEF Recorded
        <4>2. QED
          BY <1>1, <3>1, <3>3, <4>1 DEF InsertInv, OwnedAsStored, OwnersAgree
      <3>4. CASE SessionOf[s.event] # SessionOf[r.event]
        BY <3>4 DEF Agree
      <3>5. QED
        BY <1>1, <3>2, <3>3, <3>4 DEF InsertInv
    <2>2. ASSUME NEW r \in rows', NEW s \in rows', r.by \in Hooks, s.by \in Hooks
          PROVE  Agree(r.event, s.event)
      <3>1. CASE r \in rows /\ s \in rows
        BY <2>2, <3>1 DEF StoreInv, OneOwner
      <3>2. CASE r \in draft[w] \/ s \in draft[w]
        BY <1>2, <2>1, <3>2
      <3>3. QED
        BY <1>2, <3>1, <3>2
    <2>3. QED
      BY <2>2 DEF OneOwner, Agree
  <1>9. GrowStep
    <2>1. ASSUME NEW r \in rows' \ rows, NEW s \in rows
          PROVE  s.seq < r.seq /\ IdOf[r.event] # IdOf[s.event]
      <3>1. r \in draft[w] /\ s.event \in Recorded
        BY <1>2 DEF Recorded
      <3>2. s.seq \in Nat /\ s.seq <= lastSeq /\ lastSeq < r.seq /\ r.seq \in Nat
        BY <1>1, <3>1 DEF StoreInv, InsertInv, Row
      <3>3. QED
        BY <1>1, <3>1, <3>2 DEF InsertInv
    <2>2. QED
      BY <1>2, <2>1 DEF GrowStep
  <1>10. QED
    BY <1>4, <1>7, <1>8, <1>9 DEF StoreInv

LEMMA AppendNextKeeps ==
  ASSUME StoreInv, NEW w \in Importers, AppendNext(w), TypeOK'
  PROVE  StoreInv' /\ GrowStep
  <1>1. w \in Writers /\ w \in Invocations \ Hooks /\ Head(todo[w]) \in Events
    BY BatchTypes, EventsOfTail DEF AppendNext, StoreInv, TypeOK, Writers
  <1>2. \A x \in Hooks : pc'[x] = pc[x] /\ todo'[x] = todo[x]
    BY <1>1, BatchTypes DEF AppendNext, StoreInv, TypeOK
  <1>3. CASE lock = None /\ InsertOrIgnore(Head(todo[w]), w)
    BY <1>1, <1>2, <1>3, AppendKeeps DEF AppendNext
  <1>4. CASE UNCHANGED <<rows, lastSeq>>
    BY <1>1, <1>2, <1>4, LocalStep DEF AppendNext
  <1>5. QED
    BY <1>3, <1>4 DEF AppendNext

LEMMA WritersKeep ==
  ASSUME StoreInv, WritersNext
  PROVE  StoreInv' /\ GrowStep
  <1> TypeOK'
    BY WritersType DEF StoreInv
  <1>1. ASSUME NEW w \in Hooks, Abort(w) PROVE StoreInv' /\ GrowStep
    BY <1>1, FailKeeps, BatchTypes DEF Abort, Fail
  <1>2. ASSUME NEW w \in Importers, StartAppends(w) PROVE StoreInv' /\ GrowStep
    <2>1. w \in Writers /\ w \notin Hooks
      BY BatchTypes DEF Writers
    <2>2. PICK q \in Batches : batch' = [batch EXCEPT ![w] = q] /\ todo' = [todo EXCEPT ![w] = q]
      BY <1>2 DEF StartAppends
    <2>3. QED
      BY <1>2, <2>1, <2>2, BatchTypes, LocalStep
      DEF StartAppends, Goto, storeVars, StoreInv, TypeOK
  <1>3. ASSUME NEW w \in Importers, EndAppends(w) PROVE StoreInv' /\ GrowStep
    <2>1. w \in Writers /\ w \notin Hooks
      BY BatchTypes DEF Writers
    <2>2. QED
      BY <1>3, <2>1, BatchTypes, LocalStep DEF EndAppends, Goto, storeVars, StoreInv, TypeOK
  <1>4. ASSUME NEW w \in Writers, Kill(w) PROVE StoreInv' /\ GrowStep
    BY <1>4, FailKeeps DEF Kill
  <1>5. QED
    BY <1>1, <1>2, <1>3, <1>4, StartBatchKeeps, BeginKeeps, ValidateKeeps, InsertKeeps,
       CommitKeeps, AppendNextKeeps
    DEF WritersNext, HookStep, ImporterStep

LEMMA StoreStart == Init => StoreInv
  <1> SUFFICES ASSUME Init PROVE StoreInv
    OBVIOUS
  <1>1. TypeOK
    BY BatchTypes DEF Init, TypeOK, Labels
  <1>2. \A w \in Hooks : HookInv(w)
    BY BatchTypes DEF Init, HookInv
  <1>3. QED
    BY <1>1, <1>2 DEF Init, StoreInv, OneOwner

-------------------------------------------------------------------------------
(* The readers                                                             *)

(* verify's own event is the only thing a reader adds to the log.          *)
LEMMA RecordKeeps ==
  ASSUME StoreInv, NEW v \in Verifiers, RecordVerification(v)
  PROVE  StoreInv' /\ GrowStep
  <1>1. v \in Invocations \ Hooks /\ VerificationOf[v] \in Events
    BY ReadersAssumption DEF Readers, Writers
  <1>2. TypeOK'
    BY <1>1, InsertOrIgnoreType DEF RecordVerification, StoreInv, TypeOK, writerVars
  <1>3. QED
    BY <1>1, <1>2, AppendKeeps DEF RecordVerification, writerVars

LEMMA UnchangedKeeps ==
  ASSUME StoreInv, UNCHANGED vars
  PROVE  StoreInv' /\ GrowStep
  <1> USE DEF vars, storeVars, writerVars
  <1>1. TypeOK'
    BY DEF StoreInv, TypeOK
  <1>2. ASSUME NEW w \in Hooks PROVE HookInv(w)'
    BY OthersKeep DEF StoreInv
  <1>3. QED
    BY <1>1, <1>2 DEF StoreInv, OneOwner, Agree, GrowStep

(* What a reader does other than recording its verification.               *)
Reads ==
  \/ \E i \in Readers : StartReader(i) \/ IndexStep(i) \/ StopReader(i)
  \/ \E v \in Verifiers : LookUpReport(v) \/ CompareSnapshot(v) \/ RunVerifyChecks(v)
                             \/ TakeSnapshot(v) \/ SaveReport(v)

LEMMA StepSplit ==
  ASSUME [Next]_allVars
  PROVE  \/ WritersNext /\ UNCHANGED <<readerVars, derivedVars>>
         \/ Reads
         \/ \E v \in Verifiers : RecordVerification(v)
         \/ UNCHANGED allVars
  BY Zenon DEF Next, Reads, VerifyStep

LEMMA ReadsOnly == Reads => UNCHANGED vars
  <1>1. ASSUME NEW i \in Readers, IndexStep(i) PROVE UNCHANGED vars
    BY <1>1, Zenon DEF IndexStep, ReadCounts, ReadSnapshot, ListEvents, ReadMaxSeq,
       RebuildObservations, QueryObservations, ClearObservations, ClearVerifyResults
  <1>2. ASSUME NEW i \in Readers, StartReader(i) \/ StopReader(i) PROVE UNCHANGED vars
    BY <1>2, Zenon DEF StartReader, StopReader
  <1>3. ASSUME NEW v \in Verifiers,
               LookUpReport(v) \/ CompareSnapshot(v) \/ RunVerifyChecks(v)
               \/ TakeSnapshot(v) \/ SaveReport(v)
        PROVE  UNCHANGED vars
    BY <1>3, Zenon DEF LookUpReport, CompareSnapshot, RunVerifyChecks, TakeSnapshot, SaveReport
  <1>4. QED
    BY <1>1, <1>2, <1>3, Zenon DEF Reads

LEMMA StoreStep ==
  ASSUME StoreInv, [Next]_allVars
  PROVE  StoreInv' /\ GrowStep
  <1>1. CASE UNCHANGED vars
    BY <1>1, UnchangedKeeps
  <1>2. UNCHANGED allVars => UNCHANGED vars
    BY Zenon DEF allVars
  <1>3. QED
    BY <1>1, <1>2, StepSplit, WritersKeep, ReadsOnly, RecordKeeps, Zenon

LEMMA StoreAlways == ReadersSpec => []StoreInv
  <1>1. ReadersInit => StoreInv
    BY StoreStart DEF ReadersInit
  <1>2. StoreInv /\ [Next]_allVars => StoreInv'
    BY StoreStep
  <1>3. QED
    BY <1>1, <1>2, PTL DEF ReadersSpec

-------------------------------------------------------------------------------
(* The theorems about the event log                                        *)

(* A batch of event_batch.go that reported success, or left a single row,  *)
(* is on record whole: beside any other commands, wherever it was killed.  *)
THEOREM BatchesAreAtomic == ReadersSpec => []AllOrNothing
  <1>1. StoreInv => AllOrNothing
    BY DEF StoreInv, HookInv, AllOrNothing
  <1>2. QED
    BY <1>1, StoreAlways, PTL

(* Whatever interleaves, the batches of event_batch.go never record two    *)
(* owners of one session.                                                  *)
THEOREM SessionsKeepOneOwner == ReadersSpec => []OneOwner
  <1>1. StoreInv => OneOwner
    BY DEF StoreInv
  <1>2. QED
    BY <1>1, StoreAlways, PTL

(* No command, batch or not, adds a row at or below a sequence number that *)
(* is on record, or changes or removes a row (db.go, event_batch.go).      *)
THEOREM LogGrowsAtTheEnd == ReadersSpec => GrowsAtTheEnd
  <1>1. StoreInv /\ [Next]_allVars => [GrowStep]_vars
    BY StoreStep
  <1>2. QED
    BY <1>1, StoreAlways, PTL DEF ReadersSpec, GrowsAtTheEnd
-------------------------------------------------------------------------------
(* The index                                                               *)

(* The log is finite, and the snapshot tells the size of what was indexed, *)
(* although its maximum was read later: with index \subseteq rows, of      *)
(* ReadersTypeOK, equal sizes make equal sets.                             *)
IndexInv ==
  /\ ReadersTypeOK
  /\ IsFiniteSet(rows) /\ \A w \in Writers : IsFiniteSet(draft[w])
  /\ meta # None /\ ~cleared => meta.count = Cardinality(index)

LEMMA IndexStart == ReadersInit => IndexInv
  <1> SUFFICES ASSUME ReadersInit PROVE IndexInv
    OBVIOUS
  <1>1. ReadersTypeOK
    BY StoreStart DEF ReadersInit, ReadersTypeOK, Stages, Init, StoreInv
  <1>2. QED
    BY <1>1, FS_EmptySet DEF ReadersInit, Init, IndexInv

LEMMA InsertStaysFinite ==
  ASSUME IsFiniteSet(rows), NEW e, NEW v, InsertOrIgnore(e, v)
  PROVE  IsFiniteSet(rows')
  BY FS_AddElement DEF InsertOrIgnore

LEMMA WritersStayFinite ==
  ASSUME StoreInv, WritersNext, IsFiniteSet(rows), \A w \in Writers : IsFiniteSet(draft[w])
  PROVE  IsFiniteSet(rows') /\ \A w \in Writers : IsFiniteSet(draft'[w])
  <1> DEFINE Finite == IsFiniteSet(rows') /\ \A w \in Writers : IsFiniteSet(draft'[w])
  <1>0. draft \in [Writers -> SUBSET Row]
    BY DEF StoreInv, TypeOK
  <1>1. ASSUME NEW w \in Writers, Rollback(w), UNCHANGED rows PROVE Finite
    BY <1>0, <1>1, FS_EmptySet DEF Rollback
  <1>2. ASSUME UNCHANGED <<rows, draft>> PROVE Finite
    BY <1>2
  <1>3. ASSUME NEW w \in Hooks, InsertNext(w) PROVE Finite
    <2>1. CASE UNCHANGED <<storeVars, draft>>
      BY <1>2, <2>1 DEF storeVars
    <2>2. CASE Fail(w)
      BY <1>1, <2>2, BatchTypes DEF Fail
    <2>3. ASSUME NEW new, draft' = [draft EXCEPT ![w] = @ \cup {new}], UNCHANGED rows
          PROVE  Finite
      <3>1. IsFiniteSet(draft[w] \cup {new})
        BY BatchTypes, FS_AddElement
      <3>2. QED
        BY <1>0, <2>3, <3>1
    <2>4. QED
      BY <1>3, <2>1, <2>2, <2>3, Zenon DEF InsertNext, storeVars
  <1>4. ASSUME NEW w \in Hooks, Commit(w) PROVE Finite
    <2>1. IsFiniteSet(rows')
      BY <1>4, FS_Union, BatchTypes DEF Commit
    <2>2. \A x \in Writers : IsFiniteSet(draft'[x])
      BY <1>0, <1>4, FS_EmptySet DEF Commit, Rollback
    <2>3. QED
      BY <2>1, <2>2
  <1>5. ASSUME NEW w \in Importers, AppendNext(w) PROVE Finite
    BY <1>5, InsertStaysFinite DEF AppendNext
  <1>6. ASSUME NEW w \in Hooks, ValidateStoredOwnership(w) PROVE Finite
    BY <1>1, <1>2, <1>6, BatchTypes DEF ValidateStoredOwnership, Fail, storeVars
  <1>7. ASSUME NEW w \in Writers, StartBatch(w) \/ BeginImmediate(w) \/ StartAppends(w) \/ EndAppends(w)
        PROVE  Finite
    BY <1>2, <1>7 DEF StartBatch, BeginImmediate, StartAppends, EndAppends, storeVars
  <1>8. ASSUME NEW w \in Writers, Abort(w) \/ Kill(w) PROVE Finite
    BY <1>1, <1>8 DEF Abort, Fail, Kill
  <1>9. QED
    BY <1>3, <1>4, <1>5, <1>6, <1>7, <1>8, BatchTypes, Zenon
    DEF WritersNext, HookStep, ImporterStep, Writers

(* What the readers hold stays part of a log that only grows.              *)
LEMMA HeldRowsStay ==
  ASSUME ReadersTypeOK, TypeOK', rows \subseteq rows', UNCHANGED <<readerVars, derivedVars>>
  PROVE  ReadersTypeOK'
  <1> USE DEF ReadersTypeOK, readerVars, derivedVars
  <1>1. UNCHANGED <<at, base, listed, index, cleared>>
    OBVIOUS
  <1>2. QED
    BY <1>1

LEMMA ReadsKeepIndex ==
  ASSUME IndexInv, Reads
  PROVE  IndexInv'
  <1>1. UNCHANGED <<rows, draft>> /\ TypeOK'
    BY ReadsOnly DEF IndexInv, ReadersTypeOK, vars, storeVars, writerVars, TypeOK
  <1>2. rows \subseteq Row
    BY DEF IndexInv, ReadersTypeOK, TypeOK
  <1> USE DEF Stages, Move, Locals, derivedVars
  <1>3. ASSUME ReadersTypeOK', UNCHANGED <<index, meta, cleared>> PROVE IndexInv'
    BY <1>1, <1>3 DEF IndexInv
  <1>4. ASSUME NEW i \in Readers, at'[i] \in Stages, at' = [at EXCEPT ![i] = at'[i]],
               UNCHANGED <<base, listed, index, cleared>>
        PROVE  ReadersTypeOK'
    BY <1>1, <1>4 DEF IndexInv, ReadersTypeOK
  <1>5. ASSUME NEW i \in Readers, StartReader(i) PROVE IndexInv'
    <2>1. at' \in [Readers -> Stages] /\ base' = [base EXCEPT ![i] = rows]
      BY <1>5 DEF StartReader, IndexInv, ReadersTypeOK
    <2>2. ReadersTypeOK'
      BY <1>1, <1>2, <1>5, <2>1 DEF StartReader, IndexInv, ReadersTypeOK
    <2>3. QED
      BY <1>3, <1>5, <2>2 DEF StartReader
  <1>6. ASSUME NEW i \in Readers, ListEvents(i) PROVE IndexInv'
    <2>1. at' \in [Readers -> Stages] /\ listed' = [listed EXCEPT ![i] = rows]
      BY <1>6 DEF ListEvents, IndexInv, ReadersTypeOK
    <2>2. ReadersTypeOK'
      BY <1>1, <1>2, <1>6, <2>1 DEF ListEvents, IndexInv, ReadersTypeOK
    <2>3. QED
      BY <1>3, <1>6, <2>2 DEF ListEvents
  <1>7. ASSUME NEW i \in Readers, RebuildObservations(i) PROVE IndexInv'
    <2>1. at' \in [Readers -> Stages]
      BY <1>7 DEF RebuildObservations, IndexInv, ReadersTypeOK
    <2>2. index' = listed[i] /\ listed[i] \subseteq rows
          /\ meta'.count = Cardinality(listed[i]) /\ cleared' = FALSE
          /\ UNCHANGED <<base, listed>>
      BY <1>7 DEF RebuildObservations, Snapshot, IndexInv, ReadersTypeOK
    <2>3. ReadersTypeOK'
      BY <1>1, <2>1, <2>2 DEF IndexInv, ReadersTypeOK
    <2>4. QED
      BY <1>1, <2>2, <2>3 DEF IndexInv
  <1>8. ASSUME NEW i \in Readers, ClearObservations(i) PROVE IndexInv'
    <2>1. at' \in [Readers -> Stages] /\ index' = {} /\ cleared' = TRUE /\ UNCHANGED <<base, listed>>
      BY <1>8 DEF ClearObservations, IndexInv, ReadersTypeOK
    <2>2. ReadersTypeOK'
      BY <1>1, <2>1 DEF IndexInv, ReadersTypeOK
    <2>3. QED
      BY <1>1, <2>1, <2>2 DEF IndexInv
  <1>9. ASSUME NEW i \in Readers,
               ReadCounts(i) \/ ReadSnapshot(i) \/ ReadMaxSeq(i) \/ QueryObservations(i)
               \/ ClearVerifyResults(i) \/ StopReader(i)
        PROVE  IndexInv'
    <2>1. at' \in [Readers -> Stages] /\ UNCHANGED <<base, listed, index, meta, cleared>>
      BY <1>9 DEF ReadCounts, ReadSnapshot, ReadMaxSeq, QueryObservations, ClearVerifyResults,
         StopReader, IndexInv, ReadersTypeOK
    <2>2. ReadersTypeOK'
      BY <1>1, <2>1 DEF IndexInv, ReadersTypeOK
    <2>3. QED
      BY <1>3, <2>1, <2>2
  <1>10. ASSUME NEW v \in Verifiers,
                LookUpReport(v) \/ CompareSnapshot(v) \/ RunVerifyChecks(v)
                \/ TakeSnapshot(v) \/ SaveReport(v)
         PROVE  IndexInv'
    <2>1. at' \in [Readers -> Stages] /\ UNCHANGED <<base, listed, index, meta, cleared>>
      BY <1>10 DEF LookUpReport, CompareSnapshot, RunVerifyChecks, TakeSnapshot, SaveReport,
         IndexInv, ReadersTypeOK, Readers
    <2>2. ReadersTypeOK'
      BY <1>1, <2>1 DEF IndexInv, ReadersTypeOK
    <2>3. QED
      BY <1>3, <2>1, <2>2
  <1>11. QED
    BY <1>5, <1>6, <1>7, <1>8, <1>9, <1>10, Zenon DEF Reads, IndexStep

LEMMA IndexKept ==
  ASSUME StoreInv, IndexInv, [Next]_allVars
  PROVE  IndexInv'
  <1>1. StoreInv' /\ rows \subseteq rows' /\ TypeOK'
    BY StoreStep DEF GrowStep, StoreInv
  <1>2. ASSUME UNCHANGED <<readerVars, derivedVars>>,
               IsFiniteSet(rows'), \A w \in Writers : IsFiniteSet(draft'[w])
        PROVE  IndexInv'
    <2>1. ReadersTypeOK'
      BY <1>1, <1>2, HeldRowsStay DEF IndexInv
    <2>2. UNCHANGED <<index, meta, cleared>>
      BY <1>2 DEF derivedVars
    <2>3. QED
      BY <1>2, <2>1, <2>2 DEF IndexInv
  <1>3. CASE WritersNext /\ UNCHANGED <<readerVars, derivedVars>>
    BY <1>2, <1>3, WritersStayFinite DEF IndexInv
  <1>4. ASSUME NEW v \in Verifiers, RecordVerification(v) PROVE IndexInv'
    <2>1. UNCHANGED <<draft, base, listed, index, meta, cleared>>
          /\ at' \in [Readers -> Stages]
      BY <1>4 DEF RecordVerification, writerVars, Locals, derivedVars, Move, Stages, IndexInv,
         ReadersTypeOK, Readers
    <2>2. IsFiniteSet(rows')
      BY <1>4, InsertStaysFinite DEF RecordVerification, IndexInv
    <2>3. ReadersTypeOK'
      BY <1>1, <2>1 DEF IndexInv, ReadersTypeOK
    <2>4. QED
      BY <2>1, <2>2, <2>3 DEF IndexInv
  <1>5. CASE UNCHANGED allVars
    BY <1>2, <1>5 DEF allVars, vars, storeVars, writerVars, IndexInv
  <1>6. QED
    BY <1>3, <1>4, <1>5, StepSplit, ReadsKeepIndex

LEMMA IndexAlways == ReadersSpec => []IndexInv
  <1>1. StoreInv /\ IndexInv /\ [Next]_allVars => IndexInv'
    BY IndexKept
  <1>2. QED
    BY <1>1, IndexStart, StoreAlways, PTL DEF ReadersSpec

(* The variables of the local database and of its readers keep their types. *)
THEOREM ReadersAreTyped == ReadersSpec => []ReadersTypeOK
  <1>1. IndexInv => ReadersTypeOK
    BY DEF IndexInv
  <1>2. QED
    BY <1>1, IndexAlways, PTL

(* A fresh looking observation index (observations.go) holds every event,  *)
(* unless a reset has emptied it.                                          *)
THEOREM FreshIsComplete == ReadersSpec => []FreshIndexIsComplete
  <1>1. IndexInv => FreshIndexIsComplete
    <2> SUFFICES ASSUME IndexInv, meta # None, meta = Fingerprint(rows), ~cleared
                 PROVE  index = rows
      BY DEF FreshIndexIsComplete
    <2>1. Cardinality(index) = Cardinality(rows) /\ index \subseteq rows /\ IsFiniteSet(rows)
      BY DEF IndexInv, Fingerprint, ReadersTypeOK
    <2>2. QED
      BY <2>1, FS_Subset
  <1>2. QED
    BY <1>1, IndexAlways, PTL

-------------------------------------------------------------------------------
(* Handing over: what calls and rows say                                   *)

Ids0 == Calls \cup {0}
CheckpointRow == [id : Ids0, at : Nat, covers : Nat, head : Nat]
CapturedRow == [kind : {"captured"}, at : Nat, session : AgentSessions]
PackedRow == [kind : {"handoff.created"}, at : Nat, id : {Unset}, cp : CheckpointRow]
GivenRow == [kind : {"handoff.created"}, at : Nat, id : Ids0, cp : CheckpointRow, agent : Agents,
             mode : {"native_resume", "checkpoint_seed"}, clean : BOOLEAN]
AcceptedRow == [kind : {"handoff.accepted"}, at : Nat, id : Ids0 \cup {Unset}]
ClaimedRow == [kind : {"files.claimed"}, at : Nat, paths : ClaimedPaths]
CompletedRow == [kind : {"workstream.completed"}, at : Nat]
EventRow == CapturedRow \cup PackedRow \cup GivenRow \cup AcceptedRow \cup ClaimedRow \cup CompletedRow
NoEvent == [kind |-> "none"]
WritingOps == {"handoff", "continue", "accept", "claim", "complete"}
CallRow ==
  [op : WritingOps \cup {"none", "checkpoint"},
   step : {"idle", "refused", "build", "save", "prepare", "stamp", "append", "answered"},
   from : Nat, shelf : SUBSET CheckpointRow, seen : Nat, cp : CheckpointRow, to : Agents \cup {Unset},
   paths : ClaimedPaths \cup {{}}, told : SUBSET Nat, event : EventRow \cup {NoEvent}, row : Nat]

(* What is known of rows and of what a call holds, on a trail T, a shelf S *)
(* and a tree of n commits.                                                *)
RowOK(e, S) == e.kind = "handoff.created" => e.cp \in S
Known(T, id) == \E i \in 1 .. Len(T) : T[i].kind = "handoff.created" /\ T[i].id = id
Says(h, T, S, n) ==
  /\ h.event \in EventRow /\ RowOK(h.event, S)
  /\ h.op \in {"handoff", "continue"} => h.event.kind = "handoff.created"
  /\ h.op = "continue" => h.event.clean \/ h.cp.head < n
  /\ h.op = "accept" => /\ h.event.kind = "handoff.accepted"
                        /\ h.event.id # Unset => Known(T, h.event.id)
  /\ h.op = "claim" => /\ h.event.kind = "files.claimed" /\ h.event.paths = h.paths
                       /\ \A i \in 1 .. h.from : T[i].kind = "files.claimed" /\ T[i].paths \cap h.paths # {}
                                                   => i \in h.told
  /\ h.op = "complete" => /\ h.event.kind = "workstream.completed"
                          /\ \A i \in 1 .. h.from : T[i].kind # "workstream.completed"
Stands(h, T, S, n) ==
  /\ h.from <= Len(T) /\ h.shelf \subseteq S /\ h.cp.head <= n
  /\ h.step = "build" => h.from <= h.seen
  /\ h.op = "handoff" /\ h.step \in {"save", "stamp", "append", "answered"} => h.from <= h.cp.covers
  /\ h.op = "continue" => h.to \in Agents /\ h.cp \in h.shelf /\ \A q \in h.shelf : q.at <= h.cp.at
  /\ h.step \in {"stamp", "append"} => h.op \in WritingOps
  /\ h.step = "stamp" => h.op # "continue"
  /\ h.op \in WritingOps /\ h.step \in {"stamp", "append", "answered"} => Says(h, T, S, n)
  /\ h.op \in WritingOps /\ h.step = "answered" => h.row \in h.from + 1 .. Len(T) /\ T[h.row] = h.event
(* The same of its times, under a clock w that was never set back.         *)
Timely(h, T, w) ==
  /\ h.cp.at <= w
  /\ h.step = "save" => \A q \in h.shelf : q.at <= h.cp.at
  /\ h.op \in WritingOps /\ h.step \in {"append", "answered"}
       => h.event.at <= w /\ \A i \in 1 .. h.from : T[i].at <= h.event.at

HandTypeOK ==
  /\ trail \in Seq(EventRow)
  /\ stored \in SUBSET CheckpointRow /\ IsFiniteSet(stored)
  /\ wall \in Nat /\ setBacks \in Nat /\ tree \in Nat
  /\ call \in [Calls -> CallRow]
HandInv ==
  /\ HandTypeOK
  /\ \A i \in 1 .. Len(trail) : RowOK(trail[i], stored)
  /\ \A p \in stored : p.head <= tree /\ (p.id \in Calls => call[p.id].step # "idle")
  /\ \A c \in Calls : /\ Stands(call[c], trail, stored, tree)
                      /\ call[c].step = "save" => call[c].cp.id = c
  /\ setBacks = 0 =>
       /\ \A i \in 1 .. Len(trail) : trail[i].at <= wall
       /\ \A p \in stored : p.at <= wall /\ (p.id \in Calls => \A q \in call[p.id].shelf : q.at <= p.at)
       /\ \A c \in Calls : Timely(call[c], trail, wall)

-------------------------------------------------------------------------------
(* Greatest and newest elements                                            *)

LEMMA GreatestBy ==
  ASSUME NEW S, IsFiniteSet(S), S # {}, NEW f, \A x \in S : f[x] \in Nat
  PROVE  \E m \in S : \A x \in S : f[x] <= f[m]
<1> DEFINE g == [x \in S |-> 0 - f[x]]  T == {g[x] : x \in S}
<1>1. IsFiniteSet(T)
  <2>1. g \in Surjection(S, T)
    BY DEF Surjection
  <2> HIDE DEF g
  <2> QED BY <2>1, FS_Surjection
<1>2. T \subseteq Int /\ T # {}
  OBVIOUS
<1>3. PICK n \in T : \A y \in T : n <= y
  <2> HIDE DEF T
  <2> QED BY <1>1, <1>2, LeastExists
<1>4. PICK m \in S : n = 0 - f[m]
  BY <1>3
<1>5. ASSUME NEW x \in S PROVE f[x] <= f[m]
  <2>1. 0 - f[m] <= 0 - f[x]
    BY <1>3, <1>4
  <2>2. f[m] \in Nat /\ f[x] \in Nat
    BY <1>4
  <2> QED BY <2>1, <2>2
<1> QED BY <1>4, <1>5

LEMMA NewestOfSome ==
  ASSUME NEW S, IsFiniteSet(S), S # {}, \A x \in S : x.at \in Nat /\ x.id \in Nat
  PROVE  Newest(S) \in S /\ \A y \in S : y.at <= Newest(S).at
<1> DEFINE f == [x \in S |-> x.at]  h == [x \in S |-> x.id]
<1>1. PICK m \in S : \A x \in S : x.at <= m.at
  <2>1. \A x \in S : f[x] = x.at /\ f[x] \in Nat
    OBVIOUS
  <2> HIDE DEF f
  <2>2. \E m \in S : \A x \in S : f[x] <= f[m]
    BY <2>1, GreatestBy
  <2> QED BY <2>1, <2>2
<1> DEFINE R == {x \in S : x.at = m.at}
<1>2. PICK k \in R : \A x \in R : x.id <= k.id
  <2>1. \A x \in R : h[x] = x.id /\ h[x] \in Nat
    OBVIOUS
  <2>2. IsFiniteSet(R) /\ R # {}
    BY FS_Subset
  <2> HIDE DEF h, R
  <2>3. \E k \in R : \A x \in R : h[x] <= h[k]
    BY <2>1, <2>2, GreatestBy
  <2> QED BY <2>1, <2>3
<1>3. k \in S /\ \A y \in S : y.at < k.at \/ (y.at = k.at /\ y.id <= k.id)
  <2>1. k \in S /\ k.at = m.at
    BY <1>2
  <2> SUFFICES ASSUME NEW y \in S PROVE y.at < k.at \/ (y.at = k.at /\ y.id <= k.id)
    BY <2>1
  <2>2. y.at <= m.at /\ y.at \in Nat /\ m.at \in Nat
    BY <1>1
  <2>3. CASE y.at = m.at
    BY <1>2, <2>1, <2>3
  <2> QED BY <2>1, <2>2, <2>3
<1>4. Newest(S) \in S /\ \A y \in S : y.at < Newest(S).at \/ (y.at = Newest(S).at /\ y.id <= Newest(S).id)
  BY <1>3 DEF Newest
<1>5. \A y \in S : y.at \in Nat /\ Newest(S).at \in Nat
  BY <1>4
<1> QED BY <1>4, <1>5

LEMMA EventRows ==
  \A T \in Seq(EventRow) :
    /\ Len(T) \in Nat /\ DOMAIN T = 1 .. Len(T)
    /\ \A i \in 1 .. Len(T) : T[i] \in EventRow /\ T[i].at \in Nat
  BY DEF EventRow, CapturedRow, PackedRow, GivenRow, AcceptedRow, ClaimedRow, CompletedRow

LEMMA LatestOfSome ==
  ASSUME trail \in Seq(EventRow), NEW S, S \subseteq 1 .. Len(trail), S # {}
  PROVE  Latest(S) \in S /\ \A j \in S : Latest(S) = j \/ Precedes(j, Latest(S))
<1>1. Len(trail) \in Nat /\ \A i \in S : i \in 1 .. Len(trail) /\ trail[i].at \in Nat
  BY EventRows
<1>2. IsFiniteSet(S)
  <2>1. IsFiniteSet(1 .. Len(trail))
    BY <1>1, FS_Interval
  <2> QED BY <2>1, FS_Subset
<1> DEFINE f == [x \in S |-> trail[x].at]
<1>3. PICK m \in S : \A x \in S : trail[x].at <= trail[m].at
  <2>1. \A x \in S : f[x] = trail[x].at /\ f[x] \in Nat
    BY <1>1
  <2> HIDE DEF f
  <2>2. \E m \in S : \A x \in S : f[x] <= f[m]
    BY <1>2, <2>1, GreatestBy
  <2> QED BY <2>1, <2>2
<1> DEFINE R == {x \in S : trail[x].at = trail[m].at}
<1>4. Max(R) \in R /\ \A n \in R : n <= Max(R)
  <2>1. R \in SUBSET (0 .. Len(trail)) /\ R # {}
    <3>1. m \in R
      BY <1>3
    <3>2. \A x \in R : x \in 0 .. Len(trail)
      BY <1>1
    <3> HIDE DEF R
    <3> QED BY <3>1, <3>2
  <2> HIDE DEF R
  <2> QED BY <1>1, <2>1, GreatestOfSome
<1>5. PICK k \in R : \A n \in R : n <= k
  BY <1>4
<1>6. k \in S /\ \A j \in S : k = j \/ Precedes(j, k)
  <2>1. k \in S /\ trail[k].at = trail[m].at
    BY <1>5
  <2> SUFFICES ASSUME NEW j \in S, j # k PROVE Precedes(j, k)
    BY <2>1
  <2>2. trail[j].at <= trail[m].at /\ trail[j].at \in Nat /\ trail[m].at \in Nat /\ j \in Nat /\ k \in Nat
    BY <1>1, <1>3, <2>1
  <2>3. CASE trail[j].at = trail[m].at
    <3>1. j <= k
      BY <1>5, <2>3
    <3> QED BY <2>1, <2>2, <2>3, <3>1 DEF Precedes
  <2>4. CASE trail[j].at # trail[m].at
    BY <2>1, <2>2, <2>4 DEF Precedes
  <2> QED BY <2>3, <2>4
<1> QED BY <1>6 DEF Latest

-------------------------------------------------------------------------------
(* Handing over: what stays as the tables grow                             *)

Grows(T, U) == Len(T) <= Len(U) /\ \A i \in 1 .. Len(T) : U[i] = T[i]

LEMMA SaysGrows ==
  ASSUME NEW T \in Seq(EventRow), NEW U \in Seq(EventRow), Grows(T, U),
         NEW S, NEW R, S \subseteq R, NEW n \in Nat, NEW m \in Nat, n <= m,
         NEW h \in CallRow, h.from <= Len(T), Says(h, T, S, n)
  PROVE  Says(h, U, R, m)
<1>1. Len(T) \in Nat /\ Len(U) \in Nat /\ h.from \in Nat /\ h.cp.head \in Nat
  BY EventRows DEF CallRow, CheckpointRow
<1>2. \A i \in 1 .. h.from : U[i] = T[i]
  BY <1>1 DEF Grows
<1>3. \A id : Known(T, id) => Known(U, id)
  <2> SUFFICES ASSUME NEW id, NEW i \in 1 .. Len(T), T[i].kind = "handoff.created", T[i].id = id
               PROVE  Known(U, id)
    BY DEF Known
  <2>1. i \in 1 .. Len(U) /\ U[i] = T[i]
    BY <1>1 DEF Grows
  <2> QED BY <2>1 DEF Known
<1>4. h.op = "continue" => h.event.clean \/ h.cp.head < m
  BY <1>1 DEF Says
<1> QED BY <1>2, <1>3, <1>4 DEF Says, RowOK

LEMMA StandsGrows ==
  ASSUME NEW T \in Seq(EventRow), NEW U \in Seq(EventRow), Grows(T, U),
         NEW S, NEW R, S \subseteq R, NEW n \in Nat, NEW m \in Nat, n <= m,
         NEW h \in CallRow, Stands(h, T, S, n)
  PROVE  Stands(h, U, R, m)
<1>1. Len(T) \in Nat /\ Len(U) \in Nat /\ h.from \in Nat /\ h.row \in Nat /\ h.cp.head \in Nat /\ Len(T) <= Len(U)
  BY EventRows DEF CallRow, CheckpointRow, Grows
<1>2. h.from <= Len(T)
  BY DEF Stands
<1>3. Says(h, T, S, n) => Says(h, U, R, m)
  BY <1>2, SaysGrows
<1>4. h.from <= Len(U) /\ h.cp.head <= m
  BY <1>1, <1>2 DEF Stands
<1>5. h.row \in h.from + 1 .. Len(T) /\ T[h.row] = h.event
        => h.row \in h.from + 1 .. Len(U) /\ U[h.row] = h.event
  BY <1>1 DEF Grows
<1> QED BY <1>3, <1>4, <1>5 DEF Stands

LEMMA TimelyGrows ==
  ASSUME NEW T \in Seq(EventRow), NEW U \in Seq(EventRow), Grows(T, U),
         NEW w \in Nat, NEW v \in Nat, w <= v,
         NEW h \in CallRow, h.op \in WritingOps /\ h.step \in {"append", "answered"} => h.event \in EventRow,
         h.from <= Len(T), Timely(h, T, w)
  PROVE  Timely(h, U, v)
<1>1. Len(T) \in Nat /\ Len(U) \in Nat /\ h.from \in Nat /\ h.cp.at \in Nat
  BY EventRows DEF CallRow, CheckpointRow
<1>2. \A i \in 1 .. h.from : U[i] = T[i]
  BY <1>1 DEF Grows
<1>3. h.cp.at <= v
  BY <1>1 DEF Timely
<1>4. ASSUME h.op \in WritingOps /\ h.step \in {"append", "answered"}
      PROVE  h.event.at <= v /\ \A i \in 1 .. h.from : U[i].at <= h.event.at
  <2>1. h.event.at \in Nat
    BY <1>4 DEF EventRow, CapturedRow, PackedRow, GivenRow, AcceptedRow, ClaimedRow, CompletedRow
  <2>2. h.event.at <= w /\ \A i \in 1 .. h.from : T[i].at <= h.event.at
    BY <1>4 DEF Timely
  <2> QED BY <2>1, <2>2, <1>2
<1> QED BY <1>3, <1>4 DEF Timely

LEMMA AppendGrows ==
  ASSUME NEW T \in Seq(EventRow), NEW e \in EventRow
  PROVE  /\ Append(T, e) \in Seq(EventRow) /\ Grows(T, Append(T, e))
         /\ Len(Append(T, e)) = Len(T) + 1 /\ Append(T, e)[Len(T) + 1] = e
<1>1. Len(T) \in Nat
  BY EventRows
<1> HIDE DEF EventRow
<1> QED BY <1>1 DEF Grows

LEMMA Stamped ==
  ASSUME NEW e \in EventRow, NEW t \in Nat
  PROVE  LET f == [e EXCEPT !.at = t]
         IN /\ f \in EventRow /\ f.at = t /\ f.kind = e.kind
            /\ e.kind = "handoff.created" => f.cp = e.cp
            /\ e.kind = "handoff.accepted" => f.id = e.id
            /\ e.kind = "files.claimed" => f.paths = e.paths
<1> DEFINE f == [e EXCEPT !.at = t]
<1>1. CASE e \in CapturedRow
  <2>1. f \in CapturedRow /\ f.at = t /\ f.kind = e.kind /\ e.kind = "captured"
    BY <1>1 DEF CapturedRow
  <2> QED BY <2>1 DEF EventRow
<1>2. CASE e \in PackedRow
  <2>1. f \in PackedRow /\ f.at = t /\ f.kind = e.kind /\ e.kind = "handoff.created" /\ f.cp = e.cp
    BY <1>2 DEF PackedRow
  <2> QED BY <2>1 DEF EventRow
<1>3. CASE e \in GivenRow
  <2>1. f \in GivenRow /\ f.at = t /\ f.kind = e.kind /\ e.kind = "handoff.created" /\ f.cp = e.cp
    BY <1>3 DEF GivenRow
  <2> QED BY <2>1 DEF EventRow
<1>4. CASE e \in AcceptedRow
  <2>1. f \in AcceptedRow /\ f.at = t /\ f.kind = e.kind /\ e.kind = "handoff.accepted" /\ f.id = e.id
    BY <1>4 DEF AcceptedRow
  <2> QED BY <2>1 DEF EventRow
<1>5. CASE e \in ClaimedRow
  <2>1. f \in ClaimedRow /\ f.at = t /\ f.kind = e.kind /\ e.kind = "files.claimed" /\ f.paths = e.paths
    BY <1>5 DEF ClaimedRow
  <2> QED BY <2>1 DEF EventRow
<1>6. CASE e \in CompletedRow
  <2>1. f \in CompletedRow /\ f.at = t /\ f.kind = e.kind /\ e.kind = "workstream.completed"
    BY <1>6 DEF CompletedRow
  <2> QED BY <2>1 DEF EventRow
<1> QED BY <1>1, <1>2, <1>3, <1>4, <1>5, <1>6 DEF EventRow

(* A handoff that a call finds is one of the trail, with its id.           *)
LEMMA MatchedIsKnown ==
  ASSUME HandoffsAssumption, trail \in Seq(EventRow), NEW args, Matching(args) # {}
  PROVE  Newest(Matching(args)).id \in Ids0 /\ Known(trail, Newest(Matching(args)).id)
<1> DEFINE n == Len(trail)
           I == {i \in EventsOfKind(n, "handoff.created") : trail[i].id # Unset}
           f == [i \in I |-> [id |-> trail[i].id, agent |-> trail[i].agent, cp |-> trail[i].cp.id, at |-> trail[i].at,
                              shown |-> IF AcceptsOf(n, i) = {} THEN 0 ELSE Latest(AcceptsOf(n, i))]]
           M == Matching(args)
<1>1. n \in Nat /\ I \subseteq 1 .. n
  BY EventRows DEF EventsOfKind
<1>2. ASSUME NEW i \in I PROVE f[i].id = trail[i].id /\ f[i].id \in Ids0 /\ f[i].at \in Nat /\ Known(trail, f[i].id)
  <2>1. i \in 1 .. n /\ trail[i] \in EventRow /\ trail[i].kind = "handoff.created" /\ trail[i].id # Unset
    BY EventRows DEF EventsOfKind
  <2>2. f[i].id = trail[i].id /\ f[i].at = trail[i].at
    OBVIOUS
  <2> HIDE DEF f, I
  <2>3. trail[i].id \in Ids0 /\ trail[i].at \in Nat
    BY <2>1 DEF EventRow, CapturedRow, PackedRow, GivenRow, AcceptedRow, ClaimedRow, CompletedRow
  <2>4. Known(trail, trail[i].id)
    BY <2>1 DEF Known
  <2> QED BY <2>2, <2>3, <2>4
<1>3. f \in Surjection(I, ListHandoffs(n))
  BY DEF Surjection, ListHandoffs
<1>4. IsFiniteSet(M) /\ \A r \in M : \E i \in I : r = f[i]
  <2>1. IsFiniteSet(I)
    <3>1. IsFiniteSet(1 .. n)
      BY <1>1, FS_Interval
    <3> QED BY <1>1, <3>1, FS_Subset
  <2>2. M \subseteq ListHandoffs(n)
    BY DEF Matching
  <2>3. \A r \in ListHandoffs(n) : \E i \in I : r = f[i]
    BY <1>3 DEF Surjection
  <2> HIDE DEF f, I, M
  <2>4. IsFiniteSet(ListHandoffs(n))
    BY <2>1, <1>3, FS_Surjection
  <2> QED BY <2>2, <2>3, <2>4, FS_Subset
<1> HIDE DEF f, I
<1>5. \A r \in M : r.id \in Ids0 /\ r.at \in Nat /\ Known(trail, r.id)
  BY <1>2, <1>4
<1>6. Ids0 \subseteq Nat
  BY DEF Ids0, HandoffsAssumption
<1>7. Newest(M) \in M
  <2>1. M # {} /\ \A r \in M : r.at \in Nat /\ r.id \in Nat
    BY <1>5, <1>6
  <2> HIDE DEF M
  <2> QED BY <1>4, <2>1, NewestOfSome
<1> QED BY <1>5, <1>7

-------------------------------------------------------------------------------
(* Handing over: one step                                                  *)

LEMMA HandStart == HandoffsAssumption /\ HandoffsInit => HandInv
<1> SUFFICES ASSUME HandoffsAssumption, HandoffsInit PROVE HandInv
  OBVIOUS
<1> DEFINE Given(p, s) == [kind |-> "handoff.created", at |-> 0, id |-> 0, cp |-> p, agent |-> ProviderOf[s],
                           mode |-> "native_resume", clean |-> TRUE]
<1>0. PICK s \in AgentSessions : \E p :
        /\ p = [id |-> 0, at |-> 0, covers |-> 1, head |-> 0]
        /\ \/ trail = <<Captured(s, 0)>> /\ stored = {}
           \/ trail = <<Captured(s, 0), Given(p, s)>> /\ stored = {p}
  BY DEF HandoffsInit
<1>1. PICK p :
        /\ p = [id |-> 0, at |-> 0, covers |-> 1, head |-> 0]
        /\ \/ trail = <<Captured(s, 0)>> /\ stored = {}
           \/ trail = <<Captured(s, 0), Given(p, s)>> /\ stored = {p}
  BY <1>0
<1>2. p \in CheckpointRow /\ p.at = 0 /\ p.head = 0 /\ p.id \notin Calls
  BY <1>1 DEF CheckpointRow, Ids0, HandoffsAssumption
<1>3. PICK a : a = Captured(s, 0)
  OBVIOUS
<1>4. PICK b : b = Given(p, s)
  OBVIOUS
<1>5. a \in EventRow /\ a.kind = "captured" /\ a.at = 0
  <2>1. a \in CapturedRow /\ a.kind = "captured" /\ a.at = 0
    BY <1>3 DEF CapturedRow, Captured
  <2> QED BY <2>1 DEF EventRow
<1>6. b \in EventRow /\ b.cp = p /\ b.at = 0
  <2>1. b \in GivenRow /\ b.cp = p /\ b.at = 0
    BY <1>2, <1>4 DEF GivenRow, Ids0, HandoffsAssumption
  <2> QED BY <2>1 DEF EventRow
<1>7. /\ trail \in Seq(EventRow) /\ Len(trail) \in Nat
      /\ \A i \in 1 .. Len(trail) : trail[i].at = 0 /\ RowOK(trail[i], stored)
  <2>1. CASE trail = <<a>> /\ stored = {}
    <3> HIDE DEF EventRow
    <3> QED BY <1>5, <2>1 DEF RowOK
  <2>2. CASE trail = <<a, b>> /\ stored = {p}
    <3> HIDE DEF EventRow, Given
    <3>1. trail \in Seq(EventRow) /\ Len(trail) = 2 /\ trail[1] = a /\ trail[2] = b
      BY <1>5, <1>6, <2>2
    <3>2. \A i \in 1 .. 2 : i = 1 \/ i = 2
      OBVIOUS
    <3> QED BY <1>5, <1>6, <2>2, <3>1, <3>2 DEF RowOK
  <2> QED BY <1>1, <1>3, <1>4, <2>1, <2>2
<1>8. /\ stored \in SUBSET CheckpointRow /\ IsFiniteSet(stored)
      /\ \A q \in stored : q.at = 0 /\ q.head = 0 /\ q.id \notin Calls
  <2>1. IsFiniteSet({p})
    BY FS_Singleton
  <2> QED BY <1>1, <1>2, <2>1, FS_EmptySet
<1>9. wall = 0 /\ setBacks = 0 /\ tree = 0 /\ call = [c \in Calls |-> NoCall]
  BY DEF HandoffsInit
<1>10. NoCall \in CallRow
  BY DEF NoCall, NoCheckpoint, NoEvent, CallRow, CheckpointRow, Ids0
<1>11. HandTypeOK
  <2>1. call \in [Calls -> CallRow]
    BY <1>9, <1>10
  <2> QED BY <1>7, <1>8, <1>9, <2>1 DEF HandTypeOK
<1>12. Stands(NoCall, trail, stored, tree) /\ NoCall.step # "save"
  BY <1>7, <1>9 DEF NoCall, NoCheckpoint, Stands, WritingOps
<1>13. Timely(NoCall, trail, wall)
  BY <1>9 DEF NoCall, NoCheckpoint, Timely, WritingOps
<1>14. \A c \in Calls : call[c] = NoCall
  BY <1>9
<1>15. \A i \in 1 .. Len(trail) : trail[i].at <= wall
  BY <1>7, <1>9
<1>16. \A q \in stored : q.at <= wall /\ q.head <= tree
  BY <1>8, <1>9
<1> QED BY <1>7, <1>8, <1>11, <1>12, <1>13, <1>14, <1>15, <1>16 DEF HandInv

(* One call moves to h: it may add one row to the trail, or store the      *)
(* checkpoint it holds.                                                    *)
RowAdded ==
  \/ trail' = trail
  \/ \E e \in EventRow : trail' = Append(trail, e) /\ RowOK(e, stored) /\ (setBacks = 0 => e.at <= wall)
Shelved(c) ==
  \/ stored' = stored
  \/ stored' = stored \cup {call[c].cp} /\ call[c].step = "save"

LEMMA RowsGrow ==
  ASSUME HandInv, RowAdded, stored \subseteq stored', wall' = wall
  PROVE  /\ trail' \in Seq(EventRow) /\ Grows(trail, trail')
         /\ \A i \in 1 .. Len(trail') : RowOK(trail'[i], stored')
         /\ setBacks = 0 => \A i \in 1 .. Len(trail') : trail'[i].at <= wall'
<1>1. trail \in Seq(EventRow) /\ Len(trail) \in Nat /\ \A i \in 1 .. Len(trail) : RowOK(trail[i], stored)
  BY EventRows DEF HandInv, HandTypeOK
<1>2. setBacks = 0 => \A i \in 1 .. Len(trail) : trail[i].at <= wall
  BY DEF HandInv
<1>3. CASE trail' = trail
  BY <1>1, <1>2, <1>3 DEF Grows, RowOK
<1>4. ASSUME NEW e \in EventRow, trail' = Append(trail, e), RowOK(e, stored), setBacks = 0 => e.at <= wall
      PROVE  /\ trail' \in Seq(EventRow) /\ Grows(trail, trail')
             /\ \A i \in 1 .. Len(trail') : RowOK(trail'[i], stored')
             /\ setBacks = 0 => \A i \in 1 .. Len(trail') : trail'[i].at <= wall'
  <2>1. /\ trail' \in Seq(EventRow) /\ Grows(trail, trail') /\ Len(trail') = Len(trail) + 1
        /\ trail'[Len(trail) + 1] = e
    BY <1>1, <1>4, AppendGrows
  <2>2. \A i \in 1 .. Len(trail') : trail'[i] = e \/ (i \in 1 .. Len(trail) /\ trail'[i] = trail[i])
    BY <1>1, <2>1 DEF Grows
  <2> QED BY <1>1, <1>2, <1>4, <2>1, <2>2 DEF RowOK
<1> QED BY <1>3, <1>4 DEF RowAdded

LEMMA CallMoves ==
  ASSUME HandInv, NEW c \in Calls, NEW h \in CallRow, Holds(c, h), UNCHANGED World,
         h.step # "idle", h.step = "save" => h.cp.id = c,
         call[c].step = "idle" \/ h.shelf = call[c].shelf,
         RowAdded, Shelved(c),
         Stands(h, trail', stored', tree'), setBacks = 0 => Timely(h, trail', wall')
  PROVE  HandInv'
<1>1. /\ HandTypeOK
      /\ \A p \in stored : p.head <= tree /\ (p.id \in Calls => call[p.id].step # "idle")
      /\ \A d \in Calls : Stands(call[d], trail, stored, tree) /\ (call[d].step = "save" => call[d].cp.id = d)
  BY DEF HandInv
<1>2. call' = [call EXCEPT ![c] = h] /\ wall' = wall /\ setBacks' = setBacks /\ tree' = tree
  BY DEF Holds, World
<1>3. call'[c] = h /\ \A d \in Calls : d # c => call'[d] = call[d]
  BY <1>1, <1>2 DEF HandTypeOK
<1>4. \A d \in Calls : call[d] \in CallRow
  BY <1>1 DEF HandTypeOK
<1>5. stored \subseteq stored'
  BY DEF Shelved
<1>6. /\ trail' \in Seq(EventRow) /\ Grows(trail, trail')
      /\ \A i \in 1 .. Len(trail') : RowOK(trail'[i], stored')
      /\ setBacks = 0 => \A i \in 1 .. Len(trail') : trail'[i].at <= wall'
  BY <1>2, <1>5, RowsGrow
<1>7. call[c].cp \in CheckpointRow /\ call[c].cp.head <= tree
  BY <1>1, <1>4 DEF CallRow, Stands
<1>8. HandTypeOK'
  <2>1. IsFiniteSet(stored') /\ stored' \in SUBSET CheckpointRow
    <3>1. IsFiniteSet(stored) /\ stored \in SUBSET CheckpointRow
      BY <1>1 DEF HandTypeOK
    <3>2. IsFiniteSet(stored \cup {call[c].cp})
      BY <3>1, FS_AddElement
    <3> QED BY <1>7, <3>1, <3>2 DEF Shelved
  <2>2. call' \in [Calls -> CallRow]
    BY <1>1, <1>2 DEF HandTypeOK
  <2> QED BY <1>1, <1>2, <1>6, <2>1, <2>2 DEF HandTypeOK
<1>9. \A p \in stored' : p.head <= tree' /\ (p.id \in Calls => call'[p.id].step # "idle")
  <2> SUFFICES ASSUME NEW p \in stored' PROVE p.head <= tree' /\ (p.id \in Calls => call'[p.id].step # "idle")
    OBVIOUS
  <2>1. CASE p \in stored
    BY <1>1, <1>2, <1>3, <2>1
  <2>2. CASE p = call[c].cp /\ call[c].step = "save"
    BY <1>1, <1>2, <1>3, <1>7, <2>2
  <2> QED BY <2>1, <2>2 DEF Shelved
<1>10. \A d \in Calls : Stands(call'[d], trail', stored', tree') /\ (call'[d].step = "save" => call'[d].cp.id = d)
  <2> SUFFICES ASSUME NEW d \in Calls
               PROVE  Stands(call'[d], trail', stored', tree') /\ (call'[d].step = "save" => call'[d].cp.id = d)
    OBVIOUS
  <2>1. CASE d = c
    BY <1>3, <2>1
  <2>2. CASE d # c
    <3>1. trail \in Seq(EventRow) /\ tree \in Nat /\ tree' \in Nat /\ tree <= tree'
      BY <1>1, <1>2 DEF HandTypeOK
    <3>2. Stands(call[d], trail', stored', tree')
      BY <1>1, <1>4, <1>5, <1>6, <3>1, StandsGrows
    <3> QED BY <1>1, <1>3, <2>2, <3>2
  <2> QED BY <2>1, <2>2
<1>11. ASSUME setBacks' = 0
       PROVE  /\ \A p \in stored' : p.at <= wall' /\ (p.id \in Calls => \A q \in call'[p.id].shelf : q.at <= p.at)
              /\ \A d \in Calls : Timely(call'[d], trail', wall')
  <2>1. /\ \A p \in stored : p.at <= wall /\ (p.id \in Calls => \A q \in call[p.id].shelf : q.at <= p.at)
        /\ \A d \in Calls : Timely(call[d], trail, wall)
    BY <1>2, <1>11 DEF HandInv
  <2>2. ASSUME NEW p \in stored'
        PROVE  p.at <= wall' /\ (p.id \in Calls => \A q \in call'[p.id].shelf : q.at <= p.at)
    <3>1. CASE p \in stored
      <4>1. p.id = c => call[c].step # "idle" /\ h.shelf = call[c].shelf
        BY <1>1, <3>1
      <4> QED BY <1>2, <1>3, <2>1, <3>1, <4>1
    <3>2. CASE p = call[c].cp /\ call[c].step = "save"
      <4>1. p.id = c /\ h.shelf = call[c].shelf
        BY <1>1, <3>2
      <4>2. p.at <= wall /\ \A q \in call[c].shelf : q.at <= p.at
        BY <2>1, <3>2 DEF Timely
      <4> QED BY <1>2, <1>3, <4>1, <4>2
    <3> QED BY <2>2, <3>1, <3>2 DEF Shelved
  <2>3. ASSUME NEW d \in Calls PROVE Timely(call'[d], trail', wall')
    <3>1. CASE d = c
      BY <1>2, <1>3, <1>11, <3>1
    <3>2. CASE d # c
      <4>1. trail \in Seq(EventRow) /\ wall \in Nat /\ wall' \in Nat /\ wall <= wall'
        BY <1>1, <1>2 DEF HandTypeOK
      <4>2. Stands(call[d], trail, stored, tree)
        BY <1>1
      <4>3. call[d].from <= Len(trail)
            /\ (call[d].op \in WritingOps /\ call[d].step \in {"append", "answered"} => call[d].event \in EventRow)
        BY <4>2 DEF Stands, Says
      <4>4. Timely(call[d], trail', wall')
        BY <1>4, <1>6, <2>1, <4>1, <4>3, TimelyGrows
      <4> QED BY <1>3, <3>2, <4>4
    <3> QED BY <3>1, <3>2
  <2> QED BY <2>2, <2>3
<1> QED BY <1>2, <1>6, <1>8, <1>9, <1>10, <1>11 DEF HandInv


LEMMA CallBegins ==
  ASSUME HandoffsAssumption, HandInv, NEW c \in Calls, NEW h \in CallRow, Begins(c, h),
         h.step \in {"refused", "build", "prepare", "stamp"}, h.cp.at <= wall \/ setBacks # 0,
         Stands(h, trail, stored, tree)
  PROVE  HandInv'
<1>1. UNCHANGED <<trail, stored, wall, setBacks, tree>> /\ Holds(c, h) /\ call[c].step = "idle"
  BY DEF Begins, Database, World, NoCall
<1>2. Stands(h, trail', stored', tree')
  BY <1>1 DEF Stands, Says, RowOK, Known
<1>3. setBacks = 0 => Timely(h, trail', wall')
  BY <1>1 DEF Timely
<1> QED BY <1>1, <1>2, <1>3, CallMoves DEF RowAdded, Shelved, World

LEMMA RefusedHand ==
  ASSUME HandoffsAssumption, HandInv, NEW c \in Calls, Refused(c)
  PROVE  HandInv'
<1> DEFINE h == [NoCall EXCEPT !.step = "refused"]
<1>1. h \in CallRow /\ h.step = "refused" /\ h.cp = NoCheckpoint /\ h.op = "none" /\ h.from = 0 /\ h.shelf = {}
  BY DEF NoCall, NoCheckpoint, NoEvent, CallRow, CheckpointRow, Ids0
<1>2. wall \in Nat /\ tree \in Nat /\ Len(trail) \in Nat
  BY EventRows DEF HandInv, HandTypeOK
<1>3. h.cp.at <= wall
  BY <1>1, <1>2 DEF NoCheckpoint
<1>4. Stands(h, trail, stored, tree)
  BY <1>1, <1>2 DEF Stands, NoCheckpoint, WritingOps
<1>5. Begins(c, h)
  BY DEF Refused
<1> HIDE DEF h
<1> QED BY <1>1, <1>3, <1>4, <1>5, CallBegins

LEMMA LoadHand ==
  ASSUME HandoffsAssumption, HandInv, NEW c \in Calls, LoadWorkstream(c)
  PROVE  HandInv'
<1>1. PICK op \in {"checkpoint", "handoff"} : Begins(c, [Coming(op, "build") EXCEPT !.seen = Len(trail)])
  BY DEF LoadWorkstream
<1> DEFINE h == [Coming(op, "build") EXCEPT !.seen = Len(trail)]
<1>2. wall \in Nat /\ tree \in Nat /\ Len(trail) \in Nat /\ stored \subseteq CheckpointRow
  BY EventRows DEF HandInv, HandTypeOK
<1>3. /\ h \in CallRow /\ h.step = "build" /\ h.op = op /\ h.from = Len(trail) /\ h.shelf = stored
      /\ h.seen = Len(trail) /\ h.cp = NoCheckpoint
  BY <1>2 DEF Coming, NoCall, NoCheckpoint, NoEvent, CallRow, CheckpointRow, Ids0, WritingOps
<1>4. h.cp.at <= wall
  BY <1>2, <1>3 DEF NoCheckpoint
<1>5. Stands(h, trail, stored, tree)
  BY <1>2, <1>3 DEF Stands, NoCheckpoint, WritingOps
<1>6. Begins(c, h)
  BY <1>1
<1> HIDE DEF h
<1> QED BY <1>3, <1>4, <1>5, <1>6, CallBegins

LEMMA LatestHand ==
  ASSUME HandoffsAssumption, HandInv, NEW c \in Calls, LatestCheckpoint(c)
  PROVE  HandInv'
<1>1. CASE Refused(c)
  BY <1>1, RefusedHand
<1>2. ASSUME stored # {}, NEW a \in Agents,
             Begins(c, [Coming("continue", "prepare") EXCEPT !.to = a, !.cp = Newest(stored)])
      PROVE  HandInv'
  <2>1. PICK p : p = Newest(stored)
    OBVIOUS
  <2> DEFINE h == [Coming("continue", "prepare") EXCEPT !.to = a, !.cp = p]
  <2>2. wall \in Nat /\ tree \in Nat /\ Len(trail) \in Nat /\ stored \subseteq CheckpointRow /\ IsFiniteSet(stored)
    BY EventRows DEF HandInv, HandTypeOK
  <2>3. \A q \in stored : q.at \in Nat /\ q.id \in Nat
    <3>1. Ids0 \subseteq Nat
      BY DEF Ids0, HandoffsAssumption
    <3> QED BY <2>2, <3>1 DEF CheckpointRow
  <2>4. p \in stored /\ \A q \in stored : q.at <= p.at
    BY <1>2, <2>1, <2>2, <2>3, NewestOfSome
  <2>5. p \in CheckpointRow /\ p.head <= tree /\ (setBacks = 0 => p.at <= wall)
    BY <2>2, <2>4 DEF HandInv
  <2>6. /\ h \in CallRow /\ h.step = "prepare" /\ h.op = "continue" /\ h.from = Len(trail) /\ h.shelf = stored
        /\ h.to = a /\ h.cp = p
    BY <2>2, <2>5 DEF Coming, NoCall, NoEvent, CallRow, Ids0, WritingOps
  <2>7. Stands(h, trail, stored, tree)
    BY <2>2, <2>4, <2>5, <2>6 DEF Stands, WritingOps
  <2>8. Begins(c, h)
    BY <1>2, <2>1
  <2> HIDE DEF h
  <2> QED BY <2>5, <2>6, <2>7, <2>8, CallBegins
<1> QED BY <1>1, <1>2 DEF LatestCheckpoint

(* A call that begins with an event to stamp.                              *)
LEMMA EventHand ==
  ASSUME HandoffsAssumption, HandInv, NEW c \in Calls, NEW h \in CallRow, Begins(c, h),
         h.op \in {"accept", "claim", "complete"}, h.step = "stamp", h.from = Len(trail), h.shelf = stored,
         h.cp = NoCheckpoint, Says(h, trail, stored, tree)
  PROVE  HandInv'
<1>1. wall \in Nat /\ tree \in Nat /\ Len(trail) \in Nat /\ stored \subseteq CheckpointRow
  BY EventRows DEF HandInv, HandTypeOK
<1>2. h.cp.at <= wall
  BY <1>1 DEF NoCheckpoint
<1>3. Stands(h, trail, stored, tree)
  BY <1>1 DEF Stands, NoCheckpoint, WritingOps
<1> QED BY <1>2, <1>3, CallBegins

LEMMA MatchHand ==
  ASSUME HandoffsAssumption, HandInv, NEW c \in Calls, MatchHandoff(c)
  PROVE  HandInv'
<1>1. CASE Refused(c)
  BY <1>1, RefusedHand
<1>2. ASSUME NEW id \in Ids0 \cup {Unset}, id # Unset => Known(trail, id),
             Begins(c, [Coming("accept", "stamp") EXCEPT
                          !.event = [kind |-> "handoff.accepted", at |-> 0, id |-> id]])
      PROVE  HandInv'
  <2>1. PICK e : e = [kind |-> "handoff.accepted", at |-> 0, id |-> id]
    OBVIOUS
  <2>2. e \in EventRow /\ e.kind = "handoff.accepted" /\ e.id = id
    BY <2>1 DEF EventRow, AcceptedRow
  <2> DEFINE h == [Coming("accept", "stamp") EXCEPT !.event = e]
  <2>3. Len(trail) \in Nat /\ stored \subseteq CheckpointRow
    BY EventRows DEF HandInv, HandTypeOK
  <2>4. /\ h.op = "accept" /\ h.step = "stamp" /\ h.from = Len(trail) /\ h.shelf = stored /\ h.event = e
        /\ h.cp = NoCheckpoint
    BY DEF Coming, NoCall
  <2>5. h \in CallRow
    <3> HIDE DEF EventRow
    <3> QED BY <2>2, <2>3 DEF Coming, NoCall, NoCheckpoint, NoEvent, CallRow, CheckpointRow, Ids0, WritingOps
  <2>6. Begins(c, h)
    BY <1>2, <2>1
  <2> HIDE DEF h, EventRow
  <2>7. Says(h, trail, stored, tree)
    BY <1>2, <2>2, <2>4 DEF Says, RowOK
  <2> QED BY <2>4, <2>5, <2>6, <2>7, EventHand
<1>3. trail \in Seq(EventRow)
  BY DEF HandInv, HandTypeOK
<1>4. \A args : Matching(args) # {} => Newest(Matching(args)).id \in Ids0 /\ Known(trail, Newest(Matching(args)).id)
  BY <1>3, MatchedIsKnown
<1>5. PICK args \in AcceptArgs :
        \/ Refused(c)
        \/ LET id == IF Matching(args) = {} THEN Unset ELSE Newest(Matching(args)).id
           IN Begins(c, [Coming("accept", "stamp") EXCEPT
                           !.event = [kind |-> "handoff.accepted", at |-> 0, id |-> id]])
  BY DEF MatchHandoff
<1>6. PICK id : id = IF Matching(args) = {} THEN Unset ELSE Newest(Matching(args)).id
  OBVIOUS
<1>7. id \in Ids0 \cup {Unset} /\ (id # Unset => Known(trail, id))
  BY <1>4, <1>6
<1>8. \/ Refused(c)
      \/ Begins(c, [Coming("accept", "stamp") EXCEPT !.event = [kind |-> "handoff.accepted", at |-> 0, id |-> id]])
  BY <1>5, <1>6
<1> QED BY <1>1, <1>2, <1>7, <1>8

LEMMA ClaimHand ==
  ASSUME HandoffsAssumption, HandInv, NEW c \in Calls, ReadClaims(c)
  PROVE  HandInv'
<1>1. PICK paths \in ClaimedPaths :
        Begins(c, [Coming("claim", "stamp") EXCEPT
          !.told = EarlierClaims(paths), !.paths = paths,
          !.event = [kind |-> "files.claimed", at |-> 0, paths |-> paths]])
  BY DEF ReadClaims
<1>2. PICK e : e = [kind |-> "files.claimed", at |-> 0, paths |-> paths]
  OBVIOUS
<1>3. e \in EventRow /\ e.kind = "files.claimed" /\ e.paths = paths
  BY <1>2 DEF EventRow, ClaimedRow
<1>4. PICK told : told = EarlierClaims(paths)
  OBVIOUS
<1>5. Len(trail) \in Nat
  BY EventRows DEF HandInv, HandTypeOK
<1>6. /\ told \in SUBSET Nat
      /\ \A i \in 1 .. Len(trail) : trail[i].kind = "files.claimed" /\ trail[i].paths \cap paths # {} => i \in told
  BY <1>4, <1>5 DEF EarlierClaims, EventsOfKind
<1> DEFINE h == [Coming("claim", "stamp") EXCEPT !.told = told, !.paths = paths, !.event = e]
<1>7. Begins(c, h)
  BY <1>1, <1>2, <1>4
<1>8. /\ h.op = "claim" /\ h.step = "stamp" /\ h.from = Len(trail) /\ h.shelf = stored /\ h.event = e
      /\ h.cp = NoCheckpoint /\ h.paths = paths /\ h.told = told
  BY DEF Coming, NoCall
<1>9. h \in CallRow
  <2>1. stored \subseteq CheckpointRow
    BY DEF HandInv, HandTypeOK
  <2> HIDE DEF EventRow
  <2> QED BY <1>3, <1>5, <1>6, <2>1 DEF Coming, NoCall, NoCheckpoint, NoEvent, CallRow, CheckpointRow, Ids0, WritingOps
<1> HIDE DEF h, EventRow
<1>10. Says(h, trail, stored, tree)
  BY <1>3, <1>6, <1>8 DEF Says, RowOK
<1> QED BY <1>7, <1>8, <1>9, <1>10, EventHand

LEMMA CompleteHand ==
  ASSUME HandoffsAssumption, HandInv, NEW c \in Calls, ReadCompletion(c)
  PROVE  HandInv'
<1>1. CASE Refused(c)
  BY <1>1, RefusedHand
<1>2. ASSUME deriveWorkstreamStatus(Len(trail)) # "completed",
             Begins(c, [Coming("complete", "stamp") EXCEPT !.event = [kind |-> "workstream.completed", at |-> 0]])
      PROVE  HandInv'
  <2>1. PICK e : e = [kind |-> "workstream.completed", at |-> 0]
    OBVIOUS
  <2>2. e \in EventRow /\ e.kind = "workstream.completed"
    BY <2>1 DEF EventRow, CompletedRow
  <2> DEFINE h == [Coming("complete", "stamp") EXCEPT !.event = e]
  <2>3. Len(trail) \in Nat /\ stored \subseteq CheckpointRow
    BY EventRows DEF HandInv, HandTypeOK
  <2>4. /\ h.op = "complete" /\ h.step = "stamp" /\ h.from = Len(trail) /\ h.shelf = stored /\ h.event = e
        /\ h.cp = NoCheckpoint
    BY DEF Coming, NoCall
  <2>5. h \in CallRow
    <3> HIDE DEF EventRow
    <3> QED BY <2>2, <2>3 DEF Coming, NoCall, NoCheckpoint, NoEvent, CallRow, CheckpointRow, Ids0, WritingOps
  <2>6. Begins(c, h)
    BY <1>2, <2>1
  <2>7. EventsOfKind(Len(trail), "workstream.completed") = {}
    BY <1>2 DEF deriveWorkstreamStatus
  <2>8. \A i \in 1 .. Len(trail) : trail[i].kind # "workstream.completed"
    BY <2>7 DEF EventsOfKind
  <2> HIDE DEF h, EventRow
  <2>9. Says(h, trail, stored, tree)
    BY <2>2, <2>4, <2>8 DEF Says, RowOK
  <2> QED BY <2>4, <2>5, <2>6, <2>9, EventHand
<1> QED BY <1>1, <1>2 DEF ReadCompletion

LEMMA BuildHand ==
  ASSUME HandoffsAssumption, HandInv, NEW c \in Calls, BuildCheckpoint(c)
  PROVE  HandInv'
<1>1. PICK p : p = [id |-> c, at |-> wall, covers |-> call[c].seen, head |-> tree]
  OBVIOUS
<1>2. PICK g : g = call[c]
  OBVIOUS
<1> DEFINE h == [g EXCEPT !.step = "save", !.cp = p]
<1>3. /\ g \in CallRow /\ g.step = "build" /\ g.op \in {"checkpoint", "handoff"} /\ Stands(g, trail, stored, tree)
      /\ wall \in Nat /\ tree \in Nat /\ trail \in Seq(EventRow) /\ stored \subseteq CheckpointRow
  BY <1>2 DEF BuildCheckpoint, At, HandInv, HandTypeOK
<1>4. p \in CheckpointRow /\ p.id = c /\ p.at = wall /\ p.covers = g.seen /\ p.head = tree
  BY <1>1, <1>2, <1>3 DEF CallRow, CheckpointRow, Ids0
<1>5. /\ h \in CallRow /\ h.step = "save" /\ h.op = g.op /\ h.from = g.from /\ h.shelf = g.shelf /\ h.cp = p
  BY <1>3, <1>4 DEF CallRow
<1>6. Holds(c, h) /\ UNCHANGED World /\ trail' = trail /\ stored' = stored /\ tree' = tree /\ wall' = wall
  BY <1>1, <1>2 DEF BuildCheckpoint, Database, World
<1> HIDE DEF h
<1>7. g.from <= g.seen /\ g.from <= Len(trail) /\ g.shelf \subseteq stored
  BY <1>3 DEF Stands
<1>8. Stands(h, trail', stored', tree')
  BY <1>3, <1>4, <1>5, <1>6, <1>7 DEF Stands, WritingOps
<1>9. setBacks = 0 => \A q \in h.shelf : q.at <= wall
  BY <1>5, <1>7 DEF HandInv
<1>10. setBacks = 0 => Timely(h, trail', wall')
  BY <1>3, <1>4, <1>5, <1>6, <1>9 DEF Timely
<1> QED BY <1>2, <1>4, <1>5, <1>6, <1>8, <1>10, CallMoves DEF RowAdded, Shelved

LEMMA SaveHand ==
  ASSUME HandoffsAssumption, HandInv, NEW c \in Calls, SaveCheckpoint(c)
  PROVE  HandInv'
<1>1. PICK g : g = call[c]
  OBVIOUS
<1>2. /\ g \in CallRow /\ g.step = "save" /\ g.op \in {"checkpoint", "handoff"} /\ Stands(g, trail, stored, tree)
      /\ wall \in Nat /\ tree \in Nat /\ trail \in Seq(EventRow) /\ stored \subseteq CheckpointRow
  BY <1>1 DEF SaveCheckpoint, At, HandInv, HandTypeOK
<1>3. UNCHANGED World /\ trail' = trail /\ stored' = stored \cup {g.cp} /\ tree' = tree /\ wall' = wall
  BY <1>1 DEF SaveCheckpoint, World
<1>4. /\ g.from <= Len(trail) /\ g.shelf \subseteq stored /\ g.cp.head <= tree
      /\ g.op = "handoff" => g.from <= g.cp.covers
      /\ setBacks = 0 => g.cp.at <= wall
  BY <1>1, <1>2 DEF Stands, HandInv, Timely
<1>5. g.cp \in CheckpointRow
  BY <1>2 DEF CallRow
<1>6. CASE g.op = "checkpoint"
  <2> DEFINE h == [g EXCEPT !.step = "answered"]
  <2>1. Holds(c, h)
    BY <1>1, <1>6 DEF SaveCheckpoint
  <2>2. h \in CallRow /\ h.step = "answered" /\ h.op = "checkpoint" /\ h.from = g.from /\ h.shelf = g.shelf /\ h.cp = g.cp
    BY <1>2, <1>6 DEF CallRow
  <2> HIDE DEF h
  <2>3. Stands(h, trail', stored', tree')
    BY <1>3, <1>4, <2>2 DEF Stands, WritingOps
  <2>4. setBacks = 0 => Timely(h, trail', wall')
    BY <1>3, <1>4, <2>2 DEF Timely, WritingOps
  <2> QED BY <1>1, <1>2, <1>3, <2>1, <2>2, <2>3, <2>4, CallMoves DEF RowAdded, Shelved
<1>7. CASE g.op = "handoff"
  <2>1. PICK e : e = [kind |-> "handoff.created", at |-> 0, id |-> Unset, cp |-> g.cp]
    OBVIOUS
  <2>2. e \in EventRow /\ e.kind = "handoff.created" /\ e.cp = g.cp
    <3>1. e \in PackedRow
      BY <1>5, <2>1 DEF PackedRow
    <3> QED BY <2>1, <3>1 DEF EventRow
  <2> DEFINE h == [g EXCEPT !.step = "stamp", !.event = e]
  <2>3. Holds(c, h)
    BY <1>1, <1>7, <2>1 DEF SaveCheckpoint
  <2>4. /\ h \in CallRow /\ h.step = "stamp" /\ h.op = "handoff" /\ h.from = g.from /\ h.shelf = g.shelf
        /\ h.cp = g.cp /\ h.event = e
    <3> HIDE DEF EventRow
    <3> QED BY <1>2, <1>7, <2>2 DEF CallRow
  <2> HIDE DEF h, EventRow
  <2>5. Says(h, trail', stored', tree')
    BY <1>3, <2>2, <2>4 DEF Says, RowOK
  <2>6. Stands(h, trail', stored', tree')
    <3>1. h.from <= Len(trail') /\ h.shelf \subseteq stored' /\ h.cp.head <= tree' /\ h.from <= h.cp.covers
      BY <1>3, <1>4, <1>7, <2>4
    <3>2. h.op = "handoff" /\ h.step = "stamp" /\ h.op \in WritingOps
      BY <2>4 DEF WritingOps
    <3> QED BY <2>5, <3>1, <3>2 DEF Stands
  <2>7. setBacks = 0 => Timely(h, trail', wall')
    BY <1>3, <1>4, <2>4 DEF Timely
  <2> QED BY <1>1, <1>2, <1>3, <2>3, <2>4, <2>6, <2>7, CallMoves DEF RowAdded, Shelved
<1> QED BY <1>2, <1>6, <1>7

LEMMA PrepareHand ==
  ASSUME HandoffsAssumption, HandInv, NEW c \in Calls, Prepare(c)
  PROVE  HandInv'
<1>1. PICK g : g = call[c]
  OBVIOUS
<1>2. /\ g \in CallRow /\ g.step = "prepare" /\ g.op = "continue" /\ Stands(g, trail, stored, tree)
      /\ wall \in Nat /\ tree \in Nat /\ trail \in Seq(EventRow) /\ stored \subseteq CheckpointRow
  BY <1>1 DEF Prepare, At, HandInv, HandTypeOK
<1>3. PICK e : e = [kind |-> "handoff.created", at |-> wall, id |-> c, cp |-> g.cp, agent |-> g.to,
                    mode |-> LaunchMode(g.cp, g.to), clean |-> IsClean(DetectDrift(g.cp))]
  OBVIOUS
<1>4. /\ g.from <= Len(trail) /\ g.shelf \subseteq stored /\ g.cp.head <= tree /\ g.to \in Agents
      /\ g.cp \in g.shelf /\ \A q \in g.shelf : q.at <= g.cp.at
      /\ setBacks = 0 => g.cp.at <= wall
  BY <1>1, <1>2 DEF Stands, HandInv, Timely
<1>5. e \in EventRow /\ e.kind = "handoff.created" /\ e.cp = g.cp /\ e.at = wall
  <2>1. g.cp \in CheckpointRow /\ c \in Ids0
    BY <1>2 DEF CallRow, Ids0
  <2>2. LaunchMode(g.cp, g.to) \in {"native_resume", "checkpoint_seed"}
    BY DEF LaunchMode
  <2>3. IsClean(DetectDrift(g.cp)) \in BOOLEAN
    BY DEF IsClean
  <2>4. e \in GivenRow
    BY <1>2, <1>3, <1>4, <2>1, <2>2, <2>3 DEF GivenRow
  <2> QED BY <1>3, <2>4 DEF EventRow
<1>6. e.clean \/ g.cp.head < tree
  <2>1. g.cp.head \in Nat
    BY <1>2 DEF CallRow, CheckpointRow
  <2>2. IsClean(DetectDrift(g.cp)) \/ g.cp.head # tree
    BY DEF IsClean, DetectDrift
  <2> QED BY <1>2, <1>3, <1>4, <2>1, <2>2
<1> DEFINE h == [g EXCEPT !.step = "append", !.event = e]
<1>7. Holds(c, h) /\ UNCHANGED World /\ trail' = trail /\ stored' = stored /\ tree' = tree /\ wall' = wall
  BY <1>1, <1>3 DEF Prepare, Database, World
<1>8. /\ h \in CallRow /\ h.step = "append" /\ h.op = "continue" /\ h.from = g.from /\ h.shelf = g.shelf
      /\ h.cp = g.cp /\ h.event = e /\ h.to = g.to
  <2> HIDE DEF EventRow
  <2> QED BY <1>2, <1>5 DEF CallRow
<1> HIDE DEF h, EventRow
<1>9. Says(h, trail', stored', tree')
  BY <1>4, <1>5, <1>6, <1>7, <1>8 DEF Says, RowOK
<1>10. Stands(h, trail', stored', tree')
  BY <1>4, <1>7, <1>8, <1>9 DEF Stands, WritingOps
<1>11. setBacks = 0 => \A i \in 1 .. g.from : trail[i].at <= wall
  <2>1. Len(trail) \in Nat /\ g.from \in Nat
    BY <1>2, EventRows DEF CallRow
  <2> QED BY <1>4, <2>1 DEF HandInv
<1>12. setBacks = 0 => Timely(h, trail', wall')
  BY <1>2, <1>4, <1>5, <1>7, <1>8, <1>11 DEF Timely
<1> QED BY <1>1, <1>2, <1>7, <1>8, <1>10, <1>12, CallMoves DEF RowAdded, Shelved

LEMMA StampHand ==
  ASSUME HandoffsAssumption, HandInv, NEW c \in Calls, StampEvent(c)
  PROVE  HandInv'
<1>1. PICK g : g = call[c]
  OBVIOUS
<1>2. /\ g \in CallRow /\ g.step = "stamp" /\ Stands(g, trail, stored, tree)
      /\ wall \in Nat /\ tree \in Nat /\ trail \in Seq(EventRow) /\ stored \subseteq CheckpointRow
  BY <1>1 DEF StampEvent, HandInv, HandTypeOK
<1>3. /\ g.op \in WritingOps /\ g.op # "continue" /\ Says(g, trail, stored, tree)
      /\ g.from <= Len(trail) /\ g.shelf \subseteq stored /\ g.cp.head <= tree
      /\ g.op = "handoff" => g.from <= g.cp.covers
      /\ setBacks = 0 => g.cp.at <= wall
  BY <1>1, <1>2 DEF Stands, HandInv, Timely
<1>4. g.event \in EventRow
  BY <1>3 DEF Says
<1>5. PICK e : e = [g.event EXCEPT !.at = wall]
  OBVIOUS
<1>6. /\ e \in EventRow /\ e.at = wall /\ e.kind = g.event.kind
      /\ e.kind = "handoff.created" => e.cp = g.event.cp
      /\ e.kind = "handoff.accepted" => e.id = g.event.id
      /\ e.kind = "files.claimed" => e.paths = g.event.paths
  BY <1>2, <1>4, <1>5, Stamped
<1> DEFINE h == [g EXCEPT !.step = "append", !.event = e]
<1>7. Holds(c, h) /\ UNCHANGED World /\ trail' = trail /\ stored' = stored /\ tree' = tree /\ wall' = wall
  <2>1. [g EXCEPT !.step = "append", !.event.at = wall] = h
    BY <1>5
  <2> QED BY <1>1, <2>1 DEF StampEvent, Database, World
<1>8. /\ h \in CallRow /\ h.step = "append" /\ h.op = g.op /\ h.from = g.from /\ h.shelf = g.shelf
      /\ h.cp = g.cp /\ h.event = e /\ h.told = g.told /\ h.paths = g.paths
  <2> HIDE DEF EventRow
  <2> QED BY <1>2, <1>6 DEF CallRow
<1> HIDE DEF h, EventRow
<1>9. Says(h, trail', stored', tree')
  BY <1>3, <1>6, <1>7, <1>8 DEF Says, RowOK
<1>10. Stands(h, trail', stored', tree')
  BY <1>3, <1>7, <1>8, <1>9 DEF Stands
<1>11. setBacks = 0 => \A i \in 1 .. g.from : trail[i].at <= wall
  <2>1. Len(trail) \in Nat /\ g.from \in Nat
    BY <1>2, EventRows DEF CallRow
  <2> QED BY <1>3, <2>1 DEF HandInv
<1>12. setBacks = 0 => Timely(h, trail', wall')
  BY <1>2, <1>3, <1>6, <1>7, <1>8, <1>11 DEF Timely
<1> QED BY <1>1, <1>2, <1>7, <1>8, <1>10, <1>12, CallMoves DEF RowAdded, Shelved

LEMMA AppendHand ==
  ASSUME HandoffsAssumption, HandInv, NEW c \in Calls, AppendOne(c)
  PROVE  HandInv'
<1>1. PICK g : g = call[c]
  OBVIOUS
<1>2. /\ g \in CallRow /\ g.step = "append" /\ Stands(g, trail, stored, tree)
      /\ wall \in Nat /\ tree \in Nat /\ trail \in Seq(EventRow) /\ stored \subseteq CheckpointRow
  BY <1>1 DEF AppendOne, HandInv, HandTypeOK
<1>3. /\ g.op \in WritingOps /\ Says(g, trail, stored, tree)
      /\ g.from <= Len(trail) /\ g.shelf \subseteq stored /\ g.cp.head <= tree
      /\ g.op = "handoff" => g.from <= g.cp.covers
      /\ g.op = "continue" => g.to \in Agents /\ g.cp \in g.shelf /\ \A q \in g.shelf : q.at <= g.cp.at
      /\ setBacks = 0 => Timely(g, trail, wall)
  BY <1>1, <1>2 DEF Stands, HandInv
<1>4. PICK e : e = g.event
  OBVIOUS
<1>5. e \in EventRow /\ RowOK(e, stored) /\ (setBacks = 0 => e.at <= wall)
  BY <1>2, <1>3, <1>4 DEF Says, Timely
<1>6. PICK r : r = Len(trail) + 1
  OBVIOUS
<1>7. Len(trail) \in Nat /\ g.from \in Nat
  BY <1>2, EventRows DEF CallRow
<1> DEFINE h == [g EXCEPT !.step = "answered", !.row = r]
<1>8. Holds(c, h) /\ UNCHANGED World /\ trail' = Append(trail, e) /\ stored' = stored /\ tree' = tree /\ wall' = wall
  BY <1>1, <1>4, <1>6 DEF AppendOne, World
<1>9. /\ h \in CallRow /\ h.step = "answered" /\ h.op = g.op /\ h.from = g.from /\ h.shelf = g.shelf
      /\ h.cp = g.cp /\ h.event = e /\ h.told = g.told /\ h.paths = g.paths /\ h.row = r /\ h.to = g.to
  <2>1. r \in Nat
    BY <1>6, <1>7
  <2> HIDE DEF EventRow
  <2> QED BY <1>2, <1>4, <2>1 DEF CallRow
<1>10. /\ trail' \in Seq(EventRow) /\ Grows(trail, trail') /\ Len(trail') = r /\ trail'[r] = e
  BY <1>2, <1>5, <1>6, <1>8, AppendGrows
<1>11. Says(g, trail', stored', tree')
  <2>1. tree <= tree /\ stored \subseteq stored
    BY <1>2
  <2> HIDE DEF EventRow, h
  <2>2. Says(g, trail', stored, tree)
    BY <1>2, <1>3, <1>10, <2>1, SaysGrows
  <2> QED BY <1>8, <2>2
<1> HIDE DEF h, EventRow
<1>12. Says(h, trail', stored', tree')
  BY <1>4, <1>9, <1>11 DEF Says
<1>13. h.row \in h.from + 1 .. Len(trail')
  BY <1>3, <1>6, <1>7, <1>9, <1>10
<1>14. h.from <= Len(trail')
  BY <1>3, <1>6, <1>7, <1>9, <1>10
<1>15. Stands(h, trail', stored', tree')
  BY <1>3, <1>8, <1>9, <1>10, <1>12, <1>13, <1>14 DEF Stands
<1>16. \A i \in 1 .. g.from : trail'[i] = trail[i]
  BY <1>3, <1>7, <1>10 DEF Grows
<1>17. setBacks = 0 => Timely(h, trail', wall')
  BY <1>2, <1>3, <1>4, <1>8, <1>9, <1>16 DEF Timely
<1>18. RowAdded
  BY <1>5, <1>8 DEF RowAdded
<1> QED BY <1>1, <1>2, <1>8, <1>9, <1>15, <1>17, <1>18, CallMoves DEF Shelved

LEMMA HandStep ==
  ASSUME HandoffsAssumption, HandInv, [HandoffsNext]_handoffVars
  PROVE  HandInv'
<1>1. ASSUME NEW c \in Calls, CallStep(c) PROVE HandInv'
  BY <1>1, LoadHand, BuildHand, SaveHand, LatestHand, PrepareHand, MatchHand, ClaimHand, CompleteHand,
     StampHand, AppendHand DEF CallStep
<1>2. /\ HandTypeOK /\ Len(trail) \in Nat
      /\ \A i \in 1 .. Len(trail) : RowOK(trail[i], stored)
      /\ \A p \in stored : p.head <= tree /\ (p.id \in Calls => call[p.id].step # "idle")
      /\ \A d \in Calls : call[d] \in CallRow /\ Stands(call[d], trail, stored, tree)
                          /\ (call[d].step = "save" => call[d].cp.id = d)
      /\ setBacks = 0 =>
           /\ \A i \in 1 .. Len(trail) : trail[i].at <= wall
           /\ \A p \in stored : p.at <= wall /\ (p.id \in Calls => \A q \in call[p.id].shelf : q.at <= p.at)
           /\ \A d \in Calls : Timely(call[d], trail, wall)
  BY EventRows DEF HandInv, HandTypeOK
<1>3. \A d \in Calls : /\ call[d].from <= Len(trail)
                       /\ call[d].op \in WritingOps /\ call[d].step \in {"append", "answered"}
                            => call[d].event \in EventRow
  BY <1>2 DEF Stands, Says
<1>4. CASE CaptureEvent
  <2>1. PICK s \in AgentSessions, t \in 0 .. wall : trail' = Append(trail, Captured(s, t))
    BY <1>4 DEF CaptureEvent
  <2>2. UNCHANGED <<stored, wall, setBacks, tree, call>>
    BY <1>4 DEF CaptureEvent, World
  <2>3. PICK e : e = Captured(s, t)
    OBVIOUS
  <2>4. e \in EventRow /\ e.kind = "captured" /\ e.at <= wall
    <3>1. wall \in Nat
      BY <1>2 DEF HandTypeOK
    <3>2. e \in CapturedRow /\ e.kind = "captured" /\ e.at = t /\ t <= wall
      BY <2>3, <3>1 DEF CapturedRow, Captured
    <3> QED BY <3>2 DEF EventRow
  <2>5. RowAdded
    BY <2>1, <2>3, <2>4 DEF RowAdded, RowOK
  <2>6. /\ trail' \in Seq(EventRow) /\ Grows(trail, trail')
        /\ \A i \in 1 .. Len(trail') : RowOK(trail'[i], stored')
        /\ setBacks = 0 => \A i \in 1 .. Len(trail') : trail'[i].at <= wall'
    BY <2>2, <2>5, RowsGrow
  <2>7. trail \in Seq(EventRow) /\ tree \in Nat /\ wall \in Nat
    BY <1>2 DEF HandTypeOK
  <2>8. ASSUME NEW d \in Calls
        PROVE  Stands(call[d], trail', stored, tree) /\ (setBacks = 0 => Timely(call[d], trail', wall))
    <3>1. stored \subseteq stored /\ tree <= tree /\ wall <= wall
      BY <2>7
    <3> HIDE DEF EventRow, CallRow
    <3> QED BY <1>2, <1>3, <2>6, <2>7, <3>1, StandsGrows, TimelyGrows
  <2>9. HandTypeOK'
    BY <1>2, <2>2, <2>6 DEF HandTypeOK
  <2> QED BY <1>2, <2>2, <2>6, <2>8, <2>9 DEF HandInv
<1>5. ASSUME trail' = trail, stored' = stored, call' = call, tree' \in Nat, tree <= tree', wall' \in Nat,
             setBacks' \in Nat, setBacks' = 0 => setBacks = 0 /\ wall <= wall'
      PROVE  HandInv'
  <2>1. trail \in Seq(EventRow) /\ tree \in Nat /\ wall \in Nat /\ Grows(trail, trail)
    BY <1>2 DEF HandTypeOK, Grows
  <2>2. ASSUME NEW d \in Calls
        PROVE  Stands(call[d], trail, stored, tree') /\ (setBacks' = 0 => Timely(call[d], trail, wall'))
    <3>1. Stands(call[d], trail, stored, tree')
      <4>1. stored \subseteq stored
        OBVIOUS
      <4> QED BY <1>2, <1>5, <2>1, <4>1, StandsGrows
    <3>2. ASSUME setBacks' = 0 PROVE Timely(call[d], trail, wall')
      <4>1. Timely(call[d], trail, wall) /\ wall <= wall'
        BY <1>2, <1>5, <3>2
      <4> QED BY <1>2, <1>3, <1>5, <2>1, <4>1, TimelyGrows
    <3> QED BY <3>1, <3>2
  <2>3. HandTypeOK'
    BY <1>2, <1>5 DEF HandTypeOK
  <2>4. \A p \in stored : p.head \in Nat /\ p.at \in Nat
    BY <1>2 DEF HandTypeOK, CheckpointRow
  <2>5. \A p \in stored : p.head <= tree'
    BY <1>2, <1>5, <2>1, <2>4
  <2>6. setBacks' = 0 => \A p \in stored : p.at <= wall'
    BY <1>2, <1>5, <2>1, <2>4
  <2>7. setBacks' = 0 => \A i \in 1 .. Len(trail) : trail[i].at <= wall'
    BY <1>2, <1>5, <2>1, EventRows
  <2> QED BY <1>2, <1>5, <2>2, <2>3, <2>5, <2>6, <2>7 DEF HandInv
<1>6. CASE WorkInTree
  <2>1. /\ trail' = trail /\ stored' = stored /\ call' = call /\ tree' = tree + 1 /\ wall' = wall
        /\ setBacks' = setBacks /\ tree \in Nat /\ wall \in Nat /\ setBacks \in Nat
    BY <1>2, <1>6 DEF WorkInTree, Database, HandTypeOK
  <2>2. tree' \in Nat /\ tree <= tree' /\ wall <= wall'
    BY <2>1
  <2> QED BY <1>5, <2>1, <2>2
<1>7. CASE ClockMoves
  <2>1. /\ trail' = trail /\ stored' = stored /\ call' = call /\ tree' = tree
        /\ tree \in Nat /\ wall \in Nat /\ setBacks \in Nat
    BY <1>2, <1>7 DEF ClockMoves, Database, HandTypeOK
  <2>2. \/ wall' = wall + 1 /\ setBacks' = setBacks
        \/ wall > 0 /\ wall' = wall - 1 /\ setBacks' = setBacks + 1
    BY <1>7 DEF ClockMoves
  <2>3. tree' \in Nat /\ tree <= tree' /\ wall' \in Nat /\ setBacks' \in Nat
        /\ (setBacks' = 0 => setBacks = 0 /\ wall <= wall')
    BY <2>1, <2>2
  <2> QED BY <1>5, <2>1, <2>3
<1>8. CASE UNCHANGED handoffVars
  <2>1. trail' = trail /\ stored' = stored /\ call' = call /\ tree' = tree /\ wall' = wall /\ setBacks' = setBacks
    BY <1>8 DEF handoffVars
  <2>2. tree \in Nat /\ wall \in Nat /\ setBacks \in Nat
    BY <1>2 DEF HandTypeOK
  <2>3. tree' \in Nat /\ tree <= tree' /\ wall' \in Nat /\ wall <= wall' /\ setBacks' \in Nat
    BY <2>1, <2>2
  <2> QED BY <1>5, <2>1, <2>3
<1> QED BY <1>1, <1>4, <1>6, <1>7, <1>8 DEF HandoffsNext

-------------------------------------------------------------------------------
(* What the inductive invariant says of the answers                        *)

LEMMA AnsweredRows ==
  ASSUME HandInv, NEW ops, ops \subseteq WritingOps, NEW c \in Answered(ops)
  PROVE  LET h == call[c]
         IN /\ c \in Calls /\ h \in CallRow /\ h.op \in ops /\ h.step = "answered" /\ h.from \in Nat /\ h.row \in Nat
            /\ h.from < h.row /\ h.row \in 1 .. Len(trail) /\ trail[h.row] = h.event /\ h.event.at \in Nat
            /\ Says(h, trail, stored, tree)
            /\ setBacks = 0 => \A i \in 1 .. h.from : trail[i].at <= h.event.at
<1> DEFINE h == call[c]
<1>1. c \in Calls /\ h.op \in ops /\ h.step = "answered" /\ h.op \in WritingOps
  BY DEF Answered
<1>2. h \in CallRow /\ Stands(h, trail, stored, tree) /\ (setBacks = 0 => Timely(h, trail, wall))
  BY <1>1 DEF HandInv, HandTypeOK
<1>3. h.from \in Nat /\ h.row \in Nat /\ Len(trail) \in Nat
  BY <1>2, EventRows DEF CallRow, HandInv, HandTypeOK
<1> HIDE DEF h
<1>4. Says(h, trail, stored, tree) /\ h.row \in h.from + 1 .. Len(trail) /\ trail[h.row] = h.event
  BY <1>1, <1>2 DEF Stands
<1>5. h.from < h.row /\ h.row \in 1 .. Len(trail)
  BY <1>3, <1>4
<1>6. trail[h.row].at \in Nat
  BY <1>5, EventRows DEF HandInv, HandTypeOK
<1>7. setBacks = 0 => \A i \in 1 .. h.from : trail[i].at <= h.event.at
  BY <1>1, <1>2 DEF Timely
<1>8. /\ c \in Calls /\ h \in CallRow /\ h.op \in ops /\ h.step = "answered" /\ h.from \in Nat /\ h.row \in Nat
      /\ h.from < h.row /\ h.row \in 1 .. Len(trail) /\ trail[h.row] = h.event /\ h.event.at \in Nat
      /\ Says(h, trail, stored, tree)
      /\ setBacks = 0 => \A i \in 1 .. h.from : trail[i].at <= h.event.at
  BY <1>1, <1>2, <1>3, <1>4, <1>5, <1>6, <1>7
<1> QED BY <1>8 DEF h

(* While the clock is not set back, a row that was there when a call came  *)
(* is before the row of the call.                                          *)
LEMMA RowsInOrder ==
  ASSUME HandInv, setBacks = 0, NEW ops, ops \subseteq WritingOps, NEW c \in Answered(ops), NEW i \in 1 .. call[c].from
  PROVE  i \in 1 .. Len(trail) /\ i # call[c].row /\ Precedes(i, call[c].row) /\ ~Precedes(call[c].row, i)
<1>1. PICK h : h = call[c]
  OBVIOUS
<1>2. /\ h.from \in Nat /\ h.row \in Nat /\ h.from < h.row /\ h.row \in 1 .. Len(trail) /\ trail[h.row] = h.event
      /\ \A j \in 1 .. h.from : trail[j].at <= h.event.at
  BY <1>1, AnsweredRows
<1>3. Len(trail) \in Nat /\ \A j \in 1 .. Len(trail) : trail[j].at \in Nat
  BY EventRows DEF HandInv, HandTypeOK
<1>4. i \in 1 .. Len(trail) /\ i < h.row /\ trail[i].at <= trail[h.row].at
  BY <1>1, <1>2, <1>3
<1>5. trail[i].at \in Nat /\ trail[h.row].at \in Nat
  BY <1>2, <1>3, <1>4
<1> QED BY <1>1, <1>2, <1>4, <1>5 DEF Precedes

LEMMA HandAcknowledged ==
  ASSUME HandInv
  PROVE  AcknowledgementsShow
<1> SUFFICES ASSUME NEW c \in Answered({"accept"}), call[c].event.id # Unset
             PROVE  \E r \in ListHandoffs(Len(trail)) :
                      /\ r.id = call[c].event.id /\ r.shown # 0
                      /\ setBacks = 0 /\ r.shown = call[c].row =>
                           \A d \in Answered({"accept"}) : call[d].event.id = r.id => ~AppendedBefore(c, d)
  BY DEF AcknowledgementsShow
<1>1. Len(trail) \in Nat /\ trail \in Seq(EventRow)
  BY EventRows DEF HandInv, HandTypeOK
<1>2. \A d \in Answered({"accept"}) :
        /\ call[d].row \in 1 .. Len(trail) /\ trail[call[d].row] = call[d].event
        /\ call[d].event.kind = "handoff.accepted" /\ call[d].row \in Nat /\ call[d].from \in Nat
        /\ call[d].event.id # Unset => Known(trail, call[d].event.id)
  BY AnsweredRows DEF Says, WritingOps
<1>3. PICK i \in 1 .. Len(trail) : trail[i].kind = "handoff.created" /\ trail[i].id = call[c].event.id
  BY <1>2 DEF Known
<1> DEFINE A == AcceptsOf(Len(trail), i)
<1>4. PICK shown : shown = IF A = {} THEN 0 ELSE Latest(A)
  OBVIOUS
<1>5. PICK r : r = [id |-> trail[i].id, agent |-> trail[i].agent, cp |-> trail[i].cp.id, at |-> trail[i].at,
                    shown |-> shown]
  OBVIOUS
<1>6. r \in ListHandoffs(Len(trail)) /\ r.id = call[c].event.id /\ r.shown = shown
  BY <1>3, <1>4, <1>5 DEF ListHandoffs, EventsOfKind
<1>7. \A d \in Answered({"accept"}) : call[d].event.id = call[c].event.id => call[d].row \in A
  BY <1>2, <1>3 DEF AcceptsOf, EventsOfKind
<1>8. A \subseteq 1 .. Len(trail)
  BY DEF AcceptsOf, EventsOfKind
<1> HIDE DEF A
<1>9. A # {}
  BY <1>7
<1>10. Latest(A) \in A /\ \A j \in A : Latest(A) = j \/ Precedes(j, Latest(A))
  BY <1>1, <1>8, <1>9, LatestOfSome
<1>11. shown = Latest(A) /\ shown # 0
  <2>1. shown = Latest(A) /\ Latest(A) \in 1 .. Len(trail)
    BY <1>4, <1>8, <1>9, <1>10
  <2> QED BY <1>1, <2>1
<1>12. ASSUME setBacks = 0, shown = call[c].row, NEW d \in Answered({"accept"}),
              call[d].event.id = call[c].event.id, AppendedBefore(c, d)
       PROVE  FALSE
  <2>1. call[c].row \in 1 .. call[d].from
    BY <1>2, <1>12 DEF AppendedBefore
  <2>2. call[c].row # call[d].row /\ ~Precedes(call[d].row, call[c].row)
    BY <1>12, <2>1, RowsInOrder DEF WritingOps
  <2> QED BY <1>7, <1>10, <1>11, <1>12, <2>2
<1> QED BY <1>6, <1>11, <1>12

LEMMA HandStatus ==
  ASSUME HandInv
  PROVE  StatusIsCurrent
<1> DEFINE n == Len(trail)
           Handed == \E i \in EventsOfKind(n, "handoff.created") :
                       \A j \in EventsOfKind(n, "handoff.accepted") : Precedes(j, i)
           status == deriveWorkstreamStatus(n)
<1>1. status = IF EventsOfKind(n, "workstream.completed") # {} THEN "completed"
               ELSE IF Handed THEN "handed_off" ELSE "active"
  BY DEF deriveWorkstreamStatus
<1>2. status = "completed" <=> EventsOfKind(n, "workstream.completed") # {}
  BY <1>1
<1>3. ASSUME setBacks = 0, NEW c \in Answered({"accept"}),
             \A i \in EventsOfKind(n, "handoff.created") : i <= call[c].from
      PROVE  ~Handed
  <2>1. /\ call[c].row \in 1 .. n /\ trail[call[c].row] = call[c].event /\ call[c].event.kind = "handoff.accepted"
        /\ call[c].from \in Nat
    BY AnsweredRows DEF Says, WritingOps
  <2>2. call[c].row \in EventsOfKind(n, "handoff.accepted")
    BY <2>1 DEF EventsOfKind
  <2>3. ASSUME NEW i \in EventsOfKind(n, "handoff.created") PROVE ~Precedes(call[c].row, i)
    <3>1. i \in 1 .. call[c].from
      BY <1>3, <2>1 DEF EventsOfKind
    <3> QED BY <1>3, <3>1, RowsInOrder DEF WritingOps
  <2> QED BY <2>2, <2>3
<1>4. ASSUME setBacks = 0, NEW c \in Answered({"handoff", "continue"}),
             \A i \in EventsOfKind(n, "handoff.accepted") : i <= call[c].from
      PROVE  Handed
  <2>1. /\ call[c].row \in 1 .. n /\ trail[call[c].row] = call[c].event /\ call[c].event.kind = "handoff.created"
        /\ call[c].from \in Nat
    BY AnsweredRows DEF Says, WritingOps
  <2>2. call[c].row \in EventsOfKind(n, "handoff.created")
    BY <2>1 DEF EventsOfKind
  <2>3. ASSUME NEW j \in EventsOfKind(n, "handoff.accepted") PROVE Precedes(j, call[c].row)
    <3>1. j \in 1 .. call[c].from
      BY <1>4, <2>1 DEF EventsOfKind
    <3> QED BY <1>4, <3>1, RowsInOrder DEF WritingOps
  <2> QED BY <2>2, <2>3
<1> HIDE DEF Handed
<1>5. ASSUME setBacks = 0, status # "completed", NEW c \in Answered({"accept"}),
             \A i \in EventsOfKind(n, "handoff.created") : i <= call[c].from
      PROVE  status = "active"
  BY <1>1, <1>3, <1>5
<1>6. ASSUME setBacks = 0, status # "completed", NEW c \in Answered({"handoff", "continue"}),
             \A i \in EventsOfKind(n, "handoff.accepted") : i <= call[c].from
      PROVE  status = "handed_off"
  BY <1>1, <1>4, <1>6
<1> HIDE DEF status, n
<1>7. /\ status = "completed" <=> EventsOfKind(n, "workstream.completed") # {}
      /\ setBacks = 0 /\ status # "completed" =>
           /\ \A c \in Answered({"accept"}) :
                (\A i \in EventsOfKind(n, "handoff.created") : i <= call[c].from) => status = "active"
           /\ \A c \in Answered({"handoff", "continue"}) :
                (\A i \in EventsOfKind(n, "handoff.accepted") : i <= call[c].from) => status = "handed_off"
  BY <1>2, <1>5, <1>6
<1> QED BY <1>7 DEF StatusIsCurrent, status, n

LEMMA HandTold ==
  ASSUME HandInv
  PROVE  LaterCallsAreTold
<1>1. ASSUME NEW c \in Answered({"complete"}), NEW d \in Answered({"complete"}), AppendedBefore(c, d)
      PROVE  FALSE
  <2>1. /\ call[c].row \in 1 .. Len(trail) /\ trail[call[c].row] = call[c].event
        /\ call[c].event.kind = "workstream.completed"
    BY AnsweredRows DEF Says, WritingOps
  <2>2. call[d].from \in Nat /\ \A i \in 1 .. call[d].from : trail[i].kind # "workstream.completed"
    BY AnsweredRows DEF Says, WritingOps
  <2>3. call[c].row \in 1 .. call[d].from
    BY <1>1, <2>1, <2>2 DEF AppendedBefore
  <2> QED BY <2>1, <2>2, <2>3
<1>2. ASSUME NEW c \in Answered({"claim"}), NEW d \in Answered({"claim"}), AppendedBefore(c, d),
             call[c].paths \cap call[d].paths # {}
      PROVE  call[c].row \in call[d].told
  <2>1. /\ call[c].row \in 1 .. Len(trail) /\ trail[call[c].row] = call[c].event
        /\ call[c].event.kind = "files.claimed" /\ call[c].event.paths = call[c].paths
    BY AnsweredRows DEF Says, WritingOps
  <2>2. /\ call[d].from \in Nat
        /\ \A i \in 1 .. call[d].from :
             trail[i].kind = "files.claimed" /\ trail[i].paths \cap call[d].paths # {} => i \in call[d].told
    BY AnsweredRows DEF Says, WritingOps
  <2>3. call[c].row \in 1 .. call[d].from
    BY <1>2, <2>1, <2>2 DEF AppendedBefore
  <2> QED BY <1>2, <2>1, <2>2, <2>3
<1> QED BY <1>1, <1>2 DEF LaterCallsAreTold

LEMMA HandEvidence ==
  ASSUME HandoffsAssumption, HandInv
  PROVE  HandoffsCarryEvidence
<1>1. \A i \in Handovers : trail[i].cp \in stored
  BY DEF Handovers, EventsOfKind, HandInv, RowOK
<1>2. ASSUME NEW c \in Answered({"handoff"}) PROVE call[c].cp.covers >= call[c].from
  <2>1. c \in Calls /\ call[c].op = "handoff" /\ call[c].step = "answered" /\ call[c] \in CallRow
        /\ Stands(call[c], trail, stored, tree)
    BY DEF Answered, HandInv, HandTypeOK
  <2>2. call[c].from <= call[c].cp.covers /\ call[c].from \in Nat /\ call[c].cp.covers \in Nat
    BY <2>1 DEF Stands, CallRow, CheckpointRow
  <2> QED BY <2>2
<1>3. ASSUME NEW c \in Answered({"continue"})
      PROVE  /\ call[c] \in CallRow /\ call[c].shelf \subseteq stored
             /\ \A q \in call[c].shelf : q.at <= call[c].cp.at
             /\ call[c].event.clean \/ call[c].cp.head < tree
  <2>1. c \in Calls /\ call[c].op = "continue" /\ call[c].step = "answered" /\ call[c] \in CallRow
        /\ Stands(call[c], trail, stored, tree)
    BY DEF Answered, HandInv, HandTypeOK
  <2> QED BY <2>1 DEF Stands, Says, WritingOps
<1>4. ASSUME NEW c \in Answered({"continue"}), setBacks = 0, NEW p \in call[c].shelf, p.id \in Calls,
             p.at # call[c].cp.at, call[c].cp \in call[p.id].shelf
      PROVE  FALSE
  <2>1. p \in stored /\ p.at <= call[c].cp.at
    BY <1>3
  <2>2. call[c].cp.at <= p.at
    BY <1>4, <2>1 DEF HandInv
  <2>3. p.at \in Nat /\ call[c].cp.at \in Nat
    <3>1. p \in CheckpointRow /\ call[c].cp \in CheckpointRow
      BY <1>3, <2>1 DEF CallRow, HandInv, HandTypeOK
    <3> QED BY <3>1 DEF CheckpointRow
  <2> QED BY <1>4, <2>1, <2>2, <2>3
<1> QED BY <1>1, <1>2, <1>3, <1>4 DEF HandoffsCarryEvidence

(* Every acceptance that was answered shows, the status of a workstream is *)
(* current, a later completion or claim is told of an earlier one, and     *)
(* every handoff carries a stored checkpoint, however many calls overlap   *)
(* and wherever their clocks stand (internal/mcp/handlers.go,              *)
(* internal/launch).                                                       *)
THEOREM HandoffsStaySound == HandoffsSpec => []HandoffsAreSound
<1>1. HandoffsInit => HandInv
  BY HandoffsAssumption, HandStart
<1>2. HandInv /\ [HandoffsNext]_handoffVars => HandInv'
  BY HandoffsAssumption, HandStep
<1>3. HandInv => HandoffsAreSound
  BY HandoffsAssumption, HandAcknowledged, HandStatus, HandTold, HandEvidence DEF HandoffsAreSound
<1> QED BY <1>1, <1>2, <1>3, PTL DEF HandoffsSpec
===============================================================================
