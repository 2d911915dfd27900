--------------------------- MODULE HostedLaterProofs ---------------------------
(***************************************************************************)
(* Theorems about what the hosted service finishes later: the delivery of  *)
(* webhooks, for any number of ticks, consumers, endpoints, workspaces and *)
(* events and any limits, and the deletion of an account, for any number of*)
(* requests, passes, keys, prefixes and failures and any lengths of time.  *)
(***************************************************************************)
EXTENDS MCHostedLater, TLAPS

(* What a sweep knows of the cursor and of the endpoints that matter, and  *)
(* that nothing swept a workspace before its only endpoint was there.      *)
SweptOK ==
  /\ \A t \in Ticks : tickAt[t] \in {"sweep", "batch"} /\ from[t] # NoRow =>
       from[t] <= cursor[ws[t]]
  /\ \A t \in Ticks, e \in Steady :
       endpoints[e] = "active" /\ tickAt[t] \in {"sweep", "batch"} /\ ws[t] = Owner[e]
         /\ seen[t] # NoRow => e \in seen[t]
  /\ \A e \in Steady : endpoints[e] = "absent" =>
       /\ e \notin Founding
       /\ cursor[Owner[e]] = 0
       /\ \A t \in Ticks : Owner[e] \notin todo[t] /\ ws[t] # Owner[e]

SweepInv == WebhooksTypeOK /\ NothingSkipped /\ SweptOK

-------------------------------------------------------------------------------
(* Operators                                                               *)

LEMMA RowParts ==
  ASSUME NEW r \in Rows
  PROVE  r[1] \in Endpoints /\ r[2] \in 1 .. MaxEvents
  BY DEF Rows

LEMMA SweepAt ==
  ASSUME WebhooksTypeOK, NEW t \in Ticks, tickAt[t] \in {"sweep", "batch"}
  PROVE  /\ ws[t] \in Workspaces
         /\ seen[t] # NoRow => seen[t] \in SUBSET Endpoints
         /\ from[t] # NoRow => from[t] \in Nat
         /\ tickAt[t] = "batch" =>
              /\ seen[t] \in SUBSET Endpoints
              /\ from[t] \in Nat /\ upto[t] \in Nat
              /\ upto[t] <= Len(log[ws[t]]) /\ upto[t] <= MaxEvents
              /\ Len(log[ws[t]]) \in Nat
  <1>1. ws[t] \in Workspaces
    BY DEF WebhooksTypeOK, SweepsOK
  <1>2. Len(log[ws[t]]) \in Nat /\ Len(log[ws[t]]) <= MaxEvents /\ MaxEvents \in Nat
    BY <1>1, WebhooksAssumption DEF WebhooksTypeOK, TablesOK
  <1>3. QED
    BY <1>1, <1>2 DEF WebhooksTypeOK, SweepsOK

LEMMA FanoutRows ==
  ASSUME WebhooksTypeOK, NEW t \in Ticks, tickAt[t] = "batch"
  PROVE  Fanout(t) \in SUBSET Rows
  BY SweepAt, WebhooksAssumption DEF Fanout, Rows

LEMMA InsertType ==
  ASSUME TablesOK, NEW R \in SUBSET Rows, InsertDeliveries(R)
  PROVE  /\ deliveries' \in [Rows -> Delivery \cup {NoRow}]
         /\ \A r \in Rows : deliveries[r] # NoRow => deliveries'[r] = deliveries[r]
         /\ \A r \in R : deliveries'[r] # NoRow
  <1>1. [status |-> "queued", attempt |-> 1] \in Delivery
    BY DEF Delivery, Statuses
  <1>2. [status |-> "queued", attempt |-> 1] # NoRow
    BY <1>1, NoRowAssumption
  <1>3. QED
    BY <1>1, <1>2 DEF TablesOK, InsertDeliveries

LEMMA CursorType ==
  ASSUME WebhooksTypeOK, NEW t \in Ticks, tickAt[t] = "batch", AdvanceCursor(t)
  PROVE  /\ cursor' \in [Workspaces -> Nat]
         /\ \A w \in Workspaces : cursor'[w] >= cursor[w] /\ cursor'[w] <= Len(log[w])
         /\ cursor'[ws[t]] \in {cursor[ws[t]], upto[t]}
         /\ \A w \in Workspaces : w # ws[t] => cursor'[w] = cursor[w]
  <1>1. ws[t] \in Workspaces /\ upto[t] \in Nat /\ upto[t] <= Len(log[ws[t]])
    BY SweepAt
  <1>2. cursor \in [Workspaces -> Nat] /\ \A w \in Workspaces : cursor[w] <= Len(log[w])
    BY DEF WebhooksTypeOK, TablesOK
  <1>3. cursor' = [cursor EXCEPT ![ws[t]] =
          IF cursor[ws[t]] < upto[t] THEN upto[t] ELSE cursor[ws[t]]]
    BY DEF AdvanceCursor, Greatest
  <1>4. QED
    BY <1>1, <1>2, <1>3

LEMMA ForgetType ==
  ASSUME SweepsOK, NEW t \in Ticks, Forget(t)
  PROVE  /\ ws' \in [Ticks -> Workspaces \cup {NoRow}]
         /\ seen' \in [Ticks -> (SUBSET Endpoints) \cup {NoRow}]
         /\ from' \in [Ticks -> Nat \cup {NoRow}] /\ upto' \in [Ticks -> Nat \cup {NoRow}]
         /\ ws'[t] = NoRow /\ seen'[t] = NoRow /\ from'[t] = NoRow /\ upto'[t] = NoRow
         /\ \A u \in Ticks : u # t => /\ ws'[u] = ws[u] /\ seen'[u] = seen[u]
                                      /\ from'[u] = from[u] /\ upto'[u] = upto[u]
  BY DEF SweepsOK, Forget, Locals

(* A settled or updated row keeps its type, and the others are untouched.  *)
LEMMA UpdateType ==
  ASSUME TablesOK, NEW r \in Rows, NEW status \in Statuses, NEW n \in Nat \ {0},
         \/ UpdateQueued(r, status, n)
         \/ deliveries' = [deliveries EXCEPT ![r] = [status |-> status, attempt |-> n]]
  PROVE  /\ deliveries' \in [Rows -> Delivery \cup {NoRow}]
         /\ \A x \in Rows : deliveries[x] # NoRow => deliveries'[x] # NoRow
  <1>1. [status |-> status, attempt |-> n] \in Delivery
    BY DEF Delivery
  <1>2. [status |-> status, attempt |-> n] # NoRow
    BY <1>1, NoRowAssumption
  <1>3. QED
    BY <1>1, <1>2 DEF TablesOK, UpdateQueued

LEMMA SettleType ==
  ASSUME WebhooksTypeOK, NEW m \in Message, NEW status \in Statuses, Settle(m, status)
  PROVE  /\ deliveries' \in [Rows -> Delivery \cup {NoRow}]
         /\ \A x \in Rows : deliveries[x] # NoRow => deliveries'[x] # NoRow
  <1>1. m.row \in Rows /\ m.tries \in Nat \ {0}
    BY DEF Message
  <1>2. CASE deliveries' = deliveries
    BY <1>2 DEF WebhooksTypeOK, TablesOK
  <1>3. CASE deliveries' = [deliveries EXCEPT ![m.row] = [status |-> status, attempt |-> m.tries]]
    BY <1>1, <1>3, UpdateType DEF WebhooksTypeOK
  <1>4. QED
    BY <1>2, <1>3 DEF Settle

LEMMA RequeueType ==
  ASSUME MessagesOK, NEW m \in Message, Requeue(m)
  PROVE  queue' \subseteq Message
  <1>1. [m EXCEPT !.tries = @ + 1] \in Message
    BY DEF Message
  <1>2. QED
    BY <1>1 DEF MessagesOK, Requeue

LEMMA HeldType ==
  ASSUME MessagesOK, NEW c \in Consumers, holding[c] # NoRow
  PROVE  /\ holding[c].msg \in Message /\ holding[c].phase \in Phases
         /\ holding[c].msg.row \in Rows
         /\ Outcome(holding[c]) \in Statuses \ {"queued"}
  <1>1. holding[c].msg \in Message /\ holding[c].phase \in Phases
    BY DEF MessagesOK
  <1>2. holding[c].msg.row \in Rows
    BY <1>1 DEF Message
  <1>3. Outcome(holding[c]) \in Statuses \ {"queued"}
    BY DEF Outcome, Statuses
  <1>4. QED
    BY <1>1, <1>2, <1>3

-------------------------------------------------------------------------------
(* Types, one lemma for each part of the system                            *)

(* A step of a tick that only reads.                                       *)
LEMMA TickReadsType ==
  ASSUME WebhooksTypeOK, NEW t \in Ticks,
         \/ StartTick(t) \/ NextWorkspace(t) \/ ReadEndpoints(t) \/ ReadCursor(t)
         \/ ReadEvents(t) \/ ReadStuck(t) \/ SweepThrows(t) \/ TickDies(t)
  PROVE  SweepsOK' /\ tickFaults' \in 0 .. MaxTickFaults
  <1> USE DEF WebhooksTypeOK, TickLabels, TickGoto
  <1>1. CASE StartTick(t)
    <2>1. {Owner[e] : e \in Active} \in SUBSET Workspaces
      BY WebhooksAssumption DEF Active
    <2>2. QED
      BY <1>1, <2>1 DEF StartTick, SweepsOK, TablesOK
  <1>2. CASE NextWorkspace(t)
    <2>1. CASE todo[t] = {} /\ todo' = todo /\ Keep /\ TickGoto(t, "stuck")
      BY <1>2, <2>1 DEF NextWorkspace, SweepsOK, TablesOK, Keep
    <2>2. ASSUME NEW w \in todo[t], todo' = [todo EXCEPT ![t] = @ \ {w}],
                 Locals(t, w, NoRow, NoRow, NoRow), TickGoto(t, "sweep")
          PROVE  SweepsOK' /\ tickFaults' \in 0 .. MaxTickFaults
      <3>1. w \in Workspaces /\ w # NoRow
        BY NoRowAssumption DEF SweepsOK
      <3>2. QED
        BY <1>2, <2>2, <3>1 DEF NextWorkspace, SweepsOK, TablesOK, Locals
    <2>3. QED
      BY <1>2, <2>1, <2>2 DEF NextWorkspace
  <1>3. CASE ReadEndpoints(t)
    <2>1. {e \in Active : Owner[e] = ws[t]} \in SUBSET Endpoints
      BY DEF Active
    <2>2. QED
      BY <1>3, <2>1, NoRowAssumption DEF ReadEndpoints, SweepsOK, TablesOK
  <1>4. CASE ReadCursor(t)
    <2>1. cursor[ws[t]] \in Nat
      BY <1>4, SweepAt DEF ReadCursor, TablesOK
    <2>2. QED
      BY <1>4, <2>1, NoRowAssumption DEF ReadCursor, SweepsOK, TablesOK
  <1>5. CASE ReadEvents(t)
    <2>1. ws[t] \in Workspaces /\ from[t] \in Nat /\ Len(log[ws[t]]) \in Nat
      BY <1>5, SweepAt DEF ReadEvents, TablesOK
    <2>2. PICK last \in Nat : last = Least(Len(log[ws[t]]), from[t] + SweepLimit)
                              /\ last <= Len(log[ws[t]])
      <3>1. from[t] + SweepLimit \in Nat
        BY <2>1, WebhooksAssumption
      <3>2. /\ Least(Len(log[ws[t]]), from[t] + SweepLimit) \in Nat
            /\ Least(Len(log[ws[t]]), from[t] + SweepLimit) <= Len(log[ws[t]])
        BY <2>1, <3>1 DEF Least
      <3>3. QED
        BY <3>2
    <2>3. last # NoRow
      BY <2>2, NoRowAssumption
    <2>4. CASE Forget(t) /\ TickGoto(t, "next")
      BY <1>5, <2>4, ForgetType DEF ReadEvents, SweepsOK, TablesOK
    <2>5. CASE Locals(t, ws[t], seen[t], from[t], last) /\ TickGoto(t, "batch")
      BY <1>5, <2>1, <2>2, <2>3, <2>5 DEF ReadEvents, SweepsOK, TablesOK, Locals
    <2>6. QED
      BY <1>5, <2>2, <2>4, <2>5 DEF ReadEvents
  <1>6. CASE ReadStuck(t)
    BY <1>6 DEF ReadStuck, SweepsOK, TablesOK
  <1>7. CASE SweepThrows(t)
    BY <1>7, ForgetType, WebhooksAssumption DEF SweepThrows, SweepsOK, TablesOK, TickFault
  <1>8. CASE TickDies(t)
    BY <1>8, ForgetType, WebhooksAssumption DEF TickDies, SweepsOK, TablesOK, TickFault
  <1>9. QED
    BY <1>1, <1>2, <1>3, <1>4, <1>5, <1>6, <1>7, <1>8

LEMMA TickReadsMessages ==
  ASSUME WebhooksTypeOK, NEW t \in Ticks,
         \/ StartTick(t) \/ NextWorkspace(t) \/ ReadEndpoints(t) \/ ReadCursor(t)
         \/ ReadEvents(t) \/ ReadStuck(t) \/ SweepThrows(t) \/ TickDies(t)
  PROVE  MessagesOK' /\ UNCHANGED <<log, endpoints, tableVars, hits>>
  <1> USE DEF WebhooksTypeOK
  <1>1. CASE ReadStuck(t)
    <2>1. {[row |-> r, attempt |-> deliveries[r].attempt]
             : r \in {x \in aged : deliveries[x].status = "queued"}}
          \in SUBSET [row : Rows, attempt : Nat \ {0}]
      BY DEF TablesOK, Delivery
    <2>2. QED
      BY <1>1, <2>1 DEF ReadStuck, MessagesOK
  <1>2. CASE TickDies(t)
    BY <1>2 DEF TickDies, MessagesOK
  <1>3. CASE \/ StartTick(t) \/ NextWorkspace(t) \/ ReadEndpoints(t) \/ ReadCursor(t)
             \/ ReadEvents(t) \/ SweepThrows(t)
    BY <1>3 DEF StartTick, NextWorkspace, ReadEndpoints, ReadCursor, ReadEvents,
       SweepThrows, MessagesOK
  <1>4. QED
    BY <1>1, <1>2, <1>3

LEMMA CommitSweepType ==
  ASSUME WebhooksTypeOK, NEW t \in Ticks, CommitSweep(t)
  PROVE  /\ WebhooksTypeOK'
         /\ \A r \in Rows : deliveries[r] # NoRow => deliveries'[r] = deliveries[r]
         /\ \A w \in Workspaces : cursor'[w] >= cursor[w]
  <1>1. tickAt[t] = "batch" /\ Fanout(t) \in SUBSET Rows
    BY FanoutRows DEF CommitSweep
  <1>2. /\ deliveries' \in [Rows -> Delivery \cup {NoRow}]
        /\ \A r \in Rows : deliveries[r] # NoRow => deliveries'[r] = deliveries[r]
    <2>1. CASE InsertDeliveries(Fanout(t))
      BY <1>1, <2>1, InsertType DEF WebhooksTypeOK
    <2>2. CASE deliveries' = deliveries
      BY <2>2 DEF WebhooksTypeOK, TablesOK
    <2>3. QED
      BY <2>1, <2>2 DEF CommitSweep, SweepBatch
  <1>3. /\ cursor' \in [Workspaces -> Nat]
        /\ \A w \in Workspaces : cursor'[w] >= cursor[w] /\ cursor'[w] <= Len(log[w])
    <2>1. CASE AdvanceCursor(t)
      BY <1>1, <2>1, CursorType
    <2>2. CASE cursor' = cursor
      BY <2>2 DEF WebhooksTypeOK, TablesOK
    <2>3. QED
      BY <2>1, <2>2 DEF CommitSweep, SweepBatch
  <1>4. TablesOK'
    <2>1. tickFaults' \in 0 .. MaxTickFaults
      BY WebhooksAssumption DEF CommitSweep, SweepBatch, TickFault, WebhooksTypeOK, TablesOK
    <2>2. UNCHANGED <<log, endpoints, aged, hits>>
      BY DEF CommitSweep
    <2>3. aged' \subseteq {r \in Rows : deliveries'[r] # NoRow}
      BY <1>2, <2>2 DEF WebhooksTypeOK, TablesOK
    <2>4. QED
      BY <1>2, <1>3, <2>1, <2>2, <2>3 DEF WebhooksTypeOK, TablesOK
  <1>5. SweepsOK'
    <2>1. Forget(t) /\ \E l \in {"send", "next"} : TickGoto(t, l)
      BY DEF CommitSweep, SweepBatch
    <2>2. UNCHANGED <<todo, log>>
      BY DEF CommitSweep
    <2>3. QED
      BY <2>1, <2>2, ForgetType DEF WebhooksTypeOK, SweepsOK, TickLabels, TickGoto
  <1>6. MessagesOK'
    <2>1. CASE outbox' = outbox
      BY <2>1 DEF CommitSweep, WebhooksTypeOK, MessagesOK
    <2>2. CASE outbox' = [outbox EXCEPT ![t] =
            {[row |-> r, known |-> deliveries[r] = NoRow, by |-> t, round |-> 1, tries |-> 1]
               : r \in Fanout(t)}]
      <3>1. {[row |-> r, known |-> deliveries[r] = NoRow, by |-> t, round |-> 1, tries |-> 1]
               : r \in Fanout(t)} \in SUBSET Message
        <4>1. ASSUME NEW r \in Fanout(t)
              PROVE  [row |-> r, known |-> deliveries[r] = NoRow, by |-> t, round |-> 1,
                      tries |-> 1] \in Message
          <5>1. r \in Rows /\ (deliveries[r] = NoRow) \in BOOLEAN
            BY <1>1
          <5>2. PICK b \in BOOLEAN : b = (deliveries[r] = NoRow)
            BY <5>1
          <5>3. QED
            BY <5>1, <5>2 DEF Message
        <4>2. QED
          BY <4>1
      <3>2. QED
        BY <2>2, <3>1 DEF CommitSweep, WebhooksTypeOK, MessagesOK
    <2>3. QED
      BY <2>1, <2>2 DEF CommitSweep, SweepBatch
  <1>7. QED
    BY <1>2, <1>3, <1>4, <1>5, <1>6 DEF WebhooksTypeOK

(* The steps that send: labels move, the tables do not.                    *)
LEMMA SendType ==
  ASSUME WebhooksTypeOK, NEW t \in Ticks, SendNext(t) \/ Resend(t)
  PROVE  /\ WebhooksTypeOK'
         /\ UNCHANGED <<log, endpoints, tableVars, hits, ws, seen, from, upto, todo>>
  <1>1. UNCHANGED <<log, endpoints, tableVars, hits, ws, seen, from, upto, todo, holding>>
    BY DEF SendNext, Resend
  <1>2. tickFaults' \in 0 .. MaxTickFaults
    BY WebhooksAssumption DEF SendNext, Resend, TickFault, WebhooksTypeOK, TablesOK
  <1>3. tickAt[t] \in {"send", "resend"} /\ tickAt'[t] \in TickLabels \ {"sweep", "batch"}
        /\ tickAt' = [tickAt EXCEPT ![t] = tickAt'[t]]
    BY DEF SendNext, Resend, TickGoto, TickLabels, WebhooksTypeOK, SweepsOK
  <1>4. SweepsOK'
    BY <1>1, <1>3 DEF WebhooksTypeOK, SweepsOK
  <1>5. MessagesOK'
    BY <1>1 DEF SendNext, Resend, WebhooksTypeOK, MessagesOK
  <1>6. QED
    BY <1>1, <1>2, <1>4, <1>5 DEF WebhooksTypeOK, TablesOK, tableVars

LEMMA ReconcileType ==
  ASSUME WebhooksTypeOK, NEW t \in Ticks, ReconcileRow(t)
  PROVE  /\ WebhooksTypeOK'
         /\ UNCHANGED <<log, endpoints, cursor, hits, ws, seen, from, upto, todo>>
         /\ \A r \in Rows : deliveries[r] # NoRow => deliveries'[r] # NoRow
  <1>1. UNCHANGED <<log, endpoints, cursor, aged, hits, ws, seen, from, upto, todo,
                    holding, queue, tickFaults>>
    BY DEF ReconcileRow
  <1>2. ASSUME NEW x \in stuck[t]
        PROVE  /\ x.row \in Rows /\ x.attempt \in Nat \ {0}
               /\ [row |-> x.row, known |-> TRUE, by |-> t, round |-> x.attempt + 1,
                   tries |-> 1] \in Message
    BY DEF WebhooksTypeOK, MessagesOK, Message
  <1>3. /\ deliveries' \in [Rows -> Delivery \cup {NoRow}]
        /\ \A r \in Rows : deliveries[r] # NoRow => deliveries'[r] # NoRow
    <2>1. CASE deliveries' = deliveries
      BY <2>1 DEF WebhooksTypeOK, TablesOK
    <2>2. ASSUME NEW x \in stuck[t], \/ UpdateQueued(x.row, "dead", x.attempt)
                                     \/ UpdateQueued(x.row, "queued", x.attempt + 1)
          PROVE  /\ deliveries' \in [Rows -> Delivery \cup {NoRow}]
                 /\ \A r \in Rows : deliveries[r] # NoRow => deliveries'[r] # NoRow
      <3>0. x.attempt \in Nat \ {0} => x.attempt + 1 \in Nat \ {0}
        OBVIOUS
      <3>1. /\ x.row \in Rows /\ x.attempt \in Nat \ {0} /\ x.attempt + 1 \in Nat \ {0}
            /\ "dead" \in Statuses /\ "queued" \in Statuses
        BY <1>2, <3>0 DEF Statuses
      <3>2. QED
        BY <2>2, <3>1, UpdateType DEF WebhooksTypeOK
    <2>3. QED
      BY <2>1, <2>2 DEF ReconcileRow
  <1>4. TablesOK'
    BY <1>1, <1>3 DEF WebhooksTypeOK, TablesOK
  <1>5. tickAt[t] = "reconcile" /\ tickAt'[t] \in TickLabels \ {"sweep", "batch"}
        /\ tickAt' = [tickAt EXCEPT ![t] = tickAt'[t]]
    BY DEF ReconcileRow, TickGoto, TickLabels, WebhooksTypeOK, SweepsOK
  <1>6. SweepsOK'
    BY <1>1, <1>5 DEF WebhooksTypeOK, SweepsOK
  <1>7. MessagesOK'
    BY <1>1, <1>2 DEF ReconcileRow, WebhooksTypeOK, MessagesOK
  <1>8. QED
    BY <1>1, <1>3, <1>4, <1>6, <1>7 DEF WebhooksTypeOK

LEMMA ConsumerType ==
  ASSUME WebhooksTypeOK, NEW c \in Consumers, ConsumerStep(c) \/ ConsumerDies(c)
  PROVE  /\ WebhooksTypeOK'
         /\ UNCHANGED <<log, endpoints, cursor, aged, tickVars>>
         /\ \A r \in Rows : deliveries[r] # NoRow => deliveries'[r] # NoRow
  <1>1. UNCHANGED <<log, endpoints, cursor, aged, tickVars, tickFaults>>
    BY DEF ConsumerStep, ConsumerDies, Take, Post, RecordOutcome, tableVars
  <1>2. SweepsOK'
    BY <1>1 DEF WebhooksTypeOK, SweepsOK, tickVars
  <1>3. CASE Take(c)
    <2>1. PICK m \in queue, phase \in Phases : queue' = queue \ {m} /\ Hold(c, m, phase)
      BY <1>3 DEF Take, Phases
    <2>2. [msg |-> m, phase |-> phase] \in [msg : Message, phase : Phases]
      BY <2>1 DEF WebhooksTypeOK, MessagesOK
    <2>3. MessagesOK'
      BY <1>1, <2>1, <2>2 DEF WebhooksTypeOK, MessagesOK, Hold, tickVars
    <2>4. QED
      BY <1>1, <1>2, <1>3, <2>3 DEF Take, WebhooksTypeOK, TablesOK, tableVars
  <1>4. CASE Post(c)
    <2>1. holding[c].msg \in Message /\ holding[c].msg.row \in Rows
      BY <1>4, HeldType DEF Post, WebhooksTypeOK
    <2>2. PICK phase \in Phases : Hold(c, holding[c].msg, phase)
      BY <1>4 DEF Post, Phases
    <2>3. MessagesOK'
      BY <1>1, <1>4, <2>1, <2>2 DEF Post, WebhooksTypeOK, MessagesOK, Hold, tickVars
    <2>4. hits' \in [Rows -> 0 .. 2]
      <3>1. hits' = hits \/ hits' = [hits EXCEPT ![holding[c].msg.row] = Least(2, @ + 1)]
        BY <1>4 DEF Post
      <3>2. hits \in [Rows -> 0 .. 2]
        BY DEF WebhooksTypeOK, TablesOK
      <3>3. Least(2, hits[holding[c].msg.row] + 1) \in 0 .. 2
        BY <2>1, <3>2 DEF Least
      <3>4. QED
        BY <2>1, <3>1, <3>2, <3>3
    <2>5. QED
      BY <1>1, <1>2, <1>4, <2>3, <2>4 DEF Post, WebhooksTypeOK, TablesOK, tableVars
  <1>5. CASE RecordOutcome(c)
    <2>1. /\ holding[c].msg \in Message /\ Outcome(holding[c]) \in Statuses
      BY <1>5, HeldType DEF RecordOutcome, WebhooksTypeOK
    <2>2. /\ deliveries' \in [Rows -> Delivery \cup {NoRow}]
          /\ \A r \in Rows : deliveries[r] # NoRow => deliveries'[r] # NoRow
      <3>1. CASE deliveries' = deliveries
        BY <3>1 DEF WebhooksTypeOK, TablesOK
      <3>2. CASE Settle(holding[c].msg, Outcome(holding[c]))
        BY <2>1, <3>2, SettleType
      <3>3. QED
        BY <1>5, <3>1, <3>2 DEF RecordOutcome
    <2>3. queue' \subseteq Message
      <3>1. CASE queue' = queue
        BY <3>1 DEF WebhooksTypeOK, MessagesOK
      <3>2. CASE Requeue(holding[c].msg)
        BY <2>1, <3>2, RequeueType DEF WebhooksTypeOK
      <3>3. QED
        BY <1>5, <3>1, <3>2 DEF RecordOutcome
    <2>4. MessagesOK'
      BY <1>1, <1>5, <2>3 DEF RecordOutcome, WebhooksTypeOK, MessagesOK, tickVars
    <2>5. hits' = hits
      BY <1>5 DEF RecordOutcome
    <2>6. QED
      BY <1>1, <1>2, <2>2, <2>4, <2>5 DEF WebhooksTypeOK, TablesOK
  <1>6. CASE ConsumerDies(c)
    <2>1. queue' \subseteq Message
      BY <1>6, HeldType, RequeueType DEF ConsumerDies, WebhooksTypeOK
    <2>2. MessagesOK'
      BY <1>1, <1>6, <2>1 DEF ConsumerDies, WebhooksTypeOK, MessagesOK, tickVars
    <2>3. QED
      BY <1>1, <1>2, <1>6, <2>2 DEF ConsumerDies, WebhooksTypeOK, TablesOK, tableVars
  <1>7. QED
    BY <1>3, <1>4, <1>5, <1>6 DEF ConsumerStep

LEMMA AppendKeepsLog ==
  ASSUME WebhooksTypeOK, NEW w \in Workspaces, AppendEvent(w)
  PROVE  /\ log' \in [Workspaces -> Seq(EventKinds)]
         /\ \A v \in Workspaces :
              /\ Len(log'[v]) <= MaxEvents /\ Len(log[v]) <= Len(log'[v])
              /\ Len(log[v]) \in Nat /\ Len(log'[v]) \in Nat
              /\ \A n \in 1 .. Len(log[v]) : log'[v][n] = log[v][n]
  <1>1. PICK k \in EventKinds : log' = [log EXCEPT ![w] = Append(@, k)]
    BY DEF AppendEvent
  <1>2. log \in [Workspaces -> Seq(EventKinds)] /\ \A v \in Workspaces : Len(log[v]) <= MaxEvents
    BY DEF WebhooksTypeOK, TablesOK
  <1>3. /\ log'[w] = Append(log[w], k) /\ log[w] \in Seq(EventKinds)
        /\ \A v \in Workspaces : v # w => log'[v] = log[v]
        /\ log' \in [Workspaces -> Seq(EventKinds)]
    BY <1>1, <1>2
  <1>4. /\ Len(log'[w]) = Len(log[w]) + 1 /\ Len(log[w]) \in Nat
        /\ \A n \in 1 .. Len(log[w]) : log'[w][n] = log[w][n]
    BY <1>3
  <1>5. Len(log[w]) < MaxEvents /\ MaxEvents \in Nat
    BY WebhooksAssumption DEF AppendEvent
  <1>6. ASSUME NEW v \in Workspaces
        PROVE  /\ Len(log'[v]) <= MaxEvents /\ Len(log[v]) <= Len(log'[v])
               /\ Len(log[v]) \in Nat /\ Len(log'[v]) \in Nat
               /\ \A n \in 1 .. Len(log[v]) : log'[v][n] = log[v][n]
    <2>1. CASE v = w
      BY <1>4, <1>5, <2>1
    <2>2. CASE v # w
      <3>1. log'[v] = log[v] /\ Len(log[v]) \in Nat /\ Len(log[v]) <= MaxEvents
        BY <1>2, <1>3, <2>2
      <3>2. QED
        BY <3>1
    <2>3. QED
      BY <2>1, <2>2
  <1>7. QED
    BY <1>3, <1>6

LEMMA OutsideType ==
  ASSUME WebhooksTypeOK,
         \/ \E w \in Workspaces : AppendEvent(w)
         \/ \E e \in Endpoints : CreateEndpoint(e) \/ DisableEndpoint(e)
         \/ \E r \in Rows : RowAges(r)
  PROVE  WebhooksTypeOK' /\ UNCHANGED <<deliveries, cursor, tickVars, hits>>
  <1> USE DEF WebhooksTypeOK
  <1>1. ASSUME NEW w \in Workspaces, AppendEvent(w)
        PROVE  WebhooksTypeOK' /\ UNCHANGED <<deliveries, cursor, tickVars, hits>>
    <2>1. UNCHANGED <<endpoints, tableVars, tickVars, queue, holding, hits, tickFaults>>
      BY <1>1 DEF AppendEvent
    <2>2. TablesOK'
      <3>1. \A v \in Workspaces : cursor[v] <= Len(log'[v])
        BY <1>1, AppendKeepsLog DEF TablesOK
      <3>2. QED
        BY <1>1, <2>1, <3>1, AppendKeepsLog DEF TablesOK, tableVars
    <2>3. SweepsOK'
      <3>1. \A t \in Ticks : tickAt[t] = "batch" => upto[t] <= Len(log'[ws[t]])
        BY <1>1, AppendKeepsLog, SweepAt
      <3>2. QED
        BY <2>1, <3>1 DEF SweepsOK, tickVars
    <2>4. QED
      BY <2>1, <2>2, <2>3 DEF MessagesOK, tableVars, tickVars
  <1>2. ASSUME NEW e \in Endpoints, CreateEndpoint(e) \/ DisableEndpoint(e)
        PROVE  WebhooksTypeOK' /\ UNCHANGED <<deliveries, cursor, tickVars, hits>>
    BY <1>2 DEF CreateEndpoint, DisableEndpoint, TablesOK, SweepsOK, MessagesOK,
       tableVars, tickVars
  <1>3. ASSUME NEW r \in Rows, RowAges(r)
        PROVE  WebhooksTypeOK' /\ UNCHANGED <<deliveries, cursor, tickVars, hits>>
    BY <1>3 DEF RowAges, TablesOK, SweepsOK, MessagesOK, tableVars, tickVars
  <1>4. QED
    BY <1>1, <1>2, <1>3

-------------------------------------------------------------------------------
(* What was swept                                                          *)

(* Rows only appear, cursors and labels of sweeps are as they were: then   *)
(* nothing swept is lost.                                                  *)
LEMMA StillSwept ==
  ASSUME SweepInv, UNCHANGED <<log, endpoints, cursor, ws, seen, from, todo>>,
         \A r \in Rows : deliveries[r] # NoRow => deliveries'[r] # NoRow,
         \A t \in Ticks : tickAt'[t] \in {"sweep", "batch"} => tickAt[t] \in {"sweep", "batch"}
  PROVE  NothingSkipped' /\ SweptOK'
  <1>1. NothingSkipped'
    <2>1. SUFFICES ASSUME NEW e \in Steady, endpoints[e] = "active",
                          NEW n \in 1 .. cursor[Owner[e]], Matches(e, n)
                   PROVE  deliveries'[<<e, n>>] # NoRow
      BY DEF NothingSkipped, Steady, Matches
    <2>2. deliveries[<<e, n>>] # NoRow /\ e \in Endpoints
      BY <2>1, WebhooksAssumption DEF SweepInv, NothingSkipped, Steady
    <2>3. n \in 1 .. MaxEvents
      <3>1. /\ Owner[e] \in Workspaces /\ cursor[Owner[e]] \in Nat /\ MaxEvents \in Nat
            /\ cursor[Owner[e]] <= Len(log[Owner[e]]) /\ Len(log[Owner[e]]) <= MaxEvents
            /\ Len(log[Owner[e]]) \in Nat
        BY <2>2, WebhooksAssumption DEF SweepInv, WebhooksTypeOK, TablesOK
      <3>2. QED
        BY <3>1
    <2>4. QED
      BY <2>2, <2>3 DEF Rows
  <1>2. SweptOK'
    BY DEF SweepInv, SweptOK, Steady
  <1>3. QED
    BY <1>1, <1>2

LEMMA SteadyType ==
  ASSUME SweepInv, NEW e \in Steady
  PROVE  /\ e \in Endpoints /\ Owner[e] \in Workspaces
         /\ cursor[Owner[e]] \in Nat /\ cursor[Owner[e]] <= MaxEvents
         /\ cursor[Owner[e]] <= Len(log[Owner[e]]) /\ Len(log[Owner[e]]) \in Nat
  <1>1. e \in Endpoints /\ Owner[e] \in Workspaces
    BY WebhooksAssumption DEF Steady
  <1>2. /\ cursor[Owner[e]] \in Nat /\ Len(log[Owner[e]]) \in Nat /\ MaxEvents \in Nat
        /\ cursor[Owner[e]] <= Len(log[Owner[e]]) /\ Len(log[Owner[e]]) <= MaxEvents
    BY <1>1, WebhooksAssumption DEF SweepInv, WebhooksTypeOK, TablesOK
  <1>3. QED
    BY <1>1, <1>2

(* A workspace whose only endpoint is to come is not swept.                *)
LEMMA AbsentIsInactive ==
  ASSUME SweepInv, NEW e \in Steady, endpoints[e] = "absent"
  PROVE  Owner[e] \notin {Owner[f] : f \in Active}
  BY DEF SweepInv, SweptOK, Steady, Active

LEMMA TickReadsSwept ==
  ASSUME SweepInv, NEW t \in Ticks,
         \/ StartTick(t) \/ NextWorkspace(t) \/ ReadEndpoints(t) \/ ReadCursor(t)
         \/ ReadEvents(t) \/ ReadStuck(t) \/ SweepThrows(t) \/ TickDies(t)
  PROVE  SweepInv'
  <1>1. WebhooksTypeOK'
    <2>1. SweepsOK' /\ MessagesOK' /\ tickFaults' \in 0 .. MaxTickFaults
          /\ UNCHANGED <<log, endpoints, tableVars, hits>>
      BY TickReadsType, TickReadsMessages DEF SweepInv
    <2>2. QED
      BY <2>1 DEF SweepInv, WebhooksTypeOK, TablesOK, tableVars
  <1>2. UNCHANGED <<log, endpoints, deliveries, cursor>>
    BY TickReadsMessages DEF SweepInv, tableVars
  <1>3. NothingSkipped'
    BY <1>2 DEF SweepInv, NothingSkipped, Steady, Matches
  <1>4. SweptOK'
    <2> DEFINE Sweeping(u) == tickAt[u] \in {"sweep", "batch"}
    <2>0. SweepsOK /\ SweptOK
      BY DEF SweepInv, WebhooksTypeOK
    <2>1. CASE StartTick(t)
      <3>1. \A e \in Steady : endpoints[e] = "absent" => Owner[e] \notin todo'[t]
        BY <2>0, <2>1, AbsentIsInactive DEF StartTick, SweepsOK
      <3>2. QED
        BY <1>2, <2>0, <2>1, <3>1 DEF StartTick, TickGoto, SweepsOK, SweptOK, Steady
    <2>2. CASE NextWorkspace(t)
      BY <1>2, <2>0, <2>2, NoRowAssumption
      DEF NextWorkspace, TickGoto, SweepsOK, SweptOK, Steady, Locals, Keep
    <2>3. CASE ReadEndpoints(t)
      <3>1. \A e \in Steady : endpoints[e] = "active" /\ ws[t] = Owner[e] => e \in seen'[t]
        BY <2>0, <2>3, WebhooksAssumption DEF ReadEndpoints, SweepsOK, Steady, Active
      <3>2. QED
        BY <1>2, <2>0, <2>3, <3>1 DEF ReadEndpoints, SweepsOK, SweptOK, Steady
    <2>4. CASE ReadCursor(t)
      <3>1. cursor[ws[t]] \in Nat /\ from'[t] = cursor[ws[t]]
        <4>1. ws[t] \in Workspaces
          BY <2>4, SweepAt DEF ReadCursor, SweepInv
        <4>2. QED
          BY <2>0, <2>4, <4>1 DEF ReadCursor, SweepsOK, SweepInv, WebhooksTypeOK, TablesOK
      <3>2. QED
        BY <1>2, <2>0, <2>4, <3>1 DEF ReadCursor, SweepsOK, SweptOK, Steady
    <2>5. CASE ReadEvents(t)
      <3>1. \/ /\ Forget(t) /\ TickGoto(t, "next")
            \/ /\ UNCHANGED <<ws, seen, from>> /\ TickGoto(t, "batch")
        BY <2>0, <2>5 DEF ReadEvents, Locals, SweepsOK
      <3>2. tickAt[t] = "sweep" /\ todo' = todo
        BY <2>5 DEF ReadEvents
      <3>3. CASE Forget(t) /\ TickGoto(t, "next")
        BY <1>2, <2>0, <3>2, <3>3, ForgetType, NoRowAssumption, SteadyType
        DEF TickGoto, SweepsOK, SweptOK, Steady
      <3>4. CASE UNCHANGED <<ws, seen, from>> /\ TickGoto(t, "batch")
        BY <1>2, <2>0, <3>2, <3>4 DEF TickGoto, SweepsOK, SweptOK, Steady
      <3>5. QED
        BY <3>1, <3>3, <3>4
    <2>6. CASE ReadStuck(t)
      BY <1>2, <2>0, <2>6 DEF ReadStuck, TickGoto, SweepsOK, SweptOK, Steady
    <2>7. CASE SweepThrows(t) \/ TickDies(t)
      <3>1. /\ Forget(t) /\ tickAt'[t] \notin {"sweep", "batch"}
            /\ \A u \in Ticks : u # t => tickAt'[u] = tickAt[u] /\ todo'[u] = todo[u]
            /\ todo'[t] \subseteq todo[t]
        BY <2>0, <2>7 DEF SweepThrows, TickDies, TickGoto, SweepsOK
      <3>2. \A e \in Steady : Owner[e] # NoRow
        BY NoRowAssumption, SteadyType
      <3>3. QED
        BY <1>2, <2>0, <3>1, <3>2, ForgetType DEF SweptOK, Steady
    <2>8. QED
      BY <2>1, <2>2, <2>3, <2>4, <2>5, <2>6, <2>7
  <1>5. QED
    BY <1>1, <1>3, <1>4 DEF SweepInv

LEMMA CommitSweepSwept ==
  ASSUME SweepInv, NEW t \in Ticks, CommitSweep(t) PROVE SweepInv'
  <1>1. /\ WebhooksTypeOK'
        /\ \A r \in Rows : deliveries[r] # NoRow => deliveries'[r] = deliveries[r]
        /\ \A w \in Workspaces : cursor'[w] >= cursor[w]
    BY CommitSweepType DEF SweepInv
  <1>2. /\ tickAt[t] = "batch" /\ UNCHANGED <<log, endpoints, todo>>
        /\ Forget(t) /\ \E l \in {"send", "next"} : TickGoto(t, l)
    BY DEF CommitSweep, SweepBatch
  <1>3. /\ ws[t] \in Workspaces /\ seen[t] \in SUBSET Endpoints
        /\ from[t] \in Nat /\ upto[t] \in Nat /\ from[t] <= cursor[ws[t]]
        /\ seen[t] # NoRow /\ from[t] # NoRow
    <2>1. seen[t] # NoRow /\ from[t] # NoRow
      BY <1>2 DEF SweepInv, WebhooksTypeOK, SweepsOK
    <2>2. QED
      BY <1>2, <2>1, SweepAt DEF SweepInv, SweptOK
  <1>4. \/ InsertDeliveries(Fanout(t)) /\ AdvanceCursor(t)
        \/ UNCHANGED <<deliveries, cursor>>
    BY DEF CommitSweep, SweepBatch
  <1>5. NothingSkipped'
    <2>1. SUFFICES ASSUME NEW e \in Steady, endpoints[e] = "active",
                          NEW n \in 1 .. cursor'[Owner[e]], Matches(e, n)
                   PROVE  deliveries'[<<e, n>>] # NoRow
      BY <1>2 DEF NothingSkipped, Steady, Matches
    <2>2. /\ e \in Endpoints /\ Owner[e] \in Workspaces
          /\ cursor[Owner[e]] \in Nat /\ cursor'[Owner[e]] \in Nat
          /\ cursor'[Owner[e]] <= MaxEvents /\ MaxEvents \in Nat
      <3>1. /\ e \in Endpoints /\ Owner[e] \in Workspaces /\ cursor[Owner[e]] \in Nat
        BY SteadyType
      <3>2. /\ cursor'[Owner[e]] \in Nat /\ cursor'[Owner[e]] <= Len(log'[Owner[e]])
            /\ Len(log'[Owner[e]]) <= MaxEvents /\ MaxEvents \in Nat
            /\ Len(log'[Owner[e]]) \in Nat
        BY <1>1, <3>1, WebhooksAssumption DEF WebhooksTypeOK, TablesOK
      <3>3. QED
        BY <3>1, <3>2
    <2>3. <<e, n>> \in Rows
      BY <2>2 DEF Rows
    <2>4. CASE n <= cursor[Owner[e]]
      <3>1. n \in 1 .. cursor[Owner[e]]
        BY <2>2, <2>4
      <3>2. deliveries[<<e, n>>] # NoRow
        BY <2>1, <3>1 DEF SweepInv, NothingSkipped
      <3>3. QED
        BY <1>1, <2>3, <3>2
    <2>5. CASE n > cursor[Owner[e]]
      <3>1. InsertDeliveries(Fanout(t)) /\ AdvanceCursor(t)
        BY <1>4, <2>1, <2>2, <2>5
      <3>2. /\ cursor'[ws[t]] \in {cursor[ws[t]], upto[t]}
            /\ \A w \in Workspaces : w # ws[t] => cursor'[w] = cursor[w]
        BY <1>2, <3>1, CursorType DEF SweepInv
      <3>3. ws[t] = Owner[e] /\ cursor'[Owner[e]] = upto[t]
        BY <2>1, <2>2, <2>5, <3>2
      <3>4. e \in seen[t]
        BY <1>2, <1>3, <2>1, <3>3 DEF SweepInv, SweptOK
      <3>5. n \in from[t] + 1 .. upto[t]
        BY <1>3, <2>1, <2>2, <2>5, <3>3
      <3>6. <<e, n>> \in Fanout(t)
        BY <2>1, <3>4, <3>5 DEF Fanout
      <3>7. QED
        BY <1>2, <3>1, <3>6, FanoutRows, InsertType DEF SweepInv, WebhooksTypeOK
    <2>6. QED
      BY <2>2, <2>4, <2>5
  <1>6. SweptOK'
    <2>1. /\ \A u \in Ticks : u # t => /\ ws'[u] = ws[u] /\ seen'[u] = seen[u]
                                       /\ from'[u] = from[u] /\ tickAt'[u] = tickAt[u]
          /\ ws'[t] = NoRow /\ tickAt'[t] \notin {"sweep", "batch"}
      BY <1>2, ForgetType DEF SweepInv, WebhooksTypeOK, SweepsOK, TickGoto
    <2>2. \A e \in Steady : Owner[e] # NoRow /\ Owner[e] \in Workspaces
      BY NoRowAssumption, SteadyType
    <2>3. ASSUME NEW u \in Ticks, tickAt'[u] \in {"sweep", "batch"}, from'[u] # NoRow
          PROVE  from'[u] <= cursor'[ws'[u]]
      <3>1. u # t
        BY <2>1, <2>3
      <3>2. ws[u] \in Workspaces /\ from[u] \in Nat /\ from[u] <= cursor[ws[u]]
        BY <2>1, <2>3, <3>1, SweepAt DEF SweepInv, SweptOK
      <3>3. cursor[ws[u]] \in Nat /\ cursor'[ws[u]] \in Nat /\ cursor'[ws[u]] >= cursor[ws[u]]
        BY <1>1, <3>2 DEF SweepInv, WebhooksTypeOK, TablesOK
      <3>4. QED
        BY <2>1, <3>1, <3>2, <3>3
    <2>4. ASSUME NEW e \in Steady, endpoints[e] = "absent"
          PROVE  cursor'[Owner[e]] = 0
      <3>1. cursor[Owner[e]] = 0 /\ ws[t] # Owner[e]
        BY <2>4 DEF SweepInv, SweptOK
      <3>2. CASE UNCHANGED cursor
        BY <3>1, <3>2
      <3>3. CASE AdvanceCursor(t)
        BY <1>2, <2>2, <3>1, <3>3, CursorType DEF SweepInv
      <3>4. QED
        BY <1>4, <3>2, <3>3
    <2>5. QED
      BY <1>2, <2>1, <2>2, <2>3, <2>4 DEF SweepInv, SweptOK, Steady
  <1>7. QED
    BY <1>1, <1>5, <1>6 DEF SweepInv

LEMMA OutsideSwept ==
  ASSUME SweepInv,
         \/ \E w \in Workspaces : AppendEvent(w)
         \/ \E e \in Endpoints : CreateEndpoint(e) \/ DisableEndpoint(e)
         \/ \E r \in Rows : RowAges(r)
  PROVE  SweepInv'
  <1>1. WebhooksTypeOK' /\ UNCHANGED <<deliveries, cursor, tickVars, hits>>
    BY OutsideType DEF SweepInv
  <1>2. ASSUME NEW w \in Workspaces, AppendEvent(w) PROVE NothingSkipped' /\ SweptOK'
    <2>1. endpoints' = endpoints
      BY <1>2 DEF AppendEvent
    <2>2. NothingSkipped'
      <3>1. SUFFICES ASSUME NEW e \in Steady, endpoints[e] = "active",
                            NEW n \in 1 .. cursor[Owner[e]], Matches(e, n)'
                     PROVE  deliveries[<<e, n>>] # NoRow
        BY <1>1, <2>1 DEF NothingSkipped, Steady
      <3>2. n \in 1 .. Len(log[Owner[e]]) /\ Owner[e] \in Workspaces
        BY SteadyType
      <3>3. Matches(e, n)
        BY <1>2, <3>1, <3>2, AppendKeepsLog DEF Matches, SweepInv
      <3>4. QED
        BY <3>1, <3>3 DEF SweepInv, NothingSkipped
    <2>3. QED
      BY <1>1, <2>1, <2>2 DEF SweepInv, SweptOK, Steady, tickVars
  <1>3. ASSUME NEW e \in Endpoints, CreateEndpoint(e) PROVE NothingSkipped' /\ SweptOK'
    <2>1. endpoints[e] = "absent" /\ endpoints' = [endpoints EXCEPT ![e] = "active"]
          /\ log' = log /\ endpoints \in [Endpoints -> {"absent", "active", "disabled"}]
      BY <1>3 DEF CreateEndpoint, SweepInv, WebhooksTypeOK, TablesOK
    <2>2. e \in Steady => /\ cursor[Owner[e]] = 0
                          /\ \A t \in Ticks : ws[t] # Owner[e]
      BY <2>1 DEF SweepInv, SweptOK
    <2>3. NothingSkipped'
      <3>1. SUFFICES ASSUME NEW f \in Steady, endpoints'[f] = "active",
                            NEW n \in 1 .. cursor[Owner[f]], Matches(f, n)
                     PROVE  deliveries[<<f, n>>] # NoRow
        BY <1>1, <2>1 DEF NothingSkipped, Steady, Matches
      <3>2. f # e
        BY <2>2, <3>1
      <3>3. endpoints[f] = "active"
        BY <2>1, <3>1, <3>2, SteadyType
      <3>4. QED
        BY <3>1, <3>3 DEF SweepInv, NothingSkipped
    <2>4. SweptOK'
      <3>1. \A f \in Steady : f # e => endpoints'[f] = endpoints[f]
        BY <2>1, SteadyType
      <3>2. endpoints'[e] = "active"
        BY <2>1
      <3>3. QED
        BY <1>1, <2>2, <3>1, <3>2 DEF SweepInv, SweptOK, Steady, tickVars
    <2>5. QED
      BY <2>3, <2>4
  <1>4. ASSUME NEW e \in Endpoints, DisableEndpoint(e) PROVE NothingSkipped' /\ SweptOK'
    <2>1. log' = log /\ \A f \in Endpoints :
            endpoints'[f] = endpoints[f] \/ endpoints'[f] = "disabled"
      BY <1>4 DEF DisableEndpoint, SweepInv, WebhooksTypeOK, TablesOK
    <2>2. QED
      BY <1>1, <2>1, SteadyType DEF SweepInv, NothingSkipped, SweptOK, Steady, Matches, tickVars
  <1>5. ASSUME NEW r \in Rows, RowAges(r) PROVE NothingSkipped' /\ SweptOK'
    <2>1. UNCHANGED <<log, endpoints>>
      BY <1>5 DEF RowAges
    <2>2. QED
      BY <1>1, <2>1 DEF SweepInv, NothingSkipped, SweptOK, Steady, Matches, tickVars
  <1>6. QED
    BY <1>1, <1>2, <1>3, <1>4, <1>5 DEF SweepInv

LEMMA SweepStep ==
  ASSUME SweepInv, [WebhooksNext]_webhookVars PROVE SweepInv'
  <1>1. CASE UNCHANGED webhookVars
    BY <1>1 DEF SweepInv, WebhooksTypeOK, TablesOK, SweepsOK, MessagesOK, NothingSkipped,
       SweptOK, Steady, Matches, webhookVars, tableVars, tickVars
  <1>2. ASSUME NEW t \in Ticks, TickStep(t) \/ TickDies(t) \/ SweepThrows(t)
        PROVE  SweepInv'
    <2>1. CASE SendNext(t) \/ Resend(t)
      <3>1. /\ WebhooksTypeOK'
            /\ UNCHANGED <<log, endpoints, deliveries, cursor, ws, seen, from, todo>>
        BY <2>1, SendType DEF SweepInv, tableVars
      <3>2. \A u \in Ticks : tickAt'[u] \in {"sweep", "batch"} => tickAt[u] \in {"sweep", "batch"}
        BY <2>1 DEF SendNext, Resend, TickGoto, SweepInv, WebhooksTypeOK, SweepsOK
      <3>3. QED
        BY <3>1, <3>2, StillSwept DEF SweepInv
    <2>2. CASE ReconcileRow(t)
      <3>1. /\ WebhooksTypeOK'
            /\ UNCHANGED <<log, endpoints, cursor, ws, seen, from, todo>>
            /\ \A r \in Rows : deliveries[r] # NoRow => deliveries'[r] # NoRow
        BY <2>2, ReconcileType DEF SweepInv
      <3>2. \A u \in Ticks : tickAt'[u] \in {"sweep", "batch"} => tickAt[u] \in {"sweep", "batch"}
        BY <2>2 DEF ReconcileRow, TickGoto, SweepInv, WebhooksTypeOK, SweepsOK
      <3>3. QED
        BY <3>1, <3>2, StillSwept DEF SweepInv
    <2>3. QED
      BY <1>2, <2>1, <2>2, CommitSweepSwept, TickReadsSwept DEF TickStep
  <1>3. ASSUME NEW c \in Consumers, ConsumerStep(c) \/ ConsumerDies(c)
        PROVE  SweepInv'
    <2>1. /\ WebhooksTypeOK' /\ UNCHANGED <<log, endpoints, cursor, aged, tickVars>>
          /\ \A r \in Rows : deliveries[r] # NoRow => deliveries'[r] # NoRow
      BY <1>3, ConsumerType DEF SweepInv
    <2>2. QED
      BY <2>1, StillSwept DEF SweepInv, tickVars
  <1>4. QED
    BY <1>1, <1>2, <1>3, OutsideSwept DEF WebhooksNext

LEMMA SweepStart == ASSUME WebhooksInit PROVE SweepInv
  <1>1. TablesOK
    BY WebhooksAssumption DEF WebhooksInit, TablesOK
  <1>2. SweepsOK
    BY NoRowAssumption DEF WebhooksInit, SweepsOK, TickLabels
  <1>3. MessagesOK
    BY DEF WebhooksInit, MessagesOK
  <1>4. \A e \in Steady : e \in Endpoints /\ Owner[e] \in Workspaces /\ Owner[e] # NoRow
    BY WebhooksAssumption, NoRowAssumption DEF Steady
  <1>5. NothingSkipped
    BY <1>4 DEF WebhooksInit, NothingSkipped
  <1>6. SweptOK
    BY <1>4 DEF WebhooksInit, SweptOK
  <1>7. QED
    BY <1>1, <1>2, <1>3, <1>5, <1>6 DEF SweepInv, WebhooksTypeOK

-------------------------------------------------------------------------------
(* However ticks overlap, die and fail, a cursor never passes an event     *)
(* without a row for every endpoint that was there all along.              *)
THEOREM NothingIsSkipped == WebhooksSpec => []SweepsAreSound
  <1>1. WebhooksInit => SweepInv
    BY SweepStart
  <1>2. SweepInv /\ [WebhooksNext]_webhookVars => SweepInv'
    BY SweepStep
  <1>3. SweepInv => SweepsAreSound
    BY DEF SweepInv, SweepsAreSound
  <1>4. QED
    BY <1>1, <1>2, <1>3, PTL DEF WebhooksSpec

-------------------------------------------------------------------------------
(* Settled rows                                                            *)

(* A write to one row that is not there or not settled.                    *)
LEMMA OneRowSettles ==
  ASSUME WebhooksTypeOK, cursor' = cursor, NEW r \in Rows,
         \A x \in Rows : deliveries[x] # NoRow => deliveries'[x] # NoRow,
         \A x \in Rows : x # r => deliveries'[x] = deliveries[x],
         \/ deliveries'[r] = deliveries[r]
         \/ /\ deliveries[r].status \notin Terminal
            /\ deliveries[r].status # "queued" => deliveries'[r].status # "queued"
  PROVE  SettledStep
  <1>1. \A w \in Workspaces : cursor[w] \in Nat
    BY DEF WebhooksTypeOK, TablesOK
  <1>2. QED
    BY <1>1 DEF SettledStep

LEMMA RowsStep ==
  ASSUME WebhooksTypeOK, [WebhooksNext]_webhookVars PROVE SettledStep
  <1>1. CASE UNCHANGED <<deliveries, cursor>>
    <2>1. \A w \in Workspaces : cursor[w] \in Nat
      BY DEF WebhooksTypeOK, TablesOK
    <2>2. QED
      BY <1>1, <2>1 DEF SettledStep
  <1>2. ASSUME NEW t \in Ticks, CommitSweep(t) PROVE SettledStep
    <2>1. /\ \A r \in Rows : deliveries[r] # NoRow => deliveries'[r] = deliveries[r]
          /\ \A w \in Workspaces : cursor'[w] >= cursor[w]
      BY <1>2, CommitSweepType
    <2>2. QED
      BY <2>1 DEF SettledStep
  <1>3. ASSUME NEW t \in Ticks, ReconcileRow(t) PROVE SettledStep
    <2>1. CASE deliveries' = deliveries
      BY <1>1, <1>3, <2>1 DEF ReconcileRow
    <2>2. ASSUME NEW x \in stuck[t], \/ UpdateQueued(x.row, "dead", x.attempt)
                                     \/ UpdateQueued(x.row, "queued", x.attempt + 1)
          PROVE  SettledStep
      <3>1. x.row \in Rows
        BY DEF WebhooksTypeOK, MessagesOK
      <3>2. /\ cursor' = cursor
            /\ \A y \in Rows : deliveries[y] # NoRow => deliveries'[y] # NoRow
        BY <1>3, ReconcileType
      <3>3. /\ \A y \in Rows : y # x.row => deliveries'[y] = deliveries[y]
            /\ deliveries'[x.row] = deliveries[x.row] \/ deliveries[x.row].status = "queued"
        BY <2>2, <3>1 DEF UpdateQueued, WebhooksTypeOK, TablesOK
      <3>4. QED
        BY <3>1, <3>2, <3>3, OneRowSettles DEF Terminal
    <2>3. QED
      BY <1>3, <2>1, <2>2 DEF ReconcileRow
  <1>4. ASSUME NEW c \in Consumers, RecordOutcome(c) PROVE SettledStep
    <2>1. cursor' = cursor
      BY <1>4 DEF RecordOutcome
    <2>2. CASE deliveries' = deliveries
      BY <1>1, <2>1, <2>2
    <2>3. CASE Settle(holding[c].msg, Outcome(holding[c]))
      <3>1. PICK m, status : /\ m = holding[c].msg /\ status = Outcome(holding[c])
                             /\ m.row \in Rows /\ status # "queued" /\ Settle(m, status)
        BY <1>4, <2>3, HeldType DEF RecordOutcome, WebhooksTypeOK
      <3>2. \A y \in Rows : deliveries[y] # NoRow => deliveries'[y] # NoRow
        BY <1>4, ConsumerType DEF ConsumerStep
      <3>3. /\ \A y \in Rows : y # m.row => deliveries'[y] = deliveries[y]
            /\ \/ deliveries'[m.row] = deliveries[m.row]
               \/ /\ deliveries[m.row].status \notin Terminal
                  /\ deliveries'[m.row].status = status
        BY <3>1 DEF Settle, WebhooksTypeOK, TablesOK
      <3>4. QED
        BY <2>1, <3>1, <3>2, <3>3, OneRowSettles
    <2>4. QED
      BY <1>4, <2>2, <2>3 DEF RecordOutcome
  <1>5. CASE UNCHANGED webhookVars
    BY <1>1, <1>5 DEF webhookVars, tableVars
  <1>6. ASSUME NEW t \in Ticks, TickStep(t) \/ TickDies(t) \/ SweepThrows(t)
        PROVE  SettledStep
    BY <1>1, <1>2, <1>3, <1>6, SendType, TickReadsMessages DEF TickStep, tableVars
  <1>7. ASSUME NEW c \in Consumers, ConsumerStep(c) \/ ConsumerDies(c) PROVE SettledStep
    BY <1>1, <1>4, <1>7 DEF ConsumerStep, Take, Post, ConsumerDies, tableVars
  <1>8. QED
    BY <1>1, <1>5, <1>6, <1>7, OutsideType DEF WebhooksNext

(* Rows that were delivered or given up stay so, settled rows are never    *)
(* queued again and no cursor moves backward, whoever writes late.         *)
THEOREM SettledStays == WebhooksSpec => SettledForGood
  <1>1. WebhooksInit => SweepInv
    BY SweepStart
  <1>2. SweepInv /\ [WebhooksNext]_webhookVars => SweepInv'
    BY SweepStep
  <1>3. SweepInv /\ [WebhooksNext]_webhookVars => [SettledStep]_webhookVars
    BY RowsStep DEF SweepInv
  <1>4. QED
    BY <1>1, <1>2, <1>3, PTL DEF WebhooksSpec, SettledForGood

-------------------------------------------------------------------------------
(* Deliveries                                                              *)

(* A consumer that heard a 2xx holds a message that was accepted.          *)
HeardOK ==
  \A c \in Consumers : holding[c] # NoRow /\ holding[c].phase = "ok" =>
    hits[holding[c].msg.row] > 0
DeliveryInv == WebhooksTypeOK /\ DeliveredWasAccepted /\ HeardOK

(* Acceptances are never forgotten.                                        *)
LEMMA HitsGrow ==
  ASSUME WebhooksTypeOK, NEW c \in Consumers, Post(c)
  PROVE  /\ \A r \in Rows : hits[r] > 0 => hits'[r] > 0
         /\ holding'[c].phase = "ok" => hits'[holding'[c].msg.row] > 0
         /\ \A d \in Consumers : d # c => holding'[d] = holding[d]
  <1>1. PICK r \in Rows : r = holding[c].msg.row
    BY HeldType DEF Post, WebhooksTypeOK
  <1>2. hits \in [Rows -> 0 .. 2] /\ hits[r] \in 0 .. 2
    BY DEF WebhooksTypeOK, TablesOK
  <1>3. Least(2, hits[r] + 1) > 0
    BY <1>2 DEF Least
  <1>4. \/ /\ hits' = [hits EXCEPT ![r] = Least(2, @ + 1)]
           /\ \E p \in {"ok", "error"} : Hold(c, holding[c].msg, p)
        \/ hits' = hits /\ Hold(c, holding[c].msg, "error")
    BY <1>1 DEF Post
  <1>5. \A x \in Rows : hits[x] > 0 => hits'[x] > 0
    BY <1>2, <1>3, <1>4
  <1>6. hits' = hits \/ hits'[r] > 0
    BY <1>2, <1>3, <1>4
  <1>7. holding'[c].phase = "ok" => hits'[holding'[c].msg.row] > 0
    BY <1>1, <1>2, <1>3, <1>4 DEF Hold, WebhooksTypeOK, MessagesOK
  <1>8. \A d \in Consumers : d # c => holding'[d] = holding[d]
    BY <1>4 DEF Hold, WebhooksTypeOK, MessagesOK
  <1>9. QED
    BY <1>5, <1>7, <1>8

(* No step but a settlement calls a row delivered.                         *)
LEMMA OnlySettlementDelivers ==
  ASSUME WebhooksTypeOK, NEW t \in Ticks, TickStep(t) \/ TickDies(t) \/ SweepThrows(t),
         NEW r \in Rows, deliveries'[r].status = "delivered"
  PROVE  deliveries'[r] = deliveries[r]
  <1>1. CASE CommitSweep(t)
    <2>1. CASE InsertDeliveries(Fanout(t))
      BY <2>1 DEF InsertDeliveries
    <2>2. QED
      BY <1>1, <2>1 DEF CommitSweep, SweepBatch
  <1>2. CASE ReconcileRow(t)
    <2>1. ASSUME NEW x \in stuck[t], NEW status \in {"dead", "queued"}, NEW n,
                 UpdateQueued(x.row, status, n)
          PROVE  deliveries'[r] = deliveries[r]
      BY <2>1 DEF UpdateQueued, WebhooksTypeOK, TablesOK
    <2>2. QED
      BY <1>2, <2>1 DEF ReconcileRow
  <1>3. QED
    BY <1>1, <1>2, SendType, TickReadsMessages DEF TickStep, tableVars

LEMMA DeliveryStep ==
  ASSUME DeliveryInv, WebhooksTypeOK', [WebhooksNext]_webhookVars PROVE DeliveryInv'
  <1> USE DEF DeliveryInv
  <1>1. CASE UNCHANGED <<deliveries, holding, hits>>
    BY <1>1 DEF DeliveredWasAccepted, HeardOK
  <1>2. ASSUME NEW t \in Ticks, TickStep(t) \/ TickDies(t) \/ SweepThrows(t)
        PROVE  DeliveryInv'
    <2>1. hits' = hits /\ holding' = holding
      BY <1>2 DEF TickStep, TickDies, SweepThrows, StartTick, NextWorkspace, ReadEndpoints,
         ReadCursor, ReadEvents, CommitSweep, SendNext, ReadStuck, ReconcileRow, Resend
    <2>2. \A r \in Rows : deliveries'[r].status = "delivered" => deliveries'[r] = deliveries[r]
      BY <1>2, OnlySettlementDelivers
    <2>3. QED
      BY <2>1, <2>2 DEF DeliveredWasAccepted, HeardOK
  <1>3. ASSUME NEW c \in Consumers, Take(c) PROVE DeliveryInv'
    <2>1. PICK m \in queue, phase \in Phases \ {"ok"} : Hold(c, m, phase)
      <3>1. PICK m \in queue :
              Hold(c, m, IF endpoints[m.row[1]] = "active" THEN "post" ELSE "disabled")
        BY <1>3 DEF Take
      <3>2. (IF endpoints[m.row[1]] = "active" THEN "post" ELSE "disabled") \in Phases \ {"ok"}
        BY DEF Phases
      <3>3. QED
        BY <3>1, <3>2
    <2>2. holding'[c].phase # "ok" /\ \A d \in Consumers : d # c => holding'[d] = holding[d]
      BY <2>1 DEF Hold, WebhooksTypeOK, MessagesOK
    <2>3. UNCHANGED <<deliveries, hits>>
      BY <1>3 DEF Take, tableVars
    <2>4. QED
      BY <2>2, <2>3 DEF DeliveredWasAccepted, HeardOK
  <1>4. ASSUME NEW c \in Consumers, Post(c) PROVE DeliveryInv'
    <2>1. deliveries' = deliveries
      BY <1>4 DEF Post, tableVars
    <2>2. \A d \in Consumers : holding[d] # NoRow => holding[d].msg.row \in Rows
      BY HeldType DEF WebhooksTypeOK
    <2>3. QED
      BY <1>4, <2>1, <2>2, HitsGrow DEF DeliveredWasAccepted, HeardOK
  <1>5. ASSUME NEW c \in Consumers, RecordOutcome(c) \/ ConsumerDies(c) PROVE DeliveryInv'
    <2>1. hits' = hits /\ holding[c] # NoRow
          /\ \A d \in Consumers : holding'[d] # NoRow => holding'[d] = holding[d]
      BY <1>5 DEF RecordOutcome, ConsumerDies, WebhooksTypeOK, MessagesOK
    <2>2. HeardOK'
      BY <2>1 DEF HeardOK
    <2>3. CASE deliveries' = deliveries
      BY <2>1, <2>2, <2>3 DEF DeliveredWasAccepted
    <2>4. CASE Settle(holding[c].msg, Outcome(holding[c]))
      <3>1. PICK m, status : /\ m = holding[c].msg /\ status = Outcome(holding[c])
                             /\ m.row \in Rows /\ Settle(m, status)
        BY <2>1, <2>4, HeldType DEF WebhooksTypeOK
      <3>2. \A r \in Rows : \/ deliveries'[r] = deliveries[r]
                            \/ r = m.row /\ deliveries'[r].status = status
        BY <3>1 DEF Settle, WebhooksTypeOK, TablesOK
      <3>3. status = "delivered" => hits[m.row] > 0
        BY <2>1, <3>1 DEF Outcome, HeardOK
      <3>4. QED
        BY <2>1, <2>2, <3>2, <3>3 DEF DeliveredWasAccepted
    <2>5. QED
      BY <1>5, <2>3, <2>4 DEF RecordOutcome, ConsumerDies, tableVars
  <1>6. CASE UNCHANGED webhookVars
    BY <1>1, <1>6 DEF webhookVars, tableVars
  <1>7. CASE \/ \E w \in Workspaces : AppendEvent(w)
             \/ \E e \in Endpoints : CreateEndpoint(e) \/ DisableEndpoint(e)
             \/ \E r \in Rows : RowAges(r)
    BY <1>1, <1>7 DEF AppendEvent, CreateEndpoint, DisableEndpoint, RowAges, tableVars
  <1>8. QED
    BY <1>2, <1>3, <1>4, <1>5, <1>6, <1>7 DEF WebhooksNext, ConsumerStep

(* A row says "delivered" only when its endpoint accepted the event.       *)
THEOREM DeliveredIsAccepted == WebhooksSpec => []DeliveredWasAccepted
  <1>1. WebhooksInit => SweepInv /\ DeliveryInv
    BY SweepStart DEF WebhooksInit, SweepInv, DeliveryInv, DeliveredWasAccepted, HeardOK
  <1>2. SweepInv /\ DeliveryInv /\ [WebhooksNext]_webhookVars => SweepInv' /\ DeliveryInv'
    <2>1. SweepInv' => WebhooksTypeOK'
      BY DEF SweepInv
    <2>2. QED
      BY <2>1, SweepStep, DeliveryStep
  <1>3. DeliveryInv => DeliveredWasAccepted
    BY DEF DeliveryInv
  <1>4. QED
    BY <1>1, <1>2, <1>3, PTL DEF WebhooksSpec

-------------------------------------------------------------------------------
(* Account deletion                                                        *)

(* What a state of D1, now or in the backup, says of the world outside.    *)
TenantSays(db) ==
  /\ db.job # None => ledger /\ db.ws # "active"
  /\ db.job # None /\ db.job.workos => ~identity
  /\ db.ws = "gone" => ~identity /\ ledger

Requested == {"put", "delete", "signout"}
Deleting == {"kvRead", "kvDelete", "kvMark", "sweep", "purge"}
(* What a process has established when it gets to a step.                  *)
Knows(p) ==
  /\ pc[p] \in {"session", "fence"} => loc[p].kind \in Requested
  /\ pc[p] \in {"ensure", "job"} => d1.ws # "active"
  /\ pc[p] \in Deleting \cup {"job", "jobFailed"} => ledger
  /\ pc[p] = "markIdentity" => ~identity
  /\ p \in Passes /\ pc[p] # "idle" => d1.ws # "active"
  /\ p \in Passes /\ pc[p] # "idle" /\ loc[p].workos => ~identity
  /\ p \in Passes /\ pc[p] \in Deleting /\ loc[p].status = "pending" => loc[p].workos
  /\ p \in Passes /\ pc[p] = "purge" => loc[p].status = "pending"

DeletionInv ==
  /\ DeletionTypeOK
  /\ TenantSays(d1) /\ TenantSays(backup)
  /\ accepted => ledger
  /\ \A p \in Procs : Knows(p)

-------------------------------------------------------------------------------
(* Operators                                                               *)

LEMMA AgeType ==
  ASSUME ProcessesOK, NEW p \in Procs
  PROVE  /\ loc[p] \in Local /\ pc[p] \in SagaLabels
         /\ NextAttempt(p) \in 0 .. RetryAfter
  <1>1. loc[p] \in Local /\ pc[p] \in SagaLabels
    BY DEF ProcessesOK
  <1>2. RequestLife \in Nat /\ PassLife \in Nat /\ RetryAfter \in Nat
    BY DeletionAssumption
  <1>3. loc[p].age \in Nat
    BY <1>1, <1>2 DEF Local
  <1>4. NextAttempt(p) \in 0 .. RetryAfter
    BY <1>2, <1>3 DEF NextAttempt
  <1>5. QED
    BY <1>1, <1>4

LEMMA NewLocalType ==
  ASSUME NEW kind \in Kinds
  PROVE  /\ NewLocal(kind) \in Local /\ NewLocal(kind).kind = kind
         /\ \A k \in Keys : /\ [NewLocal(kind) EXCEPT !.key = k] \in Local
                            /\ [NewLocal(kind) EXCEPT !.key = k].kind = kind
  <1>1. RequestLife \in Nat /\ PassLife \in Nat
    BY DeletionAssumption
  <1>2. 0 \in 0 .. PassLife + RequestLife
    BY <1>1
  <1>3. NewLocal(kind) \in Local /\ NewLocal(kind).kind = kind
    BY <1>2 DEF NewLocal, Local
  <1>4. QED
    BY <1>3 DEF Local

LEMMA MoveType ==
  ASSUME ProcessesOK, NEW p \in Procs, NEW label \in SagaLabels, Move(p, label)
  PROVE  /\ ProcessesOK' /\ pc'[p] = label /\ loc' = loc
         /\ \A q \in Procs : q # p => pc'[q] = pc[q] /\ loc'[q] = loc[q]
  BY DEF ProcessesOK, Move

LEMMA DoneType ==
  ASSUME ProcessesOK, NEW p \in Procs, Done(p)
  PROVE  /\ ProcessesOK' /\ pc'[p] = "idle"
         /\ \A q \in Procs : q # p => pc'[q] = pc[q] /\ loc'[q] = loc[q]
  <1>1. NewLocal("pass") \in Local
    BY NewLocalType DEF Kinds
  <1>2. QED
    BY <1>1 DEF ProcessesOK, Done, SagaLabels

LEMMA FaultType ==
  ASSUME StoresOK, NoSagaFault \/ SagaFault PROVE sagaFaults' \in 0 .. MaxSagaFaults
  BY DeletionAssumption DEF StoresOK, NoSagaFault, SagaFault

(* A state of D1 with another job, or with nothing but another job.        *)
LEMMA WithJob ==
  ASSUME NEW db \in Database, NEW j \in Job
  PROVE  /\ [db EXCEPT !.job = j] \in Database
         /\ [db EXCEPT !.job = j].job = j
         /\ [db EXCEPT !.job = j].ws = db.ws
  BY DEF Database

(* What is left to show of a step of one process.                          *)
LEMMA OneProcess ==
  ASSUME DeletionInv, NEW p \in Procs,
         DeletionTypeOK', TenantSays(d1)', backup' = backup, Knows(p)',
         accepted' => ledger',
         ledger => ledger', identity' => identity,
         d1.ws # "active" => d1'.ws # "active",
         \A q \in Procs : q # p => pc'[q] = pc[q] /\ loc'[q] = loc[q]
  PROVE  DeletionInv'
  <1>1. ASSUME NEW q \in Procs PROVE Knows(q)'
    <2>1. CASE q = p
      BY <2>1
    <2>2. CASE q # p
      BY <2>2 DEF DeletionInv, Knows
    <2>3. QED
      BY <2>1, <2>2
  <1>2. TenantSays(backup)'
    BY DEF DeletionInv, TenantSays
  <1>3. QED
    BY <1>1, <1>2 DEF DeletionInv

(* The same for a process that only gets on or ends.                       *)
LEMMA ProcessMoves ==
  ASSUME DeletionInv, NEW p \in Procs,
         UNCHANGED <<d1, backup, ledger, identity>>,
         accepted' => ledger, StoresOK',
         \/ Done(p)
         \/ \E label \in SagaLabels :
              /\ Move(p, label)
              /\ label \in {"session", "fence"} => loc[p].kind \in Requested
              /\ label \in {"ensure", "job"} => d1.ws # "active"
              /\ label \in Deleting \cup {"job", "jobFailed"} => ledger
              /\ label = "markIdentity" => ~identity
              /\ p \in Passes => pc[p] # "idle"
              /\ p \in Passes /\ label \in Deleting /\ loc[p].status = "pending" => loc[p].workos
              /\ p \in Passes /\ label = "purge" => loc[p].status = "pending"
  PROVE  DeletionInv'
  <1>1. TenantOK' /\ TenantSays(d1)'
    BY DEF DeletionInv, DeletionTypeOK, TenantOK, TenantSays, ChecksHold
  <1>2. CASE Done(p)
    <2>1. ProcessesOK' /\ pc'[p] = "idle"
          /\ \A q \in Procs : q # p => pc'[q] = pc[q] /\ loc'[q] = loc[q]
      BY <1>2, DoneType DEF DeletionInv, DeletionTypeOK
    <2>2. Knows(p)'
      BY <2>1 DEF Knows, Deleting
    <2>3. QED
      BY <1>1, <2>1, <2>2, OneProcess DEF DeletionTypeOK
  <1>3. ASSUME NEW label \in SagaLabels, Move(p, label),
               label \in {"session", "fence"} => loc[p].kind \in Requested,
               label \in {"ensure", "job"} => d1.ws # "active",
               label \in Deleting \cup {"job", "jobFailed"} => ledger,
               label = "markIdentity" => ~identity,
               p \in Passes => pc[p] # "idle",
               p \in Passes /\ label \in Deleting /\ loc[p].status = "pending" => loc[p].workos,
               p \in Passes /\ label = "purge" => loc[p].status = "pending"
        PROVE  DeletionInv'
    <2>1. ProcessesOK' /\ pc'[p] = label /\ loc' = loc
          /\ \A q \in Procs : q # p => pc'[q] = pc[q] /\ loc'[q] = loc[q]
      BY <1>3, MoveType DEF DeletionInv, DeletionTypeOK
    <2>2. Knows(p)'
      BY <1>3, <2>1 DEF DeletionInv, Knows
    <2>3. QED
      BY <1>1, <2>1, <2>2, OneProcess DEF DeletionTypeOK
  <1>4. QED
    BY <1>2, <1>3

-------------------------------------------------------------------------------
(* Requests                                                                *)

LEMMA ArriveKeeps ==
  ASSUME DeletionInv, NEW p \in Procs, Arrive(p) \/ ArriveWithKey(p) PROVE DeletionInv'
  <1>1. /\ p \in Requests /\ p \notin Passes
        /\ UNCHANGED <<d1, backup, storeVars, accepted, cron, sagaFaults, restored>>
    BY DeletionAssumption DEF Arrive, ArriveWithKey
  <1>2. PICK l \in Local, at \in {"session", "verdict"} :
          /\ loc' = [loc EXCEPT ![p] = l] /\ pc' = [pc EXCEPT ![p] = at]
          /\ at = "session" => l.kind \in Requested
    <2>1. CASE Arrive(p)
      <3>1. PICK kind \in Kinds \ {"pass", "verdict"} :
              loc' = [loc EXCEPT ![p] = NewLocal(kind)] /\ pc' = [pc EXCEPT ![p] = "session"]
        BY <2>1 DEF Arrive
      <3>2. kind \in Requested
        BY DEF Kinds, Requested
      <3>3. QED
        BY <3>1, <3>2, NewLocalType
    <2>2. CASE ArriveWithKey(p)
      <3>1. PICK k \in Keys :
              /\ loc' = [loc EXCEPT ![p] = [NewLocal("verdict") EXCEPT !.key = k]]
              /\ pc' = [pc EXCEPT ![p] = "verdict"]
        BY <2>2 DEF ArriveWithKey
      <3>2. "verdict" \in Kinds
        BY DEF Kinds
      <3>3. QED
        BY <3>1, <3>2, NewLocalType
    <2>3. QED
      BY <2>1, <2>2
  <1>3. /\ ProcessesOK' /\ pc'[p] = at /\ loc'[p] = l
        /\ \A q \in Procs : q # p => pc'[q] = pc[q] /\ loc'[q] = loc[q]
    BY <1>2 DEF DeletionInv, DeletionTypeOK, ProcessesOK, SagaLabels
  <1>4. TenantOK' /\ StoresOK' /\ TenantSays(d1)'
    BY <1>1 DEF DeletionInv, DeletionTypeOK, TenantOK, StoresOK, TenantSays, ChecksHold, storeVars
  <1>5. Knows(p)'
    BY <1>1, <1>2, <1>3 DEF Knows, Deleting
  <1>6. QED
    BY <1>1, <1>3, <1>4, <1>5, OneProcess DEF DeletionInv, DeletionTypeOK, storeVars

LEMMA RequestReads ==
  ASSUME DeletionInv, NEW p \in Requests,
         \/ ReadSession(p) \/ CheckLedger(p) \/ ReadVerdict(p) \/ CacheVerdict(p)
         \/ PutObject(p) \/ ReadLinks(p) \/ ReadExisting(p) \/ ReadJobAfterFailure(p)
  PROVE  DeletionInv'
  <1> p \in Procs /\ p \notin Passes
    BY DeletionAssumption DEF Procs
  <1>1. UNCHANGED <<d1, backup, ledger, identity, cron, restored>>
    BY DEF ReadSession, CheckLedger, ReadVerdict, CacheVerdict, PutObject, ReadLinks,
       ReadExisting, ReadJobAfterFailure, storeVars
  <1>2. accepted' \in BOOLEAN /\ (accepted' => ledger)
    <2>1. accepted' = accepted \/ (accepted' = TRUE /\ d1.job # None)
      BY DEF ReadSession, CheckLedger, ReadVerdict, CacheVerdict, PutObject, ReadLinks,
         ReadExisting, ReadJobAfterFailure, Accept
    <2>2. accepted \in BOOLEAN /\ (accepted => ledger) /\ (d1.job # None => ledger)
      BY DEF DeletionInv, DeletionTypeOK, StoresOK, TenantSays
    <2>3. CASE accepted' = accepted
      BY <2>2, <2>3
    <2>4. CASE accepted' = TRUE /\ d1.job # None
      BY <2>2, <2>4
    <2>5. QED
      BY <2>1, <2>3, <2>4
  <1>3. StoresOK'
    <2>1. sagaFaults' \in 0 .. MaxSagaFaults
      <3>1. UNCHANGED sagaFaults \/ NoSagaFault \/ SagaFault
        BY DEF ReadSession, CheckLedger, ReadVerdict, CacheVerdict, PutObject, ReadLinks,
           ReadExisting, ReadJobAfterFailure
      <3>2. QED
        BY <3>1, FaultType DEF DeletionInv, DeletionTypeOK, NoSagaFault
    <2>2. objects' \subseteq Prefixes
      BY DEF ReadSession, CheckLedger, ReadVerdict, CacheVerdict, PutObject, ReadLinks,
         ReadExisting, ReadJobAfterFailure, DeletionInv, DeletionTypeOK, StoresOK, storeVars
    <2>3. cached' \in [Keys -> 0 .. VerdictLife]
      <3>1. cached' = cached \/ cached' = [cached EXCEPT ![loc[p].key] = VerdictLife]
        BY DEF ReadSession, CheckLedger, ReadVerdict, CacheVerdict, PutObject, ReadLinks,
           ReadExisting, ReadJobAfterFailure, storeVars
      <3>2. VerdictLife \in 0 .. VerdictLife
        BY DeletionAssumption
      <3>3. QED
        BY <3>1, <3>2 DEF DeletionInv, DeletionTypeOK, StoresOK
    <2>4. QED
      BY <1>1, <1>2, <2>1, <2>2, <2>3 DEF DeletionInv, DeletionTypeOK, StoresOK
  <1>4. \/ Done(p)
        \/ \E label \in SagaLabels :
             /\ Move(p, label)
             /\ label \in {"session", "fence"} => loc[p].kind \in Requested
             /\ label \in {"ensure", "job"} => d1.ws # "active"
             /\ label \in Deleting \cup {"job", "jobFailed"} => ledger
             /\ label = "markIdentity" => ~identity
    <2>1. CASE ReadSession(p)
      BY <2>1 DEF ReadSession, SagaLabels, DeletionInv, Knows, Deleting
    <2>2. CASE CheckLedger(p)
      <3>1. CASE Done(p)
        BY <3>1
      <3>2. CASE Move(p, loc[p].kind)
        <4>1. loc[p].kind \in Requested
          BY <2>2 DEF CheckLedger, DeletionInv, Knows
        <4>2. loc[p].kind \in SagaLabels /\ loc[p].kind \notin {"session", "fence", "ensure",
                "job", "jobFailed", "markIdentity"} \cup Deleting
          BY <4>1 DEF Requested, SagaLabels, Deleting
        <4>3. QED
          BY <3>2, <4>2
      <3>3. QED
        BY <2>2, <3>1, <3>2 DEF CheckLedger
    <2>3. CASE ReadVerdict(p)
      BY <2>3 DEF ReadVerdict, SagaLabels, Deleting
    <2>4. CASE CacheVerdict(p)
      BY <2>4 DEF CacheVerdict, SagaLabels, Deleting
    <2>5. CASE PutObject(p)
      BY <2>5 DEF PutObject
    <2>6. CASE ReadLinks(p)
      BY <2>6 DEF ReadLinks, SagaLabels, Deleting
    <2>7. CASE ReadExisting(p)
      BY <2>7 DEF ReadExisting, Accept
    <2>8. CASE ReadJobAfterFailure(p)
      BY <2>8 DEF ReadJobAfterFailure, SagaLabels, DeletionInv, Knows
    <2>9. QED
      BY <2>1, <2>2, <2>3, <2>4, <2>5, <2>6, <2>7, <2>8
  <1>5. QED
    BY <1>1, <1>2, <1>3, <1>4, ProcessMoves

LEMMA EnsureLedgerKeeps ==
  ASSUME DeletionInv, NEW p \in Requests, EnsureDeletionLedger(p) PROVE DeletionInv'
  <1> p \in Procs /\ p \notin Passes
    BY DeletionAssumption DEF Procs
  <1>1. UNCHANGED <<d1, backup, identity, objects, cached, accepted, cron, restored>>
        /\ ledger' \in BOOLEAN /\ (ledger => ledger')
    BY DEF EnsureDeletionLedger, DeletionInv, DeletionTypeOK, StoresOK
  <1>2. TenantOK' /\ TenantSays(d1)'
    BY <1>1 DEF DeletionInv, DeletionTypeOK, TenantOK, TenantSays, ChecksHold
  <1>3. StoresOK'
    <2>1. NoSagaFault \/ SagaFault
      BY DEF EnsureDeletionLedger
    <2>2. QED
      BY <1>1, <2>1, FaultType DEF DeletionInv, DeletionTypeOK, StoresOK
  <1>4. /\ ProcessesOK'
        /\ \A q \in Procs : q # p => pc'[q] = pc[q] /\ loc'[q] = loc[q]
        /\ pc'[p] = "idle" \/ (pc'[p] = "job" /\ ledger' /\ d1.ws # "active" /\ loc' = loc)
    <2>1. CASE ledger' = TRUE /\ Move(p, "job")
      <3>1. d1.ws # "active" /\ "job" \in SagaLabels
        BY DEF EnsureDeletionLedger, DeletionInv, Knows, SagaLabels
      <3>2. QED
        BY <2>1, <3>1, MoveType DEF DeletionInv, DeletionTypeOK
    <2>2. CASE Done(p)
      BY <2>2, DoneType DEF DeletionInv, DeletionTypeOK
    <2>3. QED
      BY <2>1, <2>2 DEF EnsureDeletionLedger
  <1>5. Knows(p)'
    BY <1>1, <1>4 DEF Knows, Deleting
  <1>6. QED
    BY <1>1, <1>2, <1>3, <1>4, <1>5, OneProcess DEF DeletionInv, DeletionTypeOK

(* A step of one process that writes D1.                                   *)
LEMMA ProcessWrites ==
  ASSUME DeletionInv, NEW p \in Procs,
         UNCHANGED <<backup, storeVars, cron, restored>>,
         d1' \in Database, ChecksHold(d1'),
         accepted' \in BOOLEAN, accepted' => ledger,
         NoSagaFault \/ SagaFault,
         TenantSays(d1'),
         d1.ws # "active" => d1'.ws # "active",
         \/ Done(p)
         \/ \E label \in SagaLabels :
              /\ Move(p, label)
              /\ label \notin {"session", "fence", "job", "markIdentity", "sweep", "purge"}
              /\ label = "ensure" => d1'.ws # "active"
              /\ label \in Deleting \cup {"jobFailed"} => ledger
              /\ p \in Passes => pc[p] # "idle" /\ label \notin Deleting
  PROVE  DeletionInv'
  <1>1. TenantOK' /\ StoresOK' /\ TenantSays(d1)'
    <2>1. sagaFaults' \in 0 .. MaxSagaFaults
      BY FaultType DEF DeletionInv, DeletionTypeOK
    <2>2. TenantSays(d1)'
      BY DEF TenantSays, storeVars
    <2>3. TenantOK'
      BY DEF DeletionInv, DeletionTypeOK, TenantOK, ChecksHold
    <2>4. QED
      BY <2>1, <2>2, <2>3 DEF DeletionInv, DeletionTypeOK, StoresOK, storeVars
  <1>2. CASE Done(p)
    <2>1. ProcessesOK' /\ pc'[p] = "idle"
          /\ \A q \in Procs : q # p => pc'[q] = pc[q] /\ loc'[q] = loc[q]
      BY <1>2, DoneType DEF DeletionInv, DeletionTypeOK
    <2>2. Knows(p)'
      BY <2>1 DEF Knows, Deleting
    <2>3. QED
      BY <1>1, <2>1, <2>2, OneProcess DEF DeletionTypeOK, storeVars
  <1>3. ASSUME NEW label \in SagaLabels, Move(p, label),
               label \notin {"session", "fence", "job", "markIdentity", "sweep", "purge"},
               label = "ensure" => d1'.ws # "active",
               label \in Deleting \cup {"jobFailed"} => ledger,
               p \in Passes => pc[p] # "idle" /\ label \notin Deleting
        PROVE  DeletionInv'
    <2>1. ProcessesOK' /\ pc'[p] = label /\ loc' = loc
          /\ \A q \in Procs : q # p => pc'[q] = pc[q] /\ loc'[q] = loc[q]
      BY <1>3, MoveType DEF DeletionInv, DeletionTypeOK
    <2>2. Knows(p)'
      BY <1>3, <2>1 DEF DeletionInv, Knows, storeVars
    <2>3. QED
      BY <1>1, <2>1, <2>2, OneProcess DEF DeletionTypeOK, storeVars
  <1>4. QED
    BY <1>2, <1>3

LEMMA DatabaseFields ==
  ASSUME DeletionInv
  PROVE  /\ d1 \in Database /\ ChecksHold(d1) /\ TenantSays(d1)
         /\ d1.job # None => /\ d1.job \in Job
                             /\ d1.job.status \in {"pending", "r2_grace", "complete"}
                             /\ d1.job.workos \in BOOLEAN
                             /\ d1.job.wait \in 0 .. RetryAfter
         /\ d1.kv \in [Keys -> {"none", "live", "deleted"}]
         /\ accepted \in BOOLEAN /\ (accepted => ledger)
  <1>1. d1 \in Database /\ ChecksHold(d1) /\ TenantSays(d1)
        /\ accepted \in BOOLEAN /\ (accepted => ledger)
    BY DEF DeletionInv, DeletionTypeOK, TenantOK, StoresOK
  <1>2. d1.job \in Job \cup {None} /\ d1.kv \in [Keys -> {"none", "live", "deleted"}]
    BY <1>1 DEF Database
  <1>3. QED
    BY <1>1, <1>2 DEF Job

LEMMA SignOutKeeps ==
  ASSUME DeletionInv, NEW p \in Requests, SignOut(p) PROVE DeletionInv'
  <1> p \in Procs
    BY DEF Procs
  <1>1. /\ d1' \in Database /\ d1'.ws = d1.ws /\ d1'.job = d1.job
    BY DatabaseFields DEF SignOut, Database
  <1>2. ChecksHold(d1') /\ TenantSays(d1')
    BY <1>1, DatabaseFields DEF ChecksHold, TenantSays
  <1>3. QED
    BY <1>1, <1>2, DatabaseFields, ProcessWrites DEF SignOut, NoSagaFault

LEMMA PrelockKeeps ==
  ASSUME DeletionInv, NEW p \in Requests, Prelock(p) PROVE DeletionInv'
  <1> p \in Procs /\ p \notin Passes
    BY DeletionAssumption DEF Procs
  <1>1. /\ d1' \in Database /\ d1'.job = d1.job
        /\ d1'.ws \in {d1.ws, "deleting"} /\ (d1'.ws = "deleting" \/ d1' = d1)
    BY DatabaseFields DEF Prelock, Database
  <1>2. ChecksHold(d1') /\ TenantSays(d1')
    BY <1>1, DatabaseFields DEF ChecksHold, TenantSays
  <1>3. \E label \in {"ensure", "existing"} :
          Move(p, label) /\ (label = "ensure" => d1'.ws # "active")
    BY <1>1, DatabaseFields DEF Prelock, Database
  <1>4. {"ensure", "existing"} \subseteq SagaLabels /\ "ensure" \notin Deleting
        /\ "existing" \notin Deleting
    BY DEF SagaLabels, Deleting
  <1>5. UNCHANGED <<backup, storeVars, accepted, cron, sagaFaults, restored>>
    BY DEF Prelock
  <1>6. accepted' \in BOOLEAN /\ (accepted' => ledger)
    BY <1>5, DatabaseFields
  <1>7. QED
    BY <1>1, <1>2, <1>3, <1>4, <1>5, <1>6, ProcessWrites DEF NoSagaFault

LEMMA CreateJobKeeps ==
  ASSUME DeletionInv, NEW p \in Requests, CreateJob(p) PROVE DeletionInv'
  <1> p \in Procs /\ p \notin Passes
    BY DeletionAssumption DEF Procs
  <1>1. ledger /\ d1.ws # "active"
    BY DEF CreateJob, DeletionInv, Knows
  <1>2. /\ CreatedJob(p) \in Database /\ CreatedJob(p).ws = d1.ws
        /\ CreatedJob(p).job = [status |-> "pending", workos |-> FALSE, wait |-> 0]
    <2>1. [status |-> "pending", workos |-> FALSE, wait |-> 0] \in Job
      BY DeletionAssumption DEF Job
    <2>2. [k \in Keys |-> "live"] \in [Keys -> {"none", "live", "deleted"}]
      OBVIOUS
    <2>3. QED
      BY <2>1, <2>2, DatabaseFields DEF CreatedJob, Database
  <1>3. d1' = d1 \/ d1' = CreatedJob(p)
    BY DEF CreateJob
  <1>4. d1' \in Database /\ ChecksHold(d1') /\ TenantSays(d1') /\ d1'.ws = d1.ws
    BY <1>1, <1>2, <1>3, DatabaseFields DEF ChecksHold, TenantSays
  <1>5. \E label \in {"kvRead", "jobFailed"} : Move(p, label)
    BY DEF CreateJob
  <1>6. {"kvRead", "jobFailed"} \subseteq SagaLabels
    BY DEF SagaLabels
  <1>7. UNCHANGED <<backup, storeVars, accepted, cron, restored>> /\ (NoSagaFault \/ SagaFault)
    BY DEF CreateJob
  <1>8. accepted' \in BOOLEAN /\ (accepted' => ledger)
    BY <1>7, DatabaseFields
  <1>9. QED
    BY <1>1, <1>4, <1>5, <1>6, <1>7, <1>8, ProcessWrites

-------------------------------------------------------------------------------
(* Cached verdicts                                                         *)

LEMMA KVReadKeeps ==
  ASSUME DeletionInv, NEW p \in Procs, KVRead(p) PROVE DeletionInv'
  <1>1. ledger /\ pc[p] = "kvRead" /\ pc[p] \in Deleting
    BY DEF KVRead, DeletionInv, Knows, Deleting
  <1>2. UNCHANGED <<d1, backup, storeVars, cron, sagaFaults, restored>>
        /\ accepted' \in BOOLEAN
    BY DatabaseFields DEF KVRead, Accept
  <1>3. StoresOK' /\ TenantOK' /\ TenantSays(d1)'
    BY <1>2 DEF DeletionInv, DeletionTypeOK, StoresOK, TenantOK, TenantSays, ChecksHold, storeVars
  <1>4. CASE \E label \in {"sweep"} : p \in Passes /\ Move(p, label)
    BY <1>1, <1>2, <1>3, <1>4, ProcessMoves
    DEF DeletionInv, Knows, SagaLabels, Deleting, storeVars
  <1>5. CASE Done(p)
    BY <1>1, <1>2, <1>3, <1>5, ProcessMoves DEF storeVars
  <1>6. CASE \E page \in SUBSET Keys :
               /\ loc' = [loc EXCEPT ![p].page = page]
               /\ pc' = [pc EXCEPT ![p] = "kvDelete"]
    <2>1. PICK page \in SUBSET Keys : /\ loc' = [loc EXCEPT ![p].page = page]
                                      /\ pc' = [pc EXCEPT ![p] = "kvDelete"]
      BY <1>6
    <2>2. /\ ProcessesOK' /\ pc'[p] = "kvDelete"
          /\ loc'[p].status = loc[p].status /\ loc'[p].workos = loc[p].workos
          /\ \A q \in Procs : q # p => pc'[q] = pc[q] /\ loc'[q] = loc[q]
      BY <2>1 DEF DeletionInv, DeletionTypeOK, ProcessesOK, Local, SagaLabels
    <2>3. Knows(p)'
      BY <1>1, <1>2, <2>2 DEF DeletionInv, Knows, Deleting, storeVars
    <2>4. QED
      BY <1>1, <1>2, <1>3, <2>2, <2>3, OneProcess DEF DeletionTypeOK, storeVars
  <1>7. QED
    BY <1>4, <1>5, <1>6 DEF KVRead, Accept

LEMMA WithoutType ==
  ASSUME DeletionInv, NEW page PROVE Without(page) \in [Keys -> 0 .. VerdictLife]
  <1>1. 0 \in 0 .. VerdictLife
    BY DeletionAssumption
  <1>2. QED
    BY <1>1 DEF DeletionInv, DeletionTypeOK, StoresOK, Without

LEMMA KVDeleteKeeps ==
  ASSUME DeletionInv, NEW p \in Procs, KVDelete(p) PROVE DeletionInv'
  <1>1. ledger /\ pc[p] = "kvDelete" /\ pc[p] \in Deleting
    BY DEF KVDelete, DeletionInv, Knows, Deleting
  <1>2. UNCHANGED <<d1, backup, ledger, identity, objects, cron, restored>>
        /\ accepted' \in BOOLEAN
    BY DatabaseFields DEF KVDelete, KVEnds, Accept
  <1>3. cached' \in [Keys -> 0 .. VerdictLife]
    BY WithoutType DEF KVDelete
  <1>4. StoresOK'
    <2>1. NoSagaFault \/ SagaFault
      BY DEF KVDelete
    <2>2. QED
      BY <1>2, <1>3, <2>1, FaultType DEF DeletionInv, DeletionTypeOK, StoresOK
  <1>5. Done(p) \/ \E label \in {"kvMark", "retry"} : Move(p, label)
    BY DEF KVDelete, KVEnds, Accept
  <1>6. p \in Passes /\ loc[p].status = "pending" => loc[p].workos
    BY <1>1 DEF DeletionInv, Knows
  <1>7. QED
    BY <1>1, <1>2, <1>4, <1>5, <1>6, ProcessMoves DEF SagaLabels, Deleting

LEMMA KVMarkKeeps ==
  ASSUME DeletionInv, NEW p \in Procs, KVMark(p) PROVE DeletionInv'
  <1>1. ledger /\ pc[p] = "kvMark"
    BY DEF KVMark, DeletionInv, Knows, Deleting
  <1>2. d1' \in Database /\ d1'.ws = d1.ws /\ d1'.job = d1.job
    <2>1. [k \in Keys |-> IF k \in loc[p].page /\ d1.kv[k] = "live" THEN "deleted" ELSE d1.kv[k]]
            \in [Keys -> {"none", "live", "deleted"}]
      BY DatabaseFields
    <2>2. QED
      BY <2>1, DatabaseFields DEF KVMark, Database
  <1>3. ChecksHold(d1') /\ TenantSays(d1')
    BY <1>2, DatabaseFields DEF ChecksHold, TenantSays
  <1>4. Done(p) \/ (p \in Passes /\ Move(p, "retry"))
    BY DEF KVMark, KVEnds, Accept
  <1>5. accepted' \in BOOLEAN
    BY DatabaseFields DEF KVMark, KVEnds, Accept
  <1>6. UNCHANGED <<backup, storeVars, cron, restored>> /\ (NoSagaFault \/ SagaFault)
    BY DEF KVMark
  <1>7. QED
    BY <1>1, <1>2, <1>3, <1>4, <1>5, <1>6, ProcessWrites DEF SagaLabels, Deleting

-------------------------------------------------------------------------------
(* Passes                                                                  *)

LEMMA ReadDueKeeps ==
  ASSUME DeletionInv, NEW p \in Passes, ReadDue(p) PROVE DeletionInv'
  <1> p \in Procs
    BY DEF Procs
  <1>1. d1.job # None /\ d1.job.status \in {"pending", "r2_grace"}
    BY DatabaseFields DEF ReadDue
  <1>2. PICK l \in Local : /\ loc' = [loc EXCEPT ![p] = l]
                           /\ l.workos = d1.job.workos
    <2>1. NewLocal("pass") \in Local
      BY NewLocalType DEF Kinds
    <2>2. [NewLocal("pass") EXCEPT !.status = d1.job.status, !.workos = d1.job.workos] \in Local
      BY <1>1, <2>1, DatabaseFields DEF Local
    <2>3. [NewLocal("pass") EXCEPT !.status = d1.job.status, !.workos = d1.job.workos].workos
            = d1.job.workos
      BY <2>1 DEF Local
    <2>4. QED
      BY <2>2, <2>3 DEF ReadDue
  <1>3. pc' = [pc EXCEPT ![p] = "authorize"] /\ cron' = CronEvery
        /\ UNCHANGED <<d1, backup, storeVars, accepted, sagaFaults, restored>>
    BY DEF ReadDue
  <1>4. /\ ProcessesOK' /\ pc'[p] = "authorize" /\ loc'[p] = l
        /\ \A q \in Procs : q # p => pc'[q] = pc[q] /\ loc'[q] = loc[q]
    BY <1>2, <1>3 DEF DeletionInv, DeletionTypeOK, ProcessesOK, SagaLabels
  <1>5. TenantOK' /\ StoresOK' /\ TenantSays(d1)'
    BY <1>3, DeletionAssumption
    DEF DeletionInv, DeletionTypeOK, TenantOK, StoresOK, TenantSays, ChecksHold, storeVars
  <1>6. Knows(p)'
    BY <1>1, <1>2, <1>3, <1>4, DatabaseFields DEF Knows, Deleting, TenantSays, storeVars
  <1>7. QED
    BY <1>3, <1>4, <1>5, <1>6, OneProcess DEF DeletionInv, DeletionTypeOK, storeVars

LEMMA AuthorizeKeeps ==
  ASSUME DeletionInv, NEW p \in Passes, AuthorizePass(p) PROVE DeletionInv'
  <1> p \in Procs
    BY DEF Procs
  <1>1. UNCHANGED <<d1, backup, storeVars, accepted, cron, restored>> /\ pc[p] # "idle"
        /\ (NoSagaFault \/ SagaFault)
    BY DEF AuthorizePass
  <1>2. StoresOK'
    BY <1>1, FaultType DEF DeletionInv, DeletionTypeOK, StoresOK, storeVars
  <1>3. PICK label \in {"identity", "kvRead", "retry"} :
          /\ Move(p, label)
          /\ label = "kvRead" => ledger /\ (loc[p].status = "pending" => loc[p].workos)
    BY DEF AuthorizePass, AfterAuthorization
  <1>4. accepted' => ledger
    BY <1>1, DatabaseFields
  <1>5. QED
    BY <1>1, <1>2, <1>3, <1>4, ProcessMoves DEF SagaLabels, Deleting, storeVars

LEMMA DeleteIdentityKeeps ==
  ASSUME DeletionInv, NEW p \in Passes, DeleteWorkOSIdentity(p) PROVE DeletionInv'
  <1> p \in Procs
    BY DEF Procs
  <1>1. /\ UNCHANGED <<d1, backup, ledger, objects, cached, accepted, cron, restored>>
        /\ pc[p] # "idle" /\ (NoSagaFault \/ SagaFault)
        /\ identity' \in BOOLEAN /\ (identity' => identity)
    <2>1. /\ UNCHANGED <<d1, backup, ledger, objects, cached, accepted, cron, restored>>
          /\ pc[p] # "idle" /\ (NoSagaFault \/ SagaFault)
      BY DEF DeleteWorkOSIdentity
    <2>2. identity' = identity \/ identity' = FALSE
      BY DEF DeleteWorkOSIdentity
    <2>3. identity \in BOOLEAN
      BY DEF DeletionInv, DeletionTypeOK, StoresOK
    <2>4. CASE identity' = identity
      BY <2>1, <2>3, <2>4
    <2>5. CASE identity' = FALSE
      BY <2>1, <2>5
    <2>6. QED
      BY <2>2, <2>4, <2>5
  <1>2. StoresOK'
    BY <1>1, FaultType DEF DeletionInv, DeletionTypeOK, StoresOK
  <1>3. TenantOK' /\ TenantSays(d1)'
    BY <1>1 DEF DeletionInv, DeletionTypeOK, TenantOK, TenantSays, ChecksHold
  <1>4. PICK label \in {"markIdentity", "retry"} :
          Move(p, label) /\ (label = "markIdentity" => ~identity')
    BY DEF DeleteWorkOSIdentity
  <1>5. /\ ProcessesOK' /\ pc'[p] = label /\ loc' = loc
        /\ \A q \in Procs : q # p => pc'[q] = pc[q] /\ loc'[q] = loc[q]
    BY <1>4, MoveType DEF SagaLabels, DeletionInv, DeletionTypeOK
  <1>6. Knows(p)'
    BY <1>1, <1>4, <1>5 DEF DeletionInv, Knows, Deleting
  <1>7. QED
    BY <1>1, <1>2, <1>3, <1>5, <1>6, OneProcess DEF DeletionInv, DeletionTypeOK

LEMMA MarkKeeps ==
  ASSUME DeletionInv, NEW p \in Passes, MarkWorkOSDeleted(p) PROVE DeletionInv'
  <1> p \in Procs
    BY DEF Procs
  <1>1. ~identity /\ pc[p] # "idle"
    BY DEF MarkWorkOSDeleted, DeletionInv, Knows
  <1>2. d1' \in Database /\ ChecksHold(d1') /\ TenantSays(d1') /\ d1'.ws = d1.ws
    <2>1. CASE d1' = d1
      BY <2>1, DatabaseFields
    <2>2. CASE /\ JobIs("pending")
               /\ d1' = [d1 EXCEPT !.job.workos = TRUE, !.job.wait = NextAttempt(p)]
      <3>1. PICK j \in Job : j = d1.job /\ j.status = "pending"
        BY <2>2, DatabaseFields DEF JobIs
      <3>2. NextAttempt(p) \in 0 .. RetryAfter
        BY AgeType DEF DeletionInv, DeletionTypeOK
      <3>3. PICK n \in Job : n = [j EXCEPT !.workos = TRUE, !.wait = NextAttempt(p)]
                             /\ n.status = "pending"
        <4>1. /\ [j EXCEPT !.workos = TRUE, !.wait = NextAttempt(p)] \in Job
              /\ [j EXCEPT !.workos = TRUE, !.wait = NextAttempt(p)].status = j.status
          BY <3>2 DEF Job
        <4>2. QED
          BY <3>1, <4>1
      <3>4. d1' = [d1 EXCEPT !.job = n]
        BY <2>2, <3>1, <3>3, DatabaseFields DEF Database
      <3>5. d1' \in Database /\ d1'.job = n /\ d1'.ws = d1.ws
        BY <3>4, DatabaseFields, WithJob
      <3>6. QED
        BY <1>1, <2>2, <3>3, <3>5, DatabaseFields DEF ChecksHold, TenantSays, JobIs
    <2>3. QED
      BY <2>1, <2>2 DEF MarkWorkOSDeleted
  <1>3. UNCHANGED <<backup, storeVars, accepted, cron, restored>>
        /\ (NoSagaFault \/ SagaFault) /\ (Done(p) \/ Move(p, "retry"))
    BY DEF MarkWorkOSDeleted
  <1>4. accepted' \in BOOLEAN /\ (accepted' => ledger)
    BY <1>3, DatabaseFields
  <1>5. QED
    BY <1>1, <1>2, <1>3, <1>4, ProcessWrites DEF SagaLabels, Deleting

LEMMA RetryKeeps ==
  ASSUME DeletionInv, NEW p \in Passes, RecordDeletionRetry(p) PROVE DeletionInv'
  <1> p \in Procs
    BY DEF Procs
  <1>1. d1' \in Database /\ ChecksHold(d1') /\ TenantSays(d1') /\ d1'.ws = d1.ws
    <2>1. CASE d1' = d1
      BY <2>1, DatabaseFields
    <2>2. CASE /\ d1.job # None /\ d1.job.status # "complete"
               /\ d1' = [d1 EXCEPT !.job = RetriedJob(p)]
      <3>1. NextAttempt(p) \in 0 .. RetryAfter
        BY AgeType DEF DeletionInv, DeletionTypeOK
      <3>2. /\ RetriedJob(p) \in Job /\ RetriedJob(p).status = d1.job.status
            /\ RetriedJob(p).workos = d1.job.workos
        BY <2>2, <3>1, DatabaseFields DEF RetriedJob, Job
      <3>3. d1' \in Database /\ d1'.job = RetriedJob(p) /\ d1'.ws = d1.ws
        BY <2>2, <3>2, DatabaseFields, WithJob
      <3>4. QED
        BY <2>2, <3>2, <3>3, DatabaseFields DEF ChecksHold, TenantSays
    <2>3. QED
      BY <2>1, <2>2 DEF RecordDeletionRetry
  <1>2. UNCHANGED <<backup, storeVars, accepted, cron, restored>>
        /\ (NoSagaFault \/ SagaFault) /\ Done(p)
    BY DEF RecordDeletionRetry
  <1>3. accepted' \in BOOLEAN /\ (accepted' => ledger)
    BY <1>2, DatabaseFields
  <1>4. QED
    BY <1>1, <1>2, <1>3, ProcessWrites

LEMMA SweepKeeps ==
  ASSUME DeletionInv, NEW p \in Passes, SweepPrefix(p) PROVE DeletionInv'
  <1> p \in Procs
    BY DEF Procs
  <1>1. /\ UNCHANGED <<d1, backup, ledger, identity, cached, accepted, cron, restored>>
        /\ (NoSagaFault \/ SagaFault) /\ objects' \subseteq Prefixes
    BY DEF SweepPrefix, DeletionInv, DeletionTypeOK, StoresOK
  <1>2. /\ ledger /\ pc[p] = "sweep"
        /\ loc[p].status = "pending" => loc[p].workos
    BY DEF SweepPrefix, DeletionInv, Knows, Deleting
  <1>3. StoresOK'
    BY <1>1, FaultType DEF DeletionInv, DeletionTypeOK, StoresOK
  <1>4. TenantOK' /\ TenantSays(d1)'
    BY <1>1 DEF DeletionInv, DeletionTypeOK, TenantOK, TenantSays, ChecksHold
  <1>5. CASE \E label \in {"purge", "finish", "retry"} :
               Move(p, label) /\ (label = "purge" => loc[p].status = "pending")
    BY <1>1, <1>2, <1>3, <1>5, ProcessMoves DEF SagaLabels, Deleting
  <1>6. CASE \E x \in loc[p].left, b \in BOOLEAN :
               loc' = [loc EXCEPT ![p].left = @ \ {x}, ![p].deleted = b] /\ pc' = pc
    <2>1. PICK x \in loc[p].left, b \in BOOLEAN :
            loc' = [loc EXCEPT ![p].left = @ \ {x}, ![p].deleted = b] /\ pc' = pc
      BY <1>6
    <2>2. PICK h \in Local : h = loc[p]
      BY DEF DeletionInv, DeletionTypeOK, ProcessesOK
    <2>3. PICK g \in Local : /\ g = [h EXCEPT !.left = h.left \ {x}]
                             /\ g.status = h.status /\ g.workos = h.workos
      <3>1. /\ [h EXCEPT !.left = h.left \ {x}] \in Local
            /\ [h EXCEPT !.left = h.left \ {x}].status = h.status
            /\ [h EXCEPT !.left = h.left \ {x}].workos = h.workos
        BY DEF Local
      <3>2. QED
        BY <3>1
    <2>4. PICK f \in Local : /\ f = [g EXCEPT !.deleted = b]
                             /\ f.status = h.status /\ f.workos = h.workos
      <3>1. /\ [g EXCEPT !.deleted = b] \in Local
            /\ [g EXCEPT !.deleted = b].status = g.status
            /\ [g EXCEPT !.deleted = b].workos = g.workos
        BY DEF Local
      <3>2. QED
        BY <2>3, <3>1
    <2>5. loc' = [loc EXCEPT ![p] = f]
      BY <2>1, <2>2, <2>3, <2>4 DEF DeletionInv, DeletionTypeOK, ProcessesOK
    <2>6. /\ ProcessesOK' /\ pc'[p] = "sweep"
          /\ loc'[p].status = loc[p].status /\ loc'[p].workos = loc[p].workos
          /\ \A q \in Procs : q # p => pc'[q] = pc[q] /\ loc'[q] = loc[q]
      BY <1>2, <2>1, <2>2, <2>4, <2>5 DEF DeletionInv, DeletionTypeOK, ProcessesOK
    <2>7. Knows(p)'
      BY <1>1, <1>2, <2>6 DEF DeletionInv, Knows, Deleting
    <2>8. QED
      BY <1>1, <1>3, <1>4, <2>6, <2>7, OneProcess DEF DeletionInv, DeletionTypeOK
  <1>7. QED
    <2>1. CASE \E x \in loc[p].left :
                 loc' = [loc EXCEPT ![p].left = @ \ {x}, ![p].deleted = @ \/ x \in objects]
                 /\ pc' = pc
      <3>1. PICK x \in loc[p].left :
              loc' = [loc EXCEPT ![p].left = @ \ {x}, ![p].deleted = @ \/ x \in objects]
              /\ pc' = pc
        BY <2>1
      <3>2. PICK b \in BOOLEAN : b = (loc[p].deleted \/ x \in objects)
        OBVIOUS
      <3>3. loc' = [loc EXCEPT ![p].left = @ \ {x}, ![p].deleted = b]
        BY <3>1, <3>2 DEF DeletionInv, DeletionTypeOK, ProcessesOK, Local
      <3>4. QED
        BY <1>6, <3>1, <3>3
    <2>2. QED
      BY <1>5, <2>1 DEF SweepPrefix

LEMMA PurgeKeeps ==
  ASSUME DeletionInv, NEW p \in Passes, PurgeWorkspace(p) PROVE DeletionInv'
  <1> p \in Procs
    BY DEF Procs
  <1>1. ~identity /\ ledger /\ pc[p] = "purge"
    BY DEF PurgeWorkspace, DeletionInv, Knows, Deleting
  <1>2. PICK j : /\ j \in Job \cup {None} /\ Purged(p) = [d1 EXCEPT !.ws = "gone",
                      !.session = FALSE, !.keys = FALSE, !.kv = KVRestarted, !.job = j]
                 /\ j # None => d1.job # None
                 /\ j # None => /\ j.status # "pending" => j.workos
                                /\ j.status = "complete" => j.wait = 0
    <2>1. NextAttempt(p) \in 0 .. RetryAfter
      BY AgeType DEF DeletionInv, DeletionTypeOK
    <2>2. CASE JobIs("pending") /\ d1.job.workos
      <3>1. /\ [d1.job EXCEPT !.status = "r2_grace", !.wait = NextAttempt(p)] \in Job
            /\ [d1.job EXCEPT !.status = "r2_grace", !.wait = NextAttempt(p)].workos = d1.job.workos
            /\ [d1.job EXCEPT !.status = "r2_grace", !.wait = NextAttempt(p)].status = "r2_grace"
        BY <2>1, <2>2, DatabaseFields DEF JobIs, Job
      <3>2. Purged(p) = [d1 EXCEPT !.ws = "gone", !.session = FALSE, !.keys = FALSE,
              !.kv = KVRestarted,
              !.job = [d1.job EXCEPT !.status = "r2_grace", !.wait = NextAttempt(p)]]
        BY <2>2, DatabaseFields DEF Purged, Database
      <3>3. QED
        BY <2>2, <3>1, <3>2 DEF JobIs
    <2>3. CASE ~(JobIs("pending") /\ d1.job.workos)
      <3>1. Purged(p) = [d1 EXCEPT !.ws = "gone", !.session = FALSE, !.keys = FALSE,
              !.kv = KVRestarted, !.job = d1.job]
        BY <2>3, DatabaseFields DEF Purged, Database
      <3>2. QED
        BY <3>1, DatabaseFields DEF Database, ChecksHold
    <2>4. QED
      BY <2>2, <2>3
  <1>3. /\ Purged(p) \in Database /\ Purged(p).ws = "gone" /\ Purged(p).job = j
    <2>1. KVRestarted \in [Keys -> {"none", "live", "deleted"}]
      BY DEF KVRestarted
    <2>2. QED
      BY <1>2, <2>1, DatabaseFields DEF Database
  <1>4. ChecksHold(Purged(p)) /\ TenantSays(Purged(p))
    BY <1>1, <1>2, <1>3 DEF ChecksHold, TenantSays
  <1>5. d1' = d1 \/ d1' = Purged(p)
    BY DEF PurgeWorkspace
  <1>6. /\ d1' \in Database /\ ChecksHold(d1') /\ TenantSays(d1')
        /\ d1.ws # "active" => d1'.ws # "active"
    <2>1. CASE d1' = d1
      BY <2>1, DatabaseFields
    <2>2. CASE d1' = Purged(p)
      BY <1>3, <1>4, <2>2
    <2>3. QED
      BY <1>5, <2>1, <2>2
  <1>7. UNCHANGED <<backup, storeVars, accepted, cron, restored>>
        /\ (NoSagaFault \/ SagaFault) /\ (Done(p) \/ Move(p, "retry"))
    BY DEF PurgeWorkspace
  <1>8. accepted' \in BOOLEAN /\ (accepted' => ledger)
    BY <1>7, DatabaseFields
  <1>9. QED
    BY <1>1, <1>6, <1>7, <1>8, ProcessWrites DEF SagaLabels, Deleting

LEMMA FinishKeeps ==
  ASSUME DeletionInv, NEW p \in Passes, FinishDeletion(p) PROVE DeletionInv'
  <1> p \in Procs
    BY DEF Procs
  <1>1. NextAttempt(p) \in 0 .. RetryAfter
    BY AgeType DEF DeletionInv, DeletionTypeOK
  <1>2. CASE d1' = d1
    BY <1>2, DatabaseFields, ProcessWrites DEF FinishDeletion
  <1>3. CASE d1' # d1
    <2>1. PICK kv \in [Keys -> {"none", "live", "deleted"}], j \in Job \cup {None} :
            /\ d1' = [d1 EXCEPT !.kv = kv, !.job = j]
            /\ j # None => d1.job # None /\ j.workos = d1.job.workos
            /\ j # None => /\ j.status # "pending" => j.workos
                           /\ j.status = "complete" => j.wait = 0
      <3>1. /\ KVRestarted \in [Keys -> {"none", "live", "deleted"}]
            /\ [k \in Keys |-> "none"] \in [Keys -> {"none", "live", "deleted"}]
        BY DEF KVRestarted
      <3>2. PICK kv \in [Keys -> {"none", "live", "deleted"}] :
              \/ d1' = [d1 EXCEPT !.kv = kv,
                   !.job = IF JobIs("r2_grace") THEN [@ EXCEPT !.wait = NextAttempt(p)] ELSE @]
              \/ d1' = [d1 EXCEPT !.kv = kv,
                   !.job = IF JobIs("r2_grace") THEN CompletedJob(p) ELSE @]
        BY <1>3, <3>1 DEF FinishDeletion
      <3>3. CASE JobIs("r2_grace")
        <4>1. d1.job \in Job /\ d1.job.workos
          BY <3>3, DatabaseFields DEF JobIs, ChecksHold
        <4>2. PICK j \in Job : /\ j \in {[d1.job EXCEPT !.wait = NextAttempt(p)], CompletedJob(p)}
                               /\ j.workos = d1.job.workos
                               /\ j.status = "complete" => j.wait = 0
                               /\ d1' = [d1 EXCEPT !.kv = kv, !.job = j]
          <5>1. /\ [d1.job EXCEPT !.wait = NextAttempt(p)] \in Job
                /\ [d1.job EXCEPT !.wait = NextAttempt(p)].workos = d1.job.workos
                /\ [d1.job EXCEPT !.wait = NextAttempt(p)].status = "r2_grace"
            BY <1>1, <3>3, <4>1 DEF Job, JobIs
          <5>2. /\ CompletedJob(p) \in Job /\ CompletedJob(p).workos = d1.job.workos
                /\ CompletedJob(p).wait = 0
            <6>1. 0 \in 0 .. RetryAfter
              BY DeletionAssumption
            <6>2. PICK h \in Job : h = d1.job
              BY <4>1
            <6>3. /\ [h EXCEPT !.status = "complete", !.wait = 0] \in Job
                  /\ [h EXCEPT !.status = "complete", !.wait = 0].workos = h.workos
                  /\ [h EXCEPT !.status = "complete", !.wait = 0].wait = 0
              BY <6>1 DEF Job
            <6>4. QED
              BY <6>2, <6>3 DEF CompletedJob
          <5>3. \/ d1' = [d1 EXCEPT !.kv = kv, !.job = [d1.job EXCEPT !.wait = NextAttempt(p)]]
                \/ d1' = [d1 EXCEPT !.kv = kv, !.job = CompletedJob(p)]
            BY <3>2, <3>3, DatabaseFields DEF Database
          <5>4. QED
            BY <5>1, <5>2, <5>3
        <4>3. QED
          BY <3>3, <4>1, <4>2 DEF JobIs
      <3>4. CASE ~JobIs("r2_grace")
        <4>1. d1' = [d1 EXCEPT !.kv = kv, !.job = d1.job]
          BY <3>2, <3>4, DatabaseFields DEF Database
        <4>2. QED
          BY <4>1, DatabaseFields DEF Database, ChecksHold
      <3>5. QED
        BY <3>3, <3>4
    <2>2. d1' \in Database /\ d1'.job = j /\ d1'.ws = d1.ws
      BY <2>1, DatabaseFields DEF Database
    <2>3. ChecksHold(d1') /\ TenantSays(d1')
      BY <2>1, <2>2, DatabaseFields DEF ChecksHold, TenantSays
    <2>4. UNCHANGED <<backup, storeVars, accepted, cron, restored>>
          /\ (NoSagaFault \/ SagaFault) /\ Done(p)
      BY DEF FinishDeletion
    <2>5. accepted' \in BOOLEAN /\ (accepted' => ledger)
      BY <2>4, DatabaseFields
    <2>6. QED
      BY <2>2, <2>3, <2>4, <2>5, ProcessWrites
  <1>4. QED
    BY <1>2, <1>3

-------------------------------------------------------------------------------
(* The rest of the world                                                   *)

LEMMA EvictKeeps ==
  ASSUME DeletionInv, NEW p \in Procs, Evict(p) PROVE DeletionInv'
  <1>1. UNCHANGED <<d1, backup, storeVars, accepted, cron, restored>>
        /\ SagaFault /\ Done(p)
    BY DEF Evict
  <1>2. StoresOK'
    BY <1>1, FaultType DEF DeletionInv, DeletionTypeOK, StoresOK, storeVars
  <1>3. accepted' => ledger
    BY <1>1, DatabaseFields
  <1>4. QED
    BY <1>1, <1>2, <1>3, ProcessMoves DEF storeVars

LEMMA JoinKeeps == ASSUME DeletionInv, JoinOtherWorkspace PROVE DeletionInv'
  <1>1. d1' \in Database /\ d1'.ws = d1.ws /\ d1'.job = d1.job
    BY DatabaseFields DEF JoinOtherWorkspace, Database
  <1>2. ChecksHold(d1') /\ TenantSays(d1')
    BY <1>1, DatabaseFields DEF ChecksHold, TenantSays
  <1>3. UNCHANGED <<backup, storeVars, pc, loc, accepted, cron, sagaFaults, restored>>
    BY DEF JoinOtherWorkspace
  <1>4. DeletionTypeOK' /\ TenantSays(d1)' /\ TenantSays(backup)'
    BY <1>1, <1>2, <1>3
    DEF DeletionInv, DeletionTypeOK, TenantOK, ProcessesOK, StoresOK, ChecksHold, TenantSays,
        storeVars
  <1>5. \A p \in Procs : Knows(p)'
    BY <1>1, <1>3 DEF DeletionInv, Knows, storeVars
  <1>6. accepted' => ledger'
    BY <1>3, DatabaseFields DEF storeVars
  <1>7. QED
    BY <1>4, <1>5, <1>6 DEF DeletionInv

LEMMA AgeingType ==
  ASSUME ProcessesOK, Tick, NEW p \in Procs
  PROVE  /\ loc'[p] \in Local
         /\ loc'[p].kind = loc[p].kind /\ loc'[p].status = loc[p].status
         /\ loc'[p].workos = loc[p].workos
  <1>1. loc[p] \in Local /\ RequestLife \in Nat /\ PassLife \in Nat
    BY DeletionAssumption DEF ProcessesOK
  <1>2. loc' = [q \in Procs |-> IF pc[q] = "idle" THEN loc[q]
                                ELSE [loc[q] EXCEPT !.age = @ + 1]]
    BY DEF Tick
  <1>3. CASE pc[p] = "idle"
    BY <1>1, <1>2, <1>3
  <1>4. CASE pc[p] # "idle"
    <2>1. loc[p].age < Life(p) /\ loc[p].age \in Nat
      BY <1>1, <1>4 DEF Tick, Local
    <2>2. Life(p) \in Nat /\ Life(p) <= PassLife + RequestLife
      BY <1>1 DEF Life
    <2>3. loc[p].age + 1 \in 0 .. PassLife + RequestLife
      BY <1>1, <2>1, <2>2
    <2>4. loc'[p] = [loc[p] EXCEPT !.age = loc[p].age + 1]
      BY <1>2, <1>4
    <2>5. QED
      BY <1>1, <2>3, <2>4 DEF Local
  <1>5. QED
    BY <1>3, <1>4

LEMMA TickKeeps == ASSUME DeletionInv, Tick PROVE DeletionInv'
  <1>1. UNCHANGED <<backup, ledger, identity, objects, pc, accepted, sagaFaults, restored>>
    BY DEF Tick
  <1>2. ProcessesOK
    BY DEF DeletionInv, DeletionTypeOK
  <1>3. ProcessesOK'
    <2>1. loc' = [p \in Procs |-> loc'[p]]
      BY DEF Tick
    <2>2. QED
      BY <1>1, <1>2, <2>1, AgeingType DEF ProcessesOK
  <1>4. d1' \in Database /\ ChecksHold(d1') /\ TenantSays(d1') /\ d1'.ws = d1.ws
    <2>1. CASE d1' = d1
      BY <2>1, DatabaseFields
    <2>2. CASE /\ d1.job # None /\ d1.job.wait > 0
               /\ d1' = [d1 EXCEPT !.job.wait = @ - 1]
      <3>1. d1.job \in Job /\ d1.job.wait - 1 \in 0 .. RetryAfter /\ d1.job.status # "complete"
        <4>1. d1.job \in Job /\ d1.job.wait \in 0 .. RetryAfter /\ RetryAfter \in Nat
          BY <2>2, DatabaseFields, DeletionAssumption
        <4>2. d1.job.status # "complete"
          BY <2>2, <4>1, DatabaseFields DEF ChecksHold
        <4>3. QED
          BY <2>2, <4>1, <4>2
      <3>2. PICK n \in Job : /\ n = [d1.job EXCEPT !.wait = d1.job.wait - 1]
                             /\ n.status = d1.job.status /\ n.workos = d1.job.workos
        <4>1. /\ [d1.job EXCEPT !.wait = d1.job.wait - 1] \in Job
              /\ [d1.job EXCEPT !.wait = d1.job.wait - 1].status = d1.job.status
              /\ [d1.job EXCEPT !.wait = d1.job.wait - 1].workos = d1.job.workos
          BY <3>1 DEF Job
        <4>2. QED
          BY <4>1
      <3>3. d1' = [d1 EXCEPT !.job = n]
        BY <2>2, <3>2, DatabaseFields DEF Database
      <3>4. d1' \in Database /\ d1'.job = n /\ d1'.ws = d1.ws
        BY <3>3, DatabaseFields, WithJob
      <3>5. QED
        BY <2>2, <3>1, <3>2, <3>4, DatabaseFields DEF ChecksHold, TenantSays
    <2>3. QED
      BY <2>1, <2>2 DEF Tick
  <1>5. StoresOK'
    <2>1. cron' \in 0 .. CronEvery
      BY DeletionAssumption DEF Tick, DeletionInv, DeletionTypeOK, StoresOK
    <2>2. cached' \in [Keys -> 0 .. VerdictLife]
      <3>1. \A k \in Keys : cached[k] \in 0 .. VerdictLife /\ VerdictLife \in Nat
        BY DeletionAssumption DEF DeletionInv, DeletionTypeOK, StoresOK
      <3>2. \A k \in Keys : (IF cached[k] > 0 THEN cached[k] - 1 ELSE 0) \in 0 .. VerdictLife
        BY <3>1
      <3>3. QED
        BY <3>2 DEF Tick
    <2>3. QED
      BY <1>1, <2>1, <2>2 DEF DeletionInv, DeletionTypeOK, StoresOK
  <1>6. TenantOK' /\ TenantSays(d1)' /\ TenantSays(backup)'
    BY <1>1, <1>4 DEF DeletionInv, DeletionTypeOK, TenantOK, ChecksHold, TenantSays
  <1>7. \A p \in Procs : Knows(p)'
    BY <1>1, <1>2, <1>4, AgeingType DEF DeletionInv, Knows
  <1>8. accepted' => ledger'
    BY <1>1, DatabaseFields
  <1>9. QED
    BY <1>3, <1>5, <1>6, <1>7, <1>8 DEF DeletionInv, DeletionTypeOK

LEMMA RestoreKeeps == ASSUME DeletionInv, Bookmark \/ RestoreD1 PROVE DeletionInv'
  <1>1. UNCHANGED <<storeVars, pc, loc, accepted, cron>>
        /\ d1' \in {d1, backup} /\ backup' \in {d1, backup}
    BY DEF Bookmark, RestoreD1
  <1>2. StoresOK' /\ ProcessesOK'
    <2>1. sagaFaults' \in 0 .. MaxSagaFaults /\ restored' \in BOOLEAN
      <3>1. CASE Bookmark
        BY <3>1 DEF Bookmark, DeletionInv, DeletionTypeOK, StoresOK
      <3>2. CASE RestoreD1
        BY <3>2, FaultType DEF RestoreD1, DeletionInv, DeletionTypeOK
      <3>3. QED
        BY <3>1, <3>2
    <2>2. QED
      BY <1>1, <2>1 DEF DeletionInv, DeletionTypeOK, StoresOK, ProcessesOK, storeVars
  <1>3. TenantOK' /\ TenantSays(d1)' /\ TenantSays(backup)'
    BY <1>1 DEF DeletionInv, DeletionTypeOK, TenantOK, ChecksHold, TenantSays, storeVars
  <1>4. \A p \in Procs : Knows(p)'
    <2>1. CASE d1' = d1
      BY <1>1, <2>1 DEF DeletionInv, Knows, storeVars
    <2>2. CASE \A p \in Procs : pc[p] = "idle"
      BY <1>1, <2>2 DEF Knows, Deleting
    <2>3. QED
      BY <2>1, <2>2 DEF Bookmark, RestoreD1
  <1>5. accepted' => ledger'
    BY <1>1, DatabaseFields DEF storeVars
  <1>6. QED
    BY <1>2, <1>3, <1>4, <1>5 DEF DeletionInv, DeletionTypeOK

LEMMA DeletionStep ==
  ASSUME DeletionInv, [DeletionNext]_deletionVars PROVE DeletionInv'
  <1>1. CASE UNCHANGED deletionVars
    <2>1. DeletionTypeOK'
      BY <1>1 DEF DeletionInv, DeletionTypeOK, TenantOK, ProcessesOK, StoresOK, ChecksHold,
         deletionVars, storeVars
    <2>2. QED
      BY <1>1, <2>1 DEF DeletionInv, TenantSays, Knows, deletionVars, storeVars
  <1>2. ASSUME NEW p \in Requests, RequestStep(p) PROVE DeletionInv'
    <2>1. p \in Procs
      BY DEF Procs
    <2>2. QED
      BY <1>2, <2>1, ArriveKeeps, RequestReads, EnsureLedgerKeeps, SignOutKeeps, PrelockKeeps,
         CreateJobKeeps DEF RequestStep
  <1>3. ASSUME NEW p \in Passes, PassStep(p) PROVE DeletionInv'
    BY <1>3, ReadDueKeeps, AuthorizeKeeps, DeleteIdentityKeeps, MarkKeeps, RetryKeeps,
       SweepKeeps, PurgeKeeps, FinishKeeps DEF PassStep
  <1>4. ASSUME NEW p \in Procs, KVStep(p) \/ Evict(p) PROVE DeletionInv'
    BY <1>4, KVReadKeeps, KVDeleteKeeps, KVMarkKeeps, EvictKeeps DEF KVStep
  <1>5. CASE JoinOtherWorkspace \/ Tick \/ Bookmark \/ RestoreD1
    BY <1>5, JoinKeeps, TickKeeps, RestoreKeeps
  <1>6. QED
    BY <1>1, <1>2, <1>3, <1>4, <1>5 DEF DeletionNext

LEMMA DeletionStart == ASSUME DeletionInit PROVE DeletionInv
  <1>1. NewDatabase \in Database /\ NewDatabase.job = None /\ NewDatabase.ws = "active"
    BY DEF NewDatabase, Database
  <1>2. NewLocal("pass") \in Local
    BY NewLocalType DEF Kinds
  <1>3. DeletionTypeOK
    <2>1. TenantOK
      BY <1>1 DEF DeletionInit, TenantOK, ChecksHold
    <2>2. ProcessesOK
      BY <1>2 DEF DeletionInit, ProcessesOK, SagaLabels
    <2>3. StoresOK
      <3>1. 0 \in 0 .. VerdictLife /\ 0 \in 0 .. CronEvery /\ 0 \in 0 .. MaxSagaFaults
        BY DeletionAssumption
      <3>2. [k \in Keys |-> 0] \in [Keys -> 0 .. VerdictLife]
        BY <3>1
      <3>3. QED
        BY <3>1, <3>2 DEF DeletionInit, StoresOK
    <2>4. QED
      BY <2>1, <2>2, <2>3 DEF DeletionTypeOK
  <1>4. TenantSays(d1) /\ TenantSays(backup)
    BY <1>1 DEF DeletionInit, TenantSays
  <1>5. \A p \in Procs : Knows(p)
    BY DEF DeletionInit, Knows, Deleting
  <1>6. QED
    BY <1>3, <1>4, <1>5 DEF DeletionInit, DeletionInv

-------------------------------------------------------------------------------
(* Every variable stays in its domain and the job keeps the CHECKs of its  *)
(* table; the rows of the tenant go after its identity, behind the ledger. *)
THEOREM RowsGoLast == DeletionSpec => [](DeletionTypeOK /\ RowsOutliveIdentity)
  <1>1. DeletionInit => DeletionInv
    BY DeletionStart
  <1>2. DeletionInv /\ [DeletionNext]_deletionVars => DeletionInv'
    BY DeletionStep
  <1>3. DeletionInv => DeletionTypeOK /\ RowsOutliveIdentity
    BY DEF DeletionInv, TenantSays, RowsOutliveIdentity
  <1>4. QED
    BY <1>1, <1>2, <1>3, PTL DEF DeletionSpec

LEMMA AdmissionHolds ==
  ASSUME DeletionInv, [DeletionNext]_deletionVars PROVE AdmissionStep
  <1>1. SUFFICES ASSUME ledger, NEW p \in Requests, pc[p] = "fence"
                 PROVE  pc'[p] \in {"fence", "idle"}
    BY DatabaseFields DEF AdmissionStep
  <1>2. p \in Procs /\ ProcessesOK
    BY DEF Procs, DeletionInv, DeletionTypeOK
  <1>3. CASE pc'[p] = pc[p]
    BY <1>1, <1>3
  <1>4. CASE \E q \in Procs : Done(q)
    BY <1>1, <1>2, <1>4 DEF ProcessesOK, Done
  <1>5. ASSUME NEW q \in Procs, NEW label, q # p, pc' = [pc EXCEPT ![q] = label]
        PROVE  pc'[p] \in {"fence", "idle"}
    BY <1>1, <1>2, <1>5 DEF ProcessesOK
  <1>6. ASSUME NEW q \in Requests, RequestStep(q) PROVE pc'[p] \in {"fence", "idle"}
    <2>1. q \in Procs
      BY DEF Procs
    <2>2. CASE CheckLedger(q)
      BY <1>1, <1>4, <2>1, <2>2 DEF CheckLedger
    <2>3. CASE ~CheckLedger(q) /\ q = p
      BY <1>1, <1>6, <2>3
      DEF RequestStep, Arrive, ArriveWithKey, ReadSession, ReadVerdict, CacheVerdict,
          PutObject, SignOut, ReadLinks, Prelock, ReadExisting, EnsureDeletionLedger,
          CreateJob, ReadJobAfterFailure
    <2>4. CASE ~CheckLedger(q) /\ q # p
      BY <1>4, <1>5, <1>6, <2>1, <2>4
      DEF RequestStep, Arrive, ArriveWithKey, ReadSession, ReadVerdict, CacheVerdict,
          PutObject, SignOut, ReadLinks, Prelock, ReadExisting, EnsureDeletionLedger,
          CreateJob, ReadJobAfterFailure, Accept, Move
    <2>5. QED
      BY <2>2, <2>3, <2>4
  <1>7. ASSUME NEW q \in Passes, PassStep(q) PROVE pc'[p] \in {"fence", "idle"}
    <2>1. q \in Procs /\ q # p
      BY DeletionAssumption DEF Procs
    <2>2. QED
      BY <1>3, <1>4, <1>5, <1>7, <2>1
      DEF PassStep, ReadDue, AuthorizePass, DeleteWorkOSIdentity, MarkWorkOSDeleted,
          RecordDeletionRetry, SweepPrefix, PurgeWorkspace, FinishDeletion, Move
  <1>8. ASSUME NEW q \in Procs, KVStep(q) \/ Evict(q) PROVE pc'[p] \in {"fence", "idle"}
    <2>1. CASE q = p
      BY <1>1, <1>4, <1>8, <2>1 DEF KVStep, KVRead, KVDelete, KVMark, Evict
    <2>2. CASE q # p
      BY <1>4, <1>5, <1>8, <2>2 DEF KVStep, KVRead, KVDelete, KVMark, KVEnds, Evict, Accept, Move
    <2>3. QED
      BY <2>1, <2>2
  <1>9. CASE JoinOtherWorkspace \/ Tick \/ Bookmark \/ RestoreD1 \/ UNCHANGED deletionVars
    BY <1>3, <1>9 DEF JoinOtherWorkspace, Tick, Bookmark, RestoreD1, deletionVars
  <1>10. QED
    BY <1>6, <1>7, <1>8, <1>9 DEF DeletionNext

(* Once a deletion was accepted no session gets past the ledger, not even  *)
(* on a database restored to the time before.                              *)
THEOREM NobodyIsResurrected == DeletionSpec => NoResurrection
  <1>1. DeletionInit => DeletionInv
    BY DeletionStart
  <1>2. DeletionInv /\ [DeletionNext]_deletionVars => DeletionInv'
    BY DeletionStep
  <1>3. DeletionInv /\ [DeletionNext]_deletionVars => [AdmissionStep]_deletionVars
    BY AdmissionHolds
  <1>4. QED
    BY <1>1, <1>2, <1>3, PTL DEF DeletionSpec, NoResurrection

LEMMA SignOutHolds ==
  ASSUME DeletionInv, [DeletionNext]_deletionVars PROVE RestoreD1 \/ SignOutStep
  <1>1. SUFFICES ASSUME d1.ws = "active", ~RestoreD1
                 PROVE  ledger' = ledger /\ (~d1.session => d1'.ws = "active")
    BY DEF SignOutStep
  <1>2. CASE UNCHANGED <<ledger, d1>>
    BY <1>1, <1>2
  <1>3. ASSUME NEW p \in Requests, RequestStep(p)
        PROVE  ledger' = ledger /\ (~d1.session => d1'.ws = "active")
    <2>0. p \in Procs
      BY DEF Procs
    <2>1. CASE EnsureDeletionLedger(p) \/ CreateJob(p)
      <3>1. d1.ws # "active"
        BY <2>0, <2>1 DEF EnsureDeletionLedger, CreateJob, DeletionInv, Knows
      <3>2. QED
        BY <1>1, <3>1
    <2>2. CASE Prelock(p)
      BY <1>1, <2>2 DEF Prelock, PrelockFails, storeVars
    <2>3. CASE SignOut(p)
      BY <1>1, <2>3, DatabaseFields DEF SignOut, Database, storeVars
    <2>4. QED
      BY <1>2, <1>3, <2>1, <2>2, <2>3
      DEF RequestStep, Arrive, ArriveWithKey, ReadSession, CheckLedger, ReadVerdict,
          CacheVerdict, PutObject, ReadLinks, ReadExisting, ReadJobAfterFailure, storeVars
  <1>4. ASSUME NEW p \in Passes, PassStep(p)
        PROVE  ledger' = ledger /\ (~d1.session => d1'.ws = "active")
    <2>1. p \in Procs /\ (pc[p] # "idle" => d1.ws # "active")
      BY DEF Procs, DeletionInv, Knows
    <2>2. CASE ReadDue(p)
      BY <1>2, <2>2 DEF ReadDue, storeVars
    <2>3. CASE ~ReadDue(p)
      BY <1>1, <1>4, <2>1, <2>3
      DEF PassStep, AuthorizePass, DeleteWorkOSIdentity, MarkWorkOSDeleted,
          RecordDeletionRetry, SweepPrefix, PurgeWorkspace, FinishDeletion
    <2>4. QED
      BY <2>2, <2>3
  <1>5. ASSUME NEW p \in Procs, KVStep(p) \/ Evict(p)
        PROVE  ledger' = ledger /\ (~d1.session => d1'.ws = "active")
    <2>1. ledger' = ledger
      BY <1>5 DEF KVStep, KVRead, KVDelete, KVMark, Evict, storeVars
    <2>2. d1'.ws = d1.ws
      BY <1>5, DatabaseFields DEF KVStep, KVRead, KVDelete, KVMark, Evict, Database
    <2>3. QED
      BY <1>1, <2>1, <2>2
  <1>6. CASE JoinOtherWorkspace
    <2>1. ledger' = ledger /\ d1'.ws = d1.ws
      BY <1>6, DatabaseFields DEF JoinOtherWorkspace, Database, storeVars
    <2>2. QED
      BY <1>1, <2>1
  <1>7. CASE Tick
    <2>1. ledger' = ledger /\ d1'.ws = d1.ws
      BY <1>7, DatabaseFields DEF Tick, Database
    <2>2. QED
      BY <1>1, <2>1
  <1>8. CASE Bookmark \/ UNCHANGED deletionVars
    BY <1>2, <1>8 DEF Bookmark, deletionVars, storeVars
  <1>9. QED
    BY <1>1, <1>3, <1>4, <1>5, <1>6, <1>7, <1>8 DEF DeletionNext

(* A deletion that comes after the sign-out it raced locks nothing and     *)
(* writes no ledger.                                                       *)
THEOREM SignOutIsArbiter == DeletionSpec => SignOutFirstWins
  <1>1. DeletionInit => DeletionInv
    BY DeletionStart
  <1>2. DeletionInv /\ [DeletionNext]_deletionVars => DeletionInv'
    BY DeletionStep
  <1>3. DeletionInv /\ [DeletionNext]_deletionVars => [RestoreD1 \/ SignOutStep]_deletionVars
    BY SignOutHolds
  <1>4. QED
    BY <1>1, <1>2, <1>3, PTL DEF DeletionSpec, SignOutFirstWins

-------------------------------------------------------------------------------
(* A complete deletion                                                     *)
(*                                                                         *)
(* What a complete job says of KV and of R2 rests on the time that passed  *)
(* since the keys were revoked.  Since(c, at, l, e) says that it may be e, *)
(* with the verdicts c, the labels at and the locals l: whatever can still *)
(* write was there before, and could not be there now if more had passed.  *)
Early == {"authorize", "kvRead", "kvDelete", "kvMark"}
Carrying == {"cache", "ensure", "job", "jobFailed", "kvRead", "kvDelete", "kvMark"}
Since(c, at, l, e) ==
  /\ \A k \in Keys : c[k] > 0 => c[k] + e <= RequestLife + VerdictLife
  /\ \A q \in Requests :
       /\ at[q] \in Carrying => e <= l[q].age
       /\ at[q] = "put" =>
            \/ e <= l[q].age
            \/ l[q].kind = "verdict" /\ e <= l[q].age + RequestLife + VerdictLife
(* Nothing can write any more.                                             *)
Quiet(c, at) ==
  (\A k \in Keys : c[k] = 0) /\ \A q \in Requests : at[q] \notin {"cache", "put"}

RequestOK(x, at) ==
  /\ x.age <= RequestLife
  /\ at \in {"verdict", "cache"} => x.kind = "verdict"
  /\ x.kind = "verdict" => x.key \in Keys

(* How long after the revocation a job has got to where it is, at least,   *)
(* before the period of the cron that is running.                          *)
Cleared(db) == \E k \in Keys : db.kv[k] = "deleted"
Elapsed(db) ==
  IF db.job.status = "pending" THEN IF db.job.workos THEN CronEvery ELSE 0
  ELSE IF Cleared(db) THEN 3 * CronEvery ELSE 2 * CronEvery
Dated(db, c, at, l, o, t) ==
  db.job # None =>
    /\ db.session = FALSE /\ db.keys = FALSE
    /\ db.job.status # "pending" => db.ws = "gone"
    /\ IF db.job.status = "complete"
         THEN Quiet(c, at) /\ o = {} /\ \A k \in Keys : db.kv[k] = "none"
         ELSE Since(c, at, l, Elapsed(db) - t) /\ \A k \in Keys : db.kv[k] # "none"

(* A pass that runs knows what the job knew when it started.               *)
PassElapsed(x) ==
  IF x.status = "pending" THEN IF x.workos THEN CronEvery ELSE 0 ELSE 2 * CronEvery
OnTime(p) ==
  pc[p] # "idle" =>
    /\ d1.job # None
    /\ CronEvery - cron <= loc[p].age
    /\ Since(cached, pc, loc, PassElapsed(loc[p]) + loc[p].age)
    /\ loc[p].status = "r2_grace" => d1.job.status # "pending"
Apart(p, q) ==
  p # q /\ pc[p] # "idle" /\ pc[q] # "idle" =>
    loc[p].age + CronEvery <= loc[q].age \/ loc[q].age + CronEvery <= loc[p].age
(* A pass of the grace period sweeps when nothing writes any more.         *)
Swept(p) ==
  /\ pc[p] \in {"authorize", "kvRead"} => loc[p].left = Prefixes
  /\ pc[p] = "finish" => loc[p].status = "r2_grace" /\ loc[p].left = {}
  /\ loc[p].status = "r2_grace" /\ pc[p] \in {"sweep", "finish"} =>
       Quiet(cached, pc) /\ objects \subseteq loc[p].left

(* In the grace period an entry marked deleted, or a pass from before that *)
(* can still mark one, means that another period of the cron has passed.   *)
Stale(p) == pc[p] \in Early /\ loc[p].status = "pending" /\ loc[p].workos
Late == JobIs("r2_grace") /\ (Cleared(d1) \/ \E p \in Passes : Stale(p))
LateOK ==
  Late => /\ Since(cached, pc, loc, 3 * CronEvery - cron)
          /\ \A g \in Passes :
               loc[g].status = "r2_grace" /\ pc[g] \in {"authorize", "kvRead"} =>
                 Since(cached, pc, loc, 3 * CronEvery)

DatedNow(db) == Dated(db, cached, pc, loc, objects, cron)
ErasureInv ==
  /\ DeletionInv
  /\ \A q \in Requests : RequestOK(loc[q], pc[q])
  /\ DatedNow(d1)
  /\ restored = FALSE => DatedNow(backup) /\ (backup.job # None => d1.job # None)
  /\ \A p \in Passes : OnTime(p) /\ Swept(p)
  /\ \A p, q \in Passes : Apart(p, q)
  /\ LateOK

-------------------------------------------------------------------------------
(* Time                                                                    *)

Clocks(c, l) == (\A k \in Keys : c[k] \in Nat) /\ \A p \in Procs : l[p].age \in Nat

LEMMA Lengths ==
  /\ RequestLife \in Nat /\ VerdictLife \in Nat \ {0} /\ CronEvery \in Nat /\ PassLife \in Nat
  /\ RequestLife < CronEvery /\ VerdictLife <= CronEvery
  BY DeletionAssumption, LifeAssumption

LEMMA ClocksRun == ASSUME DeletionInv PROVE Clocks(cached, loc) /\ cron \in 0 .. CronEvery
  <1>1. cached \in [Keys -> 0 .. VerdictLife] /\ loc \in [Procs -> Local] /\ cron \in 0 .. CronEvery
    BY DEF DeletionInv, DeletionTypeOK, StoresOK, ProcessesOK
  <1>2. \A k \in Keys : cached[k] \in Nat
    BY <1>1, Lengths
  <1>3. \A p \in Procs : loc[p].age \in Nat
    BY <1>1, Lengths DEF Local
  <1> QED BY <1>1, <1>2, <1>3 DEF Clocks

(* Less may have passed as well.                                           *)
LEMMA SinceLess ==
  ASSUME NEW c, NEW at, NEW l, Clocks(c, l), NEW e \in Int, NEW f \in Int, f <= e,
         Since(c, at, l, e)
  PROVE  Since(c, at, l, f)
  <1>1. ASSUME NEW k \in Keys, c[k] > 0 PROVE c[k] + f <= RequestLife + VerdictLife
    <2>1. c[k] \in Nat /\ c[k] + e <= RequestLife + VerdictLife
      BY <1>1 DEF Since, Clocks
    <2> QED BY <2>1, Lengths
  <1>2. ASSUME NEW q \in Requests
        PROVE  /\ at[q] \in Carrying => f <= l[q].age
               /\ at[q] = "put" =>
                    \/ f <= l[q].age
                    \/ l[q].kind = "verdict" /\ f <= l[q].age + RequestLife + VerdictLife
    <2>1. l[q].age \in Nat
      BY DEF Clocks, Procs
    <2>2. at[q] \in Carrying => e <= l[q].age
      BY DEF Since
    <2>3. at[q] = "put" =>
                    \/ e <= l[q].age
                    \/ l[q].kind = "verdict" /\ e <= l[q].age + RequestLife + VerdictLife
      BY DEF Since
    <2> QED BY <2>1, <2>2, <2>3, Lengths
  <1> QED BY <1>1, <1>2 DEF Since

(* After three periods of the cron nothing writes any more; without keys,  *)
(* after two.                                                              *)
LEMMA AtRest ==
  ASSUME DeletionInv, \A q \in Requests : RequestOK(loc[q], pc[q]),
         NEW e \in Int, Since(cached, pc, loc, e),
         3 * CronEvery <= e \/ (Keys = {} /\ 2 * CronEvery <= e)
  PROVE  Quiet(cached, pc)
  <1>1. ASSUME NEW k \in Keys PROVE cached[k] = 0
    <2>1. cached[k] \in Nat /\ (cached[k] > 0 => cached[k] + e <= RequestLife + VerdictLife)
      BY ClocksRun DEF Since, Clocks
    <2>2. 3 * CronEvery <= e
      OBVIOUS
    <2> QED BY <2>1, <2>2, Lengths
  <1>2. ASSUME NEW q \in Requests PROVE pc[q] \notin {"cache", "put"}
    <2>1. loc[q].age \in Nat /\ loc[q].age <= RequestLife
      BY ClocksRun DEF Clocks, Procs, RequestOK
    <2>2. pc[q] = "cache" => e <= loc[q].age
      BY DEF Since, Carrying
    <2>3. pc[q] = "put" =>
            \/ e <= loc[q].age
            \/ loc[q].kind = "verdict" /\ e <= loc[q].age + RequestLife + VerdictLife
      BY DEF Since
    <2>4. loc[q].kind = "verdict" => Keys # {}
      BY DEF RequestOK
    <2>5. 2 * CronEvery <= e /\ (Keys # {} => 3 * CronEvery <= e)
      BY Lengths
    <2> QED BY <2>1, <2>2, <2>3, <2>4, <2>5, Lengths
  <1> QED BY <1>1, <1>2 DEF Quiet

-------------------------------------------------------------------------------
(* What a step leaves to the others                                        *)

(* A request gets no further towards a write than it was when the keys     *)
(* were revoked.                                                           *)
Behaves(q) ==
  /\ pc'[q] \in Carrying => pc[q] \in Carrying /\ loc'[q].age = loc[q].age
  /\ pc'[q] = "cache" => pc[q] = "cache"
  /\ pc'[q] = "put" =>
       /\ loc'[q] = loc[q]
       /\ pc[q] \in {"put", "cache"} \/ (pc[q] = "verdict" /\ cached[loc[q].key] > 0)
VerdictsGo ==
  \A k \in Keys : cached'[k] <= cached[k]
                  \/ (cached'[k] = VerdictLife /\ \E q \in Requests : pc[q] = "cache")
ObjectsGo == objects' \subseteq objects \/ \E q \in Requests : pc[q] = "put"
Tame == (\A q \in Requests : Behaves(q)) /\ VerdictsGo /\ ObjectsGo
RequestsOK == \A q \in Requests : RequestOK(loc[q], pc[q])
(* A pass goes on, or ends.                                                *)
GoesOn(p) ==
  pc'[p] # "idle" =>
    /\ pc[p] # "idle"
    /\ loc'[p].age = loc[p].age /\ loc'[p].status = loc[p].status /\ loc'[p].workos = loc[p].workos
    /\ pc'[p] \in Early => pc[p] \in Early
    /\ pc'[p] \in {"authorize", "kvRead"} => pc[p] \in {"authorize", "kvRead"}
KeepsSweeping(p) ==
  /\ pc'[p] \in {"authorize", "kvRead"} => loc'[p].left = loc[p].left
  /\ pc'[p] \in {"sweep", "finish"} => pc'[p] = pc[p] /\ loc'[p].left = loc[p].left
(* Nothing of D1 that a date is about changes.                             *)
Alike(db, next) ==
  /\ next.kv = db.kv
  /\ db.job = None => next.job = None
  /\ next.job # None => next.job.status = db.job.status /\ next.job.workos = db.job.workos
  /\ db.session = FALSE => next.session = FALSE
  /\ db.keys = FALSE => next.keys = FALSE
  /\ db.ws = "gone" => next.ws = "gone"

LEMMA SinceStays ==
  ASSUME DeletionInv, DeletionInv', RequestsOK, Tame,
         NEW e \in Int, Since(cached, pc, loc, e)
  PROVE  Since(cached', pc', loc', e)
  <1>0. Clocks(cached, loc) /\ Clocks(cached', loc')
    <2>1. Clocks(cached, loc)
      BY ClocksRun
    <2>2. (Clocks(cached, loc) /\ cron \in 0 .. CronEvery)'
      BY ClocksRun, PTL
    <2> QED BY <2>1, <2>2 DEF Clocks
  <1>1. ASSUME NEW k \in Keys, cached'[k] > 0 PROVE cached'[k] + e <= RequestLife + VerdictLife
    <2>1. cached[k] \in Nat /\ cached'[k] \in Nat
      BY <1>0 DEF Clocks
    <2>2. CASE cached'[k] <= cached[k]
      <3>1. cached[k] + e <= RequestLife + VerdictLife
        BY <1>1, <2>1, <2>2 DEF Since
      <3> QED BY <2>1, <2>2, <3>1, Lengths
    <2>3. CASE cached'[k] = VerdictLife /\ \E q \in Requests : pc[q] = "cache"
      <3>1. PICK q \in Requests : pc[q] = "cache"
        BY <2>3
      <3>2. e <= loc[q].age /\ loc[q].age <= RequestLife /\ loc[q].age \in Nat
        BY <1>0, <3>1 DEF Since, Carrying, RequestsOK, RequestOK, Clocks, Procs
      <3> QED BY <2>3, <3>2, Lengths
    <2> QED BY <2>2, <2>3 DEF Tame, VerdictsGo
  <1>2. ASSUME NEW q \in Requests
        PROVE  /\ pc'[q] \in Carrying => e <= loc'[q].age
               /\ pc'[q] = "put" =>
                    \/ e <= loc'[q].age
                    \/ loc'[q].kind = "verdict" /\ e <= loc'[q].age + RequestLife + VerdictLife
    <2>1. Behaves(q) /\ RequestOK(loc[q], pc[q])
      BY DEF Tame, RequestsOK
    <2>2. loc[q].age \in Nat
      BY <1>0 DEF Clocks, Procs
    <2>3. pc[q] \in Carrying => e <= loc[q].age
      BY DEF Since
    <2>4. pc[q] = "put" =>
                    \/ e <= loc[q].age
                    \/ loc[q].kind = "verdict" /\ e <= loc[q].age + RequestLife + VerdictLife
      BY DEF Since
    <2>5. pc'[q] \in Carrying => e <= loc'[q].age
      BY <2>1, <2>3 DEF Behaves
    <2>6. ASSUME pc'[q] = "put"
          PROVE  \/ e <= loc'[q].age
                 \/ loc'[q].kind = "verdict" /\ e <= loc'[q].age + RequestLife + VerdictLife
      <3>1. CASE pc[q] \in {"put", "cache"}
        BY <2>1, <2>3, <2>4, <2>6, <3>1 DEF Behaves, Carrying
      <3>2. CASE pc[q] = "verdict" /\ cached[loc[q].key] > 0
        <4>1. loc[q].kind = "verdict" /\ loc[q].key \in Keys
          BY <2>1, <3>2 DEF RequestOK
        <4>2. PICK n \in Nat : n = cached[loc[q].key] /\ n > 0 /\ n + e <= RequestLife + VerdictLife
          BY <1>0, <3>2, <4>1 DEF Since, Clocks
        <4>3. e <= loc[q].age + RequestLife + VerdictLife
          BY <2>2, <4>2, Lengths
        <4> QED BY <2>1, <2>6, <4>1, <4>3 DEF Behaves
      <3> QED BY <2>1, <2>6, <3>1, <3>2 DEF Behaves
    <2> QED BY <2>5, <2>6
  <1> QED BY <1>1, <1>2 DEF Since

LEMMA QuietStays ==
  ASSUME DeletionInv, DeletionInv', RequestsOK, Tame, Quiet(cached, pc)
  PROVE  Quiet(cached', pc') /\ objects' \subseteq objects
  <1>1. ASSUME NEW k \in Keys PROVE cached'[k] = 0
    <2>1. cached[k] = 0 /\ cached'[k] <= cached[k]
      BY DEF Quiet, Tame, VerdictsGo
    <2>2. cached' \in [Keys -> 0 .. VerdictLife]
      BY DEF DeletionInv, DeletionTypeOK, StoresOK
    <2> QED BY <2>1, <2>2, Lengths
  <1>2. ASSUME NEW q \in Requests PROVE pc'[q] \notin {"cache", "put"}
    <2>1. pc[q] \notin {"cache", "put"} /\ Behaves(q) /\ RequestOK(loc[q], pc[q])
      BY DEF Quiet, Tame, RequestsOK
    <2>2. pc'[q] # "put"
      <3>1. pc[q] = "verdict" => cached[loc[q].key] = 0
        BY <2>1 DEF RequestOK, Quiet
      <3> QED BY <2>1, <3>1 DEF Behaves
    <2>3. pc'[q] # "cache"
      BY <2>1 DEF Behaves
    <2> QED BY <2>2, <2>3
  <1>3. objects' \subseteq objects
    BY DEF Quiet, Tame, ObjectsGo
  <1> QED BY <1>1, <1>2, <1>3 DEF Quiet

LEMMA DatedStays ==
  ASSUME DeletionInv, DeletionInv', RequestsOK, Tame, cron <= cron',
         NEW db, NEW next, Alike(db, next), DatedNow(db)
  PROVE  Dated(next, cached', pc', loc', objects', cron')
  <1> SUFFICES ASSUME next.job # None
               PROVE  /\ next.session = FALSE /\ next.keys = FALSE
                      /\ next.job.status # "pending" => next.ws = "gone"
                      /\ IF next.job.status = "complete"
                           THEN Quiet(cached', pc') /\ objects' = {} /\ \A k \in Keys : next.kv[k] = "none"
                           ELSE /\ Since(cached', pc', loc', Elapsed(next) - cron')
                                /\ \A k \in Keys : next.kv[k] # "none"
    BY DEF Dated
  <1>1. /\ db.job # None /\ next.kv = db.kv
        /\ next.job.status = db.job.status /\ next.job.workos = db.job.workos
    BY DEF Alike
  <1>2. /\ db.session = FALSE /\ db.keys = FALSE
        /\ db.job.status # "pending" => db.ws = "gone"
        /\ IF db.job.status = "complete"
             THEN Quiet(cached, pc) /\ objects = {} /\ \A k \in Keys : db.kv[k] = "none"
             ELSE Since(cached, pc, loc, Elapsed(db) - cron) /\ \A k \in Keys : db.kv[k] # "none"
    BY <1>1 DEF DatedNow, Dated
  <1>3. CASE db.job.status = "complete"
    BY <1>1, <1>2, <1>3, QuietStays DEF Alike
  <1>4. CASE db.job.status # "complete"
    <2>1. Elapsed(next) = Elapsed(db) /\ Elapsed(db) \in Int
      BY <1>1, Lengths DEF Elapsed, Cleared
    <2>2. cron \in Int /\ cron' \in Int
      BY DEF DeletionInv, DeletionTypeOK, StoresOK
    <2>3. PICK e \in Int, f \in Int : e = Elapsed(db) - cron /\ f = Elapsed(next) - cron' /\ f <= e
      BY <2>1, <2>2
    <2>4. Since(cached, pc, loc, f)
      BY <1>2, <1>4, <2>3, ClocksRun, SinceLess
    <2>5. Since(cached', pc', loc', f)
      BY <2>4, SinceStays
    <2> QED BY <1>1, <1>2, <1>4, <2>3, <2>5 DEF Alike
  <1> QED BY <1>3, <1>4

JobGoesOn ==
  d1.job # None =>
    d1'.job # None /\ (d1.job.status # "pending" => d1'.job.status # "pending")

LEMMA OnTimeStays ==
  ASSUME DeletionInv, DeletionInv', RequestsOK, Tame, cron' = cron, JobGoesOn,
         NEW p \in Passes, OnTime(p), GoesOn(p)
  PROVE  OnTime(p)'
  <1> SUFFICES ASSUME pc'[p] # "idle"
               PROVE  /\ d1'.job # None
                      /\ CronEvery - cron' <= loc'[p].age
                      /\ Since(cached', pc', loc', PassElapsed(loc'[p]) + loc'[p].age)
                      /\ loc'[p].status = "r2_grace" => d1'.job.status # "pending"
    BY DEF OnTime
  <1>1. /\ pc[p] # "idle" /\ loc'[p].age = loc[p].age
        /\ loc'[p].status = loc[p].status /\ loc'[p].workos = loc[p].workos
    BY DEF GoesOn
  <1>2. PassElapsed(loc'[p]) = PassElapsed(loc[p]) /\ PassElapsed(loc[p]) \in Int
    BY <1>1, Lengths DEF PassElapsed
  <1>3. loc[p].age \in Nat
    BY ClocksRun DEF Clocks, Procs
  <1>4. PICK e \in Int : e = PassElapsed(loc[p]) + loc[p].age
    BY <1>2, <1>3
  <1>5. Since(cached', pc', loc', e)
    BY <1>1, <1>4, SinceStays DEF OnTime
  <1> QED BY <1>1, <1>2, <1>4, <1>5 DEF OnTime, JobGoesOn

LEMMA ApartStays ==
  ASSUME NEW p \in Passes, NEW q \in Passes, Apart(p, q), GoesOn(p), GoesOn(q)
  PROVE  Apart(p, q)'
  BY DEF Apart, GoesOn

LEMMA LateStays ==
  ASSUME DeletionInv, DeletionInv', RequestsOK, Tame, cron' = cron,
         Late, LateOK, \A p \in Passes : GoesOn(p)
  PROVE  LateOK'
  <1>0. CronEvery \in Nat /\ cron \in 0 .. CronEvery
    BY Lengths, ClocksRun
  <1>1. PICK e \in Int : e = 3 * CronEvery - cron
    <2>1. 3 * CronEvery - cron \in Int
      BY <1>0
    <2> QED BY <2>1
  <1>2. Since(cached', pc', loc', e)
    BY <1>1, SinceStays DEF LateOK
  <1>3. ASSUME NEW g \in Passes,
               loc'[g].status = "r2_grace" /\ pc'[g] \in {"authorize", "kvRead"}
        PROVE  Since(cached', pc', loc', 3 * CronEvery)
    <2>1. loc[g].status = "r2_grace" /\ pc[g] \in {"authorize", "kvRead"}
      BY <1>3 DEF GoesOn
    <2>2. PICK f \in Int : f = 3 * CronEvery
      BY Lengths
    <2>3. Since(cached, pc, loc, f)
      BY <2>1, <2>2 DEF LateOK
    <2> QED BY <2>2, <2>3, SinceStays
  <1> QED BY <1>1, <1>2, <1>3 DEF LateOK

(* What is left to show of a step in which no time passes and no pass      *)
(* starts; the same when the job and its entries stay as they are.         *)
LEMMA JobStep ==
  ASSUME ErasureInv, DeletionInv', RequestsOK', Tame, cron' = cron,
         UNCHANGED <<backup, restored>>, JobGoesOn,
         \A p \in Passes : GoesOn(p) /\ Swept(p)',
         DatedNow(d1)', LateOK'
  PROVE  ErasureInv'
  <1>1. DeletionInv /\ RequestsOK
    BY DEF ErasureInv, RequestsOK
  <1>2. \A p \in Passes : OnTime(p)'
    BY <1>1, OnTimeStays DEF ErasureInv
  <1>3. \A p, q \in Passes : Apart(p, q)'
    BY ApartStays DEF ErasureInv
  <1>4. restored' = FALSE => DatedNow(backup)' /\ (backup'.job # None => d1'.job # None)
    <2> SUFFICES ASSUME restored' = FALSE
                 PROVE  DatedNow(backup)' /\ (backup'.job # None => d1'.job # None)
      OBVIOUS
    <2>1. DatedNow(backup) /\ (backup.job # None => d1.job # None)
      BY DEF ErasureInv
    <2>2. cron <= cron'
      BY DEF DeletionInv, DeletionTypeOK, StoresOK
    <2>3. Alike(backup, backup')
      BY DEF Alike
    <2>4. Dated(backup', cached', pc', loc', objects', cron')
      BY <1>1, <2>1, <2>2, <2>3, DatedStays
    <2> QED BY <2>1, <2>4 DEF DatedNow, JobGoesOn
  <1> QED BY <1>2, <1>3, <1>4 DEF ErasureInv, RequestsOK

LEMMA PlainStep ==
  ASSUME ErasureInv, DeletionInv', RequestsOK', Tame, cron' = cron,
         UNCHANGED <<backup, restored>>,
         \A p \in Passes : GoesOn(p) /\ Swept(p)',
         Alike(d1, d1'), d1.job # None => d1'.job # None
  PROVE  ErasureInv'
  <1>1. DeletionInv /\ RequestsOK
    BY DEF ErasureInv, RequestsOK
  <1>2. JobGoesOn
    BY DEF JobGoesOn, Alike
  <1>3. DatedNow(d1)'
    <2>1. cron <= cron'
      BY DEF DeletionInv, DeletionTypeOK, StoresOK
    <2>2. Dated(d1', cached', pc', loc', objects', cron')
      BY <1>1, <2>1, DatedStays DEF ErasureInv
    <2> QED BY <2>2 DEF DatedNow
  <1>4. LateOK'
    <2>1. CASE Late
      BY <1>1, <2>1, LateStays DEF ErasureInv
    <2>2. CASE ~Late
      <3>1. ~Late'
        <4>1. \A p \in Passes : Stale(p)' => Stale(p)
          BY DEF Stale, GoesOn, Early
        <4>2. JobIs("r2_grace")' => JobIs("r2_grace")
          BY DEF JobIs, Alike
        <4>3. Cleared(d1)' => Cleared(d1)
          BY DEF Cleared, Alike
        <4> QED BY <2>2, <4>1, <4>2, <4>3 DEF Late
      <3> QED BY <3>1 DEF LateOK
    <2> QED BY <2>1, <2>2
  <1> QED BY <1>1, <1>2, <1>3, <1>4, JobStep

LEMMA SweptStays ==
  ASSUME DeletionInv, DeletionInv', RequestsOK, Tame,
         NEW p \in Passes, Swept(p), GoesOn(p), KeepsSweeping(p)
  PROVE  Swept(p)'
  <1>1. CASE pc'[p] \notin {"sweep", "finish"}
    BY <1>1 DEF Swept, GoesOn, KeepsSweeping
  <1>2. CASE pc'[p] \in {"sweep", "finish"}
    <2>1. pc'[p] = pc[p] /\ loc'[p].left = loc[p].left /\ loc'[p].status = loc[p].status
      BY <1>2 DEF KeepsSweeping, GoesOn
    <2>2. Quiet(cached, pc) => Quiet(cached', pc') /\ objects' \subseteq objects
      BY QuietStays
    <2> QED BY <1>2, <2>1, <2>2 DEF Swept
  <1> QED BY <1>1, <1>2

(* The step of one process, seen by the others.                            *)
Only(p) == \A q \in Procs : q # p => pc'[q] = pc[q] /\ loc'[q] = loc[q]
LEMMA OneStep ==
  ASSUME ErasureInv, DeletionInv', NEW p \in Procs, Only(p),
         p \in Requests => Behaves(p) /\ RequestOK(loc'[p], pc'[p]),
         p \in Passes => GoesOn(p),
         VerdictsGo, ObjectsGo
  PROVE  /\ Tame /\ RequestsOK' /\ (\A g \in Passes : GoesOn(g))
         /\ \A g \in Passes : g # p \/ KeepsSweeping(p) => Swept(g)'
  <1>0. DeletionInv /\ RequestsOK
    BY DEF ErasureInv, RequestsOK
  <1>1. ASSUME NEW q \in Requests PROVE Behaves(q) /\ RequestOK(loc'[q], pc'[q])
    <2>1. CASE q # p
      BY <1>0, <2>1 DEF Only, Behaves, RequestsOK, Procs
    <2>2. CASE q = p
      BY <2>2
    <2> QED BY <2>1, <2>2
  <1>2. ASSUME NEW g \in Passes PROVE GoesOn(g) /\ (g # p => KeepsSweeping(g))
    <2>1. CASE g # p
      BY <2>1 DEF Only, GoesOn, KeepsSweeping, Procs
    <2>2. CASE g = p
      BY <2>2
    <2> QED BY <2>1, <2>2
  <1>3. Tame
    BY <1>1 DEF Tame
  <1>4. ASSUME NEW g \in Passes, g # p \/ KeepsSweeping(p) PROVE Swept(g)'
    BY <1>0, <1>2, <1>3, <1>4, SweptStays DEF ErasureInv
  <1> QED BY <1>1, <1>2, <1>3, <1>4 DEF RequestsOK

-------------------------------------------------------------------------------
(* Requests, after the revocation                                          *)

GetsOn(p, label) ==
  /\ label \in SagaLabels \ {"verdict", "cache"} /\ Move(p, label)
  /\ label \in Carrying => pc[p] \in Carrying
  /\ label = "put" => pc[p] = "cache" \/ (pc[p] = "verdict" /\ cached[loc[p].key] > 0)
LEMMA MovesOn ==
  ASSUME DeletionInv, RequestsOK, NEW p \in Requests,
         Done(p) \/ \E label : GetsOn(p, label)
  PROVE  Only(p) /\ Behaves(p) /\ RequestOK(loc'[p], pc'[p])
  <1>0. p \in Procs /\ ProcessesOK /\ RequestOK(loc[p], pc[p])
    BY DEF Procs, DeletionInv, DeletionTypeOK, RequestsOK
  <1>1. CASE Done(p)
    <2>1. Only(p) /\ pc'[p] = "idle"
      BY <1>0, <1>1, DoneType DEF Only
    <2>2. loc'[p] = NewLocal("pass")
      BY <1>0, <1>1 DEF Done, ProcessesOK
    <2>3. NewLocal("pass").age = 0 /\ NewLocal("pass").kind = "pass"
      BY DEF NewLocal
    <2> QED BY <2>1, <2>2, <2>3, Lengths DEF Behaves, RequestOK, Carrying
  <1>2. ASSUME NEW label, GetsOn(p, label) PROVE Only(p) /\ Behaves(p) /\ RequestOK(loc'[p], pc'[p])
    <2>1. label \in SagaLabels /\ Move(p, label)
      BY <1>2 DEF GetsOn
    <2>2. Only(p) /\ pc'[p] = label /\ loc' = loc
      BY <1>0, <2>1, MoveType DEF Only
    <2> QED BY <1>0, <1>2, <2>2 DEF GetsOn, Behaves, RequestOK
  <1> QED BY <1>1, <1>2

LEMMA RequestArrives ==
  ASSUME DeletionInv, NEW p \in Requests, Arrive(p) \/ ArriveWithKey(p)
  PROVE  Only(p) /\ pc'[p] \in {"session", "verdict"} /\ RequestOK(loc'[p], pc'[p])
  <1>0. p \in Procs /\ ProcessesOK
    BY DEF Procs, DeletionInv, DeletionTypeOK
  <1>1. PICK l \in Local, at \in {"session", "verdict"} :
          /\ loc' = [loc EXCEPT ![p] = l] /\ pc' = [pc EXCEPT ![p] = at]
          /\ RequestOK(l, at)
    <2>1. CASE Arrive(p)
      <3>1. PICK kind \in Kinds \ {"pass", "verdict"} :
              loc' = [loc EXCEPT ![p] = NewLocal(kind)] /\ pc' = [pc EXCEPT ![p] = "session"]
        BY <2>1 DEF Arrive
      <3>2. RequestOK(NewLocal(kind), "session")
        BY Lengths DEF NewLocal, RequestOK
      <3> QED BY <3>1, <3>2, NewLocalType
    <2>2. CASE ArriveWithKey(p)
      <3>1. PICK k \in Keys :
              /\ loc' = [loc EXCEPT ![p] = [NewLocal("verdict") EXCEPT !.key = k]]
              /\ pc' = [pc EXCEPT ![p] = "verdict"]
        BY <2>2 DEF ArriveWithKey
      <3>2. RequestOK([NewLocal("verdict") EXCEPT !.key = k], "verdict")
        BY Lengths DEF NewLocal, RequestOK
      <3>3. "verdict" \in Kinds
        BY DEF Kinds
      <3> QED BY <3>1, <3>2, <3>3, NewLocalType
    <2> QED BY <2>1, <2>2
  <1>2. pc'[p] = at /\ loc'[p] = l /\ Only(p)
    BY <1>0, <1>1 DEF ProcessesOK, Only
  <1> QED BY <1>1, <1>2

LEMMA RequestReadsKV ==
  ASSUME DeletionInv, RequestsOK, NEW p \in Requests, KVRead(p)
  PROVE  \/ Done(p)
         \/ /\ pc'[p] = "kvDelete" /\ Only(p) /\ RequestOK(loc'[p], pc'[p])
            /\ loc'[p].age = loc[p].age
  <1>0. p \in Procs /\ p \notin Passes /\ ProcessesOK /\ RequestOK(loc[p], pc[p])
    BY DeletionAssumption DEF Procs, DeletionInv, DeletionTypeOK, RequestsOK
  <1>1. CASE Done(p)
    BY <1>1
  <1>2. CASE \E page \in SUBSET Keys : /\ loc' = [loc EXCEPT ![p].page = page]
                                       /\ pc' = [pc EXCEPT ![p] = "kvDelete"]
    <2>1. PICK page \in SUBSET Keys : /\ loc' = [loc EXCEPT ![p].page = page]
                                      /\ pc' = [pc EXCEPT ![p] = "kvDelete"]
      BY <1>2
    <2>2. /\ pc'[p] = "kvDelete" /\ Only(p) /\ loc'[p].age = loc[p].age
          /\ loc'[p].kind = loc[p].kind /\ loc'[p].key = loc[p].key
      BY <1>0, <2>1 DEF ProcessesOK, Local, Only
    <2> QED BY <1>0, <2>2 DEF RequestOK
  <1> QED BY <1>0, <1>1, <1>2 DEF KVRead, Accept

(* With a job the keys and the session are revoked, the workspace locked   *)
(* and the ledger written: a request changes nothing in D1, starts no new  *)
(* write, and can only finish one.                                         *)
LEMMA FencedRequest ==
  ASSUME ErasureInv, d1.job # None, NEW p \in Requests,
         RequestStep(p) \/ KVStep(p) \/ Evict(p)
  PROVE  /\ Only(p) /\ Behaves(p) /\ RequestOK(loc'[p], pc'[p]) /\ VerdictsGo /\ ObjectsGo
         /\ KVMark(p) \/ d1' = d1
         /\ UNCHANGED <<backup, cron, restored>>
  <1>0. /\ DeletionInv /\ RequestsOK /\ p \in Procs /\ p \notin Passes /\ RequestOK(loc[p], pc[p])
        /\ d1.session = FALSE /\ d1.keys = FALSE /\ ledger /\ d1.ws # "active"
        /\ ProcessesOK
    BY DeletionAssumption
    DEF ErasureInv, RequestsOK, Procs, DatedNow, Dated, DeletionInv, TenantSays, DeletionTypeOK
  <1>1. UNCHANGED <<backup, cron, restored>>
    BY DEF RequestStep, KVStep, Evict, Arrive, ArriveWithKey, ReadSession, CheckLedger, ReadVerdict,
       CacheVerdict, PutObject, SignOut, ReadLinks, Prelock, ReadExisting, EnsureDeletionLedger,
       CreateJob, ReadJobAfterFailure, KVRead, KVDelete, KVMark
  <1>2. KVMark(p) \/ d1' = d1
    BY <1>0
    DEF RequestStep, KVStep, KVRead, KVDelete, Evict, Arrive, ArriveWithKey, ReadSession, CheckLedger, ReadVerdict,
       CacheVerdict, PutObject, SignOut, ReadLinks, Prelock, PrelockFails, ReadExisting,
       EnsureDeletionLedger, CreateJob, ReadJobAfterFailure
  <1>3. ObjectsGo
    BY DEF RequestStep, KVStep, Evict, Arrive, ArriveWithKey, ReadSession, CheckLedger, ReadVerdict,
       CacheVerdict, PutObject, SignOut, ReadLinks, Prelock, ReadExisting, EnsureDeletionLedger,
       CreateJob, ReadJobAfterFailure, KVRead, KVDelete, KVMark, storeVars, ObjectsGo
  <1>4. VerdictsGo
    <2>0. cached \in [Keys -> 0 .. VerdictLife]
      BY <1>0 DEF DeletionInv, DeletionTypeOK, StoresOK
    <2>1. CASE cached' = cached
      BY <2>0, <2>1, Lengths DEF VerdictsGo
    <2>2. CASE CacheVerdict(p)
      BY <2>0, <2>2, Lengths DEF CacheVerdict, VerdictsGo
    <2>3. CASE KVDelete(p)
      <3>1. PICK page : cached' = Without(page)
        BY <2>3 DEF KVDelete
      <3> QED BY <2>0, <3>1, Lengths DEF Without, VerdictsGo
    <2> QED BY <2>1, <2>2, <2>3
            DEF RequestStep, KVStep, Evict, Arrive, ArriveWithKey, ReadSession, CheckLedger, ReadVerdict,
            PutObject, SignOut, ReadLinks, Prelock, ReadExisting, EnsureDeletionLedger,
            CreateJob, ReadJobAfterFailure, KVRead, KVMark, storeVars
  <1>5. Only(p) /\ Behaves(p) /\ RequestOK(loc'[p], pc'[p])
    <2>1. CASE Arrive(p) \/ ArriveWithKey(p)
      BY <1>0, <2>1, RequestArrives DEF Behaves, Carrying
    <2>3. CASE Done(p) \/ \E label : GetsOn(p, label)
      BY <1>0, <2>3, MovesOn
    <2>4. CASE ReadSession(p) \/ CheckLedger(p)
      BY <1>0, <2>3, <2>4 DEF ReadSession, CheckLedger
    <2>5. CASE ReadVerdict(p) \/ CacheVerdict(p)
      <3>1. Done(p) \/ GetsOn(p, "put")
        BY <1>0, <2>5 DEF ReadVerdict, CacheVerdict, GetsOn, SagaLabels, Carrying
      <3> QED BY <2>3, <3>1
    <2>6. CASE PutObject(p) \/ SignOut(p) \/ ReadExisting(p) \/ Evict(p)
      BY <2>3, <2>6 DEF PutObject, SignOut, ReadExisting, Accept, Evict
    <2>7. CASE ReadLinks(p) \/ Prelock(p)
      <3>1. Done(p) \/ GetsOn(p, "prelock") \/ GetsOn(p, "existing")
        BY <1>0, <2>7 DEF ReadLinks, Prelock, PrelockFails, GetsOn, SagaLabels, Carrying
      <3> QED BY <2>3, <3>1
    <2>8. CASE EnsureDeletionLedger(p) \/ CreateJob(p) \/ ReadJobAfterFailure(p)
      <3>1. Done(p) \/ GetsOn(p, "job") \/ GetsOn(p, "jobFailed") \/ GetsOn(p, "kvRead")
        BY <1>0, <2>8
        DEF EnsureDeletionLedger, CreateJob, ReadJobAfterFailure, GetsOn, SagaLabels, Carrying
      <3> QED BY <2>3, <3>1
    <2>9. CASE KVRead(p)
      <3>1. CASE Done(p)
        BY <2>3, <3>1
      <3>2. CASE /\ pc'[p] = "kvDelete" /\ Only(p) /\ RequestOK(loc'[p], pc'[p])
                 /\ loc'[p].age = loc[p].age
        BY <2>9, <3>2 DEF Behaves, Carrying, KVRead
      <3> QED BY <1>0, <2>9, <3>1, <3>2, RequestReadsKV
    <2>10. CASE KVDelete(p) \/ KVMark(p)
      <3>1. Done(p) \/ (Move(p, "kvMark") /\ pc[p] = "kvDelete")
        BY <1>0, <2>10 DEF KVDelete, KVMark, KVEnds, Accept
      <3>2. Done(p) \/ GetsOn(p, "kvMark")
        BY <3>1 DEF GetsOn, SagaLabels, Carrying
      <3> QED BY <2>3, <3>2
    <2> QED BY <2>1, <2>4, <2>5, <2>6, <2>7, <2>8, <2>9, <2>10 DEF RequestStep, KVStep
  <1> QED BY <1>1, <1>2, <1>3, <1>4, <1>5

LEMMA FencedRequestKeeps ==
  ASSUME ErasureInv, DeletionInv', d1.job # None, NEW p \in Requests,
         RequestStep(p) \/ KVStep(p) \/ Evict(p), d1' = d1
  PROVE  ErasureInv'
  <1>0. p \in Procs /\ p \notin Passes
    BY DeletionAssumption DEF Procs
  <1>1. /\ Only(p) /\ Behaves(p) /\ RequestOK(loc'[p], pc'[p]) /\ VerdictsGo /\ ObjectsGo
        /\ UNCHANGED <<backup, cron, restored>>
    BY FencedRequest
  <1>2. /\ Tame /\ RequestsOK'
        /\ \A g \in Passes : GoesOn(g) /\ Swept(g)'
    BY <1>0, <1>1, OneStep
  <1>3. Alike(d1, d1')
    BY DEF Alike
  <1> QED BY <1>1, <1>2, <1>3, PlainStep

-------------------------------------------------------------------------------
(* Passes, while no pass starts                                            *)

PassGets(p, label) ==
  /\ label \in SagaLabels /\ Move(p, label) /\ pc[p] # "idle"
  /\ label \in Early => pc[p] \in Early
  /\ label \in {"authorize", "kvRead"} => pc[p] \in {"authorize", "kvRead"}

LEMMA PassMoves ==
  ASSUME DeletionInv, NEW p \in Passes, Done(p) \/ \E label : PassGets(p, label)
  PROVE  /\ Only(p) /\ GoesOn(p)
         /\ Done(p) => pc'[p] = "idle"
         /\ \A label : PassGets(p, label) => pc'[p] = label /\ loc' = loc
  <1>0. p \in Procs /\ ProcessesOK
    BY DEF Procs, DeletionInv, DeletionTypeOK
  <1>1. ASSUME Done(p) PROVE Only(p) /\ pc'[p] = "idle"
    BY <1>0, <1>1, DoneType DEF Only
  <1>2. ASSUME NEW label, PassGets(p, label) PROVE Only(p) /\ pc'[p] = label /\ loc' = loc
    BY <1>0, <1>2, MoveType DEF Only, PassGets
  <1>3. GoesOn(p)
    BY <1>1, <1>2 DEF GoesOn, PassGets
  <1> QED BY <1>1, <1>2, <1>3

LEMMA PassKVReads ==
  ASSUME DeletionInv, NEW p \in Passes, KVRead(p)
  PROVE  /\ Only(p) /\ GoesOn(p)
         /\ \/ pc'[p] = "kvDelete"
            \/ pc'[p] = "sweep" /\ loc' = loc /\ \A k \in Keys : d1.kv[k] # "live"
  <1>0. p \in Procs /\ p \notin Requests /\ ProcessesOK /\ pc[p] = "kvRead"
    BY DeletionAssumption DEF Procs, DeletionInv, DeletionTypeOK, KVRead
  <1>1. CASE \E page \in SUBSET Keys : /\ loc' = [loc EXCEPT ![p].page = page]
                                       /\ pc' = [pc EXCEPT ![p] = "kvDelete"]
    <2>1. PICK page \in SUBSET Keys : /\ loc' = [loc EXCEPT ![p].page = page]
                                      /\ pc' = [pc EXCEPT ![p] = "kvDelete"]
      BY <1>1
    <2>2. /\ pc'[p] = "kvDelete" /\ Only(p) /\ loc'[p].age = loc[p].age
          /\ loc'[p].status = loc[p].status /\ loc'[p].workos = loc[p].workos
      BY <1>0, <2>1 DEF ProcessesOK, Local, Only
    <2> QED BY <1>0, <2>2 DEF GoesOn, Early
  <1>2. CASE Move(p, "sweep") /\ \A k \in Keys : d1.kv[k] # "live"
    <2>1. PassGets(p, "sweep")
      BY <1>0, <1>2 DEF PassGets, SagaLabels, Early
    <2> QED BY <1>2, <2>1, PassMoves
  <1> QED BY <1>0, <1>1, <1>2 DEF KVRead

LEMMA PassSweeps ==
  ASSUME DeletionInv, NEW p \in Passes, SweepPrefix(p)
  PROVE  /\ Only(p) /\ GoesOn(p) /\ objects' \subseteq objects
         /\ \/ pc'[p] = "sweep" /\ pc[p] = "sweep" /\ loc'[p].status = loc[p].status
                 /\ \E x : loc'[p].left = loc[p].left \ {x} /\ objects' = objects \ {x}
            \/ loc' = loc /\ pc'[p] \notin {"sweep", "authorize", "kvRead"}
                 /\ (pc'[p] = "finish" => loc[p].left = {} /\ loc[p].status = "r2_grace")
  <1>0. p \in Procs /\ ProcessesOK /\ pc[p] = "sweep" /\ loc[p] \in Local
    BY DEF Procs, DeletionInv, DeletionTypeOK, SweepPrefix, ProcessesOK
  <1>1. CASE \E x : /\ loc' = [loc EXCEPT ![p].left = @ \ {x}, ![p].deleted = @ \/ x \in objects]
                    /\ pc' = pc /\ objects' = objects \ {x}
    <2>1. PICK x : /\ loc' = [loc EXCEPT ![p].left = @ \ {x}, ![p].deleted = @ \/ x \in objects]
                   /\ pc' = pc /\ objects' = objects \ {x}
      BY <1>1
    <2>2. PICK h \in Local : h = loc[p]
      BY <1>0
    <2>3. PICK b : b = (loc[p].deleted \/ x \in objects)
      OBVIOUS
    <2>4. PICK g : g = [h EXCEPT !.left = h.left \ {x}, !.deleted = b]
      OBVIOUS
    <2>5. g.status = h.status /\ g.workos = h.workos /\ g.age = h.age /\ g.left = h.left \ {x}
      BY <2>4 DEF Local
    <2>6. loc' = [loc EXCEPT ![p] = g]
      BY <1>0, <2>1, <2>2, <2>3, <2>4 DEF ProcessesOK
    <2>7. loc'[p] = g /\ Only(p)
      BY <1>0, <2>1, <2>6 DEF ProcessesOK, Only
    <2>8. GoesOn(p)
      BY <1>0, <2>1, <2>2, <2>5, <2>7 DEF GoesOn, Early
    <2> QED BY <1>0, <2>1, <2>2, <2>5, <2>7, <2>8
  <1>2. CASE objects' = objects /\ \E label \in {"purge", "finish", "retry"} :
               Move(p, label) /\ (label = "finish" => loc[p].left = {} /\ loc[p].status = "r2_grace")
    <2>1. PICK label \in {"purge", "finish", "retry"} :
            Move(p, label) /\ (label = "finish" => loc[p].left = {} /\ loc[p].status = "r2_grace")
      BY <1>2
    <2>2. PassGets(p, label)
      BY <1>0, <2>1 DEF PassGets, SagaLabels, Early
    <2> QED BY <1>2, <2>1, <2>2, PassMoves
  <1>3. loc[p].status \in {"pending", "r2_grace"}
    BY <1>0 DEF Local
  <1> QED BY <1>1, <1>2, <1>3 DEF SweepPrefix

PassWorks(p) ==
  \/ AuthorizePass(p) \/ DeleteWorkOSIdentity(p) \/ MarkWorkOSDeleted(p) \/ RecordDeletionRetry(p)
  \/ SweepPrefix(p) \/ PurgeWorkspace(p) \/ FinishDeletion(p) \/ KVStep(p) \/ Evict(p)

LEMMA PassGoes ==
  ASSUME DeletionInv, NEW p \in Passes, PassWorks(p)
  PROVE  /\ Only(p) /\ GoesOn(p) /\ VerdictsGo /\ ObjectsGo
         /\ pc[p] # "idle" /\ UNCHANGED <<backup, cron, restored>>
         /\ SweepPrefix(p) \/ KVRead(p) \/ KeepsSweeping(p)
  <1>0. p \notin Requests
    BY DeletionAssumption
  <1>1. pc[p] # "idle" /\ UNCHANGED <<backup, cron, restored>>
    BY DEF PassWorks, AuthorizePass, DeleteWorkOSIdentity, MarkWorkOSDeleted, RecordDeletionRetry,
       SweepPrefix, PurgeWorkspace, FinishDeletion, KVStep, KVRead, KVDelete, KVMark, Evict
  <1>2. ObjectsGo
    BY DEF PassWorks, AuthorizePass, DeleteWorkOSIdentity, MarkWorkOSDeleted, RecordDeletionRetry,
       SweepPrefix, PurgeWorkspace, FinishDeletion, KVStep, KVRead, KVDelete, KVMark, Evict,
       storeVars, ObjectsGo
  <1>3. VerdictsGo
    <2>0. cached \in [Keys -> 0 .. VerdictLife]
      BY DEF DeletionInv, DeletionTypeOK, StoresOK
    <2>1. CASE cached' = cached
      BY <2>0, <2>1, Lengths DEF VerdictsGo
    <2>2. CASE KVDelete(p)
      <3>1. PICK page : cached' = Without(page)
        BY <2>2 DEF KVDelete
      <3> QED BY <2>0, <3>1, Lengths DEF Without, VerdictsGo
    <2> QED BY <2>1, <2>2
            DEF PassWorks, AuthorizePass, DeleteWorkOSIdentity, MarkWorkOSDeleted, RecordDeletionRetry,
            SweepPrefix, PurgeWorkspace, FinishDeletion, KVStep, KVRead, KVMark, Evict, storeVars
  <1>4. CASE KVRead(p)
    BY <1>1, <1>2, <1>3, <1>4, PassKVReads
  <1>5. CASE SweepPrefix(p)
    BY <1>1, <1>2, <1>3, <1>5, PassSweeps
  <1>6. CASE Done(p)
    BY <1>1, <1>2, <1>3, <1>6, PassMoves DEF KeepsSweeping
  <1>7. CASE \E label \in {"identity", "kvRead", "markIdentity", "retry", "kvMark"} : PassGets(p, label)
    BY <1>1, <1>2, <1>3, <1>7, PassMoves DEF KeepsSweeping
  <1>8. CASE AuthorizePass(p)
    <2>1. PassGets(p, "identity") \/ PassGets(p, "kvRead") \/ PassGets(p, "retry")
      BY <1>8 DEF AuthorizePass, AfterAuthorization, PassGets, SagaLabels, Early
    <2> QED BY <1>7, <2>1
  <1>9. CASE DeleteWorkOSIdentity(p)
    <2>1. PassGets(p, "markIdentity") \/ PassGets(p, "retry")
      BY <1>9 DEF DeleteWorkOSIdentity, PassGets, SagaLabels, Early
    <2> QED BY <1>7, <2>1
  <1>10. CASE MarkWorkOSDeleted(p) \/ PurgeWorkspace(p)
    <2>1. Done(p) \/ PassGets(p, "retry")
      BY <1>10 DEF MarkWorkOSDeleted, PurgeWorkspace, PassGets, SagaLabels, Early
    <2> QED BY <1>6, <1>7, <2>1
  <1>11. CASE RecordDeletionRetry(p) \/ FinishDeletion(p) \/ Evict(p)
    BY <1>6, <1>11 DEF RecordDeletionRetry, FinishDeletion, Evict
  <1>12. CASE KVDelete(p) \/ KVMark(p)
    <2>1. Move(p, "retry") \/ (Move(p, "kvMark") /\ pc[p] = "kvDelete")
      BY <1>12 DEF KVDelete, KVMark, KVEnds
    <2>2. PassGets(p, "retry") \/ PassGets(p, "kvMark")
      BY <1>1, <2>1 DEF PassGets, SagaLabels, Early
    <2> QED BY <1>7, <2>2
  <1> QED BY <1>4, <1>5, <1>8, <1>9, <1>10, <1>11, <1>12 DEF PassWorks, KVStep

(* A pass of the grace period that finds no live entry sweeps at rest.     *)
LEMMA SweepStartsAtRest ==
  ASSUME ErasureInv, NEW p \in Passes, pc[p] = "kvRead", loc[p].status = "r2_grace",
         \A k \in Keys : d1.kv[k] # "live"
  PROVE  Quiet(cached, pc)
  <1>0. DeletionInv /\ \A q \in Requests : RequestOK(loc[q], pc[q])
    BY DEF ErasureInv
  <1>1. /\ d1.job # None /\ d1.job.status # "pending"
        /\ Since(cached, pc, loc, 2 * CronEvery + loc[p].age)
    BY DEF ErasureInv, OnTime, PassElapsed
  <1>2. CASE d1.job.status = "complete"
    BY <1>1, <1>2 DEF ErasureInv, DatedNow, Dated
  <1>3. CASE d1.job.status # "complete" /\ Keys = {}
    <2>1. loc[p].age \in Nat
      BY <1>0, ClocksRun DEF Clocks, Procs
    <2>2. 2 * CronEvery + loc[p].age \in Int /\ 2 * CronEvery <= 2 * CronEvery + loc[p].age
      BY <2>1, Lengths
    <2> QED BY <1>0, <1>1, <1>3, <2>2, AtRest
  <1>4. CASE d1.job.status # "complete" /\ Keys # {}
    <2>1. JobIs("r2_grace")
      BY <1>0, <1>1, <1>4, DatabaseFields DEF JobIs
    <2>2. PICK k \in Keys : d1.kv[k] # "none" /\ d1.kv[k] # "live"
      BY <1>1, <1>4 DEF ErasureInv, DatedNow, Dated
    <2>3. d1.kv[k] = "deleted"
      BY <1>0, <2>2, DatabaseFields
    <2>4. Since(cached, pc, loc, 3 * CronEvery)
      BY <2>1, <2>3 DEF ErasureInv, LateOK, Late, Cleared
    <2>5. 3 * CronEvery \in Int /\ 3 * CronEvery <= 3 * CronEvery
      BY Lengths
    <2> QED BY <1>0, <2>4, <2>5, AtRest
  <1> QED BY <1>2, <1>3, <1>4

LEMMA PassSwept ==
  ASSUME ErasureInv, DeletionInv', NEW p \in Passes, PassWorks(p)
  PROVE  /\ Tame /\ RequestsOK' /\ \A g \in Passes : GoesOn(g) /\ Swept(g)'
         /\ Only(p) /\ pc[p] # "idle" /\ d1.job # None /\ UNCHANGED <<backup, cron, restored>>
  <1>0. p \in Procs /\ p \notin Requests /\ DeletionInv /\ RequestsOK
    BY DeletionAssumption DEF Procs, ErasureInv, RequestsOK
  <1>1. /\ Only(p) /\ GoesOn(p) /\ VerdictsGo /\ ObjectsGo
        /\ pc[p] # "idle" /\ UNCHANGED <<backup, cron, restored>>
        /\ SweepPrefix(p) \/ KVRead(p) \/ KeepsSweeping(p)
    BY <1>0, PassGoes
  <1>2. d1.job # None
    BY <1>1 DEF ErasureInv, OnTime
  <1>3. /\ Tame /\ RequestsOK' /\ (\A g \in Passes : GoesOn(g))
        /\ \A g \in Passes : g # p \/ KeepsSweeping(p) => Swept(g)'
    BY <1>0, <1>1, OneStep
  <1>4. Quiet(cached, pc) => Quiet(cached', pc') /\ objects' \subseteq objects
    BY <1>0, <1>3, QuietStays
  <1>5. Swept(p)
    BY DEF ErasureInv
  <1>6. Swept(p)'
    <2>1. CASE KeepsSweeping(p)
      BY <1>3, <2>1
    <2>2. CASE KVRead(p)
      <3>1. pc[p] = "kvRead" /\ objects \subseteq Prefixes
        BY <1>0, <2>2 DEF KVRead, DeletionInv, DeletionTypeOK, StoresOK
      <3>2. CASE pc'[p] = "kvDelete"
        BY <3>2 DEF Swept
      <3>3. CASE pc'[p] = "sweep" /\ loc' = loc /\ \A k \in Keys : d1.kv[k] # "live"
        <4>1. loc[p].status = "r2_grace" => Quiet(cached, pc)
          BY <3>1, <3>3, SweepStartsAtRest
        <4>2. loc[p].left = Prefixes
          BY <1>5, <3>1 DEF Swept
        <4> QED BY <1>4, <3>1, <3>3, <4>1, <4>2 DEF Swept
      <3> QED BY <1>0, <2>2, <3>2, <3>3, PassKVReads
    <2>3. CASE SweepPrefix(p)
      <3>0. pc[p] = "sweep"
        BY <2>3 DEF SweepPrefix
      <3>1. CASE /\ pc'[p] = "sweep" /\ loc'[p].status = loc[p].status
                 /\ \E x : loc'[p].left = loc[p].left \ {x} /\ objects' = objects \ {x}
        <4>1. PICK x : loc'[p].left = loc[p].left \ {x} /\ objects' = objects \ {x}
          BY <3>1
        <4> QED BY <1>4, <1>5, <3>0, <3>1, <4>1 DEF Swept
      <3>2. CASE /\ loc' = loc /\ pc'[p] \notin {"sweep", "authorize", "kvRead"}
                 /\ (pc'[p] = "finish" => loc[p].left = {} /\ loc[p].status = "r2_grace")
        BY <1>4, <1>5, <3>0, <3>2 DEF Swept
      <3> QED BY <1>0, <2>3, <3>1, <3>2, PassSweeps
    <2> QED BY <1>1, <2>1, <2>2, <2>3
  <1> QED BY <1>1, <1>2, <1>3, <1>6

LEMMA PlainPassKeeps ==
  ASSUME ErasureInv, DeletionInv', NEW p \in Passes, PassWorks(p),
         Alike(d1, d1'), d1'.job # None
  PROVE  ErasureInv'
  BY PassSwept, PlainStep

LEMMA RetryAlike ==
  ASSUME DeletionInv, NEW p \in Passes, RecordDeletionRetry(p)
  PROVE  Alike(d1, d1') /\ (d1.job # None => d1'.job # None)
  <1>1. CASE d1' = d1
    BY <1>1 DEF Alike
  <1>2. CASE /\ d1.job # None /\ d1.job.status # "complete"
             /\ d1' = [d1 EXCEPT !.job = RetriedJob(p)]
    <2>1. NextAttempt(p) \in 0 .. RetryAfter
      BY AgeType DEF DeletionInv, DeletionTypeOK, Procs
    <2>2. /\ RetriedJob(p) \in Job /\ RetriedJob(p).status = d1.job.status
          /\ RetriedJob(p).workos = d1.job.workos
      BY <1>2, <2>1, DatabaseFields DEF RetriedJob, Job
    <2>3. /\ d1'.job = RetriedJob(p) /\ d1'.ws = d1.ws /\ d1'.kv = d1.kv
          /\ d1'.session = d1.session /\ d1'.keys = d1.keys
      BY <1>2, DatabaseFields DEF Database
    <2> QED BY <1>2, <2>2, <2>3, NoneAssumption DEF Alike
  <1> QED BY <1>1, <1>2 DEF RecordDeletionRetry

LEMMA UneventfulPass ==
  ASSUME ErasureInv, DeletionInv', NEW p \in Passes, PassWorks(p),
         d1' = d1 \/ RecordDeletionRetry(p)
  PROVE  ErasureInv'
  <1>1. d1.job # None /\ DeletionInv
    BY PassSwept DEF ErasureInv
  <1>2. CASE d1' = d1
    <2>1. Alike(d1, d1')
      BY <1>2 DEF Alike
    <2> QED BY <1>1, <1>2, <2>1, PlainPassKeeps
  <1>3. CASE RecordDeletionRetry(p)
    BY <1>1, <1>3, RetryAlike, PlainPassKeeps
  <1> QED BY <1>2, <1>3

-------------------------------------------------------------------------------
(* An entry is marked                                                      *)

(* Whoever marks an entry in the grace period does so, but for the period  *)
(* of the cron, three periods after the revocation.                        *)
LEMMA MarksLate ==
  ASSUME ErasureInv, NEW p \in Procs, pc[p] = "kvMark", JobIs("r2_grace")
  PROVE  /\ Since(cached, pc, loc, 3 * CronEvery - cron)
         /\ \A g \in Passes :
              loc[g].status = "r2_grace" /\ pc[g] \in {"authorize", "kvRead"} =>
                Since(cached, pc, loc, 3 * CronEvery)
  <1>0. /\ DeletionInv /\ Clocks(cached, loc) /\ cron \in 0 .. CronEvery /\ CronEvery \in Nat
        /\ loc[p].age \in Nat /\ d1.job # None /\ d1.job.status = "r2_grace"
    BY ClocksRun, Lengths DEF ErasureInv, Clocks, JobIs
  <1>1. CASE Late
    BY <1>1 DEF ErasureInv, LateOK
  <1>2. CASE ~Late
    <2>1. ~Cleared(d1) /\ ~\E q \in Passes : Stale(q)
      BY <1>2 DEF Late
    <2>2. p \in Passes
      <3>1. ASSUME p \in Requests PROVE FALSE
        <4>1. Since(cached, pc, loc, 2 * CronEvery - cron)
          BY <1>0, <2>1 DEF ErasureInv, DatedNow, Dated, Elapsed
        <4>2. 2 * CronEvery - cron <= loc[p].age
          BY <3>1, <4>1 DEF Since, Carrying
        <4>3. loc[p].age <= RequestLife
          BY <3>1 DEF ErasureInv, RequestOK
        <4> QED BY <1>0, <4>2, <4>3, Lengths
      <3> QED BY <3>1 DEF Procs
    <2>3. loc[p].status = "r2_grace"
      <3>1. loc[p].status \in {"pending", "r2_grace"} /\ Knows(p)
        BY <1>0 DEF DeletionInv, DeletionTypeOK, ProcessesOK, Local
      <3>2. loc[p].status = "pending" => loc[p].workos
        BY <2>2, <3>1 DEF Knows, Deleting
      <3> QED BY <2>1, <2>2, <3>1, <3>2 DEF Stale, Early
    <2>4. PICK e \in Int : e = 2 * CronEvery + loc[p].age
      BY <1>0
    <2>5. Since(cached, pc, loc, e) /\ CronEvery - cron <= loc[p].age
      BY <2>2, <2>3, <2>4 DEF ErasureInv, OnTime, PassElapsed
    <2>6. Since(cached, pc, loc, 3 * CronEvery - cron)
      <3>1. 3 * CronEvery - cron \in Int /\ 3 * CronEvery - cron <= e
        BY <1>0, <2>4, <2>5
      <3> QED BY <1>0, <2>5, <3>1, SinceLess
    <2>7. ASSUME NEW g \in Passes, loc[g].status = "r2_grace", pc[g] \in {"authorize", "kvRead"}
          PROVE  Since(cached, pc, loc, 3 * CronEvery)
      <3>1. loc[g].age \in Nat /\ pc[g] # "idle" /\ g # p
        BY <1>0, <2>7 DEF Clocks, Procs
      <3>2. loc[p].age + CronEvery <= loc[g].age \/ loc[g].age + CronEvery <= loc[p].age
        BY <2>2, <3>1 DEF ErasureInv, Apart
      <3>3. PICK f \in Int : f = 2 * CronEvery + loc[g].age
        BY <1>0, <3>1
      <3>4. Since(cached, pc, loc, f)
        BY <2>7, <3>1, <3>3 DEF ErasureInv, OnTime, PassElapsed
      <3>5. 3 * CronEvery \in Int /\ (3 * CronEvery <= e \/ 3 * CronEvery <= f)
        BY <1>0, <2>4, <3>1, <3>2, <3>3
      <3> QED BY <1>0, <2>5, <3>4, <3>5, SinceLess
    <2> QED BY <2>6, <2>7
  <1> QED BY <1>1, <1>2

LEMMA MarkedEntries ==
  ASSUME DeletionInv, NEW p \in Procs, KVMark(p)
  PROVE  /\ d1'.job = d1.job /\ d1'.ws = d1.ws /\ d1'.session = d1.session /\ d1'.keys = d1.keys
         /\ \A k \in Keys : /\ d1.kv[k] = "none" <=> d1'.kv[k] = "none"
                            /\ d1.kv[k] = "deleted" => d1'.kv[k] = "deleted"
  <1>1. CASE d1' = d1
    BY <1>1
  <1>2. CASE d1' = [d1 EXCEPT !.kv = [k \in Keys |->
               IF k \in loc[p].page /\ @[k] = "live" THEN "deleted" ELSE @[k]]]
    BY <1>2, DatabaseFields DEF Database
  <1> QED BY <1>1, <1>2 DEF KVMark

LEMMA KVMarkDates ==
  ASSUME ErasureInv, DeletionInv', NEW p \in Procs, KVMark(p), d1.job # None,
         RequestsOK, Tame, cron' = cron
  PROVE  DatedNow(d1)'
  <1>0. /\ DeletionInv /\ cron \in 0 .. CronEvery /\ CronEvery \in Nat /\ pc[p] = "kvMark"
    BY ClocksRun, Lengths DEF ErasureInv, KVMark
  <1>1. /\ d1'.job = d1.job /\ d1'.ws = d1.ws /\ d1'.session = d1.session /\ d1'.keys = d1.keys
        /\ \A k \in Keys : /\ d1.kv[k] = "none" <=> d1'.kv[k] = "none"
                           /\ d1.kv[k] = "deleted" => d1'.kv[k] = "deleted"
    BY <1>0, MarkedEntries
  <1>2. /\ d1.session = FALSE /\ d1.keys = FALSE
        /\ d1.job.status # "pending" => d1.ws = "gone"
        /\ IF d1.job.status = "complete"
             THEN Quiet(cached, pc) /\ objects = {} /\ \A k \in Keys : d1.kv[k] = "none"
             ELSE Since(cached, pc, loc, Elapsed(d1) - cron) /\ \A k \in Keys : d1.kv[k] # "none"
    BY DEF ErasureInv, DatedNow, Dated
  <1>3. CASE d1.job.status = "complete"
    <2>1. Quiet(cached', pc') /\ objects' = {}
      BY <1>0, <1>2, <1>3, QuietStays
    <2> QED BY <1>1, <1>2, <1>3, <2>1 DEF DatedNow, Dated
  <1>4. CASE d1.job.status # "complete"
    <2>1. Elapsed(d1') \in Int
      BY <1>0 DEF Elapsed
    <2>2. PICK e \in Int : e = Elapsed(d1') - cron
      BY <1>0, <2>1
    <2>3. Since(cached, pc, loc, e)
      <3>1. CASE Elapsed(d1') = Elapsed(d1)
        BY <1>2, <1>4, <2>2, <3>1
      <3>2. CASE Elapsed(d1') # Elapsed(d1)
        <4>1. d1.job.status = "r2_grace" /\ Cleared(d1')
          <5>1. d1.job.status \in {"pending", "r2_grace", "complete"}
            BY <1>0, DatabaseFields
          <5>2. Cleared(d1) => Cleared(d1')
            BY <1>1 DEF Cleared
          <5> QED BY <1>1, <1>4, <3>2, <5>1, <5>2 DEF Elapsed
        <4>2. e = 3 * CronEvery - cron
          BY <1>1, <2>2, <4>1 DEF Elapsed
        <4> QED BY <1>0, <4>1, <4>2, MarksLate DEF JobIs
      <3> QED BY <3>1, <3>2
    <2>4. Since(cached', pc', loc', e)
      BY <1>0, <2>3, SinceStays
    <2> QED BY <1>1, <1>2, <1>4, <2>2, <2>4 DEF DatedNow, Dated
  <1> QED BY <1>3, <1>4

LEMMA KVMarkLates ==
  ASSUME ErasureInv, DeletionInv', NEW p \in Procs, KVMark(p), d1.job # None,
         RequestsOK, Tame, cron' = cron, \A g \in Passes : GoesOn(g)
  PROVE  LateOK'
  <1>0. /\ DeletionInv /\ cron \in 0 .. CronEvery /\ CronEvery \in Nat /\ pc[p] = "kvMark"
        /\ d1'.job = d1.job
    BY ClocksRun, Lengths, MarkedEntries DEF ErasureInv, KVMark
  <1> SUFFICES ASSUME Late'
               PROVE  /\ Since(cached', pc', loc', 3 * CronEvery - cron')
                      /\ \A g \in Passes :
                           loc'[g].status = "r2_grace" /\ pc'[g] \in {"authorize", "kvRead"} =>
                             Since(cached', pc', loc', 3 * CronEvery)
    BY DEF LateOK
  <1>1. JobIs("r2_grace")
    BY <1>0 DEF Late, JobIs
  <1>2. PICK e \in Int, f \in Int : e = 3 * CronEvery - cron /\ f = 3 * CronEvery
    <2>1. 3 * CronEvery - cron \in Int /\ 3 * CronEvery \in Int
      BY <1>0
    <2> QED BY <2>1
  <1>3. Since(cached', pc', loc', e)
    <2>1. Since(cached, pc, loc, e)
      BY <1>0, <1>1, <1>2, MarksLate
    <2> QED BY <1>0, <2>1, SinceStays
  <1>4. ASSUME NEW g \in Passes,
               loc'[g].status = "r2_grace", pc'[g] \in {"authorize", "kvRead"}
        PROVE  Since(cached', pc', loc', 3 * CronEvery)
    <2>1. loc[g].status = "r2_grace" /\ pc[g] \in {"authorize", "kvRead"}
      BY <1>4 DEF GoesOn
    <2>2. Since(cached, pc, loc, f)
      BY <1>0, <1>1, <1>2, <2>1, MarksLate
    <2> QED BY <1>0, <1>2, <2>2, SinceStays
  <1> QED BY <1>2, <1>3, <1>4

LEMMA KVMarkErases ==
  ASSUME ErasureInv, DeletionInv', NEW p \in Procs, KVMark(p), d1.job # None,
         RequestsOK', Tame, UNCHANGED <<backup, cron, restored>>,
         \A g \in Passes : GoesOn(g) /\ Swept(g)'
  PROVE  ErasureInv'
  <1>1. DeletionInv /\ RequestsOK
    BY DEF ErasureInv, RequestsOK
  <1>2. JobGoesOn
    BY <1>1, MarkedEntries DEF JobGoesOn
  <1>3. DatedNow(d1)' /\ LateOK'
    BY <1>1, KVMarkDates, KVMarkLates
  <1> QED BY <1>2, <1>3, JobStep

(* What a request does once there is a job.                                *)
LEMMA FencedKeeps ==
  ASSUME ErasureInv, DeletionInv', d1.job # None, NEW p \in Requests,
         RequestStep(p) \/ KVStep(p) \/ Evict(p)
  PROVE  ErasureInv'
  <1>0. p \in Procs /\ p \notin Passes
    BY DeletionAssumption DEF Procs
  <1>1. /\ Only(p) /\ Behaves(p) /\ RequestOK(loc'[p], pc'[p]) /\ VerdictsGo /\ ObjectsGo
        /\ KVMark(p) \/ d1' = d1
        /\ UNCHANGED <<backup, cron, restored>>
    BY FencedRequest
  <1>2. CASE d1' = d1
    BY <1>2, FencedRequestKeeps
  <1>3. CASE KVMark(p)
    <2>1. /\ Tame /\ RequestsOK'
          /\ \A g \in Passes : GoesOn(g) /\ Swept(g)'
      BY <1>0, <1>1, OneStep
    <2> QED BY <1>0, <1>1, <1>3, <2>1, KVMarkErases
  <1> QED BY <1>1, <1>2, <1>3

-------------------------------------------------------------------------------
(* The job gets on                                                         *)

(* WorkOS was read as not yet deleted by the pass that now records it: no  *)
(* pass of the grace period is about.                                      *)
LEMMA IdentityErases ==
  ASSUME ErasureInv, DeletionInv', NEW p \in Passes, MarkWorkOSDeleted(p)
  PROVE  ErasureInv'
  <1>0. /\ DeletionInv /\ PassWorks(p) /\ CronEvery \in Nat /\ cron \in 0 .. CronEvery
        /\ p \in Procs /\ Clocks(cached, loc)
    BY ClocksRun, Lengths DEF ErasureInv, PassWorks, Procs
  <1>1. /\ Tame /\ RequestsOK' /\ \A g \in Passes : GoesOn(g) /\ Swept(g)'
        /\ pc[p] # "idle" /\ d1.job # None /\ UNCHANGED <<backup, cron, restored>>
    BY <1>0, PassSwept
  <1>2. CASE d1' = d1
    BY <1>0, <1>2, UneventfulPass
  <1>3. CASE /\ JobIs("pending") /\ ~d1.job.workos
             /\ d1' = [d1 EXCEPT !.job.workos = TRUE, !.job.wait = NextAttempt(p)]
    <2>1. PICK j \in Job : j = d1.job /\ j.status = "pending"
      BY <1>0, <1>3, DatabaseFields DEF JobIs
    <2>2. PICK n : n = [j EXCEPT !.workos = TRUE, !.wait = NextAttempt(p)]
      OBVIOUS
    <2>3. n \in Job /\ n.status = "pending" /\ n.workos = TRUE
      <3>1. NextAttempt(p) \in 0 .. RetryAfter
        BY <1>0, AgeType DEF DeletionInv, DeletionTypeOK
      <3> QED BY <2>1, <2>2, <3>1 DEF Job
    <2>4. d1' = [d1 EXCEPT !.job = n]
      BY <1>0, <1>3, <2>1, <2>2, DatabaseFields DEF Database
    <2>5. /\ d1'.job = n /\ d1'.ws = d1.ws /\ d1'.session = d1.session /\ d1'.keys = d1.keys
          /\ d1'.kv = d1.kv
      BY <1>0, <2>4, DatabaseFields DEF Database
    <2>6. JobGoesOn
      BY <2>1, <2>3, <2>5, NoneAssumption DEF JobGoesOn
    <2>7. LateOK'
      <3>1. ~JobIs("r2_grace")'
        BY <2>3, <2>5 DEF JobIs
      <3> QED BY <3>1 DEF LateOK, Late
    <2>8. DatedNow(d1)'
      <3>1. /\ d1.session = FALSE /\ d1.keys = FALSE /\ \A k \in Keys : d1.kv[k] # "none"
        BY <1>1, <2>1 DEF ErasureInv, DatedNow, Dated
      <3>2. PICK e \in Int : e = CronEvery - cron
        BY <1>0
      <3>3. PICK f \in Int : f = PassElapsed(loc[p]) + loc[p].age /\ e <= f
        <4>1. loc[p].age \in Nat /\ PassElapsed(loc[p]) \in Nat /\ CronEvery - cron <= loc[p].age
          BY <1>0, <1>1, Lengths DEF Clocks, PassElapsed, ErasureInv, OnTime
        <4> QED BY <1>0, <3>2, <4>1
      <3>4. Since(cached, pc, loc, f)
        BY <1>1, <3>3 DEF ErasureInv, OnTime
      <3>5. Since(cached, pc, loc, e)
        BY <1>0, <3>3, <3>4, SinceLess
      <3>6. Since(cached', pc', loc', e)
        BY <1>0, <1>1, <3>5, SinceStays DEF ErasureInv, RequestsOK
      <3>7. Elapsed(d1') = CronEvery
        BY <2>3, <2>5 DEF Elapsed
      <3> QED BY <1>1, <2>3, <2>5, <3>1, <3>2, <3>6, <3>7 DEF DatedNow, Dated
    <2> QED BY <1>0, <1>1, <2>6, <2>7, <2>8, JobStep
  <1> QED BY <1>2, <1>3 DEF MarkWorkOSDeleted

(* The purge and an unclean sweep start the entries of KV again.           *)
Restarts ==
  /\ d1'.kv = KVRestarted
  /\ d1'.job # None /\ d1'.job.status = d1.job.status /\ d1'.job.workos = d1.job.workos
  /\ d1.session = FALSE => d1'.session = FALSE
  /\ d1.keys = FALSE => d1'.keys = FALSE
  /\ d1.ws = "gone" => d1'.ws = "gone"

LEMMA RestartErases ==
  ASSUME ErasureInv, DeletionInv', NEW p \in Passes, PassWorks(p), Restarts
  PROVE  ErasureInv'
  <1>0. /\ DeletionInv /\ CronEvery \in Nat /\ cron \in 0 .. CronEvery
        /\ Clocks(cached, loc) /\ RequestsOK
    BY ClocksRun, Lengths DEF ErasureInv, RequestsOK
  <1>1. /\ Tame /\ RequestsOK' /\ \A g \in Passes : GoesOn(g) /\ Swept(g)'
        /\ pc[p] # "idle" /\ d1.job # None /\ UNCHANGED <<backup, cron, restored>>
    BY <1>0, PassSwept
  <1>2. ~Cleared(d1') /\ \A k \in Keys : d1.kv[k] = "none" <=> d1'.kv[k] = "none"
    BY DEF Restarts, KVRestarted, Cleared
  <1>3. JobGoesOn
    BY DEF Restarts, JobGoesOn
  <1>4. /\ d1.session = FALSE /\ d1.keys = FALSE
        /\ d1.job.status # "pending" => d1.ws = "gone"
        /\ IF d1.job.status = "complete"
             THEN Quiet(cached, pc) /\ objects = {} /\ \A k \in Keys : d1.kv[k] = "none"
             ELSE Since(cached, pc, loc, Elapsed(d1) - cron) /\ \A k \in Keys : d1.kv[k] # "none"
    BY <1>1 DEF ErasureInv, DatedNow, Dated
  <1>5. DatedNow(d1)'
    <2>1. CASE d1.job.status = "complete"
      <3>1. Quiet(cached', pc') /\ objects' = {}
        BY <1>0, <1>1, <1>4, <2>1, QuietStays
      <3> QED BY <1>2, <1>4, <2>1, <3>1 DEF DatedNow, Dated, Restarts
    <2>2. CASE d1.job.status # "complete"
      <3>1. Elapsed(d1) \in Int /\ Elapsed(d1') \in Int /\ Elapsed(d1') <= Elapsed(d1)
        BY <1>0, <1>2 DEF Elapsed, Restarts
      <3>2. PICK e \in Int, f \in Int :
              e = Elapsed(d1) - cron /\ f = Elapsed(d1') - cron /\ f <= e
        <4>1. /\ Elapsed(d1) - cron \in Int /\ Elapsed(d1') - cron \in Int
              /\ Elapsed(d1') - cron <= Elapsed(d1) - cron
          BY <1>0, <3>1
        <4> QED BY <4>1
      <3>3. Since(cached, pc, loc, f)
        BY <1>0, <1>4, <2>2, <3>2, SinceLess
      <3>4. Since(cached', pc', loc', f)
        BY <1>0, <1>1, <3>3, SinceStays
      <3> QED BY <1>1, <1>2, <1>4, <2>2, <3>2, <3>4 DEF DatedNow, Dated, Restarts
    <2> QED BY <2>1, <2>2
  <1>6. LateOK'
    <2>1. CASE Late
      BY <1>0, <1>1, <2>1, LateStays DEF ErasureInv
    <2>2. CASE ~Late
      <3>1. \A q \in Passes : Stale(q)' => Stale(q)
        BY <1>1 DEF Stale, GoesOn, Early
      <3>2. JobIs("r2_grace")' => JobIs("r2_grace")
        BY <1>1 DEF JobIs, Restarts
      <3>3. ~Late'
        BY <1>2, <2>2, <3>1, <3>2 DEF Late
      <3> QED BY <3>3 DEF LateOK
    <2> QED BY <2>1, <2>2
  <1> QED BY <1>0, <1>1, <1>3, <1>5, <1>6, JobStep

(* The pass that purges knows that the identity went before it started:    *)
(* two periods, but for the one that runs, have passed.                    *)
LEMMA PurgeErases ==
  ASSUME ErasureInv, DeletionInv', NEW p \in Passes, PurgeWorkspace(p)
  PROVE  ErasureInv'
  <1>0. /\ DeletionInv /\ CronEvery \in Nat /\ cron \in 0 .. CronEvery
        /\ Clocks(cached, loc) /\ RequestsOK /\ p \in Procs /\ PassWorks(p) /\ pc[p] = "purge"
    BY ClocksRun, Lengths DEF ErasureInv, RequestsOK, Procs, PassWorks, PurgeWorkspace
  <1>1. /\ Tame /\ RequestsOK' /\ \A g \in Passes : GoesOn(g) /\ Swept(g)'
        /\ pc[p] # "idle" /\ d1.job # None /\ UNCHANGED <<backup, cron, restored>>
    BY <1>0, PassSwept
  <1>2. CASE d1' = d1
    BY <1>0, <1>2, UneventfulPass
  <1>3. CASE d1' = Purged(p) /\ ~(JobIs("pending") /\ d1.job.workos)
    <2>1. /\ d1'.kv = KVRestarted /\ d1'.job = d1.job /\ d1'.ws = "gone"
          /\ d1'.session = FALSE /\ d1'.keys = FALSE
      BY <1>0, <1>3, DatabaseFields DEF Purged, Database
    <2>2. Restarts
      BY <1>1, <2>1 DEF Restarts
    <2> QED BY <1>0, <2>2, RestartErases
  <1>4. CASE d1' = Purged(p) /\ JobIs("pending") /\ d1.job.workos
    <2>1. PICK j \in Job : j = d1.job /\ j.status = "pending"
      BY <1>0, <1>4, DatabaseFields DEF JobIs
    <2>2. PICK n : n = [j EXCEPT !.status = "r2_grace", !.wait = NextAttempt(p)]
      OBVIOUS
    <2>3. n \in Job /\ n.status = "r2_grace"
      <3>1. NextAttempt(p) \in 0 .. RetryAfter
        BY <1>0, AgeType DEF DeletionInv, DeletionTypeOK
      <3> QED BY <2>1, <2>2, <3>1 DEF Job
    <2>4. Purged(p) = [d1 EXCEPT !.ws = "gone", !.session = FALSE, !.keys = FALSE,
                                 !.kv = KVRestarted, !.job = n]
      BY <1>0, <1>4, <2>1, <2>2, DatabaseFields DEF Purged, Database
    <2>5. /\ d1'.job = n /\ d1'.ws = "gone" /\ d1'.session = FALSE /\ d1'.keys = FALSE
          /\ d1'.kv = KVRestarted
      BY <1>0, <1>4, <2>4, DatabaseFields DEF Database
    <2>6. JobGoesOn
      BY <2>1, <2>3, <2>5, NoneAssumption DEF JobGoesOn
    <2>7. ~Cleared(d1') /\ \A k \in Keys : d1'.kv[k] # "none"
      <3>1. \A k \in Keys : d1.kv[k] # "none"
        BY <1>1, <2>1 DEF ErasureInv, DatedNow, Dated
      <3> QED BY <2>5, <3>1 DEF KVRestarted, Cleared
    <2>8. /\ loc[p].status = "pending" /\ loc[p].workos
          /\ CronEvery - cron <= loc[p].age /\ loc[p].age \in Nat
      BY <1>0, <1>1 DEF DeletionInv, Knows, Deleting, ErasureInv, OnTime, Clocks
    <2>9. PICK f \in Int : f = CronEvery + loc[p].age
      BY <1>0, <2>8
    <2>10. Since(cached, pc, loc, f)
      BY <1>1, <2>8, <2>9 DEF ErasureInv, OnTime, PassElapsed
    <2>11. DatedNow(d1)'
      <3>1. PICK e \in Int : e = 2 * CronEvery - cron /\ e <= f
        <4>1. 2 * CronEvery - cron \in Int /\ 2 * CronEvery - cron <= f
          BY <1>0, <2>8, <2>9
        <4> QED BY <4>1
      <3>2. Since(cached, pc, loc, e)
        BY <1>0, <2>10, <3>1, SinceLess
      <3>3. Since(cached', pc', loc', e)
        BY <1>0, <1>1, <3>2, SinceStays
      <3>4. Elapsed(d1') = 2 * CronEvery
        BY <2>3, <2>5, <2>7 DEF Elapsed
      <3> QED BY <1>1, <2>3, <2>5, <2>7, <3>1, <3>3, <3>4 DEF DatedNow, Dated
    <2>12. ASSUME Late' PROVE Since(cached', pc', loc', 3 * CronEvery - cron')
      <3>1. PICK s \in Passes : Stale(s)'
        BY <2>7, <2>12 DEF Late
      <3>2. pc[s] \in Early /\ loc[s].status = "pending" /\ loc[s].workos
        BY <1>1, <3>1 DEF Stale, GoesOn, Early
      <3>3. s # p /\ pc[s] # "idle"
        BY <1>0, <3>2 DEF Early
      <3>4. loc[s].age \in Nat /\ CronEvery - cron <= loc[s].age
        BY <1>0, <3>3 DEF Clocks, Procs, ErasureInv, OnTime
      <3>5. PICK g \in Int : g = CronEvery + loc[s].age
        BY <1>0, <3>4
      <3>6. Since(cached, pc, loc, g)
        BY <3>2, <3>3, <3>5 DEF ErasureInv, OnTime, PassElapsed
      <3>7. loc[p].age + CronEvery <= loc[s].age \/ loc[s].age + CronEvery <= loc[p].age
        BY <1>1, <3>3 DEF ErasureInv, Apart
      <3>8. PICK e \in Int : e = 3 * CronEvery - cron /\ (e <= f \/ e <= g)
        <4>1. /\ 3 * CronEvery - cron \in Int
              /\ 3 * CronEvery - cron <= f \/ 3 * CronEvery - cron <= g
          BY <1>0, <2>8, <2>9, <3>4, <3>5, <3>7
        <4> QED BY <4>1
      <3>9. Since(cached, pc, loc, e)
        BY <1>0, <2>10, <3>6, <3>8, SinceLess
      <3> QED BY <1>0, <1>1, <3>8, <3>9, SinceStays
    <2>13. LateOK'
      <3>1. ASSUME NEW g \in Passes, loc'[g].status = "r2_grace", pc'[g] \in {"authorize", "kvRead"}
            PROVE  FALSE
        <4>1. pc[g] # "idle" /\ loc[g].status = "r2_grace"
          BY <1>1, <3>1 DEF GoesOn
        <4> QED BY <2>1, <4>1 DEF ErasureInv, OnTime
      <3> QED BY <2>12, <3>1 DEF LateOK
    <2> QED BY <1>0, <1>1, <2>6, <2>11, <2>13, JobStep
  <1> QED BY <1>2, <1>3, <1>4 DEF PurgeWorkspace

(* The pass that finishes swept at rest: whatever it found, nothing is     *)
(* left now.                                                               *)
LEMMA FinishErases ==
  ASSUME ErasureInv, DeletionInv', NEW p \in Passes, FinishDeletion(p)
  PROVE  ErasureInv'
  <1>0. /\ DeletionInv /\ RequestsOK /\ p \in Procs /\ PassWorks(p) /\ pc[p] = "finish"
    BY DEF ErasureInv, RequestsOK, Procs, PassWorks, FinishDeletion
  <1>1. /\ Tame /\ RequestsOK' /\ \A g \in Passes : GoesOn(g) /\ Swept(g)'
        /\ pc[p] # "idle" /\ d1.job # None /\ UNCHANGED <<backup, cron, restored>>
    BY <1>0, PassSwept
  <1>2. /\ d1.job \in Job /\ d1.job.status \in {"r2_grace", "complete"}
        /\ Quiet(cached, pc) /\ objects = {}
    <2>1. loc[p].status = "r2_grace" /\ Quiet(cached, pc) /\ objects \subseteq {}
      BY <1>0 DEF ErasureInv, Swept
    <2>2. d1.job.status # "pending"
      BY <1>1, <2>1 DEF ErasureInv, OnTime
    <2> QED BY <1>0, <1>1, <2>1, <2>2, DatabaseFields
  <1>3. NextAttempt(p) \in 0 .. RetryAfter /\ 0 \in 0 .. RetryAfter
    BY <1>0, AgeType, DeletionAssumption DEF DeletionInv, DeletionTypeOK
  <1>4. PICK j \in Job : j = d1.job
    BY <1>2
  <1>5. CASE d1' = d1
    BY <1>0, <1>5, UneventfulPass
  <1>6. CASE d1' = [d1 EXCEPT !.kv = KVRestarted,
             !.job = IF JobIs("r2_grace") THEN [@ EXCEPT !.wait = NextAttempt(p)] ELSE @]
    <2>1. PICK n : n = IF JobIs("r2_grace") THEN [j EXCEPT !.wait = NextAttempt(p)] ELSE j
      OBVIOUS
    <2>2. n \in Job /\ n.status = j.status /\ n.workos = j.workos
      BY <1>3, <2>1 DEF Job
    <2>3. d1' = [d1 EXCEPT !.kv = KVRestarted, !.job = n]
      BY <1>0, <1>4, <1>6, <2>1, DatabaseFields DEF Database
    <2>4. /\ d1'.job = n /\ d1'.ws = d1.ws /\ d1'.session = d1.session /\ d1'.keys = d1.keys
          /\ d1'.kv = KVRestarted
      BY <1>0, <2>3, DatabaseFields DEF Database
    <2>5. Restarts
      BY <1>4, <2>2, <2>4, NoneAssumption DEF Restarts
    <2> QED BY <1>0, <2>5, RestartErases
  <1>7. CASE d1' = [d1 EXCEPT !.kv = [k \in Keys |-> "none"],
             !.job = IF JobIs("r2_grace") THEN CompletedJob(p) ELSE @]
    <2>1. CASE JobIs("r2_grace")
      <3>1. PICK n : n = [j EXCEPT !.status = "complete", !.wait = 0]
        OBVIOUS
      <3>2. n \in Job /\ n.status = "complete"
        BY <1>3, <3>1 DEF Job
      <3>3. d1' = [d1 EXCEPT !.kv = [k \in Keys |-> "none"], !.job = n]
        BY <1>4, <1>7, <2>1, <3>1 DEF CompletedJob
      <3>4. /\ d1'.job = n /\ d1'.ws = d1.ws /\ d1'.session = d1.session /\ d1'.keys = d1.keys
            /\ d1'.kv = [k \in Keys |-> "none"]
        BY <1>0, <3>3, DatabaseFields DEF Database
      <3>5. JobGoesOn
        BY <3>2, <3>4, NoneAssumption DEF JobGoesOn
      <3>6. LateOK'
        <4>1. ~JobIs("r2_grace")'
          BY <3>2, <3>4 DEF JobIs
        <4> QED BY <4>1 DEF LateOK, Late
      <3>7. DatedNow(d1)'
        <4>1. d1.session = FALSE /\ d1.keys = FALSE /\ d1.ws = "gone"
          BY <1>1, <1>2 DEF ErasureInv, DatedNow, Dated
        <4>2. Quiet(cached', pc') /\ objects' = {}
          BY <1>0, <1>1, <1>2, QuietStays
        <4> QED BY <3>2, <3>4, <4>1, <4>2 DEF DatedNow, Dated
      <3> QED BY <1>0, <1>1, <3>5, <3>6, <3>7, JobStep
    <2>2. CASE ~JobIs("r2_grace")
      <3>1. d1.job.status = "complete"
        BY <1>1, <1>2, <2>2 DEF JobIs
      <3>2. \A k \in Keys : d1.kv[k] = "none"
        BY <1>1, <3>1 DEF ErasureInv, DatedNow, Dated
      <3>3. d1' = [d1 EXCEPT !.kv = [k \in Keys |-> "none"], !.job = d1.job]
        BY <1>0, <1>7, <2>2, DatabaseFields DEF Database
      <3>4. /\ d1'.job = d1.job /\ d1'.ws = d1.ws /\ d1'.session = d1.session
            /\ d1'.keys = d1.keys /\ d1'.kv = [k \in Keys |-> "none"]
        BY <1>0, <3>3, DatabaseFields DEF Database
      <3>5. d1.kv = [k \in Keys |-> "none"]
        BY <1>0, <3>2, DatabaseFields
      <3>6. Alike(d1, d1')
        BY <3>4, <3>5 DEF Alike
      <3> QED BY <1>0, <1>1, <3>4, <3>6, PlainPassKeeps
    <2> QED BY <2>1, <2>2
  <1> QED BY <1>5, <1>6, <1>7 DEF FinishDeletion

LEMMA PassErases ==
  ASSUME ErasureInv, DeletionInv', NEW p \in Passes, PassWorks(p)
  PROVE  ErasureInv'
  <1>1. CASE MarkWorkOSDeleted(p) \/ PurgeWorkspace(p) \/ FinishDeletion(p)
    BY <1>1, IdentityErases, PurgeErases, FinishErases
  <1>2. CASE d1' = d1 \/ RecordDeletionRetry(p)
    BY <1>2, UneventfulPass
  <1>3. CASE KVMark(p)
    <2>1. p \in Procs
      BY DEF Procs
    <2>2. /\ Tame /\ RequestsOK' /\ \A g \in Passes : GoesOn(g) /\ Swept(g)'
          /\ d1.job # None /\ UNCHANGED <<backup, cron, restored>>
      BY PassSwept
    <2> QED BY <1>3, <2>1, <2>2, KVMarkErases
  <1> QED BY <1>1, <1>2, <1>3
          DEF PassWorks, AuthorizePass, DeleteWorkOSIdentity, SweepPrefix, KVStep, KVRead, KVDelete,
              Evict

-------------------------------------------------------------------------------
(* Before there is a job                                                   *)

LEMMA RequestStays ==
  ASSUME DeletionInv, RequestsOK, NEW p \in Requests,
         RequestStep(p) \/ KVStep(p) \/ Evict(p)
  PROVE  Only(p) /\ RequestOK(loc'[p], pc'[p])
  <1>0. /\ p \in Procs /\ p \notin Passes /\ ProcessesOK /\ RequestOK(loc[p], pc[p])
        /\ pc[p] \in {"session", "fence"} => loc[p].kind \in Requested
    BY DeletionAssumption DEF Procs, DeletionInv, DeletionTypeOK, RequestsOK, Knows
  <1>1. CASE Arrive(p) \/ ArriveWithKey(p)
    BY <1>1, RequestArrives
  <1>2. CASE Done(p)
    BY <1>2, MovesOn
  <1>3. CASE \E label \in SagaLabels :
               Move(p, label) /\ (label \in {"verdict", "cache"} => pc[p] = "verdict")
    <2>1. PICK label \in SagaLabels :
               Move(p, label) /\ (label \in {"verdict", "cache"} => pc[p] = "verdict")
      BY <1>3
    <2>2. Only(p) /\ pc'[p] = label /\ loc' = loc
      BY <1>0, <2>1, MoveType DEF Only
    <2> QED BY <1>0, <2>1, <2>2 DEF RequestOK
  <1>4. CASE KVRead(p)
    BY <1>2, <1>4, RequestReadsKV
  <1>5. CASE ReadSession(p) \/ CheckLedger(p) \/ ReadVerdict(p) \/ CacheVerdict(p) \/ ReadLinks(p)
    BY <1>0, <1>2, <1>3, <1>5
    DEF ReadSession, CheckLedger, ReadVerdict, CacheVerdict, ReadLinks, SagaLabels, Requested
  <1>6. CASE PutObject(p) \/ SignOut(p) \/ ReadExisting(p) \/ Evict(p)
    BY <1>2, <1>6 DEF PutObject, SignOut, ReadExisting, Accept, Evict
  <1>7. CASE Prelock(p) \/ EnsureDeletionLedger(p) \/ CreateJob(p) \/ ReadJobAfterFailure(p)
    BY <1>2, <1>3, <1>7
    DEF Prelock, EnsureDeletionLedger, CreateJob, ReadJobAfterFailure, SagaLabels
  <1>8. CASE KVDelete(p) \/ KVMark(p)
    BY <1>0, <1>2, <1>3, <1>8 DEF KVDelete, KVMark, KVEnds, Accept, SagaLabels
  <1> QED BY <1>1, <1>4, <1>5, <1>6, <1>7, <1>8 DEF RequestStep, KVStep

(* A job that was just created has revoked everything a moment ago.        *)
LEMMA CreatedJobDated ==
  ASSUME DeletionInv, DeletionInv', NEW p \in Requests, d1' = CreatedJob(p), cron' = cron
  PROVE  DatedNow(d1)' /\ ~JobIs("r2_grace")'
  <1>0. /\ d1.kv \in [Keys -> {"none", "live", "deleted"}] /\ d1 \in Database
        /\ (Clocks(cached, loc) /\ cron \in 0 .. CronEvery)' /\ CronEvery \in Nat
    <2>1. (Clocks(cached, loc) /\ cron \in 0 .. CronEvery)'
      BY ClocksRun, PTL
    <2> QED BY <2>1, DatabaseFields, Lengths
  <1>1. /\ d1'.job = [status |-> "pending", workos |-> FALSE, wait |-> 0]
        /\ d1'.session = FALSE /\ d1'.keys = FALSE /\ d1'.kv = [k \in Keys |-> "live"]
    BY <1>0 DEF CreatedJob, Database
  <1>2. d1'.job.status = "pending" /\ d1'.job.workos = FALSE
    BY <1>1
  <1>3. PICK e \in Int : e = 0 - cron' /\ e <= 0
    <2>1. 0 - cron' \in Int /\ 0 - cron' <= 0
      BY <1>0
    <2> QED BY <2>1
  <1>4. Since(cached', pc', loc', e)
    <2>1. ASSUME NEW k \in Keys PROVE cached'[k] + e <= RequestLife + VerdictLife
      <3>1. cached'[k] \in 0 .. VerdictLife
        BY DEF DeletionInv, DeletionTypeOK, StoresOK
      <3> QED BY <1>3, <3>1, Lengths
    <2>2. ASSUME NEW q \in Requests PROVE e <= loc'[q].age
      <3>1. loc'[q].age \in Nat
        BY <1>0 DEF Clocks, Procs
      <3> QED BY <1>3, <3>1
    <2> QED BY <2>1, <2>2 DEF Since
  <1>5. Elapsed(d1') = 0
    BY <1>2 DEF Elapsed
  <1>6. \A k \in Keys : d1'.kv[k] # "none"
    BY <1>1
  <1> QED BY <1>1, <1>2, <1>3, <1>4, <1>5, <1>6 DEF DatedNow, Dated, JobIs

LEMMA FirstErases ==
  ASSUME ErasureInv, DeletionInv', d1.job = None, NEW p \in Requests,
         RequestStep(p) \/ KVStep(p) \/ Evict(p)
  PROVE  ErasureInv'
  <1>0. DeletionInv /\ RequestsOK /\ p \in Procs /\ p \notin Passes
    BY DeletionAssumption DEF ErasureInv, RequestsOK, Procs
  <1>1. Only(p) /\ RequestOK(loc'[p], pc'[p])
    BY <1>0, RequestStays
  <1>2. UNCHANGED <<backup, cron, restored>>
    BY DEF RequestStep, KVStep, Evict, Arrive, ArriveWithKey, ReadSession, CheckLedger, ReadVerdict,
       CacheVerdict, PutObject, SignOut, ReadLinks, Prelock, ReadExisting, EnsureDeletionLedger,
       CreateJob, ReadJobAfterFailure, KVRead, KVDelete, KVMark
  <1>3. RequestsOK'
    <2>1. \A q \in Requests : RequestOK(loc'[q], pc'[q])
      BY <1>0, <1>1 DEF Only, RequestsOK, Procs
    <2> QED BY <2>1 DEF RequestsOK
  <1>4. \A g \in Passes : pc'[g] = "idle"
    BY <1>0, <1>1 DEF ErasureInv, OnTime, Only, Procs
  <1>5. /\ \A g \in Passes : OnTime(g)' /\ Swept(g)'
        /\ \A g, h \in Passes : Apart(g, h)'
    BY <1>4 DEF OnTime, Swept, Apart
  <1>6. restored' = FALSE => DatedNow(backup)' /\ (backup'.job # None => d1'.job # None)
    BY <1>2 DEF ErasureInv, DatedNow, Dated
  <1>7. DatedNow(d1)' /\ LateOK'
    <2>1. CASE d1'.job = None
      BY <2>1 DEF DatedNow, Dated, LateOK, Late, JobIs
    <2>2. CASE d1' = CreatedJob(p)
      BY <1>0, <1>2, <2>2, CreatedJobDated DEF LateOK, Late
    <2>3. d1'.job = d1.job \/ d1' = CreatedJob(p)
      <3>1. CASE SignOut(p) \/ Prelock(p)
        BY <1>0, <3>1, DatabaseFields DEF SignOut, Prelock, Database
      <3>2. CASE KVMark(p)
        BY <1>0, <3>2, MarkedEntries
      <3> QED BY <3>1, <3>2
          DEF RequestStep, KVStep, Evict, Arrive, ArriveWithKey, ReadSession, CheckLedger,
              ReadVerdict, CacheVerdict, PutObject, ReadLinks, ReadExisting, EnsureDeletionLedger,
              CreateJob, ReadJobAfterFailure, KVRead, KVDelete
    <2> QED BY <2>1, <2>2, <2>3
  <1> QED BY <1>2, <1>3, <1>5, <1>6, <1>7 DEF ErasureInv, RequestsOK

LEMMA ProcessErases ==
  ASSUME ErasureInv, DeletionInv', NEW p \in Procs,
         \/ p \in Requests /\ RequestStep(p)
         \/ p \in Passes /\ PassStep(p) /\ ~ReadDue(p)
         \/ KVStep(p) \/ Evict(p)
  PROVE  ErasureInv'
  <1>1. CASE p \in Requests
    <2>1. p \notin Passes
      BY <1>1, DeletionAssumption
    <2> QED BY <1>1, <2>1, FencedKeeps, FirstErases
  <1>2. CASE p \in Passes
    <2>1. p \notin Requests
      BY <1>2, DeletionAssumption
    <2>2. PassWorks(p)
      BY <2>1 DEF PassStep, PassWorks
    <2> QED BY <1>2, <2>2, PassErases
  <1> QED BY <1>1, <1>2 DEF Procs

-------------------------------------------------------------------------------
(* A pass starts                                                           *)

LEMMA NobodyMoves ==
  ASSUME ErasureInv, DeletionInv', UNCHANGED <<pc, loc, cached, objects>>
  PROVE  /\ Tame /\ RequestsOK /\ RequestsOK'
         /\ \A g \in Passes : GoesOn(g) /\ Swept(g)'
         /\ \A g, h \in Passes : Apart(g, h)'
  <1>1. RequestsOK /\ RequestsOK'
    BY DEF ErasureInv, RequestsOK
  <1>2. \A q \in Requests : Behaves(q)
    BY DEF Behaves
  <1>3. VerdictsGo /\ ObjectsGo
    <2>1. cached \in [Keys -> 0 .. VerdictLife]
      BY DEF ErasureInv, DeletionInv, DeletionTypeOK, StoresOK
    <2> QED BY <2>1, Lengths DEF VerdictsGo, ObjectsGo
  <1>4. \A g \in Passes : GoesOn(g)
    BY DEF GoesOn
  <1>5. ASSUME NEW g \in Passes PROVE Swept(g)'
    BY DEF ErasureInv, Swept, Quiet
  <1>6. \A g, h \in Passes : Apart(g, h)'
    BY DEF ErasureInv, Apart
  <1> QED BY <1>1, <1>2, <1>3, <1>4, <1>5, <1>6 DEF Tame

LEMMA DueErases ==
  ASSUME ErasureInv, DeletionInv', NEW p \in Passes, ReadDue(p)
  PROVE  ErasureInv'
  <1>0. /\ DeletionInv /\ RequestsOK /\ CronEvery \in Nat /\ Clocks(cached, loc)
        /\ p \in Procs /\ p \notin Requests /\ ProcessesOK
    BY ClocksRun, Lengths, DeletionAssumption
    DEF ErasureInv, RequestsOK, Procs, DeletionInv, DeletionTypeOK
  <1>1. /\ d1.job # None /\ d1.job.status \in {"pending", "r2_grace"} /\ d1.job.workos \in BOOLEAN
        /\ cron = 0 /\ cron' = CronEvery
        /\ UNCHANGED <<d1, backup, cached, objects, restored>>
    BY <1>0, DatabaseFields DEF ReadDue, storeVars
  <1>2. PICK l : /\ loc' = [loc EXCEPT ![p] = l] /\ l.age = 0 /\ l.left = Prefixes
                 /\ l.status = d1.job.status /\ l.workos = d1.job.workos
    <2>1. PICK l : l = [NewLocal("pass") EXCEPT !.status = d1.job.status, !.workos = d1.job.workos]
      OBVIOUS
    <2>2. /\ l.age = 0 /\ l.left = Prefixes
          /\ l.status = d1.job.status /\ l.workos = d1.job.workos
      BY <2>1 DEF NewLocal
    <2> QED BY <2>1, <2>2 DEF ReadDue
  <1>3. pc'[p] = "authorize" /\ loc'[p] = l /\ Only(p)
    BY <1>0, <1>2 DEF ReadDue, ProcessesOK, Only
  <1>4. Tame
    <2>1. \A q \in Requests : pc'[q] = pc[q] /\ loc'[q] = loc[q]
      BY <1>0, <1>3 DEF Only, Procs
    <2>2. \A q \in Requests : Behaves(q)
      BY <2>1 DEF Behaves
    <2>3. cached \in [Keys -> 0 .. VerdictLife]
      BY <1>0 DEF DeletionInv, DeletionTypeOK, StoresOK
    <2> QED BY <1>1, <2>2, <2>3, Lengths DEF Tame, VerdictsGo, ObjectsGo
  <1>5. \A q \in Requests : RequestOK(loc'[q], pc'[q])
    BY <1>0, <1>3 DEF Only, Procs, RequestsOK
  <1>6. ASSUME NEW db, DatedNow(db)
        PROVE  Dated(db, cached', pc', loc', objects', cron')
    <2>1. Alike(db, db) /\ cron <= cron'
      BY <1>0, <1>1 DEF Alike
    <2> QED BY <1>0, <1>4, <1>6, <2>1, DatedStays
  <1>7. DatedNow(d1)'
    BY <1>1, <1>6 DEF ErasureInv, DatedNow
  <1>8. restored' = FALSE => DatedNow(backup)' /\ (backup'.job # None => d1'.job # None)
    BY <1>1, <1>6 DEF ErasureInv, DatedNow
  <1>9. OnTime(p)'
    <2>1. Since(cached, pc, loc, Elapsed(d1) - cron)
      BY <1>1 DEF ErasureInv, DatedNow, Dated
    <2>2. PICK e \in Int, f \in Int :
            e = Elapsed(d1) - cron /\ f = PassElapsed(l) + l.age /\ f <= e
      <3>1. Elapsed(d1) \in Int /\ PassElapsed(l) \in Int /\ PassElapsed(l) <= Elapsed(d1)
        BY <1>0, <1>1, <1>2 DEF Elapsed, PassElapsed
      <3>2. /\ Elapsed(d1) - cron \in Int /\ PassElapsed(l) + l.age \in Int
            /\ PassElapsed(l) + l.age <= Elapsed(d1) - cron
        BY <1>1, <1>2, <3>1
      <3> QED BY <3>2
    <2>3. Since(cached, pc, loc, f)
      BY <1>0, <2>1, <2>2, SinceLess
    <2>4. Since(cached', pc', loc', f)
      BY <1>0, <1>4, <2>3, SinceStays
    <2>5. CronEvery - cron' <= l.age
      BY <1>0, <1>1, <1>2
    <2> QED BY <1>1, <1>2, <1>3, <2>2, <2>4, <2>5 DEF OnTime
  <1>10. ASSUME NEW q \in Passes, q # p PROVE OnTime(q)' /\ Swept(q)'
    <2>1. pc'[q] = pc[q] /\ loc'[q] = loc[q] /\ OnTime(q) /\ Swept(q) /\ loc[q].age \in Nat
      BY <1>0, <1>3, <1>10 DEF Only, Procs, ErasureInv, Clocks
    <2>2. GoesOn(q) /\ KeepsSweeping(q)
      BY <2>1 DEF GoesOn, KeepsSweeping
    <2>3. Swept(q)'
      BY <1>0, <1>4, <2>1, <2>2, SweptStays
    <2>4. ASSUME pc[q] # "idle"
          PROVE  Since(cached', pc', loc', PassElapsed(loc[q]) + loc[q].age)
      <3>1. PassElapsed(loc[q]) \in Int
        BY <1>0 DEF PassElapsed
      <3>2. PICK e \in Int : e = PassElapsed(loc[q]) + loc[q].age
        BY <2>1, <3>1
      <3>3. Since(cached, pc, loc, e)
        BY <2>1, <2>4, <3>2 DEF OnTime
      <3> QED BY <1>0, <1>4, <3>2, <3>3, SinceStays
    <2>5. CronEvery - cron' <= loc[q].age
      BY <1>0, <1>1, <2>1
    <2> QED BY <1>1, <2>1, <2>3, <2>4, <2>5 DEF OnTime
  <1>11. Swept(p)'
    BY <1>2, <1>3 DEF Swept
  <1>12. \A q, h \in Passes : Apart(q, h)'
    <2>1. ASSUME NEW q \in Passes, q # p, pc[q] # "idle"
          PROVE  0 + CronEvery <= loc[q].age
      <3>1. CronEvery - cron <= loc[q].age /\ loc[q].age \in Nat
        BY <1>0, <2>1 DEF ErasureInv, OnTime, Clocks, Procs
      <3> QED BY <1>0, <1>1, <3>1
    <2>2. ASSUME NEW q \in Passes, q # p PROVE pc'[q] = pc[q] /\ loc'[q] = loc[q]
      BY <1>3, <2>2 DEF Only, Procs
    <2>3. ASSUME NEW q \in Passes, NEW h \in Passes PROVE Apart(q, h)'
      <3>1. CASE q # p /\ h # p
        BY <2>2, <3>1 DEF ErasureInv, Apart
      <3>2. CASE q = p /\ h # p
        BY <1>2, <1>3, <2>1, <2>2, <3>2 DEF Apart
      <3>3. CASE q # p /\ h = p
        BY <1>2, <1>3, <2>1, <2>2, <3>3 DEF Apart
      <3>4. CASE q = p /\ h = p
        BY <3>4 DEF Apart
      <3> QED BY <3>1, <3>2, <3>3, <3>4
    <2> QED BY <2>3
  <1>13. LateOK'
    <2> SUFFICES ASSUME Late'
                 PROVE  /\ Since(cached', pc', loc', 3 * CronEvery - cron')
                        /\ Since(cached', pc', loc', 3 * CronEvery)
      BY DEF LateOK
    <2>1. JobIs("r2_grace")
      BY <1>1 DEF Late, JobIs
    <2>2. ~Stale(p)'
      BY <1>2, <1>3, <2>1 DEF Stale, JobIs
    <2>3. \A q \in Passes : q # p /\ Stale(q)' => Stale(q)
      BY <1>3 DEF Only, Stale, Procs
    <2>4. Late
      BY <1>1, <2>1, <2>2, <2>3 DEF Late
    <2>5. Since(cached, pc, loc, 3 * CronEvery - cron)
      BY <2>4 DEF ErasureInv, LateOK
    <2>6. PICK e \in Int, f \in Int : /\ e = 3 * CronEvery - cron /\ e = 3 * CronEvery
                                      /\ f = 3 * CronEvery - cron' /\ f <= e
      <3>1. /\ 3 * CronEvery - cron \in Int /\ 3 * CronEvery - cron' \in Int
            /\ 3 * CronEvery - cron = 3 * CronEvery
            /\ 3 * CronEvery - cron' <= 3 * CronEvery - cron
        BY <1>0, <1>1
      <3> QED BY <3>1
    <2>7. Since(cached, pc, loc, f)
      BY <1>0, <2>5, <2>6, SinceLess
    <2> QED BY <1>0, <1>4, <2>5, <2>6, <2>7, SinceStays
  <1>14. \A q \in Passes : OnTime(q)' /\ Swept(q)'
    BY <1>9, <1>10, <1>11
  <1> QED BY <1>5, <1>7, <1>8, <1>12, <1>13, <1>14 DEF ErasureInv

-------------------------------------------------------------------------------
(* Time passes                                                             *)

LEMMA AllAge ==
  ASSUME DeletionInv, Tick, NEW p \in Procs
  PROVE  /\ loc[p].age \in Nat
         /\ loc'[p].kind = loc[p].kind /\ loc'[p].status = loc[p].status
         /\ loc'[p].workos = loc[p].workos /\ loc'[p].left = loc[p].left /\ loc'[p].key = loc[p].key
         /\ pc[p] = "idle" => loc'[p] = loc[p]
         /\ pc[p] # "idle" => loc'[p].age = loc[p].age + 1 /\ loc[p].age < Life(p)
  <1>1. loc[p] \in Local /\ loc[p].age \in Nat
    BY ClocksRun DEF DeletionInv, DeletionTypeOK, ProcessesOK, Clocks
  <1>2. loc' = [q \in Procs |-> IF pc[q] = "idle" THEN loc[q]
                                ELSE [loc[q] EXCEPT !.age = @ + 1]]
    BY DEF Tick
  <1>3. CASE pc[p] = "idle"
    BY <1>1, <1>2, <1>3
  <1>4. CASE pc[p] # "idle"
    <2>1. loc'[p] = [loc[p] EXCEPT !.age = loc[p].age + 1]
      BY <1>2, <1>4
    <2> QED BY <1>1, <1>4, <2>1 DEF Local, Tick
  <1> QED BY <1>3, <1>4

LEMMA SinceTicks ==
  ASSUME DeletionInv, Tick, NEW e \in Int, Since(cached, pc, loc, e)
  PROVE  Since(cached', pc', loc', e + 1)
  <1>0. pc' = pc /\ Clocks(cached, loc)
    BY ClocksRun DEF Tick
  <1>1. ASSUME NEW k \in Keys, cached'[k] > 0
        PROVE  cached'[k] + (e + 1) <= RequestLife + VerdictLife
    <2>1. cached[k] \in Nat /\ cached'[k] = IF cached[k] > 0 THEN cached[k] - 1 ELSE 0
      BY <1>0 DEF Tick, Clocks
    <2>2. cached[k] > 0
      BY <1>1, <2>1
    <2>3. cached[k] + e <= RequestLife + VerdictLife
      BY <2>2 DEF Since
    <2> QED BY <2>1, <2>2, <2>3, Lengths
  <1>2. ASSUME NEW q \in Requests
        PROVE  /\ pc'[q] \in Carrying => e + 1 <= loc'[q].age
               /\ pc'[q] = "put" =>
                    \/ e + 1 <= loc'[q].age
                    \/ loc'[q].kind = "verdict" /\ e + 1 <= loc'[q].age + RequestLife + VerdictLife
    <2>1. /\ loc[q].age \in Nat /\ loc'[q].kind = loc[q].kind
          /\ pc[q] # "idle" => loc'[q].age = loc[q].age + 1
      BY AllAge DEF Procs
    <2>2. pc[q] \in Carrying => e <= loc[q].age /\ pc[q] # "idle"
      BY DEF Since, Carrying
    <2>3. pc[q] = "put" =>
                    \/ e <= loc[q].age
                    \/ loc[q].kind = "verdict" /\ e <= loc[q].age + RequestLife + VerdictLife
      BY DEF Since
    <2> QED BY <1>0, <2>1, <2>2, <2>3, Lengths
  <1> QED BY <1>1, <1>2 DEF Since

LEMMA DatedTicks ==
  ASSUME DeletionInv, Tick, NEW db, NEW next, Alike(db, next), DatedNow(db)
  PROVE  Dated(next, cached', pc', loc', objects', cron')
  <1>0. /\ pc' = pc /\ objects' = objects /\ CronEvery \in Nat /\ cron \in 0 .. CronEvery
        /\ cron' = IF cron > 0 THEN cron - 1 ELSE cron
    BY ClocksRun, Lengths DEF Tick
  <1> SUFFICES ASSUME next.job # None
               PROVE  /\ next.session = FALSE /\ next.keys = FALSE
                      /\ next.job.status # "pending" => next.ws = "gone"
                      /\ IF next.job.status = "complete"
                           THEN Quiet(cached', pc') /\ objects' = {} /\ \A k \in Keys : next.kv[k] = "none"
                           ELSE /\ Since(cached', pc', loc', Elapsed(next) - cron')
                                /\ \A k \in Keys : next.kv[k] # "none"
    BY DEF Dated
  <1>1. /\ db.job # None /\ next.kv = db.kv
        /\ next.job.status = db.job.status /\ next.job.workos = db.job.workos
    BY DEF Alike
  <1>2. /\ db.session = FALSE /\ db.keys = FALSE
        /\ db.job.status # "pending" => db.ws = "gone"
        /\ IF db.job.status = "complete"
             THEN Quiet(cached, pc) /\ objects = {} /\ \A k \in Keys : db.kv[k] = "none"
             ELSE Since(cached, pc, loc, Elapsed(db) - cron) /\ \A k \in Keys : db.kv[k] # "none"
    BY <1>1 DEF DatedNow, Dated
  <1>3. CASE db.job.status = "complete"
    <2>1. Quiet(cached', pc')
      BY <1>0, <1>2, <1>3 DEF Quiet, Tick
    <2> QED BY <1>0, <1>1, <1>2, <1>3, <2>1 DEF Alike
  <1>4. CASE db.job.status # "complete"
    <2>1. Elapsed(next) = Elapsed(db) /\ Elapsed(db) \in Int
      BY <1>1, Lengths DEF Elapsed, Cleared
    <2>2. PICK e \in Int, f \in Int :
            e = Elapsed(db) - cron /\ f = Elapsed(next) - cron' /\ f <= e + 1
      <3>1. /\ Elapsed(db) - cron \in Int /\ Elapsed(next) - cron' \in Int
            /\ Elapsed(next) - cron' <= Elapsed(db) - cron + 1
        BY <1>0, <2>1
      <3> QED BY <3>1
    <2>3. Since(cached', pc', loc', e + 1)
      BY <1>2, <1>4, <2>2, SinceTicks
    <2>4. Clocks(cached', loc')
      <3>1. \A p \in Procs : loc'[p].age \in Nat
        BY AllAge
      <3>2. \A k \in Keys : cached'[k] \in Nat
        BY ClocksRun DEF Tick, Clocks
      <3> QED BY <3>1, <3>2 DEF Clocks
    <2>5. Since(cached', pc', loc', f)
      BY <2>2, <2>3, <2>4, SinceLess
    <2> QED BY <1>1, <1>2, <1>4, <2>2, <2>5 DEF Alike
  <1> QED BY <1>3, <1>4

LEMMA TickAlike ==
  ASSUME DeletionInv, Tick
  PROVE  Alike(d1, d1') /\ (d1.job # None => d1'.job # None)
  <1>1. CASE d1' = d1
    BY <1>1 DEF Alike
  <1>2. CASE d1.job # None /\ d1.job.wait > 0 /\ d1' = [d1 EXCEPT !.job.wait = @ - 1]
    <2>1. PICK j \in Job : j = d1.job
      BY <1>2, DatabaseFields
    <2>2. PICK n : n = [j EXCEPT !.wait = j.wait - 1]
      OBVIOUS
    <2>3. n \in Job /\ n.status = j.status /\ n.workos = j.workos
      <3>1. j.wait \in 0 .. RetryAfter /\ j.wait > 0 /\ RetryAfter \in Nat
        BY <1>2, <2>1, DeletionAssumption DEF Job
      <3>2. j.wait - 1 \in 0 .. RetryAfter
        BY <3>1
      <3> QED BY <2>2, <3>2 DEF Job
    <2>4. d1' = [d1 EXCEPT !.job = n]
      BY <1>2, <2>1, <2>2, DatabaseFields DEF Database
    <2>5. /\ d1'.job = n /\ d1'.ws = d1.ws /\ d1'.session = d1.session /\ d1'.keys = d1.keys
          /\ d1'.kv = d1.kv
      BY <2>4, DatabaseFields DEF Database
    <2> QED BY <1>2, <2>1, <2>3, <2>5, NoneAssumption DEF Alike
  <1> QED BY <1>1, <1>2 DEF Tick

LEMMA TickErases == ASSUME ErasureInv, DeletionInv', Tick PROVE ErasureInv'
  <1>0. /\ DeletionInv /\ CronEvery \in Nat /\ cron \in 0 .. CronEvery
        /\ cron' = (IF cron > 0 THEN cron - 1 ELSE cron)
        /\ UNCHANGED <<backup, objects, pc, restored>>
        /\ (Clocks(cached, loc) /\ cron \in 0 .. CronEvery)'
    <2>1. (Clocks(cached, loc) /\ cron \in 0 .. CronEvery)'
      BY ClocksRun, PTL
    <2> QED BY <2>1, ClocksRun, Lengths DEF ErasureInv, Tick
  <1>1. Alike(d1, d1') /\ (d1.job # None => d1'.job # None) /\ Alike(backup, backup')
    BY <1>0, TickAlike DEF Alike
  <1>2. ASSUME NEW q \in Requests PROVE RequestOK(loc'[q], pc'[q])
    <2>1. RequestOK(loc[q], pc[q]) /\ q \in Procs /\ q \notin Passes
      BY DeletionAssumption DEF ErasureInv, Procs
    <2>2. /\ loc[q].age \in Nat /\ loc'[q].kind = loc[q].kind /\ loc'[q].key = loc[q].key
          /\ pc[q] = "idle" => loc'[q] = loc[q]
          /\ pc[q] # "idle" => loc'[q].age = loc[q].age + 1 /\ loc[q].age < RequestLife
      BY <1>0, <2>1, AllAge DEF Life
    <2>3. loc'[q].age <= RequestLife
      BY <2>1, <2>2, Lengths DEF RequestOK
    <2> QED BY <1>0, <2>1, <2>2, <2>3 DEF RequestOK
  <1>3. DatedNow(d1)'
    BY <1>0, <1>1, DatedTicks DEF ErasureInv, DatedNow
  <1>4. restored' = FALSE => DatedNow(backup)' /\ (backup'.job # None => d1'.job # None)
    <2> SUFFICES ASSUME restored' = FALSE
                 PROVE  DatedNow(backup)' /\ (backup'.job # None => d1'.job # None)
      OBVIOUS
    <2>1. DatedNow(backup) /\ (backup.job # None => d1.job # None)
      BY <1>0 DEF ErasureInv
    <2>2. Dated(backup', cached', pc', loc', objects', cron')
      BY <1>0, <1>1, <2>1, DatedTicks
    <2> QED BY <1>0, <1>1, <2>1, <2>2 DEF DatedNow
  <1>5. ASSUME NEW p \in Passes PROVE OnTime(p)' /\ Swept(p)'
    <2>1. /\ loc[p].age \in Nat /\ loc'[p].status = loc[p].status
          /\ loc'[p].workos = loc[p].workos /\ loc'[p].left = loc[p].left
          /\ pc[p] # "idle" => loc'[p].age = loc[p].age + 1
      BY <1>0, AllAge DEF Procs
    <2>2. Swept(p)'
      BY <1>0, <2>1 DEF ErasureInv, Swept, Quiet, Tick
    <2>3. ASSUME pc'[p] # "idle"
          PROVE  /\ d1'.job # None
                 /\ CronEvery - cron' <= loc'[p].age
                 /\ Since(cached', pc', loc', PassElapsed(loc'[p]) + loc'[p].age)
                 /\ loc'[p].status = "r2_grace" => d1'.job.status # "pending"
      <3>1. /\ d1.job # None /\ CronEvery - cron <= loc[p].age
            /\ Since(cached, pc, loc, PassElapsed(loc[p]) + loc[p].age)
            /\ loc[p].status = "r2_grace" => d1.job.status # "pending"
        BY <1>0, <2>3 DEF ErasureInv, OnTime
      <3>2. PassElapsed(loc'[p]) = PassElapsed(loc[p]) /\ PassElapsed(loc[p]) \in Int
        BY <1>0, <2>1 DEF PassElapsed
      <3>3. PICK e \in Int : /\ e = PassElapsed(loc[p]) + loc[p].age
                             /\ e + 1 = PassElapsed(loc'[p]) + loc'[p].age
        <4>1. /\ PassElapsed(loc[p]) + loc[p].age \in Int
              /\ PassElapsed(loc[p]) + loc[p].age + 1 = PassElapsed(loc'[p]) + loc'[p].age
          BY <1>0, <2>1, <2>3, <3>2
        <4> QED BY <4>1
      <3>4. Since(cached', pc', loc', e + 1)
        BY <1>0, <3>1, <3>3, SinceTicks
      <3>5. CronEvery - cron' <= loc'[p].age
        BY <1>0, <2>1, <2>3, <3>1
      <3>6. d1'.job # None /\ d1'.job.status = d1.job.status
        BY <1>1, <3>1 DEF Alike
      <3> QED BY <2>1, <3>1, <3>3, <3>4, <3>5, <3>6
    <2> QED BY <2>2, <2>3 DEF OnTime
  <1>6. ASSUME NEW p \in Passes, NEW q \in Passes PROVE Apart(p, q)'
    <2>1. /\ loc[p].age \in Nat /\ loc[q].age \in Nat
          /\ pc[p] # "idle" => loc'[p].age = loc[p].age + 1
          /\ pc[q] # "idle" => loc'[q].age = loc[q].age + 1
      BY <1>0, AllAge DEF Procs
    <2>2. Apart(p, q)
      BY DEF ErasureInv
    <2> QED BY <1>0, <2>1, <2>2 DEF Apart
  <1>7. LateOK'
    <2>1. Late' => Late
      <3>1. \A p \in Passes : Stale(p)' => Stale(p)
        BY <1>0, AllAge DEF Stale, Procs
      <3> QED BY <1>1, <3>1 DEF Late, JobIs, Cleared, Alike
    <2>2. PICK e \in Int, f \in Int, g \in Int :
            /\ e = 3 * CronEvery - cron /\ f = 3 * CronEvery - cron' /\ f <= e + 1
            /\ g = 3 * CronEvery /\ g <= g + 1 /\ e + 1 \in Int /\ g + 1 \in Int
      <3>1. /\ 3 * CronEvery - cron \in Int /\ 3 * CronEvery - cron' \in Int
            /\ 3 * CronEvery - cron' <= 3 * CronEvery - cron + 1
            /\ 3 * CronEvery \in Int
        BY <1>0
      <3>2. 3 * CronEvery <= 3 * CronEvery + 1 /\ 3 * CronEvery - cron + 1 \in Int
            /\ 3 * CronEvery + 1 \in Int
        BY <3>1
      <3> QED BY <3>1, <3>2
    <2>3. ASSUME Late PROVE Since(cached', pc', loc', 3 * CronEvery - cron')
      <3>1. Since(cached', pc', loc', e + 1)
        BY <1>0, <2>2, <2>3, SinceTicks DEF ErasureInv, LateOK
      <3> QED BY <1>0, <2>2, <3>1, SinceLess
    <2>4. ASSUME Late, NEW h \in Passes,
                 loc'[h].status = "r2_grace", pc'[h] \in {"authorize", "kvRead"}
          PROVE  Since(cached', pc', loc', 3 * CronEvery)
      <3>1. loc[h].status = "r2_grace" /\ pc[h] \in {"authorize", "kvRead"}
        BY <1>0, <2>4, AllAge DEF Procs
      <3>2. Since(cached, pc, loc, g)
        BY <2>2, <2>4, <3>1 DEF ErasureInv, LateOK
      <3>3. Since(cached', pc', loc', g + 1)
        BY <1>0, <3>2, SinceTicks
      <3> QED BY <1>0, <2>2, <3>3, SinceLess
    <2> QED BY <2>1, <2>3, <2>4 DEF LateOK
  <1> QED BY <1>2, <1>3, <1>4, <1>5, <1>6, <1>7 DEF ErasureInv

-------------------------------------------------------------------------------
(* The rest of the world                                                   *)

LEMMA JoinErases == ASSUME ErasureInv, DeletionInv', JoinOtherWorkspace PROVE ErasureInv'
  <1>1. UNCHANGED <<backup, storeVars, pc, loc, cron, restored>>
    BY DEF JoinOtherWorkspace
  <1>2. /\ d1'.job = d1.job /\ d1'.ws = d1.ws /\ d1'.session = d1.session /\ d1'.keys = d1.keys
        /\ d1'.kv = d1.kv
    BY DatabaseFields DEF ErasureInv, JoinOtherWorkspace, Database
  <1>3. Alike(d1, d1')
    BY <1>2 DEF Alike
  <1>4. Tame /\ RequestsOK' /\ \A g \in Passes : GoesOn(g) /\ Swept(g)'
    BY <1>1, NobodyMoves DEF storeVars
  <1> QED BY <1>1, <1>2, <1>3, <1>4, PlainStep

LEMMA StutterErases == ASSUME ErasureInv, DeletionInv', UNCHANGED deletionVars PROVE ErasureInv'
  <1>1. UNCHANGED <<d1, backup, storeVars, pc, loc, cron, restored>>
    BY DEF deletionVars
  <1>2. Alike(d1, d1')
    BY <1>1 DEF Alike
  <1>3. Tame /\ RequestsOK' /\ \A g \in Passes : GoesOn(g) /\ Swept(g)'
    BY <1>1, NobodyMoves DEF storeVars
  <1> QED BY <1>1, <1>2, <1>3, PlainStep

LEMMA BookmarkErases == ASSUME ErasureInv, DeletionInv', Bookmark PROVE ErasureInv'
  <1>1. /\ restored = FALSE /\ backup' = d1
        /\ UNCHANGED <<d1, cached, objects, pc, loc, cron, restored>>
    BY DEF Bookmark, storeVars, ErasureInv, DeletionInv, DeletionTypeOK, StoresOK
  <1>2. DatedNow(d1)' /\ DatedNow(backup)'
    BY <1>1 DEF ErasureInv, DatedNow
  <1>3. /\ \A q \in Requests : RequestOK(loc'[q], pc'[q])
        /\ \A p \in Passes : OnTime(p)' /\ Swept(p)'
        /\ \A p, q \in Passes : Apart(p, q)'
    BY <1>1 DEF ErasureInv, OnTime, Swept, Apart
  <1>4. LateOK'
    BY <1>1 DEF ErasureInv, LateOK, Late, JobIs, Stale
  <1> QED BY <1>1, <1>2, <1>3, <1>4 DEF ErasureInv

(* Nobody is running, and what is restored dates itself.                   *)
LEMMA RestoreErases == ASSUME ErasureInv, DeletionInv', RestoreD1 PROVE ErasureInv'
  <1>1. /\ restored = FALSE /\ restored' = TRUE /\ d1' = backup
        /\ UNCHANGED <<backup, cached, objects, pc, loc, cron>>
        /\ \A p \in Procs : pc[p] = "idle"
    BY DEF RestoreD1, storeVars, ErasureInv, DeletionInv, DeletionTypeOK, StoresOK
  <1>2. \A q \in Requests : RequestOK(loc'[q], pc'[q])
    BY <1>1 DEF ErasureInv
  <1>3. DatedNow(d1)' /\ DatedNow(backup)'
    BY <1>1 DEF ErasureInv, DatedNow
  <1>4. \A p \in Passes : pc'[p] = "idle"
    BY <1>1 DEF Procs
  <1>5. /\ \A p \in Passes : OnTime(p)' /\ Swept(p)'
        /\ \A p, q \in Passes : Apart(p, q)'
    BY <1>4 DEF OnTime, Swept, Apart
  <1>6. LateOK'
    <2>1. ASSUME Late' PROVE Since(cached', pc', loc', 3 * CronEvery - cron')
      <3>1. d1'.job # None /\ d1'.job.status = "r2_grace" /\ Cleared(d1')
        BY <1>4, <2>1 DEF Late, JobIs, Stale, Early
      <3> QED BY <1>3, <3>1 DEF DatedNow, Dated, Elapsed
    <2> QED BY <1>4, <2>1 DEF LateOK
  <1> QED BY <1>1, <1>2, <1>3, <1>5, <1>6 DEF ErasureInv

LEMMA ErasureStart == ASSUME DeletionInit PROVE ErasureInv
  <1>1. d1.job = None /\ backup.job = None
    BY DEF DeletionInit, NewDatabase
  <1>2. \A q \in Procs : pc[q] = "idle" /\ loc[q] = NewLocal("pass")
    BY DEF DeletionInit
  <1>3. NewLocal("pass").age = 0 /\ NewLocal("pass").kind = "pass"
    BY DEF NewLocal
  <1>4. \A q \in Requests : RequestOK(loc[q], pc[q])
    BY <1>2, <1>3, Lengths DEF RequestOK, Procs
  <1>5. \A p \in Passes : pc[p] = "idle"
    BY <1>2 DEF Procs
  <1>6. /\ \A p \in Passes : OnTime(p) /\ Swept(p)
        /\ \A p, q \in Passes : Apart(p, q)
    BY <1>5 DEF OnTime, Swept, Apart
  <1> QED BY <1>1, <1>4, <1>6, DeletionStart DEF ErasureInv, DatedNow, Dated, LateOK, Late, JobIs

LEMMA ErasureStep ==
  ASSUME ErasureInv, [DeletionNext]_deletionVars PROVE ErasureInv'
  <1>0. DeletionInv'
    BY DeletionStep DEF ErasureInv
  <1>1. ASSUME NEW p \in Requests, RequestStep(p) PROVE ErasureInv'
    BY <1>0, <1>1, ProcessErases DEF Procs
  <1>2. ASSUME NEW p \in Passes, PassStep(p) PROVE ErasureInv'
    <2>1. CASE ReadDue(p)
      BY <1>0, <2>1, DueErases
    <2>2. CASE ~ReadDue(p)
      BY <1>0, <1>2, <2>2, ProcessErases DEF Procs
    <2> QED BY <2>1, <2>2
  <1>3. ASSUME NEW p \in Procs, KVStep(p) \/ Evict(p) PROVE ErasureInv'
    BY <1>0, <1>3, ProcessErases
  <1>4. CASE JoinOtherWorkspace \/ Tick \/ Bookmark \/ RestoreD1 \/ UNCHANGED deletionVars
    BY <1>0, <1>4, JoinErases, TickErases, BookmarkErases, RestoreErases, StutterErases
  <1> QED BY <1>1, <1>2, <1>3, <1>4 DEF DeletionNext

LEMMA ErasureSuffices == ASSUME ErasureInv PROVE ErasureIsOrderly
  <1>0. DeletionTypeOK /\ TenantSays(d1)
    BY DEF ErasureInv, DeletionInv
  <1>1. RowsOutliveIdentity
    BY <1>0 DEF TenantSays, RowsOutliveIdentity
  <1>2. CompleteMeansErased
    <2> SUFFICES ASSUME d1.job # None, d1.job.status = "complete" PROVE CompleteMeansErased
      BY DEF CompleteMeansErased, JobIs
    <2>1. /\ d1.ws = "gone" /\ Quiet(cached, pc) /\ objects = {}
          /\ \A k \in Keys : d1.kv[k] = "none"
      BY DEF ErasureInv, DatedNow, Dated
    <2>2. ~identity
      BY <1>0, <2>1 DEF TenantSays
    <2> QED BY <2>1, <2>2 DEF CompleteMeansErased, Quiet
  <1> QED BY <1>0, <1>1, <1>2 DEF ErasureIsOrderly

(* A deletion whose job says complete has left nothing behind, whatever    *)
(* fails, overlaps, is evicted or restored on the way: not an object of    *)
(* R2, not a verdict of KV, not a row, not the identity; and the rows went *)
(* after the identity.                                                     *)
THEOREM CompleteIsErased == DeletionSpec => []ErasureIsOrderly
  <1>1. DeletionInit => ErasureInv
    BY ErasureStart
  <1>2. ErasureInv /\ [DeletionNext]_deletionVars => ErasureInv'
    BY ErasureStep
  <1>3. ErasureInv => ErasureIsOrderly
    BY ErasureSuffices
  <1> QED BY <1>1, <1>2, <1>3, PTL DEF DeletionSpec
================================================================================
