------------------------------- MODULE Webhooks --------------------------------
(***************************************************************************)
(* Outbound webhooks of the hosted Worker: platform/src/webhooks.ts over   *)
(* the tables of migration 0007.                                           *)
(*                                                                         *)
(* A cron tick sweeps each workspace's event log into delivery rows and    *)
(* queue messages and then re-enqueues the rows an earlier tick stranded.  *)
(* Queue consumers sign and POST one message each.  Ticks may overlap,     *)
(* consumers run at any time, and each action is one awaited call and the  *)
(* code up to the next one.  The queue is at-least-once: a message whose   *)
(* consumer throws, dies or is not heard comes back, MaxRetries times.     *)
(***************************************************************************)
EXTENDS Integers, Sequences

CONSTANTS
  Ticks, Consumers,  \* processes
  Workspaces, EventKinds,
  Endpoints,
  Owner,             \* the workspace of an endpoint
  KindsOf,           \* the event kinds an endpoint subscribed to, never changed
  Founding,          \* the endpoints that exist from the start
  SweepLimit,        \* events per sweep
  MaxAttempts,       \* MAX_DELIVERY_ATTEMPTS
  MaxRetries,        \* the queue's max_retries
  MaxEvents,         \* bound: events per workspace
  MaxTickFaults,     \* bound: failing or unacknowledged calls of the ticks
  NoRow

Rows == Endpoints \X (1 .. MaxEvents)

ASSUME WebhooksAssumption ==
  /\ Owner \in [Endpoints -> Workspaces]
  /\ KindsOf \in [Endpoints -> (SUBSET EventKinds) \ {{}}]
  /\ Founding \subseteq Endpoints
  /\ SweepLimit \in Nat \ {0} /\ MaxAttempts \in Nat \ {0} /\ MaxRetries \in Nat
  /\ MaxEvents \in Nat /\ MaxTickFaults \in Nat

Statuses == {"queued", "delivered", "failed", "dead"}
Terminal == {"delivered", "dead"}
(* A delivery row is unique per endpoint and event, so the pair stands for *)
(* its id.  "known" says whether the id in a message is the id of the row: *)
(* INSERT OR IGNORE may have kept another tick's row.                      *)
Delivery == [status : Statuses, attempt : Nat \ {0}]
Message == [row : Rows, known : BOOLEAN, by : Ticks, round : Nat \ {0}, tries : Nat \ {0}]

Phases == {"post", "disabled", "ok", "error"}  \* a consumer's progress

ASSUME NoRowAssumption ==
  /\ NoRow \notin Workspaces \cup Message /\ NoRow \notin Delivery /\ NoRow \notin Nat
  /\ NoRow \notin [msg : Message, phase : Phases]
  /\ \A S \in SUBSET Endpoints : NoRow # S

VARIABLES
  log,         \* the event kinds of each workspace, in sequence order
  endpoints,   \* "absent", "active" or "disabled"
  deliveries, cursor, aged,
  tickAt, todo, ws, seen, from, upto, outbox, stuck,  \* the ticks
  queue, holding,                                 \* the queue and its consumers
  hits,        \* POSTs an endpoint answered 2xx, counted up to 2
  tickFaults

tickVars == <<tickAt, todo, ws, seen, from, upto, outbox, stuck>>
tableVars == <<deliveries, cursor, aged>>
webhookVars == <<log, endpoints, tableVars, tickVars, queue, holding, hits, tickFaults>>

-------------------------------------------------------------------------------
Least(a, b) == IF a < b THEN a ELSE b
Greatest(a, b) == IF a < b THEN b ELSE a

Active == {e \in Endpoints : endpoints[e] = "active"}
Matches(e, n) == log[Owner[e]][n] \in KindsOf[e]

(* The rows of one sweep: every scanned event with every endpoint seen    *)
(* that subscribed to its kind.                                            *)
Fanout(t) == {r \in seen[t] \X (from[t] + 1 .. upto[t]) : Matches(r[1], r[2])}

WebhooksInit ==
  /\ log = [w \in Workspaces |-> <<>>]
  /\ endpoints = [e \in Endpoints |-> IF e \in Founding THEN "active" ELSE "absent"]
  /\ deliveries = [r \in Rows |-> NoRow]
  /\ cursor = [w \in Workspaces |-> 0]
  /\ aged = {}
  /\ tickAt = [t \in Ticks |-> "idle"]
  /\ todo = [t \in Ticks |-> {}]
  /\ ws = [t \in Ticks |-> NoRow]
  /\ seen = [t \in Ticks |-> NoRow] /\ from = [t \in Ticks |-> NoRow]
  /\ upto = [t \in Ticks |-> NoRow]
  /\ outbox = [t \in Ticks |-> {}] /\ stuck = [t \in Ticks |-> {}]
  /\ queue = {} /\ holding = [c \in Consumers |-> NoRow]
  /\ hits = [r \in Rows |-> 0]
  /\ tickFaults = 0

-------------------------------------------------------------------------------
(* The tick: sweepWorkspace for each workspace that has an active endpoint *)

TickFault == tickFaults < MaxTickFaults /\ tickFaults' = tickFaults + 1

Locals(t, w, sn, fr, up) ==
  /\ ws' = [ws EXCEPT ![t] = w] /\ seen' = [seen EXCEPT ![t] = sn]
  /\ from' = [from EXCEPT ![t] = fr] /\ upto' = [upto EXCEPT ![t] = up]
Forget(t) == Locals(t, NoRow, NoRow, NoRow, NoRow)
Keep == UNCHANGED <<ws, seen, from, upto>>
TickGoto(t, label) == tickAt' = [tickAt EXCEPT ![t] = label]

StartTick(t) ==
  /\ tickAt[t] = "idle"
  /\ TickGoto(t, "next")
  /\ todo' = [todo EXCEPT ![t] = {Owner[e] : e \in Active}]
  /\ UNCHANGED <<ws, seen, from, upto, outbox, stuck, log, endpoints, tableVars,
                 queue, holding, hits, tickFaults>>

NextWorkspace(t) ==
  /\ tickAt[t] = "next"
  /\ \/ \E w \in todo[t] :
          /\ todo' = [todo EXCEPT ![t] = @ \ {w}]
          /\ Locals(t, w, NoRow, NoRow, NoRow)
          /\ TickGoto(t, "sweep")
     \/ todo[t] = {} /\ todo' = todo /\ Keep /\ TickGoto(t, "stuck")
  /\ UNCHANGED <<outbox, stuck, log, endpoints, tableVars, queue, holding, hits, tickFaults>>

(* The endpoints and the cursor are read concurrently, the events after    *)
(* both.                                                                   *)
ReadEndpoints(t) ==
  /\ tickAt[t] = "sweep" /\ seen[t] = NoRow
  /\ seen' = [seen EXCEPT ![t] = {e \in Active : Owner[e] = ws[t]}]
  /\ UNCHANGED <<tickAt, todo, ws, from, upto, outbox, stuck, log, endpoints, tableVars,
                 queue, holding, hits, tickFaults>>

ReadCursor(t) ==
  /\ tickAt[t] = "sweep" /\ from[t] = NoRow
  /\ from' = [from EXCEPT ![t] = cursor[ws[t]]]
  /\ UNCHANGED <<tickAt, todo, ws, seen, upto, outbox, stuck, log, endpoints, tableVars,
                 queue, holding, hits, tickFaults>>

ReadEvents(t) ==
  /\ tickAt[t] = "sweep" /\ seen[t] # NoRow /\ from[t] # NoRow
  /\ LET last == Least(Len(log[ws[t]]), from[t] + SweepLimit)
     IN IF seen[t] = {} \/ last = from[t]
          THEN Forget(t) /\ TickGoto(t, "next")
          ELSE Locals(t, ws[t], seen[t], from[t], last) /\ TickGoto(t, "batch")
  /\ UNCHANGED <<todo, outbox, stuck, log, endpoints, tableVars, queue, holding,
                 hits, tickFaults>>

InsertDeliveries(R) ==
  deliveries' = [r \in Rows |->
    IF r \in R /\ deliveries[r] = NoRow
      THEN [status |-> "queued", attempt |-> 1] ELSE deliveries[r]]

AdvanceCursor(t) ==
  cursor' = [cursor EXCEPT ![ws[t]] = Greatest(@, upto[t])]

SweepBatchCursorFirst(t) ==  \* mutant: two statements and no batch
  \/ /\ InsertDeliveries(Fanout(t)) /\ AdvanceCursor(t)
     /\ outbox' = [outbox EXCEPT ![t] =
          {[row |-> r, known |-> deliveries[r] = NoRow, by |-> t, round |-> 1, tries |-> 1]
             : r \in Fanout(t)}]
     /\ Forget(t) /\ TickGoto(t, "send") /\ tickFaults' = tickFaults
  \/ /\ TickFault /\ AdvanceCursor(t)
     /\ Forget(t) /\ TickGoto(t, "next") /\ UNCHANGED <<deliveries, outbox>>
(* The D1 batch: the rows and the cursor together.  It may fail, or commit *)
(* unacknowledged; both end the sweep of this workspace.                   *)
SweepBatch(t) ==
  \/ /\ InsertDeliveries(Fanout(t)) /\ AdvanceCursor(t)
     /\ outbox' = [outbox EXCEPT ![t] =
          {[row |-> r, known |-> deliveries[r] = NoRow, by |-> t, round |-> 1, tries |-> 1]
             : r \in Fanout(t)}]
     /\ Forget(t) /\ TickGoto(t, "send") /\ tickFaults' = tickFaults
  \/ /\ TickFault /\ InsertDeliveries(Fanout(t)) /\ AdvanceCursor(t)
     /\ Forget(t) /\ TickGoto(t, "next") /\ outbox' = outbox
  \/ /\ TickFault
     /\ Forget(t) /\ TickGoto(t, "next") /\ UNCHANGED <<deliveries, cursor, outbox>>
CommitSweep(t) ==
  /\ tickAt[t] = "batch"
  /\ SweepBatch(t)
  /\ UNCHANGED <<todo, stuck, aged, log, endpoints, queue, holding, hits>>

(* One send of the loop, in event order.  A send that throws, whether or   *)
(* not the queue took the message, drops the rest.                         *)
SendNext(t) ==
  /\ tickAt[t] = "send"
  /\ \/ \E m \in outbox[t] :
          /\ \A x \in outbox[t] : m.row[2] <= x.row[2]
          /\ \/ /\ queue' = queue \cup {m}
                /\ outbox' = [outbox EXCEPT ![t] = @ \ {m}]
                /\ UNCHANGED <<tickAt, tickFaults>>
             \/ /\ TickFault /\ queue' \in {queue, queue \cup {m}}
                /\ outbox' = [outbox EXCEPT ![t] = {}]
                /\ TickGoto(t, "next")
     \/ outbox[t] = {} /\ TickGoto(t, "next") /\ UNCHANGED <<queue, outbox, tickFaults>>
  /\ UNCHANGED <<todo, ws, seen, from, upto, stuck, log, endpoints, tableVars,
                 holding, hits>>

-------------------------------------------------------------------------------
(* The tick: reconcileStuckDeliveries                                      *)

ReadStuck(t) ==
  /\ tickAt[t] = "stuck"
  /\ stuck' = [stuck EXCEPT ![t] =
       {[row |-> r, attempt |-> deliveries[r].attempt]
          : r \in {x \in aged : deliveries[x].status = "queued"}}]
  /\ TickGoto(t, "reconcile")
  /\ UNCHANGED <<todo, ws, seen, from, upto, outbox, log, endpoints, tableVars,
                 queue, holding, hits, tickFaults>>

UpdateQueuedNever(r, status, attempt) ==  \* mutant: the bump is not durable
  deliveries' = deliveries
(* Both updates are conditional on the row still being queued, and nobody  *)
(* looks at whether they applied.                                          *)
UpdateQueued(r, status, attempt) ==
  deliveries' = IF deliveries[r].status = "queued"
    THEN [deliveries EXCEPT ![r] = [status |-> status, attempt |-> attempt]]
    ELSE deliveries

ReconcileRow(t) ==
  /\ tickAt[t] = "reconcile"
  /\ \/ \E x \in stuck[t] :
          /\ stuck' = [stuck EXCEPT ![t] = @ \ {x}]
          /\ IF x.attempt >= MaxAttempts
               THEN /\ UpdateQueued(x.row, "dead", x.attempt)
                    /\ UNCHANGED <<tickAt, outbox>>
               ELSE /\ UpdateQueued(x.row, "queued", x.attempt + 1)
                    /\ outbox' = [outbox EXCEPT ![t] =
                         {[row |-> x.row, known |-> TRUE, by |-> t,
                           round |-> x.attempt + 1, tries |-> 1]}]
                    /\ TickGoto(t, "resend")
     \/ stuck[t] = {} /\ TickGoto(t, "idle") /\ UNCHANGED <<stuck, deliveries, outbox>>
  /\ UNCHANGED <<todo, ws, seen, from, upto, cursor, aged, log, endpoints, queue,
                 holding, hits, tickFaults>>

(* A send that throws ends the whole pass.                                 *)
Resend(t) ==
  /\ tickAt[t] = "resend"
  /\ outbox' = [outbox EXCEPT ![t] = {}]
  /\ \/ queue' = queue \cup outbox[t] /\ TickGoto(t, "reconcile") /\ UNCHANGED <<stuck, tickFaults>>
     \/ /\ TickFault /\ queue' \in {queue, queue \cup outbox[t]}
        /\ stuck' = [stuck EXCEPT ![t] = {}] /\ TickGoto(t, "idle")
  /\ UNCHANGED <<todo, ws, seen, from, upto, log, endpoints, tableVars, holding, hits>>

(* The Worker is evicted, or any other storage call throws past the        *)
(* per-workspace and per-pass handlers.                                    *)
TickDies(t) ==
  /\ tickAt[t] # "idle"
  /\ TickFault
  /\ TickGoto(t, "idle") /\ Forget(t)
  /\ todo' = [todo EXCEPT ![t] = {}] /\ outbox' = [outbox EXCEPT ![t] = {}]
  /\ stuck' = [stuck EXCEPT ![t] = {}]
  /\ UNCHANGED <<log, endpoints, tableVars, queue, holding, hits>>

(* A read of the sweep throws: the next workspace is swept all the same.   *)
SweepThrows(t) ==
  /\ tickAt[t] = "sweep"
  /\ TickFault
  /\ TickGoto(t, "next") /\ Forget(t)
  /\ UNCHANGED <<todo, outbox, stuck, log, endpoints, tableVars, queue, holding, hits>>

TickStep(t) ==
  \/ StartTick(t) \/ NextWorkspace(t) \/ ReadEndpoints(t) \/ ReadCursor(t)
  \/ ReadEvents(t) \/ CommitSweep(t) \/ SendNext(t)
  \/ ReadStuck(t) \/ ReconcileRow(t) \/ Resend(t)

-------------------------------------------------------------------------------
(* The consumer: processDeliveryMessage                                    *)

Hold(c, m, phase) == holding' = [holding EXCEPT ![c] = [msg |-> m, phase |-> phase]]

(* A message taken off the queue; the endpoint is read.                    *)
Take(c) ==
  /\ holding[c] = NoRow
  /\ \E m \in queue :
       /\ queue' = queue \ {m}
       /\ Hold(c, m, IF endpoints[m.row[1]] = "active" THEN "post" ELSE "disabled")
  /\ UNCHANGED <<log, endpoints, tableVars, tickVars, hits, tickFaults>>

(* The POST: accepted, accepted with the answer lost, or not accepted      *)
(* (no sealing key, an unsealable secret, a network error, another status).*)
Post(c) ==
  /\ holding[c] # NoRow /\ holding[c].phase = "post"
  /\ LET m == holding[c].msg
         accepted == hits' = [hits EXCEPT ![m.row] = Least(2, @ + 1)]
     IN \/ accepted /\ Hold(c, m, "ok")
        \/ accepted /\ Hold(c, m, "error")
        \/ hits' = hits /\ Hold(c, m, "error")
  /\ UNCHANGED <<log, endpoints, tableVars, tickVars, queue, tickFaults>>

Exhausted(m) == m.tries >= MaxAttempts
OutcomeOptimistic(h) ==  \* mutant: the row is settled by the attempt, not by the answer
  CASE h.phase = "disabled" -> "dead"
    [] OTHER -> IF Exhausted(h.msg) THEN "delivered" ELSE "failed"
Outcome(h) ==
  CASE h.phase = "ok" -> "delivered"
    [] h.phase = "disabled" -> "dead"
    [] OTHER -> IF Exhausted(h.msg) THEN "dead" ELSE "failed"

SettleBlindly(m, status) ==  \* mutant: any row is overwritten
  deliveries' = IF m.known
    THEN [deliveries EXCEPT ![m.row] = [status |-> status, attempt |-> m.tries]]
    ELSE deliveries
(* recordDeliveryOutcome: a finished row stays as it is.                   *)
Settle(m, status) ==
  deliveries' = IF m.known /\ deliveries[m.row].status \notin Terminal
    THEN [deliveries EXCEPT ![m.row] = [status |-> status, attempt |-> m.tries]]
    ELSE deliveries

(* The platform redelivers, or moves the message to the dead-letter queue. *)
Requeue(m) ==
  queue' = IF m.tries <= MaxRetries
    THEN queue \cup {[m EXCEPT !.tries = @ + 1]} ELSE queue

(* The outcome is recorded; a failed delivery rethrows, and so does a      *)
(* write that fails.                                                       *)
RecordOutcome(c) ==
  /\ holding[c] # NoRow /\ holding[c].phase # "post"
  /\ holding' = [holding EXCEPT ![c] = NoRow]
  /\ LET h == holding[c] IN
     \/ Settle(h.msg, Outcome(h)) /\ h.phase # "error" /\ queue' = queue
     \/ Settle(h.msg, Outcome(h)) /\ Requeue(h.msg)
     \/ deliveries' = deliveries /\ Requeue(h.msg)
  /\ UNCHANGED <<log, endpoints, cursor, aged, tickVars, hits, tickFaults>>

(* The consumer is evicted before or after its POST.                       *)
ConsumerDies(c) ==
  /\ holding[c] # NoRow
  /\ holding' = [holding EXCEPT ![c] = NoRow]
  /\ Requeue(holding[c].msg)
  /\ UNCHANGED <<log, endpoints, tableVars, tickVars, hits, tickFaults>>

ConsumerStep(c) == Take(c) \/ Post(c) \/ RecordOutcome(c)

-------------------------------------------------------------------------------
(* What else moves                                                         *)

AppendEvent(w) ==
  /\ Len(log[w]) < MaxEvents
  /\ \E k \in EventKinds : log' = [log EXCEPT ![w] = Append(@, k)]
  /\ UNCHANGED <<endpoints, tableVars, tickVars, queue, holding, hits, tickFaults>>

CreateEndpoint(e) ==
  /\ endpoints[e] = "absent"
  /\ endpoints' = [endpoints EXCEPT ![e] = "active"]
  /\ UNCHANGED <<log, tableVars, tickVars, queue, holding, hits, tickFaults>>

DisableEndpoint(e) ==
  /\ endpoints[e] = "active"
  /\ endpoints' = [endpoints EXCEPT ![e] = "disabled"]
  /\ UNCHANGED <<log, tableVars, tickVars, queue, holding, hits, tickFaults>>

(* A row becomes older than STUCK_DELIVERY_AGE_SECONDS.                    *)
RowAges(r) ==
  /\ deliveries[r] # NoRow /\ r \notin aged
  /\ aged' = aged \cup {r}
  /\ UNCHANGED <<log, endpoints, deliveries, cursor, tickVars, queue, holding, hits, tickFaults>>

WebhooksNext ==
  \/ \E t \in Ticks : TickStep(t) \/ TickDies(t) \/ SweepThrows(t)
  \/ \E c \in Consumers : ConsumerStep(c) \/ ConsumerDies(c)
  \/ \E w \in Workspaces : AppendEvent(w)
  \/ \E e \in Endpoints : CreateEndpoint(e) \/ DisableEndpoint(e)
  \/ \E r \in Rows : RowAges(r)

WebhooksSpec == WebhooksInit /\ [][WebhooksNext]_webhookVars

-------------------------------------------------------------------------------
(* Properties                                                              *)

TickLabels == {"idle", "next", "sweep", "batch", "send", "stuck", "reconcile", "resend"}
(* Every variable stays in its domain; what was swept is in the log, and   *)
(* only a row that is there is stuck.                                      *)
TablesOK ==
  /\ log \in [Workspaces -> Seq(EventKinds)] /\ \A w \in Workspaces : Len(log[w]) <= MaxEvents
  /\ endpoints \in [Endpoints -> {"absent", "active", "disabled"}]
  /\ deliveries \in [Rows -> Delivery \cup {NoRow}]
  /\ cursor \in [Workspaces -> Nat]
  /\ \A w \in Workspaces : cursor[w] <= Len(log[w])
  /\ aged \subseteq {r \in Rows : deliveries[r] # NoRow}
  /\ hits \in [Rows -> 0 .. 2]
  /\ tickFaults \in 0 .. MaxTickFaults
SweepsOK ==
  /\ tickAt \in [Ticks -> TickLabels]
  /\ todo \in [Ticks -> SUBSET Workspaces]
  /\ ws \in [Ticks -> Workspaces \cup {NoRow}]
  /\ seen \in [Ticks -> (SUBSET Endpoints) \cup {NoRow}]
  /\ from \in [Ticks -> Nat \cup {NoRow}] /\ upto \in [Ticks -> Nat \cup {NoRow}]
  /\ \A t \in Ticks :
       /\ ws[t] # NoRow <=> tickAt[t] \in {"sweep", "batch"}
       /\ upto[t] # NoRow <=> tickAt[t] = "batch"
       /\ tickAt[t] = "batch" =>
            seen[t] # NoRow /\ from[t] # NoRow /\ upto[t] <= Len(log[ws[t]])
MessagesOK ==
  /\ outbox \in [Ticks -> SUBSET Message]
  /\ stuck \in [Ticks -> SUBSET [row : Rows, attempt : Nat \ {0}]]
  /\ queue \subseteq Message
  /\ holding \in [Consumers -> [msg : Message, phase : Phases] \cup {NoRow}]
WebhooksTypeOK == TablesOK /\ SweepsOK /\ MessagesOK

(* The endpoints no tick can have overlooked: there from the start, or     *)
(* alone in its workspace, which is not swept before it exists.            *)
Steady == Founding \cup {e \in Endpoints : \A f \in Endpoints : Owner[f] = Owner[e] => f = e}

(* The cursor never passes an event without a row for every endpoint that  *)
(* was there all along, whatever ticks overlap, fail or die: the cursor is *)
(* the only memory of what was swept, so such an event would be lost for   *)
(* good.                                                                   *)
NothingSkipped ==
  \A e \in Steady : endpoints[e] = "active" =>
    \A n \in 1 .. cursor[Owner[e]] : Matches(e, n) => deliveries[<<e, n>>] # NoRow

(* The cursor of a workspace passes no event without its row, in tables    *)
(* that keep their types.                                                  *)
SweepsAreSound == WebhooksTypeOK /\ NothingSkipped

(* "delivered" is only ever said of an event that the endpoint accepted.   *)
DeliveredWasAccepted ==
  \A r \in Rows : deliveries[r] # NoRow /\ deliveries[r].status = "delivered" => hits[r] > 0

(* A row that is delivered or dead stays so, a settled row is never queued *)
(* again, and no cursor moves backward (the triggers of 0007), although    *)
(* ticks and consumers write rows they read long before.                   *)
SettledStep ==
  /\ \A r \in Rows : deliveries[r] # NoRow =>
       /\ deliveries'[r] # NoRow
       /\ deliveries[r].status \in Terminal => deliveries'[r] = deliveries[r]
       /\ deliveries[r].status # "queued" => deliveries'[r].status # "queued"
  /\ \A w \in Workspaces : cursor'[w] >= cursor[w]
SettledForGood == [][SettledStep]_webhookVars

(* A row that a failed send stranded is repaired or retired: no row stays  *)
(* queued for ever (the comment at webhooks.ts:728).                       *)
NoRowStranded ==
  \A r \in Rows :
    (deliveries[r] # NoRow /\ deliveries[r].status = "queued")
      ~> (deliveries[r] # NoRow /\ deliveries[r].status # "queued")

(* Every event with a subscriber that stays is swept in the end.           *)
EverythingSwept ==
  \A e \in Steady, n \in 1 .. MaxEvents :
    (n <= Len(log[Owner[e]]) /\ Matches(e, n))
      ~> (endpoints[e] # "active" \/ deliveries[<<e, n>>] # NoRow)

===============================================================================
