------------------------------ MODULE EventStore -------------------------------
(***************************************************************************)
(* The local event log: AppendEventsAtomic in internal/storage/            *)
(* event_batch.go, AppendEvent in internal/storage/db.go, and the JSONL    *)
(* import that calls it line by line.                                      *)
(*                                                                         *)
(* Every command invocation that writes is a process of its own: a hook or *)
(* a native transcript import writes one atomic batch, every other command *)
(* appends its events one statement at a time.  SQLite has one writer: an  *)
(* open write transaction keeps the others out, readers see what is        *)
(* committed.  A process may be killed, or its context cancelled, between  *)
(* any two statements.                                                     *)
(***************************************************************************)
EXTENDS Integers, Sequences, FiniteSets

CONSTANTS
  Invocations,  \* all command invocations
  Hooks,     \* invocations that write one atomic batch
  Importers, \* invocations that append event by event
  Events,    \* complete envelopes: two of them may share an event id
  Ids, IdOf,
  Sessions, SessionOf,  \* the canonical session of an event, or None
  Fields, Owners,
  ClaimOf,   \* what an event claims of its session: workstream, provider, native id
  Batches,   \* what an invocation may want to write: sequences of events
  None

ASSUME EventStoreAssumption ==
  /\ IdOf \in [Events -> Ids]
  /\ SessionOf \in [Events -> Sessions \cup {None}]
  /\ ClaimOf \in [Events -> [Fields -> Owners \cup {None}]]
  /\ Batches \subseteq Seq(Events)
  /\ Hooks \cup Importers \subseteq Invocations /\ Hooks \cap Importers = {}
  /\ None \notin Invocations /\ None \notin Sessions /\ None \notin Owners

Writers == Hooks \cup Importers

(* A row of the events table, and the invocation that wrote it.            *)
Row == [seq : Nat \ {0}, event : Events, by : Invocations]

VARIABLES
  rows,      \* the committed events
  lastSeq,   \* sqlite_sequence: the last number given out
  lock,      \* the invocation with an open write transaction
  pc, batch, todo,
  draft,     \* rows of the open transaction
  inserted, existing  \* EventBatchResult

writerVars == <<pc, batch, todo, draft, inserted, existing>>
storeVars == <<rows, lastSeq, lock>>
vars == <<storeVars, writerVars>>

EventsOf(q) == {q[i] : i \in 1 .. Len(q)}
Recorded == {r.event : r \in rows}

(* mergeOwnership and compareOwnership: a blank field claims nothing.      *)
Agree(e, f) ==
  SessionOf[e] # None /\ SessionOf[e] = SessionOf[f] =>
    \A x \in Fields : ClaimOf[e][x] = None \/ ClaimOf[f][x] = None
                      \/ ClaimOf[e][x] = ClaimOf[f][x]
OwnersAgree(S) == \A e, f \in S : Agree(e, f)

Init ==
  /\ rows = {} /\ lastSeq = 0 /\ lock = None
  /\ pc = [w \in Writers |-> "idle"]
  /\ batch = [w \in Writers |-> <<>>] /\ todo = [w \in Writers |-> <<>>]
  /\ draft = [w \in Writers |-> {}]
  /\ inserted = [w \in Writers |-> 0] /\ existing = [w \in Writers |-> 0]

-------------------------------------------------------------------------------
(* One atomic batch                                                        *)

Goto(w, label) == pc' = [pc EXCEPT ![w] = label]

(* prepareEventBatch, before any transaction: no id twice, and one owner   *)
(* per session within the batch.                                           *)
Prepared(q) ==
  /\ \A i, j \in 1 .. Len(q) : IdOf[q[i]] = IdOf[q[j]] => i = j
  /\ OwnersAgree(EventsOf(q))

StartBatch(w) ==
  /\ pc[w] = "idle"
  /\ \E q \in Batches :
       /\ batch' = [batch EXCEPT ![w] = q]
       /\ todo' = [todo EXCEPT ![w] = q]
       /\ Goto(w, IF Prepared(q) THEN "begin" ELSE "failed")
  /\ UNCHANGED <<storeVars, draft, inserted, existing>>

(* BEGIN IMMEDIATE, retried while another transaction is open.             *)
BeginImmediate(w) ==
  /\ pc[w] = "begin" /\ lock = None
  /\ lock' = w
  /\ Goto(w, "owners")
  /\ UNCHANGED <<rows, lastSeq, batch, todo, draft, inserted, existing>>

RollbackForgotten(w) ==  \* mutant: an early return without the deferred ROLLBACK
  /\ draft' = [draft EXCEPT ![w] = {}]
  /\ UNCHANGED lock
Rollback(w) ==
  /\ draft' = [draft EXCEPT ![w] = {}]
  /\ lock' = IF lock = w THEN None ELSE lock

Fail(w) ==
  /\ Rollback(w)
  /\ Goto(w, "failed")
  /\ UNCHANGED <<rows, lastSeq, batch, todo, inserted, existing>>

(* validateStoredOwnership: for each session of the batch the stored rows  *)
(* agree among themselves and with the batch.                              *)
OwnedAsStored(w) ==
  LET sessions == {SessionOf[e] : e \in EventsOf(batch[w])}
  IN OwnersAgree(EventsOf(batch[w]) \cup {e \in Recorded : SessionOf[e] \in sessions})

ValidateStoredOwnership(w) ==
  /\ pc[w] = "owners"
  /\ IF batch[w] = <<>> \/ OwnedAsStored(w)
       THEN /\ Goto(w, "insert")
            /\ UNCHANGED <<storeVars, batch, todo, draft, inserted, existing>>
       ELSE Fail(w)

(* The next event: already there as the very same envelope, there as       *)
(* another one, or new.                                                    *)
InsertNext(w) ==
  /\ pc[w] = "insert" /\ todo[w] # <<>>
  /\ LET e == Head(todo[w])
         same == {f \in Recorded : IdOf[f] = IdOf[e]}
     IN \/ /\ same = {}
           /\ draft' = [draft EXCEPT ![w] = @ \cup
                {[seq |-> lastSeq + inserted[w] + 1, event |-> e, by |-> w]}]
           /\ inserted' = [inserted EXCEPT ![w] = @ + 1]
           /\ todo' = [todo EXCEPT ![w] = Tail(@)]
           /\ UNCHANGED <<storeVars, pc, batch, existing>>
        \/ /\ same = {e}
           /\ existing' = [existing EXCEPT ![w] = @ + 1]
           /\ todo' = [todo EXCEPT ![w] = Tail(@)]
           /\ UNCHANGED <<storeVars, pc, batch, draft, inserted>>
        \/ /\ same \notin {{}, {e}}
           /\ Fail(w)

Commit(w) ==
  /\ pc[w] = "insert" /\ todo[w] = <<>>
  /\ rows' = rows \cup draft[w]
  /\ lastSeq' = lastSeq + inserted[w]
  /\ Rollback(w)  \* nothing left to undo: the transaction is over
  /\ Goto(w, "done")
  /\ UNCHANGED <<batch, todo, inserted, existing>>

(* The context is cancelled or a statement, COMMIT included, fails.        *)
Abort(w) ==
  /\ pc[w] \in {"begin", "owners", "insert"}
  /\ Fail(w)

-------------------------------------------------------------------------------
(* One statement per event                                                 *)

StartAppends(w) ==
  /\ pc[w] = "idle"
  /\ \E q \in Batches :
       /\ batch' = [batch EXCEPT ![w] = q]
       /\ todo' = [todo EXCEPT ![w] = q]
  /\ Goto(w, "append")
  /\ UNCHANGED <<storeVars, draft, inserted, existing>>

InsertOrIgnoreReplaces(e, w) ==  \* mutant: INSERT OR REPLACE
  /\ rows' = {r \in rows : IdOf[r.event] # IdOf[e]}
               \cup {[seq |-> lastSeq + 1, event |-> e, by |-> w]}
  /\ lastSeq' = lastSeq + 1
(* INSERT OR IGNORE of one event: an event id that is taken is ignored     *)
(* whatever its envelope, and uses up a sequence number all the same.      *)
InsertOrIgnore(e, w) ==
  /\ rows' = IF \E f \in Recorded : IdOf[f] = IdOf[e] THEN rows
             ELSE rows \cup {[seq |-> lastSeq + 1, event |-> e, by |-> w]}
  /\ lastSeq' = lastSeq + 1

(* A line that cannot be appended is reported and skipped.                 *)
AppendNext(w) ==
  /\ pc[w] = "append" /\ todo[w] # <<>>
  /\ todo' = [todo EXCEPT ![w] = Tail(@)]
  /\ \/ lock = None /\ InsertOrIgnore(Head(todo[w]), w)
     \/ UNCHANGED <<rows, lastSeq>>
  /\ UNCHANGED <<lock, pc, batch, draft, inserted, existing>>

EndAppends(w) ==
  /\ pc[w] = "append" /\ todo[w] = <<>>
  /\ Goto(w, "done")
  /\ UNCHANGED <<storeVars, batch, todo, draft, inserted, existing>>

(* The process is killed: its transaction goes with it.                    *)
Kill(w) ==
  /\ pc[w] \in {"begin", "owners", "insert", "append"}
  /\ Rollback(w)
  /\ Goto(w, "killed")
  /\ UNCHANGED <<rows, lastSeq, batch, todo, inserted, existing>>

HookStep(w) ==
  BeginImmediate(w) \/ ValidateStoredOwnership(w) \/ InsertNext(w) \/ Commit(w)
ImporterStep(w) == AppendNext(w) \/ EndAppends(w)

WritersNext ==
  \/ \E w \in Hooks : StartBatch(w) \/ HookStep(w) \/ Abort(w)
  \/ \E w \in Importers : StartAppends(w) \/ ImporterStep(w)
  \/ \E w \in Writers : Kill(w)

Spec == Init /\ [][WritersNext]_vars

-------------------------------------------------------------------------------
(* Properties                                                              *)

Labels == {"idle", "begin", "owners", "insert", "append", "done", "failed", "killed"}
(* Every variable stays in its domain, and a transaction is open exactly   *)
(* while its process is inside one.                                        *)
TypeOK ==
  /\ rows \subseteq Row /\ lastSeq \in Nat
  /\ lock \in Writers \cup {None}
  /\ pc \in [Writers -> Labels]
  /\ batch \in [Writers -> Seq(Events)] /\ todo \in [Writers -> Seq(Events)]
  /\ draft \in [Writers -> SUBSET Row]
  /\ inserted \in [Writers -> Nat] /\ existing \in [Writers -> Nat]
  /\ \A w \in Writers : pc[w] \in {"owners", "insert"} <=> lock = w

(* "every new event commits, or none does" (event_batch.go:62), wherever   *)
(* the invocation is cancelled or killed and whatever it raced with: a     *)
(* batch that reported success, or left a single row, is on record whole.  *)
AllOrNothing ==
  \A w \in Hooks : pc[w] = "done" \/ (\E r \in rows : r.by = w)
    => EventsOf(batch[w]) \subseteq Recorded

(* "each canonical session id maps to at most one non-empty workstream,    *)
(* provider, and native-session tuple" (event_batch.go:60), for all that   *)
(* came in by batches, although two of them may have validated the same    *)
(* session and single appends, which are not validated, come in between.   *)
OneOwner ==
  \A r, s \in rows : r.by \in Hooks /\ s.by \in Hooks => Agree(r.event, s.event)

(* The log only grows at its end and an event id keeps its envelope: what  *)
(* a reader found up to a sequence number is all there will ever be up to  *)
(* it, which is what the cursor of hosted sync and the fingerprints of the *)
(* read models rest on.                                                    *)
GrowStep ==
  /\ rows \subseteq rows'
  /\ \A r \in rows' \ rows, s \in rows : s.seq < r.seq /\ IdOf[r.event] # IdOf[s.event]
GrowsAtTheEnd == [][GrowStep]_vars

(* A batch that wants to begin ends, however many others contend.          *)
BatchesEnd ==
  \A w \in Hooks : pc[w] = "begin" ~> pc[w] \in {"done", "failed", "killed"}
===============================================================================
