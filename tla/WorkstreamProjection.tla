------------------------- MODULE WorkstreamProjection --------------------------
(***************************************************************************)
(* The hosted workstream read model: buildWorkstreamProjectionRows in      *)
(* platform/src/ingest.ts and UPSERT_WORKSTREAM_SQL in                     *)
(* platform/src/index.ts, the last statement of the ingest batch.          *)
(*                                                                         *)
(* Batches arrive in any order and an event may come again in a later      *)
(* batch.  Each batch is one transaction: its events are inserted and then *)
(* one upsert per event runs, row by row, before the next batch starts.    *)
(***************************************************************************)
EXTENDS Integers, FiniteSets

CONSTANTS
  Workstreams, Titles,
  Events,        \* well-formed events; an id may occur with several contents
  BatchSize,
  MsPerSecond,
  None

(* An event id is a ULID and a repository id a string: both are compared,  *)
(* nothing else, so numbers stand for them.                                *)
Event == [id : Nat, ws : Workstreams \cup {None}, at : Nat,
          kind : {"workstream.started", "workstream.completed", "other"},
          title : Titles \cup {None}, repository : Nat \cup {None}]

Fallback == "fallback"  \* the workstream id, or the fixed default title
Row == [repository : Nat \cup {None}, title : Titles \cup {Fallback},
        titleAt : Nat \cup {None}, titleId : Nat \cup {None},
        status : {"active", "completed"},
        statusAt : Nat \cup {None}, statusId : Nat \cup {None},
        created : Nat, updated : Nat]

ASSUME ProjectionAssumption ==
  /\ Events \subseteq Event
  /\ BatchSize \in Nat /\ MsPerSecond \in Nat \ {0}
  /\ None \notin Nat /\ None \notin Workstreams /\ None \notin Titles /\ None \notin Row
  /\ Fallback \notin Titles

VARIABLES
  events,      \* the recorded events
  workstreams, \* the read model
  pending      \* the events of the running batch whose upsert has not run

vars == <<events, workstreams, pending>>

-------------------------------------------------------------------------------
(* buildWorkstreamProjectionRows: what one event says about its workstream *)

IsTitled(e) == e.kind = "workstream.started" /\ e.title # None
IsStatus(e) == e.kind \in {"workstream.started", "workstream.completed"}
IsCompleted(e) == e.kind = "workstream.completed"
Seconds(ms) == ms \div MsPerSecond

RowOf(e) ==
  [repository |-> e.repository,
   title    |-> IF IsTitled(e) THEN e.title ELSE Fallback,
   titleAt  |-> IF IsTitled(e) THEN e.at ELSE None,
   titleId  |-> IF IsTitled(e) THEN e.id ELSE None,
   status   |-> IF IsCompleted(e) THEN "completed" ELSE "active",
   statusAt |-> IF IsStatus(e) THEN e.at ELSE None,
   statusId |-> IF IsStatus(e) THEN e.id ELSE None,
   created  |-> Seconds(e.at), updated |-> Seconds(e.at)]

(* UPSERT_WORKSTREAM_SQL, ON CONFLICT DO UPDATE: old row and excluded row. *)
Before(at1, id1, at2, id2) == at1 < at2 \/ (at1 = at2 /\ id1 < id2)

TakesTitleOnTime(old, new) ==  \* mutant: no tie-break on the event id
  new.titleAt # None /\ (old.titleAt = None \/ new.titleAt < old.titleAt)
TakesTitle(old, new) ==
  /\ new.titleAt # None
  /\ \/ old.titleAt = None
     \/ Before(new.titleAt, new.titleId, old.titleAt, old.titleId)

(* Completion is terminal; among equals the latest event wins.             *)
TakesStatus(old, new) ==
  \/ old.status # new.status /\ new.status = "completed"
  \/ /\ old.status = new.status /\ new.statusAt # None
     /\ \/ old.statusAt = None
        \/ Before(old.statusAt, old.statusId, new.statusAt, new.statusId)

Upsert(old, new) ==
  IF old = None THEN new
  ELSE
   [repository |-> IF old.repository = None THEN new.repository
                   ELSE IF new.repository # None /\ new.repository < old.repository
                     THEN new.repository ELSE old.repository,
    title    |-> IF TakesTitle(old, new) THEN new.title ELSE old.title,
    titleAt  |-> IF TakesTitle(old, new) THEN new.titleAt ELSE old.titleAt,
    titleId  |-> IF TakesTitle(old, new) THEN new.titleId ELSE old.titleId,
    status   |-> IF TakesStatus(old, new) THEN new.status ELSE old.status,
    statusAt |-> IF TakesStatus(old, new) THEN new.statusAt ELSE old.statusAt,
    statusId |-> IF TakesStatus(old, new) THEN new.statusId ELSE old.statusId,
    created  |-> IF new.created < old.created THEN new.created ELSE old.created,
    updated  |-> IF new.updated > old.updated THEN new.updated ELSE old.updated]

-------------------------------------------------------------------------------
Init ==
  /\ events = {}
  /\ workstreams = [w \in Workstreams |-> None]
  /\ pending = {}

(* The events of a batch are inserted.  A batch that names an event id     *)
(* twice is refused, one that gives a recorded id other content aborts.    *)
InsertEvents ==
  /\ pending = {}
  /\ \E batch \in SUBSET Events :
       /\ Cardinality(batch) \in 1 .. BatchSize
       /\ \A e, f \in events \cup batch : e.id = f.id => e = f
       /\ events' = events \cup batch
       /\ pending' = batch
  /\ UNCHANGED workstreams

(* One upsert row of the batch's last statement.                           *)
UpsertWorkstream(e) ==
  /\ pending' = pending \ {e}
  /\ workstreams' = IF e.ws = None THEN workstreams
       ELSE [workstreams EXCEPT ![e.ws] = Upsert(@, RowOf(e))]
  /\ UNCHANGED events

Next == InsertEvents \/ \E e \in pending : UpsertWorkstream(e)

Spec == Init /\ [][Next]_vars

-------------------------------------------------------------------------------
(* Properties                                                              *)

(* Every variable stays in its domain.                                     *)
TypeOK ==
  /\ events \subseteq Events
  /\ \A e, f \in events : e.id = f.id => e = f
  /\ workstreams \in [Workstreams -> Row \cup {None}]
  /\ pending \subseteq events

(* What a row has to say about a set of events of its workstream, with no  *)
(* mention of the order they came in.                                      *)
RepositoryOf(R, v) ==
  IF \A e \in R : e.repository = None THEN v = None
  ELSE /\ v \in Nat /\ \E e \in R : e.repository = v
       /\ \A e \in R : e.repository # None => v <= e.repository

TitleOf(R, title, at, id) ==
  IF \A e \in R : ~IsTitled(e) THEN title = Fallback /\ at = None /\ id = None
  ELSE \E e \in R : /\ IsTitled(e) /\ title = e.title /\ at = e.at /\ id = e.id
                    /\ \A f \in R : IsTitled(f) => ~Before(f.at, f.id, e.at, e.id)

LatestOf(S, at, id) ==
  \E e \in S : /\ at = e.at /\ id = e.id
               /\ \A f \in S : ~Before(e.at, e.id, f.at, f.id)
StatusOf(R, status, at, id) ==
  LET completed == {e \in R : IsCompleted(e)}
      started == {e \in R : IsStatus(e)}
  IN IF completed # {} THEN status = "completed" /\ LatestOf(completed, at, id)
     ELSE /\ status = "active"
          /\ IF started = {} THEN at = None /\ id = None ELSE LatestOf(started, at, id)

SpanOf(R, created, updated) ==
  /\ \E e \in R : created = Seconds(e.at)
  /\ \E e \in R : updated = Seconds(e.at)
  /\ \A e \in R : created <= Seconds(e.at) /\ Seconds(e.at) <= updated

Summarises(row, R) ==
  IF R = {} THEN row = None
  ELSE /\ row \in Row
       /\ RepositoryOf(R, row.repository)
       /\ TitleOf(R, row.title, row.titleAt, row.titleId)
       /\ StatusOf(R, row.status, row.statusAt, row.statusId)
       /\ SpanOf(R, row.created, row.updated)

OfWorkstream(R, w) == {e \in R : e.ws = w}

(* "replay and out-of-order batch arrival converge on the same title,      *)
(* status and created-at values" (ingest.ts:544): after every batch the    *)
(* read model is a function of the set of recorded events alone.           *)
Converged ==
  pending = {} => \A w \in Workstreams : Summarises(workstreams[w], OfWorkstream(events, w))

(* "Completion is terminal ... later start/accept events cannot reopen a   *)
(* workstream" (0002_workstream_event_projection.sql), no workstream       *)
(* leaves the read model, and its time span only widens.                   *)
ForwardStep ==
  \A w \in Workstreams : workstreams[w] # None =>
    /\ workstreams'[w] # None
    /\ workstreams[w].status = "completed" => workstreams'[w].status = "completed"
    /\ workstreams'[w].created <= workstreams[w].created
    /\ workstreams'[w].updated >= workstreams[w].updated
CompletionIsTerminal == [][ForwardStep]_vars
===============================================================================
