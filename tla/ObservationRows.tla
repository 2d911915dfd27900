---------------------------- MODULE ObservationRows ----------------------------
(***************************************************************************)
(* The observation read model of the platform: one row for a span, merged  *)
(* by upserts from the events that mention it, one row for its session,    *)
(* the rebuild that clears and folds both again, and the retention sweep   *)
(* (platform/src/observations.ts, platform/src/artifacts.ts, migration     *)
(* 0005).                                                                  *)
(*                                                                         *)
(* The events are of one span of one session.  A row has columns that      *)
(* follow the earliest start (start_event_id, with trace_id, kind and name *)
(* bound to it), columns that follow the latest end, the highest status,   *)
(* and columns that prefer a value to none: "agent" stands for those that  *)
(* ask who started first, "tokens" for those that ask who ended last.      *)
(***************************************************************************)
EXTENDS Naturals, Sequences, FiniteSets, FiniteSetsExt, Functions

CONSTANTS
  ObsIds,        \* event ids, by the order of ULIDs
  ObsTimes,      \* occurred_at
  ObsKinds,      \* the kinds of span events, of those in Ranks
  Agents,        \* what the optional columns may hold, by their encoding
  Rebuilders,    \* POST /v1/admin/reindex requests
  MaxRetentions, \* sweeps that find something to delete (a bound)
  MaxObsFaults,  \* rebuilds that die (a bound)
  NoAgent        \* NULL

ASSUME ObservationAssumptions ==
  /\ ObsIds \subseteq Nat \ {0} /\ ObsTimes \subseteq Nat \ {0} /\ Agents \subseteq Nat
  /\ ObsKinds \subseteq {"started", "completed", "failed"}
  /\ NoAgent \in Nat /\ \A a \in Agents : a < NoAgent

VARIABLES
  logged,      \* the events of the spine
  span,        \* the row of span_observations, or NoSpan
  session,     \* the row of sessions, or NoSession
  rebuilder,   \* per reindex, where it is, what it scanned and has yet to write
  folded,      \* history: the events whose deltas are in the row
  excused,     \* history: the events that retention or a rebuild took out of it
  aborted,     \* history: whether a trigger or a CHECK refused an upsert
  retentions, obsFaults

obsVars == <<logged, span, session, rebuilder, folded, excused, aborted, retentions, obsFaults>>
obsHistory == <<folded, excused>>

NoTime == 0
NoSpan == [rank |-> 0]
NoSession == [events |-> 0]
Ranks == [started |-> 1, completed |-> 2, failed |-> 3]  \* spanShapeFor, STATUS_RANK
Facts == [id : ObsIds, at : ObsTimes, kind : ObsKinds, agent : Agents \cup {NoAgent}]
Ends(d) == d.kind # "started"

(* A projection is sorted by the canonical encoding of its deltas, the     *)
(* columns by name: agent first and text before null, then end_event_id.   *)
EncodesBefore(d, e) ==
  \/ d.agent < e.agent
  \/ d.agent = e.agent /\ Ends(d) /\ ~Ends(e)
  \/ d.agent = e.agent /\ Ends(d) = Ends(e) /\ d.id < e.id
Projection(events) ==
  [n \in 1 .. Cardinality(events) |->
     CHOOSE d \in events : Cardinality({e \in events : EncodesBefore(e, d)}) = n - 1]

SpanDelta(d) ==
  [start |-> d.at, startEvent |-> d.id, end |-> IF Ends(d) THEN d.at ELSE NoTime,
   endEvent |-> IF Ends(d) THEN d.id ELSE 0, rank |-> Ranks[d.kind], agent |-> d.agent,
   tokens |-> IF Ends(d) THEN d.agent ELSE NoAgent]

StartWinsEarly(new, old) == new.start < old.start  \* mutant: without the tiebreaker
StartWins(new, old) ==
  new.start < old.start \/ (new.start = old.start /\ new.startEvent < old.startEvent)
EndWins(new, old) ==
  /\ new.end # NoTime
  /\ old.end = NoTime \/ new.end > old.end \/ (new.end = old.end /\ new.endEvent > old.endEvent)
Preferring(wins, new, old) ==
  IF new = NoAgent \/ (old # NoAgent /\ ~wins) THEN old ELSE new
GovernedBy(wins, new, old) == IF wins THEN new ELSE old

Merge(old, new) ==
  IF old = NoSpan THEN new ELSE
  LET starts == StartWins(new, old)
      ends == EndWins(new, old)
  IN [start |-> Min({old.start, new.start}),
      startEvent |-> GovernedBy(starts, new.startEvent, old.startEvent),
      end |-> GovernedBy(ends, new.end, old.end),
      endEvent |-> GovernedBy(ends, new.endEvent, old.endEvent),
      rank |-> Max({old.rank, new.rank}),
      agent |-> Preferring(starts, new.agent, old.agent),
      tokens |-> Preferring(ends, new.tokens, old.tokens)]

(* The triggers and CHECKs of migration 0005.                              *)
SpanAborts(old, new) ==
  \/ (new.end = NoTime) # (new.endEvent = 0)
  \/ old # NoSpan /\ (new.start > old.start \/ new.end < old.end \/ new.rank < old.rank)
SessionAborts(old, new) ==
  \/ new.failed > new.spans \/ new.last < new.first
  \/ old # NoSession /\ (new.first > old.first \/ new.last < old.last)

RowsAfter(row, deltas) ==
  LET after[n \in 0 .. Len(deltas)] == IF n = 0 THEN row ELSE Merge(after[n - 1], SpanDelta(deltas[n]))
  IN after
UpsertSpan(row, deltas) == RowsAfter(row, deltas)[Len(deltas)]
UpsertSpanAborts(row, deltas) ==
  \E n \in DOMAIN deltas : SpanAborts(RowsAfter(row, deltas)[n - 1], RowsAfter(row, deltas)[n])

(* The counters of a session are counted anew from the log and from the    *)
(* span rows, and only grow; its bounds widen.                             *)
SessionDelta(events, log, row) ==
  [first |-> Min({d.at : d \in events}), last |-> Max({d.at : d \in events}),
   events |-> Cardinality(log), spans |-> IF row = NoSpan THEN 0 ELSE 1,
   failed |-> IF row.rank = Ranks.failed THEN 1 ELSE 0]
UpsertSession(old, new) ==
  IF old = NoSession THEN new ELSE
  [first |-> Min({old.first, new.first}), last |-> Max({old.last, new.last}),
   events |-> Max({old.events, new.events}), spans |-> Max({old.spans, new.spans}),
   failed |-> Max({old.failed, new.failed})]

ObservationsInit ==
  /\ logged = {} /\ span = NoSpan /\ session = NoSession
  /\ rebuilder = [r \in Rebuilders |-> [at |-> "idle"]]
  /\ folded = {} /\ excused = {} /\ aborted = FALSE
  /\ retentions = 0 /\ obsFaults = 0

Unambiguous(events) == \A d, e \in logged \cup events : d.id = e.id => d = e
(* A batch of ingest: its events and the three upserts in one transaction. *)
IngestBatch(events) ==
  LET row == UpsertSpan(span, Projection(events))
      ses == UpsertSession(session, SessionDelta(events, logged \cup events, row))
  IN /\ events # {} /\ events \cap logged = {} /\ Unambiguous(events)
     /\ aborted' = (aborted \/ UpsertSpanAborts(span, Projection(events)) \/ SessionAborts(session, ses))
     /\ logged' = logged \cup events
     /\ span' = row /\ session' = ses
     /\ folded' = folded \cup events
     /\ UNCHANGED <<rebuilder, excused, retentions, obsFaults>>

RebuilderGoto(r, next) == rebuilder' = [rebuilder EXCEPT ![r] = next]
Clearing == {r \in Rebuilders : rebuilder[r].at = "spans"}

(* scanWorkspaceEvents, and the projection of what it found.               *)
ScanLog(r) ==
  /\ rebuilder[r].at = "idle" /\ logged # {}
  /\ RebuilderGoto(r, [at |-> "clear", scanned |-> logged])
  /\ UNCHANGED <<logged, span, session, obsHistory, aborted, retentions, obsFaults>>

(* One batch deletes the rows of the workspace; what arrived since the     *)
(* scan goes with them.  Another rebuild under way is disturbed by it.     *)
ClearRows(r) ==
  /\ rebuilder[r].at = "clear"
  /\ rebuilder' = [q \in Rebuilders |->
       IF q = r THEN [at |-> "spans", scanned |-> rebuilder[r].scanned,
                      todo |-> Projection(rebuilder[r].scanned), alone |-> Clearing = {}]
       ELSE IF q \in Clearing THEN [rebuilder[q] EXCEPT !.alone = FALSE] ELSE rebuilder[q]]
  /\ span' = NoSpan /\ session' = NoSession /\ folded' = {}
  /\ excused' = excused \cup (logged \ rebuilder[r].scanned)
  /\ UNCHANGED <<logged, aborted, retentions, obsFaults>>

(* The deltas go back in chunks, each a transaction of its own.            *)
UpsertChunk(r) ==
  LET job == rebuilder[r]
      delta == <<Head(job.todo)>>
      row == UpsertSpan(span, delta)
  IN /\ job.at = "spans" /\ job.todo # <<>>
     /\ aborted' = (aborted \/ UpsertSpanAborts(span, delta))
     /\ span' = row
     /\ folded' = folded \cup {Head(job.todo)}
     /\ RebuilderGoto(r, [job EXCEPT !.todo = Tail(@)])
     /\ UNCHANGED <<logged, session, excused, retentions, obsFaults>>

UpsertSessions(r) ==
  LET job == rebuilder[r]
      ses == UpsertSession(session, SessionDelta(job.scanned, logged, span))
  IN /\ job.at = "spans" /\ job.todo = <<>>
     /\ aborted' = (aborted \/ SessionAborts(session, ses))
     /\ session' = ses
     /\ excused' = IF job.alone THEN excused \ job.scanned ELSE excused
     /\ RebuilderGoto(r, [at |-> "done"])
     /\ UNCHANGED <<logged, span, folded, retentions, obsFaults>>

(* The Worker dies, or a batch throws: the rebuild stops where it is.      *)
RebuildDies(r) ==
  /\ obsFaults < MaxObsFaults /\ obsFaults' = obsFaults + 1
  /\ rebuilder[r].at \in {"clear", "spans"}
  /\ excused' = IF rebuilder[r].at = "spans" THEN excused \cup rebuilder[r].scanned ELSE excused
  /\ RebuilderGoto(r, [at |-> "done"])
  /\ UNCHANGED <<logged, span, session, folded, aborted, retentions>>

(* retentionSweep deletes a span row that began before the cutoff, and     *)
(* never a session or an event.                                            *)
SweepRetention(cutoff) ==
  /\ retentions < MaxRetentions /\ retentions' = retentions + 1
  /\ span # NoSpan /\ span.start < cutoff
  /\ span' = NoSpan /\ folded' = {} /\ excused' = excused \cup folded
  /\ rebuilder' = [r \in Rebuilders |->
       IF r \in Clearing THEN [rebuilder[r] EXCEPT !.alone = FALSE] ELSE rebuilder[r]]
  /\ UNCHANGED <<logged, session, aborted, obsFaults>>

ObservationsNext ==
  \/ \E d \in Facts : IngestBatch({d})
  \/ \E d, e \in Facts : d.id < e.id /\ IngestBatch({d, e})
  \/ \E c \in ObsTimes : SweepRetention(c)
  \/ \E r \in Rebuilders :
       ScanLog(r) \/ ClearRows(r) \/ UpsertChunk(r) \/ UpsertSessions(r) \/ RebuildDies(r)

-------------------------------------------------------------------------------
Values(events) == {d.agent : d \in events} \ {NoAgent}
Earliest(events) == CHOOSE d \in events : \A e \in events : d.at < e.at \/ (d.at = e.at /\ d.id <= e.id)
Latest(events) == CHOOSE d \in events : \A e \in events : d.at > e.at \/ (d.at = e.at /\ d.id >= e.id)

(* Whatever the order of batches, rebuilds and sweeps: the row is of the   *)
(* events in it, begun by the earliest and ended by the latest of them,    *)
(* with their worst status and values one of them gave; no trigger ever    *)
(* refuses an upsert, which would refuse the batch of ingest with it; the  *)
(* counters of a session are those of the log.  And no event is missing    *)
(* from the row but for retention, a rebuild that died, or one that        *)
(* scanned the log before the event and cleared the row after it.          *)
RowsAreFolds ==
  /\ ~aborted
  /\ span = NoSpan <=> folded = {}
  /\ span # NoSpan =>
       LET closers == {d \in folded : Ends(d)}
       IN /\ span.start = Earliest(folded).at /\ span.startEvent = Earliest(folded).id
          /\ span.endEvent = IF closers = {} THEN 0 ELSE Latest(closers).id
          /\ span.rank = Max({Ranks[d.kind] : d \in folded})
          /\ IF Values(folded) = {} THEN span.agent = NoAgent ELSE span.agent \in Values(folded)
  /\ session # NoSession => session.events = Cardinality(logged)
  /\ Clearing = {} => logged \subseteq folded \cup excused

(* "Because the merge is order-independent and idempotent, replaying a     *)
(* batch, re-ordering batches, and rebuilding from scratch all converge on *)
(* byte-identical rows" (platform/src/observations.ts in its heading): a   *)
(* row that holds every event is the one a rebuild would make.             *)
RowsConverge == folded = logged => span = UpsertSpan(NoSpan, Projection(logged))
===============================================================================
