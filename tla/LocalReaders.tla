----------------------------- MODULE LocalReaders ------------------------------
(***************************************************************************)
(* The derived tables of the local database and the commands that keep     *)
(* them: the observation index (query, index rebuild and reset; internal/  *)
(* commands/index_cmd.go, reset_cmd.go, internal/storage/observations.go)  *)
(* and the cache of verify reports (internal/commands/verify_cmd.go,       *)
(* internal/storage/verify_cache.go).                                      *)
(*                                                                         *)
(* Both are functions of the event log and are taken for current while a   *)
(* fingerprint of the log, its size and its highest sequence number,       *)
(* matches.  A reader is an invocation; each action is one statement, and  *)
(* the writers of EventStore run in between.  A derived table is           *)
(* represented by the rows it was computed from.                           *)
(***************************************************************************)
EXTENDS EventStore

CONSTANTS
  Queries, Rebuilds, Resets, Verifiers,  \* invocations
  VerificationOf,  \* the verification.recorded event of a verify run
  NoCache,         \* the verify runs with --no-cache
  MaxInvocations   \* bound: invocations of any kind that ever start

Readers == Queries \cup Rebuilds \cup Resets \cup Verifiers

ASSUME ReadersAssumption ==
  /\ Readers \subseteq Invocations \ Writers
  /\ VerificationOf \in [Verifiers -> Events]
  /\ NoCache \subseteq Verifiers
  /\ MaxInvocations \in Nat

VARIABLES
  at,           \* where a reader is
  base,         \* the log when it started
  listed, seen, served,  \* its locals: events, a fingerprint or maximum, its output
  index, meta,  \* span_observations and its siblings; observations_meta
  cleared,      \* whether a reset emptied the index since it was last built
  cache         \* verify_results: the row of the workstream

readerVars == <<at, base, listed, seen, served>>
derivedVars == <<index, meta, cleared, cache>>
allVars == <<vars, readerVars, derivedVars>>

MaxSeq(S) == IF S = {} THEN 0 ELSE CHOOSE n \in {r.seq : r \in S} : \A r \in S : r.seq <= n
Fingerprint(S) == [count |-> Cardinality(S), max |-> MaxSeq(S)]

(* The events the checks of verify look at.                                *)
Evidence(S) == {r \in S : \A v \in Verifiers : r.event # VerificationOf[v]}

ReadersInit ==
  /\ Init
  /\ at = [i \in Readers |-> "idle"]
  /\ base = [i \in Readers |-> {}] /\ listed = [i \in Readers |-> {}]
  /\ seen = [i \in Readers |-> None] /\ served = [i \in Readers |-> None]
  /\ index = {} /\ meta = None /\ cleared = FALSE
  /\ cache = None

Move(i, label) == at' = [at EXCEPT ![i] = label]
Locals == <<base, listed, seen, served>>

-------------------------------------------------------------------------------
(* The observation index                                                   *)

(* query freshens the index first, index rebuild and reset rebuild it      *)
(* unconditionally, verify lists the log first.                            *)
StartReader(i) ==
  /\ at[i] = "idle"
  /\ Move(i, CASE i \in Queries -> "count"
               [] i \in Resets -> "clear"
               [] OTHER -> "list")
  /\ base' = [base EXCEPT ![i] = rows]
  /\ UNCHANGED <<vars, listed, seen, served, derivedVars>>

(* ObservationsStale: the log, then the snapshot.                          *)
ReadCounts(i) ==
  /\ at[i] = "count"
  /\ seen' = [seen EXCEPT ![i] = Fingerprint(rows)]
  /\ Move(i, "snapshot")
  /\ UNCHANGED <<vars, base, listed, served, derivedVars>>

ReadSnapshot(i) ==
  /\ at[i] = "snapshot"
  /\ Move(i, IF meta = seen[i] THEN "read" ELSE "list")
  /\ UNCHANGED <<vars, Locals, derivedVars>>

ListEvents(i) ==
  /\ at[i] = "list"
  /\ listed' = [listed EXCEPT ![i] = rows]
  /\ Move(i, IF i \in Verifiers THEN (IF i \in NoCache THEN "check" ELSE "lookup") ELSE "max")
  /\ UNCHANGED <<vars, base, seen, served, derivedVars>>

(* rebuildObservations reads the watermark after the events.               *)
ReadMaxSeq(i) ==
  /\ at[i] = "max"
  /\ seen' = [seen EXCEPT ![i] = MaxSeq(rows)]
  /\ Move(i, "rebuild")
  /\ UNCHANGED <<vars, base, listed, served, derivedVars>>

SnapshotCountedLate(i) ==  \* mutant: the size is read with the maximum
  [count |-> Cardinality(rows), max |-> seen[i]]
(* The snapshot: the size of the list, and the maximum read after it.      *)
Snapshot(i) == [count |-> Cardinality(listed[i]), max |-> seen[i]]

RebuildObservations(i) ==
  /\ at[i] = "rebuild" /\ lock = None
  /\ index' = listed[i]
  /\ meta' = Snapshot(i)
  /\ cleared' = FALSE
  /\ Move(i, IF i \in Queries THEN "read" ELSE "end")
  /\ UNCHANGED <<vars, Locals, cache>>

QueryObservations(i) ==
  /\ at[i] = "read"
  /\ served' = [served EXCEPT ![i] = index]
  /\ Move(i, "end")
  /\ UNCHANGED <<vars, base, listed, seen, derivedVars>>

(* reset clears table by table; observations_meta is not on its list.      *)
ClearObservations(i) ==
  /\ at[i] = "clear" /\ lock = None
  /\ index' = {} /\ cleared' = TRUE
  /\ Move(i, "clear verify")
  /\ UNCHANGED <<vars, Locals, meta, cache>>

ClearVerifyResults(i) ==
  /\ at[i] = "clear verify" /\ lock = None
  /\ cache' = None
  /\ Move(i, "list")
  /\ UNCHANGED <<vars, Locals, index, meta, cleared>>

-------------------------------------------------------------------------------
(* verify                                                                  *)

(* VerifyCacheGet: the row, then the fingerprint of the log.               *)
LookUpReport(v) ==
  /\ at[v] = "lookup"
  /\ seen' = [seen EXCEPT ![v] = cache]
  /\ Move(v, "compare")
  /\ UNCHANGED <<vars, base, listed, served, derivedVars>>

CompareSnapshot(v) ==
  /\ at[v] = "compare"
  /\ IF seen[v] # None /\ seen[v].snapshot = Fingerprint(Evidence(rows))
       THEN served' = [served EXCEPT ![v] = seen[v].report] /\ Move(v, "record")
       ELSE served' = served /\ Move(v, "check")
  /\ UNCHANGED <<vars, base, listed, seen, derivedVars>>

(* The checks run over the events listed at the start.                     *)
RunVerifyChecks(v) ==
  /\ at[v] = "check"
  /\ served' = [served EXCEPT ![v] = Evidence(listed[v])]
  /\ Move(v, "fingerprint")
  /\ UNCHANGED <<vars, base, listed, seen, derivedVars>>

TakeSnapshot(v) ==
  /\ at[v] = "fingerprint"
  /\ seen' = [seen EXCEPT ![v] = Fingerprint(Evidence(rows))]
  /\ Move(v, "save")
  /\ UNCHANGED <<vars, base, listed, served, derivedVars>>

(* Best effort: a failure to save is a warning.                            *)
SaveReport(v) ==
  /\ at[v] = "save"
  /\ \/ lock = None /\ cache' = [snapshot |-> seen[v], report |-> served[v]]
     \/ cache' = cache
  /\ Move(v, "record")
  /\ UNCHANGED <<vars, Locals, index, meta, cleared>>

RecordVerification(v) ==
  /\ at[v] = "record" /\ lock = None
  /\ InsertOrIgnore(VerificationOf[v], v)
  /\ Move(v, "end")
  /\ UNCHANGED <<lock, writerVars, Locals, derivedVars>>

-------------------------------------------------------------------------------
(* A statement fails or the process is killed.                             *)
StopReader(i) ==
  /\ at[i] \notin {"idle", "end"}
  /\ Move(i, "end")
  /\ UNCHANGED <<vars, Locals, derivedVars>>

IndexStep(i) ==
  \/ ReadCounts(i) \/ ReadSnapshot(i) \/ ListEvents(i) \/ ReadMaxSeq(i)
  \/ RebuildObservations(i) \/ QueryObservations(i) \/ ClearObservations(i)
  \/ ClearVerifyResults(i)
VerifyStep(v) ==
  \/ LookUpReport(v) \/ CompareSnapshot(v) \/ RunVerifyChecks(v) \/ TakeSnapshot(v)
  \/ SaveReport(v) \/ RecordVerification(v)

Started == Cardinality({w \in Writers : pc[w] # "idle"})
             + Cardinality({i \in Readers : at[i] # "idle"})

Next ==
  \/ WritersNext /\ UNCHANGED <<readerVars, derivedVars>> /\ Started' <= MaxInvocations
  \/ \E i \in Readers : StartReader(i) /\ Started < MaxInvocations
  \/ \E i \in Readers : IndexStep(i) \/ StopReader(i)
  \/ \E v \in Verifiers : VerifyStep(v)

ReadersSpec == ReadersInit /\ [][Next]_allVars

(* A running invocation proceeds, and SQLite lets it in eventually.        *)
FairSpec ==
  /\ ReadersSpec
  /\ \A w \in Hooks : WF_allVars(HookStep(w) /\ UNCHANGED <<readerVars, derivedVars>>)
  /\ \A w \in Importers : WF_allVars(ImporterStep(w) /\ UNCHANGED <<readerVars, derivedVars>>)

-------------------------------------------------------------------------------
(* Properties                                                              *)

Stages == {"idle", "count", "snapshot", "list", "max", "rebuild", "read", "clear",
           "clear verify", "lookup", "compare", "check", "fingerprint", "save", "record", "end"}
(* Every variable stays in its domain.                                     *)
ReadersTypeOK ==
  /\ TypeOK
  /\ at \in [Readers -> Stages]
  /\ base \in [Readers -> SUBSET Row] /\ listed \in [Readers -> SUBSET Row]
  /\ index \subseteq rows /\ cleared \in BOOLEAN
  /\ \A i \in Readers : base[i] \subseteq rows /\ listed[i] \subseteq rows

(* An index that passes for fresh is complete, although its fingerprint is *)
(* put together from two reads with writers in between: only a reset that  *)
(* emptied it can make it less.                                            *)
FreshIndexIsComplete ==
  meta # None /\ meta = Fingerprint(rows) /\ ~cleared => index = rows

(* "a cached report is reusable only while the fingerprint it was built    *)
(* from still matches the live event log" (verify_cache.go:16): a verdict, *)
(* cached or not, covers the evidence on record when verify began.         *)
VerdictIsCurrent ==
  \A v \in Verifiers : served[v] # None => Evidence(base[v]) \subseteq served[v]
===============================================================================
