------------------------------- MODULE Playground -------------------------------
(***************************************************************************)
(* The playground (platform/src/playground.ts): runs of prompt versions    *)
(* against a model, and the gated repointing of a label, with the read     *)
(* model of prompts, labels and scores of platform/src/quality.ts.         *)
(***************************************************************************)
EXTENDS Integers, Sequences, FiniteSets, FiniteSetsExt

(***************************************************************************)
(* Runs.  A request renders one or two versions of a prompt, calls the     *)
(* model for each, records what ran and settles the run.  The id of a run  *)
(* is a digest of the experiment and the millisecond, so a repeated        *)
(* request works on the same run.                                          *)
(***************************************************************************)
CONSTANTS
  PlaygroundIds,   \* ids of runs
  Players,         \* requests in flight
  Outputs,         \* what a model may answer
  Variants,        \* how many versions a run compares
  MaxPlayFaults    \* bound: evictions and failing writes

ASSUME PlaygroundAssumption ==
  /\ Variants \in {1, 2} /\ MaxPlayFaults \in Nat

VARIABLES
  pgRuns,    \* the status of each run
  evidence,  \* playground.completed events: the output by <<run, variant>>
  player,    \* what each request is about to do
  playFaults,
  dropped,   \* history: variants that ran and whose event did not stand
  walkedOut  \* history: runs a request of which died, or failed to settle

playVars == <<pgRuns, evidence, player, playFaults, dropped, walkedOut>>

Out == [at |-> "out"]
PlaygroundInit ==
  /\ pgRuns = [r \in PlaygroundIds |-> "none"]
  /\ evidence = <<>>
  /\ player = [p \in Players |-> Out]
  /\ playFaults = 0 /\ dropped = {} /\ walkedOut = {}

PlayerGoto(p, next) == player' = [player EXCEPT ![p] = next]
PlayFault == playFaults < MaxPlayFaults /\ playFaults' = playFaults + 1

(* INSERT_RUN_SQL, or ignore: everything that can be refused was refused.  *)
StartRunRow(p) ==
  /\ player[p] = Out
  /\ \E r \in PlaygroundIds :
       /\ pgRuns' = IF pgRuns[r] = "none" THEN [pgRuns EXCEPT ![r] = "running"] ELSE pgRuns
       /\ PlayerGoto(p, [at |-> "call", run |-> r, ran |-> <<>>, recorded |-> 0, ok |-> TRUE])
  /\ UNCHANGED <<evidence, playFaults, dropped, walkedOut>>

(* callPlaygroundModel, a variant at a time; the first failure ends it.    *)
CallModel(p) ==
  /\ player[p].at = "call"
  /\ \/ \E o \in Outputs :
          LET ran == Append(player[p].ran, o)
          IN  PlayerGoto(p, [player[p] EXCEPT !.ran = ran, !.at = IF Len(ran) = Variants THEN "record" ELSE "call"])
     \/ PlayerGoto(p, [player[p] EXCEPT !.ok = FALSE, !.at = "record"])
  /\ UNCHANGED <<pgRuns, evidence, playFaults, dropped, walkedOut>>

(* appendEvent for every variant that ran, on a failed run too: the event  *)
(* of the id stands, an equal one is ignored, another is refused and only  *)
(* logged, as is one that could not be written.                            *)
Stands(run, n, output) ==
  <<run, n>> \in DOMAIN evidence => evidence[<<run, n>>] = output
RecordVariant(p) ==
  LET n == player[p].recorded + 1  run == player[p].run
  IN  /\ player[p].at = "record" /\ n <= Len(player[p].ran)
      /\ \/ /\ Stands(run, n, player[p].ran[n])
            /\ evidence' = [i \in DOMAIN evidence \cup {<<run, n>>} |->
                              IF i = <<run, n>> THEN player[p].ran[n] ELSE evidence[i]]
            /\ UNCHANGED <<playFaults, dropped>>
         \/ /\ IF Stands(run, n, player[p].ran[n]) THEN PlayFault ELSE UNCHANGED playFaults
            /\ dropped' = dropped \cup {<<run, n>>}
            /\ UNCHANGED evidence
      /\ PlayerGoto(p, [player[p] EXCEPT !.recorded = n])
      /\ UNCHANGED <<pgRuns, walkedOut>>

AllRecorded(p) == player[p].recorded = Len(player[p].ran)

(* settleRun: guarded on completed_at IS NULL; a failure is only logged.   *)
SettleRun(p) ==
  /\ player[p].at = "record" /\ AllRecorded(p)
  /\ LET r == player[p].run
     IN  \/ /\ pgRuns' = IF pgRuns[r] = "running"
                         THEN [pgRuns EXCEPT ![r] = IF player[p].ok THEN "done" ELSE "error"] ELSE pgRuns
            /\ UNCHANGED <<playFaults, walkedOut>>
         \/ PlayFault /\ walkedOut' = walkedOut \cup {r} /\ UNCHANGED pgRuns
  /\ PlayerGoto(p, Out)
  /\ UNCHANGED <<evidence, dropped>>

PlayerDies(p) ==
  /\ player[p] # Out /\ PlayFault
  /\ walkedOut' = walkedOut \cup {player[p].run}
  /\ PlayerGoto(p, Out)
  /\ UNCHANGED <<pgRuns, evidence, dropped>>

PlaygroundNext ==
  \E p \in Players :
    StartRunRow(p) \/ CallModel(p) \/ RecordVariant(p) \/ SettleRun(p) \/ PlayerDies(p)

-------------------------------------------------------------------------------
PlayingOn(r) == {p \in Players : player[p] # Out /\ player[p].run = r}

(* A run that is done has the evidence of every variant, unless an event   *)
(* of it was refused or lost; a run is settled as long as one of its       *)
(* requests lives to settle it; and no event is of a run without a row.    *)
DoneRunsRan ==
  \A r \in PlaygroundIds :
    /\ pgRuns[r] = "done" => \A n \in 1 .. Variants : <<r, n>> \in DOMAIN evidence \cup dropped
    /\ pgRuns[r] = "running" => PlayingOn(r) # {} \/ r \in walkedOut
    /\ \A n \in 1 .. Variants : <<r, n>> \in DOMAIN evidence => pgRuns[r] # "none"

(***************************************************************************)
(* Promotion, for one prompt and one score name.  Everything is an event   *)
(* of the spine.  Reads are scans of it with a bound: the read model keeps *)
(* the oldest rows, the gate the newest.                                   *)
(***************************************************************************)
CONSTANTS
  Labels,
  Versions,        \* version numbers
  Values,          \* what a score may say, scaled to integers
  MinScore,        \* min_score of the gate
  Promoters,       \* label requests in flight
  MaxRows,         \* MAX_MATERIALIZE_ROWS
  MaxScores,       \* MAX_SCORE_SCAN_ROWS
  MaxSpine,        \* bound of the log
  MaxRecorded,     \* bound: score events
  MaxOccurred      \* bound: times at which a score may have occurred

ASSUME PromptAssumption ==
  /\ Versions \subseteq Nat \ {0} /\ Values \subseteq Int /\ MinScore \in Int
  /\ MaxRows \in Nat \ {0} /\ MaxScores \in Nat \ {0} /\ MaxSpine \in Nat
  /\ MaxRecorded \in Nat /\ MaxOccurred \in Nat

VARIABLES
  log,       \* the events of the prompt, in the order of seq
  promoter   \* what each request is about to do

promptVars == <<log, promoter>>

Provenances == {"OBSERVED", "INFERRED"}
NoScore == [kind |-> "absent"]
Waiting == [at |-> "waiting"]

PromptInit ==
  /\ log = <<>>
  /\ promoter = [p \in Promoters |-> Waiting]

(* Scans of the log answer the places of the rows they keep.               *)
OfKind(s, kinds) == {i \in DOMAIN s : s[i].kind \in kinds}
First(rows, n) == {i \in rows : Cardinality({j \in rows : j < i}) < n}
Last_(rows, n) == {i \in rows : Cardinality({j \in rows : j > i}) < n}

(* materializePromptEvents: SCAN_BY_TWO_KINDS_SQL orders by seq and is cut *)
(* at the end.                                                             *)
PromptRows(s) == First(OfKind(s, {"created", "labeled"}), MaxRows)
KnownVersions(s) == {s[i].version : i \in PromptRows(s) \cap OfKind(s, {"created"})}
(* resolveLabels: the highest seq wins; 0 where the label does not resolve.*)
Pointing(s, label) == {i \in PromptRows(s) : s[i].kind = "labeled" /\ s[i].label = label}
Resolved(s, label) == IF Pointing(s, label) = {} THEN 0 ELSE s[Max(Pointing(s, label))].version
LatestVersion(s) == Max(KnownVersions(s) \cup {0})

(* Newer of two scores: occurred_at, then the event id.                    *)
Newer(e, f) == e.occurred > f.occurred \/ (e.occurred = f.occurred /\ e.id > f.id)
(* SCAN_SCORES_SQL keeps the newest rows by seq.                           *)
Linked(s, version) == {i \in Last_(OfKind(s, {"score"}), MaxScores) : s[i].version = version}
OldestScore(s, version) ==  \* mutant: the sort the other way round
  IF Linked(s, version) = {} THEN NoScore
  ELSE s[CHOOSE i \in Linked(s, version) : \A j \in Linked(s, version) : j = i \/ Newer(s[j], s[i])]
(* loadLinkedScores: the latest of them by time is the score of the gate.  *)
LatestScore(s, version) ==
  IF Linked(s, version) = {} THEN NoScore
  ELSE s[CHOOSE i \in Linked(s, version) : \A j \in Linked(s, version) : j = i \/ Newer(s[i], s[j])]

(* evaluateEvalGate: absent is a failure; the latest score must reach the  *)
(* bar, and be OBSERVED when that is required.                             *)
GatePasses(score, requireObserved) ==
  /\ score # NoScore
  /\ score.value >= MinScore
  /\ requireObserved => score.provenance = "OBSERVED"

-------------------------------------------------------------------------------
Append1(e) == Len(log) < MaxSpine /\ log' = Append(log, e)

(* Ingest: a new version is one more than the last; a score may arrive long*)
(* after it occurred.                                                      *)
CreateVersion ==
  /\ \E v \in Versions : v = LatestVersion(log) + 1 /\ Append1([kind |-> "created", version |-> v])
  /\ UNCHANGED promoter
RecordPromptScore ==
  /\ Cardinality(OfKind(log, {"score"})) < MaxRecorded
  /\ \E v \in Versions, x \in Values, o \in 1 .. MaxOccurred, p \in Provenances :
       Append1([kind |-> "score", version |-> v, value |-> x, occurred |-> o, provenance |-> p,
                id |-> Len(log) + 1])
  /\ UNCHANGED promoter

(* repointLabel: the version must be known to the read model, ...          *)
AskPromotion(p) ==
  /\ promoter[p] = Waiting
  /\ \E v \in KnownVersions(log), l \in Labels, gated, observed, force \in BOOLEAN :
       /\ ~gated => ~observed /\ ~force
       /\ promoter' = [promoter EXCEPT ![p] =
            [at |-> IF gated THEN "gate" ELSE "append", label |-> l, version |-> v, gated |-> gated,
             observed |-> observed, force |-> force, score |-> NoScore, passed |-> FALSE, read |-> 0]]
  /\ UNCHANGED log

(* ... then the gate reads the scores, and refuses unless it is forced; a  *)
(* dry run stops here as well ...                                          *)
ReadGate(p) ==
  /\ promoter[p].at = "gate"
  /\ LET score == LatestScore(log, promoter[p].version)
         passed == GatePasses(score, promoter[p].observed)
     IN  promoter' = [promoter EXCEPT ![p] =
           IF passed \/ promoter[p].force
           THEN [@ EXCEPT !.at = "append", !.score = score, !.passed = passed, !.read = Len(log)]
           ELSE Waiting]
  /\ UNCHANGED log

(* ... and appends the event with the audit of the gate.  An append that   *)
(* the spine refuses is answered with a conflict.                          *)
AppendLabel(p) ==
  /\ promoter[p].at = "append"
  /\ \/ Append1([kind |-> "labeled", label |-> promoter[p].label, version |-> promoter[p].version,
                 gated |-> promoter[p].gated, score |-> promoter[p].score,
                 passed |-> promoter[p].passed, forced |-> promoter[p].gated /\ ~promoter[p].passed,
                 observed |-> promoter[p].observed, read |-> promoter[p].read])
     \/ UNCHANGED log
  /\ promoter' = [promoter EXCEPT ![p] = Waiting]

PromptNext ==
  \/ CreateVersion \/ RecordPromptScore
  \/ \E p \in Promoters : AskPromotion(p) \/ ReadGate(p) \/ AppendLabel(p)

-------------------------------------------------------------------------------
(* A promotion whose audit says that the gate passed rests on a score that *)
(* the spine holds from before it, of this version, at or above the bar    *)
(* and observed where that was asked for; a score of the version that is   *)
(* newer than the quoted one had not arrived when the gate read, or had so *)
(* many scores arrive after it that the scan left it out.  A promotion     *)
(* that the gate did not pass says that it was forced.                     *)
PromotionsRestOnEvidence ==
  \A i \in {j \in DOMAIN log : log[j].kind = "labeled" /\ log[j].gated} :
    LET e == log[i]
        before == {k \in 1 .. e.read : log[k].kind = "score"}
    IN  /\ e.passed \/ e.forced
        /\ e.passed =>
             /\ e.read < i /\ e.score.version = e.version
             /\ \E k \in before : log[k] = e.score
             /\ e.score.value >= MinScore
             /\ e.observed => e.score.provenance = "OBSERVED"
             /\ \A k \in before :
                  log[k].version = e.version /\ Newer(log[k], e.score)
                    => Cardinality({j \in before : j > k}) >= MaxScores

(* Every label resolves to a version that exists, and to the one that was  *)
(* set last, as long as the rows of the prompt fit the scan.               *)
LabelsResolve ==
  \A l \in Labels :
    /\ Resolved(log, l) \in KnownVersions(log) \cup {0}
    /\ Cardinality(OfKind(log, {"created", "labeled"})) <= MaxRows =>
         \A i \in DOMAIN log :
           log[i].kind = "labeled" /\ log[i].label = l
             => \/ Resolved(log, l) = log[i].version
                \/ \E j \in i + 1 .. Len(log) : log[j].kind = "labeled" /\ log[j].label = l

PromotionsAreSound == PromotionsRestOnEvidence /\ LabelsResolve
=================================================================================
