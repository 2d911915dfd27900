------------------------------ MODULE Simulations ------------------------------
(***************************************************************************)
(* A hosted simulation: platform/src/simulations.ts.  A scripted user and  *)
(* an assistant (two models) take turns, a judge (a third) grades the      *)
(* conversation.  Models are free: they answer anything, or fail.          *)
(*                                                                         *)
(* As an evaluation, a run executes inline or as a Workflow instance that  *)
(* is restarted after a crash and replays the outcomes of finished steps;  *)
(* a step it was in is repeated, with other answers.                       *)
(***************************************************************************)
EXTENDS Naturals, Sequences, FiniteSets

CONSTANTS
  SimRuns,
  Texts,        \* what a model may say
  Verdicts,     \* what the judge may find
  MaxTurns,     \* MAX_TURNS_CEILING
  MaxSimFaults, \* bound: evictions, crashes and failing calls
  Nothing

ASSUME SimulationAssumption ==
  MaxTurns \in Nat \ {0} /\ MaxSimFaults \in Nat /\ Nothing \notin Texts \cup Verdicts

SimPaths == {"inline", "workflow"}
SimExecutors == SimRuns \X SimPaths

VARIABLES
  scenario,  \* simulation_scenarios: max_turns, or 0
  simRuns,   \* simulation_runs: [status, turns, verdict]
  turnSpine, \* simulation.turn.completed: what was said, by event id
  endSpine,  \* simulation.completed: the verdict, by run
  actor,     \* what each executor is about to do
  simSteps,  \* the recorded step outcomes of each Workflow instance
  simFaults,
  lostTurns,  \* history: turns whose event could not be written
  unrecorded, \* history: runs settled alone after their batch failed
  abandoned   \* history: runs whose last executor died or could not settle

simVars == <<scenario, simRuns, turnSpine, endSpine, actor, simSteps, simFaults, lostTurns,
             unrecorded, abandoned>>

Gone == [at |-> "gone"]
(* INSERT OR IGNORE; other bytes for an id are refused and that is         *)
(* swallowed: the first document stands.                                   *)
FirstStands(f, i, content) ==
  [j \in DOMAIN f \cup {i} |-> IF j \in DOMAIN f THEN f[j] ELSE content]

SimulationInit ==
  /\ scenario = 0
  /\ simRuns = [r \in SimRuns |-> [status |-> "none", turns |-> 0, verdict |-> Nothing]]
  /\ turnSpine = <<>> /\ endSpine = <<>>
  /\ actor = [x \in SimExecutors |-> Gone]
  /\ simSteps = [r \in SimRuns |-> [log |-> <<>>, judged |-> "no"]]
  /\ simFaults = 0 /\ lostTurns = {} /\ unrecorded = {} /\ abandoned = {}

SimFault == simFaults < MaxSimFaults /\ simFaults' = simFaults + 1
Act(x, next) == actor' = [actor EXCEPT ![x] = next]

-------------------------------------------------------------------------------
(* validateCreateScenarioBody bounds max_turns.                            *)
CreateScenario ==
  /\ scenario = 0 /\ scenario' \in 1 .. MaxTurns
  /\ UNCHANGED <<simRuns, turnSpine, endSpine, actor, simSteps, simFaults, lostTurns, unrecorded, abandoned>>

(* startRun inserts the row; dispatchToWorkflow as for an evaluation.      *)
StartSimulation(r) ==
  /\ simRuns[r].status = "none" /\ scenario # 0
  /\ simRuns' = [simRuns EXCEPT ![r].status = "running"]
  /\ Act(<<r, "inline">>, [at |-> "dispatch"])
  /\ UNCHANGED <<scenario, turnSpine, endSpine, simSteps, simFaults, lostTurns, unrecorded, abandoned>>

DispatchSimulation(r) ==
  LET here == <<r, "inline">>  there == <<r, "workflow">>  begin == [at |-> "begin"]
  IN  /\ actor[here].at = "dispatch"
      /\ \/ actor' = [actor EXCEPT ![here] = Gone, ![there] = begin] /\ UNCHANGED simFaults
         \/ Act(here, begin) /\ UNCHANGED simFaults
         \/ actor' = [actor EXCEPT ![here] = begin, ![there] = begin] /\ SimFault
      /\ UNCHANGED <<scenario, simRuns, turnSpine, endSpine, simSteps, lostTurns, unrecorded, abandoned>>

Talking(turns, said) == [at |-> "user", turns |-> turns, said |-> said]
Erring(turns) == [at |-> "error", turns |-> turns]
Judging(turns) == [at |-> "judge", turns |-> turns]

(* executeSimulationRun starts from the first exchange, whatever the row   *)
(* says; a missing scenario, and settleUnrunnable, only settle.            *)
BeginSimulation(x) ==
  /\ actor[x].at = "begin"
  /\ Act(x, Talking(0, <<>>)) \/ Act(x, Erring(simRuns[x[1]].turns))
  /\ UNCHANGED <<scenario, simRuns, turnSpine, endSpine, simSteps, simFaults, lostTurns, unrecorded, abandoned>>

(* What the loop makes of the outcome of an exchange.                      *)
AfterExchange(a, o) ==
  LET turns == IF o.counted THEN Len(a.said) + 1 ELSE a.turns
  IN  CASE ~o.ok -> Erring(a.turns)
        [] o.ok /\ ~o.counted /\ a.said = <<>> -> Erring(a.turns)
        [] o.ok /\ (o.done \/ turns = scenario) /\ (o.counted \/ a.said # <<>>) -> Judging(turns)
        [] OTHER -> Talking(turns, Append(a.said, o.user))
(* A step ends: a Workflow instance records the outcome.                   *)
EndExchange(x, o) ==
  /\ Act(x, AfterExchange(actor[x], o))
  /\ simSteps' = IF x[2] = "workflow" THEN [simSteps EXCEPT ![x[1]].log = Append(@, o)] ELSE simSteps
Exchanged(ok, done, counted, user) == [ok |-> ok, done |-> done, counted |-> counted, user |-> user]

Recalls(x) == x[2] = "workflow" /\ Len(actor[x].said) < Len(simSteps[x[1]].log)
ReplayExchange(x) ==
  /\ actor[x].at = "user" /\ Recalls(x)
  /\ Act(x, AfterExchange(actor[x], simSteps[x[1]].log[Len(actor[x].said) + 1]))
  /\ UNCHANGED <<scenario, simRuns, turnSpine, endSpine, simSteps, simFaults, lostTurns, unrecorded, abandoned>>

(* appendEvent, then advanceTurns when the exchange counts: the first      *)
(* document of a turn stands, and a failure of either is only logged.      *)
RecordTurn(turn, t, counted) ==
  LET r == turn[1]  n == turn[2] + 1
  IN  \E lost \in SUBSET ({"event"} \cup (IF counted THEN {"progress"} ELSE {})) :
        /\ turnSpine' = IF "event" \in lost THEN turnSpine ELSE FirstStands(turnSpine, turn, t)
        /\ simRuns' = IF counted /\ "progress" \notin lost /\ simRuns[r].turns < n
                      THEN [simRuns EXCEPT ![r].turns = n] ELSE simRuns
        /\ lostTurns' = IF "event" \in lost THEN lostTurns \cup {turn} ELSE lostTurns
        /\ simFaults' = simFaults + Cardinality(lost) /\ simFaults' <= MaxSimFaults

(* runExchange: the simulated user fails, stops without a word, says its   *)
(* last words, or speaks and waits for the assistant.                      *)
UserSpeaks(x) ==
  LET turn == <<x[1], Len(actor[x].said), "user">>
      silent(ok) == /\ EndExchange(x, Exchanged(ok, TRUE, FALSE, Nothing))
                    /\ UNCHANGED <<simRuns, turnSpine, simFaults, lostTurns>>
  IN  /\ actor[x].at = "user" /\ ~Recalls(x)
      /\ \/ silent(TRUE) \/ silent(FALSE)
         \/ \E t \in Texts :
              \/ RecordTurn(turn, t, TRUE) /\ EndExchange(x, Exchanged(TRUE, TRUE, TRUE, t))
              \/ /\ RecordTurn(turn, t, FALSE)
                 /\ Act(x, [at |-> "assistant", turns |-> actor[x].turns, said |-> actor[x].said, user |-> t])
                 /\ UNCHANGED simSteps
      /\ UNCHANGED <<scenario, endSpine, unrecorded, abandoned>>

AssistantAnswers(x) ==
  /\ actor[x].at = "assistant"
  /\ \/ /\ EndExchange(x, Exchanged(FALSE, TRUE, FALSE, Nothing))
        /\ UNCHANGED <<simRuns, turnSpine, simFaults, lostTurns>>
     \/ \E t \in Texts :
          /\ RecordTurn(<<x[1], Len(actor[x].said), "assistant">>, t, TRUE)
          /\ EndExchange(x, Exchanged(TRUE, FALSE, TRUE, actor[x].user))
  /\ UNCHANGED <<scenario, endSpine, unrecorded, abandoned>>

(* The inline deadline, tested before each exchange.                       *)
Deadline(x) ==
  /\ actor[x].at = "user" /\ x[2] = "inline"
  /\ Act(x, IF actor[x].said = <<>> THEN Erring(actor[x].turns) ELSE Judging(actor[x].turns))
  /\ UNCHANGED <<scenario, simRuns, turnSpine, endSpine, simSteps, simFaults, lostTurns, unrecorded, abandoned>>

(* The judge's answer is a step of its own; no answer, or one that does    *)
(* not parse, is an errored run.                                           *)
Judge(x) ==
  /\ actor[x].at = "judge"
  /\ \E v \in IF x[2] = "workflow" /\ simSteps[x[1]].judged # "no"
              THEN {simSteps[x[1]].judged} ELSE Verdicts \cup {Nothing} :
       /\ Act(x, IF v = Nothing THEN Erring(actor[x].turns)
                 ELSE [at |-> "settle", turns |-> actor[x].turns, verdict |-> v])
       /\ simSteps' = IF x[2] = "workflow" THEN [simSteps EXCEPT ![x[1]].judged = v] ELSE simSteps
  /\ UNCHANGED <<scenario, simRuns, turnSpine, endSpine, simFaults, lostTurns, unrecorded, abandoned>>

-------------------------------------------------------------------------------
Unsettled(r) == simRuns[r].status = "running"
Settled(r, status, turns, verdict) ==
  IF Unsettled(r)
  THEN [simRuns EXCEPT ![r] = [status |-> status, verdict |-> verdict,
                               turns |-> IF @.turns < turns THEN turns ELSE @.turns]]
  ELSE simRuns
OtherActors(x) == {y \in SimExecutors \ {x} : y[1] = x[1] /\ actor[y] # Gone}
LeaveUnsettled(x) ==
  /\ SimFault /\ Act(x, Gone)
  /\ abandoned' = IF OtherActors(x) = {} THEN abandoned \cup {x[1]} ELSE abandoned

(* The verdict and the settlement in one batch; when an executor of the    *)
(* run recorded another verdict first, or the batch fails, the settlement  *)
(* alone, and when that fails too, nothing.                                *)
SettleDone(x) ==
  LET r == x[1]  e == actor[x]
      settled == Settled(r, "done", e.turns, e.verdict)
      conflict == r \in DOMAIN endSpine /\ endSpine[r] # e.verdict
  IN  /\ e.at = "settle"
      /\ \/ /\ simRuns' = settled /\ UNCHANGED <<simFaults, unrecorded, abandoned>> /\ Act(x, Gone)
            /\ endSpine' = IF conflict THEN endSpine ELSE FirstStands(endSpine, r, e.verdict)
         \/ /\ SimFault /\ simRuns' = settled /\ unrecorded' = unrecorded \cup {r} /\ Act(x, Gone)
            /\ UNCHANGED <<endSpine, abandoned>>
         \/ LeaveUnsettled(x) /\ UNCHANGED <<simRuns, endSpine, unrecorded>>
      /\ UNCHANGED <<scenario, turnSpine, simSteps, lostTurns>>

SettleError(x) ==
  /\ actor[x].at = "error"
  /\ \/ /\ simRuns' = Settled(x[1], "error", actor[x].turns, Nothing)
        /\ Act(x, Gone) /\ UNCHANGED <<simFaults, abandoned>>
     \/ LeaveUnsettled(x) /\ UNCHANGED simRuns
  /\ UNCHANGED <<scenario, turnSpine, endSpine, simSteps, lostTurns, unrecorded>>

(* An eviction, or the crash of an instance, which starts over.            *)
CrashSimulation(x) ==
  /\ actor[x].at \notin {"gone", "begin"}
  /\ \/ x[2] = "inline" /\ LeaveUnsettled(x)
     \/ x[2] = "workflow" /\ SimFault /\ Act(x, [at |-> "begin"]) /\ UNCHANGED abandoned
  /\ UNCHANGED <<scenario, simRuns, turnSpine, endSpine, simSteps, lostTurns, unrecorded>>

SimulationNext ==
  \/ CreateScenario
  \/ \E r \in SimRuns : StartSimulation(r) \/ DispatchSimulation(r)
  \/ \E x \in SimExecutors :
       \/ BeginSimulation(x) \/ ReplayExchange(x) \/ UserSpeaks(x) \/ AssistantAnswers(x)
       \/ Deadline(x) \/ Judge(x) \/ SettleDone(x) \/ SettleError(x) \/ CrashSimulation(x)

-------------------------------------------------------------------------------
(* buildTranscript sorts the turns of a run by number, the user first:     *)
(* their places in the conversation.                                       *)
Place(turn) == 2 * turn[2] + (IF turn[3] = "user" THEN 1 ELSE 2)
Transcript(r) == {Place(i) : i \in {j \in DOMAIN turnSpine : j[1] = r}}

(* The verdict of a run that is done is the one its simulation.completed   *)
(* event gives, whichever executor judged first and whatever the others    *)
(* found; only a settlement whose batch failed has none.                   *)
VerdictIsRecorded ==
  \A r \in SimRuns : simRuns[r].status = "done" =>
    r \in unrecorded \/ (r \in DOMAIN endSpine /\ endSpine[r] = simRuns[r].verdict)

(* The transcript of a run is a conversation, user and assistant in turn   *)
(* from the first message on, though two executors may have written it and *)
(* a restarted one repeats a turn; the row never counts an exchange that   *)
(* was not recorded, and at rest after a run without faults it counts all  *)
(* that were answered.  Only a turn that could not be written is missing.  *)
TranscriptIsWhole ==
  \A r \in SimRuns :
    LET n == Cardinality(Transcript(r)) IN
    lostTurns = {} =>
      /\ Transcript(r) = 1 .. n
      /\ simRuns[r].turns <= (n + 1) \div 2
      /\ simFaults = 0 /\ (\A p \in SimPaths : actor[<<r, p>>] = Gone) => n \div 2 <= simRuns[r].turns

(* A simulation is settled once, by one that executes it, and stays        *)
(* running for good only after a failure.                                  *)
SimLifecycle == INSTANCE RunLifecycle WITH
  RunIds <- SimRuns,
  outcome <- [r \in SimRuns |-> simRuns[r].status],
  working <- {r \in SimRuns : \E p \in SimPaths : actor[<<r, p>>] # Gone},
  failed <- abandoned
ImplementsSimLifecycle == SimLifecycle!Spec
===============================================================================
