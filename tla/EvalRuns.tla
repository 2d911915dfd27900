------------------------------- MODULE EvalRuns --------------------------------
(***************************************************************************)
(* The runs of one hosted evaluation config: createConfig, startRun,       *)
(* startScheduledRun and executeEvalRun of platform/src/evals.ts.          *)
(*                                                                         *)
(* A run executes inline, in the Worker that started it and with a         *)
(* deadline, or as a Workflow instance, which is restarted after a crash   *)
(* and replays the recorded outcome of every finished step.  When the      *)
(* creation of the instance seems to fail, both may execute one run.       *)
(***************************************************************************)
EXTENDS Integers, FiniteSets

CONSTANTS
  EvalRunIds,
  EvalTraces,     \* traces, in the order of their ids
  Checks,         \* the deterministic checks of the config
  Grades,         \* what the judge may answer
  MaxTraces,      \* MAX_TRACES_PER_RUN
  MaxEvalFaults,  \* bound: evictions, crashes and failing calls
  MaxSpanChanges  \* bound: changes of the spans under evaluation

ASSUME EvalAssumption ==
  /\ EvalTraces \subseteq Nat /\ IsFiniteSet(EvalTraces)
  /\ MaxTraces \in Nat /\ MaxEvalFaults \in Nat /\ MaxSpanChanges \in Nat

Paths == {"inline", "workflow"}
Executors == EvalRunIds \X Paths

VARIABLES
  spans,     \* what the read model holds of each trace: [end, passed], or NoSpans
  config,    \* eval_configs: [active, checks, judge, cron], or NoConfig
  runs,      \* eval_runs
  spine,     \* score.recorded events: content by event id
  executor,  \* what each executor of each run is about to do
  steps,     \* the recorded step outcomes of each Workflow instance
  evalFaults, spanChanges,
  refused,   \* history: inserts that failed in the batch and alone
  target,    \* history: the traces a settled run had selected
  stranded   \* history: runs whose last executor died or could not settle

evalVars == <<spans, config, runs, spine, executor, steps, evalFaults, spanChanges,
              refused, target, stranded>>

Absent == [at |-> "absent"]
NoSpans == [end |-> -1]
NoConfig == [active |-> FALSE]
NoRow == [status |-> "none", traces |-> 0, scores |-> 0]

(* checkScoreEventID and judgeScoreEventID: a check is about the trace, a  *)
(* grade about the run; both are dated by the end of the trace.            *)
CheckId(t, c, a) == <<"check", t, c, a.end>>
JudgeId(t, r, a) == <<"judge", t, r, a.end>>
CheckEvent(t, c, a) == [id |-> CheckId(t, c, a), content |-> a.passed]
JudgeEvent(t, r, a, g) == [id |-> JudgeId(t, r, a), content |-> g]
EventsOf(t, r, a, grades) ==
  {CheckEvent(t, c, a) : c \in config.checks} \cup {JudgeEvent(t, r, a, g) : g \in grades}

(* INSERT OR IGNORE under the payload-conflict trigger of the spine.       *)
Known(e) == e.id \in DOMAIN spine
Conflicts(e) == Known(e) /\ spine[e.id] # e.content
Appended(E) ==
  LET new == {e \in E : ~Known(e)}
  IN  [i \in DOMAIN spine \cup {e.id : e \in new} |->
         IF i \in DOMAIN spine THEN spine[i] ELSE (CHOOSE e \in new : e.id = i).content]

Max2(m, n) == IF m > n THEN m ELSE n
(* ADVANCE_PROGRESS_SQL *)
Advanced(row, traces, scores) ==
  [row EXCEPT !.traces = Max2(@, traces), !.scores = Max2(@, scores)]

-------------------------------------------------------------------------------
EvalInit ==
  /\ spans \in [EvalTraces -> [end : {0}, passed : BOOLEAN] \cup {NoSpans}]
  /\ config = NoConfig
  /\ runs = [r \in EvalRunIds |-> NoRow]
  /\ spine = <<>>
  /\ executor = [x \in Executors |-> Absent]
  /\ steps = [r \in EvalRunIds |-> <<>>]
  /\ evalFaults = 0 /\ spanChanges = 0
  /\ refused = {} /\ target = [r \in EvalRunIds |-> {}] /\ stranded = {}

Fault == evalFaults < MaxEvalFaults /\ evalFaults' = evalFaults + 1
NoFault == UNCHANGED evalFaults
GoTo(x, next) == executor' = [executor EXCEPT ![x] = next]

(* validateCreateConfigBody: at least one check, each of them known.       *)
ValidChecks == (SUBSET Checks) \ {{}}
CreateConfig ==
  /\ config = NoConfig
  /\ \E checks \in ValidChecks, judge, cron \in BOOLEAN :
       config' = [active |-> TRUE, checks |-> checks, judge |-> judge, cron |-> cron]
  /\ UNCHANGED <<spans, runs, spine, executor, steps, evalFaults, spanChanges, refused, target, stranded>>

(* TARGET_TRACES_SQL: the traces with a span in the window.                *)
Selected == {t \in EvalTraces : spans[t] # NoSpans}

(* startRun refuses a window that is too wide (413), startScheduledRun,    *)
(* for the configs that are due, does not look; the row is inserted and    *)
(* last_run_at moves.                                                      *)
MayStart == config.active /\ (config.cron \/ Cardinality(Selected) <= MaxTraces)
StartRun(r) ==
  /\ runs[r].status = "none" /\ MayStart
  /\ runs' = [runs EXCEPT ![r].status = "running"]
  /\ GoTo(<<r, "inline">>, [at |-> "dispatch"])
  /\ UNCHANGED <<spans, config, spine, steps, evalFaults, spanChanges, refused, target, stranded>>

DisableConfig ==
  /\ config.active /\ config' = [config EXCEPT !.active = FALSE]
  /\ UNCHANGED <<spans, runs, spine, executor, steps, evalFaults, spanChanges, refused, target, stranded>>

(* dispatchToWorkflow: the instance is created; or it is not, and the run  *)
(* executes here; or it is, but the answer is lost, and it also does.      *)
Dispatch(r) ==
  LET here == <<r, "inline">>  there == <<r, "workflow">>
  IN  /\ executor[here].at = "dispatch"
      /\ \/ executor' = [executor EXCEPT ![here] = Absent, ![there] = [at |-> "begin"]] /\ NoFault
         \/ GoTo(here, [at |-> "begin"]) /\ NoFault
         \/ executor' = [executor EXCEPT ![here] = [at |-> "begin"], ![there] = [at |-> "begin"]]
            /\ Fault
      /\ UNCHANGED <<spans, config, runs, spine, steps, spanChanges, refused, target, stranded>>

Settling(failed, selected, traces, scores) ==
  [at |-> "settle", failed |-> failed, selected |-> selected, traces |-> traces, scores |-> scores]
(* The traces are graded in the order of their ids.                        *)
FirstTrace(todo) == CHOOSE t \in todo : \A u \in todo : t <= u
Grading(selected, snapshot, todo, traces, scores) ==
  [at |-> "grade", selected |-> selected, snapshot |-> snapshot, todo |-> todo,
   traces |-> traces, scores |-> scores]

Appending(e, ok, events) ==
  [at |-> "append", selected |-> e.selected, snapshot |-> e.snapshot, todo |-> e.todo,
   traces |-> e.traces, scores |-> e.scores, ok |-> ok, events |-> events]

(* executeEvalRun up to its loop: a settled run is left alone; a judge     *)
(* whose key is missing or unusable, or too many traces, settle it;        *)
(* otherwise the traces and their aggregates are read once.                *)
Begin(x) ==
  /\ executor[x].at = "begin"
  /\ \/ runs[x[1]].status # "running" /\ GoTo(x, Absent)
     \/ /\ runs[x[1]].status = "running"
        /\ config.judge \/ Cardinality(Selected) > MaxTraces
        /\ GoTo(x, Settling(TRUE, {}, 0, 0))
     \/ /\ runs[x[1]].status = "running" /\ Cardinality(Selected) <= MaxTraces
        /\ GoTo(x, Grading(Selected, spans, Selected, 0, 0))
  /\ UNCHANGED <<spans, config, runs, spine, steps, evalFaults, spanChanges, refused, target, stranded>>

(* One iteration: a step the instance has finished before is replayed.     *)
Outcome(x, o) ==
  LET e == executor[x]
  IN  IF o.ok
      THEN [e EXCEPT !.todo = @ \ {FirstTrace(@)}, !.traces = @ + 1, !.scores = @ + o.scores]
      ELSE Settling(TRUE, e.selected, e.traces + 1, e.scores + o.scores)
Replay(x) ==
  /\ executor[x].at = "grade" /\ executor[x].todo # {} /\ x[2] = "workflow"
  /\ FirstTrace(executor[x].todo) \in DOMAIN steps[x[1]]
  /\ GoTo(x, Outcome(x, steps[x[1]][FirstTrace(executor[x].todo)]))
  /\ UNCHANGED <<spans, config, runs, spine, steps, evalFaults, spanChanges, refused, target, stranded>>

(* callJudge: a grade, or no usable answer.                                *)
JudgeAnswers == IF config.judge THEN {{g} : g \in Grades} \cup {{}} ELSE {{}}
(* evaluateTrace: the checks, then the judge.                              *)
CallJudge(x) ==
  LET t == FirstTrace(executor[x].todo)
  IN  /\ executor[x].at = "grade" /\ executor[x].todo # {}
      /\ x[2] = "workflow" => t \notin DOMAIN steps[x[1]]
      /\ \E grades \in JudgeAnswers :
           GoTo(x, Appending(executor[x], config.judge => grades # {},
                             EventsOf(t, x[1], executor[x].snapshot[t], grades)))
      /\ UNCHANGED <<spans, config, runs, spine, steps, evalFaults, spanChanges, refused, target, stranded>>

RecordedOrNothing(x, lost) ==  \* mutant: no statement alone after a failed batch
  LET e == executor[x]
  IN  /\ spine' = IF \E v \in e.events : Conflicts(v) THEN spine ELSE Appended(e.events \ lost)
      /\ refused' = refused \cup {v.id : v \in lost}
(* What appendVerdicts leaves: the batch; or, after a conflict or a        *)
(* failure of the batch, each statement alone, of which some may fail.     *)
Recorded(x, lost) ==
  LET e == executor[x]
  IN  /\ spine' = Appended({v \in e.events \ lost : ~Conflicts(v)})
      /\ refused' = refused \cup {v.id : v \in lost}

(* The step ends: a Workflow instance records its outcome.                 *)
Finished(log, t, o) == [u \in DOMAIN log \cup {t} |-> IF u \in DOMAIN log THEN log[u] ELSE o]
AppendVerdicts(x) ==
  LET e == executor[x]
      outcome == [ok |-> e.ok, scores |-> Cardinality(e.events)]
  IN  /\ e.at = "append"
      /\ \/ Recorded(x, {}) /\ NoFault
         \/ \E v \in e.events : Recorded(x, {v}) /\ Fault
      /\ runs' = [runs EXCEPT ![x[1]] = Advanced(@, e.traces + 1, e.scores + outcome.scores)]
      /\ steps' = IF x[2] = "workflow"
                  THEN [steps EXCEPT ![x[1]] = Finished(@, FirstTrace(e.todo), outcome)] ELSE steps
      /\ GoTo(x, IF e.ok
                 THEN Grading(e.selected, e.snapshot, e.todo \ {FirstTrace(e.todo)}, e.traces + 1, e.scores + outcome.scores)
                 ELSE Settling(TRUE, e.selected, e.traces + 1, e.scores + outcome.scores))
      /\ UNCHANGED <<spans, config, spanChanges, target, stranded>>

(* The loop ends: all is graded, or the inline deadline has passed.        *)
Finish(x) ==
  LET e == executor[x]
  IN  /\ e.at = "grade"
      /\ \/ e.todo = {} /\ GoTo(x, Settling(FALSE, e.selected, e.traces, e.scores))
         \/ e.todo # {} /\ x[2] = "inline" /\ GoTo(x, Settling(TRUE, e.selected, e.traces, e.scores))
      /\ UNCHANGED <<spans, config, runs, spine, steps, evalFaults, spanChanges, refused, target, stranded>>

MaySettleAgain(r) == runs[r].status # "none"  \* mutant: without completed_at IS NULL
MaySettle(r) == runs[r].status = "running"
OthersOf(x) == {y \in Executors \ {x} : y[1] = x[1] /\ executor[y] # Absent}
(* settle: guarded by completed_at IS NULL; a failing write is swallowed.  *)
Settle(x) ==
  LET e == executor[x]  r == x[1]
  IN  /\ e.at = "settle"
      /\ \/ /\ MaySettle(r)
            /\ runs' = [runs EXCEPT ![r] = [Advanced(@, e.traces, e.scores) EXCEPT
                          !.status = IF e.failed THEN "error" ELSE "done"]]
            /\ target' = [target EXCEPT ![r] = e.selected]
            /\ NoFault /\ UNCHANGED stranded
         \/ ~MaySettle(r) /\ NoFault /\ UNCHANGED <<runs, target, stranded>>
         \/ /\ Fault /\ UNCHANGED <<runs, target>>
            /\ stranded' = IF OthersOf(x) = {} THEN stranded \cup {r} ELSE stranded
      /\ GoTo(x, Absent)
      /\ UNCHANGED <<spans, config, spine, steps, spanChanges, refused>>

(* An eviction ends an inline executor; an instance starts over and        *)
(* replays its finished steps, and repeats the one it was in.              *)
Crash(x) ==
  /\ executor[x].at \notin {"absent", "begin"} /\ Fault
  /\ IF x[2] = "workflow" THEN GoTo(x, [at |-> "begin"]) /\ UNCHANGED stranded
     ELSE /\ GoTo(x, Absent)
          /\ stranded' = IF OthersOf(x) = {} THEN stranded \cup {x[1]} ELSE stranded
  /\ UNCHANGED <<spans, config, runs, spine, steps, spanChanges, refused, target>>

(* Ingest: a trace appears; spans of it end, fail or are corrected.        *)
SpansGrow ==
  /\ spanChanges < MaxSpanChanges /\ spanChanges' = spanChanges + 1
  /\ \E t \in EvalTraces, a \in [end : {0, 1}, passed : BOOLEAN] :
       a # spans[t] /\ a.end >= spans[t].end /\ spans' = [spans EXCEPT ![t] = a]
  /\ UNCHANGED <<config, runs, spine, executor, steps, evalFaults, refused, target, stranded>>

EvalNext ==
  \/ CreateConfig \/ DisableConfig \/ SpansGrow
  \/ \E r \in EvalRunIds : StartRun(r) \/ Dispatch(r)
  \/ \E x \in Executors :
       Begin(x) \/ Replay(x) \/ CallJudge(x) \/ AppendVerdicts(x) \/ Finish(x) \/ Settle(x) \/ Crash(x)

-------------------------------------------------------------------------------
Held(i) == i \in DOMAIN spine \cup refused

(* A run that reports done has on the spine, for every trace it selected,  *)
(* a verdict of every check and its own grade, although instances restart, *)
(* repeat a step with another grade, race an inline executor of the same   *)
(* run and run into verdicts of an earlier state of the trace: only an     *)
(* insert that failed twice is missing.                                    *)
DoneMeansGraded ==
  \A r \in EvalRunIds : runs[r].status = "done" =>
    \A t \in target[r] :
      /\ \A c \in config.checks : \E end \in {0, 1} : Held(<<"check", t, c, end>>)
      /\ config.judge => \E end \in {0, 1} : Held(<<"judge", t, r, end>>)

(* An evaluation run is settled once, by an executor of it, although two   *)
(* may race; and it stays running for good only when its last executor was *)
(* evicted or could not write the settlement: nothing resumes an inline    *)
(* run.                                                                    *)
EvalLifecycle == INSTANCE RunLifecycle WITH
  RunIds <- EvalRunIds,
  outcome <- [r \in EvalRunIds |-> runs[r].status],
  working <- {r \in EvalRunIds : \E p \in Paths : executor[<<r, p>>] # Absent},
  failed <- stranded
ImplementsEvalLifecycle == EvalLifecycle!Spec

(* The progress of a run counts evidence that is on the spine              *)
(* (platform/src/evals.ts on appendVerdicts: "so the row can never claim   *)
(* evidence the spine does not hold").                                     *)
ProgressIsHeld ==
  \A r \in EvalRunIds :
    runs[r].scores <= Cardinality({i \in DOMAIN spine : i[1] = "check" \/ i[3] = r})
===============================================================================
