------------------------------ MODULE MCHostedWork ------------------------------
(***************************************************************************)
(* The hosted features that work on a workspace: evaluations, simulations, *)
(* playground runs, prompt labels, annotations, alerts, the gateway and    *)
(* API keys.  They share no row of the database, so a behaviour moves one  *)
(* of them only: "part" picks it, and the others stay as they began.       *)
(***************************************************************************)
EXTENDS EvalRuns, Simulations, Playground, Annotations, Alerts, Gateway,
        ApiKeys, TLC

CONSTANT Parts  \* the features a behaviour may move
VARIABLE part

workVars == <<evalVars, simVars, playVars, promptVars, annVars, alertVars, gatewayVars, apiVars>>

(* The choices of the initial states matter to their own part only.        *)
WorkInit ==
  /\ part \in Parts
  /\ EvalInit /\ SimulationInit /\ PlaygroundInit /\ PromptInit
  /\ AnnotationsInit /\ AlertsInit /\ GatewayInit /\ ApiKeysInit
  /\ part # "evals" => \A t \in EvalTraces : spans[t] = NoSpans
  /\ part # "annotations" => matching = {}
  /\ part # "alerts" => \A t \in GridPoints : level[t] = "ok"

EvalPart == part = "evals" /\ EvalNext
SimulationPart == part = "simulations" /\ SimulationNext
PlaygroundPart == part = "playground" /\ PlaygroundNext
PromptPart == part = "prompts" /\ PromptNext
AnnotationPart == part = "annotations" /\ AnnotationsNext
AlertPart == part = "alerts" /\ AlertsNext
GatewayPart == part = "gateway" /\ GatewayNext
KeyPart == part = "keys" /\ ApiKeysNext

Still(name, vars) == part # name => UNCHANGED vars
WorkNext ==
  /\ UNCHANGED part
  /\ \/ EvalPart \/ SimulationPart \/ PlaygroundPart \/ PromptPart
     \/ AnnotationPart \/ AlertPart \/ GatewayPart \/ KeyPart
  /\ Still("evals", evalVars) /\ Still("simulations", simVars)
  /\ Still("playground", playVars) /\ Still("prompts", promptVars)
  /\ Still("annotations", annVars) /\ Still("alerts", alertVars)
  /\ Still("gateway", gatewayVars) /\ Still("keys", apiVars)

WorkSpec == WorkInit /\ [][WorkNext]_<<part, workVars>>

(* A run that says it is done did what it was for: every trace it counts   *)
(* is graded, its verdict and its whole transcript are stored, every cell  *)
(* of the playground was executed.                                         *)
SettledRunsAreWhole ==
  DoneMeansGraded /\ VerdictIsRecorded /\ TranscriptIsWhole /\ DoneRunsRan

(* A version is promoted on scores it really has, and an annotation leaves *)
(* one score however often it is finished.                                 *)
ScoresAreSound == PromotionsAreSound /\ ScoredOnce

(* Evaluations and simulations are settled as RunLifecycle says: once, by  *)
(* one who works on them, and they are left running only by a failure.     *)
RunsAreSettledOnce == ImplementsEvalLifecycle /\ ImplementsSimLifecycle
===============================================================================
