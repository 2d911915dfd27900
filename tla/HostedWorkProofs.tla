---------------------------- MODULE HostedWorkProofs ----------------------------
(***************************************************************************)
(* Theorems about a hosted workspace.  The features that work on it, for   *)
(* any runs, keys, callers and sweeps, any limits and any number of        *)
(* failures.  Its members (Teams): it keeps an owner, its seats, the       *)
(* authority of its owners and one audit trail, for any users, invites,    *)
(* requests and seats: what a request read long ago is still enough,       *)
(* because the statements, the indexes and the triggers of the transaction *)
(* decide what it may change.  Its read model (WorkstreamProjection): it   *)
(* converges, for any events and any batching, because one upsert turns a  *)
(* summary of a set of events into that of the set with one more event.    *)
(***************************************************************************)
EXTENDS MCHostedWork, WorkstreamProjection, Teams, SetLemmas

(* A behaviour of the whole moves each feature as its own module says.     *)
LEMMA KeysMove == [WorkNext]_<<part, workVars>> => [ApiKeysNext]_apiVars
  BY DEF WorkNext, Still, workVars, EvalPart, SimulationPart, PlaygroundPart, PromptPart,
         AnnotationPart, AlertPart, GatewayPart, KeyPart

LEMMA EvalsMove == [WorkNext]_<<part, workVars>> => [EvalNext]_evalVars
  BY DEF WorkNext, Still, workVars, EvalPart, SimulationPart, PlaygroundPart, PromptPart,
         AnnotationPart, AlertPart, GatewayPart, KeyPart
LEMMA SimulationsMove == [WorkNext]_<<part, workVars>> => [SimulationNext]_simVars
  BY DEF WorkNext, Still, workVars, EvalPart, SimulationPart, PlaygroundPart, PromptPart,
         AnnotationPart, AlertPart, GatewayPart, KeyPart

-------------------------------------------------------------------------------
(* API keys                                                                *)

KeyVerdicts == {"ok", "rejected"}
Verifying ==
  {Free} \cup [at : {"lookup"}, started : Nat] \cup [at : {"put"}, started : Nat, v : KeyVerdicts]
ApiKeysTypeOK ==
  /\ apiNow \in Nat /\ apiNow <= MaxApiTime /\ accepted \in Nat
  /\ apiKey \in [made : BOOLEAN, revokedAt : Nat]
  /\ verdict \in [v : KeyVerdicts, until : Nat] \cup {NoVerdict}
  /\ verifier \in [Verifiers -> Verifying]

(* When a verdict that accepts must be gone at the latest.                 *)
LastAccepted == apiKey.revokedAt + VerdictTTL + MaxVerify
KeysInv ==
  /\ ApiKeysTypeOK
  /\ accepted <= apiNow
  /\ ~apiKey.made => apiKey.revokedAt = NotRevoked
  /\ Revoked => apiKey.revokedAt <= apiNow /\ accepted <= LastAccepted
  /\ verdict # NoVerdict => apiNow <= verdict.until /\ verdict.until <= apiNow + VerdictTTL
  /\ verdict.v = "ok" /\ Revoked => verdict.until <= LastAccepted
  /\ \A q \in Verifiers : verifier[q] # Free =>
       /\ verifier[q].started <= apiNow /\ apiNow <= verifier[q].started + MaxVerify
       /\ verifier[q].at = "put" /\ verifier[q].v = "ok" /\ Revoked
            => verifier[q].started <= apiKey.revokedAt

LEMMA KeysStart == ApiKeysInit => KeysInv
  BY ApiKeysAssumption
  DEF ApiKeysInit, KeysInv, ApiKeysTypeOK, Verifying, NoVerdict, Free, NotRevoked, Revoked, KeyVerdicts

LEMMA KeysStep == KeysInv /\ [ApiKeysNext]_apiVars => KeysInv'
  <1> SUFFICES ASSUME KeysInv, [ApiKeysNext]_apiVars PROVE KeysInv'
    OBVIOUS
  <1> USE ApiKeysAssumption
  <1> USE DEF KeysInv, ApiKeysTypeOK, Verifying, NoVerdict, Free, NotRevoked, Revoked, KeyVerdicts,
              LastAccepted
  <1>1. CASE ApiTick
    BY <1>1 DEF ApiTick
  <1>2. CASE VerdictEvicted
    BY <1>2 DEF VerdictEvicted
  <1>3. CASE CreateApiKey
    BY <1>3 DEF CreateApiKey
  <1>4. CASE RevokeApiKey
    BY <1>4 DEF RevokeApiKey
  <1>5. CASE WriteTombstone
    BY <1>5 DEF WriteTombstone, PutVerdict
  <1>6. ASSUME NEW q \in Verifiers, ReadVerdict(q) PROVE KeysInv'
    BY <1>6 DEF ReadVerdict, VerifierGoto, KeepVerdict, AcceptIf
  <1>7. ASSUME NEW q \in Verifiers, LookUpKey(q) PROVE KeysInv'
    BY <1>7 DEF LookUpKey, VerifierGoto
  <1>8. ASSUME NEW q \in Verifiers, CacheVerdict(q) PROVE KeysInv'
    BY <1>8 DEF CacheVerdict, VerifierGoto, PutVerdict, AcceptIf
  <1>9. CASE UNCHANGED apiVars
    BY <1>9 DEF apiVars
  <1> QED
    BY <1>1, <1>2, <1>3, <1>4, <1>5, <1>6, <1>7, <1>8, <1>9 DEF ApiKeysNext

(* A revoked key is accepted nowhere once the time of a verification and   *)
(* the life of a verdict have passed, however many requests race the       *)
(* revocation, for any key cache (authenticateApiKey, revokeApiKey).       *)
THEOREM RevokedKeysDie == WorkSpec => []RevocationReachesTheEdge
  <1>1. WorkInit => KeysInv
    BY KeysStart DEF WorkInit
  <1>2. KeysInv /\ [WorkNext]_<<part, workVars>> => KeysInv'
    BY KeysStep, KeysMove
  <1>3. KeysInv => RevocationReachesTheEdge
    BY DEF KeysInv, RevocationReachesTheEdge, LastAccepted
  <1> QED BY <1>1, <1>2, <1>3, PTL DEF WorkSpec

-------------------------------------------------------------------------------
(* Evaluations implement RunLifecycle                                      *)

(* The runs somebody works on, the others who work on the run of x, and    *)
(* what becomes of the runs when x goes on or goes.                        *)
Busy(a, Runs, P, idle) == {r \in Runs : \E p \in P : a[<<r, p>>] # idle}
Fellows(a, Runs, P, idle, x) == {y \in (Runs \X P) \ {x} : y[1] = x[1] /\ a[y] # idle}
LEMMA BusyAfter ==
  ASSUME NEW Runs, NEW P, NEW idle, NEW a, NEW x \in Runs \X P, a[x] # idle, NEW v, NEW b,
         \A y \in Runs \X P : b[y] = IF y = x THEN v ELSE a[y]
  PROVE  /\ x[1] \in Busy(a, Runs, P, idle)
         /\ v # idle \/ Fellows(a, Runs, P, idle, x) # {}
              => Busy(b, Runs, P, idle) = Busy(a, Runs, P, idle)
         /\ v = idle /\ Fellows(a, Runs, P, idle, x) = {}
              => Busy(b, Runs, P, idle) = Busy(a, Runs, P, idle) \ {x[1]}
  <1> DEFINE A == Busy(a, Runs, P, idle)
             B == Busy(b, Runs, P, idle)
             others == Fellows(a, Runs, P, idle, x)
  <1>0. PICK r0 \in Runs, p0 \in P : x = <<r0, p0>>
    OBVIOUS
  <1>1. x[1] = r0 /\ r0 \in A
    BY <1>0 DEF Busy
  <1>2. \A r \in Runs, p \in P : b[<<r, p>>] = IF r = r0 /\ p = p0 THEN v ELSE a[<<r, p>>]
    BY <1>0
  <1>3. \A r \in Runs : r # r0 => (r \in B <=> r \in A)
    BY <1>2 DEF Busy
  <1>4. r0 \in B <=> v # idle \/ others # {}
    <2>1. r0 \in B <=> v # idle \/ \E p \in P : p # p0 /\ a[<<r0, p>>] # idle
      BY <1>0, <1>2 DEF Busy
    <2>2. ASSUME NEW p \in P, p # p0, a[<<r0, p>>] # idle PROVE others # {}
      <3>1. <<r0, p>> \in (Runs \X P) \ {x} /\ <<r0, p>>[1] = x[1]
        BY <2>2, <1>0
      <3> QED BY <3>1, <2>2 DEF Fellows
    <2>3. ASSUME NEW y \in others PROVE \E p \in P : p # p0 /\ a[<<r0, p>>] # idle
      <3>1. PICK r \in Runs, p \in P : y = <<r, p>>
        BY DEF Fellows
      <3>2. r = r0 /\ p # p0 /\ a[<<r, p>>] # idle
        BY <3>1, <1>0 DEF Fellows
      <3> QED BY <3>2
    <2> QED BY <2>1, <2>2, <2>3
  <1>5. A \subseteq Runs /\ B \subseteq Runs
    BY DEF Busy
  <1> HIDE DEF A, B, others
  <1>6. r0 \in B => B = A
    BY <1>0, <1>1, <1>3, <1>5
  <1>7. r0 \notin B => B = A \ {r0}
    BY <1>0, <1>1, <1>3, <1>5
  <1> QED BY <1>1, <1>4, <1>6, <1>7 DEF A, B, others

Statuses == {"none", "running", "done", "error"}
EvalInv ==
  /\ runs = [r \in EvalRunIds |-> runs[r]]
  /\ executor = [x \in Executors |-> executor[x]]
  /\ \A r \in EvalRunIds :
       DOMAIN runs[r] = {"status", "traces", "scores"} /\ runs[r].status \in Statuses
  /\ \A x \in Executors : executor[x] # Absent =>
       "at" \in DOMAIN executor[x] /\ executor[x].at # "absent" /\ runs[x[1]].status # "none"

EvalOutcome == [r \in EvalRunIds |-> runs[r].status]
EvalWorking == Busy(executor, EvalRunIds, Paths, Absent)

LEMMA EvalStart == EvalInit => EvalInv /\ EvalLifecycle!Init
  <1> SUFFICES ASSUME EvalInit PROVE EvalInv /\ EvalLifecycle!Init
    OBVIOUS
  <1>1. EvalInv
    BY DEF EvalInit, EvalInv, NoRow, Absent, Statuses, Executors
  <1>2. \A r \in EvalRunIds, p \in Paths : executor[<<r, p>>] = Absent
    BY DEF EvalInit, Executors
  <1>3. EvalLifecycle!Init
    BY <1>2 DEF EvalInit, EvalLifecycle!Init, NoRow
  <1> QED BY <1>1, <1>3

(* An executor of a run goes on, or goes.                                  *)
LEMMA ExecutorGoes ==
  ASSUME EvalInv, NEW x \in Executors, executor[x] # Absent, NEW v, GoTo(x, v)
  PROVE  /\ x[1] \in EvalRunIds /\ x[1] \in EvalWorking
         /\ v # Absent => EvalWorking' = EvalWorking
         /\ v = Absent /\ OthersOf(x) # {} => EvalWorking' = EvalWorking
         /\ v = Absent /\ OthersOf(x) = {} => EvalWorking' = EvalWorking \ {x[1]}
  <1>1. /\ x \in EvalRunIds \X Paths
        /\ \A y \in EvalRunIds \X Paths : executor'[y] = IF y = x THEN v ELSE executor[y]
        /\ OthersOf(x) = Fellows(executor, EvalRunIds, Paths, Absent, x)
    BY DEF EvalInv, Executors, GoTo, OthersOf, Fellows
  <1>2. PICK a, b : a = executor /\ b = executor'
    OBVIOUS
  <1>3. EvalWorking = Busy(a, EvalRunIds, Paths, Absent) /\ EvalWorking' = Busy(b, EvalRunIds, Paths, Absent)
    BY <1>2 DEF EvalWorking, Busy, Absent
  <1>4. x[1] \in EvalRunIds
    BY <1>1
  <1> QED BY <1>1, <1>2, <1>3, <1>4, BusyAfter

EvalStep == [EvalLifecycle!Next]_(EvalLifecycle!lifecycleVars)
SameRows == /\ runs' = [r \in EvalRunIds |-> runs'[r]]
            /\ \A r \in EvalRunIds : DOMAIN runs'[r] = DOMAIN runs[r] /\ runs'[r].status = runs[r].status

LEMMA EvalSteps ==
  /\ EvalOutcome' = EvalOutcome /\ EvalWorking' = EvalWorking /\ stranded' = stranded => EvalStep
  /\ \A r \in EvalRunIds :
       /\ /\ EvalOutcome[r] = "none" /\ EvalOutcome' = [EvalOutcome EXCEPT ![r] = "running"]
          /\ EvalWorking' = EvalWorking \cup {r} /\ stranded' = stranded
          => EvalStep
       /\ r \in EvalWorking =>
            /\ /\ EvalOutcome[r] = "running"
               /\ \E o \in {"done", "error"} : EvalOutcome' = [EvalOutcome EXCEPT ![r] = o]
               /\ EvalWorking' \in {EvalWorking, EvalWorking \ {r}} /\ stranded' = stranded
               => EvalStep
            /\ /\ EvalOutcome[r] \in {"done", "error"} /\ EvalOutcome' = EvalOutcome
               /\ EvalWorking' = EvalWorking \ {r} /\ stranded' \in {stranded, stranded \cup {r}}
               => EvalStep
            /\ /\ EvalOutcome[r] = "running" /\ EvalOutcome' = EvalOutcome
               /\ EvalWorking' = EvalWorking \ {r} /\ stranded' = stranded \cup {r}
               => EvalStep
  BY DEF EvalStep, EvalOutcome, EvalWorking, Busy, EvalLifecycle!Next, EvalLifecycle!lifecycleVars,
         EvalLifecycle!Start, EvalLifecycle!Settle, EvalLifecycle!Leave, EvalLifecycle!Fail, EvalLifecycle!Final

LEMMA ExecutorGoesOn ==
  ASSUME EvalInv, NEW x \in Executors, executor[x] # Absent, NEW v, GoTo(x, v),
         "at" \in DOMAIN v, v.at # "absent", SameRows, stranded' = stranded
  PROVE  EvalInv' /\ EvalStep
  <1>1. v # Absent
    BY DEF Absent
  <1>2. EvalOutcome' = EvalOutcome
    BY DEF SameRows, EvalOutcome
  <1>3. EvalWorking' = EvalWorking
    BY <1>1, ExecutorGoes
  <1>4. EvalInv'
    BY DEF EvalInv, SameRows, GoTo, Executors
  <1> QED BY <1>2, <1>3, <1>4, EvalSteps

(* An executor goes: the run is settled, or stranded by the last of them.  *)
LEMMA ExecutorLeaves ==
  ASSUME EvalInv, NEW x \in Executors, executor[x] # Absent, GoTo(x, Absent), runs' = runs,
         \/ runs[x[1]].status # "running" /\ stranded' = stranded
         \/ stranded' = IF OthersOf(x) = {} THEN stranded \cup {x[1]} ELSE stranded
  PROVE  EvalInv' /\ EvalStep
  <1> DEFINE r == x[1]
  <1>1. r \in EvalRunIds /\ r \in EvalWorking
    BY ExecutorGoes
  <1>2. EvalOutcome' = EvalOutcome /\ EvalOutcome[r] = runs[r].status
    BY <1>1 DEF EvalOutcome
  <1>3. runs[r].status \in {"running", "done", "error"}
    BY <1>1 DEF EvalInv, Statuses
  <1>4. EvalWorking' = IF OthersOf(x) = {} THEN EvalWorking \ {r} ELSE EvalWorking
    BY ExecutorGoes
  <1>5. EvalInv'
    BY DEF EvalInv, GoTo, Executors
  <1>6. EvalStep
    <2>1. CASE OthersOf(x) # {}
      BY <2>1, <1>2, <1>4, EvalSteps
    <2>2. CASE OthersOf(x) = {} /\ runs[r].status = "running"
      BY <2>2, <1>1, <1>2, <1>4, EvalSteps
    <2>3. CASE OthersOf(x) = {} /\ runs[r].status # "running"
      BY <2>3, <1>1, <1>2, <1>3, <1>4, EvalSteps
    <2> QED BY <2>1, <2>2, <2>3
  <1> QED BY <1>5, <1>6

LEMMA EvalRefines == EvalInv /\ [EvalNext]_evalVars => EvalInv' /\ EvalStep
  <1> SUFFICES ASSUME EvalInv, [EvalNext]_evalVars PROVE EvalInv' /\ EvalStep
    OBVIOUS
  <1>0. runs' = runs => SameRows
    BY DEF SameRows, EvalInv
  <1>1. ASSUME runs' = runs, executor' = executor, stranded' = stranded PROVE EvalInv' /\ EvalStep
    <2>1. EvalInv'
      BY <1>1 DEF EvalInv
    <2>2. EvalOutcome' = EvalOutcome /\ EvalWorking' = EvalWorking
      BY <1>1 DEF EvalOutcome, EvalWorking, Busy
    <2> QED BY <1>1, <2>1, <2>2, EvalSteps
  <1>2. CASE CreateConfig \/ DisableConfig \/ SpansGrow \/ UNCHANGED evalVars
    BY <1>1, <1>2 DEF CreateConfig, DisableConfig, SpansGrow, evalVars
  <1>3. ASSUME NEW r \in EvalRunIds, StartRun(r) PROVE EvalInv' /\ EvalStep
    <2> DEFINE x == <<r, "inline">>
    <2>0. x \in Executors /\ x[1] = r /\ runs[r].status = "none"
      BY <1>3 DEF StartRun, Executors, Paths
    <2>1. executor[x] = Absent
      BY <2>0 DEF EvalInv
    <2>2. /\ executor' = [executor EXCEPT ![x] = [at |-> "dispatch"]]
          /\ runs' = [runs EXCEPT ![r].status = "running"] /\ stranded' = stranded
      BY <1>3 DEF StartRun, GoTo
    <2>2a. /\ executor' = [y \in Executors |-> IF y = x THEN [at |-> "dispatch"] ELSE executor[y]]
           /\ runs' = [q \in EvalRunIds |-> IF q = r THEN [runs[r] EXCEPT !.status = "running"] ELSE runs[q]]
      BY <2>0, <2>2 DEF EvalInv
    <2>2b. \A q \in EvalRunIds : DOMAIN runs'[q] = DOMAIN runs[q] /\ runs'[q].status = IF q = r THEN "running" ELSE runs[q].status
      BY <2>2a DEF EvalInv
    <2>3. EvalInv'
      BY <2>0, <2>2a, <2>2b DEF EvalInv, Statuses, Executors
    <2>4. EvalOutcome[r] = "none" /\ EvalOutcome' = [EvalOutcome EXCEPT ![r] = "running"]
      BY <2>0, <2>2b DEF EvalOutcome
    <2>5. \A q \in EvalRunIds, p \in Paths : executor'[<<q, p>>] # Absent <=> <<q, p>> = x \/ executor[<<q, p>>] # Absent
      BY <2>1, <2>2a DEF Executors, Absent
    <2>6. EvalWorking' = EvalWorking \cup {r}
      BY <2>5 DEF EvalWorking, Busy, Paths
    <2> QED BY <2>2, <2>3, <2>4, <2>6, EvalSteps
  <1>4. ASSUME NEW r \in EvalRunIds, Dispatch(r) PROVE EvalInv' /\ EvalStep
    <2> DEFINE here == <<r, "inline">>  there == <<r, "workflow">>  begin == [at |-> "begin"]
    <2>0. here \in Executors /\ there \in Executors /\ here # there /\ here[1] = r /\ there[1] = r
      BY DEF Executors, Paths
    <2>0a. executor[here] # Absent
      BY <1>4 DEF Dispatch, Absent
    <2>1. runs[r].status # "none"
      BY <2>0, <2>0a DEF EvalInv
    <2>2. /\ \/ executor' = [executor EXCEPT ![here] = Absent, ![there] = begin]
             \/ executor' = [executor EXCEPT ![here] = begin]
             \/ executor' = [executor EXCEPT ![here] = begin, ![there] = begin]
          /\ runs' = runs /\ stranded' = stranded
      BY <1>4 DEF Dispatch, GoTo
    <2>2a. /\ executor' = [y \in Executors |-> executor'[y]]
           /\ \A y \in Executors : y \notin {here, there} => executor'[y] = executor[y]
           /\ executor'[here] \in {Absent, begin} /\ executor'[there] \in {executor[there], begin}
           /\ executor'[here] = begin \/ executor'[there] = begin
      BY <2>0, <2>2 DEF EvalInv
    <2>2b. \A y \in Executors : executor'[y] \in {executor[y], Absent, begin}
                               /\ (executor'[y] = begin => y[1] = r \/ executor[y] = begin)
      BY <2>0, <2>2a
    <2>3. EvalInv'
      BY <2>1, <2>2, <2>2a, <2>2b DEF EvalInv
    <2>4. EvalOutcome' = EvalOutcome
      BY <2>2 DEF EvalOutcome
    <2>5. \A q \in EvalRunIds : (\E p \in Paths : executor'[<<q, p>>] # Absent) <=> \E p \in Paths : executor[<<q, p>>] # Absent
      <3> TAKE q \in EvalRunIds
      <3>1. CASE q = r
        BY <2>0, <2>0a, <2>2a, <3>1 DEF Paths, Absent
      <3>2. CASE q # r
        BY <2>2a, <3>2 DEF Executors
      <3> QED BY <3>1, <3>2
    <2>6. EvalWorking' = EvalWorking
      BY <2>5 DEF EvalWorking, Busy
    <2> QED BY <2>2, <2>3, <2>4, <2>6, EvalSteps
  <1>5. ASSUME NEW x \in Executors, Begin(x) PROVE EvalInv' /\ EvalStep
    <2>1. executor[x] # Absent /\ runs' = runs /\ stranded' = stranded
      BY <1>5 DEF Begin, Absent
    <2>2. CASE runs[x[1]].status # "running" /\ GoTo(x, Absent)
      BY <2>1, <2>2, ExecutorLeaves
    <2>3. CASE GoTo(x, Settling(TRUE, {}, 0, 0))
      BY <2>1, <2>3, <1>0, ExecutorGoesOn DEF Settling
    <2>4. CASE GoTo(x, Grading(Selected, spans, Selected, 0, 0))
      BY <2>1, <2>4, <1>0, ExecutorGoesOn DEF Grading
    <2> QED BY <1>5, <2>2, <2>3, <2>4 DEF Begin
  <1>6. ASSUME NEW x \in Executors, Replay(x) PROVE EvalInv' /\ EvalStep
    <2> DEFINE o == steps[x[1]][FirstTrace(executor[x].todo)]
    <2>1. /\ executor[x] # Absent /\ executor[x].at = "grade" /\ "at" \in DOMAIN executor[x]
          /\ runs' = runs /\ stranded' = stranded /\ GoTo(x, Outcome(x, o))
      BY <1>6 DEF Replay, Absent, EvalInv
    <2>2. "at" \in DOMAIN Outcome(x, o) /\ Outcome(x, o).at # "absent"
      BY <2>1 DEF Outcome, Settling
    <2> QED BY <2>1, <2>2, <1>0, ExecutorGoesOn
  <1>7. ASSUME NEW x \in Executors, CallJudge(x) PROVE EvalInv' /\ EvalStep
    <2>1. /\ executor[x] # Absent /\ executor[x].at = "grade" /\ "at" \in DOMAIN executor[x]
          /\ runs' = runs /\ stranded' = stranded
      BY <1>7 DEF CallJudge, Absent, EvalInv
    <2>2. PICK v : GoTo(x, v) /\ "at" \in DOMAIN v /\ v.at # "absent"
      BY <1>7 DEF CallJudge, Appending
    <2> QED BY <2>1, <2>2, <1>0, ExecutorGoesOn
  <1>8. ASSUME NEW x \in Executors, AppendVerdicts(x) PROVE EvalInv' /\ EvalStep
    <2>1. executor[x] # Absent /\ stranded' = stranded
      BY <1>8 DEF AppendVerdicts, Absent
    <2>2. SameRows
      BY <1>8 DEF AppendVerdicts, SameRows, EvalInv, Advanced
    <2>3. PICK v : GoTo(x, v) /\ "at" \in DOMAIN v /\ v.at # "absent"
      BY <1>8 DEF AppendVerdicts, Grading, Settling
    <2> QED BY <2>1, <2>2, <2>3, ExecutorGoesOn
  <1>9. ASSUME NEW x \in Executors, Finish(x) PROVE EvalInv' /\ EvalStep
    <2>1. executor[x] # Absent /\ runs' = runs /\ stranded' = stranded
      BY <1>9 DEF Finish, Absent
    <2>2. PICK v : GoTo(x, v) /\ "at" \in DOMAIN v /\ v.at # "absent"
      BY <1>9 DEF Finish, Settling
    <2> QED BY <2>1, <2>2, <1>0, ExecutorGoesOn
  <1>10. ASSUME NEW x \in Executors, Settle(x) PROVE EvalInv' /\ EvalStep
    <2> DEFINE r == x[1]
    <2>1. executor[x] # Absent /\ GoTo(x, Absent)
      BY <1>10 DEF Settle, Absent
    <2>2. CASE MaySettle(r) /\ stranded' = stranded
               /\ runs' = [runs EXCEPT ![r] = [Advanced(@, executor[x].traces, executor[x].scores) EXCEPT
                          !.status = IF executor[x].failed THEN "error" ELSE "done"]]
      <3>1. r \in EvalRunIds /\ r \in EvalWorking
        BY <2>1, ExecutorGoes
      <3>2. PICK o \in {"done", "error"} : o = IF executor[x].failed THEN "error" ELSE "done"
        OBVIOUS
      <3>3. /\ runs' = [q \in EvalRunIds |-> runs'[q]]
            /\ DOMAIN runs'[r] = DOMAIN runs[r] /\ runs'[r].status = o
            /\ \A q \in EvalRunIds : q # r => runs'[q] = runs[q]
        BY <2>2, <3>1, <3>2 DEF EvalInv, Advanced
      <3>4. EvalOutcome[r] = "running" /\ EvalOutcome' = [EvalOutcome EXCEPT ![r] = o]
        BY <2>2, <3>1, <3>3 DEF EvalOutcome, MaySettle
      <3>5. EvalWorking' \in {EvalWorking, EvalWorking \ {r}}
        BY <2>1, ExecutorGoes
      <3>6. EvalInv'
        BY <2>1, <3>1, <3>3 DEF EvalInv, GoTo, Executors, Statuses
      <3> QED BY <2>2, <3>1, <3>4, <3>5, <3>6, EvalSteps
    <2>3. CASE ~MaySettle(r) /\ runs' = runs /\ stranded' = stranded
      BY <2>1, <2>3, ExecutorLeaves DEF MaySettle
    <2>4. CASE runs' = runs /\ stranded' = IF OthersOf(x) = {} THEN stranded \cup {r} ELSE stranded
      BY <2>1, <2>4, ExecutorLeaves
    <2> QED BY <1>10, <2>2, <2>3, <2>4 DEF Settle
  <1>11. ASSUME NEW x \in Executors, Crash(x) PROVE EvalInv' /\ EvalStep
    <2>1. executor[x] # Absent /\ runs' = runs
      BY <1>11 DEF Crash, Absent
    <2>2. CASE GoTo(x, [at |-> "begin"]) /\ stranded' = stranded
      BY <2>1, <2>2, <1>0, ExecutorGoesOn
    <2>3. CASE GoTo(x, Absent) /\ stranded' = IF OthersOf(x) = {} THEN stranded \cup {x[1]} ELSE stranded
      BY <2>1, <2>3, ExecutorLeaves
    <2> QED BY <1>11, <2>2, <2>3 DEF Crash
  <1> QED
    BY <1>2, <1>3, <1>4, <1>5, <1>6, <1>7, <1>8, <1>9, <1>10, <1>11 DEF EvalNext

-------------------------------------------------------------------------------
(* Simulations implement RunLifecycle                                      *)

SimInv ==
  /\ simRuns = [r \in SimRuns |-> simRuns[r]]
  /\ actor = [x \in SimExecutors |-> actor[x]]
  /\ \A r \in SimRuns :
       DOMAIN simRuns[r] = {"status", "turns", "verdict"} /\ simRuns[r].status \in Statuses
  /\ \A x \in SimExecutors : actor[x] # Gone =>
       "at" \in DOMAIN actor[x] /\ actor[x].at # "gone" /\ simRuns[x[1]].status # "none"

SimOutcome == [r \in SimRuns |-> simRuns[r].status]
SimWorking == Busy(actor, SimRuns, SimPaths, Gone)
SimStep == [SimLifecycle!Next]_(SimLifecycle!lifecycleVars)
SameSimRows == /\ simRuns' = [r \in SimRuns |-> simRuns'[r]]
               /\ \A r \in SimRuns : DOMAIN simRuns'[r] = DOMAIN simRuns[r]
                                     /\ simRuns'[r].status = simRuns[r].status

LEMMA SimStart == SimulationInit => SimInv /\ SimLifecycle!Init
  <1> SUFFICES ASSUME SimulationInit PROVE SimInv /\ SimLifecycle!Init
    OBVIOUS
  <1>1. SimInv
    BY DEF SimulationInit, SimInv, Gone, Statuses, SimExecutors
  <1>2. \A r \in SimRuns, p \in SimPaths : actor[<<r, p>>] = Gone
    BY DEF SimulationInit, SimExecutors
  <1>3. SimLifecycle!Init
    BY <1>2 DEF SimulationInit, SimLifecycle!Init
  <1> QED BY <1>1, <1>3

LEMMA SimSteps ==
  /\ SimOutcome' = SimOutcome /\ SimWorking' = SimWorking /\ abandoned' = abandoned => SimStep
  /\ \A r \in SimRuns :
       /\ /\ SimOutcome[r] = "none" /\ SimOutcome' = [SimOutcome EXCEPT ![r] = "running"]
          /\ SimWorking' = SimWorking \cup {r} /\ abandoned' = abandoned
          => SimStep
       /\ r \in SimWorking =>
            /\ /\ SimOutcome[r] = "running"
               /\ \E o \in {"done", "error"} : SimOutcome' = [SimOutcome EXCEPT ![r] = o]
               /\ SimWorking' \in {SimWorking, SimWorking \ {r}} /\ abandoned' = abandoned
               => SimStep
            /\ /\ SimOutcome[r] \in {"done", "error"} /\ SimOutcome' = SimOutcome
               /\ SimWorking' = SimWorking \ {r} /\ abandoned' \in {abandoned, abandoned \cup {r}}
               => SimStep
            /\ /\ SimOutcome[r] = "running" /\ SimOutcome' = SimOutcome
               /\ SimWorking' = SimWorking \ {r} /\ abandoned' = abandoned \cup {r}
               => SimStep
  BY DEF SimStep, SimOutcome, SimWorking, Busy, SimLifecycle!Next, SimLifecycle!lifecycleVars,
         SimLifecycle!Start, SimLifecycle!Settle, SimLifecycle!Leave, SimLifecycle!Fail, SimLifecycle!Final

(* An executor of a simulation goes on, or goes.                           *)
LEMMA ActorGoes ==
  ASSUME SimInv, NEW x \in SimExecutors, actor[x] # Gone, NEW v, Act(x, v)
  PROVE  /\ x[1] \in SimRuns /\ x[1] \in SimWorking
         /\ v # Gone => SimWorking' = SimWorking
         /\ v = Gone /\ OtherActors(x) # {} => SimWorking' = SimWorking
         /\ v = Gone /\ OtherActors(x) = {} => SimWorking' = SimWorking \ {x[1]}
  <1>1. /\ x \in SimRuns \X SimPaths
        /\ \A y \in SimRuns \X SimPaths : actor'[y] = IF y = x THEN v ELSE actor[y]
        /\ OtherActors(x) = Fellows(actor, SimRuns, SimPaths, Gone, x)
    BY DEF SimInv, SimExecutors, Act, OtherActors, Fellows
  <1>2. PICK a, b : a = actor /\ b = actor'
    OBVIOUS
  <1>3. SimWorking = Busy(a, SimRuns, SimPaths, Gone) /\ SimWorking' = Busy(b, SimRuns, SimPaths, Gone)
    BY <1>2 DEF SimWorking, Busy, Gone
  <1>4. x[1] \in SimRuns
    BY <1>1
  <1> QED BY <1>1, <1>2, <1>3, <1>4, BusyAfter

LEMMA ActorGoesOn ==
  ASSUME SimInv, NEW x \in SimExecutors, actor[x] # Gone, NEW v, Act(x, v),
         "at" \in DOMAIN v, v.at # "gone", SameSimRows, abandoned' = abandoned
  PROVE  SimInv' /\ SimStep
  <1>1. v # Gone
    BY DEF Gone
  <1>2. SimOutcome' = SimOutcome
    BY DEF SameSimRows, SimOutcome
  <1>3. SimWorking' = SimWorking
    BY <1>1, ActorGoes
  <1>4. SimInv'
    BY DEF SimInv, SameSimRows, Act, SimExecutors
  <1> QED BY <1>2, <1>3, <1>4, SimSteps

(* The settlement of the run of x, by x, who goes.                         *)
LEMMA ActorSettles ==
  ASSUME SimInv, NEW x \in SimExecutors, actor[x] # Gone, Act(x, Gone), abandoned' = abandoned,
         NEW status \in {"done", "error"}, NEW turns, NEW v, simRuns' = Settled(x[1], status, turns, v)
  PROVE  SimInv' /\ SimStep
  <1> DEFINE r == x[1]
  <1>1. r \in SimRuns /\ r \in SimWorking
    BY ActorGoes
  <1>2. simRuns[r].status \in {"running", "done", "error"}
    BY <1>1 DEF SimInv, Statuses
  <1>3. SimWorking' \in {SimWorking, SimWorking \ {r}}
    BY ActorGoes
  <1>4. CASE Unsettled(r)
    <2>1. /\ simRuns' = [q \in SimRuns |-> simRuns'[q]]
          /\ DOMAIN simRuns'[r] = {"status", "turns", "verdict"} /\ simRuns'[r].status = status
          /\ \A q \in SimRuns : q # r => simRuns'[q] = simRuns[q]
      BY <1>1, <1>4 DEF SimInv, Settled
    <2>2. SimOutcome[r] = "running" /\ SimOutcome' = [SimOutcome EXCEPT ![r] = status]
      BY <1>1, <1>4, <2>1 DEF SimOutcome, Unsettled
    <2>3. SimInv'
      BY <1>1, <2>1 DEF SimInv, Act, SimExecutors, Statuses
    <2> QED BY <1>1, <1>3, <2>2, <2>3, SimSteps
  <1>5. CASE ~Unsettled(r)
    <2>1. simRuns' = simRuns
      BY <1>5 DEF Settled
    <2>2. SimOutcome' = SimOutcome /\ SimOutcome[r] \in {"done", "error"}
      BY <1>1, <1>2, <1>5, <2>1 DEF SimOutcome, Unsettled
    <2>3. SimInv'
      BY <2>1 DEF SimInv, Act, SimExecutors
    <2> QED BY <1>1, <1>3, <2>2, <2>3, SimSteps
  <1> QED BY <1>4, <1>5

(* An executor dies, or cannot settle: the last of them abandons the run.  *)
LEMMA ActorLeaves ==
  ASSUME SimInv, NEW x \in SimExecutors, actor[x] # Gone, LeaveUnsettled(x), simRuns' = simRuns
  PROVE  SimInv' /\ SimStep
  <1> DEFINE r == x[1]
  <1>0. Act(x, Gone) /\ abandoned' = IF OtherActors(x) = {} THEN abandoned \cup {r} ELSE abandoned
    BY DEF LeaveUnsettled
  <1>1. r \in SimRuns /\ r \in SimWorking
    BY <1>0, ActorGoes
  <1>2. SimOutcome' = SimOutcome /\ SimOutcome[r] \in {"running", "done", "error"}
    BY <1>1 DEF SimOutcome, SimInv, Statuses
  <1>3. SimWorking' = IF OtherActors(x) = {} THEN SimWorking \ {r} ELSE SimWorking
    BY <1>0, ActorGoes
  <1>4. SimInv'
    BY <1>0 DEF SimInv, Act, SimExecutors
  <1>5. SimStep
    <2>1. CASE OtherActors(x) # {}
      BY <2>1, <1>0, <1>2, <1>3, SimSteps
    <2>2. CASE OtherActors(x) = {} /\ SimOutcome[r] = "running"
      BY <2>2, <1>0, <1>1, <1>2, <1>3, SimSteps
    <2>3. CASE OtherActors(x) = {} /\ SimOutcome[r] # "running"
      BY <2>3, <1>0, <1>1, <1>2, <1>3, SimSteps
    <2> QED BY <2>1, <2>2, <2>3
  <1> QED BY <1>4, <1>5

(* What follows an exchange is a step of the loop, an error or the judge.  *)
LEMMA AfterIsStep ==
  \A a, o : "at" \in DOMAIN AfterExchange(a, o) /\ AfterExchange(a, o).at # "gone"
  <1> TAKE a, o
  <1>1. \A n : "at" \in DOMAIN Erring(n) /\ Erring(n).at # "gone"
    BY DEF Erring
  <1>2. \A n : "at" \in DOMAIN Judging(n) /\ Judging(n).at # "gone"
    BY DEF Judging
  <1>3. \A n, s : "at" \in DOMAIN Talking(n, s) /\ Talking(n, s).at # "gone"
    BY DEF Talking
  <1> QED BY <1>1, <1>2, <1>3 DEF AfterExchange

LEMMA SimRefines == SimInv /\ [SimulationNext]_simVars => SimInv' /\ SimStep
  <1> SUFFICES ASSUME SimInv, [SimulationNext]_simVars PROVE SimInv' /\ SimStep
    OBVIOUS
  <1>0. simRuns' = simRuns => SameSimRows
    BY DEF SameSimRows, SimInv
  <1>1. ASSUME simRuns' = simRuns, actor' = actor, abandoned' = abandoned PROVE SimInv' /\ SimStep
    <2>1. SimInv'
      BY <1>1 DEF SimInv
    <2>2. SimOutcome' = SimOutcome /\ SimWorking' = SimWorking
      BY <1>1 DEF SimOutcome, SimWorking, Busy
    <2> QED BY <1>1, <2>1, <2>2, SimSteps
  <1>2. CASE CreateScenario \/ UNCHANGED simVars
    BY <1>1, <1>2 DEF CreateScenario, simVars
  <1>3. ASSUME NEW r \in SimRuns, StartSimulation(r) PROVE SimInv' /\ SimStep
    <2> DEFINE x == <<r, "inline">>
    <2>0. x \in SimExecutors /\ x[1] = r /\ simRuns[r].status = "none"
      BY <1>3 DEF StartSimulation, SimExecutors, SimPaths
    <2>1. actor[x] = Gone
      BY <2>0 DEF SimInv
    <2>2. /\ actor' = [y \in SimExecutors |-> IF y = x THEN [at |-> "dispatch"] ELSE actor[y]]
          /\ simRuns' = [q \in SimRuns |-> IF q = r THEN [simRuns[r] EXCEPT !.status = "running"] ELSE simRuns[q]]
          /\ abandoned' = abandoned
      BY <1>3, <2>0 DEF StartSimulation, Act, SimInv
    <2>3. \A q \in SimRuns : /\ DOMAIN simRuns'[q] = DOMAIN simRuns[q]
                             /\ simRuns'[q].status = IF q = r THEN "running" ELSE simRuns[q].status
      BY <2>2 DEF SimInv
    <2>4. SimInv'
      BY <2>0, <2>2, <2>3 DEF SimInv, Statuses, SimExecutors
    <2>5. SimOutcome[r] = "none" /\ SimOutcome' = [SimOutcome EXCEPT ![r] = "running"]
      BY <2>0, <2>3 DEF SimOutcome
    <2>6. \A q \in SimRuns, p \in SimPaths : actor'[<<q, p>>] # Gone <=> <<q, p>> = x \/ actor[<<q, p>>] # Gone
      BY <2>1, <2>2 DEF SimExecutors, Gone
    <2>7. SimWorking' = SimWorking \cup {r}
      BY <2>6 DEF SimWorking, Busy, SimPaths
    <2> QED BY <2>2, <2>4, <2>5, <2>7, SimSteps
  <1>4. ASSUME NEW r \in SimRuns, DispatchSimulation(r) PROVE SimInv' /\ SimStep
    <2> DEFINE here == <<r, "inline">>  there == <<r, "workflow">>  begin == [at |-> "begin"]
    <2>0. here \in SimExecutors /\ there \in SimExecutors /\ here # there /\ here[1] = r /\ there[1] = r
      BY DEF SimExecutors, SimPaths
    <2>1. actor[here] # Gone
      BY <1>4 DEF DispatchSimulation, Gone
    <2>2. simRuns[r].status # "none"
      BY <2>0, <2>1 DEF SimInv
    <2>3. /\ \/ actor' = [actor EXCEPT ![here] = Gone, ![there] = begin]
             \/ actor' = [actor EXCEPT ![here] = begin]
             \/ actor' = [actor EXCEPT ![here] = begin, ![there] = begin]
          /\ simRuns' = simRuns /\ abandoned' = abandoned
      BY <1>4 DEF DispatchSimulation, Act
    <2>4. /\ actor' = [y \in SimExecutors |-> actor'[y]]
          /\ \A y \in SimExecutors : y \notin {here, there} => actor'[y] = actor[y]
          /\ actor'[here] \in {Gone, begin} /\ actor'[there] \in {actor[there], begin}
          /\ actor'[here] = begin \/ actor'[there] = begin
      BY <2>0, <2>3 DEF SimInv
    <2>5. \A y \in SimExecutors : actor'[y] \in {actor[y], Gone, begin}
                                  /\ (actor'[y] = begin => y[1] = r \/ actor[y] = begin)
      BY <2>0, <2>4
    <2>6. SimInv'
      BY <2>2, <2>3, <2>4, <2>5 DEF SimInv
    <2>7. SimOutcome' = SimOutcome
      BY <2>3 DEF SimOutcome
    <2>8. \A q \in SimRuns : (\E p \in SimPaths : actor'[<<q, p>>] # Gone) <=> \E p \in SimPaths : actor[<<q, p>>] # Gone
      <3> TAKE q \in SimRuns
      <3>1. CASE q = r
        BY <2>0, <2>1, <2>4, <3>1 DEF SimPaths, Gone
      <3>2. CASE q # r
        BY <2>4, <3>2 DEF SimExecutors
      <3> QED BY <3>1, <3>2
    <2>9. SimWorking' = SimWorking
      BY <2>8 DEF SimWorking, Busy
    <2> QED BY <2>3, <2>6, <2>7, <2>9, SimSteps
  <1>5. ASSUME NEW x \in SimExecutors, BeginSimulation(x) \/ Deadline(x) PROVE SimInv' /\ SimStep
    <2>1. actor[x] # Gone /\ simRuns' = simRuns /\ abandoned' = abandoned
      BY <1>5 DEF BeginSimulation, Deadline, Gone
    <2>2. PICK v : Act(x, v) /\ "at" \in DOMAIN v /\ v.at # "gone"
      BY <1>5 DEF BeginSimulation, Deadline, Talking, Erring, Judging
    <2> QED BY <2>1, <2>2, <1>0, ActorGoesOn
  <1>6. ASSUME NEW x \in SimExecutors, ReplayExchange(x) PROVE SimInv' /\ SimStep
    <2>1. actor[x] # Gone /\ simRuns' = simRuns /\ abandoned' = abandoned
      BY <1>6 DEF ReplayExchange, Gone
    <2>2. PICK v : Act(x, v) /\ "at" \in DOMAIN v /\ v.at # "gone"
      BY <1>6, AfterIsStep DEF ReplayExchange
    <2> QED BY <2>1, <2>2, <1>0, ActorGoesOn
  <1>7. ASSUME NEW turn, NEW t, NEW counted, RecordTurn(turn, t, counted) PROVE SameSimRows
    <2>1. \/ simRuns' = simRuns
          \/ simRuns' = [simRuns EXCEPT ![turn[1]].turns = turn[2] + 1]
      BY <1>7 DEF RecordTurn
    <2>2. ASSUME simRuns' = [simRuns EXCEPT ![turn[1]].turns = turn[2] + 1] PROVE SameSimRows
      BY <2>2 DEF SameSimRows, SimInv
    <2> QED BY <2>1, <2>2, <1>0
  <1>8. ASSUME NEW x \in SimExecutors, UserSpeaks(x) PROVE SimInv' /\ SimStep
    <2>1. actor[x] # Gone /\ abandoned' = abandoned
      BY <1>8 DEF UserSpeaks, Gone
    <2>2. SameSimRows
      BY <1>8, <1>7, <1>0 DEF UserSpeaks
    <2>3. PICK v : Act(x, v) /\ "at" \in DOMAIN v /\ v.at # "gone"
      <3>1. \/ \E o : EndExchange(x, o)
            \/ \E t : Act(x, [at |-> "assistant", turns |-> actor[x].turns, said |-> actor[x].said, user |-> t])
        BY <1>8 DEF UserSpeaks
      <3>2. ASSUME NEW o, EndExchange(x, o)
            PROVE  \E v : Act(x, v) /\ "at" \in DOMAIN v /\ v.at # "gone"
        BY <3>2, AfterIsStep DEF EndExchange
      <3>3. ASSUME NEW t, NEW v, Act(x, v),
                   v = [at |-> "assistant", turns |-> actor[x].turns, said |-> actor[x].said, user |-> t]
            PROVE  \E w : Act(x, w) /\ "at" \in DOMAIN w /\ w.at # "gone"
        BY <3>3
      <3> QED BY <3>1, <3>2, <3>3
    <2> QED BY <2>1, <2>2, <2>3, ActorGoesOn
  <1>9. ASSUME NEW x \in SimExecutors, AssistantAnswers(x) PROVE SimInv' /\ SimStep
    <2>1. actor[x] # Gone /\ abandoned' = abandoned
      BY <1>9 DEF AssistantAnswers, Gone
    <2>2. SameSimRows
      BY <1>9, <1>7, <1>0 DEF AssistantAnswers
    <2>3. PICK v : Act(x, v) /\ "at" \in DOMAIN v /\ v.at # "gone"
      BY <1>9, AfterIsStep DEF AssistantAnswers, EndExchange
    <2> QED BY <2>1, <2>2, <2>3, ActorGoesOn
  <1>10. ASSUME NEW x \in SimExecutors, Judge(x) PROVE SimInv' /\ SimStep
    <2>1. actor[x] # Gone /\ simRuns' = simRuns /\ abandoned' = abandoned
      BY <1>10 DEF Judge, Gone
    <2>2. PICK v : Act(x, v) /\ "at" \in DOMAIN v /\ v.at # "gone"
      BY <1>10 DEF Judge, Erring
    <2> QED BY <2>1, <2>2, <1>0, ActorGoesOn
  <1>11. ASSUME NEW x \in SimExecutors, SettleDone(x) PROVE SimInv' /\ SimStep
    <2> DEFINE e == actor[x]
    <2>1. actor[x] # Gone
      BY <1>11 DEF SettleDone, Gone
    <2>2. CASE simRuns' = Settled(x[1], "done", e.turns, e.verdict) /\ Act(x, Gone) /\ abandoned' = abandoned
      BY <2>1, <2>2, ActorSettles
    <2>3. CASE LeaveUnsettled(x) /\ simRuns' = simRuns
      BY <2>1, <2>3, ActorLeaves
    <2> QED BY <1>11, <2>2, <2>3 DEF SettleDone
  <1>12. ASSUME NEW x \in SimExecutors, SettleError(x) PROVE SimInv' /\ SimStep
    <2>1. actor[x] # Gone
      BY <1>12 DEF SettleError, Gone
    <2>2. CASE simRuns' = Settled(x[1], "error", actor[x].turns, Nothing) /\ Act(x, Gone) /\ abandoned' = abandoned
      BY <2>1, <2>2, ActorSettles
    <2>3. CASE LeaveUnsettled(x) /\ simRuns' = simRuns
      BY <2>1, <2>3, ActorLeaves
    <2> QED BY <1>12, <2>2, <2>3 DEF SettleError
  <1>13. ASSUME NEW x \in SimExecutors, CrashSimulation(x) PROVE SimInv' /\ SimStep
    <2>1. actor[x] # Gone /\ simRuns' = simRuns
      BY <1>13 DEF CrashSimulation, Gone
    <2>2. CASE Act(x, [at |-> "begin"]) /\ abandoned' = abandoned
      BY <2>1, <2>2, <1>0, ActorGoesOn
    <2>3. CASE LeaveUnsettled(x)
      BY <2>1, <2>3, ActorLeaves
    <2> QED BY <1>13, <2>2, <2>3 DEF CrashSimulation
  <1> QED
    BY <1>2, <1>3, <1>4, <1>5, <1>6, <1>8, <1>9, <1>10, <1>11, <1>12, <1>13 DEF SimulationNext

(* Evaluations and simulations are settled as RunLifecycle says, once, by  *)
(* one who works on them, and are left running only when the last who did  *)
(* died or could not settle them (executeEvalRun, executeSimulationRun).   *)
THEOREM RunsSettleOnce == WorkSpec => RunsAreSettledOnce
  <1>1. WorkInit => EvalInv /\ SimInv /\ EvalLifecycle!Init /\ SimLifecycle!Init
    BY EvalStart, SimStart DEF WorkInit
  <1>2. EvalInv /\ SimInv /\ [WorkNext]_<<part, workVars>>
          => /\ EvalInv' /\ [EvalLifecycle!Next]_(EvalLifecycle!lifecycleVars)
             /\ SimInv' /\ [SimLifecycle!Next]_(SimLifecycle!lifecycleVars)
    BY EvalsMove, SimulationsMove, EvalRefines, SimRefines DEF EvalStep, SimStep
  <1> QED
    BY <1>1, <1>2, PTL DEF WorkSpec, RunsAreSettledOnce, ImplementsEvalLifecycle, ImplementsSimLifecycle,
                           EvalLifecycle!Spec, SimLifecycle!Spec
-------------------------------------------------------------------------------
(* Alerts                                                                  *)

LEMMA AlertsMove == [WorkNext]_<<part, workVars>> => [AlertsNext]_alertVars
  BY DEF WorkNext, Still, workVars, EvalPart, SimulationPart, PlaygroundPart, PromptPart,
         AnnotationPart, AlertPart, GatewayPart, KeyPart

RuleRow == [active : BOOLEAN, evaluated : Int, fired : Int, state : {"absent", "ok", "breaching"}]
Firing == [window : Int, value : Levels]
(* What a sweep holds; of the rules it has left, the first is its turn.    *)
SweepOK(e) ==
  \/ e = [at |-> "idle"]
  \/ /\ e.at \in {"rule", "commit", "announce"}
     /\ e.now \in 0 .. MaxAlertTime
     /\ DOMAIN e.rows \in SUBSET Rules /\ NextOf(DOMAIN e.rows) \in Rules
     /\ e.at # "rule" => e.firing \in Firing
     /\ e.at = "commit" => e.state \in {"ok", "breaching"}
AlertsTypeOK ==
  /\ alertClock \in 0 .. MaxAlertTime
  /\ level \in [GridPoints -> Levels]
  /\ rule \in [Rules -> RuleRow]
  /\ firings \in [Rules -> SUBSET Firing]
  /\ announced \in [Rules -> SUBSET Firing] /\ unannounced \in [Rules -> SUBSET Firing]
  /\ sweeper = [s \in Sweepers |-> sweeper[s]]
  /\ \A s \in Sweepers : SweepOK(sweeper[s])

(* The sweep e is about to tell the channels of r of the firing f.         *)
Tells(e, r, f) == e.at = "announce" /\ NextOf(DOMAIN e.rows) = r /\ e.firing = f
Evidence(r) ==
  /\ \A f \in firings[r] : f.window <= rule[r].fired
  /\ \A f, g \in firings[r] : f.window = g.window => f = g
  /\ rule[r].fired # Never => \E f \in firings[r] : f.window = rule[r].fired
  /\ \A f : f \in firings[r] <=>
       f \in announced[r] \/ f \in unannounced[r] \/ \E t \in Sweepers : Tells(sweeper[t], r, f)
AlertsInv == AlertsTypeOK /\ \A r \in Rules : Evidence(r)

LEMMA EvidenceSuffices == AlertsInv => FiringsAreEvidence
  <1> SUFFICES ASSUME AlertsInv, NEW r \in Rules
               PROVE  /\ \A f \in firings[r] : f.window <= rule[r].fired /\ SameWindow(r, f) = {f}
                      /\ rule[r].fired # Never => \E f \in firings[r] : f.window = rule[r].fired
                      /\ firings[r] = announced[r] \cup Announcing(r) \cup unannounced[r]
    BY DEF FiringsAreEvidence
  <1>1. Evidence(r)
    BY DEF AlertsInv
  <1>2. \A f \in firings[r] : SameWindow(r, f) = {f}
    BY <1>1 DEF Evidence, SameWindow
  <1>3. \A f : f \in Announcing(r) <=> \E t \in Sweepers : Tells(sweeper[t], r, f)
    BY DEF Announcing, Tells, This
  <1>4. firings[r] = announced[r] \cup Announcing(r) \cup unannounced[r]
    BY <1>1, <1>3 DEF Evidence
  <1> QED BY <1>1, <1>2, <1>4 DEF Evidence

(* A sweep with rules left has a first one.                                *)
LEMMA NextIsOne == \A S \in SUBSET Rules : S # {} => NextOf(S) \in S
  <1> SUFFICES ASSUME NEW S \in SUBSET Rules, S # {} PROVE NextOf(S) \in S
    OBVIOUS
  <1>1a. IsFiniteSet(Rules) /\ Rules \subseteq Nat
    BY AlertsAssumption
  <1>1b. IsFiniteSet(S)
    BY <1>1a, FS_Subset
  <1>1. IsFiniteSet(S) /\ S \subseteq Int
    BY <1>1a, <1>1b
  <1>2. \E r \in S : \A q \in S : r <= q
    BY <1>1, LeastExists
  <1> QED BY <1>2 DEF NextOf

LEMMA SweepingOK ==
  \A now \in 0 .. MaxAlertTime : \A rows :
    DOMAIN rows \in SUBSET Rules => /\ SweepOK(Sweeping(now, rows))
                                    /\ \A r, f : ~Tells(Sweeping(now, rows), r, f)
  <1> TAKE now \in 0 .. MaxAlertTime
  <1> TAKE rows
  <1> HAVE DOMAIN rows \in SUBSET Rules
  <1>1. CASE DOMAIN rows = {}
    BY <1>1 DEF Sweeping, SweepOK, Tells
  <1>2. CASE DOMAIN rows # {}
    <2>1. Sweeping(now, rows) = [at |-> "rule", now |-> now, rows |-> rows]
      BY <1>2 DEF Sweeping
    <2>2. NextOf(DOMAIN rows) \in Rules
      BY <1>2, NextIsOne
    <2> QED BY <2>1, <2>2 DEF SweepOK, Tells
  <1> QED BY <1>1, <1>2

LEMMA AlertsStart == AlertsInit => AlertsInv
  BY AlertsAssumption DEF AlertsInit, AlertsInv, AlertsTypeOK, RuleRow, NoRule, Never, SweepOK, Evidence, Tells

LEMMA GridEnds == \A n \in 0 .. MaxAlertTime : GridEnd(n) \in GridPoints /\ GridEnd(n) \in Int
  <1>1. \A n \in Nat : (n \div 2) * 2 \in Nat /\ (n \div 2) * 2 <= n /\ (((n \div 2) * 2) \div 2) * 2 = (n \div 2) * 2
    OBVIOUS
  <1> QED BY <1>1, AlertsAssumption DEF GridEnd, GridPoints, Window

(* Only the sweep s moves, to e, and tells what the change of the tables   *)
(* accounts for.                                                           *)
LEMMA AlertsKept ==
  ASSUME AlertsInv, NEW s \in Sweepers, NEW e, sweeper' = [sweeper EXCEPT ![s] = e], SweepOK(e),
         alertClock' = alertClock, level' = level,
         rule' \in [Rules -> RuleRow], firings' = firings,
         announced' \in [Rules -> SUBSET Firing], unannounced' \in [Rules -> SUBSET Firing],
         \A r \in Rules : rule'[r].fired = rule[r].fired,
         \A r \in Rules : \A f :
           \/ Tells(e, r, f) \/ f \in announced'[r] \/ f \in unannounced'[r]
           <=> Tells(sweeper[s], r, f) \/ f \in announced[r] \/ f \in unannounced[r]
  PROVE  AlertsInv'
  <1>1. AlertsTypeOK'
    BY DEF AlertsInv, AlertsTypeOK
  <1>2. \A t \in Sweepers : sweeper'[t] = IF t = s THEN e ELSE sweeper[t]
    BY DEF AlertsInv, AlertsTypeOK
  <1>3. ASSUME NEW r \in Rules PROVE Evidence(r)'
    <2>1. Evidence(r)
      BY DEF AlertsInv
    <2>2. ASSUME NEW f
          PROVE  f \in firings[r] <=> \/ f \in announced'[r] \/ f \in unannounced'[r]
                                      \/ \E t \in Sweepers : Tells(sweeper'[t], r, f)
      <3>1. (\E t \in Sweepers : Tells(sweeper'[t], r, f))
              <=> Tells(e, r, f) \/ \E t \in Sweepers \ {s} : Tells(sweeper[t], r, f)
        BY <1>2
      <3>2. (\E t \in Sweepers : Tells(sweeper[t], r, f))
              <=> Tells(sweeper[s], r, f) \/ \E t \in Sweepers \ {s} : Tells(sweeper[t], r, f)
        OBVIOUS
      <3> QED BY <2>1, <3>1, <3>2 DEF Evidence
    <2> QED BY <2>1, <2>2 DEF Evidence, Tells
  <1> QED BY <1>1, <1>3 DEF AlertsInv

(* A sweep is done with a rule.                                            *)
LEMMA NextRuleMoves ==
  ASSUME AlertsInv, NEW s \in Sweepers, sweeper[s].at # "idle", NextRule(s)
  PROVE  \E e : /\ sweeper' = [sweeper EXCEPT ![s] = e] /\ SweepOK(e)
                /\ \A r, f : ~Tells(e, r, f)
  <1> DEFINE rows == [r \in DOMAIN sweeper[s].rows \ {This(s)} |-> sweeper[s].rows[r]]
             e == Sweeping(sweeper[s].now, rows)
  <1>1. sweeper[s].now \in 0 .. MaxAlertTime /\ DOMAIN sweeper[s].rows \in SUBSET Rules
    BY DEF AlertsInv, AlertsTypeOK, SweepOK
  <1>2. DOMAIN rows \in SUBSET Rules
    BY <1>1
  <1>3. SweepOK(e) /\ \A r, f : ~Tells(e, r, f)
    <2> HIDE DEF rows
    <2> QED BY <1>1, <1>2, SweepingOK
  <1>4. sweeper' = [sweeper EXCEPT ![s] = e]
    BY DEF NextRule, SweeperGoto
  <1> QED BY <1>3, <1>4

LEMMA AlertsStep == AlertsInv /\ [AlertsNext]_alertVars => AlertsInv'
  <1> SUFFICES ASSUME AlertsInv, [AlertsNext]_alertVars PROVE AlertsInv'
    OBVIOUS
  <1> USE DEF AlertsInv, AlertsTypeOK
  <1>0. AlertsTypeOK /\ \A r \in Rules : Evidence(r)
    OBVIOUS
  <1>0a. /\ rule \in [Rules -> RuleRow] /\ announced \in [Rules -> SUBSET Firing]
         /\ unannounced \in [Rules -> SUBSET Firing]
    OBVIOUS
  <1>1. CASE UNCHANGED alertVars
    BY <1>1 DEF alertVars, Evidence, Tells
  <1>2. CASE AlertTick
    BY <1>0, <1>2, AlertsAssumption DEF AlertTick, Evidence, Tells
  <1>3. CASE SpansArriveLate
    <2>1. level' \in [GridPoints -> Levels]
      BY <1>3 DEF SpansArriveLate
    <2> QED BY <1>0, <1>3, <2>1 DEF SpansArriveLate, Evidence, Tells
  <1>4. ASSUME NEW q \in Rules, CreateRule(q) \/ DisableRule(q) PROVE AlertsInv'
    <2>0. rule \in [Rules -> RuleRow] /\ rule[q] \in RuleRow
      BY <1>0
    <2>2. PICK row \in RuleRow : rule' = [rule EXCEPT ![q] = row] /\ row.fired = rule[q].fired
      <3>1. CASE CreateRule(q)
        <4> DEFINE row == [NoRule EXCEPT !.active = TRUE, !.state = "ok"]
        <4>0. NoRule \in RuleRow /\ NoRule = rule[q]
          BY <3>1 DEF CreateRule, RuleRow, NoRule, Never
        <4>1. row \in RuleRow /\ row.fired = rule[q].fired
          BY <4>0 DEF RuleRow
        <4>4. rule' = [rule EXCEPT ![q] = row]
          BY <3>1 DEF CreateRule
        <4> QED BY <4>1, <4>4
      <3>2. CASE DisableRule(q)
        <4> DEFINE row == [rule[q] EXCEPT !.active = FALSE]
        <4>1. row \in RuleRow /\ row.fired = rule[q].fired
          BY <2>0 DEF RuleRow
        <4>2. rule' = [rule EXCEPT ![q] = row]
          BY <3>2 DEF DisableRule
        <4> QED BY <4>1, <4>2
      <3> QED BY <1>4, <3>1, <3>2
    <2>1. rule' \in [Rules -> RuleRow] /\ \A r \in Rules : rule'[r].fired = rule[r].fired
      BY <2>0, <2>2
    <2> QED BY <1>0, <1>4, <2>1 DEF CreateRule, DisableRule, Evidence, Tells
  <1>5. ASSUME NEW s \in Sweepers, StartSweep(s) PROVE AlertsInv'
    <2> DEFINE rows == [r \in DueRules |-> rule[r]]
               e == Sweeping(alertClock, rows)
    <2>1. DOMAIN rows \in SUBSET Rules
      BY DEF DueRules
    <2>2. SweepOK(e) /\ \A r, f : ~Tells(e, r, f)
      <3> HIDE DEF rows
      <3> QED BY <2>1, SweepingOK
    <2>3. sweeper' = [sweeper EXCEPT ![s] = e] /\ UNCHANGED <<alertClock, level, rule, firings, announced, unannounced>>
      BY <1>5 DEF StartSweep, SweeperGoto
    <2>4. \A r, f : ~Tells(sweeper[s], r, f)
      BY <1>5 DEF StartSweep, Tells
    <2> HIDE DEF e, AlertsInv
    <2> QED BY <1>0, <1>0a, <2>2, <2>3, <2>4, AlertsKept
  <1>6. ASSUME NEW s \in Sweepers, MeasureRule(s) PROVE AlertsInv'
    <2> DEFINE w == GridEnd(sweeper[s].now)
               breaching == level[w] \in Breaching
               e == [at |-> "commit", now |-> sweeper[s].now, rows |-> sweeper[s].rows,
                     firing |-> [window |-> w, value |-> level[w]],
                     fires |-> Fires(sweeper[s].rows[This(s)], w, breaching),
                     state |-> IF breaching THEN "breaching" ELSE "ok"]
    <2>1. SweepOK(sweeper[s]) /\ sweeper[s].at = "rule"
      BY <1>6 DEF MeasureRule
    <2>2. w \in GridPoints /\ w \in Int
      BY <2>1, GridEnds DEF SweepOK
    <2>3. [window |-> w, value |-> level[w]] \in Firing
      BY <2>2 DEF Firing
    <2>4. SweepOK(e) /\ \A r, f : ~Tells(e, r, f)
      BY <2>1, <2>3 DEF SweepOK, Tells
    <2>5. sweeper' = [sweeper EXCEPT ![s] = e] /\ UNCHANGED <<alertClock, level, rule, firings, announced, unannounced>>
      BY <1>6 DEF MeasureRule, SweeperGoto
    <2>6. \A r, f : ~Tells(sweeper[s], r, f)
      BY <2>1 DEF Tells
    <2> HIDE DEF e, AlertsInv, AlertsTypeOK
    <2> QED BY <1>0, <1>0a, <2>4, <2>5, <2>6, AlertsKept
  <1>7. ASSUME NEW s \in Sweepers, CommitEvaluation(s), RecordEvaluation(s, This(s)) PROVE AlertsInv'
    <2>1. SweepOK(sweeper[s]) /\ sweeper[s].at = "commit"
      BY <1>7 DEF CommitEvaluation
    <2>2. This(s) \in Rules
      BY <2>1 DEF SweepOK, This
    <2>3. rule' \in [Rules -> RuleRow] /\ \A r \in Rules : rule'[r].fired = rule[r].fired
      <3> DEFINE row == [rule[This(s)] EXCEPT !.evaluated = sweeper[s].now, !.state = sweeper[s].state]
      <3>1. rule \in [Rules -> RuleRow] /\ rule[This(s)] \in RuleRow
        BY <1>0, <2>2
      <3>2. sweeper[s].now \in Int /\ sweeper[s].state \in {"ok", "breaching"}
        BY <2>1, AlertsAssumption DEF SweepOK
      <3>3. row \in RuleRow /\ row.fired = rule[This(s)].fired
        BY <3>1, <3>2 DEF RuleRow
      <3>4. rule' = [rule EXCEPT ![This(s)] = row]
        BY <1>7 DEF RecordEvaluation
      <3> HIDE DEF row
      <3> QED BY <3>1, <3>3, <3>4
    <2>4. PICK e : sweeper' = [sweeper EXCEPT ![s] = e] /\ SweepOK(e) /\ \A r, f : ~Tells(e, r, f)
      BY <1>7, <2>1, NextRuleMoves DEF RecordEvaluation
    <2>5. UNCHANGED <<alertClock, level, firings, announced, unannounced>>
      BY <1>7 DEF CommitEvaluation, RecordEvaluation
    <2>6. \A r, f : ~Tells(sweeper[s], r, f)
      BY <2>1 DEF Tells
    <2> HIDE DEF AlertsInv, AlertsTypeOK
    <2> QED BY <1>0, <1>0a, <2>3, <2>4, <2>5, <2>6, AlertsKept
  <1>8. ASSUME NEW s \in Sweepers, CommitEvaluation(s), EvaluationFails(s, This(s)) PROVE AlertsInv'
    <2>1. SweepOK(sweeper[s]) /\ sweeper[s].at = "commit"
      BY <1>8 DEF CommitEvaluation
    <2>4. PICK e : sweeper' = [sweeper EXCEPT ![s] = e] /\ SweepOK(e) /\ \A r, f : ~Tells(e, r, f)
      BY <1>8, <2>1, NextRuleMoves DEF EvaluationFails
    <2>5. UNCHANGED <<alertClock, level, rule, firings, announced, unannounced>>
      BY <1>8 DEF CommitEvaluation, EvaluationFails
    <2>6. \A r, f : ~Tells(sweeper[s], r, f)
      BY <2>1 DEF Tells
    <2> HIDE DEF AlertsInv
    <2> QED BY <1>0, <2>4, <2>5, <2>6, AlertsKept
  <1>9. ASSUME NEW s \in Sweepers, CommitEvaluation(s), RecordFire(s, This(s)) PROVE AlertsInv'
    <2> DEFINE q == This(s)
               f0 == sweeper[s].firing
               e == [at |-> "announce", now |-> sweeper[s].now, rows |-> sweeper[s].rows, firing |-> f0]
    <2>1. SweepOK(sweeper[s]) /\ sweeper[s].at = "commit"
      BY <1>9 DEF CommitEvaluation
    <2>2. q \in Rules /\ f0 \in Firing /\ sweeper[s].now \in Int
      BY <2>1, AlertsAssumption DEF SweepOK, This
    <2>3. f0.window \in Int /\ f0.window >= rule[q].fired /\ rule[q].fired \in Int
      BY <1>0, <1>9, <2>2 DEF RecordFire, Regresses, Firing, RuleRow
    <2>4. \A f \in firings[q] : f.window = f0.window => f.value = f0.value
      BY <1>9 DEF RecordFire, PayloadConflicts, SameWindow
    <2>4a. \A f \in firings[q] : f.window = f0.window => f = f0
      BY <1>0, <2>2, <2>4 DEF Firing
    <2>5. \A r \in Rules : firings'[r] = IF r = q THEN firings[q] \cup {f0} ELSE firings[r]
      BY <1>0, <1>9, <2>2 DEF RecordFire
    <2>6. rule' \in [Rules -> RuleRow] /\ \A r \in Rules : rule'[r].fired = IF r = q THEN f0.window ELSE rule[r].fired
      BY <1>0, <1>9, <2>2, <2>3, ZenonT(60) DEF RecordFire, RuleRow
    <2>7. \A t \in Sweepers : sweeper'[t] = IF t = s THEN e ELSE sweeper[t]
      BY <1>0, <1>9 DEF RecordFire, SweeperGoto
    <2>8. SweepOK(e) /\ \A r, f : Tells(e, r, f) <=> r = q /\ f = f0
      BY <2>1, <2>2 DEF SweepOK, Tells, This
    <2>9. UNCHANGED <<alertClock, level, announced, unannounced>>
      BY <1>9 DEF CommitEvaluation, RecordFire
    <2>10. \A r, f : ~Tells(sweeper[s], r, f)
      BY <2>1 DEF Tells
    <2>11. AlertsTypeOK'
      <3>1. firings' \in [Rules -> SUBSET Firing]
        BY <1>0, <1>9, <2>2 DEF RecordFire
      <3>2. sweeper' = [t \in Sweepers |-> sweeper'[t]]
        BY <1>0, <1>9 DEF RecordFire, SweeperGoto
      <3>3. \A t \in Sweepers : SweepOK(sweeper'[t])
        BY <1>0, <2>7, <2>8
      <3> QED BY <1>0, <2>6, <2>9, <3>1, <3>2, <3>3 DEF SweepOK
    <2> HIDE DEF AlertsInv, AlertsTypeOK, e
    <2>12. ASSUME NEW r \in Rules PROVE Evidence(r)'
      <3>1. Evidence(r)
        BY <1>0
      <3>2. \A f : (\E t \in Sweepers : Tells(sweeper'[t], r, f))
                     <=> (r = q /\ f = f0) \/ \E t \in Sweepers : Tells(sweeper[t], r, f)
        BY <2>7, <2>8, <2>10
      <3>3. \A f : f \in firings'[r] <=> f \in firings[r] \/ (r = q /\ f = f0)
        BY <2>5
      <3>4. \A f : f \in firings'[r] <=> f \in announced'[r] \/ f \in unannounced'[r]
                                         \/ \E t \in Sweepers : Tells(sweeper'[t], r, f)
        BY <3>1, <3>2, <3>3, <2>9 DEF Evidence
      <3>5. CASE r # q
        <4>1. firings'[r] = firings[r] /\ rule'[r].fired = rule[r].fired
          BY <2>5, <2>6, <3>5
        <4> QED BY <3>1, <3>4, <4>1 DEF Evidence, Tells
      <3>6. CASE r = q
        <4>1. rule'[r].fired = f0.window /\ f0 \in firings'[r]
          BY <2>6, <3>3, <3>6
        <4>2. \A f \in firings[r] : f.window \in Int /\ f.window <= f0.window
          <5> TAKE f \in firings[r]
          <5>1. f \in Firing
            BY <1>0 DEF AlertsTypeOK
          <5>2. f.window \in Int
            BY <5>1 DEF Firing
          <5> QED BY <3>1, <5>2, <2>3, <3>6 DEF Evidence
        <4>3. \A f \in firings'[r] : f.window <= rule'[r].fired
          BY <3>3, <4>1, <4>2, <2>3
        <4>4. \A f, g \in firings'[r] : f.window = g.window => f = g
          BY <3>1, <3>3, <3>6, <2>4a DEF Evidence
        <4>5. \E f \in firings'[r] : f.window = rule'[r].fired
          BY <4>1
        <4> QED BY <3>4, <4>3, <4>4, <4>5 DEF Evidence, Tells
      <3> QED BY <3>5, <3>6
    <2> QED BY <2>11, <2>12 DEF AlertsInv
  <1>10. ASSUME NEW s \in Sweepers, Announce(s) PROVE AlertsInv'
    <2>1. SweepOK(sweeper[s]) /\ sweeper[s].at = "announce"
      BY <1>10 DEF Announce
    <2>2. This(s) \in Rules /\ sweeper[s].firing \in Firing
      BY <2>1 DEF SweepOK, This
    <2>4. PICK e : sweeper' = [sweeper EXCEPT ![s] = e] /\ SweepOK(e) /\ \A r, f : ~Tells(e, r, f)
      BY <1>10, <2>1, NextRuleMoves DEF Announce
    <2>5. UNCHANGED <<alertClock, level, rule, firings>>
      BY <1>10 DEF Announce
    <2>6. \A r, f : Tells(sweeper[s], r, f) <=> r = This(s) /\ f = sweeper[s].firing
      BY <2>1 DEF Tells, This
    <2>7. /\ announced' \in [Rules -> SUBSET Firing] /\ unannounced' \in [Rules -> SUBSET Firing]
          /\ \A r \in Rules : \A f :
               f \in announced'[r] \/ f \in unannounced'[r]
                 <=> (r = This(s) /\ f = sweeper[s].firing) \/ f \in announced[r] \/ f \in unannounced[r]
      <3>1. CASE announced' = [announced EXCEPT ![This(s)] = @ \cup {sweeper[s].firing}] /\ UNCHANGED unannounced
        BY <1>0, <2>2, <3>1
      <3>2. CASE unannounced' = [unannounced EXCEPT ![This(s)] = @ \cup {sweeper[s].firing}] /\ UNCHANGED announced
        BY <1>0, <2>2, <3>2
      <3> QED BY <1>10, <3>1, <3>2 DEF Announce
    <2> HIDE DEF AlertsInv
    <2> QED BY <1>0, <2>4, <2>5, <2>6, <2>7, AlertsKept
  <1>11. ASSUME NEW s \in Sweepers, SweeperDies(s) PROVE AlertsInv'
    <2> DEFINE e == [at |-> "idle"]
    <2>1. SweepOK(sweeper[s])
      OBVIOUS
    <2>2. SweepOK(e) /\ \A r, f : ~Tells(e, r, f)
      BY DEF SweepOK, Tells
    <2>3. sweeper' = [sweeper EXCEPT ![s] = e] /\ UNCHANGED <<alertClock, level, rule, firings, announced>>
      BY <1>11 DEF SweeperDies, SweeperGoto
    <2>4. /\ unannounced' \in [Rules -> SUBSET Firing]
          /\ \A r \in Rules : \A f :
               f \in unannounced'[r] <=> Tells(sweeper[s], r, f) \/ f \in unannounced[r]
      <3>1. CASE sweeper[s].at = "announce"
        <4>1. This(s) \in Rules /\ sweeper[s].firing \in Firing
          BY <2>1, <3>1 DEF SweepOK, This
        <4>2. \A r, f : Tells(sweeper[s], r, f) <=> r = This(s) /\ f = sweeper[s].firing
          BY <3>1 DEF Tells, This
        <4> QED BY <1>0, <1>11, <3>1, <4>1, <4>2 DEF SweeperDies
      <3>2. CASE sweeper[s].at # "announce"
        BY <1>0, <1>11, <3>2 DEF SweeperDies, Tells
      <3> QED BY <3>1, <3>2
    <2> HIDE DEF AlertsInv, e
    <2> QED BY <1>0, <2>2, <2>3, <2>4, AlertsKept
  <1>12. ASSUME NEW s \in Sweepers, CommitEvaluation(s) PROVE AlertsInv'
    BY <1>7, <1>8, <1>9, <1>12 DEF CommitEvaluation
  <1> HIDE DEF AlertsInv, AlertsTypeOK
  <1> QED BY <1>1, <1>2, <1>3, <1>4, <1>5, <1>6, <1>10, <1>11, <1>12 DEF AlertsNext

(* However sweeps overlap and die (the sweep of alertsScheduled in         *)
(* platform/src/alerts.ts): a rule remembers exactly the last firing the   *)
(* event log holds of it, no window is in the log twice, and what the      *)
(* channels were told is what the log says.                                *)
THEOREM FiringsAreTold == WorkSpec => []FiringsAreEvidence
<1>1. WorkInit => AlertsInv
  BY AlertsStart DEF WorkInit
<1>2. AlertsInv /\ [WorkNext]_<<part, workVars>> => AlertsInv'
  BY AlertsMove, AlertsStep
<1> QED BY <1>1, <1>2, EvidenceSuffices, PTL DEF WorkSpec
-------------------------------------------------------------------------------
(* The gateway                                                             *)

LEMMA GatewayMoves == [WorkNext]_<<part, workVars>> => [GatewayNext]_gatewayVars
  BY DEF WorkNext, Still, workVars, EvalPart, SimulationPart, PlaygroundPart, PromptPart,
         AnnotationPart, AlertPart, GatewayPart, KeyPart

KeyRow == [made : BOOLEAN, disabled : BOOLEAN, spent : Nat]
(* A copy of the row of the key says nothing that the row does not.        *)
Sound(record, key) ==
  record \in KeyRow /\ record.spent <= key.spent /\ (record.disabled => key.disabled)
Passes(old, key) == old.spent <= key.spent /\ (old.disabled => key.disabled)
CallerOK(e, key) ==
  \/ e = Resting
  \/ /\ e.at \in {"miss", "gate", "backfill", "count", "call", "capture", "committed", "mirror", "put"}
     /\ e.at # "miss" => Sound(e.record, key)
     /\ e.at = "capture" => e.cost \in Nat
BooksOK ==
  /\ gwKey \in KeyRow
  /\ IsFiniteSet(DOMAIN ledger) /\ \A i \in DOMAIN ledger : ledger[i].cost \in Nat
  /\ DOMAIN captured = DOMAIN ledger /\ \A i \in DOMAIN ledger : captured[i] = ledger[i].call
  /\ gwKey.spent = SumFunction([i \in DOMAIN ledger |-> ledger[i].cost])
CopiesOK == /\ edge = NoEntry \/ Sound(edge.row, gwKey)
            /\ operator = Nobody \/ Sound(operator, gwKey)
(* The call n is under way; it has been accounted for.                     *)
Flies(e, n) == e.at \in {"call", "capture"} /\ e.call = n
Accounted(n) == (\E i \in DOMAIN ledger : ledger[i].call = n) \/ n \in uncharged \/ n \in shadowed
GatewayInv ==
  /\ BooksOK /\ CopiesOK /\ calls \in Nat
  /\ caller = [c \in Callers |-> caller[c]]
  /\ \A c \in Callers : CallerOK(caller[c], gwKey)
  /\ \A n : n \in 1 .. calls <=> Accounted(n) \/ \E c \in Callers : Flies(caller[c], n)

LEMMA SpendSuffices == GatewayInv => SpendIsTheLedger
  <1> SUFFICES ASSUME GatewayInv PROVE SpendIsTheLedger
    OBVIOUS
  <1>1. BooksOK /\ CopiesOK
    BY DEF GatewayInv
  <1>2. \A n : n \in Booked \cup InFlight \cup uncharged \cup shadowed
                 <=> Accounted(n) \/ \E c \in Callers : Flies(caller[c], n)
    BY DEF Booked, InFlight, Accounted, Flies
  <1>3. 1 .. calls = Booked \cup InFlight \cup uncharged \cup shadowed
    BY <1>2 DEF GatewayInv
  <1> QED BY <1>1, <1>3 DEF SpendIsTheLedger, BooksOK, CopiesOK, Sound

LEMMA GatewayStart == GatewayInit => GatewayInv
  <1> SUFFICES ASSUME GatewayInit PROVE GatewayInv
    OBVIOUS
  <1>1. DOMAIN ledger = {} /\ DOMAIN captured = {}
    BY DEF GatewayInit
  <1>2. SumFunction([i \in DOMAIN ledger |-> ledger[i].cost]) = 0
    BY <1>1, SumOfNone DEF SumFunction
  <1>3. BooksOK
    BY <1>1, <1>2, FS_EmptySet DEF GatewayInit, BooksOK, KeyRow
  <1>4. CopiesOK
    BY DEF GatewayInit, CopiesOK
  <1>5. \A n : ~Accounted(n) /\ n \notin 1 .. calls
    BY <1>1 DEF GatewayInit, Accounted
  <1>6. \A c \in Callers : CallerOK(caller[c], gwKey) /\ \A n : ~Flies(caller[c], n)
    BY DEF GatewayInit, CallerOK, Resting, Flies
  <1> QED BY <1>3, <1>4, <1>5, <1>6 DEF GatewayInit, GatewayInv

(* The call of c goes on to v, and what becomes of it is accounted for.    *)
LEMMA CallerKept ==
  ASSUME GatewayInv, NEW c \in Callers, NEW v, CallerGoto(c, v), CallerOK(v, gwKey'),
         BooksOK', CopiesOK', Passes(gwKey, gwKey'), calls' = calls,
         \A n : Accounted(n)' \/ Flies(v, n) <=> Accounted(n) \/ Flies(caller[c], n)
  PROVE  GatewayInv'
  <1>1. caller' = [d \in Callers |-> IF d = c THEN v ELSE caller[d]]
    BY DEF GatewayInv, CallerGoto
  <1>2. \A d \in Callers : CallerOK(caller[d], gwKey) => CallerOK(caller[d], gwKey')
    BY DEF CallerOK, Sound, Passes, BooksOK, KeyRow, GatewayInv
  <1>3. \A d \in Callers : CallerOK(caller'[d], gwKey')
    BY <1>1, <1>2 DEF GatewayInv
  <1>4. ASSUME NEW n
        PROVE  n \in 1 .. calls <=> Accounted(n)' \/ \E d \in Callers : Flies(caller'[d], n)
    <2>1. (\E d \in Callers : Flies(caller'[d], n)) <=> Flies(v, n) \/ \E d \in Callers \ {c} : Flies(caller[d], n)
      BY <1>1
    <2>2. (\E d \in Callers : Flies(caller[d], n)) <=> Flies(caller[c], n) \/ \E d \in Callers \ {c} : Flies(caller[d], n)
      OBVIOUS
    <2>3. n \in 1 .. calls <=> Accounted(n) \/ \E d \in Callers : Flies(caller[d], n)
      BY DEF GatewayInv
    <2> QED BY <2>1, <2>2, <2>3
  <1> QED BY <1>1, <1>3, <1>4 DEF GatewayInv, Flies

(* ... and nothing of the books changes.                                   *)
LEMMA CallerGoesOn ==
  ASSUME GatewayInv, NEW c \in Callers, NEW v, CallerGoto(c, v), CallerOK(v, gwKey),
         UNCHANGED <<books, fates, calls>>, CopiesOK',
         \A n : Flies(v, n) <=> Flies(caller[c], n)
  PROVE  GatewayInv'
  <1>1. gwKey' = gwKey /\ ledger' = ledger /\ captured' = captured /\ uncharged' = uncharged /\ shadowed' = shadowed
    BY DEF books, fates
  <1>2. BooksOK' /\ Passes(gwKey, gwKey')
    BY <1>1 DEF GatewayInv, BooksOK, Passes, KeyRow
  <1>3. \A n : Accounted(n)' <=> Accounted(n)
    BY <1>1 DEF Accounted
  <1> QED BY <1>1, <1>2, <1>3, CallerKept

LEMMA PutsAreSound ==
  ASSUME GatewayInv, NEW record, Sound(record, gwKey), KvPut(record), gwKey' = gwKey, operator' \in {operator, Nobody}
  PROVE  CopiesOK'
  <1>1. CASE edge' = [row |-> record, until |-> gwNow + EdgeTTL]
    BY <1>1 DEF GatewayInv, CopiesOK
  <1>2. CASE edge' = edge
    BY <1>2 DEF GatewayInv, CopiesOK
  <1> QED BY <1>1, <1>2 DEF KvPut

(* A charge and its row in the ledger go together.                         *)
LEMMA ChargesAreBooked ==
  ASSUME GatewayInv, NEW id, NEW n, NEW cost \in Nat,
         gwKey' = [gwKey EXCEPT !.spent = @ + Charge(id, cost)],
         ledger' = With1(ledger, id, [call |-> n, cost |-> cost]),
         captured' = With1(captured, id, n)
  PROVE  /\ BooksOK' /\ Passes(gwKey, gwKey')
         /\ \A m : (\E i \in DOMAIN ledger' : ledger'[i].call = m)
                     <=> (\E i \in DOMAIN ledger : ledger[i].call = m) \/ (id \notin DOMAIN ledger /\ m = n)
  <1> DEFINE D == DOMAIN ledger
             f == [i \in D |-> ledger[i].cost]
             g == [i \in D \cup {id} |-> ledger'[i].cost]
             row == [call |-> n, cost |-> cost]
  <1>0. BooksOK
    BY DEF GatewayInv
  <1>1. /\ DOMAIN ledger' = D \cup {id} /\ DOMAIN captured' = D \cup {id}
        /\ \A i \in D \cup {id} : ledger'[i] = IF i \in D THEN ledger[i] ELSE row
        /\ \A i \in D \cup {id} : captured'[i] = IF i \in D THEN captured[i] ELSE n
    BY <1>0 DEF With1, BooksOK
  <1>2. IsFiniteSet(D \cup {id})
    BY <1>0, FS_AddElement DEF BooksOK
  <1>3. \A i \in D \cup {id} : ledger'[i].cost \in Nat /\ captured'[i] = ledger'[i].call
    BY <1>0, <1>1 DEF BooksOK
  <1>4. SumFunctionOnSet(g, D \cup {id}) = SumFunctionOnSet(f, D) + Charge(id, cost)
    <2>0. IsFiniteSet(D) /\ \A i \in D : f[i] = g[i]
      BY <1>0, <1>1 DEF BooksOK
    <2>0a. DOMAIN f = D
      OBVIOUS
    <2>1. SumFunctionOnSet(f, D) = SumFunctionOnSet(g, D)
      <3> HIDE DEF D, f, g
      <3> QED BY <2>0, SumOfSame
    <2>2. CASE id \in D
      <3>1. D \cup {id} = D /\ Charge(id, cost) = 0
        BY <2>2 DEF Charge
      <3>2. SumFunctionOnSet(f, D) \in Nat
        BY <1>0 DEF BooksOK, KeyRow, SumFunction
      <3> HIDE DEF D, f, g
      <3> QED BY <2>1, <3>1, <3>2
    <2>3. CASE id \notin D
      <3>1. \A i \in D \cup {id} : g[i] \in Nat
        BY <1>3
      <3>2. g[id] = cost /\ Charge(id, cost) = cost
        BY <1>1, <2>3 DEF Charge
      <3> HIDE DEF D, f, g
      <3>3. SumFunctionOnSet(g, D \cup {id}) = SumFunctionOnSet(g, D) + g[id]
        BY <2>0, <2>3, <3>1, SumOfOneMore
      <3> QED BY <2>1, <3>2, <3>3
    <2> QED BY <2>2, <2>3
  <1>5. Charge(id, cost) \in Nat
    BY DEF Charge
  <1>6. /\ gwKey' \in KeyRow /\ gwKey'.spent = gwKey.spent + Charge(id, cost)
        /\ gwKey'.disabled = gwKey.disabled /\ gwKey.spent \in Nat
    BY <1>0, <1>5 DEF BooksOK, KeyRow
  <1>7. gwKey'.spent = SumFunction([i \in DOMAIN ledger' |-> ledger'[i].cost])
    <2>1. [i \in DOMAIN ledger' |-> ledger'[i].cost] = g
      BY <1>1
    <2>2. DOMAIN g = D \cup {id} /\ DOMAIN f = D
      OBVIOUS
    <2>3. gwKey.spent = SumFunctionOnSet(f, D)
      BY <1>0 DEF BooksOK, SumFunction
    <2> HIDE DEF g, f, D
    <2> QED BY <1>4, <1>6, <2>1, <2>2, <2>3 DEF SumFunction
  <1>8. BooksOK'
    BY <1>1, <1>2, <1>3, <1>6, <1>7 DEF BooksOK
  <1>9. Passes(gwKey, gwKey')
    BY <1>5, <1>6 DEF Passes
  <1> QED BY <1>1, <1>8, <1>9

LEMMA GatewayStep == GatewayInv /\ [GatewayNext]_gatewayVars => GatewayInv'
  <1> SUFFICES ASSUME GatewayInv, [GatewayNext]_gatewayVars PROVE GatewayInv'
    OBVIOUS
  <1>0. /\ gwKey \in KeyRow /\ calls \in Nat /\ CopiesOK
        /\ \A c \in Callers : CallerOK(caller[c], gwKey)
    BY DEF GatewayInv, BooksOK
  <1>0a. /\ gwKey.spent \in Nat /\ Sound(gwKey, gwKey)
         /\ edge # NoEntry => Sound(edge.row, gwKey)
    BY <1>0 DEF KeyRow, Sound, CopiesOK
  <1>1. ASSUME UNCHANGED <<books, fates, calls, caller>>, CopiesOK' PROVE GatewayInv'
    BY <1>1 DEF GatewayInv, books, fates, BooksOK, Accounted
  <1>2. CASE UNCHANGED gatewayVars \/ GatewayTick \/ EntryExpires \/ WindowPasses
    <2>1. UNCHANGED <<books, fates, calls, caller>> /\ operator' = operator /\ edge' \in {edge, NoEntry}
      BY <1>2 DEF gatewayVars, GatewayTick, EntryExpires, WindowPasses
    <2>2. CopiesOK'
      BY <1>0, <2>1 DEF CopiesOK, books
    <2> QED BY <1>1, <2>1, <2>2
  <1>3. CASE CreateKey \/ DisableKey
    <2>1. /\ gwKey' \in KeyRow /\ gwKey'.spent = gwKey.spent /\ (gwKey.disabled => gwKey'.disabled)
          /\ operator' = gwKey'
      BY <1>0, <1>3 DEF CreateKey, DisableKey, KeyRow
    <2>2. UNCHANGED <<ledger, captured, edge, caller, calls, uncharged, shadowed>>
      BY <1>3 DEF CreateKey, DisableKey, fates
    <2>3. BooksOK'
      BY <2>1, <2>2 DEF GatewayInv, BooksOK
    <2>4. \A record : Sound(record, gwKey) => Sound(record, gwKey')
      BY <2>1 DEF Sound
    <2>5. Sound(gwKey', gwKey')
      BY <2>1 DEF Sound, KeyRow
    <2>6. CopiesOK'
      BY <1>0, <2>1, <2>2, <2>4, <2>5 DEF CopiesOK
    <2>7. \A c \in Callers : CallerOK(caller[c], gwKey')
      BY <1>0, <2>4 DEF CallerOK
    <2> QED BY <2>2, <2>3, <2>6, <2>7 DEF GatewayInv, Accounted
  <1>4. CASE WriteThrough
    <2>1. CopiesOK'
      BY <1>0, <1>4, PutsAreSound DEF WriteThrough, CopiesOK, books
    <2> QED BY <1>1, <1>4, <2>1 DEF WriteThrough
  <1>5. ASSUME NEW c \in Callers, Rest(c), UNCHANGED <<books, fates, calls>>, CopiesOK',
               caller[c] = Resting \/ caller[c].at \notin {"call", "capture"}
        PROVE  GatewayInv'
    <2>1. CallerGoto(c, Resting) /\ CallerOK(Resting, gwKey) /\ \A n : ~Flies(Resting, n) /\ ~Flies(caller[c], n)
      BY <1>5 DEF Rest, CallerOK, Resting, Flies
    <2> QED BY <1>5, <2>1, CallerGoesOn
  <1>6. ASSUME UNCHANGED <<books, edge, operator>> PROVE CopiesOK'
    BY <1>0, <1>6 DEF CopiesOK, books
  <1>7. ASSUME NEW c \in Callers, ReadEdge(c) PROVE GatewayInv'
    <2> DEFINE v == IF edge = NoEntry THEN [at |-> "miss", started |-> gwNow]
                    ELSE [at |-> "gate", started |-> gwNow, record |-> edge.row]
    <2>1. CallerGoto(c, v) /\ UNCHANGED <<books, fates, calls>> /\ CopiesOK' /\ caller[c] = Resting
      BY <1>6, <1>7 DEF ReadEdge
    <2>2. CallerOK(v, gwKey) /\ \A n : ~Flies(v, n) /\ ~Flies(caller[c], n)
      BY <1>0a, <2>1 DEF CallerOK, Flies, Resting
    <2> HIDE DEF v
    <2> QED BY <2>1, <2>2, CallerGoesOn
  <1>8. ASSUME NEW c \in Callers, ReadKey(c) PROVE GatewayInv'
    <2> DEFINE v == [at |-> "backfill", started |-> caller[c].started, record |-> gwKey]
    <2>1. UNCHANGED <<books, fates, calls>> /\ CopiesOK' /\ caller[c].at = "miss"
      BY <1>6, <1>8 DEF ReadKey
    <2>2. CallerOK(v, gwKey) /\ \A n : ~Flies(v, n) /\ ~Flies(caller[c], n)
      BY <1>0a, <2>1 DEF CallerOK, Flies
    <2>3. CASE CallerGoto(c, v)
      <3> HIDE DEF v
      <3> QED BY <2>1, <2>2, <2>3, CallerGoesOn
    <2> QED BY <1>5, <1>8, <2>1, <2>3 DEF ReadKey
  <1>9. ASSUME NEW c \in Callers, Backfill(c) PROVE GatewayInv'
    <2> DEFINE v == [caller[c] EXCEPT !.at = "gate"]
    <2>1. /\ CallerGoto(c, v) /\ UNCHANGED <<books, fates, calls, operator>> /\ caller[c].at = "backfill"
          /\ KvPut(caller[c].record)
      BY <1>9 DEF Backfill
    <2>2. Sound(caller[c].record, gwKey)
      BY <1>0, <2>1 DEF CallerOK, Resting
    <2>3. CopiesOK'
      BY <2>1, <2>2, PutsAreSound DEF books
    <2>4. v.at = "gate" /\ v.record = caller[c].record
      <3>1. CallerOK(caller[c], gwKey)
        BY <1>0
      <3> QED BY <2>1
    <2>5. CallerOK(v, gwKey) /\ \A n : ~Flies(v, n) /\ ~Flies(caller[c], n)
      BY <2>1, <2>2, <2>4 DEF CallerOK, Flies
    <2> HIDE DEF v
    <2> QED BY <2>1, <2>3, <2>5, CallerGoesOn
  <1>10. ASSUME NEW c \in Callers, Gate(c) PROVE GatewayInv'
    <2> DEFINE v == [at |-> "count", started |-> caller[c].started, record |-> caller[c].record, used |-> used]
    <2>1. UNCHANGED <<books, fates, calls>> /\ CopiesOK' /\ caller[c].at = "gate"
      BY <1>6, <1>10 DEF Gate
    <2>2. CallerOK(v, gwKey) /\ \A n : ~Flies(v, n) /\ ~Flies(caller[c], n)
      BY <1>0, <2>1 DEF CallerOK, Flies, Resting
    <2>3. CASE CallerGoto(c, v)
      <3> HIDE DEF v
      <3> QED BY <2>1, <2>2, <2>3, CallerGoesOn
    <2> QED BY <1>5, <1>10, <2>1, <2>3 DEF Gate
  <1>11. ASSUME NEW c \in Callers, CountCall(c) PROVE GatewayInv'
    <2> DEFINE v == [at |-> "call", started |-> caller[c].started, record |-> caller[c].record, call |-> calls + 1]
    <2>1. CallerGoto(c, v) /\ UNCHANGED <<books, fates>> /\ CopiesOK' /\ caller[c].at = "count" /\ calls' = calls + 1
      BY <1>6, <1>11 DEF CountCall
    <2>2. CallerOK(v, gwKey) /\ \A n : ~Flies(caller[c], n) /\ (Flies(v, n) <=> n = calls + 1)
      BY <1>0, <2>1 DEF CallerOK, Flies, Resting
    <2>3. caller' = [d \in Callers |-> IF d = c THEN v ELSE caller[d]]
      BY <2>1 DEF GatewayInv, CallerGoto
    <2>4. BooksOK' /\ gwKey' = gwKey /\ \A n : Accounted(n)' <=> Accounted(n)
      BY <2>1 DEF GatewayInv, BooksOK, Accounted, books, fates
    <2> HIDE DEF v
    <2>5. ASSUME NEW n
          PROVE  n \in 1 .. calls' <=> Accounted(n)' \/ \E d \in Callers : Flies(caller'[d], n)
      <3>1. n \in 1 .. calls' <=> n \in 1 .. calls \/ n = calls + 1
        BY <1>0, <2>1
      <3>2. (\E d \in Callers : Flies(caller'[d], n)) <=> n = calls + 1 \/ \E d \in Callers \ {c} : Flies(caller[d], n)
        BY <2>2, <2>3
      <3>3. (\E d \in Callers : Flies(caller[d], n)) <=> \E d \in Callers \ {c} : Flies(caller[d], n)
        BY <2>2
      <3>4. n \in 1 .. calls <=> Accounted(n) \/ \E d \in Callers : Flies(caller[d], n)
        BY DEF GatewayInv
      <3> QED BY <2>4, <3>1, <3>2, <3>3, <3>4
    <2>6. \A d \in Callers : CallerOK(caller'[d], gwKey')
      BY <1>0, <2>2, <2>3, <2>4
    <2>7. calls' \in Nat
      BY <1>0, <2>1
    <2> QED BY <2>1, <2>3, <2>4, <2>5, <2>6, <2>7 DEF GatewayInv, Flies
  <1>12. ASSUME NEW c \in Callers, AnswerFromCache(c) \/ CallProvider(c) PROVE GatewayInv'
    <2>1. PICK id \in RequestIds, cost \in Costs \cup {NoCost} : Answered(c, id, cost)
      BY <1>12 DEF AnswerFromCache, CallProvider
    <2> DEFINE v == [at |-> "capture", started |-> caller[c].started, record |-> caller[c].record,
                     call |-> caller[c].call, id |-> id, cost |-> cost]
    <2>2. CallerGoto(c, v) /\ UNCHANGED <<books, fates, calls>> /\ CopiesOK' /\ caller[c].at = "call"
      BY <1>6, <1>12, <2>1 DEF AnswerFromCache, CallProvider, Answered
    <2>3. cost \in Nat
      BY GatewayAssumption DEF NoCost
    <2>4. CallerOK(v, gwKey) /\ \A n : Flies(v, n) <=> Flies(caller[c], n)
      BY <1>0, <2>2, <2>3 DEF CallerOK, Flies, Resting
    <2> HIDE DEF v
    <2> QED BY <2>2, <2>4, CallerGoesOn
  <1>13. ASSUME NEW c \in Callers, RecordCapture(c) PROVE GatewayInv'
    <2> DEFINE id == caller[c].id  cost == caller[c].cost  n == caller[c].call
               v == IF cost # NoCost
                    THEN [at |-> "committed", started |-> caller[c].started, record |-> caller[c].record]
                    ELSE Resting
    <2>1. /\ caller[c].at = "capture" /\ CallerGoto(c, v)
          /\ gwKey' = [gwKey EXCEPT !.spent = @ + Charge(id, cost)]
          /\ ledger' = With1(ledger, id, [call |-> n, cost |-> cost])
          /\ captured' = With1(captured, id, n)
          /\ shadowed' = IF id \in DOMAIN ledger THEN shadowed \cup {n} ELSE shadowed
          /\ UNCHANGED <<edge, operator, calls, uncharged>>
      BY <1>13 DEF RecordCapture, Rest
    <2>2. Sound(caller[c].record, gwKey) /\ cost \in Nat
      BY <1>0, <2>1 DEF CallerOK, Resting
    <2>3. /\ BooksOK' /\ Passes(gwKey, gwKey')
          /\ \A m : (\E i \in DOMAIN ledger' : ledger'[i].call = m)
                      <=> (\E i \in DOMAIN ledger : ledger[i].call = m) \/ (id \notin DOMAIN ledger /\ m = n)
      <3> HIDE DEF id, cost, n, v
      <3> QED BY <2>1, <2>2, ChargesAreBooked
    <2>4. \A m : Flies(caller[c], m) <=> m = n
      BY <2>1 DEF Flies
    <2>5. \A m : ~Flies(v, m)
      BY DEF Flies, Resting
    <2>6. \A m : Accounted(m)' <=> Accounted(m) \/ m = n
      BY <2>1, <2>3 DEF Accounted
    <2>7. \A record : Sound(record, gwKey) => Sound(record, gwKey')
      BY <1>0a, <2>3 DEF Sound, Passes, BooksOK, KeyRow
    <2>8. CopiesOK'
      BY <1>0, <2>1, <2>7 DEF CopiesOK
    <2>9. CallerOK(v, gwKey')
      BY <2>2, <2>7 DEF CallerOK
    <2> HIDE DEF v, n, id, cost
    <2> QED BY <2>1, <2>3, <2>4, <2>5, <2>6, <2>8, <2>9, CallerKept
  <1>14. ASSUME NEW c \in Callers, CaptureFails(c) PROVE GatewayInv'
    <2>1. /\ CallerGoto(c, Resting) /\ UNCHANGED <<books, edge, operator, calls, shadowed>>
          /\ uncharged' = IF caller[c].at \in {"call", "capture"} THEN uncharged \cup {caller[c].call} ELSE uncharged
      BY <1>14 DEF CaptureFails, Rest
    <2>2. BooksOK' /\ CopiesOK' /\ Passes(gwKey, gwKey') /\ gwKey' = gwKey
      BY <1>0a, <1>6, <2>1 DEF GatewayInv, BooksOK, Passes, books
    <2>3. CallerOK(Resting, gwKey') /\ \A m : ~Flies(Resting, m)
      BY DEF CallerOK, Resting, Flies
    <2>4. \A m : Accounted(m)' <=> Accounted(m) \/ Flies(caller[c], m)
      BY <2>1 DEF Accounted, Flies, books
    <2> QED BY <2>1, <2>2, <2>3, <2>4, CallerKept
  <1>15. ASSUME NEW c \in Callers, ReadCommitted(c) PROVE GatewayInv'
    <2> DEFINE record == Committed(c)
               v == [at |-> "mirror", started |-> caller[c].started, record |-> record]
    <2>1. /\ CallerGoto(c, v) /\ UNCHANGED <<books, fates, calls>> /\ CopiesOK' /\ caller[c].at = "committed"
      BY <1>6, <1>15 DEF ReadCommitted
    <2>2. Sound(caller[c].record, gwKey)
      BY <1>0, <2>1 DEF CallerOK, Resting
    <2>3. Sound(record, gwKey)
      BY <1>0a, <2>2 DEF Sound, Committed, KeyRow
    <2>4. CallerOK(v, gwKey) /\ \A n : ~Flies(v, n) /\ ~Flies(caller[c], n)
      BY <2>1, <2>3 DEF CallerOK, Flies
    <2> HIDE DEF v
    <2> QED BY <2>1, <2>4, CallerGoesOn
  <1>16. ASSUME NEW c \in Callers, ReadMirror(c) PROVE GatewayInv'
    <2> DEFINE v == [caller[c] EXCEPT !.at = "put"]
    <2>1. UNCHANGED <<books, fates, calls>> /\ CopiesOK' /\ caller[c].at = "mirror"
      BY <1>6, <1>16 DEF ReadMirror
    <2>2. Sound(caller[c].record, gwKey)
      BY <1>0, <2>1 DEF CallerOK, Resting
    <2>3. CASE CallerGoto(c, v)
      <3>1. v.at = "put" /\ v.record = caller[c].record
        BY <2>1
      <3>2. CallerOK(v, gwKey) /\ \A n : ~Flies(v, n) /\ ~Flies(caller[c], n)
        BY <2>1, <2>2, <3>1 DEF CallerOK, Flies
      <3> HIDE DEF v
      <3> QED BY <2>1, <2>3, <3>2, CallerGoesOn
    <2> QED BY <1>5, <1>16, <2>1, <2>3 DEF ReadMirror
  <1>17. ASSUME NEW c \in Callers, PutMirror(c) PROVE GatewayInv'
    <2>1. Rest(c) /\ UNCHANGED <<books, fates, calls, operator>> /\ caller[c].at = "put" /\ KvPut(caller[c].record)
      BY <1>17 DEF PutMirror
    <2>2. Sound(caller[c].record, gwKey)
      BY <1>0, <2>1 DEF CallerOK, Resting
    <2>3. CopiesOK'
      BY <2>1, <2>2, PutsAreSound DEF books
    <2> QED BY <1>5, <2>1, <2>3
  <1> QED BY <1>2, <1>3, <1>4, <1>7, <1>8, <1>9, <1>10, <1>11, <1>12, <1>13, <1>14, <1>15, <1>16, <1>17 DEF GatewayNext

(* The spend of a virtual key is the sum of its ledger, and every call     *)
(* that was let through is in the ledger, under way, failed or shadowed by *)
(* one of its id, for any number of calls that race (recordCapture and     *)
(* UPDATE_BUDGET_SQL in platform/src/gateway.ts).                          *)
THEOREM SpendIsBooked == WorkSpec => []SpendIsTheLedger
<1>1. WorkInit => GatewayInv
  BY GatewayStart DEF WorkInit
<1>2. GatewayInv /\ [WorkNext]_<<part, workVars>> => GatewayInv'
  BY GatewayMoves, GatewayStep
<1> QED BY <1>1, <1>2, SpendSuffices, PTL DEF WorkSpec
-------------------------------------------------------------------------------
(* What an evaluation that is done has graded                              *)

ConfigRow == [active : BOOLEAN, checks : SUBSET Checks, judge : BOOLEAN, cron : BOOLEAN]
SpanRow == [end : {0, 1}, passed : BOOLEAN]
(* The ids that are on the spine or that were refused twice.               *)
Written == DOMAIN spine \cup refused
(* The config k is answered for the trace t and the run r by the ids h.    *)
Graded(k, h, t, r) ==
  /\ \A c \in k.checks : \E end \in {0, 1} : <<"check", t, c, end>> \in h
  /\ k.judge => \E end \in {0, 1} : <<"judge", t, r, end>> \in h
Progress(k, h, r, e) ==
  /\ e.todo \subseteq e.selected /\ e.selected \subseteq EvalTraces
  /\ \A t \in e.selected : e.snapshot[t].end \in {0, 1}
  /\ \A t \in e.selected \ e.todo : Graded(k, h, t, r)
ExecutorOK(k, h, r, e) ==
  /\ e.at = "grade" => /\ e = Grading(e.selected, e.snapshot, e.todo, e.traces, e.scores)
                       /\ Progress(k, h, r, e)
  /\ e.at = "append" => /\ Progress(k, h, r, e)
                        /\ e.ok => Graded(k, {v.id : v \in e.events}, FirstTrace(e.todo), r)
  /\ e.at = "settle" /\ ~e.failed => \A t \in e.selected : Graded(k, h, t, r)
GradesInv ==
  /\ EvalInv
  /\ config = NoConfig \/ config \in ConfigRow
  /\ config = NoConfig => \A r \in EvalRunIds : runs[r].status = "none"
  /\ spans \in [EvalTraces -> SpanRow \cup {NoSpans}]
  /\ steps = [r \in EvalRunIds |-> steps[r]]
  /\ \A r \in EvalRunIds : \A t \in DOMAIN steps[r] :
       runs[r].status # "none" /\ (steps[r][t].ok => Graded(config, Written, t, r))
  /\ \A x \in Executors : ExecutorOK(config, Written, x[1], executor[x])
  /\ target = [r \in EvalRunIds |-> target[r]]
  /\ \A r \in EvalRunIds : runs[r].status = "done" => \A t \in target[r] : Graded(config, Written, t, r)

LEMMA GradesSuffice == GradesInv => DoneMeansGraded
  BY DEF GradesInv, DoneMeansGraded, Graded, Written, Held

LEMMA GradesStart == EvalInit => GradesInv
  <1> SUFFICES ASSUME EvalInit PROVE GradesInv
    OBVIOUS
  <1>1. EvalInv
    BY EvalStart
  <1>2. spans \in [EvalTraces -> SpanRow \cup {NoSpans}]
    BY DEF EvalInit, SpanRow
  <1>3. \A r \in EvalRunIds : DOMAIN steps[r] = {} /\ runs[r].status = "none"
    BY DEF EvalInit, NoRow
  <1>4. \A x \in Executors : ExecutorOK(config, Written, x[1], executor[x])
    BY DEF EvalInit, ExecutorOK, Absent
  <1> QED BY <1>1, <1>2, <1>3, <1>4 DEF EvalInit, GradesInv

(* What was written stays written.                                         *)
LEMMA MoreIsGraded ==
  ASSUME NEW k, NEW h, NEW g, h \subseteq g
  PROVE  /\ \A t, r : Graded(k, h, t, r) => Graded(k, g, t, r)
         /\ \A r, e : ExecutorOK(k, h, r, e) => ExecutorOK(k, g, r, e)
  <1>1. \A t, r : Graded(k, h, t, r) => Graded(k, g, t, r)
    BY DEF Graded
  <1>2. \A r, e : Progress(k, h, r, e) => Progress(k, g, r, e)
    BY <1>1 DEF Progress
  <1>3. \A r, e : ExecutorOK(k, h, r, e) => ExecutorOK(k, g, r, e)
    <2> TAKE r, e
    <2> HAVE ExecutorOK(k, h, r, e)
    <2>1. e.at = "grade" => /\ e = Grading(e.selected, e.snapshot, e.todo, e.traces, e.scores)
                            /\ Progress(k, g, r, e)
      BY <1>2 DEF ExecutorOK
    <2>2. e.at = "append" => /\ Progress(k, g, r, e)
                             /\ e.ok => Graded(k, {v.id : v \in e.events}, FirstTrace(e.todo), r)
      BY <1>2 DEF ExecutorOK
    <2>3. e.at = "settle" /\ ~e.failed => \A t \in e.selected : Graded(k, g, t, r)
      BY <1>1 DEF ExecutorOK
    <2> QED BY <2>1, <2>2, <2>3 DEF ExecutorOK
  <1> QED BY <1>1, <1>3

(* The executor x goes on to v; a run that becomes done is graded.         *)
LEMMA GradesKept ==
  ASSUME GradesInv, EvalInv', NEW x \in Executors, NEW v, GoTo(x, v), Written \subseteq Written',
         ExecutorOK(config, Written', x[1], v), config' = config, spans' = spans,
         \A r \in EvalRunIds : runs[r].status # "none" => runs'[r].status # "none",
         config # NoConfig,
         steps' = [r \in EvalRunIds |-> steps'[r]],
         \A r \in EvalRunIds : \A t \in DOMAIN steps'[r] :
           \/ t \in DOMAIN steps[r] /\ steps'[r][t] = steps[r][t]
           \/ runs'[r].status # "none" /\ (steps'[r][t].ok => Graded(config, Written', t, r)),
         target' = [r \in EvalRunIds |-> target'[r]],
         \A r \in EvalRunIds :
           \/ target'[r] = target[r] /\ (runs'[r].status = "done" => runs[r].status = "done")
           \/ runs'[r].status = "done" => \A t \in target'[r] : Graded(config, Written', t, r)
  PROVE  GradesInv'
  <1>0. PICK k, h, g : k = config /\ h = Written /\ g = Written'
    OBVIOUS
  <1>1. /\ \A t, r : Graded(k, h, t, r) => Graded(k, g, t, r)
        /\ \A r, e : ExecutorOK(k, h, r, e) => ExecutorOK(k, g, r, e)
    BY <1>0, MoreIsGraded
  <1>2. \A y \in Executors : executor'[y] = IF y = x THEN v ELSE executor[y]
    BY DEF GradesInv, EvalInv, GoTo
  <1>3. \A y \in Executors : ExecutorOK(config', Written', y[1], executor'[y])
    BY <1>0, <1>1, <1>2 DEF GradesInv
  <1>4. \A r \in EvalRunIds : \A t \in DOMAIN steps'[r] :
          runs'[r].status # "none" /\ (steps'[r][t].ok => Graded(config', Written', t, r))
    BY <1>0, <1>1 DEF GradesInv
  <1>5. \A r \in EvalRunIds : runs'[r].status = "done" => \A t \in target'[r] : Graded(config', Written', t, r)
    BY <1>0, <1>1 DEF GradesInv
  <1>6. config' \in ConfigRow /\ spans' \in [EvalTraces -> SpanRow \cup {NoSpans}]
    BY DEF GradesInv
  <1> QED BY <1>3, <1>4, <1>5, <1>6 DEF GradesInv

(* ... and touches nothing else.                                           *)
LEMMA GradesGoOn ==
  ASSUME GradesInv, EvalInv', NEW x \in Executors, executor[x] # Absent, NEW v, GoTo(x, v),
         ExecutorOK(config, Written, x[1], v),
         UNCHANGED <<spans, config, runs, spine, steps, refused, target>>
  PROVE  GradesInv'
  <1>1. Written' = Written /\ config # NoConfig
    <2>1. x[1] \in EvalRunIds /\ runs[x[1]].status # "none"
      BY DEF GradesInv, EvalInv, Executors
    <2> QED BY <2>1 DEF Written, GradesInv
  <1>2. steps' = [r \in EvalRunIds |-> steps'[r]] /\ target' = [r \in EvalRunIds |-> target'[r]]
    BY DEF GradesInv
  <1> QED BY <1>1, <1>2, GradesKept

LEMMA FirstIsTodo == \A todo \in SUBSET EvalTraces : todo # {} => FirstTrace(todo) \in todo
  <1> SUFFICES ASSUME NEW S \in SUBSET EvalTraces, S # {} PROVE FirstTrace(S) \in S
    OBVIOUS
  <1>1. IsFiniteSet(EvalTraces) /\ EvalTraces \subseteq Nat
    BY EvalAssumption
  <1>2a. IsFiniteSet(S)
    BY <1>1, FS_Subset
  <1>2. IsFiniteSet(S) /\ S \subseteq Int
    BY <1>1, <1>2a
  <1>3. \E t \in S : \A u \in S : t <= u
    BY <1>2, LeastExists
  <1> QED BY <1>3 DEF FirstTrace

(* What does not depend on the config stands when it is made or disabled.  *)
LEMMA SameGrades ==
  ASSUME NEW k, NEW l, NEW h, l.checks = k.checks, l.judge = k.judge
  PROVE  /\ \A t, r : Graded(k, h, t, r) => Graded(l, h, t, r)
         /\ \A r, e : ExecutorOK(k, h, r, e) => ExecutorOK(l, h, r, e)
  <1>1. \A t, r : Graded(k, h, t, r) => Graded(l, h, t, r)
    BY DEF Graded
  <1>1a. \A t, r, g : Graded(k, g, t, r) => Graded(l, g, t, r)
    BY DEF Graded
  <1>2. \A r, e : Progress(k, h, r, e) => Progress(l, h, r, e)
    BY <1>1 DEF Progress
  <1>3. \A r, e : ExecutorOK(k, h, r, e) => ExecutorOK(l, h, r, e)
    <2> TAKE r, e
    <2> HAVE ExecutorOK(k, h, r, e)
    <2>1. e.at = "grade" => /\ e = Grading(e.selected, e.snapshot, e.todo, e.traces, e.scores)
                            /\ Progress(l, h, r, e)
      BY <1>2 DEF ExecutorOK
    <2>2. e.at = "append" => /\ Progress(l, h, r, e)
                             /\ e.ok => Graded(l, {v.id : v \in e.events}, FirstTrace(e.todo), r)
      BY <1>1a, <1>2 DEF ExecutorOK
    <2>3. e.at = "settle" /\ ~e.failed => \A t \in e.selected : Graded(l, h, t, r)
      BY <1>1 DEF ExecutorOK
    <2> QED BY <2>1, <2>2, <2>3 DEF ExecutorOK
  <1> QED BY <1>1, <1>3

(* The trace whose turn it was is graded, and the others before it.        *)
LEMMA OneMoreGraded ==
  ASSUME NEW k, NEW h, NEW r, NEW e, Progress(k, h, r, e), NEW snapshot, NEW selected, NEW ts, NEW sc,
         selected = e.selected, snapshot = e.snapshot, Graded(k, h, FirstTrace(e.todo), r)
  PROVE  ExecutorOK(k, h, r, Grading(selected, snapshot, e.todo \ {FirstTrace(e.todo)}, ts, sc))
  <1> DEFINE rest == e.todo \ {FirstTrace(e.todo)}
             v == Grading(selected, snapshot, rest, ts, sc)
  <1>1. /\ v.at = "grade" /\ v.selected = selected /\ v.snapshot = snapshot /\ v.todo = rest
        /\ v.traces = ts /\ v.scores = sc
    BY DEF Grading
  <1>2. v = Grading(v.selected, v.snapshot, v.todo, v.traces, v.scores)
    BY <1>1
  <1> HIDE DEF v
  <1>3. Progress(k, h, r, v)
    BY <1>1 DEF Progress
  <1> QED BY <1>1, <1>2, <1>3 DEF ExecutorOK, v

(* The events of a trace answer the config, but for a judge without grade. *)
LEMMA EventsGrade ==
  ASSUME NEW t, NEW r, NEW a, a.end \in {0, 1}, NEW grades, config.judge => grades # {}
  PROVE  Graded(config, {v.id : v \in EventsOf(t, r, a, grades)}, t, r)
  <1> DEFINE E == EventsOf(t, r, a, grades)
  <1>1. \A c \in config.checks : CheckEvent(t, c, a) \in E /\ CheckEvent(t, c, a).id = <<"check", t, c, a.end>>
    BY DEF EventsOf, CheckEvent, CheckId
  <1>2. \A g \in grades : JudgeEvent(t, r, a, g) \in E /\ JudgeEvent(t, r, a, g).id = <<"judge", t, r, a.end>>
    BY DEF EventsOf, JudgeEvent, JudgeId
  <1> HIDE DEF E
  <1>3. \A c \in config.checks : <<"check", t, c, a.end>> \in {v.id : v \in E}
    BY <1>1
  <1>4. \A g \in grades : <<"judge", t, r, a.end>> \in {v.id : v \in E}
    BY <1>2
  <1> QED BY <1>3, <1>4 DEF Graded, E

(* Each of the events is written, or refused.                              *)
LEMMA EventsAreWritten ==
  ASSUME NEW x, NEW lost, Recorded(x, lost)
  PROVE  /\ Written \subseteq Written'
         /\ {v.id : v \in executor[x].events} \subseteq Written'
  <1> DEFINE E == {v \in executor[x].events \ lost : ~Conflicts(v)}
             new == {e \in E : ~Known(e)}
  <1>1. spine' = Appended(E) /\ refused' = refused \cup {v.id : v \in lost}
    BY DEF Recorded
  <1>2. DOMAIN Appended(E) = DOMAIN spine \cup {e.id : e \in new}
    BY DEF Appended
  <1>3. \A v \in executor[x].events : v.id \in DOMAIN spine' \/ v.id \in refused'
    <2> TAKE v \in executor[x].events
    <2>1. CASE v \in lost
      BY <1>1, <2>1
    <2>2. CASE v \notin lost /\ Known(v)
      BY <1>1, <1>2, <2>2 DEF Known
    <2>3. CASE v \notin lost /\ ~Known(v)
      <3>1. v \in new
        BY <2>3 DEF Conflicts
      <3> QED BY <1>1, <1>2, <3>1
    <2> QED BY <2>1, <2>2, <2>3
  <1> QED BY <1>1, <1>2, <1>3 DEF Written

LEMMA GradesStep == GradesInv /\ [EvalNext]_evalVars => GradesInv'
  <1> SUFFICES ASSUME GradesInv, [EvalNext]_evalVars PROVE GradesInv'
    OBVIOUS
  <1>0. EvalInv /\ EvalInv'
    BY EvalRefines DEF GradesInv
  <1>0a. \A x \in Executors : x[1] \in EvalRunIds /\ ExecutorOK(config, Written, x[1], executor[x])
    BY DEF GradesInv, Executors
  <1>0b. \A x \in Executors : executor[x] # Absent => config # NoConfig /\ runs[x[1]].status # "none"
    BY <1>0, <1>0a DEF GradesInv, EvalInv
  <1>0c. /\ steps = [r \in EvalRunIds |-> steps[r]] /\ target = [r \in EvalRunIds |-> target[r]]
         /\ runs = [r \in EvalRunIds |-> runs[r]] /\ executor = [x \in Executors |-> executor[x]]
         /\ \A r \in EvalRunIds : "status" \in DOMAIN runs[r]
    BY <1>0 DEF GradesInv, EvalInv
  <1>1. CASE UNCHANGED evalVars
    BY <1>0, <1>1 DEF evalVars, GradesInv, Written
  <1>2. CASE CreateConfig
    <2>1. /\ config = NoConfig /\ UNCHANGED <<spans, runs, spine, executor, steps, refused, target>>
          /\ \A r \in EvalRunIds : runs[r].status = "none"
      BY <1>2 DEF CreateConfig, GradesInv
    <2>2. config' \in ConfigRow
      BY <1>2 DEF CreateConfig, ConfigRow, ValidChecks
    <2>3. \A x \in Executors : executor[x] = Absent
      BY <1>0b, <2>1
    <2>4. \A x \in Executors : ExecutorOK(config', Written', x[1], executor'[x])
      BY <2>1, <2>3 DEF ExecutorOK, Absent
    <2> QED BY <1>0, <2>1, <2>2, <2>4 DEF GradesInv
  <1>3. CASE DisableConfig
    <2>1. config' = [config EXCEPT !.active = FALSE] /\ UNCHANGED <<spans, runs, spine, executor, steps, refused, target>>
      BY <1>3 DEF DisableConfig
    <2>2. config \in ConfigRow
      BY <1>3 DEF DisableConfig, GradesInv, NoConfig
    <2>3. /\ config' \in ConfigRow /\ config'.checks = config.checks /\ config'.judge = config.judge
      BY <2>1, <2>2 DEF ConfigRow
    <2>3a. config' # NoConfig
      BY <2>3 DEF ConfigRow, NoConfig
    <2>4. PICK k, l, h : k = config /\ l = config' /\ h = Written
      OBVIOUS
    <2>5. /\ \A t, r : Graded(k, h, t, r) => Graded(l, h, t, r)
          /\ \A r, e : ExecutorOK(k, h, r, e) => ExecutorOK(l, h, r, e)
      BY <2>3, <2>4, SameGrades
    <2>6. Written' = Written
      BY <2>1 DEF Written
    <2> QED BY <1>0, <2>1, <2>3, <2>3a, <2>4, <2>5, <2>6 DEF GradesInv
  <1>4. CASE SpansGrow
    <2>1. UNCHANGED <<config, runs, spine, executor, steps, refused, target>>
      BY <1>4 DEF SpansGrow
    <2>2. spans' \in [EvalTraces -> SpanRow \cup {NoSpans}]
      BY <1>4 DEF SpansGrow, GradesInv, SpanRow
    <2> QED BY <1>0, <2>1, <2>2 DEF GradesInv, Written
  <1>5. ASSUME NEW r \in EvalRunIds, StartRun(r) PROVE GradesInv'
    <2> DEFINE x == <<r, "inline">>
    <2>1. /\ x \in Executors /\ GoTo(x, [at |-> "dispatch"]) /\ runs' = [runs EXCEPT ![r].status = "running"]
          /\ UNCHANGED <<spans, config, spine, steps, refused, target>>
      BY <1>5 DEF StartRun, Executors, Paths
    <2>2. config # NoConfig
      BY <1>5 DEF StartRun, MayStart, NoConfig
    <2>3. ExecutorOK(config, Written', x[1], [at |-> "dispatch"])
      BY DEF ExecutorOK
    <2>4. \A q \in EvalRunIds : runs'[q].status = IF q = r THEN "running" ELSE runs[q].status
      BY <1>0c, <2>1
    <2>5. Written' = Written
      BY <2>1 DEF Written
    <2> HIDE DEF x
    <2> QED BY <1>0, <1>0c, <2>1, <2>2, <2>3, <2>4, <2>5, GradesKept
  <1>6. ASSUME NEW r \in EvalRunIds, Dispatch(r) PROVE GradesInv'
    <2>1. /\ \A x \in Executors : executor'[x] \in {executor[x], Absent, [at |-> "begin"]}
          /\ UNCHANGED <<spans, config, runs, spine, steps, refused, target>>
      BY <1>0c, <1>6 DEF Dispatch, GoTo
    <2>2. \A k, h, q : ExecutorOK(k, h, q, Absent) /\ ExecutorOK(k, h, q, [at |-> "begin"])
      BY DEF ExecutorOK, Absent
    <2>3. \A x \in Executors : ExecutorOK(config, Written, x[1], executor'[x])
      BY <1>0a, <2>1, <2>2
    <2> QED BY <1>0, <2>1, <2>3 DEF GradesInv, Written
  <1>7. ASSUME NEW x \in Executors, Begin(x) PROVE GradesInv'
    <2>1. executor[x] # Absent /\ UNCHANGED <<spans, config, runs, spine, steps, refused, target>>
      BY <1>7 DEF Begin, Absent
    <2>2. \A v : GoTo(x, v) /\ ExecutorOK(config, Written, x[1], v) => GradesInv'
      BY <1>0, <2>1, GradesGoOn
    <2>3. CASE GoTo(x, Absent)
      BY <2>2, <2>3 DEF ExecutorOK, Absent
    <2>4. CASE GoTo(x, Settling(TRUE, {}, 0, 0))
      BY <2>2, <2>4 DEF ExecutorOK, Settling
    <2>5. CASE GoTo(x, Grading(Selected, spans, Selected, 0, 0))
      <3> DEFINE v == Grading(Selected, spans, Selected, 0, 0)
      <3>1. \A t \in Selected : spans[t].end \in {0, 1}
        BY DEF Selected, GradesInv, SpanRow
      <3>2. /\ v.at = "grade" /\ v.selected = Selected /\ v.snapshot = spans /\ v.todo = Selected
            /\ v = Grading(v.selected, v.snapshot, v.todo, v.traces, v.scores)
        BY DEF Grading
      <3>3. Progress(config, Written, x[1], v)
        <4> HIDE DEF v
        <4> QED BY <3>1, <3>2 DEF Progress, Selected
      <3>4. ExecutorOK(config, Written, x[1], v)
        <4> HIDE DEF v
        <4> QED BY <3>2, <3>3 DEF ExecutorOK
      <3> HIDE DEF v
      <3> QED BY <2>2, <2>5, <3>4 DEF v
    <2> QED BY <1>7, <2>3, <2>4, <2>5 DEF Begin
  <1>8. ASSUME NEW x \in Executors, Replay(x) PROVE GradesInv'
    <2> DEFINE e == executor[x]
               o == steps[x[1]][FirstTrace(e.todo)]
    <2>1. /\ e # Absent /\ e.at = "grade" /\ UNCHANGED <<spans, config, runs, spine, steps, refused, target>>
          /\ FirstTrace(e.todo) \in DOMAIN steps[x[1]] /\ GoTo(x, Outcome(x, o))
      BY <1>8 DEF Replay, Absent
    <2>2. e = Grading(e.selected, e.snapshot, e.todo, e.traces, e.scores) /\ Progress(config, Written, x[1], e)
      BY <1>0a, <2>1 DEF ExecutorOK
    <2>3. CASE o.ok
      <3>1. Graded(config, Written, FirstTrace(e.todo), x[1])
        BY <1>0a, <2>1, <2>3 DEF GradesInv
      <3>2. Outcome(x, o) = Grading(e.selected, e.snapshot, e.todo \ {FirstTrace(e.todo)}, e.traces + 1, e.scores + o.scores)
        <4>1. PICK sel, snap, todo, tr, sc : e = Grading(sel, snap, todo, tr, sc)
          BY <2>2
        <4>2. e.selected = sel /\ e.snapshot = snap /\ e.todo = todo /\ e.traces = tr /\ e.scores = sc
          BY <4>1 DEF Grading
        <4>3. Outcome(x, o) = [Grading(sel, snap, todo, tr, sc) EXCEPT
                 !.todo = todo \ {FirstTrace(todo)}, !.traces = tr + 1, !.scores = sc + o.scores]
          BY <2>3, <4>1, <4>2 DEF Outcome
        <4>4. Outcome(x, o) = Grading(sel, snap, todo \ {FirstTrace(todo)}, tr + 1, sc + o.scores)
          BY <4>3 DEF Grading
        <4> QED BY <4>2, <4>4
      <3>3. ExecutorOK(config, Written, x[1], Outcome(x, o))
        <4>1. PICK n, m : n = e.traces + 1 /\ m = e.scores + o.scores
          OBVIOUS
        <4> HIDE DEF e, o
        <4>2. Outcome(x, o) = Grading(e.selected, e.snapshot, e.todo \ {FirstTrace(e.todo)}, n, m)
          BY <3>2, <4>1
        <4>3. Progress(config, Written, x[1], e)
          BY <2>2
        <4>4. ExecutorOK(config, Written, x[1],
                         Grading(e.selected, e.snapshot, e.todo \ {FirstTrace(e.todo)}, n, m))
          BY <3>1, <4>3, OneMoreGraded
        <4> QED BY <4>2, <4>4
      <3> HIDE DEF e, o
      <3> QED BY <1>0, <2>1, <3>3, GradesGoOn DEF e
    <2>4. CASE ~o.ok
      <3>1. ExecutorOK(config, Written, x[1], Outcome(x, o))
        BY <2>4 DEF ExecutorOK, Outcome, Settling
      <3> HIDE DEF o
      <3> QED BY <1>0, <2>1, <3>1, GradesGoOn
    <2> QED BY <2>3, <2>4
  <1>9. ASSUME NEW x \in Executors, CallJudge(x) PROVE GradesInv'
    <2> DEFINE e == executor[x]
               t == FirstTrace(e.todo)
    <2>1. /\ e # Absent /\ e.at = "grade" /\ UNCHANGED <<spans, config, runs, spine, steps, refused, target>>
          /\ e.todo # {}
      BY <1>9 DEF CallJudge, Absent
    <2>2. Progress(config, Written, x[1], e)
      BY <1>0a, <2>1 DEF ExecutorOK
    <2>3. PICK grades \in JudgeAnswers :
            GoTo(x, Appending(e, config.judge => grades # {}, EventsOf(t, x[1], e.snapshot[t], grades)))
      BY <1>9 DEF CallJudge
    <2>4. t \in e.selected /\ e.snapshot[t].end \in {0, 1}
      BY <2>1, <2>2, FirstIsTodo DEF Progress
    <2> DEFINE E == EventsOf(t, x[1], e.snapshot[t], grades)
               ok == config.judge => grades # {}
               v == Appending(e, ok, E)
    <2>5. ok => Graded(config, {w.id : w \in E}, t, x[1])
      <3> HIDE DEF t
      <3> QED BY <2>4, EventsGrade
    <2>6. /\ v.at = "append" /\ v.selected = e.selected /\ v.snapshot = e.snapshot /\ v.todo = e.todo
          /\ v.ok = ok /\ v.events = E
      BY DEF Appending
    <2> HIDE DEF v, E, ok
    <2>7. Progress(config, Written, x[1], v)
      BY <2>2, <2>6 DEF Progress
    <2>8. ExecutorOK(config, Written, x[1], v)
      BY <2>5, <2>6, <2>7 DEF ExecutorOK
    <2>9. GoTo(x, v)
      BY <2>3 DEF v, E, ok
    <2> QED BY <1>0, <2>1, <2>8, <2>9, GradesGoOn
  <1>10. ASSUME NEW x \in Executors, AppendVerdicts(x) PROVE GradesInv'
    <2> DEFINE e == executor[x]  r == x[1]  t == FirstTrace(e.todo)
               outcome == [ok |-> e.ok, scores |-> Cardinality(e.events)]
               v == IF e.ok THEN Grading(e.selected, e.snapshot, e.todo \ {t}, e.traces + 1, e.scores + outcome.scores)
                    ELSE Settling(TRUE, e.selected, e.traces + 1, e.scores + outcome.scores)
    <2>1. /\ e # Absent /\ e.at = "append" /\ UNCHANGED <<spans, config, target>> /\ GoTo(x, v)
          /\ runs' = [runs EXCEPT ![r] = Advanced(@, e.traces + 1, e.scores + outcome.scores)]
          /\ steps' = IF x[2] = "workflow" THEN [steps EXCEPT ![r] = Finished(@, t, outcome)] ELSE steps
      <3>1. e.at = "append" /\ UNCHANGED <<spans, config, target>> /\ GoTo(x, v)
        BY <1>10 DEF AppendVerdicts
      <3>2. runs' = [runs EXCEPT ![r] = Advanced(@, e.traces + 1, e.scores + outcome.scores)]
        BY <1>10 DEF AppendVerdicts
      <3>3. steps' = IF x[2] = "workflow" THEN [steps EXCEPT ![r] = Finished(@, t, outcome)] ELSE steps
        BY <1>10 DEF AppendVerdicts
      <3>4. e # Absent
        BY <3>1 DEF Absent
      <3> QED BY <3>1, <3>2, <3>3, <3>4
    <2>2. Progress(config, Written, r, e) /\ (e.ok => Graded(config, {w.id : w \in e.events}, t, r))
      BY <1>0a, <2>1 DEF ExecutorOK
    <2>3. Written \subseteq Written' /\ {w.id : w \in e.events} \subseteq Written'
      <3>1. PICK lost : Recorded(x, lost)
        BY <1>10 DEF AppendVerdicts
      <3> QED BY <3>1, EventsAreWritten
    <2>4. Progress(config, Written', r, e) /\ (e.ok => Graded(config, Written', t, r))
      <3>1. \A u, q : Graded(config, Written, u, q) => Graded(config, Written', u, q)
        BY <2>3 DEF Graded
      <3>2. \A u, q : Graded(config, {w.id : w \in e.events}, u, q) => Graded(config, Written', u, q)
        BY <2>3 DEF Graded
      <3> QED BY <2>2, <3>1, <3>2 DEF Progress
    <2>5. ExecutorOK(config, Written', r, v)
      <3>1. CASE e.ok
        <4> DEFINE n == e.traces + 1  m == e.scores + outcome.scores
        <4>1. v = Grading(e.selected, e.snapshot, e.todo \ {FirstTrace(e.todo)}, n, m)
          BY <3>1
        <4> HIDE DEF e, v, n, m
        <4> QED BY <2>4, <3>1, <4>1, OneMoreGraded DEF t
      <3>2. CASE ~e.ok
        BY <3>2 DEF ExecutorOK, Settling
      <3> QED BY <3>1, <3>2
    <2>6. \A q \in EvalRunIds : runs'[q].status = runs[q].status
      BY <1>0c, <2>1 DEF Advanced
    <2>7. /\ steps' = [q \in EvalRunIds |-> steps'[q]]
          /\ \A q \in EvalRunIds : \A u \in DOMAIN steps'[q] :
               \/ u \in DOMAIN steps[q] /\ steps'[q][u] = steps[q][u]
               \/ q = r /\ u = t /\ steps'[q][u] = outcome
      BY <1>0c, <2>1 DEF Finished
    <2>8. \A q \in EvalRunIds : \A u \in DOMAIN steps'[q] :
               \/ u \in DOMAIN steps[q] /\ steps'[q][u] = steps[q][u]
               \/ runs'[q].status # "none" /\ (steps'[q][u].ok => Graded(config, Written', u, q))
      <3>1. runs[r].status # "none" /\ r \in EvalRunIds
        BY <1>0a, <1>0b, <2>1
      <3> QED BY <2>4, <2>6, <2>7, <3>1
    <2>9. config # NoConfig
      BY <1>0b, <2>1
    <2> HIDE DEF v, e, r
    <2> QED BY <1>0, <1>0c, <2>1, <2>3, <2>5, <2>6, <2>7, <2>8, <2>9, GradesKept DEF r
  <1>11. ASSUME NEW x \in Executors, Finish(x) PROVE GradesInv'
    <2> DEFINE e == executor[x]
    <2>1. e # Absent /\ e.at = "grade" /\ UNCHANGED <<spans, config, runs, spine, steps, refused, target>>
      BY <1>11 DEF Finish, Absent
    <2>2. Progress(config, Written, x[1], e)
      BY <1>0a, <2>1 DEF ExecutorOK
    <2>3. CASE e.todo = {} /\ GoTo(x, Settling(FALSE, e.selected, e.traces, e.scores))
      <3>1. ExecutorOK(config, Written, x[1], Settling(FALSE, e.selected, e.traces, e.scores))
        BY <2>2, <2>3 DEF ExecutorOK, Settling, Progress
      <3> QED BY <1>0, <2>1, <2>3, <3>1, GradesGoOn
    <2>4. CASE GoTo(x, Settling(TRUE, e.selected, e.traces, e.scores))
      <3>1. ExecutorOK(config, Written, x[1], Settling(TRUE, e.selected, e.traces, e.scores))
        BY DEF ExecutorOK, Settling
      <3> QED BY <1>0, <2>1, <2>4, <3>1, GradesGoOn
    <2> QED BY <1>11, <2>3, <2>4 DEF Finish
  <1>12. ASSUME NEW x \in Executors, Settle(x) PROVE GradesInv'
    <2> DEFINE e == executor[x]  r == x[1]
    <2>1. e # Absent /\ e.at = "settle" /\ UNCHANGED <<spans, config, spine, steps, refused>> /\ GoTo(x, Absent)
      BY <1>12 DEF Settle, Absent
    <2>2. ExecutorOK(config, Written', r, Absent) /\ Written' = Written /\ config # NoConfig
      BY <1>0b, <2>1 DEF ExecutorOK, Absent, Written
    <2>3. ~e.failed => \A t \in e.selected : Graded(config, Written', t, r)
      BY <1>0a, <2>1, <2>2 DEF ExecutorOK
    <2>4. CASE runs' = runs /\ target' = target
      BY <1>0, <1>0c, <2>1, <2>2, <2>4, GradesKept
    <2>5. CASE /\ runs' = [runs EXCEPT ![r] = [Advanced(@, e.traces, e.scores) EXCEPT
                             !.status = IF e.failed THEN "error" ELSE "done"]]
               /\ target' = [target EXCEPT ![r] = e.selected]
      <3>1. r \in EvalRunIds
        BY <1>0a
      <3>2. \A q \in EvalRunIds : runs'[q].status = IF q = r THEN IF e.failed THEN "error" ELSE "done" ELSE runs[q].status
        BY <1>0c, <2>5, <3>1 DEF Advanced
      <3>3. /\ target' = [q \in EvalRunIds |-> target'[q]]
            /\ \A q \in EvalRunIds : target'[q] = IF q = r THEN e.selected ELSE target[q]
        BY <1>0c, <2>5, <3>1
      <3>4. \A q \in EvalRunIds :
             \/ target'[q] = target[q] /\ (runs'[q].status = "done" => runs[q].status = "done")
             \/ runs'[q].status = "done" => \A t \in target'[q] : Graded(config, Written', t, q)
        BY <2>3, <3>2, <3>3
      <3>5. \A q \in EvalRunIds : runs[q].status # "none" => runs'[q].status # "none"
        BY <3>2
      <3> HIDE DEF e, r
      <3> QED BY <1>0, <1>0c, <2>1, <2>2, <3>3, <3>4, <3>5, GradesKept DEF r
    <2> QED BY <1>12, <2>4, <2>5 DEF Settle
  <1>13. ASSUME NEW x \in Executors, Crash(x) PROVE GradesInv'
    <2>1. executor[x] # Absent /\ UNCHANGED <<spans, config, runs, spine, steps, refused, target>>
      BY <1>13 DEF Crash, Absent
    <2>2. \A k, h, q : ExecutorOK(k, h, q, Absent) /\ ExecutorOK(k, h, q, [at |-> "begin"])
      BY DEF ExecutorOK, Absent
    <2>3. GoTo(x, Absent) \/ GoTo(x, [at |-> "begin"])
      BY <1>13 DEF Crash
    <2> QED BY <1>0, <2>1, <2>2, <2>3, GradesGoOn
  <1> QED BY <1>1, <1>2, <1>3, <1>4, <1>5, <1>6, <1>7, <1>8, <1>9, <1>10, <1>11, <1>12, <1>13 DEF EvalNext
-------------------------------------------------------------------------------
(* The verdict and the transcript of a simulation                          *)

VerdictInv ==
  /\ SimInv
  /\ \A r \in SimRuns : r \in DOMAIN endSpine => simRuns[r].status \in {"done", "error"}
  /\ VerdictIsRecorded

LEMMA VerdictStart == SimulationInit => VerdictInv
  <1> SUFFICES ASSUME SimulationInit PROVE VerdictInv
    OBVIOUS
  <1>1. DOMAIN endSpine = {}
    BY DEF SimulationInit
  <1> QED BY <1>1, SimStart DEF SimulationInit, VerdictInv, VerdictIsRecorded

LEMMA TurnsOnly ==
  ASSUME SimInv, NEW turn, NEW t, NEW counted, RecordTurn(turn, t, counted)
  PROVE  \A r \in SimRuns : simRuns'[r].status = simRuns[r].status /\ simRuns'[r].verdict = simRuns[r].verdict
  <1>1. CASE simRuns' = [simRuns EXCEPT ![turn[1]].turns = turn[2] + 1]
    BY <1>1 DEF SimInv
  <1> QED BY <1>1 DEF RecordTurn

LEMMA SettledRow ==
  ASSUME SimInv, NEW r \in SimRuns, NEW status, NEW turns, NEW v, simRuns' = Settled(r, status, turns, v)
  PROVE  \A q \in SimRuns :
           \/ simRuns'[q] = simRuns[q] /\ (q = r => ~Unsettled(q))
           \/ q = r /\ Unsettled(q) /\ simRuns'[q].status = status /\ simRuns'[q].verdict = v
  BY DEF SimInv, Settled

LEMMA VerdictStep == VerdictInv /\ [SimulationNext]_simVars => VerdictInv'
  <1> SUFFICES ASSUME VerdictInv, [SimulationNext]_simVars PROVE VerdictInv'
    OBVIOUS
  <1>0. SimInv /\ SimInv'
    BY SimRefines DEF VerdictInv
  <1>1. ASSUME endSpine' = endSpine, unrecorded' = unrecorded,
               \A r \in SimRuns :
                 /\ simRuns[r].status \in {"done", "error"} \/ simRuns'[r].status = "done"
                      => simRuns'[r].status = simRuns[r].status
                 /\ simRuns'[r].verdict = simRuns[r].verdict \/ simRuns'[r].status # "done"
        PROVE  VerdictInv'
    <2>1. \A r \in SimRuns : r \in DOMAIN endSpine' => simRuns'[r].status \in {"done", "error"}
      BY <1>1 DEF VerdictInv
    <2>2. VerdictIsRecorded'
      BY <1>1 DEF VerdictInv, VerdictIsRecorded
    <2> QED BY <1>0, <2>1, <2>2 DEF VerdictInv
  <1>2. CASE UNCHANGED simVars \/ CreateScenario
    BY <1>1, <1>2 DEF simVars, CreateScenario
  <1>3. ASSUME NEW r \in SimRuns, StartSimulation(r) PROVE VerdictInv'
    <2>1. /\ simRuns[r].status = "none" /\ simRuns' = [simRuns EXCEPT ![r].status = "running"]
          /\ endSpine' = endSpine /\ unrecorded' = unrecorded
      BY <1>3 DEF StartSimulation
    <2>2. \A q \in SimRuns : /\ simRuns'[q].status = IF q = r THEN "running" ELSE simRuns[q].status
                             /\ simRuns'[q].verdict = simRuns[q].verdict
      BY <1>0, <2>1 DEF SimInv
    <2> QED BY <1>1, <2>1, <2>2
  <1>4. ASSUME NEW r \in SimRuns, DispatchSimulation(r) PROVE VerdictInv'
    BY <1>1, <1>4 DEF DispatchSimulation
  <1>5. ASSUME NEW x \in SimExecutors,
               \/ BeginSimulation(x) \/ ReplayExchange(x) \/ Deadline(x) \/ Judge(x) \/ CrashSimulation(x)
        PROVE  VerdictInv'
    <2>1. UNCHANGED <<simRuns, endSpine, unrecorded>>
      BY <1>5 DEF BeginSimulation, ReplayExchange, Deadline, Judge, CrashSimulation
    <2> QED BY <1>1, <2>1
  <1>6. ASSUME NEW x \in SimExecutors, UserSpeaks(x) \/ AssistantAnswers(x) PROVE VerdictInv'
    <2>1. endSpine' = endSpine /\ unrecorded' = unrecorded
      BY <1>6 DEF UserSpeaks, AssistantAnswers
    <2>2. simRuns' = simRuns \/ \E turn, t, counted : RecordTurn(turn, t, counted)
      BY <1>6 DEF UserSpeaks, AssistantAnswers
    <2>3. \A r \in SimRuns : simRuns'[r].status = simRuns[r].status /\ simRuns'[r].verdict = simRuns[r].verdict
      BY <1>0, <2>2, TurnsOnly
    <2> QED BY <1>1, <2>1, <2>3
  <1>8. ASSUME NEW x \in SimExecutors, SettleDone(x) PROVE VerdictInv'
    <2> DEFINE r == x[1]  v == actor[x].verdict
    <2>0. r \in SimRuns /\ simRuns[r].status # "none"
      BY <1>0, <1>8 DEF SettleDone, SimInv, SimExecutors, Gone
    <2>1. CASE simRuns' = simRuns /\ endSpine' = endSpine /\ unrecorded' = unrecorded
      BY <1>1, <2>1
    <2>2. CASE /\ simRuns' = Settled(r, "done", actor[x].turns, v)
               /\ endSpine' = endSpine /\ unrecorded' = unrecorded \cup {r}
      <3>1. \A q \in SimRuns :
                 \/ simRuns'[q] = simRuns[q]
                 \/ q = r /\ Unsettled(q) /\ simRuns'[q].status = "done"
        BY <1>0, <2>0, <2>2, SettledRow
      <3>2. \A q \in SimRuns : q \in DOMAIN endSpine' => simRuns'[q].status \in {"done", "error"}
        BY <2>2, <3>1 DEF VerdictInv
      <3>3. VerdictIsRecorded'
        BY <2>2, <3>1 DEF VerdictInv, VerdictIsRecorded
      <3> QED BY <1>0, <3>2, <3>3 DEF VerdictInv
    <2>3. CASE /\ simRuns' = Settled(r, "done", actor[x].turns, v) /\ unrecorded' = unrecorded
               /\ endSpine' = IF r \in DOMAIN endSpine /\ endSpine[r] # v THEN endSpine ELSE FirstStands(endSpine, r, v)
      <3>1. \A q \in SimRuns :
                 \/ simRuns'[q] = simRuns[q] /\ (q = r => ~Unsettled(q))
                 \/ q = r /\ Unsettled(q) /\ simRuns'[q].status = "done" /\ simRuns'[q].verdict = v
        BY <1>0, <2>0, <2>3, SettledRow
      <3>2. /\ DOMAIN endSpine' = DOMAIN endSpine \cup {r}
            /\ \A q \in DOMAIN endSpine : endSpine'[q] = endSpine[q]
            /\ r \notin DOMAIN endSpine => endSpine'[r] = v
        <4>1. CASE r \in DOMAIN endSpine /\ endSpine[r] # v
          BY <2>3, <4>1
        <4>2. CASE endSpine' = FirstStands(endSpine, r, v)
          BY <4>2 DEF FirstStands
        <4> QED BY <2>3, <4>1, <4>2
      <3>3. simRuns[r].status \in {"running", "done", "error"}
        BY <1>0, <2>0 DEF SimInv, Statuses
      <3>4. simRuns'[r].status \in {"done", "error"}
        BY <2>0, <3>1, <3>3 DEF Unsettled
      <3>5. \A q \in SimRuns : q \in DOMAIN endSpine' => simRuns'[q].status \in {"done", "error"}
        BY <3>1, <3>2, <3>4 DEF VerdictInv
      <3>6. VerdictIsRecorded'
        <4> SUFFICES ASSUME NEW q \in SimRuns, simRuns'[q].status = "done", q \notin unrecorded
                     PROVE  q \in DOMAIN endSpine' /\ endSpine'[q] = simRuns'[q].verdict
          BY <2>3 DEF VerdictIsRecorded
        <4>1. CASE simRuns'[q] = simRuns[q]
          BY <3>2, <4>1 DEF VerdictInv, VerdictIsRecorded
        <4>2. CASE q = r /\ Unsettled(q) /\ simRuns'[q].verdict = v
          BY <3>2, <4>2 DEF VerdictInv, Unsettled
        <4> QED BY <3>1, <4>1, <4>2
      <3> QED BY <1>0, <3>5, <3>6 DEF VerdictInv
    <2>4. SimRuns = SimRuns /\ actor[x].at = "settle"
      BY <1>8 DEF SettleDone
    <2> QED BY <1>8, <2>1, <2>2, <2>3 DEF SettleDone
  <1>9. ASSUME NEW x \in SimExecutors, SettleError(x) PROVE VerdictInv'
    <2>1. endSpine' = endSpine /\ unrecorded' = unrecorded
      BY <1>9 DEF SettleError
    <2>2. CASE simRuns' = simRuns
      BY <1>1, <2>1, <2>2
    <2>3. CASE simRuns' = Settled(x[1], "error", actor[x].turns, Nothing)
      <3>0. x[1] \in SimRuns
        BY DEF SimExecutors
      <3>1. \A q \in SimRuns :
                 \/ simRuns'[q] = simRuns[q]
                 \/ Unsettled(q) /\ simRuns'[q].status = "error"
        BY <1>0, <2>3, <3>0, SettledRow
      <3> QED BY <1>1, <2>1, <3>1 DEF Unsettled
    <2> QED BY <1>9, <2>2, <2>3 DEF SettleError
  <1> QED BY <1>2, <1>3, <1>4, <1>5, <1>6, <1>8, <1>9 DEF SimulationNext
-------------------------------------------------------------------------------
(* What is told of a simulation                                            *)

Word == Texts \cup {Nothing}
OutcomeRow == [ok : BOOLEAN, done : BOOLEAN, counted : BOOLEAN, user : Word]
(* The outcome o of the exchange k says no more than the transcript T.     *)
OutcomeOK(T, o, k) ==
  /\ o.counted => 2 * k - 1 \in T
  /\ ~o.done => o.ok /\ o.counted /\ 2 * k \in T
Counted(T, n) == n \in Nat /\ (n = 0 \/ 2 * n - 1 \in T)
ActorOK(T, log_, p, e) ==
  /\ e.at \in {"user", "assistant"} =>
       /\ e.said \in Seq(Word) /\ Counted(T, e.turns) /\ 1 .. 2 * Len(e.said) \subseteq T
       /\ p = "workflow" => Len(e.said) <= Len(log_)
  /\ e.at = "assistant" =>
       /\ 2 * Len(e.said) + 1 \in T /\ e.user \in Texts
       /\ p = "workflow" => Len(e.said) = Len(log_)
  /\ e.at \in {"error", "judge", "settle"} => Counted(T, e.turns)
RunOK(T, turns, faults, log_) ==
  /\ \E n \in Nat : T = 1 .. n
  /\ Counted(T, turns)
  /\ faults = 0 => \A k \in Nat : 2 * k \in T => k <= turns
  /\ \A k \in 1 .. Len(log_) : OutcomeOK(T, log_[k], k)
Talk ==
  \A r \in SimRuns :
    /\ RunOK(Transcript(r), simRuns[r].turns, simFaults, simSteps[r].log)
    /\ \A p \in SimPaths : ActorOK(Transcript(r), simSteps[r].log, p, actor[<<r, p>>])
StepsOK == simSteps \in [SimRuns -> [log : Seq(OutcomeRow), judged : Verdicts \cup {Nothing, "no"}]]
TalkInv == SimInv /\ simFaults \in Nat /\ (lostTurns = {} => StepsOK /\ Talk)

LEMMA TalkSuffices == TalkInv => TranscriptIsWhole
  <1> SUFFICES ASSUME TalkInv, lostTurns = {}, NEW r \in SimRuns,
                      NEW c, c = Cardinality(Transcript(r))
               PROVE  /\ Transcript(r) = 1 .. c
                      /\ simRuns[r].turns <= (c + 1) \div 2
                      /\ simFaults = 0 => c \div 2 <= simRuns[r].turns
    BY DEF TranscriptIsWhole
  <1> DEFINE T == Transcript(r)  turns == simRuns[r].turns
  <1>0. RunOK(T, turns, simFaults, simSteps[r].log)
    BY DEF TalkInv, Talk
  <1>1. PICK n \in Nat : T = 1 .. n
    BY <1>0 DEF RunOK
  <1>2. Cardinality(1 .. n) = n
    BY FS_Interval
  <1>3. c = n
    BY <1>1, <1>2
  <1> HIDE DEF T, turns
  <1>4. turns \in Nat /\ (turns = 0 \/ 2 * turns - 1 <= n)
    BY <1>0, <1>1 DEF RunOK, Counted
  <1>5. turns <= (n + 1) \div 2
    BY <1>4
  <1>6. ASSUME simFaults = 0 PROVE n \div 2 <= turns
    <2>1. n \div 2 \in Nat /\ 2 * (n \div 2) <= n
      OBVIOUS
    <2>2. CASE n \div 2 = 0
      BY <1>4, <2>2
    <2>3. CASE n \div 2 # 0
      <3>1. 2 * (n \div 2) \in T
        BY <1>1, <2>1, <2>3
      <3> QED BY <1>0, <1>6, <2>1, <3>1 DEF RunOK
    <2> QED BY <2>2, <2>3
  <1> QED BY <1>1, <1>3, <1>5, <1>6 DEF T, turns

LEMMA TalkStart == SimulationInit => TalkInv
  <1> SUFFICES ASSUME SimulationInit PROVE TalkInv
    OBVIOUS
  <1>1. SimInv
    BY SimStart
  <1>2. StepsOK /\ \A r \in SimRuns : simSteps[r].log = <<>>
    BY DEF SimulationInit, StepsOK
  <1>3. \A r \in SimRuns : Transcript(r) = {}
    <2>1. DOMAIN turnSpine = {}
      BY DEF SimulationInit
    <2> QED BY <2>1 DEF Transcript
  <1>4. \A n, f : RunOK({}, 0, f, <<>>)
    <2>1. {} = 1 .. 0 /\ 0 \in Nat
      OBVIOUS
    <2> QED BY <2>1 DEF RunOK, Counted
  <1>5. \A p : ActorOK({}, <<>>, p, Gone)
    BY DEF ActorOK, Gone
  <1>6. Talk
    BY <1>2, <1>3, <1>4, <1>5 DEF SimulationInit, Talk, SimExecutors
  <1> QED BY <1>1, <1>2, <1>6 DEF SimulationInit, TalkInv

(* What is on the spine stays there.                                       *)
LEMMA MoreIsTold ==
  ASSUME NEW T, NEW U, T \subseteq U, NEW log_, NEW more, NEW p, NEW e,
         ActorOK(T, log_, p, e), more = log_ \/ p # "workflow"
  PROVE  ActorOK(U, more, p, e)
  BY DEF ActorOK, Counted

(* An executor of the run r goes on to v.                                  *)
LEMMA TalkKept ==
  ASSUME TalkInv, SimInv', NEW r \in SimRuns, NEW p \in SimPaths, NEW v, Act(<<r, p>>, v),
         simFaults' \in Nat, simFaults <= simFaults', lostTurns \subseteq lostTurns',
         lostTurns' = {} =>
           /\ StepsOK'
           /\ Transcript(r) \subseteq Transcript(r)'
           /\ \A q \in SimRuns \ {r} : /\ Transcript(q)' = Transcript(q)
                                       /\ simRuns'[q].turns = simRuns[q].turns
                                       /\ simSteps'[q].log = simSteps[q].log
           /\ RunOK(Transcript(r)', simRuns'[r].turns, simFaults', simSteps'[r].log)
           /\ ActorOK(Transcript(r)', simSteps'[r].log, p, v)
           /\ simSteps'[r].log = simSteps[r].log \/ p = "workflow"
  PROVE  TalkInv'
  <1> SUFFICES ASSUME lostTurns' = {} PROVE StepsOK' /\ Talk'
    BY DEF TalkInv
  <1>0. Talk /\ (simFaults' = 0 => simFaults = 0)
    BY DEF TalkInv
  <1>1. \A q \in SimRuns, o \in SimPaths : actor'[<<q, o>>] = IF q = r /\ o = p THEN v ELSE actor[<<q, o>>]
    BY DEF TalkInv, SimInv, SimExecutors, Act
  <1>2. ASSUME NEW q \in SimRuns, q # r
        PROVE  /\ RunOK(Transcript(q)', simRuns'[q].turns, simFaults', simSteps'[q].log)
               /\ \A o \in SimPaths : ActorOK(Transcript(q)', simSteps'[q].log, o, actor'[<<q, o>>])
    <2>1. /\ Transcript(q)' = Transcript(q) /\ simRuns'[q].turns = simRuns[q].turns
          /\ simSteps'[q].log = simSteps[q].log /\ \A o \in SimPaths : actor'[<<q, o>>] = actor[<<q, o>>]
      BY <1>1, <1>2
    <2>2. RunOK(Transcript(q), simRuns[q].turns, simFaults', simSteps[q].log)
      BY <1>0 DEF Talk, RunOK
    <2> QED BY <1>0, <2>1, <2>2 DEF Talk
  <1>3. \A o \in SimPaths : ActorOK(Transcript(r)', simSteps'[r].log, o, actor'[<<r, o>>])
    <2> SUFFICES ASSUME NEW o \in SimPaths, o # p PROVE ActorOK(Transcript(r)', simSteps'[r].log, o, actor[<<r, o>>])
      BY <1>1
    <2>1. PICK T, U, a, b, e : T = Transcript(r) /\ U = Transcript(r)' /\ a = simSteps[r].log
                               /\ b = simSteps'[r].log /\ e = actor[<<r, o>>]
      OBVIOUS
    <2>2. ActorOK(T, a, o, e) /\ T \subseteq U /\ (b = a \/ o # "workflow")
      BY <1>0, <2>1 DEF Talk
    <2>3. ActorOK(U, b, o, e)
      BY <2>2, MoreIsTold
    <2> QED BY <2>1, <2>3
  <1> QED BY <1>2, <1>3 DEF Talk

(* ... and says nothing.                                                   *)
LEMMA TalkGoesOn ==
  ASSUME TalkInv, SimInv', NEW r \in SimRuns, NEW p \in SimPaths, NEW v, Act(<<r, p>>, v),
         UNCHANGED <<simRuns, turnSpine, lostTurns>>, simFaults' \in Nat, simFaults <= simFaults',
         lostTurns = {} => /\ StepsOK' /\ \A q \in SimRuns : simSteps'[q].log = simSteps[q].log
                           /\ ActorOK(Transcript(r), simSteps[r].log, p, v)
  PROVE  TalkInv'
  <1>1. \A q \in SimRuns : Transcript(q)' = Transcript(q) /\ simRuns'[q].turns = simRuns[q].turns
    BY DEF Transcript
  <1>2. lostTurns = {} => RunOK(Transcript(r), simRuns[r].turns, simFaults', simSteps[r].log)
    BY DEF TalkInv, Talk, RunOK
  <1> QED BY <1>1, <1>2, TalkKept

(* A turn that is recorded is told, and only then the row may count it.    *)
LEMMA TurnIsTold ==
  ASSUME TalkInv, NEW r \in SimRuns, NEW m, NEW who \in {"user", "assistant"}, NEW t,
         NEW counted \in BOOLEAN, RecordTurn(<<r, m, who>>, t, counted)
  PROVE  /\ simFaults' \in Nat /\ simFaults <= simFaults' /\ lostTurns \subseteq lostTurns'
         /\ lostTurns' = {} /\ m \in Nat =>
              /\ Transcript(r)' = Transcript(r) \cup {2 * m + (IF who = "user" THEN 1 ELSE 2)}
              /\ \A q \in SimRuns \ {r} :
                   Transcript(q)' = Transcript(q) /\ simRuns'[q].turns = simRuns[q].turns
              /\ simRuns'[r].turns = simRuns[r].turns \/ (counted /\ simRuns'[r].turns = m + 1)
              /\ simRuns'[r].turns >= simRuns[r].turns
              /\ simFaults' = 0 /\ counted => simRuns'[r].turns >= m + 1
  <1> DEFINE turn == <<r, m, who>>
  <1>0. turn[1] = r /\ turn[2] = m /\ turn[3] = who
    OBVIOUS
  <1>1. PICK lost \in SUBSET ({"event"} \cup (IF counted THEN {"progress"} ELSE {})) :
          /\ turnSpine' = IF "event" \in lost THEN turnSpine ELSE FirstStands(turnSpine, turn, t)
          /\ simRuns' = IF counted /\ "progress" \notin lost /\ simRuns[r].turns < m + 1
                        THEN [simRuns EXCEPT ![r].turns = m + 1] ELSE simRuns
          /\ lostTurns' = IF "event" \in lost THEN lostTurns \cup {turn} ELSE lostTurns
          /\ simFaults' = simFaults + Cardinality(lost)
    BY DEF RecordTurn
  <1>2. IsFiniteSet(lost)
    <2>1. lost \subseteq {"event", "progress"}
      OBVIOUS
    <2>2. IsFiniteSet({"event", "progress"})
      <3>1. IsFiniteSet({}) /\ {"event"} = {} \cup {"event"}
            /\ {"event", "progress"} = {"event"} \cup {"progress"}
        BY FS_EmptySet
      <3>2. IsFiniteSet({"event"})
        BY <3>1, FS_AddElement
      <3> QED BY <3>1, <3>2, FS_AddElement
    <2> QED BY <2>1, <2>2, FS_Subset
  <1>3. Cardinality(lost) \in Nat /\ (Cardinality(lost) = 0 => lost = {})
    BY <1>2, FS_CardinalityType, FS_EmptySet
  <1>4. simFaults' \in Nat /\ simFaults <= simFaults' /\ (simFaults' = 0 => lost = {})
    BY <1>1, <1>3 DEF TalkInv
  <1>5. lostTurns \subseteq lostTurns'
    BY <1>1
  <1> SUFFICES ASSUME lostTurns' = {}, m \in Nat
               PROVE  /\ Transcript(r)' = Transcript(r) \cup {2 * m + (IF who = "user" THEN 1 ELSE 2)}
                      /\ \A q \in SimRuns \ {r} :
                           Transcript(q)' = Transcript(q) /\ simRuns'[q].turns = simRuns[q].turns
                      /\ simRuns'[r].turns = simRuns[r].turns \/ (counted /\ simRuns'[r].turns = m + 1)
                      /\ simRuns'[r].turns >= simRuns[r].turns
                      /\ simFaults' = 0 /\ counted => simRuns'[r].turns >= m + 1
    BY <1>4, <1>5
  <1>6. "event" \notin lost /\ lostTurns = {}
    BY <1>1
  <1>7. DOMAIN turnSpine' = DOMAIN turnSpine \cup {turn}
    BY <1>1, <1>6 DEF FirstStands
  <1>8. Place(turn) = 2 * m + (IF who = "user" THEN 1 ELSE 2)
    BY DEF Place
  <1>9. Transcript(r)' = Transcript(r) \cup {Place(turn)}
    <2>1. {j \in DOMAIN turnSpine' : j[1] = r} = {j \in DOMAIN turnSpine : j[1] = r} \cup {turn}
      BY <1>7, <1>0
    <2> QED BY <2>1 DEF Transcript
  <1>10. ASSUME NEW q \in SimRuns \ {r} PROVE Transcript(q)' = Transcript(q)
    <2>1. {j \in DOMAIN turnSpine' : j[1] = q} = {j \in DOMAIN turnSpine : j[1] = q}
      BY <1>7, <1>0
    <2> QED BY <2>1 DEF Transcript
  <1>11. simRuns[r].turns \in Nat
    BY <1>6 DEF TalkInv, Talk, RunOK, Counted
  <1>12. SimInv
    BY DEF TalkInv
  <1>13. CASE counted /\ "progress" \notin lost /\ simRuns[r].turns < m + 1
    <2>1. simRuns' = [simRuns EXCEPT ![r].turns = m + 1]
      BY <1>1, <1>13
    <2>2. /\ simRuns'[r].turns = m + 1
          /\ \A q \in SimRuns \ {r} : simRuns'[q].turns = simRuns[q].turns
      BY <2>1, <1>12 DEF SimInv
    <2> QED BY <1>8, <1>9, <1>10, <1>11, <1>13, <2>2
  <1>14. CASE ~(counted /\ "progress" \notin lost /\ simRuns[r].turns < m + 1)
    <2>1. simRuns' = simRuns
      BY <1>1, <1>14
    <2>2. simFaults' = 0 /\ counted => simRuns[r].turns >= m + 1
      BY <1>4, <1>11, <1>14
    <2> QED BY <1>8, <1>9, <1>10, <1>11, <2>1, <2>2
  <1> QED BY <1>13, <1>14

(* What an executor makes of a sound outcome.                              *)
LEMMA AfterIsSound ==
  ASSUME NEW T, NEW log_, NEW p, NEW e, e.said \in Seq(Word), Counted(T, e.turns),
         1 .. 2 * Len(e.said) \subseteq T, NEW o \in OutcomeRow, OutcomeOK(T, o, Len(e.said) + 1),
         p = "workflow" => Len(e.said) + 1 <= Len(log_)
  PROVE  ActorOK(T, log_, p, AfterExchange(e, o))
  <1> DEFINE n == Len(e.said) + 1  turns == IF o.counted THEN n ELSE e.turns
  <1>1. n \in Nat \ {0} /\ Len(e.said) \in Nat
    OBVIOUS
  <1>2. Counted(T, turns)
    BY <1>1 DEF Counted, OutcomeOK
  <1>3. ActorOK(T, log_, p, Erring(e.turns)) /\ ActorOK(T, log_, p, Judging(turns))
    BY <1>2 DEF ActorOK, Erring, Judging
  <1>4. ASSUME ~o.done PROVE ActorOK(T, log_, p, Talking(turns, Append(e.said, o.user)))
    <2>1. PICK s : s = Append(e.said, o.user)
      OBVIOUS
    <2>2. s \in Seq(Word) /\ Len(s) = n
      BY <2>1 DEF OutcomeRow
    <2>3. 1 .. 2 * n \subseteq T
      BY <1>1, <1>4 DEF OutcomeOK
    <2>4. ActorOK(T, log_, p, Talking(turns, s))
      BY <1>2, <2>2, <2>3 DEF ActorOK, Talking
    <2> QED BY <2>1, <2>4
  <1>5. o.ok \in BOOLEAN /\ o.done \in BOOLEAN /\ o.counted \in BOOLEAN
    BY DEF OutcomeRow
  <1>6. \/ AfterExchange(e, o) = Erring(e.turns) \/ AfterExchange(e, o) = Judging(turns)
        \/ ~o.done /\ AfterExchange(e, o) = Talking(turns, Append(e.said, o.user))
    BY <1>5 DEF AfterExchange
  <1> QED BY <1>3, <1>4, <1>6

(* An exchange that ends: its outcome is what is told of it.               *)
LEMMA ExchangeEnds ==
  ASSUME TalkInv, SimInv', NEW r \in SimRuns, NEW p \in SimPaths,
         actor[<<r, p>>].at \in {"user", "assistant"}, actor[<<r, p>>].at = "user" => ~Recalls(<<r, p>>),
         NEW o, EndExchange(<<r, p>>, o),
         simFaults' \in Nat, simFaults <= simFaults', lostTurns \subseteq lostTurns',
         lostTurns' = {} =>
           /\ Transcript(r) \subseteq Transcript(r)'
           /\ \A q \in SimRuns \ {r} : /\ Transcript(q)' = Transcript(q)
                                       /\ simRuns'[q].turns = simRuns[q].turns
           /\ RunOK(Transcript(r)', simRuns'[r].turns, simFaults', simSteps[r].log)
           /\ o \in OutcomeRow
           /\ OutcomeOK(Transcript(r)', o, Len(actor[<<r, p>>].said) + 1)
  PROVE  TalkInv'
  <1> DEFINE x == <<r, p>>  e == actor[x]  was == simSteps[r].log
  <1>1. x[1] = r /\ x[2] = p
    OBVIOUS
  <1>2. Act(<<r, p>>, AfterExchange(e, o))
    BY DEF EndExchange
  <1>3. ASSUME lostTurns' = {}
        PROVE  /\ StepsOK' /\ Transcript(r) \subseteq Transcript(r)'
               /\ \A q \in SimRuns \ {r} : simSteps'[q].log = simSteps[q].log
               /\ RunOK(Transcript(r)', simRuns'[r].turns, simFaults', simSteps'[r].log)
               /\ ActorOK(Transcript(r)', simSteps'[r].log, p, AfterExchange(e, o))
               /\ simSteps'[r].log = simSteps[r].log \/ p = "workflow"
    <2>1. StepsOK /\ ActorOK(Transcript(r), was, p, e) /\ was \in Seq(OutcomeRow)
      <3>1. lostTurns = {}
        BY <1>3
      <3> QED BY <3>1 DEF TalkInv, Talk, StepsOK
    <2>2. /\ e.said \in Seq(Word) /\ Counted(Transcript(r), e.turns)
          /\ 1 .. 2 * Len(e.said) \subseteq Transcript(r)
          /\ p = "workflow" => Len(e.said) <= Len(was) /\ (e.at = "assistant" => Len(e.said) = Len(was))
      BY <2>1 DEF ActorOK
    <2>3. p = "workflow" => Len(e.said) = Len(was)
      <3>1. Len(e.said) \in Nat /\ Len(was) \in Nat
        BY <2>1, <2>2
      <3> QED BY <1>1, <2>2, <3>1 DEF Recalls
    <2>4. CASE p = "workflow"
      <3>1. simSteps' = [simSteps EXCEPT ![r].log = Append(was, o)]
        BY <1>1, <2>4 DEF EndExchange
      <3>2. PICK now : now = Append(was, o)
        OBVIOUS
      <3>3. now \in Seq(OutcomeRow) /\ Len(now) = Len(was) + 1 /\ now[Len(was) + 1] = o
            /\ \A k \in 1 .. Len(was) : now[k] = was[k]
        BY <1>3, <2>1, <3>2
      <3>4. /\ StepsOK' /\ simSteps'[r].log = now
            /\ \A q \in SimRuns \ {r} : simSteps'[q].log = simSteps[q].log
        BY <2>1, <3>1, <3>2, <3>3 DEF StepsOK
      <3>5. OutcomeOK(Transcript(r)', o, Len(was) + 1)
        BY <1>3, <2>3, <2>4
      <3>6. ASSUME NEW k \in 1 .. Len(now) PROVE OutcomeOK(Transcript(r)', now[k], k)
        <4>0. Len(was) \in Nat
          BY <2>1
        <4>1. CASE k \in 1 .. Len(was)
          BY <1>3, <3>3, <4>1 DEF RunOK
        <4>2. CASE k = Len(was) + 1
          BY <3>3, <3>5, <4>2
        <4> QED BY <3>3, <4>0, <4>1, <4>2
      <3>7. RunOK(Transcript(r)', simRuns'[r].turns, simFaults', now)
        BY <1>3, <3>6 DEF RunOK
      <3>8. ActorOK(Transcript(r)', now, p, AfterExchange(e, o))
        <4>1. PICK T : T = Transcript(r)'
          OBVIOUS
        <4>2. /\ Counted(T, e.turns) /\ 1 .. 2 * Len(e.said) \subseteq T
              /\ OutcomeOK(T, o, Len(e.said) + 1) /\ Len(e.said) + 1 <= Len(now)
          <5>1. Counted(T, e.turns) /\ 1 .. 2 * Len(e.said) \subseteq T
            BY <1>3, <2>2, <4>1 DEF Counted
          <5>2. OutcomeOK(T, o, Len(e.said) + 1)
            BY <1>3, <4>1
          <5>3. Len(e.said) + 1 <= Len(now)
            BY <2>1, <2>3, <2>4, <3>3
          <5> QED BY <5>1, <5>2, <5>3
        <4>3. ActorOK(T, now, p, AfterExchange(e, o))
          BY <1>3, <2>2, <4>2, AfterIsSound
        <4> QED BY <4>1, <4>3
      <3> QED BY <1>3, <2>4, <3>4, <3>7, <3>8
    <2>5. CASE p # "workflow"
      <3>1. simSteps' = simSteps
        BY <1>1, <2>5 DEF EndExchange
      <3>2. ActorOK(Transcript(r)', was, p, AfterExchange(e, o))
        <4>1. PICK T : T = Transcript(r)'
          OBVIOUS
        <4>2. /\ Counted(T, e.turns) /\ 1 .. 2 * Len(e.said) \subseteq T
              /\ OutcomeOK(T, o, Len(e.said) + 1)
          BY <1>3, <2>2, <4>1 DEF Counted
        <4>3. ActorOK(T, was, p, AfterExchange(e, o))
          BY <1>3, <2>2, <2>5, <4>2, AfterIsSound
        <4> QED BY <4>1, <4>3
      <3> QED BY <1>3, <2>1, <3>1, <3>2 DEF StepsOK
    <2> QED BY <2>4, <2>5
  <1> HIDE DEF x, e, was
  <1>4. PICK v : v = AfterExchange(e, o) /\ Act(<<r, p>>, v)
    BY <1>2
  <1> QED BY <1>3, <1>4, TalkKept

LEMMA NoneTalks ==
  ASSUME TalkInv, SimInv', UNCHANGED <<simRuns, turnSpine, lostTurns, simSteps>>,
         simFaults' \in Nat, simFaults <= simFaults',
         \A y \in SimExecutors : actor'[y] = actor[y] \/ actor'[y].at \in {"gone", "dispatch", "begin"}
  PROVE  TalkInv'
  <1> SUFFICES ASSUME lostTurns = {} PROVE StepsOK' /\ Talk'
    BY DEF TalkInv
  <1>1. StepsOK' /\ Talk
    BY DEF TalkInv, StepsOK
  <1>2. ASSUME NEW r \in SimRuns
        PROVE  /\ RunOK(Transcript(r)', simRuns'[r].turns, simFaults', simSteps'[r].log)
               /\ \A p \in SimPaths : ActorOK(Transcript(r)', simSteps'[r].log, p, actor'[<<r, p>>])
    <2>1. Transcript(r)' = Transcript(r)
      BY DEF Transcript
    <2>2. RunOK(Transcript(r), simRuns[r].turns, simFaults', simSteps[r].log)
      BY <1>1 DEF TalkInv, Talk, RunOK
    <2>3. ASSUME NEW p \in SimPaths PROVE ActorOK(Transcript(r), simSteps[r].log, p, actor'[<<r, p>>])
      <3>1. <<r, p>> \in SimExecutors
        BY DEF SimExecutors
      <3>2. CASE actor'[<<r, p>>] = actor[<<r, p>>]
        BY <1>1, <3>2 DEF Talk
      <3>3. CASE actor'[<<r, p>>].at \in {"gone", "dispatch", "begin"}
        BY <3>3 DEF ActorOK
      <3> QED BY <3>1, <3>2, <3>3
    <2> QED BY <2>1, <2>2, <2>3
  <1> QED BY <1>1, <1>2 DEF Talk

(* The run's row counts another exchange that is recorded.                 *)
LEMMA MoreIsCounted ==
  ASSUME NEW T, NEW turns, NEW faults, NEW log_, RunOK(T, turns, faults, log_),
         NEW m \in Nat, NEW U, NEW now, NEW later \in Nat, later = 0 => faults = 0,
         1 .. 2 * m \subseteq T, U = T \cup {2 * m + 1} \/ (2 * m + 1 \in T /\ U = T \cup {2 * m + 2}),
         now = turns \/ now = m + 1,
         2 * m + 2 \in U /\ 2 * m + 2 \notin T => (later = 0 => now >= m + 1),
         later = 0 => now >= turns
  PROVE  RunOK(U, now, later, log_)
  <1>1. PICK n \in Nat : T = 1 .. n
    BY DEF RunOK
  <1>2. \E k \in Nat : U = 1 .. k
    <2>1. m = 0 \/ n >= 2 * m
      BY <1>1
    <2>2. CASE U = T \cup {2 * m + 1}
      <3>1. CASE 2 * m + 1 \in T
        BY <1>1, <2>2, <3>1
      <3>2. CASE 2 * m + 1 \notin T
        <4>1. n = 2 * m
          BY <1>1, <2>1, <3>2
        <4>2. U = 1 .. n + 1
          BY <1>1, <2>2, <4>1
        <4> QED BY <4>2
      <3> QED BY <3>1, <3>2
    <2>3. CASE 2 * m + 1 \in T /\ U = T \cup {2 * m + 2}
      <3>1. CASE 2 * m + 2 \in T
        BY <1>1, <2>3, <3>1
      <3>2. CASE 2 * m + 2 \notin T
        <4>1. n = 2 * m + 1
          BY <1>1, <2>3, <3>2
        <4>2. U = 1 .. n + 1
          BY <1>1, <2>3, <4>1
        <4> QED BY <4>2
      <3> QED BY <3>1, <3>2
    <2> QED BY <2>2, <2>3
  <1>3. turns \in Nat /\ Counted(U, turns) /\ Counted(U, m + 1)
    <2>1. Counted(T, turns)
      BY DEF RunOK
    <2>2. 2 * (m + 1) - 1 = 2 * m + 1 /\ 2 * m + 1 \in U
      OBVIOUS
    <2> QED BY <2>1, <2>2 DEF Counted
  <1>4. ASSUME later = 0, NEW k \in Nat, 2 * k \in U PROVE k <= now
    <2>0. now \in Nat
      BY <1>3
    <2>1. CASE 2 * k \in T
      <3>1. k <= turns /\ turns <= now
        BY <1>4, <2>1 DEF RunOK
      <3> QED BY <1>3, <2>0, <3>1
    <2>2. CASE 2 * k \notin T
      <3>1. 2 * k = 2 * m + 2
        BY <1>4, <2>2
      <3>2. k = m + 1
        BY <3>1
      <3> QED BY <1>4, <2>2, <3>1, <3>2
    <2> QED BY <2>1, <2>2
  <1>5. \A k \in 1 .. Len(log_) : OutcomeOK(U, log_[k], k)
    BY DEF RunOK, OutcomeOK
  <1> QED BY <1>2, <1>3, <1>4, <1>5 DEF RunOK

LEMMA TalkStep == TalkInv /\ [SimulationNext]_simVars => TalkInv'
  <1> SUFFICES ASSUME TalkInv, [SimulationNext]_simVars PROVE TalkInv'
    OBVIOUS
  <1>0. SimInv /\ SimInv' /\ simFaults \in Nat
    BY SimRefines DEF TalkInv
  <1>f. ASSUME simFaults' = simFaults \/ SimFault
        PROVE  simFaults' \in Nat /\ simFaults <= simFaults'
    BY <1>0, <1>f DEF SimFault
  <1>1. CASE UNCHANGED simVars \/ CreateScenario
    <2>1. UNCHANGED <<simRuns, turnSpine, actor, simSteps, simFaults, lostTurns>>
      BY <1>1 DEF simVars, CreateScenario
    <2> QED BY <1>0, <2>1, NoneTalks
  <1>2. ASSUME NEW r \in SimRuns, StartSimulation(r) PROVE TalkInv'
    <2>1. /\ simRuns' = [simRuns EXCEPT ![r].status = "running"] /\ Act(<<r, "inline">>, [at |-> "dispatch"])
          /\ UNCHANGED <<turnSpine, simSteps, simFaults, lostTurns>>
      BY <1>2 DEF StartSimulation
    <2>2. \A q \in SimRuns : simRuns'[q].turns = simRuns[q].turns
      BY <1>0, <2>1 DEF SimInv
    <2>3. \A q \in SimRuns : Transcript(q)' = Transcript(q)
      BY <2>1 DEF Transcript
    <2>4. ASSUME lostTurns = {}
          PROVE  /\ StepsOK' /\ RunOK(Transcript(r), simRuns[r].turns, simFaults, simSteps[r].log)
                 /\ ActorOK(Transcript(r), simSteps[r].log, "inline", [at |-> "dispatch"])
      <3>1. ActorOK(Transcript(r), simSteps[r].log, "inline", [at |-> "dispatch"])
        BY DEF ActorOK
      <3> QED BY <2>1, <2>4, <3>1 DEF TalkInv, Talk, StepsOK
    <2>5. "inline" \in SimPaths
      BY DEF SimPaths
    <2> QED BY <1>0, <2>1, <2>2, <2>3, <2>4, <2>5, TalkKept
  <1>3. ASSUME NEW r \in SimRuns, DispatchSimulation(r) PROVE TalkInv'
    <2>1. UNCHANGED <<simRuns, turnSpine, simSteps, lostTurns>> /\ (simFaults' = simFaults \/ SimFault)
      BY <1>3 DEF DispatchSimulation
    <2>2. \A y \in SimExecutors : actor'[y] \in {actor[y], Gone, [at |-> "begin"]}
      BY <1>0, <1>3 DEF DispatchSimulation, Act, SimInv
    <2>3. \A y \in SimExecutors : actor'[y] = actor[y] \/ actor'[y].at \in {"gone", "dispatch", "begin"}
      BY <2>2 DEF Gone
    <2> QED BY <1>0, <1>f, <2>1, <2>3, NoneTalks
  <1>4. ASSUME NEW r \in SimRuns, NEW p \in SimPaths,
               \/ BeginSimulation(<<r, p>>) \/ ReplayExchange(<<r, p>>) \/ UserSpeaks(<<r, p>>)
               \/ AssistantAnswers(<<r, p>>) \/ Deadline(<<r, p>>) \/ Judge(<<r, p>>)
               \/ SettleDone(<<r, p>>) \/ SettleError(<<r, p>>) \/ CrashSimulation(<<r, p>>)
        PROVE  TalkInv'
    <2> DEFINE x == <<r, p>>  e == actor[x]  T == Transcript(r)  was == simSteps[r].log  m == Len(e.said)
    <2>0. x \in SimExecutors /\ x[1] = r /\ x[2] = p
      BY DEF SimExecutors
    <2>e. ASSUME lostTurns = {}
          PROVE  /\ StepsOK /\ RunOK(T, simRuns[r].turns, simFaults, was) /\ ActorOK(T, was, p, e)
                 /\ was \in Seq(OutcomeRow)
      BY <2>e DEF TalkInv, Talk, StepsOK
    <2>g. ASSUME NEW v, Act(x, v), UNCHANGED <<simRuns, turnSpine, lostTurns, simSteps, simFaults>>,
                 lostTurns = {} => ActorOK(T, was, p, v)
          PROVE  TalkInv'
      <3>1. lostTurns = {} => StepsOK'
        BY <2>e, <2>g DEF StepsOK
      <3> QED BY ONLY TalkInv, <1>0, <2>g, <3>1, TalkGoesOn, r \in SimRuns, p \in SimPaths
    <2>1. CASE BeginSimulation(x)
      <3>1. UNCHANGED <<simRuns, turnSpine, lostTurns, simSteps, simFaults>>
        BY <2>1 DEF BeginSimulation
      <3>2. ASSUME lostTurns = {} PROVE ActorOK(T, was, p, Talking(0, <<>>))
        <4>1. PICK s : s = <<>>
          OBVIOUS
        <4>2. s \in Seq(Word) /\ Len(s) = 0 /\ 1 .. 2 * 0 = {}
          BY <4>1
        <4>3. 0 <= Len(was)
          BY <2>e, <3>2
        <4> QED BY <4>1, <4>2, <4>3 DEF ActorOK, Talking, Counted
      <3>3. lostTurns = {} => ActorOK(T, was, p, Erring(simRuns[r].turns))
        BY <2>e DEF ActorOK, Erring, RunOK
      <3>4. Act(x, Talking(0, <<>>)) \/ Act(x, Erring(simRuns[r].turns))
        BY <2>0, <2>1 DEF BeginSimulation
      <3> QED BY <2>g, <3>1, <3>2, <3>3, <3>4
    <2>2. CASE ReplayExchange(x)
      <3>1. /\ UNCHANGED <<simRuns, turnSpine, lostTurns, simSteps, simFaults>> /\ e.at = "user" /\ Recalls(x)
            /\ Act(x, AfterExchange(e, was[m + 1]))
        BY <2>0, <2>2 DEF ReplayExchange
      <3>2. ASSUME lostTurns = {} PROVE ActorOK(T, was, p, AfterExchange(e, was[m + 1]))
        <4>1. PICK U, o : U = T /\ o = was[m + 1]
          OBVIOUS
        <4>2. e.said \in Seq(Word) /\ Counted(U, e.turns) /\ 1 .. 2 * Len(e.said) \subseteq U
          BY <2>e, <3>1, <3>2, <4>1 DEF ActorOK
        <4>3. p = "workflow" /\ m < Len(was) /\ m \in Nat /\ Len(was) \in Nat
          BY <2>0, <2>e, <3>1, <3>2, <4>2 DEF Recalls
        <4>4. m + 1 \in 1 .. Len(was) /\ Len(e.said) + 1 <= Len(was)
          BY <4>3
        <4>5. o \in OutcomeRow /\ OutcomeOK(U, o, Len(e.said) + 1)
          BY <2>e, <3>2, <4>1, <4>4 DEF RunOK
        <4>6. ActorOK(U, was, p, AfterExchange(e, o))
          BY <4>2, <4>4, <4>5, AfterIsSound
        <4> QED BY <4>1, <4>6
      <3> QED BY <2>g, <3>1, <3>2
    <2>s. ASSUME e.at \in {"user", "assistant"}, e.at = "user" => ~Recalls(x),
                 NEW ok \in BOOLEAN, EndExchange(x, Exchanged(ok, TRUE, FALSE, Nothing)),
                 UNCHANGED <<simRuns, turnSpine, simFaults, lostTurns>>
          PROVE  TalkInv'
      <3> DEFINE o == Exchanged(ok, TRUE, FALSE, Nothing)
      <3>1. o \in OutcomeRow /\ \A U, k : OutcomeOK(U, o, k)
        BY DEF Exchanged, OutcomeRow, OutcomeOK, Word
      <3>2. Transcript(r)' = T /\ \A q \in SimRuns \ {r} : Transcript(q)' = Transcript(q)
        BY <2>s DEF Transcript
      <3>3. lostTurns' = {} => RunOK(Transcript(r)', simRuns'[r].turns, simFaults', was)
        BY <2>s, <2>e, <3>2
      <3> HIDE DEF o
      <3>4. EndExchange(x, o)
        BY <2>s DEF o
      <3>5. lostTurns' = {} => o \in OutcomeRow /\ OutcomeOK(Transcript(r)', o, Len(actor[<<r, p>>].said) + 1)
        BY <3>1
      <3> QED BY <1>0, <2>s, <3>2, <3>3, <3>4, <3>5, ExchangeEnds
    <2>3. CASE UserSpeaks(x)
      <3>1. e.at = "user" /\ ~Recalls(x)
        BY <2>3 DEF UserSpeaks
      <3>2. CASE \E ok \in BOOLEAN : /\ EndExchange(x, Exchanged(ok, TRUE, FALSE, Nothing))
                                    /\ UNCHANGED <<simRuns, turnSpine, simFaults, lostTurns>>
        BY <2>s, <3>1, <3>2
      <3>3. ASSUME NEW t \in Texts, RecordTurn(<<r, m, "user">>, t, TRUE),
                   EndExchange(x, Exchanged(TRUE, TRUE, TRUE, t))
            PROVE  TalkInv'
        <4>1. simFaults' \in Nat /\ simFaults <= simFaults' /\ lostTurns \subseteq lostTurns'
          BY <3>3, TurnIsTold
        <4>2. PICK o : o = Exchanged(TRUE, TRUE, TRUE, t)
          OBVIOUS
        <4>3. ASSUME lostTurns' = {}
              PROVE  /\ T \subseteq Transcript(r)'
                     /\ \A q \in SimRuns \ {r} : /\ Transcript(q)' = Transcript(q)
                                                 /\ simRuns'[q].turns = simRuns[q].turns
                     /\ RunOK(Transcript(r)', simRuns'[r].turns, simFaults', was)
                     /\ o \in OutcomeRow /\ OutcomeOK(Transcript(r)', o, m + 1)
          <5>0. lostTurns = {}
            BY <4>1, <4>3
          <5>1. m \in Nat /\ 1 .. 2 * m \subseteq T
            BY <2>e, <3>1, <5>0, SMTT(30) DEF ActorOK
          <5>2. /\ Transcript(r)' = T \cup {2 * m + 1}
                /\ \A q \in SimRuns \ {r} :
                     Transcript(q)' = Transcript(q) /\ simRuns'[q].turns = simRuns[q].turns
                /\ simRuns'[r].turns = simRuns[r].turns \/ simRuns'[r].turns = m + 1
                /\ simRuns'[r].turns >= simRuns[r].turns
            BY <3>3, <4>3, <5>1, TurnIsTold
          <5>3. RunOK(Transcript(r)', simRuns'[r].turns, simFaults', was)
            <6>1. PICK U, now, later : U = Transcript(r)' /\ now = simRuns'[r].turns /\ later = simFaults'
              OBVIOUS
            <6>2. later \in Nat /\ (later = 0 => simFaults = 0)
              BY <1>0, <4>1, <6>1
            <6>3. RunOK(T, simRuns[r].turns, simFaults, was)
              BY <2>e, <5>0
            <6>4. /\ U = T \cup {2 * m + 1} /\ ~(2 * m + 2 \in U /\ 2 * m + 2 \notin T)
                  /\ (now = simRuns[r].turns \/ now = m + 1) /\ now >= simRuns[r].turns
              BY <5>1, <5>2, <6>1
            <6>5. RunOK(U, now, later, was)
              BY ONLY <5>1, <6>2, <6>3, <6>4, MoreIsCounted
            <6> QED BY <6>1, <6>5
          <5>4. o \in OutcomeRow
            BY <4>2 DEF OutcomeRow, Exchanged, Word
          <5>5. 2 * (m + 1) - 1 = 2 * m + 1
            BY <5>1
          <5>6. OutcomeOK(Transcript(r)', o, m + 1)
            BY <4>2, <5>2, <5>5 DEF OutcomeOK, Exchanged
          <5> QED BY <5>2, <5>3, <5>4, <5>6
        <4>4. EndExchange(x, o)
          BY <3>3, <4>2
        <4> QED BY <1>0, <3>1, <4>1, <4>3, <4>4, ExchangeEnds
      <3>4. ASSUME NEW t \in Texts, RecordTurn(<<r, m, "user">>, t, FALSE), UNCHANGED simSteps,
                   Act(x, [at |-> "assistant", turns |-> e.turns, said |-> e.said, user |-> t])
            PROVE  TalkInv'
        <4>1. simFaults' \in Nat /\ simFaults <= simFaults' /\ lostTurns \subseteq lostTurns'
          BY <3>4, TurnIsTold
        <4>2. PICK v : v = [at |-> "assistant", turns |-> e.turns, said |-> e.said, user |-> t]
          OBVIOUS
        <4>3. ASSUME lostTurns' = {}
              PROVE  /\ StepsOK' /\ T \subseteq Transcript(r)'
                     /\ \A q \in SimRuns \ {r} : /\ Transcript(q)' = Transcript(q)
                                                 /\ simRuns'[q].turns = simRuns[q].turns
                     /\ RunOK(Transcript(r)', simRuns'[r].turns, simFaults', was)
                     /\ ActorOK(Transcript(r)', was, p, v)
          <5>0. lostTurns = {}
            BY <4>1, <4>3
          <5>1. /\ m \in Nat /\ 1 .. 2 * m \subseteq T /\ e.said \in Seq(Word) /\ Counted(T, e.turns)
                /\ p = "workflow" => m <= Len(was)
            BY <2>e, <3>1, <5>0 DEF ActorOK
          <5>2. /\ Transcript(r)' = T \cup {2 * m + 1}
                /\ \A q \in SimRuns \ {r} :
                     Transcript(q)' = Transcript(q) /\ simRuns'[q].turns = simRuns[q].turns
                /\ simRuns'[r].turns = simRuns[r].turns
            BY <3>4, <4>3, <5>1, TurnIsTold
          <5>3. RunOK(Transcript(r)', simRuns'[r].turns, simFaults', was)
            <6>1. PICK U, now, later : U = Transcript(r)' /\ now = simRuns'[r].turns /\ later = simFaults'
              OBVIOUS
            <6>2. later \in Nat /\ (later = 0 => simFaults = 0)
              BY <1>0, <4>1, <6>1
            <6>3. RunOK(T, simRuns[r].turns, simFaults, was)
              BY <2>e, <5>0
            <6>4. /\ U = T \cup {2 * m + 1} /\ ~(2 * m + 2 \in U /\ 2 * m + 2 \notin T)
                  /\ now = simRuns[r].turns /\ now >= simRuns[r].turns
              BY <5>1, <5>2, <6>1, <6>3 DEF RunOK, Counted
            <6>5. RunOK(U, now, later, was)
              BY ONLY <5>1, <6>2, <6>3, <6>4, MoreIsCounted
            <6> QED BY <6>1, <6>5
          <5>4. p = "workflow" => m = Len(was)
            <6>1. Len(was) \in Nat
              BY <2>e, <5>0
            <6> QED BY <2>0, <3>1, <5>1, <6>1 DEF Recalls
          <5>5. ActorOK(Transcript(r)', was, p, v)
            BY <4>2, <5>1, <5>2, <5>4 DEF ActorOK, Counted
          <5>6. StepsOK'
            BY <2>e, <3>4, <5>0 DEF StepsOK
          <5> QED BY <5>2, <5>3, <5>5, <5>6
        <4>4. Act(<<r, p>>, v) /\ simSteps' = simSteps
          BY <3>4, <4>2
        <4> QED BY <1>0, <4>1, <4>3, <4>4, TalkKept
      <3> QED BY <2>0, <2>3, <3>2, <3>3, <3>4 DEF UserSpeaks
    <2>4. CASE AssistantAnswers(x)
      <3>1. e.at = "assistant"
        BY <2>4 DEF AssistantAnswers
      <3>2. CASE /\ EndExchange(x, Exchanged(FALSE, TRUE, FALSE, Nothing))
                 /\ UNCHANGED <<simRuns, turnSpine, simFaults, lostTurns>>
        BY <2>s, <3>1, <3>2
      <3>3. ASSUME NEW t \in Texts, RecordTurn(<<r, m, "assistant">>, t, TRUE),
                   EndExchange(x, Exchanged(TRUE, FALSE, TRUE, e.user))
            PROVE  TalkInv'
        <4>1. simFaults' \in Nat /\ simFaults <= simFaults' /\ lostTurns \subseteq lostTurns'
          BY <3>3, TurnIsTold
        <4>2. PICK o : o = Exchanged(TRUE, FALSE, TRUE, e.user)
          OBVIOUS
        <4>3. ASSUME lostTurns' = {}
              PROVE  /\ T \subseteq Transcript(r)'
                     /\ \A q \in SimRuns \ {r} : /\ Transcript(q)' = Transcript(q)
                                                 /\ simRuns'[q].turns = simRuns[q].turns
                     /\ RunOK(Transcript(r)', simRuns'[r].turns, simFaults', was)
                     /\ o \in OutcomeRow /\ OutcomeOK(Transcript(r)', o, m + 1)
          <5>0. lostTurns = {}
            BY <4>1, <4>3
          <5>1. m \in Nat /\ 1 .. 2 * m \subseteq T /\ 2 * m + 1 \in T /\ e.user \in Texts
            BY <2>e, <3>1, <5>0 DEF ActorOK
          <5>2. /\ Transcript(r)' = T \cup {2 * m + 2}
                /\ \A q \in SimRuns \ {r} :
                     Transcript(q)' = Transcript(q) /\ simRuns'[q].turns = simRuns[q].turns
                /\ simRuns'[r].turns = simRuns[r].turns \/ simRuns'[r].turns = m + 1
                /\ simRuns'[r].turns >= simRuns[r].turns
                /\ simFaults' = 0 => simRuns'[r].turns >= m + 1
            BY <3>3, <4>3, <5>1, TurnIsTold
          <5>3. RunOK(Transcript(r)', simRuns'[r].turns, simFaults', was)
            <6>1. PICK U, now, later : U = Transcript(r)' /\ now = simRuns'[r].turns /\ later = simFaults'
              OBVIOUS
            <6>2. later \in Nat /\ (later = 0 => simFaults = 0)
              BY <1>0, <4>1, <6>1
            <6>3. RunOK(T, simRuns[r].turns, simFaults, was)
              BY <2>e, <5>0
            <6>5. RunOK(U, now, later, was)
              BY <5>1, <5>2, <6>1, <6>2, <6>3, MoreIsCounted, ZenonT(60)
            <6> QED BY <6>1, <6>5
          <5>4. o \in OutcomeRow
            BY <4>2, <5>1 DEF OutcomeRow, Exchanged, Word
          <5>5. 2 * (m + 1) - 1 = 2 * m + 1 /\ 2 * (m + 1) = 2 * m + 2
            BY <5>1
          <5>6. OutcomeOK(Transcript(r)', o, m + 1)
            BY <4>2, <5>1, <5>2, <5>5 DEF OutcomeOK, Exchanged
          <5> QED BY <5>2, <5>3, <5>4, <5>6
        <4>4. EndExchange(x, o)
          BY <3>3, <4>2
        <4> QED BY <1>0, <3>1, <4>1, <4>3, <4>4, ExchangeEnds
      <3> QED BY <2>0, <2>4, <3>2, <3>3 DEF AssistantAnswers
    <2>5. CASE Deadline(x)
      <3>1. UNCHANGED <<simRuns, turnSpine, lostTurns, simSteps, simFaults>> /\ e.at = "user"
        BY <2>5 DEF Deadline
      <3>2. Act(x, Erring(e.turns)) \/ Act(x, Judging(e.turns))
        BY <2>5 DEF Deadline
      <3>3. lostTurns = {} => ActorOK(T, was, p, Erring(e.turns)) /\ ActorOK(T, was, p, Judging(e.turns))
        BY <2>e, <3>1 DEF ActorOK, Erring, Judging
      <3> QED BY <2>g, <3>1, <3>2, <3>3
    <2>6. CASE Judge(x)
      <3>1. UNCHANGED <<simRuns, turnSpine, lostTurns, simFaults>> /\ e.at = "judge"
        BY <2>6 DEF Judge
      <3>2. PICK v \in IF p = "workflow" /\ simSteps[r].judged # "no"
                       THEN {simSteps[r].judged} ELSE Verdicts \cup {Nothing} :
              /\ Act(x, IF v = Nothing THEN Erring(e.turns) ELSE [at |-> "settle", turns |-> e.turns, verdict |-> v])
              /\ simSteps' = IF p = "workflow" THEN [simSteps EXCEPT ![r].judged = v] ELSE simSteps
        BY <2>0, <2>6 DEF Judge
      <3>3. ASSUME lostTurns = {} PROVE StepsOK' /\ \A q \in SimRuns : simSteps'[q].log = simSteps[q].log
        <4>1. StepsOK
          BY <2>e, <3>3
        <4>2. v \in Verdicts \cup {Nothing, "no"}
          BY <4>1, <3>2 DEF StepsOK
        <4>3. CASE simSteps' = [simSteps EXCEPT ![r].judged = v]
          BY <4>1, <4>2, <4>3 DEF StepsOK
        <4>4. CASE simSteps' = simSteps
          BY <4>1, <4>4 DEF StepsOK
        <4> QED BY <3>2, <4>3, <4>4
      <3>4. PICK w : Act(x, w) /\ w \in {Erring(e.turns), [at |-> "settle", turns |-> e.turns, verdict |-> v]}
        BY <3>2
      <3>5. ASSUME lostTurns = {} PROVE ActorOK(T, was, p, w)
        <4>1. Counted(T, e.turns)
          BY <2>e, <3>1, <3>5 DEF ActorOK
        <4>2. w.at \in {"error", "settle"} /\ w.turns = e.turns
          BY <3>4 DEF Erring
        <4> QED BY <4>1, <4>2 DEF ActorOK
      <3> QED BY <1>0, <3>1, <3>3, <3>4, <3>5, TalkGoesOn
    <2>t. ASSUME UNCHANGED <<turnSpine, lostTurns, simSteps>>, simFaults' = simFaults \/ SimFault,
                 Act(x, Gone), e.at \in {"error", "settle"},
                 NEW status, NEW v, simRuns' = simRuns \/ simRuns' = Settled(r, status, e.turns, v)
          PROVE  TalkInv'
      <3>1. /\ simFaults' \in Nat /\ simFaults <= simFaults'
            /\ \A q \in SimRuns : Transcript(q)' = Transcript(q)
        BY <1>f, <2>t DEF Transcript
      <3>2. /\ \A q \in SimRuns \ {r} : simRuns'[q].turns = simRuns[q].turns
            /\ \/ simRuns'[r].turns = simRuns[r].turns
               \/ simRuns'[r].turns = IF simRuns[r].turns < e.turns THEN e.turns ELSE simRuns[r].turns
        BY <1>0, <2>t DEF Settled, SimInv
      <3>3. ASSUME lostTurns = {} PROVE RunOK(T, simRuns'[r].turns, simFaults', was)
        <4>1. Counted(T, e.turns) /\ Counted(T, simRuns[r].turns)
          BY <2>e, <2>t, <3>3 DEF ActorOK, RunOK
        <4>2. Counted(T, simRuns'[r].turns) /\ simRuns'[r].turns >= simRuns[r].turns
          BY <3>2, <4>1 DEF Counted
        <4>3. ASSUME simFaults' = 0, NEW k \in Nat, 2 * k \in T PROVE k <= simRuns'[r].turns
          <5>1. k <= simRuns[r].turns
            BY <1>0, <2>e, <3>1, <3>3, <4>3 DEF RunOK
          <5> QED BY <4>1, <4>2, <5>1 DEF Counted
        <4> QED BY <2>e, <3>3, <4>2, <4>3 DEF RunOK
      <3>4. ActorOK(T, was, p, Gone)
        BY DEF ActorOK, Gone
      <3>5. lostTurns = {} => StepsOK'
        BY <2>e, <2>t DEF StepsOK
      <3> QED BY <1>0, <2>t, <3>1, <3>2, <3>3, <3>4, <3>5, TalkKept
    <2>7. CASE SettleDone(x)
      <3>1. /\ UNCHANGED <<turnSpine, lostTurns, simSteps>> /\ e.at = "settle"
            /\ Act(x, Gone) /\ (simFaults' = simFaults \/ SimFault)
            /\ simRuns' = simRuns \/ simRuns' = Settled(r, "done", e.turns, e.verdict)
        BY <2>0, <2>7 DEF SettleDone, LeaveUnsettled
      <3> QED BY <2>t, <3>1
    <2>8. CASE SettleError(x)
      <3>1. /\ UNCHANGED <<turnSpine, lostTurns, simSteps>> /\ e.at = "error"
            /\ Act(x, Gone) /\ (simFaults' = simFaults \/ SimFault)
            /\ simRuns' = simRuns \/ simRuns' = Settled(r, "error", e.turns, Nothing)
        BY <2>0, <2>8 DEF SettleError, LeaveUnsettled
      <3> QED BY <2>t, <3>1
    <2>9. CASE CrashSimulation(x)
      <3>1. UNCHANGED <<simRuns, turnSpine, simSteps, lostTurns>> /\ (simFaults' = simFaults \/ SimFault)
        BY <2>9 DEF CrashSimulation, LeaveUnsettled
      <3>2. Act(x, Gone) \/ Act(x, [at |-> "begin"])
        BY <2>9 DEF CrashSimulation, LeaveUnsettled
      <3>3. \A y \in SimExecutors : actor'[y] = actor[y] \/ actor'[y].at \in {"gone", "dispatch", "begin"}
        BY <1>0, <3>2 DEF SimInv, Act, Gone
      <3> QED BY <1>0, <1>f, <3>1, <3>3, NoneTalks
    <2> QED BY <1>4, <2>1, <2>2, <2>3, <2>4, <2>5, <2>6, <2>7, <2>8, <2>9
  <1>5. \A x \in SimExecutors : \E r \in SimRuns, p \in SimPaths : x = <<r, p>>
    BY DEF SimExecutors
  <1> QED BY <1>1, <1>2, <1>3, <1>4, <1>5 DEF SimulationNext
-------------------------------------------------------------------------------
(* Playground                                                              *)

LEMMA PlaygroundMoves == [WorkNext]_<<part, workVars>> => [PlaygroundNext]_playVars
  BY DEF WorkNext, Still, workVars, EvalPart, SimulationPart, PlaygroundPart, PromptPart,
         AnnotationPart, AlertPart, GatewayPart, KeyPart

PlayerRow == [at : {"call", "record"}, run : PlaygroundIds, ran : Seq(Outputs), recorded : Nat, ok : BOOLEAN]
(* The evidence of the variant n of the run r is stored, or was refused.   *)
Stored(stored, r, n) == <<r, n>> \in stored
PlayerOK(e, status, stored) ==
  \/ e = Out
  \/ /\ e \in PlayerRow /\ status[e.run] # "none"
     /\ e.at = "record" /\ e.ok => Len(e.ran) = Variants
     /\ \A n \in 1 .. e.recorded : Stored(stored, e.run, n)
PlayInv ==
  /\ pgRuns \in [PlaygroundIds -> Statuses]
  /\ player = [p \in Players |-> player[p]]
  /\ \A p \in Players : PlayerOK(player[p], pgRuns, DOMAIN evidence \cup dropped)
  /\ \A r \in PlaygroundIds :
       /\ pgRuns[r] = "done" => \A n \in 1 .. Variants : Stored(DOMAIN evidence \cup dropped, r, n)
       /\ pgRuns[r] = "running" => r \in walkedOut \/ \E p \in Players : player[p] # Out /\ player[p].run = r
       /\ \A n : <<r, n>> \in DOMAIN evidence => pgRuns[r] # "none"

LEMMA PlaySuffices == PlayInv => DoneRunsRan
  <1> SUFFICES ASSUME PlayInv, NEW r \in PlaygroundIds
               PROVE  /\ pgRuns[r] = "done" => \A n \in 1 .. Variants : <<r, n>> \in DOMAIN evidence \cup dropped
                      /\ pgRuns[r] = "running" => PlayingOn(r) # {} \/ r \in walkedOut
                      /\ \A n \in 1 .. Variants : <<r, n>> \in DOMAIN evidence => pgRuns[r] # "none"
    BY DEF DoneRunsRan
  <1> QED BY DEF PlayInv, Stored, PlayingOn

LEMMA PlayStart == PlaygroundInit => PlayInv
  <1> SUFFICES ASSUME PlaygroundInit PROVE PlayInv
    OBVIOUS
  <1>1. DOMAIN evidence = {}
    BY DEF PlaygroundInit
  <1> QED BY <1>1 DEF PlaygroundInit, PlayInv, Statuses, PlayerOK

(* The request p goes on to v; what it leaves behind only grows.           *)
LEMMA PlayerKept ==
  ASSUME PlayInv, NEW p \in Players, NEW v, PlayerGoto(p, v),
         pgRuns' \in [PlaygroundIds -> Statuses],
         DOMAIN evidence \cup dropped \subseteq DOMAIN evidence' \cup dropped',
         PlayerOK(v, pgRuns', DOMAIN evidence' \cup dropped'),
         \A r \in PlaygroundIds :
           /\ pgRuns[r] # "none" => pgRuns'[r] # "none"
           /\ pgRuns'[r] = "done" /\ pgRuns[r] # "done"
                => \A n \in 1 .. Variants : Stored(DOMAIN evidence' \cup dropped', r, n)
           /\ pgRuns'[r] = "running"
                => \/ r \in walkedOut'
                   \/ v # Out /\ v.run = r
                   \/ /\ pgRuns[r] = "running" /\ r \notin walkedOut
                      /\ ~(player[p] # Out /\ player[p].run = r)
           /\ \A n : <<r, n>> \in DOMAIN evidence' => <<r, n>> \in DOMAIN evidence \/ pgRuns'[r] # "none"
  PROVE  PlayInv'
  <1> DEFINE S == DOMAIN evidence \cup dropped
             T == DOMAIN evidence' \cup dropped'
  <1>1. player' = [q \in Players |-> IF q = p THEN v ELSE player[q]]
    BY DEF PlayInv, PlayerGoto
  <1>2. \A q \in Players : PlayerOK(player'[q], pgRuns', T)
    <2> SUFFICES ASSUME NEW q \in Players, q # p PROVE PlayerOK(player[q], pgRuns', T)
      BY <1>1
    <2>1. PlayerOK(player[q], pgRuns, S)
      BY DEF PlayInv
    <2> QED BY <2>1 DEF PlayerOK, PlayerRow, Stored
  <1>3. ASSUME NEW r \in PlaygroundIds
        PROVE  /\ pgRuns'[r] = "done" => \A n \in 1 .. Variants : Stored(T, r, n)
               /\ \A n : <<r, n>> \in DOMAIN evidence' => pgRuns'[r] # "none"
    BY DEF PlayInv, Stored
  <1>4. ASSUME NEW r \in PlaygroundIds, pgRuns'[r] = "running"
        PROVE  r \in walkedOut' \/ \E q \in Players : player'[q] # Out /\ player'[q].run = r
    <2>1. CASE v # Out /\ v.run = r
      BY <1>1, <2>1
    <2>2. CASE /\ pgRuns[r] = "running" /\ r \notin walkedOut
               /\ ~(player[p] # Out /\ player[p].run = r)
      <3>1. PICK q \in Players : player[q] # Out /\ player[q].run = r
        BY <2>2 DEF PlayInv
      <3> QED BY <1>1, <2>2, <3>1
    <2> QED BY <1>4, <2>1, <2>2
  <1> QED BY <1>1, <1>2, <1>3, <1>4 DEF PlayInv

LEMMA PlayStep == PlayInv /\ [PlaygroundNext]_playVars => PlayInv'
  <1> SUFFICES ASSUME PlayInv, [PlaygroundNext]_playVars PROVE PlayInv'
    OBVIOUS
  <1>0. /\ pgRuns \in [PlaygroundIds -> Statuses]
        /\ \A r \in PlaygroundIds : pgRuns[r] = "running" =>
             r \in walkedOut \/ \E p \in Players : player[p] # Out /\ player[p].run = r
    BY DEF PlayInv
  <1> DEFINE S == DOMAIN evidence \cup dropped
  <1>1. CASE UNCHANGED playVars
    BY <1>1 DEF playVars, PlayInv
  <1>2. ASSUME NEW p \in Players, StartRunRow(p) PROVE PlayInv'
    <2>1. PICK r \in PlaygroundIds :
            /\ pgRuns' = IF pgRuns[r] = "none" THEN [pgRuns EXCEPT ![r] = "running"] ELSE pgRuns
            /\ PlayerGoto(p, [at |-> "call", run |-> r, ran |-> <<>>, recorded |-> 0, ok |-> TRUE])
      BY <1>2 DEF StartRunRow
    <2> DEFINE v == [at |-> "call", run |-> r, ran |-> <<>>, recorded |-> 0, ok |-> TRUE]
    <2>2. UNCHANGED <<evidence, dropped, walkedOut>> /\ player[p] = Out
      BY <1>2 DEF StartRunRow
    <2>3. /\ pgRuns' \in [PlaygroundIds -> Statuses] /\ pgRuns'[r] # "none"
          /\ \A q \in PlaygroundIds : pgRuns'[q] = pgRuns[q] \/ (q = r /\ pgRuns[q] = "none" /\ pgRuns'[q] = "running")
      BY <1>0, <2>1 DEF Statuses
    <2>4. v \in PlayerRow
      BY DEF PlayerRow
    <2>5. PlayerOK(v, pgRuns', S)
      BY <2>3, <2>4 DEF PlayerOK
    <2>6. v # Out /\ v.run = r
      BY DEF Out
    <2> HIDE DEF v
    <2> QED BY <1>0, <2>1, <2>2, <2>3, <2>5, <2>6, PlayerKept DEF v
  <1>3. ASSUME NEW p \in Players, player[p] # Out
        PROVE  /\ player[p] \in PlayerRow /\ pgRuns[player[p].run] # "none" /\ player[p].run \in PlaygroundIds
               /\ player[p].ran \in Seq(Outputs) /\ player[p].recorded \in Nat
               /\ player[p].at = "record" /\ player[p].ok => Len(player[p].ran) = Variants
               /\ \A n \in 1 .. player[p].recorded : Stored(S, player[p].run, n)
    BY <1>3 DEF PlayInv, PlayerOK, PlayerRow
  <1>4. ASSUME NEW p \in Players, CallModel(p) PROVE PlayInv'
    <2> DEFINE e == player[p]
    <2>1. /\ e # Out /\ e.at = "call" /\ UNCHANGED <<pgRuns, evidence, dropped, walkedOut>>
      <3>1. e.at = "call"
        BY <1>4 DEF CallModel
      <3>2. UNCHANGED <<pgRuns, evidence, dropped, walkedOut>>
        BY <1>4 DEF CallModel
      <3> QED BY <3>1, <3>2 DEF Out
    <2>2. ASSUME NEW v, PlayerGoto(p, v), PlayerOK(v, pgRuns, S), v # Out, v.run = e.run PROVE PlayInv'
      <3>1. /\ pgRuns' = pgRuns /\ evidence' = evidence /\ dropped' = dropped /\ walkedOut' = walkedOut
        BY <2>1
      <3>2. \A r \in PlaygroundIds : pgRuns'[r] = "running"
                => \/ r \in walkedOut'
                   \/ v # Out /\ v.run = r
                   \/ /\ pgRuns[r] = "running" /\ r \notin walkedOut
                      /\ ~(player[p] # Out /\ player[p].run = r)
        BY <2>1, <2>2, <3>1
      <3>3. PlayerOK(v, pgRuns', DOMAIN evidence' \cup dropped')
        BY <2>2, <3>1
      <3>4. S \subseteq DOMAIN evidence' \cup dropped' /\ pgRuns' \in [PlaygroundIds -> Statuses]
        BY <1>0, <3>1
      <3>5. \A r \in PlaygroundIds :
               /\ pgRuns[r] # "none" => pgRuns'[r] # "none"
               /\ ~(pgRuns'[r] = "done" /\ pgRuns[r] # "done")
               /\ \A n : <<r, n>> \in DOMAIN evidence' => <<r, n>> \in DOMAIN evidence
        BY <3>1
      <3> QED BY ONLY PlayInv, p \in Players, PlayerGoto(p, v), <3>2, <3>3, <3>4, <3>5, PlayerKept
    <2>3. ASSUME NEW o \in Outputs,
                 PlayerGoto(p, [e EXCEPT !.ran = Append(e.ran, o),
                                         !.at = IF Len(Append(e.ran, o)) = Variants THEN "record" ELSE "call"])
          PROVE  PlayInv'
      <3> DEFINE v == [e EXCEPT !.ran = Append(e.ran, o),
                                !.at = IF Len(Append(e.ran, o)) = Variants THEN "record" ELSE "call"]
      <3>1. e \in PlayerRow /\ Append(e.ran, o) \in Seq(Outputs)
        BY <1>3, <2>1
      <3>2. /\ v \in PlayerRow /\ v.run = e.run /\ v.recorded = e.recorded
            /\ v.at = "record" => Len(v.ran) = Variants
        BY <3>1 DEF PlayerRow
      <3>3. v # Out
        BY <3>2 DEF PlayerRow, Out
      <3>4. PlayerOK(v, pgRuns, S)
        BY <1>3, <2>1, <3>2 DEF PlayerOK
      <3> HIDE DEF v, e
      <3> QED BY <2>2, <2>3, <3>2, <3>3, <3>4 DEF v
    <2>4. ASSUME PlayerGoto(p, [e EXCEPT !.ok = FALSE, !.at = "record"]) PROVE PlayInv'
      <3> DEFINE v == [e EXCEPT !.ok = FALSE, !.at = "record"]
      <3>1. /\ v \in PlayerRow /\ v.run = e.run /\ v.recorded = e.recorded /\ ~v.ok
        BY <1>3, <2>1 DEF PlayerRow
      <3>2. v # Out
        BY <3>1 DEF PlayerRow, Out
      <3>3. PlayerOK(v, pgRuns, S)
        BY <1>3, <2>1, <3>1 DEF PlayerOK
      <3> HIDE DEF v, e
      <3> QED BY <2>2, <2>4, <3>1, <3>2, <3>3 DEF v
    <2> QED BY <1>4, <2>3, <2>4 DEF CallModel
  <1>5. ASSUME NEW p \in Players, RecordVariant(p) PROVE PlayInv'
    <2> DEFINE e == player[p]  n == e.recorded + 1  run == e.run
               v == [e EXCEPT !.recorded = n]
               T == DOMAIN evidence' \cup dropped'
    <2>1. /\ e # Out /\ PlayerGoto(p, v) /\ UNCHANGED <<pgRuns, walkedOut>>
      BY <1>5 DEF RecordVariant, Out
    <2>2. /\ T = S \cup {<<run, n>>}
          /\ DOMAIN evidence' \subseteq DOMAIN evidence \cup {<<run, n>>}
      <3>1. CASE evidence' = [i \in DOMAIN evidence \cup {<<run, n>>} |->
                                IF i = <<run, n>> THEN e.ran[n] ELSE evidence[i]] /\ UNCHANGED dropped
        BY <3>1
      <3>2. CASE dropped' = dropped \cup {<<run, n>>} /\ UNCHANGED evidence
        BY <3>2
      <3> QED BY <1>5, <3>1, <3>2 DEF RecordVariant
    <2>3. /\ v \in PlayerRow /\ v.run = run /\ v.recorded = n /\ v.at = e.at /\ v.ok = e.ok /\ v.ran = e.ran
      BY <1>3, <2>1 DEF PlayerRow
    <2>4. v # Out
      BY <2>3 DEF PlayerRow, Out
    <2>5. \A m \in 1 .. n : m \in 1 .. e.recorded \/ m = n
      BY <1>3, <2>1
    <2>6. \A m \in 1 .. v.recorded : Stored(T, v.run, m)
      BY <1>3, <2>1, <2>2, <2>3, <2>5 DEF Stored
    <2>7. PlayerOK(v, pgRuns, T)
      BY <1>3, <2>1, <2>3, <2>6 DEF PlayerOK
    <2>8. pgRuns[run] # "none"
      BY <1>3, <2>1
    <2>9. \A r, m : <<r, m>> \in DOMAIN evidence' => <<r, m>> \in DOMAIN evidence \/ r = run
      BY <2>2
    <2> HIDE DEF v, n, run
    <2> QED BY <1>0, <2>1, <2>2, <2>3, <2>4, <2>7, <2>8, <2>9, PlayerKept DEF run
  <1>6. ASSUME NEW p \in Players, SettleRun(p) \/ PlayerDies(p) PROVE PlayInv'
    <2> DEFINE r == player[p].run
    <2>1. /\ player[p] # Out /\ PlayerGoto(p, Out) /\ UNCHANGED <<evidence, dropped>>
      BY <1>6 DEF SettleRun, PlayerDies, Out
    <2>2. PlayerOK(Out, pgRuns', S) /\ r \in PlaygroundIds
      BY <1>3, <2>1 DEF PlayerOK
    <2>3. CASE walkedOut' = walkedOut \cup {r} /\ UNCHANGED pgRuns
      BY <1>0, <2>1, <2>2, <2>3, PlayerKept
    <2>4. CASE /\ player[p].at = "record" /\ AllRecorded(p) /\ UNCHANGED walkedOut
               /\ pgRuns' = IF pgRuns[r] = "running"
                            THEN [pgRuns EXCEPT ![r] = IF player[p].ok THEN "done" ELSE "error"] ELSE pgRuns
      <3>1. pgRuns' \in [PlaygroundIds -> Statuses] /\ pgRuns'[r] # "running"
        BY <1>0, <2>2, <2>4 DEF Statuses
      <3>2. \A q \in PlaygroundIds : \/ pgRuns'[q] = pgRuns[q]
                                     \/ q = r /\ pgRuns'[q] \in {"done", "error"} /\ (pgRuns'[q] = "done" => player[p].ok)
        BY <1>0, <2>2, <2>4
      <3>3. player[p].ok => \A n \in 1 .. Variants : Stored(S, r, n)
        BY <1>3, <2>1, <2>4 DEF AllRecorded
      <3>4. /\ \A q \in PlaygroundIds : pgRuns[q] # "none" => pgRuns'[q] # "none"
            /\ \A q \in PlaygroundIds : pgRuns'[q] = "done" /\ pgRuns[q] # "done"
                 => \A n \in 1 .. Variants : Stored(S, q, n)
        BY <3>2, <3>3
      <3>5. \A q \in PlaygroundIds : pgRuns'[q] = "running" => q # r /\ pgRuns[q] = "running"
        BY <3>1, <3>2
      <3>6. S = DOMAIN evidence' \cup dropped' /\ evidence' = evidence /\ walkedOut' = walkedOut
        BY <2>1, <2>4
      <3> HIDE DEF r
      <3>7. \A q \in PlaygroundIds : pgRuns'[q] = "running"
                => \/ q \in walkedOut'
                   \/ /\ pgRuns[q] = "running" /\ q \notin walkedOut
                      /\ ~(player[p] # Out /\ player[p].run = q)
        BY <3>5, <3>6 DEF r
      <3> QED BY <2>1, <2>2, <3>1, <3>4, <3>6, <3>7, PlayerKept
    <2> QED BY <1>6, <2>3, <2>4 DEF SettleRun, PlayerDies
  <1> QED BY <1>1, <1>2, <1>4, <1>5, <1>6 DEF PlaygroundNext
-------------------------------------------------------------------------------
(* A run that says it is done did what it was for, whoever executed it,    *)
(* however often it was restarted, for any number of runs: every trace an  *)
(* evaluation counts is graded (executeEvalRun), the verdict of a          *)
(* simulation is the recorded one and its transcript a whole conversation  *)
(* (executeSimulationRun), every cell of a playground run is stored        *)
(* (runPlayground).                                                 *)
THEOREM SettledRunsStand == WorkSpec => []SettledRunsAreWhole
<1>1. WorkInit => GradesInv /\ VerdictInv /\ TalkInv /\ PlayInv
  BY GradesStart, VerdictStart, TalkStart, PlayStart DEF WorkInit
<1>2. GradesInv /\ VerdictInv /\ TalkInv /\ PlayInv /\ [WorkNext]_<<part, workVars>>
        => GradesInv' /\ VerdictInv' /\ TalkInv' /\ PlayInv'
  BY EvalsMove, SimulationsMove, PlaygroundMoves, GradesStep, VerdictStep, TalkStep, PlayStep
<1>3. GradesInv /\ VerdictInv /\ TalkInv /\ PlayInv => SettledRunsAreWhole
  BY GradesSuffice, TalkSuffices, PlaySuffices DEF SettledRunsAreWhole, VerdictInv
<1> QED BY <1>1, <1>2, <1>3, PTL DEF WorkSpec
-------------------------------------------------------------------------------
(* Promotion of labels                                                     *)

CreatedRow == [kind : {"created"}, version : Versions]
ScoreRow == [kind : {"score"}, version : Versions, value : Values, occurred : Nat,
             provenance : Provenances, id : Nat]
LabeledRow == [kind : {"labeled"}, label : Labels, version : Versions, gated : BOOLEAN,
               score : ScoreRow \cup {NoScore}, passed : BOOLEAN, forced : BOOLEAN,
               observed : BOOLEAN, read : Nat]
SpineRow == CreatedRow \cup ScoreRow \cup LabeledRow
Promotion == [at : {"gate", "append"}, label : Labels, version : Versions, gated : BOOLEAN,
              observed : BOOLEAN, force : BOOLEAN, score : ScoreRow \cup {NoScore},
              passed : BOOLEAN, read : Nat]

(* A log whose scores are numbered by their place.                         *)
Spine(s) ==
  /\ s \in Seq(SpineRow)
  /\ \A i \in DOMAIN s : s[i].kind = "score" => s[i].id = i
(* What the audit e of a gate says, of the log s it read.                  *)
ScoresBefore(s, n) == {k \in 1 .. n : s[k].kind = "score"}
After(S, k) == {j \in S : j > k}
LeftOut(s, n, version, score) ==
  \A k \in ScoresBefore(s, n) : s[k].version = version /\ Newer(s[k], score)
                            => Cardinality(After(ScoresBefore(s, n), k)) >= MaxScores
Quoted(s, n, score) == \E k \in ScoresBefore(s, n) : s[k] = score
EvidenceStands(s, e) ==
  e.passed =>
    /\ e.read <= Len(s) /\ e.score.version = e.version
    /\ Quoted(s, e.read, e.score)
    /\ e.score.value >= MinScore
    /\ e.observed => e.score.provenance = "OBSERVED"
    /\ LeftOut(s, e.read, e.version, e.score)
(* A label that was set names a version, and its audit is true.            *)
Audited(s, i) ==
  /\ s[i].version \in KnownVersions(s)
  /\ s[i].gated => s[i].passed \/ s[i].forced
  /\ s[i].passed => s[i].read < i
  /\ EvidenceStands(s, s[i])
PromptInv ==
  /\ Spine(log)
  /\ promoter \in [Promoters -> Promotion \cup {Waiting}]
  /\ \A i \in DOMAIN log : log[i].kind = "labeled" => Audited(log, i)
  /\ \A p \in Promoters : promoter[p] # Waiting =>
       promoter[p].version \in KnownVersions(log) /\ EvidenceStands(log, promoter[p])

LEMMA SpineRows ==
  \A s \in Seq(SpineRow) :
    /\ Len(s) \in Nat /\ DOMAIN s = 1 .. Len(s)
    /\ \A i \in 1 .. Len(s) :
         /\ s[i] \in SpineRow
         /\ s[i].kind \in {"created", "score", "labeled"}
         /\ s[i].kind = "created" => s[i] \in CreatedRow
         /\ s[i].kind = "score" => s[i] \in ScoreRow
         /\ s[i].kind = "labeled" => s[i] \in LabeledRow
  BY DEF SpineRow, CreatedRow, ScoreRow, LabeledRow

(* A longer log says of the rows it had what the shorter one said.         *)
Extended(s, t) ==
  /\ s \in Seq(SpineRow) /\ t \in Seq(SpineRow)
  /\ Len(s) <= Len(t) /\ \A i \in 1 .. Len(s) : t[i] = s[i]

LEMMA VersionsStay == \A s, t : Extended(s, t) => KnownVersions(s) \subseteq KnownVersions(t)
<1> SUFFICES ASSUME NEW s, NEW t, Extended(s, t), NEW i \in PromptRows(s), s[i].kind = "created"
             PROVE  s[i].version \in KnownVersions(t)
  BY DEF KnownVersions, OfKind
<1> DEFINE S == OfKind(s, {"created", "labeled"})  T == OfKind(t, {"created", "labeled"})
<1>1. /\ Len(s) \in Nat /\ Len(t) \in Nat /\ Len(s) <= Len(t)
      /\ DOMAIN s = 1 .. Len(s) /\ DOMAIN t = 1 .. Len(t)
      /\ \A k \in 1 .. Len(s) : t[k] = s[k]
  BY SpineRows DEF Extended
<1>2. i \in S /\ Cardinality({j \in S : j < i}) < MaxRows
  BY DEF PromptRows, First
<1>3. i \in 1 .. Len(s)
  BY <1>1, <1>2 DEF OfKind
<1>4. {j \in S : j < i} = {j \in T : j < i}
  <2>1. \A j \in 1 .. Len(t) : j < i => j \in 1 .. Len(s)
    BY <1>1, <1>3
  <2>2. \A j : j < i => (j \in S <=> j \in T)
    BY <1>1, <2>1 DEF OfKind
  <2> QED BY <2>2
<1>5. i \in T /\ t[i] = s[i]
  BY <1>1, <1>2, <1>3 DEF OfKind
<1>6. i \in PromptRows(t)
  BY <1>2, <1>4, <1>5 DEF PromptRows, First
<1>7. i \in OfKind(t, {"created"})
  BY <1>5, <1>1, <1>3 DEF OfKind
<1> QED BY <1>5, <1>6, <1>7 DEF KnownVersions

LEMMA EvidenceStays ==
  \A s, t, e : Extended(s, t) /\ e.read \in Nat /\ EvidenceStands(s, e) => EvidenceStands(t, e)
<1> SUFFICES ASSUME NEW s, NEW t, NEW e, Extended(s, t), e.read \in Nat, EvidenceStands(s, e), e.passed
             PROVE  EvidenceStands(t, e)
  BY DEF EvidenceStands
<1>1. /\ Len(s) \in Nat /\ Len(t) \in Nat /\ Len(s) <= Len(t)
      /\ \A k \in 1 .. Len(s) : t[k] = s[k]
  BY SpineRows DEF Extended
<1>2. e.read <= Len(s) /\ e.read <= Len(t)
  BY <1>1 DEF EvidenceStands
<1>3. \A k \in 1 .. e.read : t[k] = s[k]
  BY <1>1, <1>2
<1>4. ScoresBefore(s, e.read) = ScoresBefore(t, e.read) /\ \A k \in ScoresBefore(s, e.read) : t[k] = s[k]
  BY <1>3 DEF ScoresBefore
<1>5. Quoted(t, e.read, e.score) /\ LeftOut(t, e.read, e.version, e.score)
  BY <1>4 DEF EvidenceStands, Quoted, LeftOut
<1> QED BY <1>2, <1>5 DEF EvidenceStands

(* One of some scores is newer than every other.                           *)
LEMMA NewestScore ==
  ASSUME NEW s, Spine(s), NEW S, S \subseteq OfKind(s, {"score"}), S # {}
  PROVE  \E i \in S : \A j \in S : j = i \/ Newer(s[i], s[j])
<1>1. /\ Len(s) \in Nat /\ DOMAIN s = 1 .. Len(s)
      /\ \A i \in S : i \in 1 .. Len(s) /\ s[i].occurred \in Nat /\ s[i].id = i
  BY SpineRows DEF Spine, OfKind, ScoreRow
<1>2. IsFiniteSet(S)
  <2>1. IsFiniteSet(1 .. Len(s))
    BY <1>1, FS_Interval
  <2> QED BY <1>1, <2>1, FS_Subset
<1> DEFINE f == [i \in S |-> 0 - s[i].occurred]
           T == {f[i] : i \in S}
<1>3. IsFiniteSet(T)
  <2>1. f \in Surjection(S, T)
    BY DEF Surjection
  <2> HIDE DEF f
  <2> QED BY <1>2, <2>1, FS_Surjection
<1>4. T \subseteq Int /\ T # {}
  BY <1>1
<1>5. PICK m \in T : \A n \in T : m <= n
  <2> HIDE DEF T
  <2> QED BY <1>3, <1>4, LeastExists
<1>6. PICK x \in S : m = f[x]
  BY <1>5
<1>7. \A j \in S : s[j].occurred <= s[x].occurred
  <2> SUFFICES ASSUME NEW j \in S PROVE s[j].occurred <= s[x].occurred
    OBVIOUS
  <2>1. 0 - s[x].occurred <= 0 - s[j].occurred
    BY <1>5, <1>6
  <2>2. s[x].occurred \in Nat /\ s[j].occurred \in Nat
    BY <1>1, <1>6
  <2> QED BY <2>1, <2>2
<1> DEFINE R == {j \in S : s[j].occurred = s[x].occurred}
<1>8. R \in SUBSET (0 .. Len(s)) /\ R # {}
  BY <1>1, <1>6
<1>9. Max(R) \in R /\ \A n \in R : n <= Max(R)
  <2> HIDE DEF R
  <2> QED BY <1>1, <1>8, GreatestOfSome
<1>10. PICK i \in R : \A n \in R : n <= i
  BY <1>9
<1>11. \A j \in S : j = i \/ Newer(s[i], s[j])
  <2> SUFFICES ASSUME NEW j \in S, j # i PROVE Newer(s[i], s[j])
    OBVIOUS
  <2>1. i \in S /\ s[i].occurred = s[x].occurred /\ s[i].id = i /\ s[j].id = j /\ i \in Nat /\ j \in Nat
    BY <1>1, <1>10
  <2>2. CASE j \in R
    <3>1. j <= i /\ s[j].occurred = s[x].occurred
      BY <1>10, <2>2
    <3> QED BY <2>1, <3>1 DEF Newer
  <2>3. CASE j \notin R
    <3>1. s[j].occurred # s[x].occurred /\ s[j].occurred <= s[x].occurred
      BY <1>7, <2>3
    <3>2. s[j].occurred \in Nat /\ s[x].occurred \in Nat
      BY <1>1, <1>6
    <3> QED BY <2>1, <3>1, <3>2 DEF Newer
  <2> QED BY <2>2, <2>3
<1> QED BY <1>10, <1>11

(* What the gate reads is a score of the version, and no newer one of it   *)
(* is among the rows the scan keeps.                                       *)
LEMMA GateReadsTheNewest ==
  ASSUME NEW s, Spine(s), NEW version, LatestScore(s, version) # NoScore
  PROVE  /\ LatestScore(s, version) \in ScoreRow
         /\ LatestScore(s, version).version = version
         /\ Quoted(s, Len(s), LatestScore(s, version))
         /\ LeftOut(s, Len(s), version, LatestScore(s, version))
<1> DEFINE L == Linked(s, version)
           S == ScoresBefore(s, Len(s))
           i == CHOOSE k \in L : \A j \in L : j = k \/ Newer(s[k], s[j])
<1>1. Len(s) \in Nat /\ DOMAIN s = 1 .. Len(s)
  BY SpineRows DEF Spine
<1>2. S = OfKind(s, {"score"})
  BY <1>1 DEF ScoresBefore, OfKind
<1>3. L \subseteq S /\ \A k \in L : s[k].version = version
  BY <1>2 DEF Linked, Last_
<1>4. L # {} /\ LatestScore(s, version) = s[i]
  BY DEF LatestScore
<1>5. \E k \in L : \A j \in L : j = k \/ Newer(s[k], s[j])
  <2> HIDE DEF L, S
  <2> QED BY <1>2, <1>3, <1>4, NewestScore
<1>6. i \in L /\ \A j \in L : j = i \/ Newer(s[i], s[j])
  <2> HIDE DEF L
  <2> QED BY <1>5
<1>7. \A k \in S : k \in 1 .. Len(s) /\ s[k] \in ScoreRow
  BY SpineRows, <1>1 DEF ScoresBefore, Spine
<1> HIDE DEF i
<1>8. LeftOut(s, Len(s), version, s[i])
  <2> SUFFICES ASSUME NEW k \in S, s[k].version = version, Newer(s[k], s[i])
               PROVE  Cardinality(After(S, k)) >= MaxScores
    BY DEF LeftOut
  <2>1. /\ s[i].occurred \in Nat /\ s[k].occurred \in Nat /\ s[i].id \in Nat /\ s[k].id \in Nat
    BY <1>3, <1>6, <1>7 DEF ScoreRow
  <2>2. k # i /\ ~Newer(s[i], s[k])
    BY <2>1 DEF Newer
  <2>3. k \notin L
    BY <1>6, <2>2
  <2>4. ~(Cardinality({j \in S : j > k}) < MaxScores)
    BY <1>2, <2>3 DEF Linked, Last_
  <2>5. Cardinality(After(S, k)) \in Nat
    <3>1. IsFiniteSet(1 .. Len(s)) /\ After(S, k) \subseteq 1 .. Len(s)
      BY <1>1, <1>7, FS_Interval DEF After
    <3>2. IsFiniteSet(After(S, k))
      BY <3>1, FS_Subset
    <3> QED BY <3>2, FS_CardinalityType
  <2> QED BY <2>4, <2>5, PromptAssumption DEF After
<1> QED BY <1>3, <1>4, <1>6, <1>7, <1>8 DEF Quoted

(* A row that may be appended keeps all that was said of the log.          *)
Appendable(e) ==
  /\ e \in SpineRow
  /\ e.kind = "score" => e.id = Len(log) + 1
  /\ e.kind = "labeled" =>
       /\ e.version \in KnownVersions(log)
       /\ e.gated => e.passed \/ e.forced
       /\ EvidenceStands(log, e)
LEMMA AppendKeepsPrompt ==
  ASSUME PromptInv, NEW e, Appendable(e), log' = Append(log, e),
         promoter' \in [Promoters -> Promotion \cup {Waiting}],
         \A p \in Promoters : promoter'[p] = Waiting \/ promoter'[p] = promoter[p]
  PROVE  PromptInv'
<1> DEFINE t == Append(log, e)  n == Len(log)
<1>1. /\ log \in Seq(SpineRow) /\ n \in Nat /\ DOMAIN log = 1 .. n
      /\ \A i \in 1 .. n : log[i].kind = "score" => log[i].id = i
      /\ \A i \in 1 .. n : log[i].kind = "labeled" => log[i] \in LabeledRow /\ Audited(log, i)
  BY SpineRows DEF PromptInv, Spine
<1>2. /\ t \in Seq(SpineRow) /\ Len(t) = n + 1 /\ DOMAIN t = 1 .. n + 1
      /\ \A i \in 1 .. n : t[i] = log[i]
      /\ t[n + 1] = e
  BY <1>1 DEF Appendable
<1> HIDE DEF t, n
<1>3. Extended(log, t)
  BY <1>1, <1>2 DEF Extended, n
<1>4. \A i \in 1 .. n + 1 : i \in 1 .. n \/ i = n + 1
  BY <1>1
<1>5. Spine(t)
  <2>1. \A i \in 1 .. n + 1 : t[i].kind = "score" => t[i].id = i
    BY <1>1, <1>2, <1>4 DEF Appendable, n
  <2> QED BY <1>2, <2>1 DEF Spine
<1>6. ASSUME NEW i \in DOMAIN t, t[i].kind = "labeled" PROVE Audited(t, i)
  <2>1. CASE i \in 1 .. n
    <3>1. t[i] = log[i] /\ log[i] \in LabeledRow /\ Audited(log, i)
      BY <1>1, <1>2, <1>6, <2>1
    <3>2. log[i].read \in Nat
      BY <3>1 DEF LabeledRow
    <3>3. t[i].version \in KnownVersions(t) /\ EvidenceStands(t, log[i])
      BY <1>3, <3>1, <3>2, VersionsStay, EvidenceStays DEF Audited
    <3> QED BY <3>1, <3>3 DEF Audited
  <2>2. CASE i = n + 1
    <3>1. t[i] = e /\ e \in LabeledRow
      <4>1. t[i] = e
        BY <1>2, <2>2
      <4> QED BY <4>1, <1>6 DEF Appendable, SpineRow, CreatedRow, ScoreRow
    <3>2. e.read \in Nat
      BY <3>1 DEF LabeledRow
    <3>3. e.version \in KnownVersions(t) /\ EvidenceStands(t, e)
      BY <1>3, <1>6, <3>1, <3>2, VersionsStay, EvidenceStays DEF Appendable
    <3>4. e.passed => e.read < i
      <4>1. e.passed => e.read <= n
        BY <1>6, <3>1 DEF Appendable, EvidenceStands, n
      <4> QED BY <1>1, <2>2, <3>2, <4>1
    <3>5. e.gated => e.passed \/ e.forced
      BY <1>6, <3>1 DEF Appendable
    <3> QED BY <3>1, <3>3, <3>4, <3>5 DEF Audited
  <2> QED BY <1>2, <1>4, <1>6, <2>1, <2>2
<1>7. ASSUME NEW p \in Promoters, promoter'[p] # Waiting
      PROVE  promoter'[p].version \in KnownVersions(t) /\ EvidenceStands(t, promoter'[p])
  <2>1. promoter'[p] = promoter[p] /\ promoter[p] \in Promotion
    BY <1>7 DEF PromptInv
  <2>2. promoter[p].version \in KnownVersions(log) /\ EvidenceStands(log, promoter[p])
    BY <1>7, <2>1 DEF PromptInv
  <2>3. promoter[p].read \in Nat
    BY <2>1 DEF Promotion
  <2> QED BY <1>3, <2>1, <2>2, <2>3, VersionsStay, EvidenceStays
<1>8. log' = t
  BY DEF t
<1> QED BY <1>5, <1>6, <1>7, <1>8 DEF PromptInv

LEMMA PromptStart == PromptInit => PromptInv
<1> SUFFICES ASSUME PromptInit PROVE PromptInv
  OBVIOUS
<1>1. log = <<>> /\ DOMAIN log = {} /\ log \in Seq(SpineRow)
  BY DEF PromptInit
<1> QED BY <1>1 DEF PromptInit, PromptInv, Spine

LEMMA PromptStep == PromptInv /\ [PromptNext]_promptVars => PromptInv'
<1> SUFFICES ASSUME PromptInv, [PromptNext]_promptVars PROVE PromptInv'
  OBVIOUS
<1>1. CASE UNCHANGED promptVars
  BY <1>1 DEF promptVars, PromptInv, Spine, Audited
<1>2. /\ promoter \in [Promoters -> Promotion \cup {Waiting}] /\ Len(log) \in Nat
      /\ \A p \in Promoters : promoter[p] # Waiting =>
           promoter[p].version \in KnownVersions(log) /\ EvidenceStands(log, promoter[p])
  BY SpineRows DEF PromptInv, Spine
<1>3. CASE CreateVersion
  <2>1. PICK v \in Versions : Append1([kind |-> "created", version |-> v])
    BY <1>3 DEF CreateVersion
  <2> DEFINE e == [kind |-> "created", version |-> v]
  <2>2. Appendable(e)
    BY DEF Appendable, SpineRow, CreatedRow
  <2>3. log' = Append(log, e) /\ promoter' = promoter
    BY <1>3, <2>1 DEF Append1, CreateVersion
  <2> HIDE DEF e
  <2> QED BY <1>2, <2>2, <2>3, AppendKeepsPrompt
<1>4. CASE RecordPromptScore
  <2>1. PICK v \in Versions, x \in Values, o \in 1 .. MaxOccurred, p \in Provenances :
          Append1([kind |-> "score", version |-> v, value |-> x, occurred |-> o, provenance |-> p,
                   id |-> Len(log) + 1])
    BY <1>4 DEF RecordPromptScore
  <2> DEFINE e == [kind |-> "score", version |-> v, value |-> x, occurred |-> o, provenance |-> p,
                   id |-> Len(log) + 1]
  <2>2. Appendable(e)
    <3>1. o \in Nat /\ Len(log) + 1 \in Nat
      BY <1>2, PromptAssumption
    <3>2. e \in ScoreRow
      BY <3>1 DEF ScoreRow
    <3> QED BY <3>2 DEF Appendable, SpineRow
  <2>3. log' = Append(log, e) /\ promoter' = promoter
    BY <1>4, <2>1 DEF Append1, RecordPromptScore
  <2> HIDE DEF e
  <2> QED BY <1>2, <2>2, <2>3, AppendKeepsPrompt
<1>5. ASSUME NEW p \in Promoters, NEW v, UNCHANGED log, promoter' = [promoter EXCEPT ![p] = v],
             v \in Promotion \cup {Waiting},
             v # Waiting => v.version \in KnownVersions(log) /\ EvidenceStands(log, v)
      PROVE  PromptInv'
  <2>1. promoter' \in [Promoters -> Promotion \cup {Waiting}]
    BY <1>2, <1>5
  <2>2. \A q \in Promoters : promoter'[q] = IF q = p THEN v ELSE promoter[q]
    BY <1>2, <1>5
  <2>3. \A q \in Promoters : promoter'[q] # Waiting =>
          promoter'[q].version \in KnownVersions(log) /\ EvidenceStands(log, promoter'[q])
    BY <1>2, <1>5, <2>2
  <2> QED BY <1>5, <2>1, <2>3 DEF PromptInv, Spine, Audited
<1>6. ASSUME NEW p \in Promoters, AskPromotion(p) PROVE PromptInv'
  <2>1. PICK v \in KnownVersions(log), l \in Labels, gated \in BOOLEAN, observed \in BOOLEAN, force \in BOOLEAN :
          (~gated => ~observed /\ ~force) /\ promoter' = [promoter EXCEPT ![p] =
            [at |-> IF gated THEN "gate" ELSE "append", label |-> l, version |-> v, gated |-> gated,
             observed |-> observed, force |-> force, score |-> NoScore, passed |-> FALSE, read |-> 0]]
    BY <1>6 DEF AskPromotion
  <2> DEFINE w == [at |-> IF gated THEN "gate" ELSE "append", label |-> l, version |-> v, gated |-> gated,
                   observed |-> observed, force |-> force, score |-> NoScore, passed |-> FALSE, read |-> 0]
  <2>2. v \in Versions
    <3>1. PICK i \in OfKind(log, {"created"}) : v = log[i].version
      BY DEF KnownVersions
    <3>2. i \in 1 .. Len(log) /\ log[i] \in CreatedRow
      BY <3>1, SpineRows DEF OfKind, PromptInv, Spine
    <3> QED BY <3>1, <3>2 DEF CreatedRow
  <2>3. w \in Promotion /\ w.version = v /\ ~w.passed
    BY <2>2 DEF Promotion
  <2>4. EvidenceStands(log, w)
    BY <2>3 DEF EvidenceStands
  <2>5. UNCHANGED log
    BY <1>6 DEF AskPromotion
  <2>6. promoter' = [promoter EXCEPT ![p] = w]
    BY <2>1
  <2> HIDE DEF w
  <2> QED BY <1>5, <2>3, <2>4, <2>5, <2>6
<1>7. ASSUME NEW p \in Promoters, promoter[p].at = "gate" \/ promoter[p].at = "append"
      PROVE  /\ promoter[p] \in Promotion /\ promoter[p].version \in KnownVersions(log)
             /\ EvidenceStands(log, promoter[p])
  <2>1. promoter[p] # Waiting
    BY <1>7 DEF Waiting
  <2> QED BY <1>2, <2>1
<1>8. ASSUME NEW p \in Promoters, ReadGate(p) PROVE PromptInv'
  <2> DEFINE e == promoter[p]
             score == LatestScore(log, e.version)
             passed == GatePasses(score, e.observed)
             w == [e EXCEPT !.at = "append", !.score = score, !.passed = passed, !.read = Len(log)]
  <2>1. e.at = "gate" /\ UNCHANGED log
    BY <1>8 DEF ReadGate
  <2>2. e \in Promotion /\ e.version \in KnownVersions(log)
    BY <1>7, <2>1
  <2>3. CASE promoter' = [promoter EXCEPT ![p] = Waiting]
    BY <1>5, <2>1, <2>3
  <2>4. CASE promoter' = [promoter EXCEPT ![p] = w]
    <3>1. score # NoScore =>
            /\ score \in ScoreRow /\ score.version = e.version
            /\ Quoted(log, Len(log), score) /\ LeftOut(log, Len(log), e.version, score)
      BY GateReadsTheNewest DEF PromptInv
    <3> HIDE DEF score
    <3>2. passed \in BOOLEAN
      BY DEF GatePasses
    <3>3. passed => score # NoScore /\ score.value >= MinScore /\ (e.observed => score.provenance = "OBSERVED")
      BY DEF GatePasses
    <3> HIDE DEF passed
    <3>4. /\ w \in Promotion /\ w.version = e.version /\ w.score = score /\ w.passed = passed
          /\ w.read = Len(log) /\ w.observed = e.observed
      BY <1>2, <2>2, <3>1, <3>2 DEF Promotion
    <3> HIDE DEF w, e
    <3>5. EvidenceStands(log, w)
      BY <1>2, <3>1, <3>3, <3>4 DEF EvidenceStands
    <3> QED BY <1>5, <2>1, <2>2, <2>4, <3>4, <3>5
  <2> QED BY <1>8, <2>3, <2>4 DEF ReadGate
<1>9. ASSUME NEW p \in Promoters, AppendLabel(p) PROVE PromptInv'
  <2> DEFINE e == promoter[p]
             w == [kind |-> "labeled", label |-> e.label, version |-> e.version,
                   gated |-> e.gated, score |-> e.score,
                   passed |-> e.passed, forced |-> e.gated /\ ~e.passed,
                   observed |-> e.observed, read |-> e.read]
  <2>1. e.at = "append" /\ promoter' = [promoter EXCEPT ![p] = Waiting]
    BY <1>9 DEF AppendLabel
  <2>2. e \in Promotion /\ e.version \in KnownVersions(log) /\ EvidenceStands(log, e)
    BY <1>7, <2>1
  <2>3. CASE UNCHANGED log
    BY <1>5, <2>1, <2>3
  <2>4. CASE log' = Append(log, w)
    <3>1. w \in LabeledRow
      BY <2>2 DEF Promotion, LabeledRow
    <3>2. /\ w.version = e.version /\ w.gated = e.gated /\ w.forced = (e.gated /\ ~e.passed)
          /\ w.passed = e.passed /\ w.score = e.score /\ w.observed = e.observed /\ w.read = e.read
          /\ w.kind = "labeled"
      OBVIOUS
    <3> HIDE DEF w, e
    <3>3. EvidenceStands(log, w)
      BY <2>2, <3>2 DEF EvidenceStands
    <3>4. w.gated => w.passed \/ w.forced
      BY <3>2
    <3>5. Appendable(w)
      BY <2>2, <3>1, <3>2, <3>3, <3>4 DEF Appendable, SpineRow
    <3>6. /\ promoter' \in [Promoters -> Promotion \cup {Waiting}]
          /\ \A q \in Promoters : promoter'[q] = Waiting \/ promoter'[q] = promoter[q]
      BY <1>2, <2>1
    <3> QED BY <2>4, <3>5, <3>6, AppendKeepsPrompt
  <2> QED BY <1>9, <2>3, <2>4 DEF AppendLabel, Append1
<1> QED BY <1>1, <1>3, <1>4, <1>6, <1>8, <1>9 DEF PromptNext

(* Every row of a prompt is scanned while they fit the bound.              *)
LEMMA AllRowsFit ==
  ASSUME NEW s, Spine(s), Cardinality(OfKind(s, {"created", "labeled"})) <= MaxRows
  PROVE  PromptRows(s) = OfKind(s, {"created", "labeled"})
<1> DEFINE S == OfKind(s, {"created", "labeled"})
<1>1. Len(s) \in Nat /\ S \subseteq 1 .. Len(s)
  BY SpineRows DEF Spine, OfKind
<1>2. IsFiniteSet(S)
  <2>1. IsFiniteSet(1 .. Len(s))
    BY <1>1, FS_Interval
  <2> QED BY <1>1, <2>1, FS_Subset
<1>3. ASSUME NEW i \in S PROVE Cardinality({j \in S : j < i}) < MaxRows
  <2> DEFINE T == {j \in S : j < i}
  <2> HIDE DEF S
  <2>1. i \in Nat /\ i \notin T /\ T \subseteq S
    BY <1>1, <1>3
  <2> HIDE DEF T
  <2>2. IsFiniteSet(T) /\ Cardinality(T) <= Cardinality(S) /\ (Cardinality(S) = Cardinality(T) => S = T)
    BY <1>2, <2>1, FS_Subset
  <2>3. Cardinality(T) # Cardinality(S)
    BY <1>3, <2>1, <2>2
  <2>4. Cardinality(T) \in Nat /\ Cardinality(S) \in Nat
    BY <1>2, <2>2, FS_CardinalityType
  <2>5. Cardinality(S) <= MaxRows
    BY DEF S
  <2>6. Cardinality(T) < MaxRows
    BY <2>2, <2>3, <2>4, <2>5, PromptAssumption
  <2> QED BY <2>6 DEF T
<1> QED BY <1>3 DEF PromptRows, First

LEMMA PromptSuffices == PromptInv => PromotionsAreSound
<1> SUFFICES ASSUME PromptInv PROVE PromotionsAreSound
  OBVIOUS
<1>1. Len(log) \in Nat /\ DOMAIN log = 1 .. Len(log) /\ Spine(log)
  BY SpineRows DEF PromptInv, Spine
<1>2. PromotionsRestOnEvidence
  <2> SUFFICES ASSUME NEW i \in DOMAIN log, log[i].kind = "labeled", log[i].gated
               PROVE  LET e == log[i]
                          before == {k \in 1 .. e.read : log[k].kind = "score"}
                      IN  /\ e.passed \/ e.forced
                          /\ e.passed =>
                               /\ e.read < i /\ e.score.version = e.version
                               /\ \E k \in before : log[k] = e.score
                               /\ e.score.value >= MinScore
                               /\ e.observed => e.score.provenance = "OBSERVED"
                               /\ \A k \in before :
                                    log[k].version = e.version /\ Newer(log[k], e.score)
                                      => Cardinality({j \in before : j > k}) >= MaxScores
    BY DEF PromotionsRestOnEvidence
  <2>1. Audited(log, i)
    BY DEF PromptInv
  <2> QED BY <2>1 DEF Audited, EvidenceStands, Quoted, LeftOut, ScoresBefore, After
<1>3. ASSUME NEW l \in Labels, Pointing(log, l) # {}
      PROVE  /\ Max(Pointing(log, l)) \in Pointing(log, l)
             /\ \A j \in Pointing(log, l) : j <= Max(Pointing(log, l))
  <2>1. Pointing(log, l) \subseteq 0 .. Len(log)
    BY <1>1 DEF Pointing, PromptRows, First, OfKind
  <2> QED BY <1>1, <1>3, <2>1, GreatestOfSome
<1>4. ASSUME NEW l \in Labels PROVE Resolved(log, l) \in KnownVersions(log) \cup {0}
  <2>1. CASE Pointing(log, l) = {}
    BY <2>1 DEF Resolved
  <2>2. CASE Pointing(log, l) # {}
    <3>1. PICK m \in Pointing(log, l) : m = Max(Pointing(log, l))
      BY <1>3, <2>2
    <3>2. m \in DOMAIN log /\ log[m].kind = "labeled"
      BY DEF Pointing, PromptRows, First, OfKind
    <3>3. log[m].version \in KnownVersions(log)
      BY <3>2 DEF PromptInv, Audited
    <3> QED BY <2>2, <3>1, <3>3 DEF Resolved
  <2> QED BY <2>1, <2>2
<1>5. ASSUME NEW l \in Labels, Cardinality(OfKind(log, {"created", "labeled"})) <= MaxRows,
             NEW i \in DOMAIN log, log[i].kind = "labeled", log[i].label = l
      PROVE  \/ Resolved(log, l) = log[i].version
             \/ \E j \in i + 1 .. Len(log) : log[j].kind = "labeled" /\ log[j].label = l
  <2>1. i \in Pointing(log, l)
    <3>1. i \in PromptRows(log)
      BY <1>1, <1>5, AllRowsFit DEF OfKind
    <3> QED BY <1>5, <3>1 DEF Pointing
  <2>2. PICK m \in Pointing(log, l) : m = Max(Pointing(log, l)) /\ i <= m
    BY <1>3, <2>1
  <2>3. m \in 1 .. Len(log) /\ log[m].kind = "labeled" /\ log[m].label = l
    BY <1>1 DEF Pointing, PromptRows, First, OfKind
  <2>4. CASE m = i
    BY <2>1, <2>2, <2>4 DEF Resolved
  <2>5. CASE m # i
    <3>1. m \in i + 1 .. Len(log)
      BY <1>1, <1>5, <2>2, <2>3, <2>5
    <3> QED BY <2>3, <3>1
  <2> QED BY <2>4, <2>5
<1>6. LabelsResolve
  BY <1>4, <1>5 DEF LabelsResolve
<1> QED BY <1>2, <1>6 DEF PromotionsAreSound
-------------------------------------------------------------------------------
(* Annotations                                                             *)

ItemStatuses == {"pending", "claimed"} \cup FinalStatuses
ItemRow == [target : Spans, status : ItemStatuses]
Scoring == [at : {"score"}, span : Spans]
Annotating ==
  {AnnIdle, [at |-> "count"]} \cup [at : {"insert"}, spans : SUBSET Spans] \cup Scoring
    \cup [at : {"posted"}, counts : [pending : Nat, claimed : Nat, done : Nat]]
Scores(e, s) == e = [at |-> "score", span |-> s]
Finalised(s) == \E i \in 1 .. Len(items) : items[i].target = s /\ items[i].status = "done"
AnnTypeOK ==
  /\ matching \subseteq Spans
  /\ items \in Seq(ItemRow)
  /\ scores \in [Spans -> Nat]
  /\ annotator = [r \in Annotators |-> annotator[r]]
  /\ \A r \in Annotators : annotator[r].at = "insert" => annotator[r].spans \subseteq Spans
  /\ \A r \in Annotators : annotator[r].at = "score" => \E s \in Spans : Scores(annotator[r], s)
(* A finished span has its score, or one request that owes it, or none.    *)
SpanIsSound(s) ==
  /\ scores[s] \in {0, 1}
  /\ scores[s] = 1 \/ s \in cutScores \/ (\E r \in Annotators : Scores(annotator[r], s)) <=> Finalised(s)
  /\ scores[s] = 1 => s \notin cutScores /\ \A r \in Annotators : ~Scores(annotator[r], s)
  /\ s \in cutScores => \A r \in Annotators : ~Scores(annotator[r], s)
  /\ \A q, r \in Annotators : Scores(annotator[q], s) /\ Scores(annotator[r], s) => q = r
OnePerTarget == \A i, j \in 1 .. Len(items) : items[i].target = items[j].target => i = j
AnnInv ==
  /\ AnnTypeOK /\ OnePerTarget
  /\ \A s \in Spans : SpanIsSound(s)

(* Each span of a refill gets a place of its own.                          *)
LEMMA EveryPlaceIsTaken ==
  ASSUME NEW new, IsFiniteSet(new), new \subseteq Nat
  PROVE  \A k \in 1 .. Cardinality(new) : \E s \in new : Earlier(new, s) = k - 1
<1> DEFINE f == [s \in new |-> {t \in new : t < s}]
<1>1. \A x \in new : f[x] \subseteq new /\ x \notin f[x]
  OBVIOUS
<1>2. \A x, y \in new : x # y => (x \in f[y] /\ f[x] \subseteq f[y]) \/ (y \in f[x] /\ f[y] \subseteq f[x])
  <2> SUFFICES ASSUME NEW x \in new, NEW y \in new, x # y
               PROVE  (x \in f[y] /\ f[x] \subseteq f[y]) \/ (y \in f[x] /\ f[y] \subseteq f[x])
    OBVIOUS
  <2>1. x \in Nat /\ y \in Nat /\ \A t \in new : t \in Nat
    OBVIOUS
  <2>2. f[x] = {t \in new : t < x} /\ f[y] = {t \in new : t < y}
    OBVIOUS
  <2> HIDE DEF f
  <2>3. CASE x < y
    <3>1. \A t \in new : t < x => t < y
      BY <2>1, <2>3
    <3> QED BY <2>2, <2>3, <3>1
  <2>4. CASE y < x
    <3>1. \A t \in new : t < y => t < x
      BY <2>1, <2>4
    <3> QED BY <2>2, <2>4, <3>1
  <2> QED BY <2>1, <2>3, <2>4
<1>3. \A s \in new : Earlier(new, s) = Cardinality(f[s])
  BY DEF Earlier
<1> HIDE DEF f
<1>4. \A k \in 1 .. Cardinality(new) : \E s \in new : Cardinality(f[s]) = k - 1
  BY <1>1, <1>2, PlacesAreTaken
<1> QED BY <1>3, <1>4

LEMMA RefillAdds ==
  ASSUME AnnTypeOK, OnePerTarget, NEW some \in SUBSET Spans
  PROVE  LET more == InsertTargets(some)
         IN  /\ more \in Seq(ItemRow) /\ Len(items) <= Len(more)
             /\ \A i \in 1 .. Len(items) : more[i] = items[i]
             /\ \A i \in Len(items) + 1 .. Len(more) : more[i].status = "pending"
             /\ \A i, j \in 1 .. Len(more) : more[i].target = more[j].target => i = j
<1> DEFINE new == some \ Targets
           n == Cardinality(new)
           at(k) == CHOOSE s \in new : Earlier(new, s) = k - 1
           tail == [k \in 1 .. n |-> PendingItem(at(k))]
           more == items \o tail
<1>0. /\ items \in Seq(ItemRow) /\ Len(items) \in Nat /\ DOMAIN items = 1 .. Len(items)
      /\ \A i \in 1 .. Len(items) : items[i].target \in Targets
  BY DEF AnnTypeOK, Targets
<1>1. IsFiniteSet(new) /\ new \subseteq Nat /\ new \subseteq Spans
  BY AnnotationsAssumption, FS_Subset
<1>2. n \in Nat
  BY <1>1, FS_CardinalityType
<1>3. \A k \in 1 .. n : at(k) \in new /\ Earlier(new, at(k)) = k - 1
  <2> HIDE DEF new
  <2> QED BY <1>1, EveryPlaceIsTaken
<1>4. \A k \in 1 .. n : at(k) \in Spans /\ at(k) \notin Targets
  BY <1>3
<1>5. \A k, m \in 1 .. n : at(k) = at(m) => k = m
  <2> SUFFICES ASSUME NEW k \in 1 .. n, NEW m \in 1 .. n, at(k) = at(m) PROVE k = m
    OBVIOUS
  <2>1. k - 1 = m - 1
    BY <1>3
  <2> QED BY <1>2, <2>1
<1> HIDE DEF new, at, n
<1>6. \A k \in 1 .. n : PendingItem(at(k)) \in ItemRow
  BY <1>4 DEF PendingItem, ItemRow, ItemStatuses
<1>7. /\ tail \in Seq(ItemRow) /\ Len(tail) = n
      /\ \A k \in 1 .. n : tail[k] = PendingItem(at(k))
  BY <1>2, <1>6
<1> HIDE DEF tail
<1>8. /\ more \in Seq(ItemRow) /\ Len(more) = Len(items) + n
      /\ \A i \in 1 .. Len(items) : more[i] = items[i]
      /\ \A i \in Len(items) + 1 .. Len(more) : more[i] = tail[i - Len(items)]
  BY <1>0, <1>2, <1>7
<1> HIDE DEF more
<1>9. \A i \in Len(items) + 1 .. Len(more) : i - Len(items) \in 1 .. n
  BY <1>0, <1>2, <1>8
<1>10. \A i \in Len(items) + 1 .. Len(more) :
         more[i].target = at(i - Len(items)) /\ more[i].status = "pending"
  <2> SUFFICES ASSUME NEW i \in Len(items) + 1 .. Len(more)
               PROVE  more[i].target = at(i - Len(items)) /\ more[i].status = "pending"
    OBVIOUS
  <2>1. PICK k \in 1 .. n : k = i - Len(items)
    BY <1>9
  <2>2. more[i] = PendingItem(at(k))
    BY <1>7, <1>8, <2>1
  <2> QED BY <2>1, <2>2 DEF PendingItem
<1>11. ASSUME NEW i \in 1 .. Len(more), NEW j \in 1 .. Len(more), more[i].target = more[j].target
       PROVE  i = j
  <2>1. /\ i \in 1 .. Len(items) \/ i \in Len(items) + 1 .. Len(more)
        /\ j \in 1 .. Len(items) \/ j \in Len(items) + 1 .. Len(more)
    BY <1>0, <1>2, <1>8
  <2>2. \A x \in 1 .. Len(items) : more[x].target \in Targets
    BY <1>0, <1>8
  <2>3. \A x \in Len(items) + 1 .. Len(more) : more[x].target \notin Targets
    BY <1>4, <1>9, <1>10
  <2>4. CASE i \in 1 .. Len(items) /\ j \in 1 .. Len(items)
    BY <1>8, <1>11, <2>4 DEF OnePerTarget
  <2>5. CASE i \in Len(items) + 1 .. Len(more) /\ j \in Len(items) + 1 .. Len(more)
    <3>1. i - Len(items) = j - Len(items)
      BY <1>5, <1>9, <1>10, <1>11, <2>5
    <3> QED BY <1>0, <2>5, <3>1
  <2> QED BY <1>11, <2>1, <2>2, <2>3, <2>4, <2>5
<1>12. InsertTargets(some) = more
  BY DEF InsertTargets, more, tail, at, n, new
<1> QED BY <1>0, <1>2, <1>8, <1>10, <1>11, <1>12

LEMMA AnnSuffices == AnnInv => ScoredOnce
<1> SUFFICES ASSUME AnnInv PROVE ScoredOnce
  OBVIOUS
<1>1. DOMAIN items = 1 .. Len(items) /\ \A i \in 1 .. Len(items) : items[i] \in ItemRow
  BY DEF AnnInv, AnnTypeOK
<1>2. \A i, j \in DOMAIN items : items[i].target = items[j].target => i = j
  BY <1>1 DEF AnnInv, OnePerTarget
<1>3. ASSUME NEW s \in Spans
      PROVE  /\ scores[s] <= 1
             /\ scores[s] = 1 => Done(s)
             /\ Done(s) <=> scores[s] = 1 \/ Submitting(s) \/ s \in cutScores
  <2>1. SpanIsSound(s)
    BY DEF AnnInv
  <2>2. Done(s) <=> Finalised(s)
    <3>1. \A i \in 1 .. Len(items) : items[i] = [target |-> s, status |-> "done"]
                                       <=> items[i].target = s /\ items[i].status = "done"
      BY <1>1 DEF ItemRow
    <3> QED BY <1>1, <3>1 DEF Done, Finalised
  <2>3. Submitting(s) <=> \E r \in Annotators : Scores(annotator[r], s)
    BY DEF Submitting, Scores
  <2>4. scores[s] <= 1
    BY <2>1 DEF SpanIsSound
  <2> QED BY <2>1, <2>2, <2>3, <2>4 DEF SpanIsSound
<1> QED BY <1>2, <1>3 DEF ScoredOnce

LEMMA AnnStart == AnnotationsInit => AnnInv
<1> SUFFICES ASSUME AnnotationsInit PROVE AnnInv
  OBVIOUS
<1>1. items = <<>> /\ Len(items) = 0 /\ items \in Seq(ItemRow)
  BY DEF AnnotationsInit
<1>2. \A r \in Annotators : annotator[r].at = "idle" /\ annotator[r] = [at |-> "idle"]
  BY DEF AnnotationsInit, AnnIdle
<1>3. AnnTypeOK
  BY <1>1, <1>2 DEF AnnotationsInit, AnnTypeOK
<1>4. OnePerTarget
  BY <1>1 DEF OnePerTarget
<1>5. ASSUME NEW s \in Spans PROVE SpanIsSound(s)
  <2>1. \A r \in Annotators : ~Scores(annotator[r], s)
    BY <1>2 DEF Scores
  <2>2. ~Finalised(s)
    BY <1>1 DEF Finalised
  <2>3. scores[s] = 0 /\ s \notin cutScores
    BY DEF AnnotationsInit
  <2> QED BY <2>1, <2>2, <2>3 DEF SpanIsSound
<1> QED BY <1>3, <1>4, <1>5 DEF AnnInv

(* The request r goes on to v, and neither it nor its rows tell of a score.*)
LEMMA AnnotatorKept ==
  ASSUME AnnInv, NEW r \in Annotators, NEW v, annotator' = [annotator EXCEPT ![r] = v],
         annotator[r].at # "score", v.at # "score",
         v.at = "insert" => v.spans \subseteq Spans,
         matching' \subseteq Spans, items' \in Seq(ItemRow), OnePerTarget',
         UNCHANGED <<scores, cutScores>>,
         \A s \in Spans : Finalised(s)' <=> Finalised(s)
  PROVE  AnnInv'
<1>1. \A q \in Annotators : annotator'[q] = IF q = r THEN v ELSE annotator[q]
  BY DEF AnnInv, AnnTypeOK
<1>2. \A q \in Annotators : \A s : Scores(annotator'[q], s) <=> Scores(annotator[q], s)
  <2> SUFFICES ASSUME NEW q \in Annotators, NEW s PROVE Scores(annotator'[q], s) <=> Scores(annotator[q], s)
    OBVIOUS
  <2>1. CASE q = r
    BY <1>1, <2>1 DEF Scores
  <2>2. CASE q # r
    BY <1>1, <2>2
  <2> QED BY <2>1, <2>2
<1>3. AnnTypeOK'
  <2>1. /\ \A q \in Annotators : annotator'[q].at = "insert" => annotator'[q].spans \subseteq Spans
        /\ \A q \in Annotators : annotator'[q].at = "score" => \E s \in Spans : Scores(annotator'[q], s)
    BY <1>1 DEF AnnInv, AnnTypeOK
  <2>2. scores' \in [Spans -> Nat] /\ annotator' = [q \in Annotators |-> annotator'[q]]
    BY <1>1 DEF AnnInv, AnnTypeOK
  <2> QED BY <2>1, <2>2 DEF AnnTypeOK
<1>4. ASSUME NEW s \in Spans PROVE SpanIsSound(s)'
  <2>1. SpanIsSound(s) /\ scores' = scores /\ cutScores' = cutScores /\ (Finalised(s)' <=> Finalised(s))
    BY DEF AnnInv
  <2> QED BY <1>2, <2>1 DEF SpanIsSound
<1> QED BY <1>3, <1>4 DEF AnnInv

(* A status changes: the rows and their targets stay.                      *)
LEMMA StatusSet ==
  ASSUME AnnInv, NEW i \in DOMAIN items, NEW status \in ItemStatuses, SetStatus(i, status)
  PROVE  /\ items' \in Seq(ItemRow) /\ OnePerTarget' /\ items[i].target \in Spans
         /\ i \in 1 .. Len(items) /\ Len(items') = Len(items)
         /\ \A j \in 1 .. Len(items) : j # i => items'[j] = items[j]
         /\ items'[i].target = items[i].target /\ items'[i].status = status
<1>1. /\ items \in Seq(ItemRow) /\ Len(items) \in Nat /\ DOMAIN items = 1 .. Len(items)
      /\ \A j \in 1 .. Len(items) : items[j] \in ItemRow
  BY DEF AnnInv, AnnTypeOK
<1> DEFINE row == [items[i] EXCEPT !.status = status]
<1>2. row \in ItemRow /\ row.target = items[i].target /\ row.status = status /\ items[i].target \in Spans
  BY <1>1 DEF ItemRow
<1>3. items' = [items EXCEPT ![i] = row]
  BY <1>1 DEF SetStatus
<1> HIDE DEF row
<1>4. /\ items' \in Seq(ItemRow) /\ Len(items') = Len(items)
      /\ \A j \in 1 .. Len(items) : items'[j] = IF j = i THEN row ELSE items[j]
  BY <1>1, <1>2, <1>3
<1>5. \A j \in 1 .. Len(items) : items'[j].target = items[j].target
  BY <1>1, <1>2, <1>4
<1>6. OnePerTarget'
  BY <1>4, <1>5 DEF AnnInv, OnePerTarget
<1> QED BY <1>1, <1>2, <1>4, <1>6

LEMMA AnnStep == AnnInv /\ [AnnotationsNext]_annVars => AnnInv'
<1> SUFFICES ASSUME AnnInv, [AnnotationsNext]_annVars PROVE AnnInv'
  OBVIOUS
<1>0. /\ matching \subseteq Spans /\ items \in Seq(ItemRow) /\ Len(items) \in Nat
      /\ DOMAIN items = 1 .. Len(items) /\ AnnTypeOK /\ OnePerTarget
      /\ scores \in [Spans -> Nat]
  BY DEF AnnInv, AnnTypeOK
<1>1. CASE UNCHANGED annVars
  BY <1>1 DEF annVars, AnnInv, AnnTypeOK, OnePerTarget, SpanIsSound, Finalised
<1>2. CASE RoomRestarts
  BY <1>2 DEF RoomRestarts, AnnInv, AnnTypeOK, OnePerTarget, SpanIsSound, Finalised
<1>3. CASE SpansChange
  <2>1. matching' \subseteq Spans /\ UNCHANGED <<items, scores, annotator, cutScores>>
    BY <1>0, <1>3 DEF SpansChange
  <2> QED BY <2>1 DEF AnnInv, AnnTypeOK, OnePerTarget, SpanIsSound, Finalised
<1>d. PICK count : count = [at |-> "count"]
  OBVIOUS
<1>e. count.at = "count"
  BY <1>d
<1>a. ASSUME NEW r \in Annotators, NEW v, annotator' = [annotator EXCEPT ![r] = v],
             annotator[r].at # "score", v.at # "score",
             v.at = "insert" => v.spans \subseteq Spans,
             UNCHANGED <<matching, items, scores, cutScores>>
      PROVE  AnnInv'
  <2>1. items' = items /\ matching' \subseteq Spans /\ items' \in Seq(ItemRow) /\ OnePerTarget'
    BY <1>0, <1>a DEF OnePerTarget
  <2>2. \A s \in Spans : Finalised(s)' <=> Finalised(s)
    BY <2>1 DEF Finalised
  <2> QED BY <1>a, <2>1, <2>2, AnnotatorKept
<1>4. ASSUME NEW r \in Annotators, ScanSpans(r) PROVE AnnInv'
  <2>1. Candidates \subseteq Spans
    BY <1>0 DEF Candidates
  <2>2. annotator[r].at = "idle" /\ UNCHANGED <<matching, items, scores, cutScores>>
    BY <1>4 DEF ScanSpans, AnnIdle
  <2>3. ASSUME NEW v, v \in {[at |-> "count"], [at |-> "insert", spans |-> Candidates]},
               annotator' = [annotator EXCEPT ![r] = v]
        PROVE  AnnInv'
    <3>1. v.at # "score" /\ (v.at = "insert" => v.spans \subseteq Spans)
      BY <2>1, <2>3
    <3> QED BY <1>a, <2>2, <2>3, <3>1
  <2> QED BY <1>4, <2>3 DEF ScanSpans, AnnGoto
<1>5. ASSUME NEW r \in Annotators, InsertItems(r) PROVE AnnInv'
  <2>1. /\ annotator[r].at = "insert" /\ annotator[r].spans \in SUBSET Spans
        /\ items' = InsertTargets(annotator[r].spans)
        /\ annotator' = [annotator EXCEPT ![r] = [at |-> "count"]]
        /\ UNCHANGED <<matching, scores, cutScores>>
    BY <1>0, <1>5 DEF InsertItems, AnnTypeOK, AnnGoto
  <2> DEFINE some == annotator[r].spans
  <2>2. /\ items' \in Seq(ItemRow) /\ Len(items) <= Len(items')
        /\ \A i \in 1 .. Len(items) : items'[i] = items[i]
        /\ \A i \in Len(items) + 1 .. Len(items') : items'[i].status = "pending"
        /\ \A i, j \in 1 .. Len(items') : items'[i].target = items'[j].target => i = j
    <3> HIDE DEF some
    <3>1. items' = InsertTargets(some) /\ some \in SUBSET Spans
      BY <2>1 DEF some
    <3> QED BY <1>0, <3>1, RefillAdds
  <2>3. Len(items') \in Nat
    BY <2>2
  <2>4. ASSUME NEW s \in Spans PROVE Finalised(s)' <=> Finalised(s)
    <3>1. \A i \in 1 .. Len(items') : i \in 1 .. Len(items) \/ items'[i].status # "done"
      <4>1. \A i \in 1 .. Len(items') : i \in 1 .. Len(items) \/ i \in Len(items) + 1 .. Len(items')
        BY <1>0, <2>3
      <4> QED BY <2>2, <4>1
    <3>2. \A i \in 1 .. Len(items) : i \in 1 .. Len(items')
      BY <1>0, <2>2, <2>3
    <3> QED BY <2>2, <3>1, <3>2 DEF Finalised
  <2>5. OnePerTarget' /\ matching' \subseteq Spans
    BY <1>0, <2>1, <2>2 DEF OnePerTarget
  <2>6. annotator' = [annotator EXCEPT ![r] = count] /\ count.at # "score" /\ count.at # "insert"
    BY <1>d, <1>e, <2>1
  <2> QED BY <2>1, <2>2, <2>4, <2>5, <2>6, AnnotatorKept
<1>b. ASSUME NEW r \in Annotators, NEW i \in DOMAIN items, NEW status \in {"claimed", "skipped"},
             Finalisable(i), SetStatus(i, status), annotator[r] = AnnIdle,
             annotator' = [annotator EXCEPT ![r] = [at |-> "count"]],
             UNCHANGED <<matching, scores, cutScores>>
      PROVE  AnnInv'
  <2>0. status \in ItemStatuses
    BY DEF ItemStatuses, FinalStatuses
  <2>1. /\ items' \in Seq(ItemRow) /\ OnePerTarget' /\ Len(items') = Len(items)
        /\ \A j \in 1 .. Len(items) : j # i => items'[j] = items[j]
        /\ items'[i].status = status
    BY <1>b, <2>0, StatusSet
  <2>2. items[i].status # "done" /\ items'[i].status # "done"
    BY <1>b, <2>1 DEF Finalisable, FinalStatuses
  <2>3. \A s \in Spans : Finalised(s)' <=> Finalised(s)
    BY <2>1, <2>2 DEF Finalised
  <2>4. annotator[r].at = "idle" /\ matching' \subseteq Spans
    BY <1>0, <1>b DEF AnnIdle
  <2>5. annotator' = [annotator EXCEPT ![r] = count] /\ count.at # "score" /\ count.at # "insert"
    BY <1>b, <1>d, <1>e
  <2> QED BY <1>b, <2>1, <2>3, <2>4, <2>5, AnnotatorKept
<1>6. ASSUME NEW r \in Annotators, ClaimNext(r) PROVE AnnInv'
  <2>1. PICK i \in DOMAIN items : Claimable(i) /\ SetStatus(i, "claimed")
    BY <1>6 DEF ClaimNext
  <2>2. Finalisable(i)
    BY <2>1 DEF Claimable, Finalisable, FinalStatuses
  <2> QED BY <1>6, <1>b, <2>1, <2>2 DEF ClaimNext, AnnGoto
<1>7. ASSUME NEW r \in Annotators, SkipItem(r) PROVE AnnInv'
  <2>1. PICK i \in DOMAIN items : Finalisable(i) /\ SetStatus(i, "skipped")
    BY <1>7 DEF SkipItem
  <2> QED BY <1>7, <1>b, <2>1 DEF SkipItem, AnnGoto
<1>8. ASSUME NEW r \in Annotators, SubmitItem(r) PROVE AnnInv'
  <2>1. PICK i \in DOMAIN items :
          Finalisable(i) /\ SetStatus(i, "done") /\ AnnGoto(r, [at |-> "score", span |-> items[i].target])
    BY <1>8 DEF SubmitItem
  <2>0. "done" \in ItemStatuses
    BY DEF ItemStatuses, FinalStatuses
  <2>t. PICK x \in Spans : x = items[i].target
    BY <2>0, <2>1, StatusSet
  <2> DEFINE v == [at |-> "score", span |-> x]
  <2>2. /\ items' \in Seq(ItemRow) /\ OnePerTarget' /\ Len(items') = Len(items)
        /\ i \in 1 .. Len(items) /\ items[i].target = x
        /\ \A j \in 1 .. Len(items) : j # i => items'[j] = items[j]
        /\ items'[i].target = x /\ items'[i].status = "done"
    BY <2>0, <2>1, <2>t, StatusSet
  <2>3. items[i].status # "done"
    BY <2>1 DEF Finalisable, FinalStatuses
  <2>4. ~Finalised(x) /\ Finalised(x)'
    <3>1. \A j \in 1 .. Len(items) : items[j].target = x => j = i
      BY <1>0, <2>2 DEF OnePerTarget
    <3> QED BY <2>2, <2>3, <3>1 DEF Finalised
  <2>5. \A s \in Spans : s # x => (Finalised(s)' <=> Finalised(s))
    <3>1. \A s \in Spans, j \in 1 .. Len(items) : s # x =>
            (items'[j].target = s /\ items'[j].status = "done" <=> items[j].target = s /\ items[j].status = "done")
      BY <2>2
    <3> QED BY <2>2, <3>1 DEF Finalised
  <2>6. UNCHANGED <<matching, scores, cutScores>> /\ annotator[r].at = "idle"
    BY <1>8 DEF SubmitItem, AnnIdle
  <2>7. \A q \in Annotators : annotator'[q] = IF q = r THEN v ELSE annotator[q]
    BY <1>0, <2>1, <2>t DEF AnnTypeOK, AnnGoto
  <2>8. annotator' = [q \in Annotators |-> annotator'[q]]
    BY <1>0, <2>1 DEF AnnTypeOK, AnnGoto
  <2>9. v.at = "score" /\ v.span = x /\ \A s : Scores(v, s) <=> s = x
    BY DEF Scores
  <2> HIDE DEF v
  <2>10. \A s : ~Scores(annotator[r], s)
    BY <2>6 DEF Scores
  <2>11. AnnTypeOK'
    <3>1. /\ \A q \in Annotators : annotator'[q].at = "insert" => annotator'[q].spans \subseteq Spans
          /\ \A q \in Annotators : annotator'[q].at = "score" => \E s \in Spans : Scores(annotator'[q], s)
      BY <1>0, <2>2, <2>7, <2>9 DEF AnnTypeOK
    <3> QED BY <1>0, <2>2, <2>6, <2>8, <3>1 DEF AnnTypeOK
  <2>12. ASSUME NEW s \in Spans PROVE SpanIsSound(s)'
    <3>1. SpanIsSound(s) /\ scores' = scores /\ cutScores' = cutScores
      BY <2>6 DEF AnnInv
    <3>2. CASE s # x
      <4>1. \A q \in Annotators : Scores(annotator'[q], s) <=> Scores(annotator[q], s)
        BY <2>7, <2>9, <2>10, <3>2
      <4> QED BY <2>5, <3>1, <3>2, <4>1 DEF SpanIsSound
    <3>3. CASE s = x
      <4>1. /\ scores[s] = 0 /\ s \notin cutScores
            /\ \A q \in Annotators : ~Scores(annotator[q], s)
        BY <2>4, <3>1, <3>3 DEF SpanIsSound
      <4>2. \A q \in Annotators : Scores(annotator'[q], s) <=> q = r
        BY <2>7, <2>9, <3>3, <4>1
      <4>3. scores'[s] = 0 /\ s \notin cutScores'
        BY <3>1, <4>1
      <4> QED BY <2>4, <3>3, <4>2, <4>3 DEF SpanIsSound
    <3> QED BY <3>2, <3>3
  <2> QED BY <2>2, <2>11, <2>12 DEF AnnInv
<1>c. ASSUME NEW r \in Annotators, annotator[r].at = "score", NEW v, v.at # "score", v.at # "insert",
             annotator' = [annotator EXCEPT ![r] = v], UNCHANGED <<matching, items>>,
             \/ /\ scores' = [scores EXCEPT ![annotator[r].span] = @ + 1] /\ UNCHANGED cutScores
             \/ cutScores' = cutScores \cup {annotator[r].span} /\ UNCHANGED scores
      PROVE  AnnInv'
  <2>1. PICK x \in Spans : Scores(annotator[r], x)
    BY <1>c DEF AnnInv, AnnTypeOK
  <2>2. annotator[r].span = x /\ \A s : Scores(annotator[r], s) => s = x
    BY <2>1 DEF Scores
  <2>3. /\ \A q \in Annotators : annotator'[q] = IF q = r THEN v ELSE annotator[q]
        /\ annotator' = [q \in Annotators |-> annotator'[q]]
    BY <1>0, <1>c DEF AnnTypeOK
  <2>4. \A s : ~Scores(v, s)
    BY <1>c DEF Scores
  <2>5. SpanIsSound(x)
    BY DEF AnnInv
  <2>6. /\ scores[x] = 0 /\ x \notin cutScores /\ Finalised(x)
        /\ \A q \in Annotators : Scores(annotator[q], x) => q = r
    BY <2>1, <2>5 DEF SpanIsSound
  <2>7. \A q \in Annotators : ~Scores(annotator'[q], x)
    BY <2>3, <2>4, <2>6
  <2>8. \A q \in Annotators, s \in Spans : s # x => (Scores(annotator'[q], s) <=> Scores(annotator[q], s))
    BY <2>2, <2>3, <2>4
  <2>9. /\ scores' \in [Spans -> Nat] /\ \A s \in Spans : s # x => scores'[s] = scores[s]
        /\ \A s \in Spans : s # x => (s \in cutScores' <=> s \in cutScores)
        /\ (scores'[x] = 1 /\ x \notin cutScores') \/ (scores'[x] = 0 /\ x \in cutScores')
    BY <1>0, <1>c, <2>2, <2>6
  <2>10. AnnTypeOK'
    <3>1. /\ \A q \in Annotators : annotator'[q].at = "insert" => annotator'[q].spans \subseteq Spans
          /\ \A q \in Annotators : annotator'[q].at = "score" => \E s \in Spans : Scores(annotator'[q], s)
      BY <1>0, <1>c, <2>3 DEF AnnTypeOK
    <3> QED BY <1>0, <1>c, <2>3, <2>9, <3>1 DEF AnnTypeOK
  <2>11. ASSUME NEW s \in Spans PROVE SpanIsSound(s)'
    <3>1. SpanIsSound(s) /\ (Finalised(s)' <=> Finalised(s))
      BY <1>c DEF AnnInv, Finalised
    <3>2. CASE s # x
      <4>1. \A q \in Annotators : Scores(annotator'[q], s) <=> Scores(annotator[q], s)
        BY <2>8, <3>2
      <4>2. scores'[s] = scores[s] /\ (s \in cutScores' <=> s \in cutScores)
        BY <2>9, <3>2
      <4> QED BY <3>1, <4>1, <4>2 DEF SpanIsSound
    <3>3. CASE s = x
      <4>1. Finalised(s)'
        BY <2>6, <3>1, <3>3
      <4>2. \A q \in Annotators : ~Scores(annotator'[q], s)
        BY <2>7, <3>3
      <4>3. (scores'[s] = 1 /\ s \notin cutScores') \/ (scores'[s] = 0 /\ s \in cutScores')
        BY <2>9, <3>3
      <4> QED BY <4>1, <4>2, <4>3 DEF SpanIsSound
    <3> QED BY <3>2, <3>3
  <2>12. OnePerTarget'
    BY <1>0, <1>c DEF OnePerTarget
  <2> QED BY <2>10, <2>11, <2>12 DEF AnnInv
<1>9. ASSUME NEW r \in Annotators, RecordScore(r) PROVE AnnInv'
  <2>1. annotator' = [annotator EXCEPT ![r] = count] /\ count.at # "score" /\ count.at # "insert"
    BY <1>9, <1>d, <1>e DEF RecordScore, AnnGoto
  <2> QED BY <1>9, <1>c, <2>1 DEF RecordScore
<1>10. ASSUME NEW r \in Annotators, CountAndNotify(r) PROVE AnnInv'
  <2>1. PICK v : v = [at |-> "posted", counts |-> ItemCounts]
    OBVIOUS
  <2>2. v.at # "score" /\ v.at # "insert" /\ annotator' = [annotator EXCEPT ![r] = v]
    BY <1>10, <2>1 DEF CountAndNotify, AnnGoto
  <2> QED BY <1>10, <1>a, <2>2 DEF CountAndNotify
<1>11. ASSUME NEW r \in Annotators, annotator' = [annotator EXCEPT ![r] = AnnIdle],
              RoomReceives(r) \/ EvictAnnotator(r)
       PROVE  AnnInv'
  <2>1. AnnIdle.at # "score" /\ AnnIdle.at # "insert"
    BY DEF AnnIdle
  <2>2. CASE annotator[r].at = "score"
    <3>1. /\ UNCHANGED <<matching, items, scores>> /\ cutScores' = cutScores \cup {annotator[r].span}
      BY <1>11, <2>2 DEF EvictAnnotator, RoomReceives
    <3> QED BY <1>11, <1>c, <2>1, <2>2, <3>1
  <2>3. CASE annotator[r].at # "score"
    <3>1. UNCHANGED <<matching, items, scores, cutScores>>
      BY <1>11, <2>3 DEF EvictAnnotator, RoomReceives
    <3> QED BY <1>11, <1>a, <2>1, <2>3, <3>1
  <2> QED BY <2>2, <2>3
<1>12. ASSUME NEW r \in Annotators, RoomReceives(r) \/ EvictAnnotator(r) PROVE AnnInv'
  BY <1>11, <1>12 DEF RoomReceives, EvictAnnotator, AnnGoto
<1> QED BY <1>1, <1>2, <1>3, <1>4, <1>5, <1>6, <1>7, <1>8, <1>9, <1>10, <1>12 DEF AnnotationsNext

LEMMA PromptsMove == [WorkNext]_<<part, workVars>> => [PromptNext]_promptVars
  BY DEF WorkNext, Still, workVars, EvalPart, SimulationPart, PlaygroundPart, PromptPart,
         AnnotationPart, AlertPart, GatewayPart, KeyPart
LEMMA AnnotationsMove == [WorkNext]_<<part, workVars>> => [AnnotationsNext]_annVars
  BY DEF WorkNext, Still, workVars, EvalPart, SimulationPart, PlaygroundPart, PromptPart,
         AnnotationPart, AlertPart, GatewayPart, KeyPart

(* A promotion rests on the newest score its scan could see, and every     *)
(* label resolves to the version it was set to last (repointLabel,         *)
(* loadLinkedScores, resolveLabels); a span is in its queue once and is    *)
(* scored once, and only where an eviction came between is a finished item *)
(* without its score (refillQueue, finalizeItem, submitItem): for any log, *)
(* any bounds of the scans, any spans and any number of requests.          *)
THEOREM ScoresStaySound == WorkSpec => []ScoresAreSound
<1>1. WorkInit => PromptInv /\ AnnInv
  BY PromptStart, AnnStart DEF WorkInit
<1>2. PromptInv /\ AnnInv /\ [WorkNext]_<<part, workVars>> => PromptInv' /\ AnnInv'
  BY PromptsMove, AnnotationsMove, PromptStep, AnnStep
<1>3. PromptInv /\ AnnInv => ScoresAreSound
  BY PromptSuffices, AnnSuffices DEF ScoresAreSound
<1> QED BY <1>1, <1>2, <1>3, PTL DEF WorkSpec

-------------------------------------------------------------------------------
(* The members of a workspace                                              *)

(* What a request at a step has established: its invite makes nobody an    *)
(* owner, its change is not forbidden to its actor for the role that was   *)
(* read, and the head it read is no younger than the trail.                *)
RequestOK(label, q, length) ==
  /\ q.op \in {"invite", "accept"} => q.next # "owner"
  /\ label # "read" /\ q.op \in {"role", "remove"} => ~Forbidden(q, q.was)
  /\ label = "commit" => q.head < length
RequestsOK ==
  \A r \in Requests : step[r] # "idle" => RequestOK(step[r], req[r], Len(trail))

TeamsInv == TeamsTypeOK /\ NeverOwnerless /\ SeatsBound /\ OneChain /\ RequestsOK

(* No record of a request is the empty one.                                *)
LEMMA RequestIsSome == NoRequest \notin Request
  BY DEF Request, NoRequest

(* The roles.                                                              *)
LEMMA RolesAre ==
  /\ Roles = {"owner", "admin", "member", "viewer"} /\ Given \subseteq Roles
  /\ InvitableRoles = {"admin", "member", "viewer"}
  BY TeamsAssumption DEF Roles, InvitableRoles

(* The initial state.                                                      *)
LEMMA TeamsInitInv == TeamsInit => TeamsInv
  <1> SUFFICES ASSUME TeamsInit PROVE TeamsInv
    OBVIOUS
  <1>1. PICK m \in Memberships : role = m.role /\ active = m.active
    BY DEF TeamsInit
  <1>2. TeamsTypeOK
    <2>1. trail = <<>> /\ trail \in Seq(Link)
      BY DEF TeamsInit
    <2>2. req = [r \in Requests |-> NoRequest] /\ step = [r \in Requests |-> "idle"]
      BY DEF TeamsInit
    <2>3. req \in [Requests -> Request \cup {NoRequest}] /\ step \in [Requests -> Steps]
      BY <2>2 DEF Steps
    <2>4. \A r \in Requests : step[r] = "idle" <=> req[r] = NoRequest
      BY <2>2
    <2>5. role \in [Users -> Roles \cup {"none"}] /\ active \subseteq Users
          /\ \A u \in active : role[u] # "none"
      BY <1>1, TeamsAssumption
    <2>6. /\ invites \in [Invites -> [email : Users, role : {"admin", "member", "viewer"},
                                      state : {"unused", "live", "accepted", "revoked"}]]
          /\ expired \subseteq Invites /\ lockedOut \in BOOLEAN
      BY TeamsAssumption DEF TeamsInit
    <2> QED BY <2>1, <2>3, <2>4, <2>5, <2>6 DEF TeamsTypeOK
  <1>3. NeverOwnerless /\ SeatsBound
    BY <1>1, TeamsAssumption DEF NeverOwnerless, SeatsBound, Owners
  <1>4. OneChain /\ RequestsOK
    BY DEF OneChain, RequestsOK, TeamsInit
  <1> QED BY <1>2, <1>3, <1>4 DEF TeamsInv

-------------------------------------------------------------------------------
(* The trail                                                               *)

(* One chain has the numbers from 0 up, and its head is the last of them.  *)
LEMMA HeadIsLast ==
  ASSUME TeamsTypeOK, OneChain
  PROVE  /\ Len(trail) \in Nat
         /\ Numbers = 0 .. Len(trail) - 1
         /\ TrailHead = Len(trail) - 1
  <1>1. trail \in Seq(Link) /\ Len(trail) \in Nat
    BY DEF TeamsTypeOK
  <1>2. \A n \in 1 .. Len(trail) : trail[n].seq = n - 1
    BY DEF OneChain
  <1>3. Numbers = 0 .. Len(trail) - 1
    <2>1. ASSUME NEW s \in Numbers PROVE s \in 0 .. Len(trail) - 1
      BY <1>1, <1>2, <2>1 DEF Numbers
    <2>2. ASSUME NEW s \in 0 .. Len(trail) - 1 PROVE s \in Numbers
      <3>1. s + 1 \in 1 .. Len(trail) /\ trail[s + 1].seq = s
        BY <1>1, <1>2
      <3> QED BY <3>1 DEF Numbers
    <2> QED BY <2>1, <2>2
  <1>4. Len(trail) - 1 \in Numbers \cup {-1}
        /\ \A t \in Numbers \cup {-1} : t <= Len(trail) - 1
    BY <1>1, <1>3
  <1>5. \A s \in Numbers \cup {-1} : (\A t \in Numbers : t <= s) => s = Len(trail) - 1
    BY <1>1, <1>3
  <1>6. TrailHead \in Numbers \cup {-1} /\ \A t \in Numbers : t <= TrailHead
    BY <1>4 DEF TrailHead
  <1> QED BY <1>1, <1>3, <1>5, <1>6

(* What a transaction appends continues the chain, if nobody was faster.   *)
LEMMA TrailGrows ==
  ASSUME TeamsInv, NEW r \in Requests, step[r] = "commit", ~ChainConflict(req[r]),
         trail' = trail \o LinksOf(req[r])
  PROVE  /\ trail' \in Seq(Link) /\ OneChain'
         /\ Len(trail') > Len(trail)
         /\ \A n \in 1 .. Len(trail) : trail'[n] = trail[n]
  <1> DEFINE q == req[r]
  <1>1. q.head \in Nat \cup {-1} /\ q.head < Len(trail)
    BY RequestIsSome DEF TeamsInv, TeamsTypeOK, RequestsOK, RequestOK, Request
  <1>2. trail \in Seq(Link) /\ Len(trail) \in Nat /\ Numbers = 0 .. Len(trail) - 1
    BY HeadIsLast DEF TeamsInv, TeamsTypeOK
  <1>3. q.head = Len(trail) - 1
    BY <1>1, <1>2 DEF ChainConflict
  <1>4. \A n \in 1 .. Len(trail) : trail[n].seq = n - 1 /\ trail[n].prev = n - 2
    BY DEF TeamsInv, OneChain
  <1>5. PICK s : s = LinksOf(q)
    OBVIOUS
  <1>6. /\ s \in Seq(Link) /\ Len(s) \in {1, 2}
        /\ \A k \in 1 .. Len(s) : /\ s[k].seq = Len(trail) + k - 1
                                  /\ s[k].prev = Len(trail) + k - 2
    <2>1. /\ LinkAfter(q.head) \in Link /\ LinkAfter(q.head + 1) \in Link
          /\ LinkAfter(q.head).seq = Len(trail) /\ LinkAfter(q.head).prev = Len(trail) - 1
          /\ LinkAfter(q.head + 1).seq = Len(trail) + 1 /\ LinkAfter(q.head + 1).prev = Len(trail)
      BY <1>2, <1>3 DEF LinkAfter, Link
    <2>2. CASE q.op = "accept"
      <3>1. s = <<LinkAfter(q.head), LinkAfter(q.head + 1)>>
        BY <1>5, <2>2 DEF LinksOf
      <3> QED BY <1>2, <2>1, <3>1
    <2>3. CASE q.op # "accept"
      <3>1. s = <<LinkAfter(q.head)>>
        BY <1>5, <2>3 DEF LinksOf
      <3> QED BY <1>2, <2>1, <3>1
    <2> QED BY <2>2, <2>3
  <1>7. trail' = trail \o s
    BY <1>5
  <1>8. /\ trail' \in Seq(Link) /\ Len(trail') = Len(trail) + Len(s)
        /\ \A n \in 1 .. Len(trail) : trail'[n] = trail[n]
        /\ \A k \in 1 .. Len(s) : trail'[Len(trail) + k] = s[k]
    BY <1>2, <1>6, <1>7
  <1>9. \A n \in 1 .. Len(trail') : trail'[n].seq = n - 1 /\ trail'[n].prev = n - 2
    <2> SUFFICES ASSUME NEW n \in 1 .. Len(trail')
                 PROVE  trail'[n].seq = n - 1 /\ trail'[n].prev = n - 2
      OBVIOUS
    <2>1. CASE n <= Len(trail)
      BY <1>2, <1>4, <1>8, <2>1
    <2>2. CASE n > Len(trail)
      <3>1. n - Len(trail) \in 1 .. Len(s) /\ n = Len(trail) + (n - Len(trail))
        BY <1>2, <1>6, <1>8, <2>2
      <3>2. trail'[n] = s[n - Len(trail)]
        BY <1>8, <3>1
      <3> QED BY <1>2, <1>6, <3>1, <3>2
    <2> QED BY <1>2, <1>6, <1>8, <2>1, <2>2
  <1>10. OneChain'
    BY <1>9 DEF OneChain
  <1>11. Len(trail') > Len(trail)
    <2>1. PICK k \in {1, 2} : k = Len(s)
      BY <1>6
    <2>2. Len(trail') = Len(trail) + k
      BY <1>8, <2>1
    <2> QED BY <1>2, <2>2
  <1> QED BY <1>8, <1>10, <1>11

-------------------------------------------------------------------------------
(* Steps of one request that leave the tables alone                        *)

(* Ending a request, or moving it on with what it has established, keeps   *)
(* the invariant.                                                          *)
LEMMA RequestMoves ==
  ASSUME TeamsInv, NEW r \in Requests, UNCHANGED <<tables, expired, lockedOut>>,
         \/ End(r)
         \/ \E label \in Steps \ {"idle"}, q \in Request :
              Continue(r, label, q) /\ RequestOK(label, q, Len(trail))
  PROVE  TeamsInv'
  <1>1. UNCHANGED <<role, active, invites, trail, expired, lockedOut>>
    BY DEF tables
  <1>2. /\ step' \in [Requests -> Steps] /\ req' \in [Requests -> Request \cup {NoRequest}]
        /\ \A x \in Requests : step'[x] = "idle" <=> req'[x] = NoRequest
        /\ \A x \in Requests : step'[x] # "idle" => RequestOK(step'[x], req'[x], Len(trail))
    <2>1. CASE End(r)
      BY <2>1 DEF End, TeamsInv, TeamsTypeOK, RequestsOK, Steps
    <2>2. CASE \E label \in Steps \ {"idle"}, q \in Request :
                 Continue(r, label, q) /\ RequestOK(label, q, Len(trail))
      <3>1. PICK label \in Steps \ {"idle"}, q \in Request :
              Continue(r, label, q) /\ RequestOK(label, q, Len(trail))
        BY <2>2
      <3> QED BY <3>1, RequestIsSome DEF Continue, TeamsInv, TeamsTypeOK, RequestsOK, Steps
    <2> QED BY <2>1, <2>2
  <1>3. TeamsTypeOK'
    BY <1>1, <1>2 DEF TeamsInv, TeamsTypeOK
  <1>4. RequestsOK'
    BY <1>1, <1>2 DEF RequestsOK, RequestOK, Forbidden, MeetsRole
  <1>5. NeverOwnerless' /\ SeatsBound' /\ OneChain'
    BY <1>1 DEF TeamsInv, NeverOwnerless, SeatsBound, OneChain, Owners
  <1> QED BY <1>3, <1>4, <1>5 DEF TeamsInv

(* A request begins.                                                       *)
LEMMA BeginMoves ==
  ASSUME TeamsInv, NEW r \in Requests, NEW label \in Steps \ {"idle"}, NEW q \in Request,
         BeginRequest(r, label, q), RequestOK(label, q, Len(trail))
  PROVE  TeamsInv'
  <1>1. Continue(r, label, q) /\ UNCHANGED <<tables, expired, lockedOut>>
    BY DEF BeginRequest, Continue
  <1> QED BY <1>1, RequestMoves

(* A new request of anybody about anybody is a request.                    *)
LEMMA NewRequestType ==
  ASSUME TeamsTypeOK, NEW a \in Users, NEW u \in Users,
         NEW op \in {"invite", "revoke", "accept", "role", "remove"}
  PROVE  /\ NewRequest(op, a, u) \in Request
         /\ NewRequest(op, a, u).op = op
         /\ NewRequest(op, a, u).actor = a /\ NewRequest(op, a, u).user = u
  <1>1. role[a] \in Roles \cup {"none"}
    BY DEF TeamsTypeOK
  <1> QED BY <1>1, RolesAre DEF NewRequest, Request

(* Every handler's first read.                                             *)
LEMMA BeginnersKeep ==
  ASSUME TeamsInv, NEW r \in Requests,
         \/ CreateInvite(r) \/ RevokeInvite(r) \/ AcceptInvite(r)
         \/ ChangeMemberRole(r) \/ RemoveMember(r)
  PROVE  TeamsInv'
  <1>0. TeamsTypeOK
    BY DEF TeamsInv
  <1>1. CASE CreateInvite(r)
    <2>1. PICK a \in Users, u \in Users, i \in Invites, n \in Given \cap InvitableRoles :
            BeginRequest(r, "read", [NewRequest("invite", a, u) EXCEPT !.invite = i, !.next = n])
      BY <1>1 DEF CreateInvite
    <2>2. PICK q : q = [NewRequest("invite", a, u) EXCEPT !.invite = i, !.next = n]
      OBVIOUS
    <2>3. q \in Request /\ q.op = "invite" /\ q.next # "owner"
      <3>1. PICK z : z = NewRequest("invite", a, u)
        OBVIOUS
      <3>2. z \in Request /\ z.op = "invite"
        BY <1>0, <3>1, NewRequestType
      <3>3. q = [z EXCEPT !.invite = i, !.next = n]
        BY <2>2, <3>1
      <3>4. n \in Roles /\ n # "owner"
        BY RolesAre
      <3>5. q \in Request
        BY <3>2, <3>3, <3>4 DEF Request
      <3>6. q.op = "invite" /\ q.next = n
        BY <3>2, <3>3 DEF Request
      <3> QED BY <3>4, <3>5, <3>6
    <2>4. RequestOK("read", q, Len(trail))
      BY <2>3 DEF RequestOK
    <2> QED BY <2>1, <2>2, <2>3, <2>4, BeginMoves DEF Steps
  <1>2. CASE RevokeInvite(r)
    <2>1. PICK a \in Users, i \in Invites :
            BeginRequest(r, "read", [NewRequest("revoke", a, a) EXCEPT !.invite = i])
      BY <1>2 DEF RevokeInvite
    <2>2. PICK q : q = [NewRequest("revoke", a, a) EXCEPT !.invite = i]
      OBVIOUS
    <2>3. q \in Request /\ q.op = "revoke"
      BY <1>0, <2>2, NewRequestType DEF Request
    <2>4. RequestOK("read", q, Len(trail))
      BY <2>3 DEF RequestOK
    <2> QED BY <2>1, <2>2, <2>3, <2>4, BeginMoves DEF Steps
  <1>3. CASE AcceptInvite(r)
    <2>1. PICK i \in Invites :
            BeginRequest(r, "head", [NewRequest("accept", invites[i].email, invites[i].email) EXCEPT
                                !.invite = i, !.next = invites[i].role, !.late = expired])
      BY <1>3 DEF AcceptInvite
    <2>2. PICK q : q = [NewRequest("accept", invites[i].email, invites[i].email) EXCEPT
                          !.invite = i, !.next = invites[i].role, !.late = expired]
      OBVIOUS
    <2>3. /\ invites[i].email \in Users /\ expired \in SUBSET Invites
          /\ invites[i].role \in Roles /\ invites[i].role # "owner"
      BY <1>0, RolesAre DEF TeamsTypeOK
    <2>4. q \in Request /\ q.op = "accept" /\ q.next # "owner"
      <3>1. PICK z : z = NewRequest("accept", invites[i].email, invites[i].email)
        OBVIOUS
      <3>2. z \in Request /\ z.op = "accept"
        BY <1>0, <2>3, <3>1, NewRequestType
      <3>3. q = [z EXCEPT !.invite = i, !.next = invites[i].role, !.late = expired]
        BY <2>2, <3>1
      <3> QED BY <2>3, <3>2, <3>3 DEF Request
    <2>5. RequestOK("head", q, Len(trail))
      BY <2>4 DEF RequestOK
    <2> QED BY <2>1, <2>2, <2>4, <2>5, BeginMoves DEF Steps
  <1>4. CASE ChangeMemberRole(r)
    <2>1. PICK a \in Users, u \in Users, n \in Given :
            BeginRequest(r, "read", [NewRequest("role", a, u) EXCEPT !.next = n])
      BY <1>4 DEF ChangeMemberRole
    <2>2. PICK q : q = [NewRequest("role", a, u) EXCEPT !.next = n]
      OBVIOUS
    <2>3. q \in Request /\ q.op = "role"
      BY <1>0, <2>2, NewRequestType, RolesAre DEF Request
    <2>4. RequestOK("read", q, Len(trail))
      BY <2>3 DEF RequestOK
    <2> QED BY <2>1, <2>2, <2>3, <2>4, BeginMoves DEF Steps
  <1>5. CASE RemoveMember(r)
    <2>1. PICK a \in Users, u \in Users : BeginRequest(r, "read", NewRequest("remove", a, u))
      BY <1>5 DEF RemoveMember
    <2>2. PICK q : q = NewRequest("remove", a, u)
      OBVIOUS
    <2>3. q \in Request /\ q.op = "remove"
      BY <1>0, <2>2, NewRequestType
    <2>4. RequestOK("read", q, Len(trail))
      BY <2>3 DEF RequestOK
    <2> QED BY <2>1, <2>2, <2>3, <2>4, BeginMoves DEF Steps
  <1> QED BY <1>1, <1>2, <1>3, <1>4, <1>5

(* Every read after it, and a request that ends.                           *)
LEMMA ReadersKeep ==
  ASSUME TeamsInv, NEW r \in Requests,
         \/ ReadInvite(r) \/ ReadTarget(r) \/ CountOwners(r) \/ ReadAuditHead(r)
         \/ Abandon(r)
  PROVE  TeamsInv'
  <1>0. TeamsTypeOK /\ OneChain
    BY DEF TeamsInv
  <1>1. PICK q : q = req[r]
    OBVIOUS
  <1>2. step[r] # "idle" => q \in Request /\ RequestOK(step[r], q, Len(trail))
    BY <1>1 DEF TeamsInv, TeamsTypeOK, RequestsOK
  <1>3. UNCHANGED <<tables, expired, lockedOut>>
    BY DEF ReadInvite, ReadTarget, CountOwners, ReadAuditHead, Abandon
  <1>4. CASE End(r)
    BY <1>3, <1>4, RequestMoves
  <1>5. CASE ReadInvite(r) /\ ~End(r)
    <2>1. PICK late \in SUBSET Invites :
            Continue(r, "head", [q EXCEPT !.late = late]) \/ Continue(r, "head", q)
      BY <1>0, <1>1, <1>5 DEF ReadInvite, TeamsTypeOK
    <2>2. q \in Request /\ q.op \in {"invite", "revoke"}
      BY <1>1, <1>2, <1>5 DEF ReadInvite
    <2>3. PICK z : z = [q EXCEPT !.late = late]
      OBVIOUS
    <2>4. z \in Request /\ z.op = q.op /\ z.next = q.next
      BY <2>2, <2>3 DEF Request
    <2>5. RequestOK("head", q, Len(trail)) /\ RequestOK("head", z, Len(trail))
      BY <1>2, <1>5, <2>2, <2>4 DEF RequestOK, ReadInvite
    <2> QED BY <1>3, <2>1, <2>2, <2>3, <2>4, <2>5, RequestMoves DEF Steps
  <1>6. CASE ReadTarget(r) /\ ~End(r)
    <2>1. PICK was : was = role[q.user]
      OBVIOUS
    <2>2. q \in Request /\ q.op \in {"role", "remove"}
      BY <1>1, <1>2, <1>6 DEF ReadTarget
    <2>3. PICK z : z = [q EXCEPT !.was = was]
      OBVIOUS
    <2>4. /\ q.user \in active /\ ~Forbidden(q, was)
          /\ Continue(r, "count", z) \/ Continue(r, "head", z)
      BY <1>1, <1>6, <2>1, <2>3 DEF ReadTarget
    <2>5. was \in Roles
      BY <1>0, <2>1, <2>4 DEF TeamsTypeOK
    <2>6. /\ z \in Request /\ z.was = was /\ z.op = q.op /\ z.as = q.as
          /\ z.next = q.next /\ z.actor = q.actor /\ z.user = q.user
      BY <2>2, <2>3, <2>5 DEF Request
    <2>7. ~Forbidden(z, z.was)
      BY <2>4, <2>6 DEF Forbidden
    <2>8. RequestOK("head", z, Len(trail)) /\ RequestOK("count", z, Len(trail))
      BY <2>2, <2>6, <2>7 DEF RequestOK
    <2> QED BY <1>3, <2>4, <2>6, <2>8, RequestMoves DEF Steps
  <1>7. CASE CountOwners(r) /\ ~End(r)
    <2>1. Continue(r, "head", q) /\ step[r] = "count"
      BY <1>1, <1>7 DEF CountOwners
    <2>2. RequestOK("head", q, Len(trail))
      BY <1>2, <2>1 DEF RequestOK
    <2> QED BY <1>2, <1>3, <2>1, <2>2, RequestMoves DEF Steps
  <1>8. CASE ReadAuditHead(r)
    <2>1. PICK z : z = [q EXCEPT !.head = TrailHead]
      OBVIOUS
    <2>2. Continue(r, "commit", z) /\ step[r] = "head"
      BY <1>1, <1>8, <2>1 DEF ReadAuditHead
    <2>3. Len(trail) \in Nat /\ TrailHead = Len(trail) - 1
      BY <1>0, HeadIsLast
    <2>4. TrailHead \in Nat \cup {-1} /\ TrailHead < Len(trail)
      BY <2>3
    <2>5. /\ z \in Request /\ z.head = TrailHead /\ z.was = q.was /\ z.op = q.op
          /\ z.as = q.as /\ z.next = q.next /\ z.actor = q.actor /\ z.user = q.user
      BY <1>2, <2>1, <2>2, <2>4 DEF Request
    <2>6. Forbidden(z, z.was) = Forbidden(q, q.was)
      BY <2>5 DEF Forbidden
    <2>7. RequestOK("commit", z, Len(trail))
      BY <1>2, <2>2, <2>4, <2>5, <2>6 DEF RequestOK
    <2> QED BY <1>3, <2>2, <2>5, <2>7, RequestMoves DEF Steps
  <1> QED BY <1>4, <1>5, <1>6, <1>7, <1>8 DEF Abandon

-------------------------------------------------------------------------------
(* The transaction                                                         *)

(* A request at its commit.                                                *)
LEMMA AtCommit ==
  ASSUME TeamsInv, NEW r \in Requests, step[r] = "commit"
  PROVE  /\ req[r] \in Request
         /\ req[r].op \in {"invite", "accept"} => req[r].next # "owner"
         /\ req[r].op \in {"role", "remove"} => ~Forbidden(req[r], req[r].was)
  BY DEF TeamsInv, TeamsTypeOK, RequestsOK, RequestOK

(* What is written is well formed.                                         *)
LEMMA AppliedIsTyped ==
  ASSUME TeamsTypeOK, NEW q \in Request, Apply(q),
         q.op \in {"invite", "accept"} => q.next # "owner"
  PROVE  /\ role' \in [Users -> Roles \cup {"none"}]
         /\ active' \subseteq Users /\ \A u \in active' : role'[u] # "none"
         /\ invites' \in [Invites -> [email : Users, role : {"admin", "member", "viewer"},
                                      state : {"unused", "live", "accepted", "revoked"}]]
  <1>1. /\ role \in [Users -> Roles \cup {"none"}]
        /\ active \subseteq Users /\ \A u \in active : role[u] # "none"
    BY DEF TeamsTypeOK
  <1>2. invites \in [Invites -> [email : Users, role : {"admin", "member", "viewer"},
                                state : {"unused", "live", "accepted", "revoked"}]]
    BY DEF TeamsTypeOK
  <1>3. q.actor \in Users /\ q.user \in Users /\ q.next \in Roles /\ q.next # "none"
    BY RolesAre DEF Request
  <1>4. CASE q.op = "invite" /\ ApplyInvite(q)
    BY <1>1, <1>2, <1>3, <1>4, RolesAre DEF ApplyInvite
  <1>5. CASE q.op = "revoke" /\ ApplyRevoke(q)
    BY <1>1, <1>2, <1>5, ZenonT(40) DEF ApplyRevoke
  <1>6. CASE q.op = "accept" /\ ApplyAccept(q)
    <2>1. invites' \in [Invites -> [email : Users, role : {"admin", "member", "viewer"},
                                   state : {"unused", "live", "accepted", "revoked"}]]
      BY <1>2, <1>6 DEF ApplyAccept
    <2>2. role' \in [Users -> Roles \cup {"none"}]
          /\ \A u \in active \cup {q.actor} : role'[u] # "none"
      BY <1>1, <1>3, <1>6 DEF ApplyAccept
    <2> QED BY <1>1, <1>3, <1>6, <2>1, <2>2 DEF ApplyAccept
  <1>7. CASE q.op = "role" /\ ApplyRole(q)
    BY <1>1, <1>2, <1>3, <1>7 DEF ApplyRole
  <1>8. CASE q.op = "remove" /\ ApplyRemove(q)
    BY <1>1, <1>2, <1>8 DEF ApplyRemove
  <1> QED BY <1>4, <1>5, <1>6, <1>7, <1>8 DEF Apply

(* The last owner trigger: whatever a transaction that is not aborted does *)
(* to one user, an owner stays.                                            *)
LEMMA AppliedKeepsOwner ==
  ASSUME TeamsTypeOK, NeverOwnerless, NEW q \in Request, Apply(q), ~Aborts(q)
  PROVE  NeverOwnerless'
  <1>1. PICK o \in active : role[o] = "owner"
    BY DEF NeverOwnerless, Owners
  <1>2. role \in [Users -> Roles \cup {"none"}] /\ active \subseteq Users
    BY DEF TeamsTypeOK
  <1>3. q.actor \in Users /\ q.user \in Users
    BY DEF Request
  <1> SUFFICES \E w \in active' : role'[w] = "owner"
    BY DEF NeverOwnerless, Owners
  <1>4. CASE (q.op = "invite" /\ ApplyInvite(q)) \/ (q.op = "revoke" /\ ApplyRevoke(q))
    BY <1>1, <1>4 DEF ApplyInvite, ApplyRevoke
  <1>5. CASE q.op = "accept" /\ ApplyAccept(q)
    <2>1. o \in active' /\ role'[o] = "owner"
      BY <1>1, <1>2, <1>3, <1>5 DEF ApplyAccept
    <2> QED BY <2>1
  <1>6. CASE q.op = "role" /\ ApplyRole(q)
    <2>1. CASE ~Matches(q)
      BY <1>1, <1>6, <2>1 DEF ApplyRole
    <2>2. CASE Matches(q) /\ q.next = "owner"
      BY <1>2, <1>3, <1>6, <2>2 DEF ApplyRole, Matches
    <2>3. CASE Matches(q) /\ q.next # "owner"
      <3>1. Owners # {q.user}
        BY <1>6, <2>3 DEF Aborts, LosesLastOwner
      <3>2. PICK w \in Owners : w # q.user
        BY <1>1, <3>1 DEF Owners
      <3> QED BY <1>2, <1>6, <3>2 DEF ApplyRole, Owners
    <2> QED BY <2>1, <2>2, <2>3
  <1>7. CASE q.op = "remove" /\ ApplyRemove(q)
    <2>1. CASE ~Matches(q)
      BY <1>1, <1>7, <2>1 DEF ApplyRemove
    <2>2. CASE Matches(q)
      <3>1. Owners # {q.user}
        BY <1>7, <2>2 DEF Aborts, LosesLastOwner
      <3>2. PICK w \in Owners : w # q.user
        BY <1>1, <3>1 DEF Owners
      <3> QED BY <1>7, <3>2 DEF ApplyRemove, Owners
    <2> QED BY <2>1, <2>2
  <1> QED BY <1>4, <1>5, <1>6, <1>7 DEF Apply

(* The seat trigger: a member more only while there is a seat.             *)
LEMMA AppliedKeepsSeats ==
  ASSUME TeamsTypeOK, SeatsBound, NEW q \in Request, Apply(q), ~Aborts(q)
  PROVE  SeatsBound'
  <1>1. IsFiniteSet(active) /\ Cardinality(active) \in Nat
    BY TeamsAssumption, FS_Subset, FS_CardinalityType DEF TeamsTypeOK
  <1>2. MaxSeats \in Nat /\ Cardinality(active) <= MaxSeats
    BY TeamsAssumption DEF SeatsBound
  <1>3. CASE q.op = "accept" /\ ApplyAccept(q)
    <2>1. Cardinality(active) < MaxSeats
      BY <1>1, <1>2, <1>3 DEF Aborts, InsertMemberAborts
    <2>2. active' = active \cup {q.actor}
      BY <1>3 DEF ApplyAccept
    <2>3. Cardinality(active \cup {q.actor}) <= Cardinality(active) + 1
      BY <1>1, FS_AddElement
    <2>4. Cardinality(active \cup {q.actor}) \in Nat
      BY <1>1, FS_AddElement, FS_CardinalityType
    <2>5. Cardinality(active \cup {q.actor}) <= MaxSeats
      BY <1>1, <1>2, <2>1, <2>3, <2>4
    <2> QED BY <2>2, <2>5 DEF SeatsBound
  <1>4. CASE q.op = "remove" /\ ApplyRemove(q)
    <2>1. PICK S \in SUBSET active : active' = S
      BY <1>4 DEF ApplyRemove
    <2>2. Cardinality(S) <= Cardinality(active) /\ Cardinality(S) \in Nat
      BY <1>1, FS_Subset, FS_CardinalityType
    <2>3. Cardinality(S) <= MaxSeats
      BY <1>1, <1>2, <2>2
    <2> QED BY <2>1, <2>3 DEF SeatsBound
  <1>5. CASE active' = active
    BY <1>2, <1>5 DEF SeatsBound
  <1> QED BY <1>3, <1>4, <1>5 DEF Apply, ApplyInvite, ApplyRevoke, ApplyRole

(* The state of the requests after a transaction.                          *)
LEMMA AppliedEnds ==
  ASSUME TeamsInv, NEW r \in Requests, End(r), Len(trail') > Len(trail), Len(trail') \in Nat
  PROVE  /\ step' \in [Requests -> Steps] /\ req' \in [Requests -> Request \cup {NoRequest}]
         /\ \A x \in Requests : step'[x] = "idle" <=> req'[x] = NoRequest
         /\ RequestsOK'
  <1>1. /\ step' \in [Requests -> Steps] /\ req' \in [Requests -> Request \cup {NoRequest}]
        /\ \A x \in Requests : step'[x] = "idle" <=> req'[x] = NoRequest
    BY DEF End, TeamsInv, TeamsTypeOK, Steps
  <1>2. Len(trail) \in Nat
    BY DEF TeamsInv, TeamsTypeOK
  <1>3. ASSUME NEW x \in Requests, step'[x] # "idle"
        PROVE  RequestOK(step'[x], req'[x], Len(trail'))
    <2>1. /\ step'[x] = step[x] /\ req'[x] = req[x] /\ req[x] \in Request
          /\ RequestOK(step[x], req[x], Len(trail))
      BY <1>3 DEF End, TeamsInv, TeamsTypeOK, RequestsOK
    <2>2. req[x].head \in Nat \cup {-1}
      BY <2>1 DEF Request
    <2>3. step[x] = "commit" => req[x].head < Len(trail')
      BY <1>2, <2>1, <2>2 DEF RequestOK
    <2> QED BY <2>1, <2>3 DEF RequestOK
  <1>4. RequestsOK'
    BY <1>3 DEF RequestsOK, RequestOK, Forbidden, MeetsRole
  <1> QED BY <1>1, <1>4

(* A transaction that stands.                                              *)
Succeeds(r) ==
  /\ step[r] = "commit" /\ ~Aborts(req[r]) /\ ~ChainConflict(req[r])
  /\ Apply(req[r]) /\ trail' = trail \o LinksOf(req[r]) /\ End(r)

(* It keeps the invariant.                                                 *)
LEMMA SuccessKeeps ==
  ASSUME TeamsInv, NEW r \in Requests, Succeeds(r), UNCHANGED <<expired, lockedOut>>
  PROVE  TeamsInv'
  <1>1. /\ TeamsTypeOK /\ NeverOwnerless /\ SeatsBound
        /\ req[r] \in Request /\ Apply(req[r]) /\ ~Aborts(req[r])
        /\ req[r].op \in {"invite", "accept"} => req[r].next # "owner"
    BY AtCommit DEF TeamsInv, Succeeds
  <1>2. trail' \in Seq(Link) /\ OneChain' /\ Len(trail') > Len(trail)
    BY TrailGrows DEF Succeeds
  <1>3. /\ step' \in [Requests -> Steps] /\ req' \in [Requests -> Request \cup {NoRequest}]
        /\ \A x \in Requests : step'[x] = "idle" <=> req'[x] = NoRequest
        /\ RequestsOK'
    BY <1>2, AppliedEnds DEF Succeeds
  <1>4. /\ role' \in [Users -> Roles \cup {"none"}]
        /\ active' \subseteq Users /\ \A u \in active' : role'[u] # "none"
        /\ invites' \in [Invites -> [email : Users, role : {"admin", "member", "viewer"},
                                     state : {"unused", "live", "accepted", "revoked"}]]
    BY <1>1, AppliedIsTyped
  <1>5. TeamsTypeOK'
    BY <1>1, <1>2, <1>3, <1>4 DEF TeamsTypeOK
  <1>6. NeverOwnerless' /\ SeatsBound'
    BY <1>1, AppliedKeepsOwner, AppliedKeepsSeats
  <1> QED BY <1>2, <1>3, <1>5, <1>6 DEF TeamsInv

(* A transaction that is aborted, by a trigger or by the chain, is the end *)
(* of the request or its second try.                                       *)
LEMMA CommitKeeps ==
  ASSUME TeamsInv, NEW r \in Requests, Commit(r)
  PROVE  TeamsInv'
  <1>1. step[r] = "commit" /\ UNCHANGED <<expired, lockedOut>>
    BY DEF Commit
  <1>2. CASE End(r) /\ UNCHANGED tables
    BY <1>1, <1>2, RequestMoves DEF tables
  <1>3. CASE Continue(r, "head", [req[r] EXCEPT !.retried = TRUE]) /\ UNCHANGED tables
    <2>1. PICK z : z = [req[r] EXCEPT !.retried = TRUE]
      OBVIOUS
    <2>2. /\ req[r] \in Request
          /\ req[r].op \in {"invite", "accept"} => req[r].next # "owner"
          /\ req[r].op \in {"role", "remove"} => ~Forbidden(req[r], req[r].was)
      BY <1>1, AtCommit
    <2>3. /\ z \in Request /\ z.was = req[r].was /\ z.op = req[r].op /\ z.as = req[r].as
          /\ z.next = req[r].next /\ z.actor = req[r].actor /\ z.user = req[r].user
      BY <2>1, <2>2 DEF Request
    <2>4. Forbidden(z, z.was) = Forbidden(req[r], req[r].was)
      BY <2>3 DEF Forbidden
    <2>5. RequestOK("head", z, Len(trail))
      BY <2>2, <2>3, <2>4 DEF RequestOK
    <2> QED BY <1>1, <1>3, <2>1, <2>3, <2>5, RequestMoves DEF tables, Steps
  <1>4. CASE Succeeds(r)
    BY <1>1, <1>4, SuccessKeeps
  <1> QED BY <1>2, <1>3, <1>4 DEF Commit, Succeeds

-------------------------------------------------------------------------------
(* Every step                                                              *)

(* The invariant is inductive.                                            *)
LEMMA NextKeeps == TeamsInv /\ [TeamsNext]_teamsVars => TeamsInv'
  <1> SUFFICES ASSUME TeamsInv, [TeamsNext]_teamsVars PROVE TeamsInv'
    OBVIOUS
  <1>1. ASSUME NEW r \in Requests,
               \/ CreateInvite(r) \/ RevokeInvite(r) \/ AcceptInvite(r)
               \/ ChangeMemberRole(r) \/ RemoveMember(r)
        PROVE  TeamsInv'
    BY <1>1, BeginnersKeep
  <1>2. ASSUME NEW r \in Requests,
               \/ ReadInvite(r) \/ ReadTarget(r) \/ CountOwners(r) \/ ReadAuditHead(r)
               \/ Abandon(r)
        PROVE  TeamsInv'
    BY <1>2, ReadersKeep
  <1>3. ASSUME NEW r \in Requests, Commit(r) PROVE TeamsInv'
    BY <1>3, CommitKeeps
  <1>4. ASSUME UNCHANGED <<tables, step, req>>,
               expired' \subseteq Invites, lockedOut' \in BOOLEAN
        PROVE  TeamsInv'
    <2>1. UNCHANGED <<role, active, invites, trail, step, req>>
      BY <1>4 DEF tables
    <2>2. TeamsTypeOK'
      BY <1>4, <2>1 DEF TeamsInv, TeamsTypeOK
    <2>3. RequestsOK'
      BY <2>1 DEF TeamsInv, RequestsOK, RequestOK, Forbidden, MeetsRole
    <2>4. NeverOwnerless' /\ SeatsBound' /\ OneChain'
      BY <2>1 DEF TeamsInv, NeverOwnerless, SeatsBound, OneChain, Owners
    <2> QED BY <2>2, <2>3, <2>4 DEF TeamsInv
  <1>5. ASSUME NEW i \in Invites, Expire(i) PROVE TeamsInv'
    BY <1>4, <1>5 DEF Expire, TeamsInv, TeamsTypeOK
  <1>6. CASE SignIn
    BY <1>4, <1>6 DEF SignIn, InsertMemberAborts, TeamsInv, TeamsTypeOK
  <1>7. CASE UNCHANGED teamsVars
    BY <1>4, <1>7 DEF teamsVars, tables, TeamsInv, TeamsTypeOK
  <1> QED BY <1>1, <1>2, <1>3, <1>5, <1>6, <1>7 DEF TeamsNext

(* And so it always holds.                                                 *)
LEMMA TeamsInvAlways == TeamsSpec => []TeamsInv
  BY TeamsInitInv, NextKeeps, PTL DEF TeamsSpec

(* Every step but a transaction that stands leaves members, invites and    *)
(* trail as they are.                                                      *)
LEMMA OnlySuccessWrites ==
  ASSUME TeamsInv, [TeamsNext]_teamsVars
  PROVE  (\E r \in Requests : Succeeds(r)) \/ UNCHANGED <<role, active, invites, trail>>
  <1>1. ASSUME NEW r \in Requests, Commit(r), ~Succeeds(r)
        PROVE  UNCHANGED <<role, active, invites, trail>>
    BY <1>1 DEF Commit, Succeeds, tables
  <1>2. ASSUME NEW r \in Requests,
               \/ CreateInvite(r) \/ RevokeInvite(r) \/ AcceptInvite(r)
               \/ ChangeMemberRole(r) \/ RemoveMember(r)
        PROVE  UNCHANGED <<role, active, invites, trail>>
    BY <1>2 DEF CreateInvite, RevokeInvite, AcceptInvite, ChangeMemberRole, RemoveMember,
                BeginRequest, tables
  <1>3. ASSUME NEW r \in Requests,
               \/ ReadInvite(r) \/ ReadTarget(r) \/ CountOwners(r) \/ ReadAuditHead(r)
               \/ Abandon(r)
        PROVE  UNCHANGED <<role, active, invites, trail>>
    BY <1>3 DEF ReadInvite, ReadTarget, CountOwners, ReadAuditHead, Abandon, tables
  <1>4. ASSUME SignIn \/ (\E i \in Invites : Expire(i)) \/ UNCHANGED teamsVars
        PROVE  UNCHANGED <<role, active, invites, trail>>
    BY <1>4 DEF SignIn, Expire, teamsVars, tables
  <1> QED BY <1>1, <1>2, <1>3, <1>4 DEF TeamsNext

-------------------------------------------------------------------------------
(* What holds of the members                                               *)

(* Members, invites, trail and requests keep their types: in particular an *)
(* active member has a role and no invite is for an owner.                 *)
THEOREM TeamsAreTyped == TeamsSpec => []TeamsTypeOK
  <1>1. TeamsInv => TeamsTypeOK
    BY DEF TeamsInv
  <1> QED BY <1>1, TeamsInvAlways, PTL

(* A workspace never loses its last active owner, however many requests    *)
(* counted its owners before.                                              *)
THEOREM OwnerRemains == TeamsSpec => []NeverOwnerless
  <1>1. TeamsInv => NeverOwnerless
    BY DEF TeamsInv
  <1> QED BY <1>1, TeamsInvAlways, PTL

(* The active members fit the seats.                                       *)
THEOREM SeatsSuffice == TeamsSpec => []SeatsBound
  <1>1. TeamsInv => SeatsBound
    BY DEF TeamsInv
  <1> QED BY <1>1, TeamsInvAlways, PTL

(* The workspace stands: it has an owner, and its members fit the seats.   *)
THEOREM TeamAlwaysStands == TeamsSpec => []TeamStands
  BY OwnerRemains, SeatsSuffice, PTL DEF TeamStands

(* Only who was an owner when authorized makes or unseats an owner, except *)
(* for leaving and for coming back.                                        *)
THEOREM OwnersAreUnseatedByOwners == TeamsSpec => OwnersActOnOwners
  <1>1. ASSUME TeamsInv, [TeamsNext]_teamsVars PROVE OwnersStep
    <2> SUFFICES ASSUME NEW u \in Users, (u \in Owners) # (u \in Owners')
                 PROVE  \E r \in Requests :
                          /\ step[r] = "commit" /\ step'[r] = "idle"
                          /\ \/ req[r].as = "owner"
                             \/ req[r].op = "remove" /\ req[r].actor = u
                             \/ req[r].op = "accept" /\ req[r].actor = u /\ role[u] = "owner"
      BY DEF OwnersStep
    <2>1. ~UNCHANGED <<role, active>>
      BY DEF Owners
    <2>2. PICK r \in Requests : Succeeds(r)
      BY <1>1, <2>1, OnlySuccessWrites
    <2>3. /\ step[r] = "commit" /\ step'[r] = "idle" /\ Apply(req[r])
          /\ req[r] \in Request
          /\ req[r].op \in {"invite", "accept"} => req[r].next # "owner"
          /\ req[r].op \in {"role", "remove"} => ~Forbidden(req[r], req[r].was)
          /\ role \in [Users -> Roles \cup {"none"}]
      BY <1>1, <2>2, AtCommit DEF Succeeds, End, TeamsInv, TeamsTypeOK
    <2>4. PICK q \in Request : q = req[r]
      BY <2>3
    <2>5. q.actor \in Users /\ q.user \in Users
      BY DEF Request
    <2>6. CASE q.op \in {"invite", "revoke"}
      BY <2>1, <2>3, <2>4, <2>6 DEF Apply, ApplyInvite, ApplyRevoke
    <2>7. CASE q.op = "accept"
      <3>1. ApplyAccept(q) /\ q.next # "owner"
        BY <2>3, <2>4, <2>7 DEF Apply
      <3>2. \A v \in Users \ {q.actor} : (v \in active' <=> v \in active) /\ role'[v] = role[v]
        BY <2>3, <3>1 DEF ApplyAccept
      <3>3. u = q.actor
        BY <3>2 DEF Owners
      <3>4. role[u] # "owner" => role'[u] # "owner"
        BY <2>3, <3>1, <3>3 DEF ApplyAccept
      <3>5. role[u] = "owner"
        BY <3>4 DEF Owners
      <3> QED BY <2>3, <2>4, <2>7, <3>3, <3>5
    <2>8. CASE q.op \in {"role", "remove"}
      <3>1. (q.op = "role" /\ ApplyRole(q)) \/ (q.op = "remove" /\ ApplyRemove(q))
        BY <2>3, <2>4, <2>8 DEF Apply
      <3>2. Matches(q)
        BY <2>1, <3>1 DEF ApplyRole, ApplyRemove
      <3>3. \A v \in Users \ {q.user} : (v \in active' <=> v \in active) /\ role'[v] = role[v]
        BY <2>3, <3>1 DEF ApplyRole, ApplyRemove
      <3>4. u = q.user /\ u \in active /\ role[u] = q.was
        BY <3>2, <3>3 DEF Owners, Matches
      <3>5. q.was = "owner" \/ (q.op = "role" /\ q.next = "owner")
        BY <2>3, <2>5, <3>1, <3>2, <3>4 DEF ApplyRole, ApplyRemove, Owners
      <3>6. ~Forbidden(q, q.was)
        BY <2>3, <2>4, <2>8
      <3>7. q.as = "owner" \/ (q.op = "remove" /\ q.actor = u)
        BY <3>1, <3>4, <3>5, <3>6 DEF Forbidden
      <3> QED BY <2>3, <2>4, <3>7
    <2> QED BY <2>6, <2>7, <2>8 DEF Request
  <1>2. TeamsInv /\ [TeamsNext]_teamsVars => [OwnersStep]_teamsVars
    BY <1>1
  <1> QED BY <1>2, TeamsInvAlways, PTL DEF TeamsSpec, OwnersActOnOwners

(* Members and invites change only together with the trail, which is one   *)
(* chain and is never rewritten, for any number of racing requests.        *)
THEOREM TrailIsComplete == TeamsSpec => ChangesAreAudited
  <1>1. ASSUME TeamsInv, TeamsInv', [TeamsNext]_teamsVars PROVE AuditStep
    <2>1. OneChain' /\ Len(trail) \in Nat
      BY <1>1 DEF TeamsInv, TeamsTypeOK
    <2>2. CASE UNCHANGED <<role, active, invites, trail>>
      BY <2>1, <2>2 DEF AuditStep
    <2>3. CASE \E r \in Requests : Succeeds(r)
      <3>1. /\ Len(trail') > Len(trail) /\ trail' \in Seq(Link)
            /\ \A n \in 1 .. Len(trail) : trail'[n] = trail[n]
        BY <1>1, <2>3, TrailGrows DEF Succeeds
      <3>2. \A n \in 1 .. Len(trail) : n <= Len(trail')
        BY <2>1, <3>1
      <3> QED BY <2>1, <3>1, <3>2 DEF AuditStep
    <2> QED BY <1>1, <2>2, <2>3, OnlySuccessWrites
  <1>2. TeamsInv /\ TeamsInv' /\ [TeamsNext]_teamsVars => [AuditStep]_teamsVars
    BY <1>1
  <1> QED BY <1>2, TeamsInvAlways, PTL DEF TeamsSpec, ChangesAreAudited

-------------------------------------------------------------------------------
(* The read model                                                          *)

USE DEF Event

-------------------------------------------------------------------------------
(* One upsert, field by field                                              *)

(* Whole seconds are natural numbers.                                      *)
LEMMA SecondsNat == \A n \in Nat : Seconds(n) \in Nat
  BY ProjectionAssumption DEF Seconds

(* RowOf of an event is a row.                                             *)
LEMMA RowOfType == \A e \in Events : RowOf(e) \in Row
  <1> SUFFICES ASSUME NEW e \in Events PROVE RowOf(e) \in Row
    OBVIOUS
  <1>1. e \in Event /\ Seconds(e.at) \in Nat
    BY ProjectionAssumption, SecondsNat
  <1>2. IsTitled(e) => e.title \in Titles
    BY <1>1 DEF IsTitled
  <1> QED BY <1>1, <1>2 DEF RowOf, Row

(* The merge of two rows is a row.                                         *)
LEMMA UpsertType ==
  \A old \in Row \cup {None}, new \in Row : Upsert(old, new) \in Row
  BY ProjectionAssumption DEF Upsert, Row

(* A single event is summarised by its own row.                            *)
LEMMA FirstEvent == \A e \in Events : Summarises(RowOf(e), {e})
  <1> SUFFICES ASSUME NEW e \in Events PROVE Summarises(RowOf(e), {e})
    OBVIOUS
  <1> DEFINE x == RowOf(e)
  <1>0. e \in Event /\ Seconds(e.at) \in Nat /\ x \in Row
    BY ProjectionAssumption, SecondsNat, RowOfType
  <1>1. RepositoryOf({e}, x.repository)
    BY <1>0, ProjectionAssumption DEF RepositoryOf, RowOf
  <1>2. TitleOf({e}, x.title, x.titleAt, x.titleId)
    BY <1>0, ProjectionAssumption DEF TitleOf, RowOf, Before
  <1>3. StatusOf({e}, x.status, x.statusAt, x.statusId)
    BY <1>0, ProjectionAssumption DEF StatusOf, LatestOf, RowOf, Before, IsCompleted, IsStatus
  <1>4. SpanOf({e}, x.created, x.updated)
    BY <1>0 DEF SpanOf, RowOf
  <1> QED BY <1>0, <1>1, <1>2, <1>3, <1>4 DEF Summarises

(* The smallest repository id.                                             *)
LEMMA UpsertRepository ==
  ASSUME NEW R \in SUBSET Events, NEW e \in Events, NEW old \in Row,
         RepositoryOf(R, old.repository)
  PROVE  RepositoryOf(R \cup {e}, Upsert(old, RowOf(e)).repository)
  <1> DEFINE x == RowOf(e)
             v == Upsert(old, x).repository
  <1>0. /\ old # None /\ old.repository \in Nat \cup {None}
        /\ x.repository = e.repository /\ e.repository \in Nat \cup {None}
        /\ \A f \in R : f.repository \in Nat \cup {None}
    BY ProjectionAssumption DEF Row, RowOf
  <1>1. v = IF old.repository = None THEN e.repository
            ELSE IF e.repository # None /\ e.repository < old.repository
              THEN e.repository ELSE old.repository
    BY <1>0 DEF Upsert
  <1> HIDE DEF v, x
  <1>2. RepositoryOf(R \cup {e}, v)
    BY <1>0, <1>1, ProjectionAssumption DEF RepositoryOf
  <1> QED BY <1>2 DEF v, x

(* The title of the earliest titled start.                                 *)
LEMMA UpsertTitle ==
  ASSUME NEW R \in SUBSET Events, NEW e \in Events, NEW old \in Row,
         TitleOf(R, old.title, old.titleAt, old.titleId)
  PROVE  LET new == Upsert(old, RowOf(e))
         IN TitleOf(R \cup {e}, new.title, new.titleAt, new.titleId)
  <1> DEFINE x == RowOf(e)
             new == Upsert(old, x)
  <1>0. /\ old # None
        /\ \A f \in R \cup {e} : f.at \in Nat /\ f.id \in Nat
        /\ x.title = IF IsTitled(e) THEN e.title ELSE Fallback
        /\ x.titleAt = IF IsTitled(e) THEN e.at ELSE None
        /\ x.titleId = IF IsTitled(e) THEN e.id ELSE None
    BY ProjectionAssumption DEF Row, RowOf
  <1>1. /\ new.title = IF TakesTitle(old, x) THEN x.title ELSE old.title
        /\ new.titleAt = IF TakesTitle(old, x) THEN x.titleAt ELSE old.titleAt
        /\ new.titleId = IF TakesTitle(old, x) THEN x.titleId ELSE old.titleId
    BY <1>0 DEF Upsert
  <1> HIDE DEF new, x
  <1>2. CASE ~IsTitled(e)
    <2>1. ~TakesTitle(old, x)
      BY <1>0, <1>2 DEF TakesTitle
    <2> QED BY <2>1, <1>0, <1>1, <1>2 DEF TitleOf, new, x
  <1>3. CASE IsTitled(e) /\ \A f \in R : ~IsTitled(f)
    <2>1. old.titleAt = None
      BY <1>3 DEF TitleOf
    <2>2. TakesTitle(old, x)
      BY <2>1, <1>0, <1>3, ProjectionAssumption DEF TakesTitle
    <2>3. ~Before(e.at, e.id, e.at, e.id)
      BY <1>0 DEF Before
    <2> QED BY <2>2, <2>3, <1>0, <1>1, <1>3 DEF TitleOf, new, x
  <1>4. CASE IsTitled(e) /\ \E f \in R : IsTitled(f)
    <2>1. PICK g \in R : /\ IsTitled(g) /\ old.title = g.title
                         /\ old.titleAt = g.at /\ old.titleId = g.id
                         /\ \A f \in R : IsTitled(f) => ~Before(f.at, f.id, g.at, g.id)
      BY <1>4 DEF TitleOf
    <2>2. TakesTitle(old, x) <=> Before(e.at, e.id, g.at, g.id)
      BY <2>1, <1>0, <1>4, ProjectionAssumption DEF TakesTitle
    <2>3. CASE Before(e.at, e.id, g.at, g.id)
      <3>1. \A f \in R \cup {e} : IsTitled(f) => ~Before(f.at, f.id, e.at, e.id)
        BY <2>1, <2>3, <1>0 DEF Before
      <3> QED BY <3>1, <2>2, <2>3, <1>0, <1>1, <1>4 DEF TitleOf, new, x
    <2>4. CASE ~Before(e.at, e.id, g.at, g.id)
      BY <2>1, <2>2, <2>4, <1>0, <1>1, <1>4 DEF TitleOf, new, x
    <2> QED BY <2>3, <2>4
  <1> QED BY <1>2, <1>3, <1>4

(* The latest of a set of events, with one more event.                     *)
LEMMA LatestExtends ==
  ASSUME NEW S \in SUBSET Events, NEW e \in Events, NEW g \in S,
         \A f \in S : ~Before(g.at, g.id, f.at, f.id)
  PROVE  IF Before(g.at, g.id, e.at, e.id)
           THEN \A f \in S \cup {e} : ~Before(e.at, e.id, f.at, f.id)
           ELSE \A f \in S \cup {e} : ~Before(g.at, g.id, f.at, f.id)
  <1>1. \A f \in S \cup {e} : f.at \in Nat /\ f.id \in Nat
    BY ProjectionAssumption
  <1> QED BY <1>1 DEF Before

(* Completion is terminal; otherwise the latest status event.              *)
LEMMA UpsertStatus ==
  ASSUME NEW R \in SUBSET Events, NEW e \in Events, NEW old \in Row,
         StatusOf(R, old.status, old.statusAt, old.statusId)
  PROVE  LET new == Upsert(old, RowOf(e))
         IN StatusOf(R \cup {e}, new.status, new.statusAt, new.statusId)
  <1> DEFINE x == RowOf(e)
             new == Upsert(old, x)
             C == {f \in R : IsCompleted(f)}
             S == {f \in R : IsStatus(f)}
             CE == {f \in R \cup {e} : IsCompleted(f)}
             SE == {f \in R \cup {e} : IsStatus(f)}
  <1>0. /\ old # None
        /\ \A f \in R \cup {e} : f.at \in Nat /\ f.id \in Nat
        /\ x.status = IF IsCompleted(e) THEN "completed" ELSE "active"
        /\ x.statusAt = IF IsStatus(e) THEN e.at ELSE None
        /\ x.statusId = IF IsStatus(e) THEN e.id ELSE None
        /\ \A f \in R \cup {e} : IsCompleted(f) => IsStatus(f)
    BY ProjectionAssumption DEF Row, RowOf, IsCompleted, IsStatus
  <1>1. /\ new.status = IF TakesStatus(old, x) THEN x.status ELSE old.status
        /\ new.statusAt = IF TakesStatus(old, x) THEN x.statusAt ELSE old.statusAt
        /\ new.statusId = IF TakesStatus(old, x) THEN x.statusId ELSE old.statusId
    BY <1>0 DEF Upsert
  <1>2. /\ IsCompleted(e) => CE = C \cup {e}
        /\ ~IsCompleted(e) => CE = C
        /\ IsStatus(e) => SE = S \cup {e}
        /\ ~IsStatus(e) => SE = S
    OBVIOUS
  <1>3. /\ C # {} => old.status = "completed" /\ LatestOf(C, old.statusAt, old.statusId)
        /\ C = {} => /\ old.status = "active"
                     /\ S = {} => old.statusAt = None /\ old.statusId = None
                     /\ S # {} => LatestOf(S, old.statusAt, old.statusId)
    BY DEF StatusOf
  <1>4. SUFFICES /\ CE # {} => new.status = "completed" /\ LatestOf(CE, new.statusAt, new.statusId)
                 /\ CE = {} => /\ new.status = "active"
                               /\ SE = {} => new.statusAt = None /\ new.statusId = None
                               /\ SE # {} => LatestOf(SE, new.statusAt, new.statusId)
    BY DEF StatusOf
  <1>5. C \in SUBSET Events /\ S \in SUBSET Events
    OBVIOUS
  <1>6. ~Before(e.at, e.id, e.at, e.id)
    BY <1>0 DEF Before
  <1> HIDE DEF new, x, C, S, CE, SE
  <1>7. ASSUME NEW T \in SUBSET Events, LatestOf(T, old.statusAt, old.statusId),
               old.status = x.status, IsStatus(e)
        PROVE  LatestOf(T \cup {e}, new.statusAt, new.statusId)
    <2>1. PICK g \in T : /\ old.statusAt = g.at /\ old.statusId = g.id
                         /\ \A f \in T : ~Before(g.at, g.id, f.at, f.id)
      BY <1>7 DEF LatestOf
    <2>2. g.at \in Nat
      BY ProjectionAssumption
    <2>3. TakesStatus(old, x) <=> Before(g.at, g.id, e.at, e.id)
      BY <2>1, <2>2, <1>0, <1>7, ProjectionAssumption DEF TakesStatus
    <2>4. IF Before(g.at, g.id, e.at, e.id)
            THEN \A f \in T \cup {e} : ~Before(e.at, e.id, f.at, f.id)
            ELSE \A f \in T \cup {e} : ~Before(g.at, g.id, f.at, f.id)
      BY <2>1, LatestExtends
    <2> QED BY <2>1, <2>3, <2>4, <1>0, <1>1, <1>7 DEF LatestOf
  <1>8. CASE IsCompleted(e)
    <2>1. CASE C = {}
      <3>1. TakesStatus(old, x)
        BY <2>1, <1>0, <1>3, <1>8 DEF TakesStatus
      <3>2. CE = {e} /\ new.status = "completed" /\ new.statusAt = e.at /\ new.statusId = e.id
        BY <3>1, <2>1, <1>0, <1>1, <1>2, <1>8
      <3> QED BY <3>2, <1>6 DEF LatestOf
    <2>2. CASE C # {}
      <3>1. old.status = x.status /\ IsStatus(e) /\ new.status = "completed"
        BY <2>2, <1>0, <1>1, <1>3, <1>8
      <3>2. LatestOf(C \cup {e}, new.statusAt, new.statusId)
        BY <3>1, <2>2, <1>3, <1>5, <1>7
      <3> QED BY <3>1, <3>2, <1>2, <1>8
    <2> QED BY <2>1, <2>2
  <1>9. CASE ~IsCompleted(e)
    <2>1. CASE C # {}
      <3>1. ~TakesStatus(old, x)
        BY <2>1, <1>0, <1>3, <1>9 DEF TakesStatus
      <3> QED BY <3>1, <2>1, <1>1, <1>2, <1>3, <1>9
    <2>2. CASE C = {} /\ ~IsStatus(e)
      <3>1. ~TakesStatus(old, x)
        BY <2>2, <1>0, <1>3, <1>9 DEF TakesStatus
      <3> QED BY <3>1, <2>2, <1>1, <1>2, <1>3, <1>9
    <2>3. CASE C = {} /\ IsStatus(e) /\ S = {}
      <3>0. /\ old.status = "active" /\ x.status = "active" /\ old.statusAt = None
            /\ x.statusAt = e.at /\ e.at \in Nat
        BY <2>3, <1>0, <1>3, <1>9
      <3>1. TakesStatus(old, x)
        BY <3>0, ProjectionAssumption DEF TakesStatus
      <3>2. SE = {e} /\ new.status = "active" /\ new.statusAt = e.at /\ new.statusId = e.id
        BY <3>1, <2>3, <1>0, <1>1, <1>2, <1>9
      <3>3. LatestOf(SE, new.statusAt, new.statusId)
        BY <3>2, <1>6 DEF LatestOf
      <3> QED BY <3>2, <3>3, <2>3, <1>2, <1>9
    <2>4. CASE C = {} /\ IsStatus(e) /\ S # {}
      <3>1. old.status = x.status /\ new.status = "active"
        BY <2>4, <1>0, <1>1, <1>3, <1>9
      <3>2. LatestOf(S \cup {e}, new.statusAt, new.statusId)
        BY <3>1, <2>4, <1>3, <1>5, <1>7
      <3> QED BY <3>1, <3>2, <2>4, <1>2, <1>9
    <2> QED BY <2>1, <2>2, <2>3, <2>4
  <1> QED BY <1>8, <1>9

(* The time span covers every event.                                       *)
LEMMA UpsertSpan ==
  ASSUME NEW R \in SUBSET Events, NEW e \in Events, NEW old \in Row,
         SpanOf(R, old.created, old.updated)
  PROVE  LET new == Upsert(old, RowOf(e))
         IN SpanOf(R \cup {e}, new.created, new.updated)
  <1> DEFINE x == RowOf(e)
             new == Upsert(old, x)
  <1>0. /\ old # None
        /\ \A f \in R \cup {e} : Seconds(f.at) \in Nat
        /\ x.created = Seconds(e.at) /\ x.updated = Seconds(e.at)
        /\ old.created \in Nat /\ old.updated \in Nat
    BY ProjectionAssumption, SecondsNat DEF Row, RowOf
  <1>1. /\ new.created = IF x.created < old.created THEN x.created ELSE old.created
        /\ new.updated = IF x.updated > old.updated THEN x.updated ELSE old.updated
    BY <1>0 DEF Upsert
  <1> HIDE DEF new, x
  <1>2. SpanOf(R \cup {e}, new.created, new.updated)
    BY <1>0, <1>1 DEF SpanOf
  <1> QED BY <1>2 DEF new, x

(* One upsert adds one event to what a row summarises, whatever the event  *)
(* and whenever it comes: ON CONFLICT DO UPDATE in UPSERT_WORKSTREAM_SQL.  *)
THEOREM UpsertSummarises ==
  ASSUME NEW R \in SUBSET Events, NEW e \in Events, NEW old, Summarises(old, R)
  PROVE  Summarises(Upsert(old, RowOf(e)), R \cup {e})
  <1>1. CASE R = {}
    <2>1. Upsert(old, RowOf(e)) = RowOf(e) /\ R \cup {e} = {e}
      BY <1>1 DEF Summarises, Upsert
    <2> QED BY <2>1, FirstEvent
  <1>2. CASE R # {}
    <2>1. /\ old \in Row
          /\ RepositoryOf(R, old.repository)
          /\ TitleOf(R, old.title, old.titleAt, old.titleId)
          /\ StatusOf(R, old.status, old.statusAt, old.statusId)
          /\ SpanOf(R, old.created, old.updated)
      BY <1>2 DEF Summarises
    <2>2. Upsert(old, RowOf(e)) \in Row
      BY <2>1, RowOfType, UpsertType
    <2> QED
      BY <2>1, <2>2, UpsertRepository, UpsertTitle, UpsertStatus, UpsertSpan DEF Summarises
  <1> QED BY <1>1, <1>2

-------------------------------------------------------------------------------
(* The read model                                                          *)

(* The part of the log whose upserts have run.                             *)
Folded(A) ==
  /\ A \subseteq Events
  /\ A \cup pending = events
  /\ \A w \in Workstreams : Summarises(workstreams[w], OfWorkstream(A, w))

Inv == TypeOK /\ \E A : Folded(A)

LEMMA InitInv == Init => Inv
  <1> SUFFICES ASSUME Init PROVE Inv
    OBVIOUS
  <1>1. TypeOK
    BY DEF Init, TypeOK
  <1>2. Folded({})
    BY DEF Init, Folded, Summarises, OfWorkstream
  <1> QED BY <1>1, <1>2 DEF Inv

(* Between batches everything recorded has been folded in.                 *)
LEMMA InsertKeepsInv == Inv /\ InsertEvents => Inv'
  <1> SUFFICES ASSUME Inv, InsertEvents PROVE Inv'
    OBVIOUS
  <1>1. PICK A : Folded(A)
    BY DEF Inv
  <1>2. pending = {} /\ A = events /\ TypeOK
    BY <1>1 DEF Inv, InsertEvents, Folded
  <1>3. PICK batch \in SUBSET Events :
          /\ \A e, f \in events \cup batch : e.id = f.id => e = f
          /\ events' = events \cup batch /\ pending' = batch /\ workstreams' = workstreams
    BY DEF InsertEvents
  <1>4. TypeOK'
    BY <1>2, <1>3 DEF TypeOK
  <1>5. Folded(A)'
    BY <1>1, <1>2, <1>3 DEF Folded
  <1> QED BY <1>4, <1>5 DEF Inv

(* One upsert moves one event from the pending to the folded ones.         *)
LEMMA UpsertKeepsInv ==
  ASSUME Inv, NEW e \in pending, UpsertWorkstream(e)
  PROVE  Inv'
  <1>1. PICK A : Folded(A)
    BY DEF Inv
  <1>2. TypeOK /\ e \in Events /\ e \in events
    BY DEF Inv, TypeOK
  <1>3. PICK B : B = A \cup {e}
    OBVIOUS
  <1>4. B \subseteq Events /\ B \cup pending' = events'
    BY <1>1, <1>2, <1>3 DEF Folded, UpsertWorkstream
  <1>5. ASSUME NEW w \in Workstreams
        PROVE  /\ Summarises(workstreams'[w], OfWorkstream(B, w))
               /\ workstreams'[w] \in Row \cup {None}
    <2>1. Summarises(workstreams[w], OfWorkstream(A, w)) /\ OfWorkstream(A, w) \in SUBSET Events
      BY <1>1 DEF Folded, OfWorkstream
    <2>2. workstreams \in [Workstreams -> Row \cup {None}]
      BY <1>2 DEF TypeOK
    <2>3. CASE e.ws = w
      <3>1. workstreams'[w] = Upsert(workstreams[w], RowOf(e))
        BY <2>2, <2>3, ProjectionAssumption DEF UpsertWorkstream
      <3>2. OfWorkstream(B, w) = OfWorkstream(A, w) \cup {e}
        BY <1>3, <2>3 DEF OfWorkstream
      <3>3. Upsert(workstreams[w], RowOf(e)) \in Row
        <4>1. RowOf(e) \in Row
          BY <1>2, RowOfType
        <4>2. CASE workstreams[w] = None
          BY <4>1, <4>2 DEF Upsert
        <4>3. CASE workstreams[w] \in Row
          BY <4>1, <4>3, UpsertType
        <4> QED BY <4>2, <4>3, <2>2
      <3> QED BY <2>1, <3>1, <3>2, <3>3, <1>2, UpsertSummarises
    <2>4. CASE e.ws # w
      <3>1. workstreams'[w] = workstreams[w]
        BY <2>2, <2>4 DEF UpsertWorkstream
      <3>2. OfWorkstream(B, w) = OfWorkstream(A, w)
        BY <1>3, <2>4 DEF OfWorkstream
      <3> QED BY <2>1, <2>2, <3>1, <3>2
    <2> QED BY <2>3, <2>4
  <1>6. workstreams' \in [Workstreams -> Row \cup {None}]
    BY <1>2, <1>5 DEF UpsertWorkstream, TypeOK
  <1>7. TypeOK'
    BY <1>2, <1>6 DEF TypeOK, UpsertWorkstream
  <1>8. Folded(B)'
    BY <1>4, <1>5 DEF Folded
  <1> QED BY <1>7, <1>8 DEF Inv

LEMMA NextInv == Inv /\ [Next]_vars => Inv'
  <1> SUFFICES ASSUME Inv, [Next]_vars PROVE Inv'
    OBVIOUS
  <1>1. CASE InsertEvents
    BY <1>1, InsertKeepsInv
  <1>2. CASE \E e \in pending : UpsertWorkstream(e)
    BY <1>2, UpsertKeepsInv
  <1>3. CASE UNCHANGED vars
    BY <1>3 DEF Inv, TypeOK, Folded, vars
  <1> QED BY <1>1, <1>2, <1>3 DEF Next

(* Every variable stays in its domain, and one event id has one content.   *)
THEOREM TypeCorrect == Spec => []TypeOK
  <1>1. Inv => TypeOK
    BY DEF Inv
  <1> QED BY <1>1, InitInv, NextInv, PTL DEF Spec

(* After every batch the read model is the order-free summary of the       *)
(* recorded events (the convergence ingest.ts:544 promises).               *)
THEOREM ReadModelConverges == Spec => []Converged
  <1>1. Inv => Converged
    BY DEF Inv, Folded, Converged
  <1> QED BY <1>1, InitInv, NextInv, PTL DEF Spec

(* No upsert reopens a completed workstream, removes a row or narrows its  *)
(* time span (the status CASE and MIN/MAX of UPSERT_WORKSTREAM_SQL).       *)
THEOREM CompletionIsFinal == Spec => CompletionIsTerminal
  <1>1. Inv /\ [Next]_vars => ForwardStep
    <2> SUFFICES ASSUME Inv, [Next]_vars, NEW w \in Workstreams, workstreams[w] # None
                 PROVE  /\ workstreams'[w] # None
                        /\ workstreams[w].status = "completed" => workstreams'[w].status = "completed"
                        /\ workstreams'[w].created <= workstreams[w].created
                        /\ workstreams'[w].updated >= workstreams[w].updated
      BY DEF ForwardStep
    <2>1. /\ workstreams[w] \in Row /\ pending \subseteq Events
          /\ workstreams \in [Workstreams -> Row \cup {None}]
      BY DEF Inv, TypeOK
    <2>2. workstreams[w].created \in Nat /\ workstreams[w].updated \in Nat
      BY <2>1 DEF Row
    <2>3. CASE workstreams'[w] = workstreams[w]
      BY <2>2, <2>3
    <2>4. CASE \E e \in pending : workstreams'[w] = Upsert(workstreams[w], RowOf(e))
      <3>1. PICK e \in pending : workstreams'[w] = Upsert(workstreams[w], RowOf(e))
        BY <2>4
      <3>2. RowOf(e) \in Row
        BY <2>1, RowOfType
      <3>3. Upsert(workstreams[w], RowOf(e)) \in Row
        BY <2>1, <3>2, UpsertType
      <3>4. RowOf(e).created \in Nat /\ RowOf(e).updated \in Nat
        BY <3>2 DEF Row
      <3>5. workstreams[w].status = "completed" => workstreams'[w].status = "completed"
        BY <2>1, <3>1 DEF Upsert, TakesStatus
      <3>6. /\ workstreams'[w].created <= workstreams[w].created
            /\ workstreams'[w].updated >= workstreams[w].updated
        BY <2>1, <2>2, <3>1, <3>4 DEF Upsert
      <3> QED BY <3>1, <3>3, <3>5, <3>6, ProjectionAssumption
    <2>5. workstreams' = workstreams \/ \E e \in pending : UpsertWorkstream(e)
      BY DEF Next, InsertEvents, vars
    <2> QED BY <2>1, <2>3, <2>4, <2>5 DEF UpsertWorkstream
  <1> QED BY <1>1, InitInv, NextInv, PTL DEF Spec, CompletionIsTerminal
================================================================================
