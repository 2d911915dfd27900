----------------------------- MODULE RunLifecycle ------------------------------
(***************************************************************************)
(* What a hosted run promises, whatever it runs (an evaluation, a          *)
(* simulation): it is settled once, by one who works on it, and it is left *)
(* unsettled only by a failure.  EvalRuns and Simulations implement this.  *)
(***************************************************************************)
CONSTANT RunIds

VARIABLES
  outcome,  \* what the row of each run says
  working,  \* the runs somebody works on
  failed    \* the runs whose last worker died or could not settle

lifecycleVars == <<outcome, working, failed>>
Final == {"done", "error"}

Init ==
  /\ outcome = [r \in RunIds |-> "none"]
  /\ working = {}
  /\ failed = {}

Start(r) ==
  /\ outcome[r] = "none"
  /\ outcome' = [outcome EXCEPT ![r] = "running"]
  /\ working' = working \cup {r}
  /\ UNCHANGED failed

Settle(r) ==
  /\ outcome[r] = "running" /\ r \in working
  /\ \E o \in Final : outcome' = [outcome EXCEPT ![r] = o]
  /\ working' \in {working, working \ {r}}
  /\ UNCHANGED failed

Leave(r) ==
  /\ outcome[r] \in Final /\ r \in working
  /\ working' = working \ {r}
  /\ failed' \in {failed, failed \cup {r}}
  /\ UNCHANGED outcome

Fail(r) ==
  /\ outcome[r] = "running" /\ r \in working
  /\ working' = working \ {r}
  /\ failed' = failed \cup {r}
  /\ UNCHANGED outcome

Next == \E r \in RunIds : Start(r) \/ Settle(r) \/ Leave(r) \/ Fail(r)
Spec == Init /\ [][Next]_lifecycleVars
===============================================================================
