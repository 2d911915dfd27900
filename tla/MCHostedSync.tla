----------------------------- MODULE MCHostedSync -----------------------------
(* Small installations for TLC.                                            *)
EXTENDS HostedSync, FiniteSets, TLC

CONSTANTS w1, t1, t2, s1

MCHome == [t \in Tokens |-> w1]
(* The third event of the store cannot be redacted.                        *)
MCUnsafe == {<<s1, 3>>}

(* Bound: invocations overlap only while one policy was ever used.         *)
PoliciesUsed ==
  {x[2].policy : x \in sent} \cup
  {disk[sc].pending.policy : sc \in {x \in Scopes : disk[x].pending # None}} \cup
  {run[p].policy : p \in {q \in Procs : run[q] # None}}
Bounded ==
  \/ Cardinality({p \in Procs : pc[p] # "idle"}) <= 1
  \/ Cardinality(PoliciesUsed) <= 1

ProcSymmetry == Permutations(Procs)
===============================================================================
