----------------------------- MODULE MCLocalStore ------------------------------
(***************************************************************************)
(* One machine for TLC: hooks, imports and readers on the database, or the *)
(* calls that hand a workstream over.  A behaviour moves one of the two.   *)
(***************************************************************************)
EXTENDS LocalReaders, Handoffs, TLC

CONSTANTS h1, h2, m1, q1, q2, b1, z1, v1, v2, a, b, s,
  Sides  \* what behaviours may move

(* Envelope a0 has the id of a1 and claims no owner, nor does c; a1 and b1  *)
(* claim one session for different owners; v1 and v2 are of no session.    *)
MCEvents == {"a0", "a1", "b1", "c", "v1", "v2"}
MCIdOf == [e \in Events |-> IF e \in {"a0", "a1"} THEN "a" ELSE e]
MCIds == {"a", "b1", "c", "v1", "v2"}
MCSessionOf == [e \in Events |-> IF e \in {"v1", "v2"} THEN None ELSE s]
MCFields == {"workstream"}
MCClaimOf ==
  [e \in Events |-> [x \in Fields |-> CASE e = "a1" -> a
                                        [] e = "b1" -> b
                                        [] OTHER -> None]]
MCBatches == {<<"c", "a1">>, <<"b1">>, <<"a0">>, <<"c", "c">>}
MCVerificationOf == [v \in Verifiers |-> IF v = v1 THEN "v1" ELSE "v2"]
MCProviderOf == [k \in AgentSessions |-> "codex"]

VARIABLE side  \* what a behaviour moves

LocalInit ==
  /\ side \in Sides
  /\ ReadersInit /\ HandoffsInit
  /\ side = "store" => stored = {}
StoreSide == side = "store" /\ Next /\ UNCHANGED <<side, handoffVars>>
HandoffSide == side = "handoffs" /\ HandoffsNext /\ UNCHANGED <<side, allVars>>
LocalSpec ==
  /\ LocalInit /\ [][StoreSide \/ HandoffSide]_<<side, allVars, handoffVars>>
  /\ \A w \in Hooks : WF_allVars(HookStep(w) /\ UNCHANGED <<readerVars, derivedVars>>)
  /\ \A w \in Importers : WF_allVars(ImporterStep(w) /\ UNCHANGED <<readerVars, derivedVars>>)
===============================================================================
