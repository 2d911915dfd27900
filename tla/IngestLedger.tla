----------------------------- MODULE IngestLedger -----------------------------
(***************************************************************************)
(* What hosted ingest promises to a device, with no requests, retries or   *)
(* races in it: under one (workspace, idempotency key) at most one batch   *)
(* is ever accepted, acceptance records the batch and its evidence in one  *)
(* indivisible step, and neither is ever taken back or rewritten.          *)
(*                                                                         *)
(* HostedIngest implements this specification; HostedSync uses it as the   *)
(* server its retries talk to.                                             *)
(***************************************************************************)
CONSTANTS
  Slots,       \* (workspace, idempotency key) pairs
  Batches,     \* canonical envelopes, each a set of <<event id, content>>
  NoBatch      \* "nothing accepted under this slot yet"

VARIABLES
  accepted,    \* the batch accepted under each slot
  evidence     \* the <<slot's workspace, event>> pairs recorded so far

ledger == <<accepted, evidence>>

Recorded(s, b) == {<<s[1], e>> : e \in b}

(* Two records of one event identity in one workspace carry one content.   *)
Consistent(E) ==
  \A x, y \in E : x[1] = y[1] /\ x[2][1] = y[2][1] => x[2][2] = y[2][2]

Init ==
  /\ accepted = [s \in Slots |-> NoBatch]
  /\ evidence = {}

Accept(s, b) ==
  /\ evidence' = evidence \cup Recorded(s, b)
  /\ Consistent(evidence')
  /\ accepted[s] = NoBatch
  /\ accepted' = [accepted EXCEPT ![s] = b]

Next == \E s \in Slots, b \in Batches : Accept(s, b)

Spec == Init /\ [][Next]_ledger
===============================================================================
