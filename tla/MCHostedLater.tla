----------------------------- MODULE MCHostedLater -----------------------------
(***************************************************************************)
(* What the hosted service does later, by its cron and its queue: webhook  *)
(* deliveries and account deletions.  They share no row of the database,   *)
(* so a behaviour moves one of them only: "part" picks it, and the other   *)
(* stays as it began.                                                      *)
(***************************************************************************)
EXTENDS Webhooks, AccountDeletion, TLC

CONSTANTS w1, e1, e2, handoff, other

MCOwner == [e \in Endpoints |-> w1]
(* One endpoint listens to handoffs only, the other to everything.         *)
MCKindsOf == [e \in Endpoints |-> IF e = e1 THEN {handoff} ELSE EventKinds]
LaterSymmetry == Permutations(Ticks \cup Passes) \cup Permutations(Requests)

VARIABLE part

LaterInit == part \in {"webhooks", "deletion"} /\ WebhooksInit /\ DeletionInit
LaterNext ==
  /\ UNCHANGED part
  /\ \/ part = "webhooks" /\ WebhooksNext /\ UNCHANGED deletionVars
     \/ part = "deletion" /\ DeletionNext /\ UNCHANGED webhookVars
LaterSpec == LaterInit /\ [][LaterNext]_<<webhookVars, deletionVars, part>>

(* The cron fires for ever, what runs gets on, the queue hands out what it *)
(* holds and time passes.  Nobody has to make a request.                   *)
TickRuns(t) == part = "webhooks" /\ TickStep(t)
ConsumerRuns(c) == part = "webhooks" /\ ConsumerStep(c)
QueuedRowAges(r) == part = "webhooks" /\ RowAges(r)
PassRuns(p) == part = "deletion" /\ (PassStep(p) \/ KVStep(p))
RequestRuns(p) == part = "deletion" /\ pc[p] # "idle" /\ (RequestStep(p) \/ KVStep(p))
TimePasses == part = "deletion" /\ Tick
LaterFairSpec ==
  /\ LaterSpec
  /\ \A t \in Ticks : WF_webhookVars(TickRuns(t))
  /\ \A c \in Consumers : WF_webhookVars(ConsumerRuns(c))
  /\ \A r \in Rows : WF_webhookVars(QueuedRowAges(r))
  /\ \A p \in Passes : WF_deletionVars(PassRuns(p))
  /\ \A p \in Requests : WF_deletionVars(RequestRuns(p))
  /\ WF_deletionVars(TimePasses)

(* Erasure goes in its order and leaves nothing: a tenant's rows outlive   *)
(* the identity, a complete job means that nothing of it is left, and the  *)
(* job keeps the CHECKs of its table.                                      *)
ErasureIsOrderly == DeletionTypeOK /\ RowsOutliveIdentity /\ CompleteMeansErased

(* Every subscribed event is swept in the end, and no row stays queued.    *)
DeliveryEnds == EverythingSwept /\ NoRowStranded
===============================================================================
