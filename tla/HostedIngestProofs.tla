-------------------------- MODULE HostedIngestProofs --------------------------
(***************************************************************************)
(* Theorems about HostedIngest, for any number of requests, devices,       *)
(* workspaces, keys and bodies, with or without storage faults.            *)
(***************************************************************************)
EXTENDS HostedIngest, SetLemmas, TLAPS

-------------------------------------------------------------------------------
(* Operators                                                               *)

LEMMA HomeType == ASSUME NEW d \in Devices PROVE Home[d] \in Workspaces
  BY IngestAssumption

LEMMA SlotType ==
  ASSUME TypeOK, NEW r \in Requests, pc[r] # "idle"
  PROVE  /\ req[r] \in Request /\ req[r].body \in Bodies
         /\ Workspace(r) \in Workspaces
         /\ Slot(r) \in Slots
         /\ Slot(r)[1] = Workspace(r)
  <1>1. req[r] \in Request
    BY DEF TypeOK
  <1>2. QED
    BY <1>1, HomeType DEF Request, Workspace, Slot, Slots

LEMMA BodyType ==
  ASSUME NEW b \in Bodies
  PROVE  EventsOf[b] \in SUBSET Pairs /\ Cost[b] \in Amounts
  BY IngestAssumption

LEMMA ReceiptType ==
  ASSUME NEW s \in Slots, NEW b \in Bodies
  PROVE  BuildReceipt(s, b) \in Receipt
  <1>1. \A e \in EventsOf[b] : e[1] \in EventIds
    BY BodyType DEF Pairs
  <1>2. QED
    BY <1>1 DEF BuildReceipt, Receipt

LEMMA AmountType ==
  ASSUME NEW u \in Amounts, NEW v \in Amounts
  PROVE  Zero \in Amounts /\ Plus(u, v) \in Amounts
  BY DEF Zero, Plus, Amounts

LEMMA PeriodType ==
  ASSUME TypeOK, NEW w \in Workspaces, NEW t \in Nat
  PROVE  PeriodAt(w, t) \in Nat /\ MonthlyAt(w, t) \in Amounts
  <1> DEFINE p == periodStart[w]
  <1>1. p \in Nat /\ monthly[w] \in Amounts /\ Period \in Nat \ {0}
    BY IngestAssumption DEF TypeOK
  <1>2. MonthlyAt(w, t) \in Amounts
    BY <1>1, AmountType DEF MonthlyAt
  <1>3. CASE ~Expired(w, t)
    BY <1>1, <1>2, <1>3 DEF PeriodAt
  <1>4. CASE Expired(w, t)
    <2>1. t - p \in Nat
      BY <1>1, <1>4 DEF Expired
    <2>2. ((t - p) \div Period) \in Nat
      BY <1>1, <2>1
    <2>3. ((t - p) \div Period) * Period \in Nat
      BY <1>1, <2>2
    <2>4. QED
      BY <1>1, <1>2, <1>4, <2>3 DEF PeriodAt
  <1>5. QED
    BY <1>3, <1>4

-------------------------------------------------------------------------------
(* Only a batch that aborts for no reason touches the ledger               *)

Committed(r) ==
  /\ pc[r] = "commit"
  /\ AbortReasons(r) = {}
  /\ ApplyBatch(r)
  /\ UNCHANGED <<req, accessVars>>

LEMMA LedgerStep ==
  ASSUME [Next]_vars
  PROVE  UNCHANGED ledgerVars \/ \E r \in Requests : Committed(r)
  <1>1. CASE UNCHANGED vars
    BY <1>1 DEF vars
  <1>2. ASSUME NEW r \in Requests, RequestStep(r)
        PROVE  UNCHANGED ledgerVars \/ Committed(r)
    BY <1>2 DEF RequestStep, Arrive, Authenticate, ReadReceipt, ReadReservation,
      ReadPolicy, ReadWinner, ReadWinnerAfterFailure, RecheckReservation,
      RecheckPolicy, Commit, Committed
  <1>3. ASSUME NEW d \in Devices, RevokeDevice(d) PROVE UNCHANGED ledgerVars
    BY <1>3 DEF RevokeDevice
  <1>4. ASSUME NEW w \in Workspaces, PrelockWorkspace(w) \/ CreateDeletionJob(w)
        PROVE  UNCHANGED ledgerVars
    BY <1>4 DEF PrelockWorkspace, CreateDeletionJob
  <1>5. CASE Tick
    BY <1>5 DEF Tick
  <1>6. QED
    BY <1>1, <1>2, <1>3, <1>4, <1>5 DEF Next

-------------------------------------------------------------------------------
(* Type correctness                                                        *)

(* A request that has arrived moves on, is denied, or is given a receipt.  *)
Moves(r) ==
  \/ \E l \in Labels \ {"idle", "answered"} : Goto(r, l)
  \/ \E k \in Denials : Deny(r, k)
  \/ \E rc \in Receipt : Respond(r, "ok", rc)

LEMMA MovesType ==
  ASSUME TypeOK, NEW r \in Requests, pc[r] \notin {"idle", "answered"},
         Moves(r), req' = req
  PROVE  /\ pc' \in [Requests -> Labels]
         /\ \A q \in Requests : req'[q] = None <=> pc'[q] = "idle"
         /\ answer' \in [Requests -> Answers \cup {None}]
         /\ \A q \in Requests : answer'[q] # None <=> pc'[q] = "answered"
  <1> USE NoneAssumption
  <1>1. CASE \E l \in Labels \ {"idle", "answered"} : Goto(r, l)
    BY <1>1 DEF TypeOK, Goto
  <1>2. CASE \E k \in Denials : Deny(r, k)
    BY <1>2 DEF TypeOK, Deny, Respond, Labels, Answers
  <1>3. CASE \E rc \in Receipt : Respond(r, "ok", rc)
    BY <1>3 DEF TypeOK, Respond, Labels, Answers
  <1>4. QED
    BY <1>1, <1>2, <1>3 DEF Moves

LEMMA ReplayMoves ==
  ASSUME TypeOK, NEW r \in Requests, pc[r] # "idle",
         receipts[Slot(r)] # None, Replay(r)
  PROVE  Moves(r)
  <1>1. receipts[Slot(r)] \in ReceiptRow
    BY SlotType DEF TypeOK, ReceiptRow
  <1>2. CASE receipts[Slot(r)].hash # RequestHash(req[r].body)
    BY <1>2 DEF Replay, Moves, Denials
  <1>3. CASE receipts[Slot(r)].hash = RequestHash(req[r].body)
    BY <1>1, <1>3 DEF Replay, Moves, ReceiptRow
  <1>4. QED
    BY <1>2, <1>3

LEMMA VerdictMoves ==
  ASSUME NEW r \in Requests
  PROVE  /\ ReservationVerdict(r) \in Denials \cup {"free", "duplicate"}
         /\ PolicyVerdict(r) \in Denials \cup {"allowed"}
         /\ QuotaReadFails(r) => Moves(r)
  <1>1. ReservationVerdict(r) \in Denials \cup {"free", "duplicate"}
    BY Zenon DEF ReservationVerdict, Denials
  <1>2. PolicyVerdict(r) \in Denials \cup {"allowed"}
    BY Zenon DEF PolicyVerdict, PolicyAnswer, Denials
  <1>3. QuotaReadFails(r) => Moves(r)
    BY DEF QuotaReadFails, Moves, Denials
  <1>4. QED
    BY <1>1, <1>2, <1>3

LEMMA RequestMoves ==
  ASSUME TypeOK, NEW r \in Requests, RequestStep(r), ~Arrive(r)
  PROVE  /\ pc[r] \notin {"idle", "answered"}
         /\ Moves(r)
         /\ UNCHANGED <<req, accessVars, now>>
  <1>1. CASE Authenticate(r)
    BY <1>1 DEF Authenticate, Moves, Labels, Denials
  <1>2. CASE ReadReceipt(r)
    BY <1>2, ReplayMoves DEF ReadReceipt, Moves, Labels, Denials
  <1>3. CASE ReadReservation(r)
    <2>1. ReservationVerdict(r) = "free" /\ Goto(r, "policy") => Moves(r)
      BY DEF Moves, Labels
    <2>2. ReservationVerdict(r) = "duplicate" /\ Goto(r, "winner") => Moves(r)
      BY DEF Moves, Labels
    <2>3. ReservationVerdict(r) \notin {"free", "duplicate"} /\ Deny(r, ReservationVerdict(r)) => Moves(r)
      BY VerdictMoves DEF Moves
    <2>4. QED
      BY <1>3, <2>1, <2>2, <2>3, VerdictMoves DEF ReadReservation
  <1>4. CASE ReadPolicy(r)
    <2>1. PolicyVerdict(r) = "allowed" /\ Goto(r, "commit") => Moves(r)
      BY DEF Moves, Labels
    <2>2. PolicyVerdict(r) # "allowed" /\ Deny(r, PolicyVerdict(r)) => Moves(r)
      BY VerdictMoves DEF Moves
    <2>3. QED
      BY <1>4, <2>1, <2>2, VerdictMoves DEF ReadPolicy
  <1>5. CASE ReadWinner(r)
    BY <1>5, ReplayMoves DEF ReadWinner, Moves, Denials
  <1>6. CASE Commit(r)
    <2>1. pc[r] # "idle"
      BY <1>6 DEF Commit
    <2>2. BuildReceipt(Slot(r), req[r].body) \in Receipt
      BY <2>1, SlotType, ReceiptType
    <2>3. QED
      BY <1>6, <2>2 DEF Commit, Moves, Labels, Denials
  <1>7. CASE ReadWinnerAfterFailure(r)
    BY <1>7, ReplayMoves DEF ReadWinnerAfterFailure, Moves, Labels, Denials
  <1>8. CASE RecheckReservation(r)
    <2>1. ReservationVerdict(r) = "free" /\ Goto(r, "explain") => Moves(r)
      BY DEF Moves, Labels
    <2>2. ReservationVerdict(r) = "duplicate" /\ Deny(r, "internal") => Moves(r)
      BY DEF Moves, Denials
    <2>3. ReservationVerdict(r) \notin {"free", "duplicate"} /\ Deny(r, ReservationVerdict(r)) => Moves(r)
      BY VerdictMoves DEF Moves
    <2>4. QED
      BY <1>8, <2>1, <2>2, <2>3, VerdictMoves DEF RecheckReservation
  <1>9. CASE RecheckPolicy(r)
    <2>1. PolicyVerdict(r) = "allowed" /\ Deny(r, "internal") => Moves(r)
      BY DEF Moves, Denials
    <2>2. PolicyVerdict(r) # "allowed" /\ Deny(r, PolicyVerdict(r)) => Moves(r)
      BY VerdictMoves DEF Moves
    <2>3. QED
      BY <1>9, <2>1, <2>2, VerdictMoves DEF RecheckPolicy
  <1>10. QED
    BY <1>1, <1>2, <1>3, <1>4, <1>5, <1>6, <1>7, <1>8, <1>9 DEF RequestStep

LEMMA ApplyBatchType ==
  ASSUME TypeOK, NEW r \in Requests, Committed(r)
  PROVE  /\ reservations' \in [Slots -> Reservation \cup {None}]
         /\ \A q \in Slots : reservations'[q] # None => reservations'[q].status = "allowed"
         /\ receipts' \in [Slots -> ReceiptRow \cup {None}]
         /\ evidence' \subseteq Workspaces \X Pairs
         /\ periodStart' \in [Workspaces -> Nat]
         /\ monthly' \in [Workspaces -> Amounts]
         /\ lifetime' \in [Workspaces -> Amounts]
  <1> DEFINE w == Workspace(r)
             s == Slot(r)
             b == req[r].body
  <1>1. w \in Workspaces /\ s \in Slots /\ b \in Bodies
    BY SlotType DEF Committed
  <1>2. EventsOf[b] \in SUBSET Pairs /\ Cost[b] \in Amounts
    BY <1>1, BodyType
  <1>3. at[r] \in Nat
    BY DEF TypeOK
  <1>4. PeriodAt(w, at[r]) \in Nat /\ MonthlyAt(w, at[r]) \in Amounts
    BY <1>1, <1>3, PeriodType
  <1>5. BuildReceipt(s, b) \in Receipt
    BY <1>1, ReceiptType
  <1>6. /\ Plus(MonthlyAt(w, at[r]), Cost[b]) \in Amounts
        /\ Plus(lifetime[w], Cost[b]) \in Amounts
    BY <1>1, <1>2, <1>4, AmountType DEF TypeOK
  <1>7. Reserve(r) /\ receipts' = [receipts EXCEPT ![s] =
          [hash |-> EventsOf[b], receipt |-> BuildReceipt(s, b)]]
    BY DEF Committed, ApplyBatch, RequestHash
  <1>8. evidence' = evidence \cup {<<w, e>> : e \in EventsOf[b]}
    BY DEF Committed, ApplyBatch
  <1>9. /\ reservations' \in [Slots -> Reservation \cup {None}]
        /\ \A q \in Slots : reservations'[q] # None => reservations'[q].status = "allowed"
    BY <1>1, <1>2, <1>3, <1>7 DEF Reserve, RequestHash, TypeOK, Reservation
  <1>10. receipts' \in [Slots -> ReceiptRow \cup {None}]
    BY <1>1, <1>2, <1>5, <1>7 DEF TypeOK, ReceiptRow
  <1>11. evidence' \subseteq Workspaces \X Pairs
    BY <1>1, <1>2, <1>8 DEF TypeOK
  <1>12. periodStart' \in [Workspaces -> Nat]
    BY <1>1, <1>4, <1>7 DEF Reserve, TypeOK
  <1>13. monthly' \in [Workspaces -> Amounts] /\ lifetime' \in [Workspaces -> Amounts]
    BY <1>1, <1>6, <1>7 DEF Reserve, TypeOK
  <1>14. QED
    BY <1>9, <1>10, <1>11, <1>12, <1>13

LEMMA LedgerType ==
  ASSUME TypeOK, [Next]_vars
  PROVE  /\ reservations' \in [Slots -> Reservation \cup {None}]
         /\ \A q \in Slots : reservations'[q] # None => reservations'[q].status = "allowed"
         /\ receipts' \in [Slots -> ReceiptRow \cup {None}]
         /\ evidence' \subseteq Workspaces \X Pairs
         /\ periodStart' \in [Workspaces -> Nat]
         /\ monthly' \in [Workspaces -> Amounts]
         /\ lifetime' \in [Workspaces -> Amounts]
  <1>1. CASE UNCHANGED ledgerVars
    BY <1>1 DEF ledgerVars, TypeOK
  <1>2. CASE \E r \in Requests : Committed(r)
    BY <1>2, ApplyBatchType
  <1>3. QED
    BY <1>1, <1>2, LedgerStep

Aborts == {"entitlement", "quota", "unique", "evidence", "storage", None}

(* The locals other than the label: a timestamp, an abort message.         *)
LEMMA LocalsType ==
  ASSUME TypeOK, NEW r \in Requests, RequestStep(r)
  PROVE  at' \in [Requests -> Nat] /\ abort' \in [Requests -> Aborts]
  <1>1. CASE Commit(r)
    <2>1. AbortReasons(r) \subseteq {"deletion", "entitlement", "quota", "device", "unique", "evidence"}
      BY DEF AbortReasons, ReservationAborts, ReceiptAborts, EvidenceAborts
    <2>2. QED
      BY <1>1, <2>1 DEF Commit, TypeOK, Aborts
  <1>2. CASE ReadReceipt(r)
    BY <1>2 DEF ReadReceipt, TypeOK, Aborts
  <1>3. CASE ~Commit(r) /\ ~ReadReceipt(r)
    BY <1>3 DEF RequestStep, Arrive, Authenticate, ReadReservation, ReadPolicy,
      ReadWinner, ReadWinnerAfterFailure, RecheckReservation, RecheckPolicy,
      TypeOK, Aborts
  <1>4. QED
    BY <1>1, <1>2, <1>3

LEMMA TypeStep == TypeOK /\ [Next]_vars => TypeOK'
  <1> SUFFICES ASSUME TypeOK, [Next]_vars PROVE TypeOK'
    OBVIOUS
  <1>1. ASSUME NEW r \in Requests, RequestStep(r) PROVE TypeOK'
    <2>1. at' \in [Requests -> Nat] /\ abort' \in [Requests -> Aborts]
      BY <1>1, LocalsType
    <2>2. CASE Arrive(r)
      <3>1. PICK d \in Devices, k \in Keys, b \in Bodies :
              req' = [req EXCEPT ![r] = [device |-> d, key |-> k, body |-> b]]
        BY <2>2 DEF Arrive
      <3>2. pc' = [pc EXCEPT ![r] = "auth"] /\ answer' = answer
        BY <2>2 DEF Arrive, Goto
      <3>3. [device |-> d, key |-> k, body |-> b] \in Request /\ None \notin Request
        BY NoneAssumption DEF Request
      <3>4. /\ pc' \in [Requests -> Labels]
            /\ req' \in [Requests -> Request \cup {None}]
            /\ \A q \in Requests : req'[q] = None <=> pc'[q] = "idle"
            /\ \A q \in Requests : answer'[q] # None <=> pc'[q] = "answered"
        BY <2>2, <3>1, <3>2, <3>3 DEF Arrive, TypeOK, Labels
      <3>5. QED
        BY <2>1, <2>2, <3>2, <3>4, LedgerType DEF Arrive, accessVars, TypeOK, Aborts
    <2>3. CASE ~Arrive(r)
      <3>1. pc[r] \notin {"idle", "answered"} /\ Moves(r) /\ UNCHANGED <<req, accessVars, now>>
        BY <1>1, <2>3, RequestMoves
      <3>2. QED
        BY <2>1, <3>1, MovesType, LedgerType DEF accessVars, TypeOK, Aborts
    <2>4. QED
      BY <2>2, <2>3
  <1>2. ASSUME NEW d \in Devices, RevokeDevice(d) PROVE TypeOK'
    BY <1>2 DEF RevokeDevice, requestVars, ledgerVars, TypeOK
  <1>3. ASSUME NEW w \in Workspaces, PrelockWorkspace(w) PROVE TypeOK'
    BY <1>3 DEF PrelockWorkspace, requestVars, ledgerVars, TypeOK
  <1>4. ASSUME NEW w \in Workspaces, CreateDeletionJob(w) PROVE TypeOK'
    BY <1>4 DEF CreateDeletionJob, requestVars, ledgerVars, TypeOK
  <1>5. CASE Tick
    BY <1>5 DEF Tick, requestVars, accessVars, ledgerVars, TypeOK
  <1>6. CASE UNCHANGED vars
    BY <1>6 DEF vars, requestVars, accessVars, ledgerVars, TypeOK
  <1>7. QED
    BY <1>1, <1>2, <1>3, <1>4, <1>5, <1>6 DEF Next

LEMMA TypeInit == Init => TypeOK
  <1>1. Zero \in Amounts
    BY DEF Zero, Amounts
  <1>2. ASSUME NEW s \in Slots
        PROVE  [hash |-> None, receipt |-> [slot |-> s, ids |-> {}]]
                 \in ReceiptRow
    BY DEF Receipt, ReceiptRow
  <1>3. QED
    BY <1>1, <1>2 DEF Init, TypeOK, Labels

(* Every reachable state is well typed; in particular no reservation is    *)
(* ever left pending by the triggers of quota.ts's INSERT.                 *)
THEOREM TypeCorrect == Spec => []TypeOK
  BY TypeInit, TypeStep, PTL DEF Spec

-------------------------------------------------------------------------------
(* The ledger is append-only                                               *)

(* What a batch that commits found: a free key, an active device and no    *)
(* other content under its event ids.                                      *)
LEMMA CommitFacts ==
  ASSUME NEW r \in Requests, Committed(r)
  PROVE  /\ receipts[Slot(r)] = None
         /\ Active(req[r].device)
         /\ \A e \in EventsOf[req[r].body], f \in evidence :
              f[1] = Workspace(r) /\ f[2][1] = e[1] => f[2][2] = e[2]
  <1>1. ReservationAborts(r) = {} /\ ReceiptAborts(r) = {} /\ EvidenceAborts(r) = {}
    BY DEF Committed, AbortReasons
  <1>2. receipts[Slot(r)] = None /\ Active(req[r].device)
    BY <1>1 DEF ReceiptAborts
  <1>3. QED
    BY <1>1, <1>2 DEF EvidenceAborts

LEMMA AppendHolds ==
  ASSUME TypeOK, [Next]_vars
  PROVE  AppendStep
  <1>1. CASE UNCHANGED ledgerVars
    BY <1>1 DEF ledgerVars, AppendStep
  <1>2. ASSUME NEW r \in Requests, Committed(r) PROVE AppendStep
    <2>1. Slot(r) \in Slots
      BY <1>2, SlotType DEF Committed
    <2>2. evidence \subseteq evidence'
      BY <1>2 DEF Committed, ApplyBatch
    <2>3. \A s \in Slots : receipts[s] # None => receipts'[s] = receipts[s]
      BY <1>2, <2>1, CommitFacts DEF Committed, ApplyBatch, TypeOK
    <2>4. \A s \in Slots : reservations[s] # None => reservations'[s] = reservations[s]
      BY <1>2, <2>1 DEF Committed, ApplyBatch, Reserve, TypeOK
    <2>5. QED
      BY <2>2, <2>3, <2>4 DEF AppendStep
  <1>3. QED
    BY <1>1, <1>2, LedgerStep

(* No step of any request, however it interleaves with the others, rewrites *)
(* a receipt, a reservation or a piece of evidence.                        *)
THEOREM LedgerAppendOnly == Spec => AppendOnly
  <1>1. TypeOK /\ [Next]_vars => [AppendStep]_vars
    BY AppendHolds
  <1>2. QED
    BY <1>1, TypeCorrect, PTL DEF Spec, AppendOnly

-------------------------------------------------------------------------------
(* Atomic acceptance and the answers built on it                           *)

IngestInv == TypeOK /\ AtomicAcceptance /\ AnswersMatchLedger /\ DuplicateHasReceipt

LEMMA AtomicStep ==
  ASSUME TypeOK, AtomicAcceptance, [Next]_vars
  PROVE  AtomicAcceptance'
  <1>1. CASE UNCHANGED ledgerVars
    BY <1>1 DEF ledgerVars, AtomicAcceptance
  <1>2. ASSUME NEW r \in Requests, Committed(r) PROVE AtomicAcceptance'
    <2> DEFINE s == Slot(r)
               b == req[r].body
    <2>1. s \in Slots /\ s[1] = Workspace(r) /\ b \in Bodies /\ EventsOf[b] \in SUBSET Pairs
      BY <1>2, SlotType, BodyType DEF Committed
    <2>2. receipts[s] = None /\ s \notin LegacySlots /\ reservations[s] = None
      BY <1>2, <2>1, CommitFacts DEF AtomicAcceptance
    <2>3. /\ receipts' = [receipts EXCEPT ![s] =
               [hash |-> EventsOf[b], receipt |-> BuildReceipt(s, b)]]
          /\ reservations' = [reservations EXCEPT ![s] =
               [hash |-> EventsOf[b], cost |-> Cost[b],
                status |-> "allowed", decided |-> at[r]]]
          /\ evidence' = evidence \cup {<<Workspace(r), e>> : e \in EventsOf[b]}
      BY <1>2, <2>2 DEF Committed, ApplyBatch, Reserve, RequestHash
    <2>4. receipts'[s] \in ReceiptRow /\ reservations'[s] \in Reservation
      BY <1>2, <2>1, <2>3, ApplyBatchType, BodyType, ReceiptType DEF ReceiptRow, Reservation, TypeOK
    <2>5. receipts'[s] # None /\ reservations'[s] # None
      BY <2>4, NoneAssumption
    <2>6. ASSUME NEW t \in Slots \ LegacySlots
          PROVE  /\ receipts'[t] = None <=> reservations'[t] = None
                 /\ receipts'[t] # None =>
                      /\ receipts'[t].hash = reservations'[t].hash
                      /\ \A e \in receipts'[t].hash : <<t[1], e>> \in evidence'
      <3>1. CASE t = s
        BY <2>1, <2>3, <2>5, <3>1 DEF TypeOK
      <3>2. CASE t # s
        BY <2>1, <2>3, <3>2 DEF TypeOK, AtomicAcceptance
      <3>3. QED
        BY <3>1, <3>2
    <2>7. ASSUME NEW t \in LegacySlots
          PROVE  receipts'[t] # None /\ receipts'[t].hash = None /\ reservations'[t] = None
      BY <2>2, <2>3, IngestAssumption DEF TypeOK, AtomicAcceptance
    <2>8. QED
      BY <2>6, <2>7 DEF AtomicAcceptance
  <1>3. QED
    BY <1>1, <1>2, LedgerStep

(* A step answers a request with a denial, or with the receipt on record.  *)
OnRecord(r) ==
  /\ receipts'[Slot(r)] # None
  /\ receipts'[Slot(r)].hash = RequestHash(req[r].body)
Outcome(r) ==
  \/ answer' = answer
  \/ \E k \in Denials : answer' = [answer EXCEPT ![r] = [kind |-> k, receipt |-> None]]
  \/ /\ OnRecord(r)
     /\ answer' = [answer EXCEPT ![r] = [kind |-> "ok", receipt |-> receipts'[Slot(r)].receipt]]

LEMMA ReplayOutcome ==
  ASSUME NEW r \in Requests, receipts[Slot(r)] # None, Replay(r), UNCHANGED ledgerVars
  PROVE  Outcome(r)
  BY DEF Replay, Deny, Respond, Outcome, OnRecord, Denials, ledgerVars

LEMMA RequestOutcome ==
  ASSUME TypeOK, NEW r \in Requests, RequestStep(r)
  PROVE  Outcome(r)
  <1>1. ASSUME NEW l, Goto(r, l) PROVE Outcome(r)
    BY <1>1 DEF Goto, Outcome
  <1>2. ASSUME NEW k \in Denials, Deny(r, k) PROVE Outcome(r)
    BY <1>2 DEF Deny, Respond, Outcome
  <1>3. QuotaReadFails(r) => Outcome(r)
    BY <1>2 DEF QuotaReadFails, Denials
  <1>4. CASE Arrive(r)
    BY <1>1, <1>4 DEF Arrive
  <1>5. CASE Authenticate(r)
    BY <1>1, <1>2, <1>5 DEF Authenticate, Denials
  <1>6. CASE ReadReceipt(r)
    BY <1>1, <1>2, <1>6, ReplayOutcome DEF ReadReceipt, Denials
  <1>7. CASE ReadReservation(r)
    BY <1>1, <1>2, <1>3, <1>7, VerdictMoves DEF ReadReservation
  <1>8. CASE ReadPolicy(r)
    BY <1>1, <1>2, <1>3, <1>8, VerdictMoves DEF ReadPolicy
  <1>9. CASE ReadWinner(r)
    BY <1>1, <1>2, <1>9, ReplayOutcome DEF ReadWinner, Denials
  <1>10. CASE Commit(r)
    <2>1. CASE AbortReasons(r) = {} /\ ApplyBatch(r)
               /\ Respond(r, "ok", BuildReceipt(Slot(r), req[r].body))
      <3>1. Slot(r) \in Slots /\ Committed(r)
        BY <1>10, <2>1, SlotType DEF Commit, Committed
      <3>2. receipts'[Slot(r)] = [hash |-> RequestHash(req[r].body),
                                  receipt |-> BuildReceipt(Slot(r), req[r].body)]
        BY <2>1, <3>1 DEF ApplyBatch, TypeOK
      <3>3. receipts'[Slot(r)] \in ReceiptRow
        <4>1. BuildReceipt(Slot(r), req[r].body) \in Receipt
          BY <3>1, SlotType, ReceiptType DEF Committed
        <4>2. RequestHash(req[r].body) \in SUBSET Pairs
          BY <3>1, SlotType, BodyType DEF RequestHash, Committed
        <4>3. QED
          BY <3>2, <4>1, <4>2 DEF ReceiptRow
      <3>4. QED
        BY <2>1, <3>2, <3>3, NoneAssumption DEF Outcome, OnRecord, Respond
    <2>2. CASE \E l \in Labels : Goto(r, l)
      BY <1>1, <2>2
    <2>3. CASE Deny(r, "unauthorized")
      BY <1>2, <2>3 DEF Denials
    <2>4. QED
      BY <1>10, <2>1, <2>2, <2>3 DEF Commit, Labels
  <1>11. CASE ReadWinnerAfterFailure(r)
    BY <1>1, <1>2, <1>11, ReplayOutcome DEF ReadWinnerAfterFailure, Denials
  <1>12. CASE RecheckReservation(r)
    <2>1. Deny(r, "internal") => Outcome(r)
      BY <1>2 DEF Denials
    <2>2. QED
      BY <1>1, <1>2, <1>3, <1>12, <2>1, VerdictMoves DEF RecheckReservation
  <1>13. CASE RecheckPolicy(r)
    <2>1. Deny(r, "internal") => Outcome(r)
      BY <1>2 DEF Denials
    <2>2. QED
      BY <1>2, <1>3, <1>13, <2>1, VerdictMoves DEF RecheckPolicy
  <1>14. QED
    BY <1>4, <1>5, <1>6, <1>7, <1>8, <1>9, <1>10, <1>11, <1>12, <1>13 DEF RequestStep

(* A request that has arrived keeps its device, key and body, and no step  *)
(* but its own moves it.                                                   *)
LEMMA RequestStable ==
  ASSUME TypeOK, [Next]_vars, NEW q \in Requests, pc[q] # "idle"
  PROVE  /\ req'[q] = req[q] /\ Slot(q)' = Slot(q)
         /\ ~RequestStep(q) => pc'[q] = pc[q] /\ answer'[q] = answer[q]
  <1>1. ASSUME NEW r \in Requests, RequestStep(r)
        PROVE  req'[q] = req[q] /\ (r # q => pc'[q] = pc[q] /\ answer'[q] = answer[q])
    <2>1. CASE Arrive(r)
      BY <2>1 DEF Arrive, Goto, TypeOK
    <2>2. CASE ~Arrive(r)
      <3>1. Moves(r) /\ req' = req
        BY <1>1, <2>2, RequestMoves
      <3>2. QED
        BY <3>1 DEF Moves, Goto, Deny, Respond, TypeOK
    <2>3. QED
      BY <2>1, <2>2
  <1>2. UNCHANGED requestVars => req'[q] = req[q] /\ pc'[q] = pc[q] /\ answer'[q] = answer[q]
    BY DEF requestVars
  <1>3. req'[q] = req[q] /\ (~RequestStep(q) => pc'[q] = pc[q] /\ answer'[q] = answer[q])
    BY <1>1, <1>2 DEF Next, vars, RevokeDevice, PrelockWorkspace, CreateDeletionJob, Tick
  <1>4. Slot(q)' = Slot(q)
    BY <1>3 DEF Slot, Workspace
  <1>5. QED
    BY <1>3, <1>4

LEMMA AnswersStep ==
  ASSUME TypeOK, TypeOK', AnswersMatchLedger, [Next]_vars
  PROVE  AnswersMatchLedger'
  <1> SUFFICES ASSUME NEW q \in Requests, answer'[q] # None, answer'[q].kind = "ok"
               PROVE  /\ receipts'[Slot(q)'] # None
                      /\ receipts'[Slot(q)'].hash = RequestHash(req'[q].body)
                      /\ receipts'[Slot(q)'].receipt = answer'[q].receipt
    BY DEF AnswersMatchLedger, RequestHash
  <1>1. CASE answer'[q] = answer[q]
    <2>1. pc[q] = "answered" /\ req'[q] = req[q] /\ Slot(q)' = Slot(q) /\ Slot(q) \in Slots
      BY <1>1, RequestStable, SlotType DEF TypeOK
    <2>2. /\ receipts[Slot(q)] # None
          /\ receipts[Slot(q)].hash = RequestHash(req[q].body)
          /\ receipts[Slot(q)].receipt = answer[q].receipt
      BY <1>1 DEF AnswersMatchLedger
    <2>3. receipts'[Slot(q)] = receipts[Slot(q)]
      BY <2>1, <2>2, AppendHolds DEF AppendStep
    <2>4. QED
      BY <1>1, <2>1, <2>2, <2>3
  <1>2. CASE answer'[q] # answer[q]
    <2>1. pc[q] # "idle" /\ RequestStep(q)
      <3>1. ASSUME NEW r \in Requests, Arrive(r) PROVE answer' = answer
        BY <3>1 DEF Arrive, Goto
      <3>2. CASE UNCHANGED requestVars
        BY <1>2, <3>2 DEF requestVars
      <3>3. ASSUME NEW r \in Requests, RequestStep(r), ~Arrive(r)
            PROVE  pc[q] # "idle" /\ RequestStep(q)
        <4>1. pc[r] # "idle" /\ Moves(r)
          BY <3>3, RequestMoves
        <4>2. r = q
          BY <1>2, <4>1 DEF Moves, Goto, Deny, Respond, TypeOK
        <4>3. QED
          BY <3>3, <4>1, <4>2
      <3>4. QED
        BY <1>2, <3>1, <3>2, <3>3 DEF Next, vars, RevokeDevice, PrelockWorkspace,
          CreateDeletionJob, Tick
    <2>2. req'[q] = req[q] /\ Slot(q)' = Slot(q)
      BY <2>1, RequestStable
    <2>3. Outcome(q)
      BY <2>1, RequestOutcome
    <2>4. "ok" \notin Denials
      BY DEF Denials
    <2>5. QED
      BY <1>2, <2>2, <2>3, <2>4 DEF Outcome, OnRecord, TypeOK
  <1>3. QED
    BY <1>1, <1>2

LEMMA DuplicateStep ==
  ASSUME TypeOK, AtomicAcceptance, DuplicateHasReceipt, [Next]_vars
  PROVE  DuplicateHasReceipt'
  <1> SUFFICES ASSUME NEW q \in Requests, pc'[q] = "winner"
               PROVE  /\ receipts'[Slot(q)'] # None
                      /\ receipts'[Slot(q)'].hash = RequestHash(req'[q].body)
    BY DEF DuplicateHasReceipt, RequestHash
  <1>1. pc[q] # "idle"
    <2>1. ASSUME NEW r \in Requests, RequestStep(r), pc[q] = "idle" PROVE FALSE
      <3>1. CASE Arrive(r)
        BY <2>1, <3>1 DEF Arrive, Goto, TypeOK
      <3>2. CASE ~Arrive(r)
        <4>1. pc[r] # "idle" /\ Moves(r)
          BY <2>1, <3>2, RequestMoves
        <4>2. QED
          BY <2>1, <4>1 DEF Moves, Goto, Deny, Respond, TypeOK
      <3>3. QED
        BY <3>1, <3>2
    <2>2. QED
      BY <2>1 DEF Next, vars, requestVars, RevokeDevice, PrelockWorkspace,
        CreateDeletionJob, Tick
  <1>2. req'[q] = req[q] /\ Slot(q)' = Slot(q) /\ Slot(q) \in Slots
    BY <1>1, RequestStable, SlotType
  <1>3. /\ receipts[Slot(q)] # None
        /\ receipts[Slot(q)].hash = RequestHash(req[q].body)
    <2>1. CASE pc[q] = "winner"
      BY <2>1 DEF DuplicateHasReceipt
    <2>2. CASE pc[q] # "winner"
      <3>1. RequestStep(q)
        BY <1>1, <2>2, RequestStable
      <3>2. ReadReservation(q) /\ ReservationVerdict(q) = "duplicate"
        BY <2>2, <3>1 DEF RequestStep, Arrive, Authenticate, ReadReceipt,
          ReadReservation, ReadPolicy, ReadWinner, Commit, ReadWinnerAfterFailure,
          RecheckReservation, RecheckPolicy, QuotaReadFails, Replay, Goto, Deny,
          Respond, TypeOK
      <3>3. /\ reservations[Slot(q)] # None
            /\ reservations[Slot(q)].hash = RequestHash(req[q].body)
        BY <3>2 DEF ReservationVerdict
      <3>4. QED
        BY <1>2, <3>3 DEF AtomicAcceptance
    <2>3. QED
      BY <2>1, <2>2
  <1>4. receipts'[Slot(q)] = receipts[Slot(q)]
    BY <1>2, <1>3, AppendHolds DEF AppendStep
  <1>5. QED
    BY <1>2, <1>3, <1>4

LEMMA InvInit == Init => IngestInv
  <1>1. ASSUME Init PROVE AtomicAcceptance
    <2>1. ASSUME NEW s \in LegacySlots
          PROVE  [hash |-> None, receipt |-> [slot |-> s, ids |-> {}]] # None
      <3>1. [hash |-> None, receipt |-> [slot |-> s, ids |-> {}]] \in ReceiptRow
        BY IngestAssumption DEF ReceiptRow, Receipt
      <3>2. QED
        BY <3>1, NoneAssumption
    <2>2. QED
      BY <1>1, <2>1, IngestAssumption DEF Init, AtomicAcceptance
  <1>2. Init => AnswersMatchLedger /\ DuplicateHasReceipt
    BY DEF Init, AnswersMatchLedger, DuplicateHasReceipt
  <1>3. QED
    BY <1>1, <1>2, TypeInit DEF IngestInv

LEMMA InvStep == IngestInv /\ [Next]_vars => IngestInv'
  BY TypeStep, AtomicStep, AnswersStep, DuplicateStep DEF IngestInv

(* IngestInv is inductive: its parts need each other.                      *)
LEMMA InvHolds == Spec => []IngestInv
  BY InvInit, InvStep, PTL DEF Spec

(* Charge, receipt and evidence of a batch exist together or not at all.   *)
THEOREM AcceptanceIsAtomic == Spec => []AtomicAcceptance
  <1>1. IngestInv => AtomicAcceptance
    BY DEF IngestInv
  <1>2. QED
    BY <1>1, InvHolds, PTL

(* Whatever raced for a key, an accepted answer is the receipt on record,  *)
(* and that record is of the batch the request sent.                       *)
THEOREM AnswersAgree == Spec => []AnswersMatchLedger
  <1>1. IngestInv => AnswersMatchLedger
    BY DEF IngestInv
  <1>2. QED
    BY <1>1, InvHolds, PTL

(* The re-read after a duplicate reservation always finds its receipt.     *)
THEOREM DuplicateFindsReceipt == Spec => []DuplicateHasReceipt
  <1>1. IngestInv => DuplicateHasReceipt
    BY DEF IngestInv
  <1>2. QED
    BY <1>1, InvHolds, PTL

-------------------------------------------------------------------------------
(* Evidence, the fence and the abstract ledger                             *)

LEMMA OneContentStep ==
  ASSUME TypeOK, OneContent, [Next]_vars
  PROVE  OneContent'
  <1>1. CASE UNCHANGED ledgerVars
    BY <1>1 DEF ledgerVars, OneContent
  <1>2. ASSUME NEW r \in Requests, Committed(r) PROVE OneContent'
    <2> DEFINE w == Workspace(r)
               E == EventsOf[req[r].body]
    <2>1. req[r].body \in Bodies
      BY <1>2, SlotType DEF Committed
    <2>2. E \in SUBSET Pairs /\ (\A x, y \in E : x[1] = y[1] => x = y)
      BY <2>1, BodyType, IngestAssumption
    <2>3. evidence' = evidence \cup {<<w, e>> : e \in E}
      BY <1>2 DEF Committed, ApplyBatch
    <2>4. ASSUME NEW e \in E, NEW f \in evidence, f[1] = w, f[2][1] = e[1]
          PROVE  f = <<w, e>>
      <3>1. f[2][2] = e[2]
        BY <1>2, <2>4, CommitFacts
      <3>2. f \in Workspaces \X Pairs /\ e \in Pairs
        BY <2>2, <2>4 DEF TypeOK
      <3>3. f[2] = e
        BY <2>4, <3>1, <3>2 DEF Pairs
      <3>4. QED
        BY <2>4, <3>2, <3>3
    <2>5. ASSUME NEW x \in evidence', NEW y \in evidence',
                 x[1] = y[1], x[2][1] = y[2][1]
          PROVE  x = y
      <3>1. CASE x \in evidence /\ y \in evidence
        BY <2>5, <3>1 DEF OneContent
      <3>2. CASE x \in evidence /\ y \in {<<w, e>> : e \in E}
        BY <2>4, <2>5, <3>2
      <3>3. CASE x \in {<<w, e>> : e \in E} /\ y \in evidence
        BY <2>4, <2>5, <3>3
      <3>4. CASE x \in {<<w, e>> : e \in E} /\ y \in {<<w, e>> : e \in E}
        BY <2>2, <2>5, <3>4
      <3>5. QED
        BY <2>3, <2>5, <3>1, <3>2, <3>3, <3>4
    <2>6. QED
      BY <2>5 DEF OneContent
  <1>3. QED
    BY <1>1, <1>2, LedgerStep

(* An event id of a workspace never gets a second content.                 *)
THEOREM EvidenceHasOneContent == Spec => []OneContent
  <1>1. Init => OneContent
    BY DEF Init, OneContent
  <1>2. TypeOK /\ OneContent /\ [Next]_vars => OneContent'
    BY OneContentStep
  <1>3. QED
    BY <1>1, <1>2, TypeCorrect, PTL DEF Spec

LEMMA FenceHolds ==
  ASSUME TypeOK, [Next]_vars
  PROVE  FenceStep
  <1>1. CASE UNCHANGED ledgerVars
    BY <1>1 DEF ledgerVars, FenceStep
  <1>2. ASSUME NEW q \in Requests, Committed(q)
        PROVE  \A w \in deleting :
                 /\ monthly'[w] = monthly[w] /\ lifetime'[w] = lifetime[w]
                 /\ periodStart'[w] = periodStart[w]
                 /\ \A k \in Keys : /\ receipts'[<<w, k>>] = receipts[<<w, k>>]
                                    /\ reservations'[<<w, k>>] = reservations[<<w, k>>]
                 /\ \A x \in evidence' : x[1] = w => x \in evidence
    <2>1. Workspace(q) \notin deleting /\ Workspace(q) \in Workspaces
      BY <1>2, CommitFacts, SlotType DEF Active, Workspace, Committed
    <2>2. Slot(q) \in Slots /\ Slot(q)[1] = Workspace(q)
      BY <1>2, SlotType DEF Committed
    <2>3. ASSUME NEW w \in deleting
          PROVE  /\ monthly'[w] = monthly[w] /\ lifetime'[w] = lifetime[w]
                 /\ periodStart'[w] = periodStart[w]
      BY <1>2, <2>1 DEF Committed, ApplyBatch, Reserve, TypeOK
    <2>4. ASSUME NEW w \in deleting, NEW k \in Keys
          PROVE  /\ receipts'[<<w, k>>] = receipts[<<w, k>>]
                 /\ reservations'[<<w, k>>] = reservations[<<w, k>>]
      <3>1. <<w, k>> \in Slots /\ <<w, k>> # Slot(q)
        BY <2>1, <2>2, <2>4 DEF Slots, TypeOK
      <3>2. QED
        BY <1>2, <3>1 DEF Committed, ApplyBatch, Reserve, TypeOK
    <2>5. ASSUME NEW w \in deleting, NEW x \in evidence', x[1] = w
          PROVE  x \in evidence
      BY <1>2, <2>1, <2>5 DEF Committed, ApplyBatch
    <2>6. QED
      BY <2>3, <2>4, <2>5
  <1>3. ASSUME NEW r \in Requests, pc[r] = "commit", pc'[r] # "commit",
               req[r].device \in revoked
        PROVE  UNCHANGED ledgerVars
    <2>1. RequestStep(r)
      BY <1>3, RequestStable
    <2>2. Commit(r)
      BY <1>3, <2>1 DEF RequestStep, Arrive, Authenticate, ReadReceipt,
        ReadReservation, ReadPolicy, ReadWinner, ReadWinnerAfterFailure,
        RecheckReservation, RecheckPolicy
    <2>3. CASE AbortReasons(r) = {} /\ ApplyBatch(r)
      <3>1. Committed(r)
        BY <2>2, <2>3 DEF Commit, Committed
      <3>2. QED
        BY <1>3, <3>1, CommitFacts DEF Active
    <2>4. QED
      BY <2>2, <2>3 DEF Commit
  <1>4. QED
    BY <1>1, <1>2, <1>3, LedgerStep DEF FenceStep

(* Nothing is written for a device after its revocation, or in a workspace *)
(* after its prelock, by requests that authenticated before.               *)
THEOREM WritesAreFenced == Spec => FencedWrites
  <1>1. TypeOK /\ [Next]_vars => [FenceStep]_vars
    BY FenceHolds
  <1>2. QED
    BY <1>1, TypeCorrect, PTL DEF Spec, FencedWrites

-------------------------------------------------------------------------------
(* Refinement                                                              *)

Accepted == [s \in Slots |-> IF receipts[s] = None THEN None ELSE receipts[s].hash]

LEMMA LedgerInit == Init => Ledger!Init
  <1>1. ASSUME Init PROVE Accepted = [s \in Slots |-> None]
    <2>1. ASSUME NEW s \in Slots
          PROVE  (IF receipts[s] = None THEN None ELSE receipts[s].hash) = None
      BY <1>1, <2>1 DEF Init
    <2>2. QED
      BY <2>1 DEF Accepted
  <1>2. QED
    BY <1>1 DEF Init, Ledger!Init, Accepted

LEMMA LedgerNext ==
  ASSUME IngestInv, OneContent, [Next]_vars
  PROVE  [Ledger!Next]_Ledger!ledger
  <1>1. CASE UNCHANGED ledgerVars
    BY <1>1 DEF ledgerVars, Ledger!ledger
  <1>2. ASSUME NEW r \in Requests, Committed(r) PROVE Ledger!Next
    <2> DEFINE s == Slot(r)
               b == req[r].body
    <2>1. s \in Slots /\ s[1] = Workspace(r) /\ b \in Bodies /\ EventsOf[b] \in SUBSET Pairs
      BY <1>2, SlotType, BodyType DEF IngestInv, Committed
    <2>2. receipts[s] = None
      BY <1>2, CommitFacts
    <2>3. /\ receipts' = [receipts EXCEPT ![s] =
               [hash |-> EventsOf[b], receipt |-> BuildReceipt(s, b)]]
          /\ evidence' = evidence \cup {<<s[1], e>> : e \in EventsOf[b]}
      BY <1>2, <2>1 DEF Committed, ApplyBatch, RequestHash
    <2>4. receipts'[s] # None /\ receipts'[s].hash = EventsOf[b]
      <3>1. receipts'[s] = [hash |-> EventsOf[b], receipt |-> BuildReceipt(s, b)]
        BY <2>1, <2>3 DEF IngestInv, TypeOK
      <3>2. receipts'[s] \in ReceiptRow
        BY <2>1, <3>1, ReceiptType DEF ReceiptRow
      <3>3. QED
        BY <3>1, <3>2, NoneAssumption
    <2>5. Accepted[s] = None /\ Accepted' = [Accepted EXCEPT ![s] = EventsOf[b]]
      <3>1. ASSUME NEW t \in Slots, t # s PROVE receipts'[t] = receipts[t]
        BY <2>3, <3>1 DEF IngestInv, TypeOK
      <3>2. QED
        BY <2>1, <2>2, <2>4, <3>1 DEF Accepted
    <2>6. OneContent'
      BY <1>2, OneContentStep DEF IngestInv
    <2>7. Ledger!Consistent(evidence \cup Ledger!Recorded(s, EventsOf[b]))
      BY <2>3, <2>6 DEF OneContent, Ledger!Consistent, Ledger!Recorded
    <2>8. PICK t \in Slots, c \in {EventsOf[x] : x \in Bodies} : t = s /\ c = EventsOf[b]
      BY <2>1
    <2>9. Ledger!Accept(t, c)
      BY <2>3, <2>5, <2>7, <2>8 DEF Ledger!Accept, Ledger!Recorded, Accepted
    <2>10. QED
      BY <2>9 DEF Ledger!Next
  <1>3. QED
    BY <1>1, <1>2, LedgerStep

(* HostedIngest, with every race, fence and fault in it, does nothing but  *)
(* accept a batch at a time under a free key, as IngestLedger promises.    *)
THEOREM Refinement == Spec => ImplementsLedger
  <1>1. Spec => Ledger!Init
    BY LedgerInit, PTL DEF Spec
  <1>2. IngestInv /\ OneContent /\ [Next]_vars => [Ledger!Next]_Ledger!ledger
    BY LedgerNext
  <1>3. QED
    BY <1>1, <1>2, InvHolds, EvidenceHasOneContent, PTL
    DEF Spec, ImplementsLedger, Ledger!Spec
-------------------------------------------------------------------------------
(* The counters                                                            *)

(* Whole periods of length p that fit in a time d.                         *)
LEMMA WholePeriods ==
  ASSUME NEW d \in Nat, NEW p \in Nat \ {0}
  PROVE  LET q == d \div p
         IN /\ q \in Nat /\ q * p \in Nat
            /\ q * p <= d /\ d < q * p + p
            /\ p <= d => p <= q * p
            /\ (q * p) % p = 0
  <1> DEFINE q == d \div p
             m == q * p
  <1>1. q \in Nat
    OBVIOUS
  <1>2. m \in Nat
    BY <1>1
  <1>3. d = p * q + (d % p) /\ 0 <= d % p /\ d % p < p /\ d % p \in Int
    OBVIOUS
  <1>4. p * q = m
    BY <1>1
  <1>5. m <= d /\ d < m + p
    BY <1>2, <1>3, <1>4
  <1>6. ASSUME p <= d PROVE p <= m
    <2>1. q >= 1
      BY <1>6
    <2>2. q - 1 \in Nat /\ (q - 1) * p \in Nat
      BY <1>1, <2>1
    <2>3. m = (q - 1) * p + p
      BY <1>1, <2>2
    <2>4. QED
      BY <2>2, <2>3
  <1>7. m % p = 0
    BY <1>1
  <1>8. QED
    BY <1>1, <1>2, <1>5, <1>6, <1>7

(* The period a batch is charged to contains the time the batch is decided *)
(* at, and starts a whole number of periods after the running one.         *)
LEMMA PeriodFacts ==
  ASSUME TypeOK, NEW w \in Workspaces, NEW t \in Nat
  PROVE  /\ periodStart[w] \in Nat /\ PeriodAt(w, t) \in Nat
         /\ t < PeriodAt(w, t) + Period
         /\ (PeriodAt(w, t) - periodStart[w]) % Period = 0
         /\ ~Expired(w, t) => PeriodAt(w, t) = periodStart[w]
         /\ Expired(w, t) => /\ periodStart[w] + Period <= PeriodAt(w, t)
                             /\ PeriodAt(w, t) <= t
  <1> DEFINE p == periodStart[w]
             d == t - p
             m == (d \div Period) * Period
  <1>1. p \in Nat /\ Period \in Nat \ {0}
    BY IngestAssumption DEF TypeOK
  <1>2. CASE ~Expired(w, t)
    <2>1. PeriodAt(w, t) = p /\ t < p + Period
      BY <1>1, <1>2 DEF PeriodAt, Expired
    <2>2. (p - p) % Period = 0
      BY <1>1
    <2>3. QED
      BY <1>1, <1>2, <2>1, <2>2
  <1>3. CASE Expired(w, t)
    <2>1. d \in Nat /\ Period <= d
      BY <1>1, <1>3 DEF Expired
    <2>2. /\ m \in Nat /\ m <= d /\ d < m + Period /\ Period <= m
          /\ m % Period = 0
      BY <1>1, <2>1, WholePeriods
    <2>3. PeriodAt(w, t) = p + m
      BY <1>3 DEF PeriodAt
    <2> HIDE DEF m
    <2>4. (p + m) - p = m
      BY <1>1, <2>2
    <2>5. QED
      BY <1>1, <1>3, <2>1, <2>2, <2>3, <2>4
  <1>4. QED
    BY <1>2, <1>3

(* What a new reservation found: usage that leaves room for its cost.      *)
LEMMA ReserveFits ==
  ASSUME TypeOK, NEW r \in Requests, Committed(r), reservations[Slot(r)] = None,
         NEW x \in Resources
  PROVE  LET w == Workspace(r)
             c == Cost[req[r].body]
         IN /\ MonthlyAt(w, at[r])[x] + c[x] <= MaxMonthly[x]
            /\ lifetime[w][x] + c[x] <= MaxLifetime[x]
  <1> DEFINE w == Workspace(r)
             c == Cost[req[r].body]
             u == MonthlyAt(w, at[r])
             v == lifetime[w]
  <1>1. ~Exceeds(u, c, MaxMonthly) /\ ~Exceeds(v, c, MaxLifetime)
    BY DEF Committed, AbortReasons, ReservationAborts
  <1>2. /\ w \in Workspaces /\ c \in Amounts /\ at[r] \in Nat
        /\ MaxMonthly \in Amounts /\ MaxLifetime \in Amounts
    BY SlotType, BodyType, IngestAssumption DEF Committed, TypeOK
  <1>3. u \in Amounts /\ v \in Amounts
    BY <1>2, PeriodType DEF TypeOK
  <1>4. /\ u[x] \in Nat /\ v[x] \in Nat /\ c[x] \in Nat
        /\ MaxMonthly[x] \in Nat /\ MaxLifetime[x] \in Nat
    BY <1>2, <1>3 DEF Amounts
  <1>5. /\ ~(u[x] > MaxMonthly[x]) /\ ~(c[x] > MaxMonthly[x] - u[x])
        /\ ~(v[x] > MaxLifetime[x]) /\ ~(c[x] > MaxLifetime[x] - v[x])
    BY <1>1 DEF Exceeds
  <1>6. QED
    BY <1>4, <1>5

(* The counters of a workspace: finitely many batches are charged, each    *)
(* was decided before the running period ends, and the sums hold.          *)
CountedAt(w) ==
  /\ IsFiniteSet(Charged(w))
  /\ \A k \in Charged(w) : reservations[<<w, k>>].decided < periodStart[w] + Period
  /\ \A x \in Resources :
       /\ lifetime[w][x] = SumFunctionOnSet(Charges(w, x), Charged(w))
       /\ lifetime[w][x] <= MaxLifetime[x]
       /\ SumFunctionOnSet(Charges(w, x), DecidedNow(w)) <= monthly[w][x]
       /\ monthly[w][x] <= MaxMonthly[x]
CountersInv == \A w \in Workspaces : CountedAt(w)

LEMMA ChargeType ==
  ASSUME TypeOK, NEW w \in Workspaces, NEW k \in Charged(w), NEW x \in Resources
  PROVE  /\ reservations[<<w, k>>] \in Reservation
         /\ reservations[<<w, k>>].decided \in Nat
         /\ Charges(w, x)[k] = reservations[<<w, k>>].cost[x]
         /\ Charges(w, x)[k] \in Nat
  <1>1. <<w, k>> \in Slots /\ reservations[<<w, k>>] # None
    BY DEF Charged, Slots
  <1>2. reservations[<<w, k>>] \in Reservation
    BY <1>1 DEF TypeOK
  <1>3. reservations[<<w, k>>].decided \in Nat /\ reservations[<<w, k>>].cost \in Amounts
    BY <1>2 DEF Reservation
  <1>4. Charges(w, x)[k] = reservations[<<w, k>>].cost[x]
    BY DEF Charges
  <1>5. QED
    BY <1>2, <1>3, <1>4 DEF Amounts

(* A workspace whose rows and counters stay keeps its sums.                *)
LEMMA CountedFrame ==
  ASSUME NEW w \in Workspaces, CountedAt(w),
         \A k \in Keys : reservations'[<<w, k>>] = reservations[<<w, k>>],
         periodStart'[w] = periodStart[w], monthly'[w] = monthly[w],
         lifetime'[w] = lifetime[w]
  PROVE  CountedAt(w)'
  <1>1. Charged(w)' = Charged(w)
    BY DEF Charged
  <1>2. DecidedNow(w)' = DecidedNow(w)
    BY <1>1 DEF DecidedNow, Charged
  <1>3. \A x \in Resources : Charges(w, x)' = Charges(w, x)
    BY <1>1 DEF Charges, Charged
  <1>4. \A k \in Charged(w) : k \in Keys
    BY DEF Charged
  <1>5. QED
    BY <1>1, <1>2, <1>3, <1>4 DEF CountedAt

(* A new reservation adds its cost to the lifetime sum, and to the sum of  *)
(* the period it is decided in; an expired period takes its sum with it.   *)
LEMMA CountedCharge ==
  ASSUME TypeOK, NEW r \in Requests, Committed(r), reservations[Slot(r)] = None,
         NEW w \in Workspaces, w = Workspace(r), CountedAt(w)
  PROVE  CountedAt(w)'
  <1> DEFINE key == req[r].key
             b == req[r].body
             c == Cost[b]
             t == at[r]
             C == Charged(w)
             D == DecidedNow(w)
             ps == periodStart[w]
             ps1 == PeriodAt(w, t)
  <1>1. /\ w \in Workspaces /\ Slot(r) \in Slots /\ b \in Bodies /\ key \in Keys
        /\ Slot(r) = <<w, key>>
    BY SlotType DEF Committed, Request, Slot
  <1>2. c \in Amounts /\ t \in Nat /\ Period \in Nat \ {0}
    BY <1>1, BodyType, IngestAssumption DEF TypeOK
  <1>3. /\ reservations' = [reservations EXCEPT ![<<w, key>>] =
               [hash |-> EventsOf[b], cost |-> c, status |-> "allowed", decided |-> t]]
        /\ periodStart' = [periodStart EXCEPT ![w] = ps1]
        /\ monthly' = [monthly EXCEPT ![w] = Plus(MonthlyAt(w, t), c)]
        /\ lifetime' = [lifetime EXCEPT ![w] = Plus(lifetime[w], c)]
    BY <1>1 DEF Committed, ApplyBatch, Reserve, RequestHash
  <1>4. /\ periodStart'[w] = ps1
        /\ \A x \in Resources : /\ monthly'[w][x] = MonthlyAt(w, t)[x] + c[x]
                                /\ lifetime'[w][x] = lifetime[w][x] + c[x]
    BY <1>1, <1>3 DEF TypeOK, Plus
  <1>5. /\ reservations'[<<w, key>>].decided = t /\ reservations'[<<w, key>>].cost = c
        /\ reservations'[<<w, key>>] # None
        /\ \A k \in Keys \ {key} : reservations'[<<w, k>>] = reservations[<<w, k>>]
    <2>1. reservations'[<<w, key>>] =
            [hash |-> EventsOf[b], cost |-> c, status |-> "allowed", decided |-> t]
      BY <1>1, <1>3 DEF TypeOK
    <2>2. [hash |-> EventsOf[b], cost |-> c, status |-> "allowed", decided |-> t]
            \in Reservation
      BY <1>1, <1>2, BodyType DEF Reservation
    <2>3. ASSUME NEW k \in Keys \ {key}
          PROVE  reservations'[<<w, k>>] = reservations[<<w, k>>]
      BY <1>1, <1>3 DEF TypeOK, Slots
    <2>4. QED
      BY <2>1, <2>2, <2>3, NoneAssumption
  <1>6. key \notin C /\ Charged(w)' = C \cup {key}
    BY <1>1, <1>5 DEF Charged
  <1>7. IsFiniteSet(C) /\ IsFiniteSet(Charged(w)')
    BY <1>6, FS_AddElement DEF CountedAt
  <1>8. /\ ps \in Nat /\ ps1 \in Nat /\ t < ps1 + Period
        /\ ~Expired(w, t) => ps1 = ps
        /\ Expired(w, t) => ps + Period <= ps1 /\ ps1 <= t
    BY <1>1, <1>2, PeriodFacts
  <1>9. \A k \in C : /\ k \in Keys \ {key}
                     /\ reservations[<<w, k>>].decided \in Nat
                     /\ reservations[<<w, k>>].decided < ps + Period
    <2>1. ASSUME NEW k \in C
          PROVE  reservations[<<w, k>>].decided \in Nat
      <3>1. <<w, k>> \in Slots /\ reservations[<<w, k>>] # None
        BY <1>1 DEF Charged, Slots
      <3>2. QED
        BY <3>1 DEF TypeOK, Reservation
    <2>2. QED
      BY <1>6, <2>1 DEF CountedAt, Charged
  <1>10. \A k \in Charged(w)' : reservations'[<<w, k>>].decided < ps1 + Period
    <2>1. ASSUME NEW k \in C
          PROVE  reservations'[<<w, k>>].decided < ps1 + Period
      <3>1. ps + Period <= ps1 + Period
        BY <1>2, <1>8
      <3>2. QED
        BY <1>2, <1>5, <1>8, <1>9, <3>1
    <2>2. QED
      BY <1>5, <1>6, <1>8, <2>1
  \* The batches decided in the period after the step.
  <1>11. /\ Expired(w, t) => DecidedNow(w)' = {key}
         /\ ~Expired(w, t) => DecidedNow(w)' = D \cup (IF t >= ps THEN {key} ELSE {})
    <2>1. DecidedNow(w)' = {k \in C \cup {key} : reservations'[<<w, k>>].decided >= ps1}
      BY <1>4, <1>6 DEF DecidedNow
    <2>2. \A k \in C : reservations'[<<w, k>>] = reservations[<<w, k>>]
      BY <1>5, <1>9
    <2>3. CASE Expired(w, t)
      <3>1. \A k \in C : ~(reservations'[<<w, k>>].decided >= ps1)
        BY <1>2, <1>8, <1>9, <2>2, <2>3
      <3>2. QED
        BY <1>5, <1>8, <2>1, <2>3, <3>1
    <2>4. CASE ~Expired(w, t)
      BY <1>5, <1>8, <2>1, <2>2, <2>4 DEF DecidedNow
    <2>5. QED
      BY <2>3, <2>4
  <1>12. ASSUME NEW x \in Resources
         PROVE  /\ (lifetime[w][x])' = SumFunctionOnSet(Charges(w, x)', Charged(w)')
                /\ (lifetime[w][x])' <= MaxLifetime[x]
                /\ SumFunctionOnSet(Charges(w, x)', DecidedNow(w)') <= (monthly[w][x])'
                /\ (monthly[w][x])' <= MaxMonthly[x]
    <2> DEFINE f == Charges(w, x)
               g == Charges(w, x)'
    <2>1. /\ lifetime[w][x] = SumFunctionOnSet(f, C)
          /\ SumFunctionOnSet(f, D) <= monthly[w][x]
      BY DEF CountedAt
    <2>2. \A k \in C : f[k] \in Nat /\ g[k] = f[k]
      <3>1. \A k \in C : f[k] \in Nat /\ f[k] = reservations[<<w, k>>].cost[x]
        BY <1>1, ChargeType
      <3>2. \A k \in C : g[k] = reservations'[<<w, k>>].cost[x]
        BY <1>6 DEF Charges
      <3>3. \A k \in C : reservations'[<<w, k>>] = reservations[<<w, k>>]
        BY <1>5, <1>9
      <3> HIDE DEF f, g, C
      <3>4. QED
        BY <3>1, <3>2, <3>3
    <2>3. g[key] = c[x] /\ c[x] \in Nat
      BY <1>2, <1>5, <1>6 DEF Charges, Amounts
    <2>4. \A S \in SUBSET C : /\ IsFiniteSet(S)
                              /\ SumFunctionOnSet(f, S) \in Nat
                              /\ SumFunctionOnSet(g, S) = SumFunctionOnSet(f, S)
                              /\ SumFunctionOnSet(g, S \cup {key})
                                   = SumFunctionOnSet(f, S) + c[x]
      <3> SUFFICES ASSUME NEW S \in SUBSET C
                   PROVE  /\ IsFiniteSet(S)
                          /\ SumFunctionOnSet(f, S) \in Nat
                          /\ SumFunctionOnSet(g, S) = SumFunctionOnSet(f, S)
                          /\ SumFunctionOnSet(g, S \cup {key})
                               = SumFunctionOnSet(f, S) + c[x]
        OBVIOUS
      <3> HIDE DEF f, g, C, c, key
      <3>1. IsFiniteSet(S)
        BY <1>7, FS_Subset
      <3>2. \A k \in C : f[k] \in Nat
        BY <2>2
      <3>3. SumFunctionOnSet(f, S) \in Nat
        BY <1>7, <3>2, SumOfAny
      <3>4. SumFunctionOnSet(g, S) = SumFunctionOnSet(f, S)
        BY <2>2, <3>1, SumOfSame
      <3>5. key \notin S /\ \A k \in S \cup {key} : g[k] \in Nat
        BY <1>6, <2>2, <2>3
      <3>6. SumFunctionOnSet(g, S \cup {key}) = SumFunctionOnSet(g, S) + g[key]
        BY <3>1, <3>5, SumOfOneMore
      <3>7. QED
        BY <2>3, <3>1, <3>3, <3>4, <3>6
    <2>5. D \in SUBSET C /\ {} \in SUBSET C /\ C \in SUBSET C
      BY DEF DecidedNow
    <2>6. /\ lifetime[w] \in Amounts /\ monthly[w] \in Amounts
          /\ lifetime[w][x] \in Nat /\ monthly[w][x] \in Nat
      BY <1>1 DEF TypeOK, Amounts
    <2>7. /\ MonthlyAt(w, t)[x] + c[x] <= MaxMonthly[x]
          /\ lifetime[w][x] + c[x] <= MaxLifetime[x]
      BY ReserveFits
    <2>8. lifetime'[w][x] = SumFunctionOnSet(g, Charged(w)')
      BY <1>4, <1>6, <2>1, <2>4, <2>5
    <2>9. SumFunctionOnSet(g, DecidedNow(w)') <= monthly'[w][x]
      <3>1. CASE Expired(w, t)
        <4>1. MonthlyAt(w, t)[x] = 0
          BY <3>1 DEF MonthlyAt, Zero
        <4>2. SumFunctionOnSet(g, {} \cup {key}) = SumFunctionOnSet(f, {}) + c[x]
          BY <2>4, <2>5
        <4>3. SumFunctionOnSet(g, {key}) = c[x]
          <5>1. {} \cup {key} = {key}
            OBVIOUS
          <5>2. QED
            BY <2>3, <4>2, <5>1, SumOfNone
        <4>4. monthly'[w][x] = 0 + c[x]
          BY <1>4, <4>1
        <4>5. DecidedNow(w)' = {key}
          BY <1>11, <3>1
        <4> HIDE DEF f, g, c
        <4>6. QED
          BY <2>3, <4>3, <4>4, <4>5
      <3>2. CASE ~Expired(w, t)
        <4>1. MonthlyAt(w, t)[x] = monthly[w][x]
          BY <3>2 DEF MonthlyAt
        <4>2. \/ SumFunctionOnSet(g, DecidedNow(w)') = SumFunctionOnSet(f, D) + c[x]
              \/ SumFunctionOnSet(g, DecidedNow(w)') = SumFunctionOnSet(f, D)
          <5>1. CASE t >= ps
            BY <1>11, <2>4, <2>5, <3>2, <5>1
          <5>2. CASE ~(t >= ps)
            <6>1. DecidedNow(w)' = D
              BY <1>11, <3>2, <5>2
            <6>2. QED
              BY <2>4, <2>5, <6>1
          <5>3. QED
            BY <5>1, <5>2
        <4>3. SumFunctionOnSet(f, D) \in Nat
          BY <2>4, <2>5
        <4>4. monthly'[w][x] = monthly[w][x] + c[x]
          BY <1>4, <4>1
        <4>5. SumFunctionOnSet(f, D) <= monthly[w][x]
          BY <2>1
        <4> HIDE DEF f, g, c, D
        <4>6. QED
          BY <2>3, <2>6, <4>2, <4>3, <4>4, <4>5
      <3>3. QED
        BY <3>1, <3>2
    <2>10. QED
      BY <1>4, <2>7, <2>8, <2>9
  <1>13. QED
    BY <1>4, <1>7, <1>10, <1>12 DEF CountedAt

LEMMA CountersStep ==
  ASSUME TypeOK, CountersInv, [Next]_vars
  PROVE  CountersInv'
  <1>1. CASE UNCHANGED ledgerVars
    <2>1. ASSUME NEW w \in Workspaces PROVE CountedAt(w)'
      BY <1>1, <2>1, CountedFrame DEF ledgerVars, CountersInv
    <2>2. QED
      BY <2>1 DEF CountersInv
  <1>2. ASSUME NEW r \in Requests, Committed(r) PROVE CountersInv'
    <2>1. CASE reservations[Slot(r)] # None
      <3>1. UNCHANGED <<reservations, periodStart, monthly, lifetime>>
        BY <1>2, <2>1 DEF Committed, ApplyBatch, Reserve
      <3>2. ASSUME NEW w \in Workspaces PROVE CountedAt(w)'
        BY <3>1, <3>2, CountedFrame DEF CountersInv
      <3>3. QED
        BY <3>2 DEF CountersInv
    <2>2. CASE reservations[Slot(r)] = None
      <3>1. Workspace(r) \in Workspaces /\ Slot(r)[1] = Workspace(r) /\ Slot(r) \in Slots
        BY <1>2, SlotType DEF Committed
      <3>2. ASSUME NEW w \in Workspaces, w # Workspace(r) PROVE CountedAt(w)'
        <4>1. Reserve(r)
          BY <1>2 DEF Committed, ApplyBatch
        <4>2. /\ periodStart'[w] = periodStart[w] /\ monthly'[w] = monthly[w]
              /\ lifetime'[w] = lifetime[w]
          BY <2>2, <3>1, <3>2, <4>1 DEF Reserve, TypeOK
        <4>3. \A k \in Keys : reservations'[<<w, k>>] = reservations[<<w, k>>]
          BY <2>2, <3>1, <3>2, <4>1 DEF Reserve, TypeOK, Slots
        <4>4. QED
          BY <4>2, <4>3, CountedFrame DEF CountersInv
      <3>3. ASSUME NEW w \in Workspaces, w = Workspace(r) PROVE CountedAt(w)'
        BY <1>2, <2>2, <3>3, CountedCharge DEF CountersInv
      <3>4. QED
        BY <3>2, <3>3 DEF CountersInv
    <2>3. QED
      BY <2>1, <2>2
  <1>3. QED
    BY <1>1, <1>2, LedgerStep

LEMMA CountersInit == Init => CountersInv
  <1> SUFFICES ASSUME Init, NEW w \in Workspaces PROVE CountedAt(w)
    BY DEF CountersInv
  <1>1. Charged(w) = {} /\ DecidedNow(w) = {}
    BY DEF Init, Charged, DecidedNow, Slots
  <1>2. IsFiniteSet({})
    BY FS_EmptySet
  <1>3. ASSUME NEW x \in Resources
        PROVE  /\ lifetime[w][x] = 0 /\ monthly[w][x] = 0
               /\ MaxLifetime[x] \in Nat /\ MaxMonthly[x] \in Nat
    BY <1>3, IngestAssumption DEF Init, Zero, Amounts
  <1>4. QED
    BY <1>1, <1>2, <1>3, SumOfNone DEF CountedAt

(* The lifetime counters of a workspace are exactly what its accepted      *)
(* batches used, the monthly ones never less than what the batches decided *)
(* in the running period used, and both stay within the caps: no race of   *)
(* requests, retry, lost acknowledgement or rollover charges a batch twice *)
(* or not at all (the reservation triggers of migration 0003 and the batch *)
(* they run in).                                                           *)
THEOREM CountersHold == Spec => []CountersAreSound
  <1>1. Init => TypeOK /\ CountersInv
    BY TypeInit, CountersInit
  <1>2. TypeOK /\ CountersInv /\ [Next]_vars => TypeOK' /\ CountersInv'
    BY TypeStep, CountersStep
  <1>3. CountersInv => CountersAreSound
    <2> SUFFICES ASSUME CountersInv, NEW w \in Workspaces, NEW x \in Resources
                 PROVE  /\ lifetime[w][x] = SumFunction(Charges(w, x))
                        /\ lifetime[w][x] <= MaxLifetime[x]
                        /\ SumFunctionOnSet(Charges(w, x), DecidedNow(w)) <= monthly[w][x]
                        /\ monthly[w][x] <= MaxMonthly[x]
      BY DEF CountersAreSound, LifetimeIsExact, MonthlyIsConservative
    <2>1. DOMAIN Charges(w, x) = Charged(w)
      BY DEF Charges
    <2>2. SumFunction(Charges(w, x)) = SumFunctionOnSet(Charges(w, x), Charged(w))
      BY <2>1 DEF SumFunction
    <2>3. QED
      BY <2>2 DEF CountersInv, CountedAt
  <1>4. QED
    BY <1>1, <1>2, <1>3, PTL DEF Spec
(* No request is stamped ahead of the clock, and no period starts there.   *)
ClockInv ==
  /\ \A r \in Requests : at[r] <= now
  /\ \A w \in Workspaces : periodStart[w] <= now

LEMMA ClockStep ==
  ASSUME TypeOK, ClockInv, [Next]_vars
  PROVE  now <= now' /\ \A r \in Requests : at'[r] <= now'
  <1> now \in Nat /\ at \in [Requests -> Nat]
    BY DEF TypeOK
  <1>1. CASE UNCHANGED vars
    BY <1>1 DEF vars, requestVars, ClockInv
  <1>2. ASSUME NEW r \in Requests, RequestStep(r)
        PROVE  now' = now /\ (at' = at \/ at' = [at EXCEPT ![r] = now])
    BY <1>2 DEF RequestStep, Arrive, Authenticate, ReadReceipt, ReadReservation,
      ReadPolicy, ReadWinner, ReadWinnerAfterFailure, RecheckReservation,
      RecheckPolicy, Commit
  <1>3. ASSUME NEW d \in Devices, RevokeDevice(d) PROVE now' = now /\ at' = at
    BY <1>3 DEF RevokeDevice, requestVars
  <1>4. ASSUME NEW w \in Workspaces, PrelockWorkspace(w) \/ CreateDeletionJob(w)
        PROVE  now' = now /\ at' = at
    BY <1>4 DEF PrelockWorkspace, CreateDeletionJob, requestVars
  <1>5. CASE Tick
    BY <1>5 DEF Tick, requestVars, ClockInv
  <1>6. CASE now' = now /\ at' = at
    BY <1>6 DEF ClockInv
  <1>7. ASSUME NEW r \in Requests, now' = now, at' = [at EXCEPT ![r] = now]
        PROVE  now <= now' /\ \A q \in Requests : at'[q] <= now'
    BY <1>7 DEF ClockInv
  <1>8. QED
    BY <1>1, <1>2, <1>3, <1>4, <1>5, <1>6, <1>7 DEF Next

LEMMA RolloverHolds ==
  ASSUME TypeOK, ClockInv, [Next]_vars
  PROVE  RolloverStep
  <1>1. CASE UNCHANGED ledgerVars
    <2>1. ASSUME NEW w \in Workspaces
          PROVE  /\ periodStart[w] \in Nat /\ periodStart[w] <= now
                 /\ (periodStart[w] - periodStart[w]) % Period = 0
                 /\ \A x \in Resources : monthly[w][x] \in Nat
      <3>1. periodStart[w] \in Nat /\ Period \in Nat \ {0}
        BY IngestAssumption DEF TypeOK
      <3>2. \A x \in Resources : monthly[w][x] \in Nat
        BY DEF TypeOK, Amounts
      <3>3. (periodStart[w] - periodStart[w]) % Period = 0
        BY <3>1
      <3>4. QED
        BY <3>1, <3>2, <3>3 DEF ClockInv
    <2>2. QED
      BY <1>1, <2>1 DEF RolloverStep, ledgerVars
  <1>2. ASSUME NEW r \in Requests, Committed(r), NEW w \in Workspaces
        PROVE  /\ periodStart'[w] >= periodStart[w]
               /\ (periodStart'[w] - periodStart[w]) % Period = 0
               /\ periodStart'[w] <= now
               /\ (\E x \in Resources : monthly'[w][x] < monthly[w][x])
                    => periodStart'[w] > periodStart[w]
    <2> DEFINE t == at[r]
               c == Cost[req[r].body]
    <2>1. /\ periodStart[w] \in Nat /\ periodStart[w] <= now /\ now \in Nat
          /\ t \in Nat /\ t <= now /\ Period \in Nat \ {0}
          /\ \A x \in Resources : monthly[w][x] \in Nat
      BY IngestAssumption DEF TypeOK, ClockInv, Amounts
    <2>2. \A x \in Resources : c[x] \in Nat
      <3>1. req[r].body \in Bodies
        BY <1>2, SlotType DEF Committed
      <3>2. QED
        BY <3>1, BodyType DEF Amounts
    <2>3. Reserve(r)
      BY <1>2 DEF Committed, ApplyBatch
    <2>4. CASE periodStart'[w] = periodStart[w] /\ monthly'[w] = monthly[w]
      <3>1. (periodStart[w] - periodStart[w]) % Period = 0
        BY <2>1
      <3>2. QED
        BY <2>1, <2>4, <3>1
    <2>5. CASE /\ w = Workspace(r) /\ periodStart'[w] = PeriodAt(w, t)
               /\ monthly'[w] = Plus(MonthlyAt(w, t), c)
      <3>1. /\ PeriodAt(w, t) \in Nat
            /\ (PeriodAt(w, t) - periodStart[w]) % Period = 0
            /\ ~Expired(w, t) => PeriodAt(w, t) = periodStart[w]
            /\ Expired(w, t) => /\ periodStart[w] + Period <= PeriodAt(w, t)
                                /\ PeriodAt(w, t) <= t
        BY <2>1, PeriodFacts
      <3>2. ~Expired(w, t) => \A x \in Resources : ~(monthly'[w][x] < monthly[w][x])
        <4> SUFFICES ASSUME ~Expired(w, t), NEW x \in Resources
                     PROVE  ~(monthly'[w][x] < monthly[w][x])
          OBVIOUS
        <4>1. monthly'[w][x] = monthly[w][x] + c[x]
          BY <2>5 DEF Plus, MonthlyAt
        <4>2. monthly[w][x] \in Nat /\ c[x] \in Nat
          BY <2>1, <2>2
        <4>3. QED
          BY <4>1, <4>2
      <3>3. CASE ~Expired(w, t)
        BY <2>1, <2>5, <3>1, <3>2, <3>3
      <3>4. CASE Expired(w, t)
        BY <2>1, <2>5, <3>1, <3>4
      <3>5. QED
        BY <3>3, <3>4
    <2>6. \/ periodStart'[w] = periodStart[w] /\ monthly'[w] = monthly[w]
          \/ /\ w = Workspace(r) /\ periodStart'[w] = PeriodAt(w, t)
             /\ monthly'[w] = Plus(MonthlyAt(w, t), c)
      BY <2>3 DEF Reserve, TypeOK
    <2>7. QED
      BY <2>4, <2>5, <2>6
  <1>3. QED
    BY <1>1, <1>2, LedgerStep DEF RolloverStep

(* A period moves forward by whole periods, never ahead of the clock, and  *)
(* a monthly counter falls only then: a request that took its timestamp    *)
(* before a rollover and commits after it resets nothing (the trigger      *)
(* quota_reservations_allow).                                       *)
THEOREM RolloverIsForward == Spec => RolloverOnlyForward
  <1>1. Init => TypeOK /\ ClockInv
    <2>1. Init => ClockInv
      BY DEF Init, ClockInv
    <2>2. QED
      BY <2>1, TypeInit
  <1>2. TypeOK /\ ClockInv /\ [Next]_vars => TypeOK' /\ ClockInv'
    <2> SUFFICES ASSUME TypeOK, ClockInv, [Next]_vars PROVE ClockInv'
      BY TypeStep
    <2>1. now <= now' /\ \A r \in Requests : at'[r] <= now'
      BY ClockStep
    <2>2. \A w \in Workspaces : periodStart'[w] <= now
      BY RolloverHolds DEF RolloverStep
    <2>3. now \in Nat /\ now' \in Nat /\ periodStart' \in [Workspaces -> Nat]
      BY TypeStep DEF TypeOK
    <2>4. \A w \in Workspaces : periodStart'[w] <= now'
      BY <2>1, <2>2, <2>3
    <2>5. QED
      BY <2>1, <2>4 DEF ClockInv
  <1>3. TypeOK /\ ClockInv /\ [Next]_vars => [RolloverStep]_vars
    BY RolloverHolds
  <1>4. QED
    BY <1>1, <1>2, <1>3, PTL DEF Spec, RolloverOnlyForward
===============================================================================
