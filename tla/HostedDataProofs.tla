--------------------------- MODULE HostedDataProofs ----------------------------
(***************************************************************************)
(* Theorems about what the hosted service keeps for an account: the        *)
(* lifetime ledger of accounts, the directory, browser sessions and        *)
(* devices, uploads, dashboards and their links, the tools clients call,   *)
(* the cold tier with its exports, the rows of spans, the pages of lists,  *)
(* analytics, the exports of OpenTelemetry, the masking rules and the      *)
(* amounts of money.  Processes, faults, clocks, rows, capacities and      *)
(* digits are any number.                                                  *)
(***************************************************************************)
EXTENDS MCHostedData, RulesProofs

Steps == {"identity", "capacity", "inventory", "audit", "reserve", "put",
          "reread", "insert", "account", "winner", "member"}
Started == [at : Steps, subject : Subjects, signup : BOOLEAN, count : Nat,
            known : SUBSET Subjects, read : SUBSET Subjects, tries : Int]

AccountsTypeOK ==
  /\ beta \in Beta /\ betaBackup \in Beta
  /\ burned \in SUBSET Subjects /\ removed \in SUBSET Subjects
  /\ provisioned \in SUBSET Subjects
  /\ callback \in [Callbacks -> Started \cup {Waiting}]

(* A state of D1 counts no more than the subjects it has or had.           *)
Counted(b, gone, ledger) ==
  /\ Cardinality(b.identities) <= b.active
  /\ b.active <= Cardinality(b.identities \cup gone)
  /\ b.identities \subseteq ledger

(* What a callback has established when it gets to a step.                 *)
Established(h, gone, ledger) ==
  h # Waiting =>
    /\ h.subject \notin gone
    /\ h.at = "insert" => h.subject \in ledger
    /\ h.at = "put" => Cardinality(h.read \cup {h.subject}) <= MaxAccounts

LedgerInv ==
  /\ AccountsTypeOK
  /\ Counted(beta, removed, burned) /\ Counted(betaBackup, removed, burned)
  /\ removed \subseteq burned /\ provisioned \subseteq burned
  /\ Cardinality(burned) <= MaxAccounts
  /\ \A c \in Callbacks : Established(callback[c], removed, burned)

-------------------------------------------------------------------------------
(* Operators                                                               *)

LEMMA SubjectsFinite ==
  ASSUME NEW S \in SUBSET Subjects
  PROVE  /\ IsFiniteSet(S) /\ Cardinality(S) \in Nat
         /\ \A T \in SUBSET S : Cardinality(T) <= Cardinality(S)
         /\ \A s \in Subjects : Cardinality(S \cup {s})
              = IF s \in S THEN Cardinality(S) ELSE Cardinality(S) + 1
  <1>1. IsFiniteSet(S)
    BY BetaAssumption, FS_Subset
  <1>2. Cardinality(S) \in Nat
    BY <1>1, FS_CardinalityType
  <1>3. \A T \in SUBSET S : Cardinality(T) <= Cardinality(S)
    BY <1>1, FS_Subset
  <1>4. \A s \in Subjects : Cardinality(S \cup {s})
          = IF s \in S THEN Cardinality(S) ELSE Cardinality(S) + 1
    BY <1>1, FS_AddElement
  <1>5. QED
    BY <1>1, <1>2, <1>3, <1>4

LEMMA StartedAt ==
  ASSUME AccountsTypeOK, NEW c \in Callbacks, callback[c].at # "idle"
  PROVE  callback[c] \in Started /\ callback[c] # Waiting
  BY DEF AccountsTypeOK, Waiting

LEMMA StartedIsNotWaiting == ASSUME NEW h \in Started PROVE h # Waiting
  BY DEF Started, Steps, Waiting

LEMMA TurnKeeps ==
  ASSUME AccountsTypeOK, NEW c \in Callbacks, callback[c] \in Started,
         NEW step \in Steps \cup {"ended"}, Turn(c, step)
  PROVE  /\ callback' \in [Callbacks -> Started \cup {Waiting}]
         /\ \A d \in Callbacks : d # c => callback'[d] = callback[d]
         /\ callback'[c] # Waiting =>
              /\ callback'[c].at = step
              /\ callback'[c].subject = callback[c].subject
  <1>1. CASE step = "ended"
    BY <1>1 DEF Turn, AccountsTypeOK
  <1>2. CASE step # "ended"
    <2>1. step \in Steps
      BY <1>2
    <2>2. callback' = [callback EXCEPT ![c] =
            [@ EXCEPT !.at = step, !.count = 0, !.known = {}, !.read = {}, !.signup = FALSE]]
      BY <1>2 DEF Turn
    <2>3. QED
      BY <2>1, <2>2 DEF AccountsTypeOK, Started
  <1>3. QED
    BY <1>1, <1>2

(* A step of a callback that changes nothing but where it is.              *)
LEMMA TurnStep ==
  ASSUME LedgerInv, NEW c \in Callbacks, callback[c] \in Started,
         NEW step \in Steps \cup {"ended"}, Turn(c, step), Elsewhere,
         step # "put", step = "insert" => callback[c].subject \in burned
  PROVE  LedgerInv'
  <1>1. /\ callback' \in [Callbacks -> Started \cup {Waiting}]
        /\ \A d \in Callbacks : d # c => callback'[d] = callback[d]
        /\ callback'[c] # Waiting =>
             /\ callback'[c].at = step /\ callback'[c].subject = callback[c].subject
    BY TurnKeeps DEF LedgerInv
  <1>2. callback[c] # Waiting
    BY StartedIsNotWaiting
  <1>3. \A d \in Callbacks : Established(callback'[d], removed, burned)
    BY <1>1, <1>2 DEF LedgerInv, Established
  <1>4. QED
    BY <1>1, <1>3 DEF LedgerInv, AccountsTypeOK, Elsewhere

-------------------------------------------------------------------------------
(* Steps of a callback                                                     *)

LEMMA ExchangeKeeps ==
  ASSUME LedgerInv, NEW c \in Callbacks, Exchange(c) PROVE LedgerInv'
  <1>1. PICK s \in Subjects \ removed, signup \in BOOLEAN :
          callback' = [callback EXCEPT ![c] =
            [at |-> "identity", subject |-> s, signup |-> signup, count |-> 0,
             known |-> {}, read |-> {}, tries |-> 0]]
    BY DEF Exchange
  <1>2. callback' \in [Callbacks -> Started \cup {Waiting}]
    BY <1>1 DEF LedgerInv, AccountsTypeOK, Started, Steps
  <1>3. \A d \in Callbacks : Established(callback'[d], removed, burned)
    BY <1>1 DEF LedgerInv, AccountsTypeOK, Established
  <1>4. QED
    BY <1>2, <1>3 DEF LedgerInv, AccountsTypeOK, Exchange, Elsewhere

LEMMA ReadKeeps ==
  ASSUME LedgerInv, NEW c \in Callbacks, ReadCapacity(c) \/ ReadInventory(c)
  PROVE  LedgerInv'
  <1>1. callback[c] \in Started /\ callback[c] # Waiting
    BY StartedAt DEF LedgerInv, ReadCapacity, ReadInventory, At
  <1>2. /\ callback' \in [Callbacks -> Started \cup {Waiting}]
        /\ \A d \in Callbacks : d # c => callback'[d] = callback[d]
        /\ callback'[c].at \in {"inventory", "audit"}
        /\ callback'[c].subject = callback[c].subject
    <2>1. beta.active \in Nat /\ beta.identities \in SUBSET Subjects
      BY BetaAssumption DEF LedgerInv, AccountsTypeOK, Beta
    <2>2. CASE ReadCapacity(c)
      BY <1>1, <2>1, <2>2 DEF ReadCapacity, LedgerInv, AccountsTypeOK, Started, Steps
    <2>3. CASE ReadInventory(c)
      BY <1>1, <2>1, <2>3 DEF ReadInventory, LedgerInv, AccountsTypeOK, Started, Steps
    <2>4. QED
      BY <2>2, <2>3
  <1>3. \A d \in Callbacks : Established(callback'[d], removed, burned)
    BY <1>1, <1>2 DEF LedgerInv, Established
  <1>4. QED
    BY <1>2, <1>3 DEF LedgerInv, AccountsTypeOK, ReadCapacity, ReadInventory, Elsewhere

LEMMA TurnsKeep ==
  ASSUME LedgerInv, NEW c \in Callbacks,
         \/ ReadIdentity(c) \/ AuditCoverage(c) \/ Reread(c)
         \/ ReadWinner(c) \/ VerifyMembership(c) \/ ReadAccount(c)
  PROVE  LedgerInv'
  <1>1. callback[c] \in Started
    BY StartedAt DEF LedgerInv, ReadIdentity, AuditCoverage, Reread, ReadWinner,
       VerifyMembership, ReadAccount, At
  <1>2. PICK step \in Steps \cup {"ended"} :
          /\ Turn(c, step) /\ Elsewhere /\ step # "put"
          /\ step = "insert" => callback[c].subject \in burned
    BY DEF ReadIdentity, AuditCoverage, Reread, ReadWinner, VerifyMembership,
       ReadAccount, Steps
  <1>3. QED
    BY <1>1, <1>2, TurnStep

LEMMA ReserveKeeps ==
  ASSUME LedgerInv, NEW c \in Callbacks, Reserve(c) PROVE LedgerInv'
  <1>1. callback[c] \in Started /\ callback[c] # Waiting
    BY StartedAt DEF LedgerInv, Reserve, At
  <1>2. CASE Turn(c, "ended")
    BY <1>1, <1>2, TurnStep DEF Reserve
  <1>3. CASE burned \cup {callback[c].subject} = burned /\ Turn(c, "insert")
    BY <1>1, <1>3, TurnStep DEF Reserve, Steps
  <1>4. CASE /\ ~(Cardinality(burned \cup {callback[c].subject}) > MaxAccounts)
             /\ callback' = [callback EXCEPT ![c].at = "put", ![c].read = burned]
    <2>1. /\ callback' \in [Callbacks -> Started \cup {Waiting}]
          /\ \A d \in Callbacks : d # c => callback'[d] = callback[d]
          /\ callback'[c].at = "put" /\ callback'[c].read = burned
          /\ callback'[c].subject = callback[c].subject
      BY <1>1, <1>4 DEF LedgerInv, AccountsTypeOK, Started, Steps
    <2>2. Cardinality(burned \cup {callback[c].subject}) <= MaxAccounts
      <3>1. burned \cup {callback[c].subject} \in SUBSET Subjects
        BY <1>1 DEF LedgerInv, AccountsTypeOK, Started
      <3>2. QED
        BY <1>4, <3>1, SubjectsFinite, BetaAssumption
    <2>3. \A d \in Callbacks : Established(callback'[d], removed, burned)
      BY <1>1, <2>1, <2>2 DEF LedgerInv, Established
    <2>4. QED
      BY <2>1, <2>3 DEF LedgerInv, AccountsTypeOK, Reserve, Elsewhere
  <1>5. QED
    BY <1>2, <1>3, <1>4 DEF Reserve

LEMMA PutLedgerKeeps ==
  ASSUME LedgerInv, NEW c \in Callbacks, PutLedger(c) PROVE LedgerInv'
  <1>1. callback[c] \in Started /\ callback[c] # Waiting
    BY StartedAt DEF LedgerInv, PutLedger, At
  <1> AccountsTypeOK
    BY DEF LedgerInv
  <1> "reread" \in Steps \cup {"ended"} /\ "ended" \in Steps \cup {"ended"}
    BY DEF Steps
  <1>0. ASSUME Turn(c, "reread") \/ Turn(c, "ended")
        PROVE  /\ callback' \in [Callbacks -> Started \cup {Waiting}]
               /\ \A d \in Callbacks : d # c => callback'[d] = callback[d]
               /\ callback'[c] # Waiting =>
                    /\ callback'[c].at \in {"reread", "ended"}
                    /\ callback'[c].subject = callback[c].subject
    <2>1. CASE Turn(c, "reread")
      BY <1>1, <2>1, TurnKeeps
    <2>2. CASE Turn(c, "ended")
      BY <1>1, <2>2, TurnKeeps
    <2>3. QED
      BY <1>0, <2>1, <2>2
  <1>2. CASE burned' = burned
    <2>1. /\ callback' \in [Callbacks -> Started \cup {Waiting}]
          /\ \A d \in Callbacks : d # c => callback'[d] = callback[d]
          /\ callback'[c] # Waiting =>
               /\ callback'[c].at \in {"reread", "ended", "reserve"}
               /\ callback'[c].subject = callback[c].subject
      <3>1. CASE Turn(c, "reread") \/ Turn(c, "ended")
        BY <3>1, <1>0
      <3>2. CASE callback' = [callback EXCEPT ![c].tries = @ + 1, ![c].at = "reserve"]
        <4>1. PICK h \in Started : h = callback[c]
          BY <1>1
        <4>2. [[h EXCEPT !.tries = @ + 1] EXCEPT !.at = "reserve"] \in Started
          <5>1. PICK n \in Int : n = h.tries + 1
            BY DEF Started
          <5>2. PICK g \in Started : g = [h EXCEPT !.tries = n]
            BY DEF Started
          <5>3. [g EXCEPT !.at = "reserve"] \in Started
            BY DEF Started, Steps
          <5>4. QED
            BY <5>1, <5>2, <5>3
        <4>3. callback'[c] = [[h EXCEPT !.tries = @ + 1] EXCEPT !.at = "reserve"]
          BY <3>2, <4>1 DEF AccountsTypeOK
        <4>4. /\ callback' \in [Callbacks -> Started \cup {Waiting}]
              /\ \A d \in Callbacks : d # c => callback'[d] = callback[d]
          BY <3>2, <4>2, <4>3 DEF AccountsTypeOK
        <4>5. QED
          BY <4>1, <4>3, <4>4 DEF Started
      <3>3. QED
        BY <3>1, <3>2 DEF PutLedger
    <2>2. \A d \in Callbacks : Established(callback'[d], removed, burned)
      BY <1>1, <2>1 DEF LedgerInv, Established
    <2>3. QED
      BY <1>2, <2>1, <2>2 DEF LedgerInv, AccountsTypeOK, PutLedger
  <1>3. CASE /\ burned = callback[c].read
             /\ burned' = callback[c].read \cup {callback[c].subject}
             /\ Turn(c, "reread") \/ Turn(c, "ended")
    <2>1. /\ callback' \in [Callbacks -> Started \cup {Waiting}]
          /\ \A d \in Callbacks : d # c => callback'[d] = callback[d]
          /\ callback'[c] # Waiting =>
               /\ callback'[c].at \in {"reread", "ended"}
               /\ callback'[c].subject = callback[c].subject
      BY <1>0, <1>3
    <2>2. burned \subseteq burned' /\ burned' \in SUBSET Subjects
      BY <1>1, <1>3 DEF LedgerInv, AccountsTypeOK, Started
    <2>3. Cardinality(burned') <= MaxAccounts
      BY <1>1, <1>3 DEF LedgerInv, Established, PutLedger, At
    <2>4. \A d \in Callbacks : Established(callback'[d], removed, burned')
      BY <1>1, <2>1, <2>2 DEF LedgerInv, Established
    <2>5. UNCHANGED <<beta, betaBackup, removed, provisioned>>
      BY DEF PutLedger
    <2>6. QED
      BY <2>1, <2>2, <2>3, <2>4, <2>5 DEF LedgerInv, AccountsTypeOK, Counted
  <1>4. QED
    BY <1>2, <1>3 DEF PutLedger, Unchanged

LEMMA InsertAccountKeeps ==
  ASSUME LedgerInv, NEW c \in Callbacks, InsertAccount(c) PROVE LedgerInv'
  <1>1. callback[c] \in Started /\ callback[c] # Waiting
    BY StartedAt DEF LedgerInv, InsertAccount, At
  <1>2. PICK s \in Subjects : s = callback[c].subject
    BY <1>1 DEF Started
  <1>3. s \in burned /\ s \notin removed
    BY <1>1, <1>2 DEF LedgerInv, Established, InsertAccount, At
  <1>4. /\ callback' \in [Callbacks -> Started \cup {Waiting}]
        /\ \A d \in Callbacks : Established(callback'[d], removed, burned)
    <2>1. Turn(c, "account") \/ Turn(c, "winner")
      BY DEF InsertAccount
    <2>2. /\ callback' \in [Callbacks -> Started \cup {Waiting}]
          /\ \A d \in Callbacks : d # c => callback'[d] = callback[d]
          /\ callback'[c] # Waiting =>
               /\ callback'[c].at \in {"account", "winner"}
               /\ callback'[c].subject = callback[c].subject
      BY <1>1, <2>1, TurnKeeps DEF LedgerInv, Steps
    <2>3. QED
      BY <1>1, <2>2 DEF LedgerInv, Established
  <1>5. CASE UNCHANGED <<beta, provisioned>>
    BY <1>4, <1>5 DEF LedgerInv, AccountsTypeOK, InsertAccount
  <1>6. CASE /\ s \notin beta.identities /\ beta.active < MaxAccounts
             /\ beta' = [active |-> beta.active + 1, identities |-> beta.identities \cup {s}]
             /\ provisioned' = provisioned \cup {s}
    <2>1. beta.active \in Nat /\ beta.identities \in SUBSET Subjects /\ removed \in SUBSET Subjects
      BY BetaAssumption DEF LedgerInv, AccountsTypeOK, Beta
    <2>2. beta' \in Beta
      <3>1. beta.active + 1 \in 0 .. MaxAccounts
        BY <1>6, <2>1, BetaAssumption
      <3>2. QED
        BY <1>6, <2>1, <3>1 DEF Beta
    <2>3. Counted(beta', removed, burned)
      <3>1. Cardinality(beta.identities \cup {s}) = Cardinality(beta.identities) + 1
        BY <1>6, <2>1, SubjectsFinite
      <3>2. Cardinality((beta.identities \cup removed) \cup {s})
              = Cardinality(beta.identities \cup removed) + 1
        <4>1. beta.identities \cup removed \in SUBSET Subjects
          BY <2>1
        <4>2. s \notin beta.identities \cup removed
          BY <1>3, <1>6
        <4>3. QED
          BY <4>1, <4>2, SubjectsFinite
      <3>3. (beta.identities \cup {s}) \cup removed = (beta.identities \cup removed) \cup {s}
        OBVIOUS
      <3>4. /\ Cardinality(beta.identities) \in Nat
            /\ Cardinality(beta.identities \cup removed) \in Nat
        BY <2>1, SubjectsFinite
      <3>5. /\ Cardinality(beta.identities) <= beta.active
            /\ beta.active <= Cardinality(beta.identities \cup removed)
            /\ beta.identities \subseteq burned
        BY DEF LedgerInv, Counted
      <3>6. beta'.active = beta.active + 1 /\ beta'.identities = beta.identities \cup {s}
        BY <1>6
      <3>7. Cardinality(beta'.identities) <= beta'.active
        BY <2>1, <3>1, <3>4, <3>5, <3>6
      <3>8. beta'.active <= Cardinality(beta'.identities \cup removed)
        <4>1. beta'.identities \cup removed = (beta.identities \cup removed) \cup {s}
          BY <3>3, <3>6
        <4>2. Cardinality(beta'.identities \cup removed)
                = Cardinality(beta.identities \cup removed) + 1
          BY <3>2, <4>1
        <4>3. QED
          BY <2>1, <3>4, <3>5, <3>6, <4>2
      <3>9. QED
        BY <1>3, <3>5, <3>6, <3>7, <3>8 DEF Counted
    <2>4. QED
      BY <1>3, <1>4, <1>6, <2>2, <2>3 DEF LedgerInv, AccountsTypeOK, InsertAccount
  <1>7. QED
    BY <1>2, <1>5, <1>6 DEF InsertAccount

-------------------------------------------------------------------------------
(* The other steps                                                         *)

LEMMA RemoveAccountKeeps ==
  ASSUME LedgerInv, NEW s \in Subjects, RemoveAccount(s) PROVE LedgerInv'
  <1>1. /\ beta'.active = beta.active /\ beta'.identities = beta.identities \ {s}
        /\ beta' \in Beta
    BY DEF LedgerInv, AccountsTypeOK, Beta, RemoveAccount
  <1>2. removed' = removed \cup {s} /\ s \in burned /\ s \in beta.identities
    BY DEF LedgerInv, Counted, RemoveAccount
  <1>3. /\ beta.active \in Nat /\ beta.identities \in SUBSET Subjects
        /\ betaBackup.active \in Nat /\ betaBackup.identities \in SUBSET Subjects
        /\ removed \in SUBSET Subjects
    BY BetaAssumption DEF LedgerInv, AccountsTypeOK, Beta
  <1>4. Counted(beta', removed', burned)
    <2>1. beta'.identities \cup removed' = beta.identities \cup removed
      BY <1>1, <1>2
    <2>2. /\ Cardinality(beta'.identities) <= Cardinality(beta.identities)
          /\ Cardinality(beta'.identities) \in Nat /\ Cardinality(beta.identities) \in Nat
      BY <1>1, <1>3, SubjectsFinite
    <2>3. QED
      BY <1>1, <1>3, <2>1, <2>2 DEF LedgerInv, Counted
  <1>5. Counted(betaBackup, removed', burned)
    <2>1. betaBackup.identities \cup removed' \in SUBSET Subjects
      BY <1>2, <1>3
    <2>2. /\ Cardinality(betaBackup.identities \cup removed)
             <= Cardinality(betaBackup.identities \cup removed')
          /\ Cardinality(betaBackup.identities \cup removed) \in Nat
          /\ Cardinality(betaBackup.identities \cup removed') \in Nat
      BY <1>2, <1>3, <2>1, SubjectsFinite
    <2>3. QED
      BY <1>3, <2>2 DEF LedgerInv, Counted
  <1>6. \A c \in Callbacks : Established(callback[c], removed', burned)
    BY <1>2 DEF LedgerInv, Established, RemoveAccount
  <1>7. QED
    BY <1>1, <1>2, <1>3, <1>4, <1>5, <1>6 DEF LedgerInv, AccountsTypeOK, RemoveAccount

LEMMA BackUpKeeps == ASSUME LedgerInv, BackUp \/ Restore PROVE LedgerInv'
  BY DEF LedgerInv, AccountsTypeOK, BackUp, Restore

LEMMA AccountsStep ==
  ASSUME LedgerInv, [AccountsNext]_accountVars PROVE LedgerInv'
  <1>1. CASE UNCHANGED accountVars
    BY <1>1 DEF LedgerInv, AccountsTypeOK, accountVars
  <1>2. ASSUME NEW c \in Callbacks,
          \/ Exchange(c) \/ ReadIdentity(c) \/ ReadCapacity(c) \/ ReadInventory(c)
          \/ AuditCoverage(c) \/ Reserve(c) \/ PutLedger(c) \/ Reread(c)
          \/ InsertAccount(c) \/ ReadWinner(c) \/ VerifyMembership(c) \/ ReadAccount(c)
        PROVE LedgerInv'
    BY <1>2, ExchangeKeeps, ReadKeeps, TurnsKeep, ReserveKeeps, PutLedgerKeeps,
       InsertAccountKeeps
  <1>3. ASSUME NEW s \in Subjects, RemoveAccount(s) PROVE LedgerInv'
    BY <1>3, RemoveAccountKeeps
  <1>4. CASE BackUp \/ Restore
    BY <1>4, BackUpKeeps
  <1>5. QED
    BY <1>1, <1>2, <1>3, <1>4 DEF AccountsNext

LEMMA AccountsStart == ASSUME AccountsInit PROVE LedgerInv
  <1>1. Cardinality({}) = 0
    BY FS_EmptySet
  <1>2. beta.identities = {} /\ beta.active = 0 /\ betaBackup = beta /\ beta \in Beta
    BY BetaAssumption DEF AccountsInit, Beta
  <1>3. Counted(beta, removed, burned)
    BY <1>1, <1>2 DEF AccountsInit, Counted
  <1>4. AccountsTypeOK
    BY <1>2 DEF AccountsInit, AccountsTypeOK
  <1>5. \A c \in Callbacks : Established(callback[c], removed, burned)
    BY DEF AccountsInit, Established
  <1>6. QED
    BY <1>1, <1>2, <1>3, <1>4, <1>5, BetaAssumption DEF AccountsInit, LedgerInv

LEMMA LedgerCovers == ASSUME LedgerInv PROVE IssuancesAreBurned
  <1>1. /\ beta.identities \cup removed \in SUBSET burned
        /\ burned \in SUBSET Subjects /\ beta.active \in Nat
    BY BetaAssumption DEF LedgerInv, Counted, AccountsTypeOK, Beta
  <1>2. /\ Cardinality(beta.identities \cup removed) <= Cardinality(burned)
        /\ Cardinality(burned) \in Nat
        /\ Cardinality(beta.identities \cup removed) \in Nat
    BY <1>1, SubjectsFinite
  <1>3. beta.active <= Cardinality(burned)
    BY <1>1, <1>2 DEF LedgerInv, Counted
  <1>4. QED
    BY <1>3 DEF LedgerInv, Counted, IssuancesAreBurned, Covers

-------------------------------------------------------------------------------
(* Whatever sign-ups race, fail half-way or follow a restore of D1, all    *)
(* subjects that ever had an account are among the at most MaxAccounts of  *)
(* the R2 ledger, which covers the counter and the identities of D1.       *)
THEOREM LedgerHolds == AccountsSpec => []IssuancesAreBurned
  <1>1. AccountsInit => LedgerInv
    BY AccountsStart
  <1>2. LedgerInv /\ [AccountsNext]_accountVars => LedgerInv'
    BY AccountsStep
  <1>3. LedgerInv => IssuancesAreBurned
    BY LedgerCovers
  <1>4. QED
    BY <1>1, <1>2, <1>3, PTL DEF AccountsSpec
-------------------------------------------------------------------------------
(* The enterprise directory: any number of provisioning calls, rotations   *)
(* and administrators, any seats, any clock.                               *)

Credential == [created : Nat, revoked : Int]
InviteRow == [address : Addresses, expires : Nat, state : {"open", "accepted", "revoked"}]
DirectoryCall == [step : {"invite", "head", "commit"}, token : Nat, address : Addresses,
                  now : Nat, head : Nat, attempt : {0, 1}]

DirectoryTypeOK ==
  /\ day \in Nat /\ staff \in Nat
  /\ scimToken \in Seq(Credential) /\ inviteRow \in Seq(InviteRow) /\ chain \in Seq(Nat)
  /\ call \in [DirectoryCalls -> DirectoryCall \cup {Waits}]
  /\ rotation \in [Rotators -> Nat \cup {-1}]

(* The invites that hold a seat at a time.                                 *)
Holding(now) == {i \in DOMAIN inviteRow : inviteRow[i].state = "open" /\ inviteRow[i].expires > now}

OneToken == \A s, t \in LiveTokens : s = t
OneInvite == \A a \in Addresses : \A i, j \in OpenInvites(a) : i = j
SeatsFit == staff + Cardinality(Holding(day)) <= Seats
ChainTells ==
  /\ {chain[n] : n \in Creations} = DOMAIN inviteRow
  /\ \A m, n \in Creations : m < n => chain[m] < chain[n]
NotAhead == \A c \in DirectoryCalls : call[c] # Waits => call[c].now <= day

DirectoryInv ==
  /\ DirectoryTypeOK
  /\ OneToken /\ OneInvite /\ SeatsFit /\ ChainTells /\ NotAhead

LEMMA AtMostOne ==
  ASSUME NEW S, \A x, y \in S : x = y
  PROVE  Cardinality(S) <= 1
  <1>1. CASE S = {}
    BY <1>1, FS_EmptySet
  <1>2. CASE S # {}
    <2>1. PICK x \in S : S = {x}
      BY <1>2
    <2>2. QED
      BY <2>1, FS_Singleton
  <1>3. QED
    BY <1>1, <1>2

LEMMA HoldingFinite ==
  ASSUME DirectoryTypeOK, NEW now
  PROVE  IsFiniteSet(Holding(now)) /\ Cardinality(Holding(now)) \in Nat
  <1>1. DOMAIN inviteRow = 1 .. Len(inviteRow) /\ Len(inviteRow) \in Nat
    BY DEF DirectoryTypeOK
  <1>2. IsFiniteSet(DOMAIN inviteRow)
    BY <1>1, FS_Interval
  <1>3. Holding(now) \subseteq DOMAIN inviteRow
    BY DEF Holding
  <1>4. QED
    BY <1>2, <1>3, FS_Subset, FS_CardinalityType

LEMMA RowType ==
  ASSUME DirectoryTypeOK, NEW i \in DOMAIN inviteRow
  PROVE  /\ DOMAIN inviteRow = 1 .. Len(inviteRow) /\ inviteRow[i] \in InviteRow
         /\ inviteRow[i].expires \in Nat
  <1>1. DOMAIN inviteRow = 1 .. Len(inviteRow) /\ inviteRow \in Seq(InviteRow)
    BY DEF DirectoryTypeOK
  <1>2. inviteRow[i] \in InviteRow
    BY <1>1
  <1>3. QED
    BY <1>1, <1>2 DEF InviteRow

(* A call that is not waiting is a record, and a record is not Waits.      *)
LEMMA CallType ==
  ASSUME DirectoryTypeOK, NEW c \in DirectoryCalls
  PROVE  call[c].step \in {"invite", "head", "commit"} =>
           call[c] # Waits /\ call[c] \in DirectoryCall
  BY DEF DirectoryTypeOK, Waits

LEMMA DirectoryStart == DirectoryInit => DirectoryInv
  <1> SUFFICES ASSUME DirectoryInit PROVE DirectoryInv
    OBVIOUS
  <1>1. DirectoryTypeOK
    BY DEF DirectoryInit, DirectoryTypeOK
  <1>2. OneToken /\ OneInvite
    BY DEF DirectoryInit, OneToken, OneInvite, LiveTokens, OpenInvites
  <1>3. SeatsFit
    <2>1. Holding(day) = {}
      BY DEF DirectoryInit, Holding
    <2>2. QED
      BY <2>1, FS_EmptySet, DirectoryAssumption DEF DirectoryInit, SeatsFit
  <1>4. ChainTells
    BY DEF DirectoryInit, ChainTells, Creations
  <1>5. NotAhead
    BY DEF DirectoryInit, NotAhead
  <1>6. QED
    BY <1>1, <1>2, <1>3, <1>4, <1>5 DEF DirectoryInv

(* A rotation revokes every live token in the batch that inserts the new   *)
(* one, or changes nothing.                                                *)
LEMMA RotationKeeps ==
  ASSUME DirectoryTypeOK, OneToken, NEW r \in Rotators, CommitRotation(r)
  PROVE  scimToken' \in Seq(Credential) /\ OneToken'
  <1> DEFINE now == rotation[r]
             dead == RevokeLive(now)
             new == [created |-> now, revoked |-> -1]
             n == Len(scimToken)
  <1>1. now \in Nat /\ new \in Credential /\ n \in Nat
    BY DEF CommitRotation, DirectoryTypeOK, Credential
  <1>2. CASE scimToken' = scimToken
    BY <1>2 DEF DirectoryTypeOK, OneToken, LiveTokens
  <1>3. CASE scimToken' = Append(dead, new)
    <2>1. /\ DOMAIN dead = 1 .. n
          /\ \A t \in 1 .. n : scimToken[t] \in Credential
      BY DEF RevokeLive, DirectoryTypeOK
    <2>2. \A t \in 1 .. n : dead[t] \in Credential /\ dead[t].revoked # -1
      <3> SUFFICES ASSUME NEW t \in 1 .. n
                   PROVE  dead[t] \in Credential /\ dead[t].revoked # -1
        OBVIOUS
      <3>1. CASE t \in LiveTokens
        <4>1. dead[t] = [scimToken[t] EXCEPT !.revoked = now]
          BY <2>1, <3>1 DEF RevokeLive
        <4>2. QED
          BY <1>1, <2>1, <4>1 DEF Credential
      <3>2. CASE t \notin LiveTokens
        <4>1. dead[t] = scimToken[t]
          BY <2>1, <3>2 DEF RevokeLive
        <4>2. scimToken[t].revoked # -1
          BY <3>2 DEF LiveTokens, DirectoryTypeOK
        <4>3. QED
          BY <2>1, <4>1, <4>2
      <3>3. QED
        BY <3>1, <3>2
    <2>3. dead \in Seq(Credential) /\ Len(dead) = n
      <3>1. dead = [t \in 1 .. n |-> dead[t]]
        BY <2>1 DEF RevokeLive
      <3> HIDE DEF dead
      <3>2. QED
        BY <1>1, <2>2, <3>1
    <2> HIDE DEF dead
    <2>4. /\ scimToken' \in Seq(Credential) /\ DOMAIN (scimToken') = 1 .. n + 1
          /\ \A t \in 1 .. n : scimToken'[t] = dead[t]
      BY <1>1, <1>3, <2>3
    <2>5. \A t \in LiveTokens' : t = n + 1
      BY <1>1, <2>2, <2>4 DEF LiveTokens
    <2>6. QED
      BY <2>4, <2>5 DEF OneToken
  <1>4. QED
    BY <1>2, <1>3 DEF CommitRotation

(* An invite that fits its seat and finds its address free, decided at a   *)
(* time that may be past, leaves one open invite of the address, seats for *)
(* everyone and a link of its own.                                         *)
LEMMA InviteKeeps ==
  ASSUME DirectoryInv, NEW a \in Addresses, NEW now \in Nat, now <= day,
         Admitted(a, now), InviteAddress(a, now), UNCHANGED <<day, staff>>
  PROVE  /\ inviteRow' \in Seq(InviteRow) /\ chain' \in Seq(Nat)
         /\ OneInvite' /\ SeatsFit' /\ ChainTells'
  <1> DEFINE swept == SweptRows(a, now)
             new == [address |-> a, expires |-> now + InviteLife, state |-> "open"]
             n == Len(inviteRow)
             k == Len(chain)
  <1>1. /\ DirectoryTypeOK /\ day \in Nat /\ staff \in Nat /\ n \in Nat /\ k \in Nat
        /\ new \in InviteRow /\ InviteLife \in Nat /\ Seats \in Nat
    BY DirectoryAssumption DEF DirectoryInv, DirectoryTypeOK, InviteRow
  <1>2. /\ DOMAIN inviteRow = 1 .. n /\ DOMAIN chain = 1 .. k
        /\ \A i \in 1 .. n : inviteRow[i] \in InviteRow
        /\ \A i \in 1 .. k : chain[i] \in Nat
    BY DEF DirectoryInv, DirectoryTypeOK
  <1>3. inviteRow' = Append(swept, new) /\ chain' = Append(chain, n + 1)
    BY DEF InviteAddress
  <1>4. \A i \in 1 .. n :
          /\ swept[i] \in InviteRow /\ swept[i].address = inviteRow[i].address
          /\ swept[i].expires = inviteRow[i].expires
          /\ swept[i].state = "open" => inviteRow[i].state = "open" /\ inviteRow[i].address # a
    <2> SUFFICES ASSUME NEW i \in 1 .. n
                 PROVE  /\ swept[i] \in InviteRow /\ swept[i].address = inviteRow[i].address
                        /\ swept[i].expires = inviteRow[i].expires
                        /\ swept[i].state = "open" =>
                             inviteRow[i].state = "open" /\ inviteRow[i].address # a
      OBVIOUS
    <2>1. inviteRow[i] \in InviteRow
      BY <1>2
    <2>2. CASE i \in OpenInvites(a)
      <3>1. inviteRow[i].expires <= now
        <4>1. ~(inviteRow[i].expires > now)
          BY <2>2 DEF Admitted, Occupied
        <4>2. QED
          BY <2>1, <4>1 DEF InviteRow
      <3>2. swept[i] = [inviteRow[i] EXCEPT !.state = "revoked"]
        BY <1>2, <2>2, <3>1 DEF SweptRows
      <3>3. QED
        BY <2>1, <3>2 DEF InviteRow
    <2>3. CASE i \notin OpenInvites(a)
      <3>1. swept[i] = inviteRow[i]
        BY <1>2, <2>3 DEF SweptRows
      <3>2. QED
        BY <1>2, <2>1, <2>3, <3>1 DEF OpenInvites
    <2>4. QED
      BY <2>2, <2>3
  <1>5. swept \in Seq(InviteRow) /\ Len(swept) = n
    <2>1. swept = [i \in 1 .. n |-> swept[i]]
      BY <1>2 DEF SweptRows
    <2> HIDE DEF swept
    <2>2. QED
      BY <1>1, <1>4, <2>1
  <1> HIDE DEF swept
  <1>6. /\ inviteRow' \in Seq(InviteRow) /\ DOMAIN (inviteRow') = 1 .. n + 1
        /\ inviteRow'[n + 1] = new
        /\ \A i \in 1 .. n : inviteRow'[i] = swept[i]
    BY <1>1, <1>3, <1>5
  <1>7. /\ chain' \in Seq(Nat) /\ DOMAIN (chain') = 1 .. k + 1 /\ chain'[k + 1] = n + 1
        /\ \A i \in 1 .. k : chain'[i] = chain[i]
    BY <1>1, <1>2, <1>3 DEF DirectoryTypeOK
  <1>8. OneInvite'
    <2> SUFFICES ASSUME NEW b \in Addresses, NEW i \in OpenInvites(b)', NEW j \in OpenInvites(b)'
                 PROVE  i = j
      BY DEF OneInvite
    <2>1. /\ i \in 1 .. n + 1 /\ inviteRow'[i].address = b /\ inviteRow'[i].state = "open"
          /\ j \in 1 .. n + 1 /\ inviteRow'[j].address = b /\ inviteRow'[j].state = "open"
      BY <1>6 DEF OpenInvites
    <2>2. CASE b = a
      <3>1. i \notin 1 .. n /\ j \notin 1 .. n
        BY <1>4, <1>6, <2>1, <2>2
      <3>2. QED
        BY <1>1, <2>1, <3>1
    <2>3. CASE b # a
      <3>1. i # n + 1 /\ j # n + 1
        BY <1>6, <2>1, <2>3
      <3>2. i \in 1 .. n /\ j \in 1 .. n
        BY <1>1, <2>1, <3>1
      <3>3. i \in OpenInvites(b) /\ j \in OpenInvites(b)
        BY <1>2, <1>4, <1>6, <2>1, <3>2 DEF OpenInvites
      <3>4. QED
        BY <3>3 DEF DirectoryInv, OneInvite
    <2>4. QED
      BY <2>2, <2>3
  <1>9. SeatsFit'
    <2>1. Holding(day)' \subseteq Holding(now) \cup {n + 1}
      <3> SUFFICES ASSUME NEW i \in Holding(day)', i # n + 1 PROVE i \in Holding(now)
        OBVIOUS
      <3>1. i \in 1 .. n + 1 /\ inviteRow'[i].state = "open" /\ inviteRow'[i].expires > day
        BY <1>6 DEF Holding
      <3>2. i \in 1 .. n
        BY <1>1, <3>1
      <3>3. inviteRow[i].state = "open" /\ inviteRow[i].expires > day /\ inviteRow[i].expires \in Nat
        BY <1>2, <1>4, <1>6, <3>1, <3>2 DEF InviteRow
      <3>4. QED
        BY <1>1, <1>2, <3>2, <3>3 DEF Holding
    <2>2. IsFiniteSet(Holding(now)) /\ Cardinality(Holding(now)) \in Nat
      BY <1>1, HoldingFinite
    <2>3. /\ IsFiniteSet(Holding(now) \cup {n + 1})
          /\ Cardinality(Holding(now) \cup {n + 1}) <= Cardinality(Holding(now)) + 1
      <3>1. /\ IsFiniteSet(Holding(now) \cup {n + 1})
            /\ \/ Cardinality(Holding(now) \cup {n + 1}) = Cardinality(Holding(now)) + 1
               \/ Cardinality(Holding(now) \cup {n + 1}) = Cardinality(Holding(now))
        BY <2>2, FS_AddElement, Zenon
      <3>2. QED
        BY <2>2, <3>1
    <2>4. /\ Cardinality(Holding(day)') <= Cardinality(Holding(now) \cup {n + 1})
          /\ Cardinality(Holding(day)') \in Nat
      BY <2>1, <2>3, FS_Subset, FS_CardinalityType
    <2>5. staff + Cardinality(Holding(now)) < Seats
      BY DEF Admitted, SeatsTaken, Holding
    <2>6. Cardinality(Holding(now) \cup {n + 1}) \in Nat
      BY <2>3, FS_CardinalityType
    <2>7. QED
      BY <1>1, <2>2, <2>3, <2>4, <2>5, <2>6 DEF SeatsFit
  <1>10. ChainTells'
    <2>1. Creations' = Creations \cup {k + 1}
      BY <1>1, <1>2, <1>7 DEF Creations
    <2>2. \A m \in Creations : m \in 1 .. k /\ chain'[m] = chain[m] /\ chain[m] \in 1 .. n
      BY <1>2, <1>7 DEF Creations, DirectoryInv, ChainTells
    <2>3. {chain'[m] : m \in Creations'} = DOMAIN (inviteRow')
      <3>1. {chain'[m] : m \in Creations'} = {chain[m] : m \in Creations} \cup {n + 1}
        BY <1>7, <2>1, <2>2
      <3>2. (1 .. n) \cup {n + 1} = 1 .. n + 1
        BY <1>1
      <3>3. QED
        BY <1>2, <1>6, <3>1, <3>2 DEF DirectoryInv, ChainTells
    <2>4. ASSUME NEW m \in Creations', NEW l \in Creations', m < l
          PROVE  chain'[m] < chain'[l]
      <3>1. CASE m \in Creations /\ l \in Creations
        BY <2>2, <2>4, <3>1 DEF DirectoryInv, ChainTells
      <3>2. CASE m \in Creations /\ l = k + 1
        BY <1>1, <1>7, <2>2, <3>2
      <3>3. CASE m = k + 1
        <4>1. l \in 1 .. k + 1
          BY <1>1, <2>1, <2>2
        <4>2. QED
          BY <1>1, <2>4, <3>3, <4>1
      <3>4. QED
        BY <2>1, <3>1, <3>2, <3>3
    <2>5. QED
      BY <2>3, <2>4 DEF ChainTells
  <1>11. QED
    BY <1>6, <1>7, <1>8, <1>9, <1>10

(* Other links of the chain tell of no invite.                             *)
LEMMA LinkKeeps ==
  ASSUME DirectoryTypeOK, ChainTells, chain' = Append(chain, 0),
         DOMAIN (inviteRow') = DOMAIN inviteRow
  PROVE  chain' \in Seq(Nat) /\ ChainTells'
  <1> DEFINE k == Len(chain)
  <1>1. k \in Nat /\ DOMAIN chain = 1 .. k /\ \A i \in 1 .. k : chain[i] \in Nat
    BY DEF DirectoryTypeOK
  <1>2. /\ chain' \in Seq(Nat) /\ DOMAIN (chain') = 1 .. k + 1 /\ chain'[k + 1] = 0
        /\ \A i \in 1 .. k : chain'[i] = chain[i]
    BY <1>1 DEF DirectoryTypeOK
  <1>3. Creations' = Creations /\ \A m \in Creations : chain'[m] = chain[m]
    BY <1>1, <1>2 DEF Creations
  <1>4. QED
    BY <1>2, <1>3 DEF ChainTells

(* A row of a sequence is replaced by one of its kind.                     *)
LEMMA RowReplaced ==
  ASSUME NEW S, NEW s \in Seq(S), NEW i \in 1 .. Len(s), NEW e \in S
  PROVE  /\ [s EXCEPT ![i] = e] \in Seq(S) /\ DOMAIN [s EXCEPT ![i] = e] = DOMAIN s
         /\ [s EXCEPT ![i] = e][i] = e
         /\ \A j \in DOMAIN s \ {i} : [s EXCEPT ![i] = e][j] = s[j]
  <1> DEFINE n == Len(s)
  <1>1. n \in Nat /\ s \in [1 .. n -> S] /\ DOMAIN s = 1 .. n
    OBVIOUS
  <1>2. [s EXCEPT ![i] = e] \in [1 .. n -> S]
    BY <1>1
  <1>3. [s EXCEPT ![i] = e] \in Seq(S)
    BY <1>1, <1>2
  <1>4. QED
    BY <1>1, <1>3

(* An invite that is accepted turns its seat into that of a member.        *)
LEMMA ResolveKeeps ==
  ASSUME DirectoryInv, NEW i \in DOMAIN inviteRow, NEW outcome \in {"accepted", "revoked"},
         ResolveInvite(i, outcome)
  PROVE  DirectoryInv'
  <1>1. DirectoryTypeOK
    BY DEF DirectoryInv
  <1>2. /\ UNCHANGED <<day, scimToken, call, rotation>>
        /\ inviteRow' = [inviteRow EXCEPT ![i].state = outcome]
        /\ inviteRow[i].state = "open"
        /\ chain' = Append(chain, 0)
    BY DEF ResolveInvite
  <1>3. /\ inviteRow' \in Seq(InviteRow) /\ DOMAIN (inviteRow') = DOMAIN inviteRow
        /\ inviteRow'[i].state = outcome
        /\ \A j \in DOMAIN inviteRow \ {i} : inviteRow'[j] = inviteRow[j]
    <2>1. inviteRow \in Seq(InviteRow) /\ i \in 1 .. Len(inviteRow)
      BY <1>1 DEF DirectoryTypeOK
    <2>2. inviteRow[i] \in InviteRow /\ [inviteRow[i] EXCEPT !.state = outcome] \in InviteRow
      BY <1>1, RowType DEF InviteRow
    <2>3. [inviteRow[i] EXCEPT !.state = outcome].state = outcome
      BY <2>2 DEF InviteRow
    <2>4. PICK new \in InviteRow : new = [inviteRow[i] EXCEPT !.state = outcome]
      BY <2>2
    <2>5. inviteRow' = [inviteRow EXCEPT ![i] = new]
      BY <1>2, <2>4
    <2>6. QED
      BY <2>1, <2>3, <2>4, <2>5, RowReplaced
  <1>4. /\ day \in Nat /\ staff \in Nat /\ Seats \in Nat /\ staff' \in Nat
    BY DirectoryAssumption, <1>1 DEF DirectoryTypeOK, ResolveInvite
  <1>5. chain' \in Seq(Nat) /\ ChainTells'
    BY <1>1, <1>2, <1>3, LinkKeeps DEF DirectoryInv
  <1>6. DirectoryTypeOK'
    BY <1>1, <1>2, <1>3, <1>4, <1>5 DEF DirectoryTypeOK
  <1>7. OneToken' /\ NotAhead'
    BY <1>2 DEF DirectoryInv, OneToken, LiveTokens, NotAhead
  <1>8. OneInvite'
    <2>1. \A a \in Addresses : OpenInvites(a)' \subseteq OpenInvites(a)
      BY <1>2, <1>3 DEF OpenInvites
    <2>2. QED
      BY <2>1 DEF DirectoryInv, OneInvite
  <1>9. SeatsFit'
    <2>1. Holding(day)' = Holding(day) \ {i}
      BY <1>2, <1>3 DEF Holding
    <2>2. IsFiniteSet(Holding(day)) /\ Cardinality(Holding(day)) \in Nat
      BY <1>1, HoldingFinite
    <2>3. /\ Cardinality(Holding(day) \ {i}) \in Nat
          /\ Cardinality(Holding(day) \ {i})
               = IF i \in Holding(day) THEN Cardinality(Holding(day)) - 1
                                       ELSE Cardinality(Holding(day))
      BY <2>2, FS_RemoveElement, FS_CardinalityType
    <2>4. staff + Cardinality(Holding(day)) <= Seats
      BY DEF DirectoryInv, SeatsFit
    <2>5. CASE outcome = "accepted"
      <3>1. i \in Holding(day)
        <4>1. inviteRow[i].expires \in Nat /\ day < inviteRow[i].expires
          BY <1>1, <2>5, RowType DEF ResolveInvite
        <4>2. QED
          BY <1>2, <1>4, <4>1 DEF Holding
      <3>2. staff' = staff + 1
        BY <2>5 DEF ResolveInvite
      <3>3. QED
        BY <1>2, <1>4, <2>1, <2>2, <2>3, <2>4, <3>1, <3>2 DEF SeatsFit
    <2>6. CASE outcome # "accepted"
      <3>1. staff' = staff
        BY <2>6 DEF ResolveInvite
      <3>2. QED
        BY <1>2, <1>4, <2>1, <2>2, <2>3, <2>4, <3>1 DEF SeatsFit
    <2>7. QED
      BY <2>5, <2>6
  <1>10. QED
    BY <1>5, <1>6, <1>7, <1>8, <1>9 DEF DirectoryInv

(* What one call does to itself leaves the tables alone.                   *)
LEMMA CallKeeps ==
  ASSUME DirectoryInv, UNCHANGED <<day, scimToken, inviteRow, chain, staff>>,
         call' \in [DirectoryCalls -> DirectoryCall \cup {Waits}],
         rotation' \in [Rotators -> Nat \cup {-1}],
         \A c \in DirectoryCalls : call'[c] # Waits => call'[c].now <= day
  PROVE  DirectoryInv'
  BY DEF DirectoryInv, DirectoryTypeOK, OneToken, LiveTokens, OneInvite, OpenInvites,
         SeatsFit, Holding, ChainTells, Creations, NotAhead

LEMMA CallsKeep ==
  ASSUME DirectoryInv, NEW c \in DirectoryCalls,
         Provision(c) \/ ReadLiveInvite(c) \/ ReadChainHead(c) \/ AbortInvite(c)
  PROVE  DirectoryInv'
  <1>1. /\ DirectoryTypeOK /\ NotAhead
        /\ UNCHANGED <<day, scimToken, inviteRow, chain, staff, rotation>>
    BY DEF DirectoryInv, Provision, ReadLiveInvite, ReadChainHead, AbortInvite
  <1>2. day \in Nat /\ Len(chain) \in Nat /\ call \in [DirectoryCalls -> DirectoryCall \cup {Waits}]
    BY <1>1 DEF DirectoryTypeOK
  <1>3. \E h \in DirectoryCall \cup {Waits} :
           (h # Waits => h.now <= day) /\ call' = [call EXCEPT ![c] = h]
    <2>1. CASE Provision(c)
      <3>1. PICK t \in LiveTokens, a \in Addresses :
              call' = [call EXCEPT ![c] =
                [step |-> "invite", token |-> t, address |-> a, now |-> day,
                 head |-> 0, attempt |-> 0]]
        BY <2>1 DEF Provision
      <3>2. t \in Nat
        BY <1>1 DEF LiveTokens, DirectoryTypeOK
      <3>3. [step |-> "invite", token |-> t, address |-> a, now |-> day, head |-> 0,
             attempt |-> 0] \in DirectoryCall
        BY <1>2, <3>2 DEF DirectoryCall
      <3>4. PICK h \in DirectoryCall :
              h = [step |-> "invite", token |-> t, address |-> a, now |-> day, head |-> 0,
                   attempt |-> 0]
        BY <3>3
      <3>5. h.now <= day /\ call' = [call EXCEPT ![c] = h]
        BY <1>2, <3>1, <3>4
      <3>6. QED
        BY <3>5
    <2>2. CASE ~Provision(c)
      <3>1. call[c] \in DirectoryCall /\ call[c] # Waits /\ call[c].now <= day
        BY <1>1, <2>2, CallType DEF ReadLiveInvite, ReadChainHead, AbortInvite, NotAhead
      <3>2. PICK h \in DirectoryCall : h = call[c]
        BY <3>1
      <3>3. CASE ReadLiveInvite(c)
        <4>1. \/ call' = [call EXCEPT ![c] = Waits]
              \/ call' = [call EXCEPT ![c] = [h EXCEPT !.step = "head"]]
          BY <3>2, <3>3 DEF ReadLiveInvite
        <4>2. [h EXCEPT !.step = "head"] \in DirectoryCall /\ [h EXCEPT !.step = "head"].now = h.now
          BY DEF DirectoryCall
        <4>3. QED
          BY <3>1, <3>2, <4>1, <4>2
      <3>4. CASE ReadChainHead(c)
        <4>1. call' = [call EXCEPT ![c] = [h EXCEPT !.step = "commit", !.head = Len(chain)]]
          BY <1>2, <3>2, <3>4 DEF ReadChainHead
        <4>2. /\ [h EXCEPT !.step = "commit", !.head = Len(chain)] \in DirectoryCall
              /\ [h EXCEPT !.step = "commit", !.head = Len(chain)].now = h.now
          BY <1>2 DEF DirectoryCall
        <4>3. QED
          BY <3>1, <3>2, <4>1, <4>2
      <3>5. CASE AbortInvite(c)
        <4>1. \/ call' = [call EXCEPT ![c] = Waits]
              \/ call' = [call EXCEPT ![c] = [h EXCEPT !.step = "head", !.attempt = 1]]
          BY <3>2, <3>5 DEF AbortInvite
        <4>2. /\ [h EXCEPT !.step = "head", !.attempt = 1] \in DirectoryCall
              /\ [h EXCEPT !.step = "head", !.attempt = 1].now = h.now
          BY DEF DirectoryCall
        <4>3. QED
          BY <3>1, <3>2, <4>1, <4>2
      <3>6. QED
        BY <2>2, <3>3, <3>4, <3>5
    <2>3. QED
      BY <2>1, <2>2
  <1>4. PICK h \in DirectoryCall \cup {Waits} :
           (h # Waits => h.now <= day) /\ call' = [call EXCEPT ![c] = h]
    BY <1>3
  <1>5. /\ call' \in [DirectoryCalls -> DirectoryCall \cup {Waits}]
        /\ \A d \in DirectoryCalls : call'[d] # Waits => call'[d].now <= day
    BY <1>1, <1>2, <1>4 DEF NotAhead
  <1>6. rotation' \in [Rotators -> Nat \cup {-1}]
    BY <1>1 DEF DirectoryTypeOK
  <1>7. QED
    BY <1>1, <1>5, <1>6, CallKeeps

LEMMA DirectoryStep ==
  ASSUME DirectoryInv, [DirectoryNext]_directoryVars
  PROVE  DirectoryInv'
  <1>1. /\ DirectoryTypeOK /\ day \in Nat /\ staff \in Nat
        /\ rotation \in [Rotators -> Nat \cup {-1}]
        /\ call \in [DirectoryCalls -> DirectoryCall \cup {Waits}]
    BY DEF DirectoryInv, DirectoryTypeOK
  <1>2. CASE UNCHANGED directoryVars
    BY <1>1, <1>2, CallKeeps DEF directoryVars, DirectoryInv, NotAhead
  <1>3. ASSUME NEW r \in Rotators, StartRotation(r) PROVE DirectoryInv'
    <2>1. rotation' \in [Rotators -> Nat \cup {-1}]
      BY <1>1, <1>3 DEF StartRotation
    <2>2. QED
      BY <1>1, <1>3, <2>1, CallKeeps DEF StartRotation, DirectoryInv, NotAhead
  <1>4. ASSUME NEW r \in Rotators, CommitRotation(r) PROVE DirectoryInv'
    <2>1. scimToken' \in Seq(Credential) /\ OneToken'
      BY <1>4, RotationKeeps DEF DirectoryInv
    <2>2. rotation' \in [Rotators -> Nat \cup {-1}]
          /\ UNCHANGED <<day, inviteRow, chain, staff, call>>
      BY <1>1, <1>4 DEF CommitRotation
    <2>3. QED
      BY <2>1, <2>2 DEF DirectoryInv, DirectoryTypeOK, OneInvite, OpenInvites,
        SeatsFit, Holding, ChainTells, Creations, NotAhead
  <1>5. ASSUME NEW c \in DirectoryCalls, CommitInvite(c) PROVE DirectoryInv'
    <2>1. call[c] # Waits /\ call[c] \in DirectoryCall
      BY <1>1, <1>5, CallType DEF CommitInvite
    <2>2. PICK h \in DirectoryCall : h = call[c]
      BY <2>1
    <2>3. h.address \in Addresses /\ h.now \in Nat /\ h.now <= day
      BY <2>1, <2>2 DEF DirectoryCall, DirectoryInv, NotAhead
    <2>4. /\ Admitted(h.address, h.now) /\ InviteAddress(h.address, h.now)
          /\ call' = [call EXCEPT ![c] = Waits]
          /\ UNCHANGED <<day, scimToken, staff, rotation>>
      BY <1>5, <2>2 DEF CommitInvite
    <2>5. /\ inviteRow' \in Seq(InviteRow) /\ chain' \in Seq(Nat)
          /\ OneInvite' /\ SeatsFit' /\ ChainTells'
      BY <2>3, <2>4, InviteKeeps
    <2>6. DirectoryTypeOK' /\ OneToken' /\ NotAhead'
      BY <1>1, <2>4, <2>5 DEF DirectoryInv, DirectoryTypeOK, OneToken, LiveTokens, NotAhead
    <2>7. QED
      BY <2>5, <2>6 DEF DirectoryInv
  <1>6. ASSUME NEW a \in Addresses, AdminInvites(a) PROVE DirectoryInv'
    <2>1. /\ inviteRow' \in Seq(InviteRow) /\ chain' \in Seq(Nat)
          /\ OneInvite' /\ SeatsFit' /\ ChainTells'
      BY <1>1, <1>6, InviteKeeps DEF AdminInvites
    <2>2. DirectoryTypeOK' /\ OneToken' /\ NotAhead'
      BY <1>1, <1>6, <2>1
        DEF AdminInvites, DirectoryInv, DirectoryTypeOK, OneToken, LiveTokens, NotAhead
    <2>3. QED
      BY <2>1, <2>2 DEF DirectoryInv
  <1>7. CASE MemberLeaves
    <2>1. chain' \in Seq(Nat) /\ ChainTells'
      BY <1>1, <1>7, LinkKeeps DEF MemberLeaves, DirectoryInv
    <2>2. Holding(day)' = Holding(day) /\ staff' = staff - 1 /\ staff' \in Nat
      BY <1>1, <1>7 DEF MemberLeaves, Holding
    <2>3. SeatsFit'
      BY <1>1, <1>7, <2>2, HoldingFinite, DirectoryAssumption DEF MemberLeaves, DirectoryInv, SeatsFit
    <2>4. QED
      BY <1>7, <2>1, <2>2, <2>3 DEF MemberLeaves, DirectoryInv, DirectoryTypeOK,
        OneToken, LiveTokens, OneInvite, OpenInvites, NotAhead
  <1>8. CASE DayPasses
    <2>1. day' = day + 1 /\ UNCHANGED <<scimToken, inviteRow, chain, staff, call, rotation>>
      BY <1>8 DEF DayPasses
    <2>2. SeatsFit'
      <3>1. Holding(day)' \subseteq Holding(day)
        <4>1. \A i \in DOMAIN inviteRow : inviteRow[i].expires \in Nat
          BY <1>1, RowType
        <4>2. QED
          BY <1>1, <2>1, <4>1 DEF Holding
      <3>2. IsFiniteSet(Holding(day)) /\ Cardinality(Holding(day)) \in Nat
        BY <1>1, HoldingFinite
      <3>3. /\ Cardinality(Holding(day)') <= Cardinality(Holding(day))
            /\ Cardinality(Holding(day)') \in Nat
        BY <3>1, <3>2, FS_Subset, FS_CardinalityType
      <3>4. QED
        BY <1>1, <2>1, <3>2, <3>3, DirectoryAssumption DEF DirectoryInv, SeatsFit
    <2>3. NotAhead'
      BY <1>1, <2>1 DEF DirectoryInv, NotAhead, DirectoryTypeOK, DirectoryCall
    <2>4. QED
      BY <1>1, <2>1, <2>2, <2>3 DEF DirectoryInv, DirectoryTypeOK,
        OneToken, LiveTokens, OneInvite, OpenInvites, ChainTells, Creations
  <1>9. QED
    BY <1>2, <1>3, <1>4, <1>5, <1>6, <1>7, <1>8, CallsKeep, ResolveKeeps DEF DirectoryNext

LEMMA DirectoryOrder == DirectoryInv => DirectoryIsOrderly
  <1> SUFFICES ASSUME DirectoryInv PROVE DirectoryIsOrderly
    OBVIOUS
  <1>1. Cardinality(LiveTokens) <= 1
    BY AtMostOne DEF DirectoryInv, OneToken
  <1>2. \A a \in Addresses : Cardinality(OpenInvites(a)) <= 1
    BY AtMostOne DEF DirectoryInv, OneInvite
  <1>3. SeatsTaken(day) <= Seats
    BY DEF DirectoryInv, SeatsFit, SeatsTaken, Holding
  <1>4. QED
    BY <1>1, <1>2, <1>3 DEF DirectoryInv, ChainTells, DirectoryIsOrderly

(* However directories, owners and administrators race, and however late   *)
(* their batches come: one credential of the directory works at a time, an *)
(* address has one open invite, seats are not promised twice, and the      *)
(* audit chain tells of every invite once, in order (commitAuditedEE and   *)
(* the triggers and indexes of migrations 0004 and 0016).                  *)
THEOREM DirectoryStaysOrderly == DirectorySpec => []DirectoryIsOrderly
  <1>1. DirectoryInv /\ [DirectoryNext]_directoryVars => DirectoryInv'
    BY DirectoryStep
  <1>2. QED
    BY <1>1, DirectoryStart, DirectoryOrder, PTL DEF DirectorySpec
-------------------------------------------------------------------------------
(* The browser session and the devices: any number of requests, tokens and *)
(* ids, any limits.                                                        *)

Asked == [kind : {"reauth", "signout", "create", "revoke", "missed", "404", "401"},
          id : Nat, token : Nat, device : DeviceIds]

SessionsTypeOK ==
  /\ sessionRow \in [id : Nat, token : Nat, state : {"none", "live", "revoked", "expired"}]
  /\ handed \in Nat /\ workspace \in {"active", "deleting"}
  /\ device \in [DeviceIds -> {"none", "active", "revoked"}]
  /\ entitlement \in [active : Nat, issued : Nat]
  /\ request \in [BrowserRequests -> Asked \cup {Resting}]
  /\ signedOut \in SUBSET Nat

(* A session that was signed out serves nobody, and later ones come after  *)
(* it; a credential is older than those still to be minted.                *)
SignedOutEnded ==
  /\ \A i \in signedOut : i <= sessionRow.id
  /\ sessionRow.id \in signedOut => sessionRow.state # "live"
TokensAreOld ==
  /\ sessionRow.token <= handed
  /\ \A r \in BrowserRequests : request[r] # Resting => request[r].token <= handed

(* A revocation is of a device that was listed; one that missed and finds  *)
(* its credential standing missed because of the device.                   *)
Missed(h) ==
  /\ h.kind \in {"revoke", "missed", "404"} => device[h.device] # "none"
  /\ h.kind = "missed" =>
       device[h.device] # "active" \/ ~(Authenticates(h.token) /\ sessionRow.id = h.id)
  /\ h.kind = "404" => device[h.device] # "active"
MissesAreTrue == \A r \in BrowserRequests : request[r] # Resting => Missed(request[r])

Enrolled == {d \in DeviceIds : device[d] = "active"}
Drawn == {d \in DeviceIds : device[d] # "none"}
DevicesCount ==
  /\ IsFiniteSet(Drawn)
  /\ entitlement.active = Cardinality(Enrolled) /\ entitlement.issued = Cardinality(Drawn)
  /\ entitlement.active <= MaxDevices /\ entitlement.issued <= MaxDeviceIssuances

SessionsInv ==
  SessionsTypeOK /\ SignedOutEnded /\ TokensAreOld /\ MissesAreTrue /\ DevicesCount

LEMMA SessionsStart == SessionsInit => SessionsInv
  <1> SUFFICES ASSUME SessionsInit PROVE SessionsInv
    OBVIOUS
  <1>1. SessionsTypeOK
    BY DEF SessionsInit, SessionsTypeOK, SignedOutRow
  <1>2. SignedOutEnded /\ TokensAreOld /\ MissesAreTrue
    BY DEF SessionsInit, SignedOutRow, SignedOutEnded, TokensAreOld, MissesAreTrue
  <1>3. Enrolled = {} /\ Drawn = {}
    BY DEF SessionsInit, Enrolled, Drawn
  <1>4. DevicesCount
    BY <1>3, FS_EmptySet, BrowserAssumption DEF SessionsInit, DevicesCount
  <1>5. QED
    BY <1>1, <1>2, <1>4 DEF SessionsInv

(* What an action does to the request it serves.                           *)
LEMMA AskedKinds ==
  ASSUME SessionsTypeOK, NEW r \in BrowserRequests, request[r].kind # "none"
  PROVE  request[r] \in Asked /\ request[r] # Resting
  BY DEF SessionsTypeOK, Resting

(* A request is served; and what a step may do to the row, the credentials *)
(* and the devices without making a credential of another request current. *)
Served(r) ==
  \E h \in Asked \cup {Resting} :
    /\ request' = [request EXCEPT ![r] = h]
    /\ h # Resting => h.token <= handed /\ Missed(h)'
NoneRevived ==
  /\ handed' \in Nat /\ handed <= handed' /\ sessionRow'.token <= handed'
  /\ UNCHANGED workspace
  /\ \A d \in DeviceIds : /\ device[d] # "none" => device'[d] # "none"
                          /\ device[d] # "active" /\ device'[d] = "active" => device[d] = "none"
  /\ sessionRow' # sessionRow => sessionRow'.state # "live" \/ sessionRow'.token = handed + 1

LEMMA RestIsServed == \A r \in BrowserRequests : request' = [request EXCEPT ![r] = Resting] => Served(r)
  BY DEF Served

LEMMA RequestsKeep ==
  ASSUME SessionsInv, NEW r \in BrowserRequests, Served(r), NoneRevived
  PROVE  /\ request' \in [BrowserRequests -> Asked \cup {Resting}]
         /\ TokensAreOld' /\ MissesAreTrue'
  <1>0. PICK h \in Asked \cup {Resting} :
          /\ request' = [request EXCEPT ![r] = h]
          /\ h # Resting => h.token <= handed /\ Missed(h)'
    BY DEF Served
  <1>1. /\ request \in [BrowserRequests -> Asked \cup {Resting}] /\ handed \in Nat
        /\ device \in [DeviceIds -> {"none", "active", "revoked"}]
    BY DEF SessionsInv, SessionsTypeOK
  <1>2. \A q \in BrowserRequests : q # r => request'[q] = request[q]
    BY <1>0, <1>1
  <1>3. request'[r] = h
    BY <1>0, <1>1
  <1>4. request' \in [BrowserRequests -> Asked \cup {Resting}]
    BY <1>0, <1>1
  <1>5. ASSUME NEW q \in BrowserRequests, request'[q] # Resting
        PROVE  request'[q].token <= handed' /\ Missed(request[q])'
    <2>1. CASE q = r
      <3>1. h # Resting /\ h.token \in Nat
        BY <1>3, <1>5, <2>1 DEF Asked
      <3>2. QED
        BY <1>0, <1>1, <1>3, <2>1, <3>1 DEF Missed, NoneRevived
    <2>2. CASE q # r
      <3>1. request[q] \in Asked /\ request[q] # Resting /\ request'[q] = request[q]
        BY <1>1, <1>2, <1>5, <2>2
      <3>2. PICK j \in Asked : j = request[q]
        BY <3>1
      <3>3. j.token \in Nat /\ j.token <= handed /\ Missed(j) /\ j.device \in DeviceIds
        BY <3>1, <3>2 DEF SessionsInv, TokensAreOld, MissesAreTrue, Asked
      <3>4. (Authenticates(j.token) /\ sessionRow.id = j.id)'
              => Authenticates(j.token) /\ sessionRow.id = j.id
        <4>1. CASE sessionRow' = sessionRow
          BY <4>1 DEF Authenticates, Usable, NoneRevived
        <4>2. CASE sessionRow' # sessionRow
          BY <1>1, <3>3, <4>2 DEF Authenticates, Usable, NoneRevived
        <4>3. QED
          BY <4>1, <4>2
      <3>5. Missed(j)'
        BY <1>1, <3>3, <3>4 DEF Missed, NoneRevived
      <3>6. QED
        BY <1>1, <3>1, <3>2, <3>3, <3>5 DEF Missed, NoneRevived
    <2>3. QED
      BY <2>1, <2>2
  <1>6. QED
    BY <1>4, <1>5 DEF TokensAreOld, MissesAreTrue, NoneRevived

LEMMA CountsKeep == ASSUME DevicesCount, UNCHANGED <<device, entitlement>> PROVE DevicesCount'
  BY DEF DevicesCount, Enrolled, Drawn

LEMMA StartKeeps ==
  ASSUME SessionsInv, NEW r \in BrowserRequests, StartSession(r)
  PROVE  SessionsInv'
  <1>1. SessionsTypeOK /\ SignedOutEnded /\ DevicesCount /\ MissesAreTrue /\ TokensAreOld
    BY DEF SessionsInv
  <1>2. /\ sessionRow.id \in Nat /\ handed \in Nat
        /\ sessionRow' = [id |-> sessionRow.id + 1, token |-> handed + 1, state |-> "live"]
        /\ handed' = handed + 1
        /\ UNCHANGED <<workspace, device, entitlement, request, signedOut>>
    BY <1>1 DEF StartSession, SessionsTypeOK
  <1>3. /\ request' = [request EXCEPT ![r] = Resting]
        /\ UNCHANGED workspace
    BY <1>1, <1>2 DEF StartSession, SessionsTypeOK
  <1>4. /\ request' \in [BrowserRequests -> Asked \cup {Resting}]
        /\ TokensAreOld' /\ MissesAreTrue'
    <2>1. Served(r)
      BY <1>2, <1>3, RestIsServed
    <2>2. NoneRevived
      BY <1>2, <1>3 DEF NoneRevived
    <2>3. QED
      BY <2>1, <2>2, RequestsKeep
  <1>5. SessionsTypeOK'
    BY <1>1, <1>2, <1>4 DEF SessionsTypeOK
  <1>6. SignedOutEnded'
    <2>1. \A i \in signedOut : i \in Nat /\ i <= sessionRow.id
      BY <1>1 DEF SessionsTypeOK, SignedOutEnded
    <2>2. QED
      BY <1>2, <2>1 DEF SignedOutEnded
  <1>7. QED
    BY <1>1, <1>2, <1>4, <1>5, <1>6, CountsKeep DEF SessionsInv

LEMMA AuthenticateKeeps ==
  ASSUME SessionsInv, NEW r \in BrowserRequests, Authenticate(r)
  PROVE  SessionsInv'
  <1>1. SessionsTypeOK /\ SignedOutEnded /\ DevicesCount /\ TokensAreOld
    BY DEF SessionsInv
  <1>2. UNCHANGED <<sessionRow, handed, workspace, device, entitlement, signedOut>>
    BY DEF Authenticate
  <1>3. PICK kind \in {"reauth", "signout", "create", "revoke"}, d \in DeviceIds :
          /\ kind = "revoke" => device[d] # "none"
          /\ request' = [request EXCEPT ![r] =
               [kind |-> kind, id |-> sessionRow.id, token |-> sessionRow.token, device |-> d]]
    BY DEF Authenticate
  <1>4. [kind |-> kind, id |-> sessionRow.id, token |-> sessionRow.token, device |-> d] \in Asked
    BY <1>1 DEF SessionsTypeOK, Asked
  <1>5. PICK h \in Asked :
          h = [kind |-> kind, id |-> sessionRow.id, token |-> sessionRow.token, device |-> d]
    BY <1>4
  <1>6. /\ request' = [request EXCEPT ![r] = h] /\ h.token = sessionRow.token
        /\ h.kind = kind /\ h.device = d
    BY <1>3, <1>5
  <1>7. h.token <= handed /\ Missed(h)'
    BY <1>1, <1>2, <1>3, <1>6 DEF TokensAreOld, Missed
  <1>8. /\ request' \in [BrowserRequests -> Asked \cup {Resting}]
        /\ TokensAreOld' /\ MissesAreTrue'
    <2>1. handed' \in Nat /\ handed <= handed' /\ sessionRow'.token <= handed'
      BY <1>1, <1>2 DEF SessionsTypeOK, TokensAreOld
    <2>2. Served(r) /\ NoneRevived
      BY <1>2, <1>6, <1>7, <2>1 DEF Served, NoneRevived
    <2>3. QED
      BY <2>2, RequestsKeep
  <1>9. SessionsTypeOK' /\ SignedOutEnded'
    BY <1>1, <1>2, <1>8 DEF SessionsTypeOK, SignedOutEnded
  <1>10. QED
    BY <1>1, <1>2, <1>8, <1>9, CountsKeep DEF SessionsInv

(* A request that was served and rests.                                    *)
LEMMA RotateKeeps ==
  ASSUME SessionsInv, NEW r \in BrowserRequests, Rotate(r)
  PROVE  SessionsInv'
  <1>1. SessionsTypeOK /\ SignedOutEnded /\ DevicesCount /\ TokensAreOld
    BY DEF SessionsInv
  <1>2. /\ sessionRow.id \in Nat /\ handed \in Nat /\ sessionRow.token \in Nat
        /\ sessionRow.token <= handed
        /\ request' = [request EXCEPT ![r] = Resting]
        /\ UNCHANGED <<workspace, device, entitlement, signedOut>>
    BY <1>1 DEF Rotate, Rests, SessionsTypeOK, TokensAreOld
  <1>3. CASE Current(r) /\ sessionRow' = [sessionRow EXCEPT !.token = handed + 1] /\ handed' = handed + 1
    <2>1. /\ sessionRow'.id = sessionRow.id /\ sessionRow'.token = handed + 1
          /\ sessionRow'.state = sessionRow.state
          /\ sessionRow' \in [id : Nat, token : Nat, state : {"none", "live", "revoked", "expired"}]
      BY <1>1, <1>2, <1>3 DEF SessionsTypeOK
    <2>2. /\ request' \in [BrowserRequests -> Asked \cup {Resting}]
          /\ TokensAreOld' /\ MissesAreTrue'
      <3>1. Served(r)
        BY <1>2, <1>3, <2>1, RestIsServed
      <3>2. NoneRevived
        BY <1>2, <1>3, <2>1 DEF NoneRevived
      <3>3. QED
        BY <3>1, <3>2, RequestsKeep
    <2>3. SessionsTypeOK' /\ SignedOutEnded'
      BY <1>1, <1>2, <1>3, <2>1, <2>2 DEF SessionsTypeOK, SignedOutEnded
    <2>4. QED
      BY <1>1, <1>2, <2>2, <2>3, CountsKeep DEF SessionsInv
  <1>4. CASE UNCHANGED <<sessionRow, handed>>
    <2>1. /\ request' \in [BrowserRequests -> Asked \cup {Resting}]
          /\ TokensAreOld' /\ MissesAreTrue'
      <3>1. Served(r)
        BY <1>2, <1>4, RestIsServed
      <3>2. NoneRevived
        BY <1>2, <1>4 DEF NoneRevived
      <3>3. QED
        BY <3>1, <3>2, RequestsKeep
    <2>2. SessionsTypeOK' /\ SignedOutEnded'
      BY <1>1, <1>2, <1>4, <2>1 DEF SessionsTypeOK, SignedOutEnded
    <2>3. QED
      BY <1>1, <1>2, <2>1, <2>2, CountsKeep DEF SessionsInv
  <1>5. QED
    BY <1>3, <1>4 DEF Rotate

LEMMA SignOutKeeps ==
  ASSUME SessionsInv, NEW r \in BrowserRequests, SignOut(r)
  PROVE  SessionsInv'
  <1>1. SessionsTypeOK /\ SignedOutEnded /\ DevicesCount /\ TokensAreOld
    BY DEF SessionsInv
  <1>2. /\ sessionRow.id \in Nat /\ handed \in Nat /\ sessionRow.token \in Nat
        /\ sessionRow.token <= handed /\ signedOut \in SUBSET Nat
        /\ request' = [request EXCEPT ![r] = Resting]
        /\ UNCHANGED <<handed, workspace, device, entitlement>>
    BY <1>1 DEF SignOut, Rests, SessionsTypeOK, TokensAreOld
  <1>3. CASE /\ sessionRow' = [sessionRow EXCEPT !.state = "revoked"]
             /\ signedOut' = signedOut \cup {sessionRow.id}
    <2>1. /\ sessionRow'.id = sessionRow.id /\ sessionRow'.token = sessionRow.token
          /\ sessionRow'.state = "revoked"
          /\ sessionRow' \in [id : Nat, token : Nat, state : {"none", "live", "revoked", "expired"}]
      BY <1>1, <1>2, <1>3 DEF SessionsTypeOK
    <2>2. /\ request' \in [BrowserRequests -> Asked \cup {Resting}]
          /\ TokensAreOld' /\ MissesAreTrue'
      <3>1. Served(r)
        BY <1>2, <2>1, RestIsServed
      <3>2. NoneRevived
        BY <1>2, <2>1 DEF NoneRevived
      <3>3. QED
        BY <3>1, <3>2, RequestsKeep
    <2>3. SessionsTypeOK' /\ SignedOutEnded'
      BY <1>1, <1>2, <1>3, <2>1, <2>2 DEF SessionsTypeOK, SignedOutEnded
    <2>4. QED
      BY <1>1, <1>2, <2>2, <2>3, CountsKeep DEF SessionsInv
  <1>4. CASE UNCHANGED <<sessionRow, signedOut>>
    <2>1. /\ request' \in [BrowserRequests -> Asked \cup {Resting}]
          /\ TokensAreOld' /\ MissesAreTrue'
      <3>1. Served(r)
        BY <1>2, <1>4, RestIsServed
      <3>2. NoneRevived
        BY <1>2, <1>4 DEF NoneRevived
      <3>3. QED
        BY <3>1, <3>2, RequestsKeep
    <2>2. SessionsTypeOK' /\ SignedOutEnded'
      BY <1>1, <1>2, <1>4, <2>1 DEF SessionsTypeOK, SignedOutEnded
    <2>3. QED
      BY <1>1, <1>2, <2>1, <2>2, CountsKeep DEF SessionsInv
  <1>5. QED
    BY <1>3, <1>4 DEF SignOut

(* A device that is enrolled is charged to both counters.                  *)
LEMMA CreateKeeps ==
  ASSUME SessionsInv, NEW r \in BrowserRequests, CreateDevice(r)
  PROVE  SessionsInv'
  <1>1. SessionsTypeOK /\ SignedOutEnded /\ DevicesCount /\ TokensAreOld
    BY DEF SessionsInv
  <1>2. /\ handed \in Nat /\ sessionRow.token \in Nat /\ sessionRow.token <= handed
        /\ request' = [request EXCEPT ![r] = Resting]
        /\ UNCHANGED <<sessionRow, handed, workspace, signedOut>>
    BY <1>1 DEF CreateDevice, Rests, SessionsTypeOK, TokensAreOld
  <1>3. CASE UNCHANGED <<device, entitlement>>
    <2>1. /\ request' \in [BrowserRequests -> Asked \cup {Resting}]
          /\ TokensAreOld' /\ MissesAreTrue'
      <3>1. Served(r)
        BY <1>2, <1>3, RestIsServed
      <3>2. NoneRevived
        BY <1>2, <1>3 DEF NoneRevived
      <3>3. QED
        BY <3>1, <3>2, RequestsKeep
    <2>2. QED
      BY <1>1, <1>2, <1>3, <2>1, CountsKeep DEF SessionsInv, SessionsTypeOK, SignedOutEnded
  <1>4. CASE /\ Chargeable /\ device[request[r].device] = "none"
             /\ device' = [device EXCEPT ![request[r].device] = "active"]
             /\ entitlement' = [active |-> entitlement.active + 1, issued |-> entitlement.issued + 1]
    <2>1. request[r].device \in DeviceIds
      BY <1>1, AskedKinds DEF CreateDevice, Asked
    <2>2. PICK d \in DeviceIds : d = request[r].device
      BY <2>1
    <2>3. /\ device[d] = "none" /\ device' = [device EXCEPT ![d] = "active"]
          /\ device \in [DeviceIds -> {"none", "active", "revoked"}]
          /\ entitlement.active \in Nat /\ entitlement.issued \in Nat
      BY <1>1, <1>4, <2>2 DEF SessionsTypeOK
    <2>4. /\ request' \in [BrowserRequests -> Asked \cup {Resting}]
          /\ TokensAreOld' /\ MissesAreTrue'
      <3>1. Served(r)
        BY <1>2, <2>3, RestIsServed
      <3>2. NoneRevived
        BY <1>2, <2>3 DEF NoneRevived
      <3>3. QED
        BY <3>1, <3>2, RequestsKeep
    <2>5. DevicesCount'
      <3>1. /\ Enrolled' = Enrolled \cup {d} /\ d \notin Enrolled
            /\ Drawn' = Drawn \cup {d} /\ d \notin Drawn /\ Enrolled \subseteq Drawn
        BY <2>3 DEF Enrolled, Drawn
      <3>2. IsFiniteSet(Drawn) /\ IsFiniteSet(Enrolled)
        BY <1>1, <3>1, FS_Subset DEF DevicesCount
      <3>3. /\ IsFiniteSet(Drawn') /\ Cardinality(Drawn') = Cardinality(Drawn) + 1
            /\ Cardinality(Enrolled') = Cardinality(Enrolled) + 1
        BY <3>1, <3>2, FS_AddElement
      <3>4. /\ entitlement'.active = entitlement.active + 1
            /\ entitlement'.issued = entitlement.issued + 1
            /\ entitlement.active < MaxDevices /\ entitlement.issued < MaxDeviceIssuances
        BY <1>4 DEF Chargeable
      <3>5. QED
        BY <1>1, <2>3, <3>3, <3>4, BrowserAssumption DEF DevicesCount
    <2>6. SessionsTypeOK' /\ SignedOutEnded'
      BY <1>1, <1>2, <1>4, <2>3, <2>4 DEF SessionsTypeOK, SignedOutEnded
    <2>7. QED
      BY <2>4, <2>5, <2>6 DEF SessionsInv
  <1>5. QED
    BY <1>3, <1>4 DEF CreateDevice

(* A device that is revoked gives its slot back, and is drawn for ever.    *)
LEMMA RevokeKeeps ==
  ASSUME SessionsInv, NEW r \in BrowserRequests, RevokeDevice(r)
  PROVE  SessionsInv'
  <1>1. SessionsTypeOK /\ SignedOutEnded /\ DevicesCount /\ TokensAreOld /\ MissesAreTrue
    BY DEF SessionsInv
  <1>2. /\ handed \in Nat /\ sessionRow.token \in Nat /\ sessionRow.token <= handed
        /\ UNCHANGED <<sessionRow, handed, workspace, signedOut>>
    BY <1>1 DEF RevokeDevice, SessionsTypeOK, TokensAreOld
  <1>3. request[r] \in Asked /\ request[r] # Resting
    BY <1>1, AskedKinds DEF RevokeDevice
  <1>4. PICK j \in Asked : j = request[r]
    BY <1>3
  <1>5. /\ j.kind = "revoke" /\ j.device \in DeviceIds /\ j.token \in Nat /\ j.token <= handed
        /\ Missed(j)
    BY <1>1, <1>3, <1>4 DEF RevokeDevice, Asked, TokensAreOld, MissesAreTrue
  <1>6. CASE /\ Current(r) /\ device[j.device] = "active"
             /\ device' = [device EXCEPT ![j.device] = "revoked"]
             /\ Release /\ Rests(r)
    <2>1. PICK d \in DeviceIds : d = j.device
      BY <1>5
    <2>2. /\ device[d] = "active" /\ device' = [device EXCEPT ![d] = "revoked"]
          /\ device \in [DeviceIds -> {"none", "active", "revoked"}]
          /\ entitlement \in [active : Nat, issued : Nat]
          /\ entitlement.active \in Nat /\ entitlement.issued \in Nat
          /\ request' = [request EXCEPT ![r] = Resting]
      BY <1>1, <1>6, <2>1 DEF SessionsTypeOK, Rests
    <2>3. /\ request' \in [BrowserRequests -> Asked \cup {Resting}]
          /\ TokensAreOld' /\ MissesAreTrue'
      <3>1. Served(r)
        BY <1>2, <2>2, RestIsServed
      <3>2. NoneRevived
        BY <1>2, <2>2 DEF NoneRevived
      <3>3. QED
        BY <3>1, <3>2, RequestsKeep
    <2>4. /\ Enrolled' = Enrolled \ {d} /\ d \in Enrolled
          /\ Drawn' = Drawn /\ Enrolled \subseteq Drawn
      BY <2>2 DEF Enrolled, Drawn
    <2>5. IsFiniteSet(Drawn) /\ IsFiniteSet(Enrolled)
      BY <1>1, <2>4, FS_Subset DEF DevicesCount
    <2>6. /\ Cardinality(Enrolled') = Cardinality(Enrolled) - 1 /\ Cardinality(Enrolled') \in Nat
          /\ Cardinality(Enrolled) \in Nat
      BY <2>4, <2>5, FS_RemoveElement, FS_CardinalityType
    <2>7. /\ entitlement'.active = entitlement.active - 1 /\ entitlement'.active \in Nat
          /\ entitlement'.issued = entitlement.issued
          /\ entitlement' \in [active : Nat, issued : Nat]
      <3>1. entitlement.active > 0
        BY <1>1, <2>2, <2>6 DEF DevicesCount
      <3>2. entitlement' = [entitlement EXCEPT !.active = entitlement.active - 1]
        BY <1>6, <2>2, <3>1 DEF Release
      <3>3. QED
        BY <2>2, <3>1, <3>2
    <2>8. DevicesCount'
      BY <1>1, <2>2, <2>4, <2>5, <2>6, <2>7, BrowserAssumption DEF DevicesCount
    <2>9. SessionsTypeOK' /\ SignedOutEnded'
      BY <1>1, <1>2, <2>2, <2>3, <2>7 DEF SessionsTypeOK, SignedOutEnded
    <2>10. QED
      BY <2>3, <2>8, <2>9 DEF SessionsInv
  <1>7. CASE /\ ~(Current(r) /\ device[j.device] = "active")
             /\ Becomes(r, "missed") /\ UNCHANGED <<device, entitlement>>
    <2>1. [j EXCEPT !.kind = "missed"] \in Asked
      BY DEF Asked
    <2>2. PICK h \in Asked : h = [j EXCEPT !.kind = "missed"]
      BY <2>1
    <2>3. /\ request' = [request EXCEPT ![r] = h] /\ h.kind = "missed"
          /\ h.token = j.token /\ h.device = j.device /\ h.id = j.id
      BY <1>4, <1>7, <2>2 DEF Becomes, Asked
    <2>4. Missed(h)'
      <3>1. device[j.device] # "active" \/ ~(Authenticates(j.token) /\ sessionRow.id = j.id)
        BY <1>4, <1>7 DEF Current
      <3>2. (Authenticates(j.token) /\ sessionRow.id = j.id)'
              <=> Authenticates(j.token) /\ sessionRow.id = j.id
        BY <1>2 DEF Authenticates, Usable
      <3>3. QED
        BY <1>5, <1>7, <2>3, <3>1, <3>2 DEF Missed
    <2>5. /\ request' \in [BrowserRequests -> Asked \cup {Resting}]
          /\ TokensAreOld' /\ MissesAreTrue'
      <3>1. Served(r)
        BY <1>5, <2>3, <2>4 DEF Served
      <3>2. NoneRevived
        BY <1>2, <1>7 DEF NoneRevived
      <3>3. QED
        BY <3>1, <3>2, RequestsKeep
    <2>6. QED
      BY <1>1, <1>2, <1>7, <2>5, CountsKeep DEF SessionsInv, SessionsTypeOK, SignedOutEnded
  <1>8. QED
    BY <1>4, <1>6, <1>7 DEF RevokeDevice

(* The second look of a revocation, and the end of its answer.             *)
LEMMA AnswerKeeps ==
  ASSUME SessionsInv, NEW r \in BrowserRequests, Recheck(r) \/ EndReply(r)
  PROVE  SessionsInv'
  <1>1. SessionsTypeOK /\ SignedOutEnded /\ DevicesCount /\ TokensAreOld /\ MissesAreTrue
    BY DEF SessionsInv
  <1>2. /\ handed \in Nat /\ sessionRow.token \in Nat /\ sessionRow.token <= handed
        /\ UNCHANGED <<sessionRow, handed, workspace, device, entitlement, signedOut>>
    BY <1>1 DEF Recheck, EndReply, SessionsTypeOK, TokensAreOld
  <1>3. request[r] \in Asked /\ request[r] # Resting
    BY <1>1, AskedKinds DEF Recheck, EndReply
  <1>4. Served(r)
    <2>1. CASE EndReply(r)
      BY <2>1, RestIsServed DEF EndReply, Rests
    <2>2. CASE Recheck(r)
      <3>1. PICK j \in Asked : j = request[r]
        BY <1>3
      <3>2. j.kind = "missed" /\ j.token <= handed /\ Missed(j) /\ j.device \in DeviceIds
        BY <1>1, <1>3, <2>2, <3>1 DEF Recheck, TokensAreOld, MissesAreTrue, Asked
      <3>3. PICK k \in {"404", "401"} :
              /\ request' = [request EXCEPT ![r] = [j EXCEPT !.kind = k]]
              /\ k = "404" => Authenticates(j.token) /\ sessionRow.id = j.id
        BY <2>2, <3>1 DEF Recheck, Becomes, Current
      <3>4. [j EXCEPT !.kind = k] \in Asked
        BY DEF Asked
      <3>5. PICK h \in Asked : h = [j EXCEPT !.kind = k]
        BY <3>4
      <3>6. h.kind = k /\ h.token = j.token /\ h.device = j.device
        BY <3>5 DEF Asked
      <3>7. device' = device /\ (k = "404" => device[j.device] # "active")
        BY <1>2, <3>2, <3>3 DEF Missed
      <3>8. Missed(h)'
        BY <3>2, <3>6, <3>7 DEF Missed
      <3>9. QED
        BY <3>2, <3>3, <3>5, <3>6, <3>8 DEF Served
    <2>3. QED
      BY <2>1, <2>2
  <1>5. /\ request' \in [BrowserRequests -> Asked \cup {Resting}]
        /\ TokensAreOld' /\ MissesAreTrue'
    BY <1>2, <1>4, RequestsKeep DEF NoneRevived
  <1>6. QED
    BY <1>1, <1>2, <1>5, CountsKeep DEF SessionsInv, SessionsTypeOK, SignedOutEnded

(* Time and account deletion only take a session away.                     *)
LEMMA EndKeeps ==
  ASSUME SessionsInv, ExpireSession \/ LockWorkspace
  PROVE  SessionsInv'
  <1>1. SessionsTypeOK /\ SignedOutEnded /\ DevicesCount /\ TokensAreOld /\ MissesAreTrue
    BY DEF SessionsInv
  <1>2. /\ UNCHANGED <<handed, device, entitlement, request, signedOut>>
        /\ sessionRow'.id = sessionRow.id /\ sessionRow'.token = sessionRow.token
        /\ sessionRow'.state = sessionRow.state \/ sessionRow'.state = "expired"
        /\ sessionRow' \in [id : Nat, token : Nat, state : {"none", "live", "revoked", "expired"}]
        /\ workspace' = workspace \/ workspace' = "deleting"
    BY <1>1 DEF ExpireSession, LockWorkspace, SessionsTypeOK
  <1>3. \A r \in BrowserRequests : Missed(request[r]) => Missed(request[r])'
    BY <1>2 DEF Missed, Authenticates, Usable
  <1>4. SessionsTypeOK'
    BY <1>1, <1>2 DEF SessionsTypeOK
  <1>5. SignedOutEnded' /\ TokensAreOld' /\ MissesAreTrue'
    BY <1>1, <1>2, <1>3 DEF SignedOutEnded, TokensAreOld, MissesAreTrue
  <1>6. QED
    BY <1>1, <1>2, <1>4, <1>5, CountsKeep DEF SessionsInv

LEMMA SessionsStep ==
  ASSUME SessionsInv, [SessionsNext]_browserVars
  PROVE  SessionsInv'
  <1>1. CASE UNCHANGED browserVars
    <2>1. SessionsTypeOK' /\ SignedOutEnded' /\ TokensAreOld' /\ DevicesCount'
      BY <1>1, CountsKeep DEF browserVars, SessionsInv, SessionsTypeOK, SignedOutEnded, TokensAreOld
    <2>2. MissesAreTrue'
      BY <1>1 DEF browserVars, SessionsInv, MissesAreTrue, Missed, Authenticates, Usable
    <2>3. QED
      BY <2>1, <2>2 DEF SessionsInv
  <1>2. QED
    BY <1>1, StartKeeps, AuthenticateKeeps, RotateKeeps, SignOutKeeps, CreateKeeps, RevokeKeeps,
       AnswerKeeps, EndKeeps DEF SessionsNext

(* After a sign-out nothing that authenticated before it finds the session *)
(* usable.                                                                 *)
LEMMA SignedOutServesNobody ==
  ASSUME SessionsInv, [SessionsNext]_browserVars, sessionRow.id \in signedOut
  PROVE  /\ UNCHANGED <<device, entitlement>>
         /\ sessionRow' = sessionRow \/ sessionRow'.id \notin signedOut
  <1>1. ~Usable /\ \A r \in BrowserRequests : ~Current(r)
    BY DEF SessionsInv, SignedOutEnded, Usable, Current, Authenticates
  <1>2. ASSUME NEW r \in BrowserRequests, StartSession(r) PROVE sessionRow'.id \notin signedOut
    <2>1. /\ sessionRow'.id = sessionRow.id + 1 /\ sessionRow.id \in Nat
          /\ \A i \in signedOut : i \in Nat /\ i <= sessionRow.id
      BY <1>2 DEF StartSession, SessionsInv, SessionsTypeOK, SignedOutEnded
    <2>2. QED
      BY <2>1
  <1>3. ASSUME NEW r \in BrowserRequests, StartSession(r) \/ Authenticate(r) \/ Rotate(r)
                 \/ SignOut(r) \/ CreateDevice(r) \/ RevokeDevice(r) \/ Recheck(r) \/ EndReply(r)
        PROVE  /\ UNCHANGED <<device, entitlement>>
               /\ sessionRow' = sessionRow \/ sessionRow'.id \notin signedOut
    BY <1>1, <1>2, <1>3 DEF StartSession, Authenticate, Rotate, SignOut, CreateDevice,
       RevokeDevice, Recheck, EndReply
  <1>4. CASE ExpireSession \/ LockWorkspace
    BY <1>4 DEF ExpireSession, LockWorkspace, SessionsInv, SignedOutEnded
  <1>5. CASE UNCHANGED browserVars
    BY <1>5 DEF browserVars
  <1>6. QED
    BY <1>3, <1>4, <1>5 DEF SessionsNext

(* Once a sign-out was answered, no request that authenticated before it   *)
(* mints a credential of that session or touches a device; the entitlement *)
(* counts its devices whatever interleaves; and a 404 is about a device    *)
(* that is not enrolled, never about a credential that lost a race         *)
(* (rotateBrowserSession, signOut, revokeDevice and the triggers of        *)
(* migration 0003).                                                        *)
THEOREM SessionsEndForGood == SessionsSpec => SessionsAreSound
  <1>1. SessionsInit => SessionsInv
    BY SessionsStart
  <1>2. SessionsInv /\ [SessionsNext]_browserVars => SessionsInv'
    BY SessionsStep
  <1>3. SessionsInv => DevicesAreCounted
    <2> SUFFICES ASSUME SessionsInv PROVE DevicesAreCounted
      OBVIOUS
    <2>1. ASSUME NEW r \in BrowserRequests, request[r].kind = "404"
          PROVE  device[request[r].device] # "active"
      <3>1. request[r] # Resting
        BY <2>1, AskedKinds DEF SessionsInv
      <3>2. QED
        BY <2>1, <3>1 DEF SessionsInv, MissesAreTrue, Missed
    <2>2. QED
      BY <2>1 DEF SessionsInv, DevicesCount, Enrolled, Drawn, DevicesAreCounted
  <1>4. SessionsInv /\ [SessionsNext]_browserVars =>
          [sessionRow.id \in signedOut =>
             /\ UNCHANGED <<device, entitlement>>
             /\ sessionRow' = sessionRow \/ sessionRow'.id \notin signedOut]_browserVars
    BY SignedOutServesNobody
  <1>5. QED
    BY <1>1, <1>2, <1>3, <1>4, PTL DEF SessionsSpec, SessionsAreSound, SignOutIsFinal
-------------------------------------------------------------------------------
(* One part of the service moves at a time, and moves as it would alone.   *)

LEMMA PartsMove ==
  ASSUME [DataNext]_<<part, dataVars>>
  PROVE  /\ [AccountsNext]_accountVars /\ [SessionsNext]_browserVars
         /\ [DirectoryNext]_directoryVars /\ [AttachmentsNext]_attachmentVars
         /\ [DashboardsNext]_dashVars /\ [ColdTierNext]_coldVars /\ [ToolsNext]_toolVars
         /\ [ObservationsNext]_obsVars /\ [PagesNext]_pageVars
         /\ [AnalyticsNext]_analyticsVars /\ [OtlpNext]_otlpVars
         /\ [MaskingNext]_maskingVars /\ [DecimalsNext]_decimalVars
  <1>1. CASE UNCHANGED <<part, dataVars>>
    BY <1>1 DEF dataVars
  <1>2. CASE DataNext
    <2>1. /\ part = "accounts" => AccountsNext
          /\ part = "sessions" => SessionsNext
          /\ part = "directory" => DirectoryNext
          /\ part = "attachments" => AttachmentsNext
          /\ part = "dashboards" => DashboardsNext
          /\ part \in {"compaction", "exports"} => ColdTierNext
          /\ part = "tools" => ToolsNext
          /\ part = "observations" => ObservationsNext
          /\ part = "pages" => PagesNext
          /\ part = "analytics" => AnalyticsNext
          /\ part = "otlp" => OtlpNext
          /\ part = "masking" => MaskingNext
          /\ part = "decimals" => DecimalsNext
      BY <1>2 DEF DataNext, ObservationPart, CompactionPart, ExportPart, AttachmentPart,
         DashboardPart, PagePart, AccountPart, SessionPart, DirectoryPart, MaskingPart,
         DecimalsPart, AnalyticsPart, OtlpPart, ToolsPart, ColdTierNext
    <2>2. /\ part # "accounts" => UNCHANGED accountVars
          /\ part # "sessions" => UNCHANGED browserVars
          /\ part # "directory" => UNCHANGED directoryVars
          /\ part # "attachments" => UNCHANGED attachmentVars
          /\ part # "dashboards" => UNCHANGED dashVars
          /\ part \notin {"compaction", "exports"} => UNCHANGED coldVars
          /\ part # "tools" => UNCHANGED toolVars
          /\ part # "observations" => UNCHANGED obsVars
          /\ part # "pages" => UNCHANGED pageVars
          /\ part # "analytics" => UNCHANGED analyticsVars
          /\ part # "otlp" => UNCHANGED otlpVars
          /\ part # "masking" => UNCHANGED maskingVars
          /\ part # "decimals" => UNCHANGED decimalVars
      BY <1>2 DEF DataNext, Still
    <2>3. QED
      BY <2>1, <2>2
  <1>3. QED
    BY <1>1, <1>2

(* The composition does to an account, a session and a directory only what *)
(* their own specifications allow: their theorems hold of it.              *)
THEOREM PartsKeepTheirSpecs == DataSpec => AccountsSpec /\ SessionsSpec /\ DirectorySpec
  <1>1. DataInit => AccountsInit /\ SessionsInit /\ DirectoryInit
    BY DEF DataInit
  <1>2. [DataNext]_<<part, dataVars>> =>
          [AccountsNext]_accountVars /\ [SessionsNext]_browserVars /\ [DirectoryNext]_directoryVars
    BY PartsMove
  <1>3. QED
    BY <1>1, <1>2, PTL DEF DataSpec, AccountsSpec, SessionsSpec, DirectorySpec

-------------------------------------------------------------------------------
(* Uploads of one content                                                  *)

AttachmentRow == [kind : Kinds, name : FileNames, at : Nat]
UploadSteps == {"start", "put", "commit", "200", "500"}

(* An upload that is about to commit has seen its object stored, and one   *)
(* that was answered is told what the event says.                          *)
AttachmentsInv ==
  /\ attachment \in AttachmentRow \cup {NoAttachment}
  /\ recorded # NoAttachment => attachment # NoAttachment
  /\ attachment # NoAttachment => recorded = Evidence(attachment) /\ stored
  /\ stored \in BOOLEAN /\ second \in Nat
  /\ upload \in [Uploads -> [at : UploadSteps, row : AttachmentRow]]
  /\ \A u \in Uploads :
       /\ upload[u].at = "commit" => stored
       /\ upload[u].at = "200" => recorded = Evidence(upload[u].row)
  /\ 410 \notin downloads

LEMMA EvidenceIsSome ==
  ASSUME NEW row \in AttachmentRow
  PROVE  row # NoAttachment /\ Evidence(row) # NoAttachment /\ Evidence(row).kind = row.kind
  BY AttachmentAssumption DEF AttachmentRow, NoAttachment, Evidence

(* The step of one upload leaves the answers of the others true.           *)
LEMMA UploadKeeps ==
  ASSUME AttachmentsInv, NEW u \in Uploads, NEW h \in [at : UploadSteps, row : AttachmentRow],
         upload' = [upload EXCEPT ![u] = h],
         UNCHANGED <<downloads, second>>,
         attachment' \in AttachmentRow \cup {NoAttachment},
         recorded' # NoAttachment => attachment' # NoAttachment,
         attachment' # NoAttachment => recorded' = Evidence(attachment') /\ stored',
         stored' \in BOOLEAN, stored => stored',
         recorded # NoAttachment => recorded' = recorded,
         h.at = "commit" => stored',
         h.at = "200" => recorded' = Evidence(h.row)
  PROVE  AttachmentsInv'
  <1>1. upload \in [Uploads -> [at : UploadSteps, row : AttachmentRow]]
    BY DEF AttachmentsInv
  <1>2. /\ upload' \in [Uploads -> [at : UploadSteps, row : AttachmentRow]]
        /\ upload'[u] = h /\ \A v \in Uploads \ {u} : upload'[v] = upload[v]
    BY <1>1
  <1>3. ASSUME NEW v \in Uploads
        PROVE  /\ upload'[v].at = "commit" => stored'
               /\ upload'[v].at = "200" => recorded' = Evidence(upload'[v].row)
    <2>1. CASE v = u
      BY <1>2, <2>1
    <2>2. CASE v # u
      <3>1. upload'[v] = upload[v] /\ upload[v].row \in AttachmentRow
        BY <1>1, <1>2, <2>2
      <3>2. upload[v].at = "200" => recorded = Evidence(upload[v].row) /\ recorded # NoAttachment
        BY <3>1, EvidenceIsSome DEF AttachmentsInv
      <3>3. QED
        BY <3>1, <3>2 DEF AttachmentsInv
    <2>3. QED
      BY <2>1, <2>2
  <1>4. QED
    BY <1>2, <1>3 DEF AttachmentsInv, Evidence

(* Row and event are written together, or neither.                         *)
LEMMA InsertIsWhole ==
  ASSUME AttachmentsInv, NEW row \in AttachmentRow, ~ConflictsWith(row), InsertBoth(row), stored
  PROVE  /\ attachment' \in AttachmentRow /\ attachment' # NoAttachment
         /\ recorded' = Evidence(attachment') /\ recorded' = Evidence(row)
         /\ recorded # NoAttachment => recorded' = recorded
  <1>1. row # NoAttachment /\ Evidence(row) # NoAttachment
    BY EvidenceIsSome
  <1>2. CASE attachment = NoAttachment
    <2>1. recorded = NoAttachment
      BY <1>2 DEF AttachmentsInv
    <2>2. attachment' = row /\ recorded' = Evidence(row)
      BY <1>2, <2>1 DEF InsertBoth
    <2>3. QED
      BY <1>1, <2>1, <2>2 DEF Evidence
  <1>3. CASE attachment # NoAttachment
    <2>1. attachment \in AttachmentRow /\ recorded = Evidence(attachment)
      BY <1>3 DEF AttachmentsInv
    <2>2. recorded # NoAttachment
      BY <2>1, EvidenceIsSome
    <2>3. attachment' = attachment /\ recorded' = recorded /\ recorded = Evidence(row)
      BY <1>3, <2>2 DEF InsertBoth, ConflictsWith
    <2>4. QED
      BY <1>3, <2>1, <2>3 DEF Evidence
  <1>4. QED
    BY <1>2, <1>3

LEMMA AttachmentsStep ==
  ASSUME AttachmentsInv, [AttachmentsNext]_attachmentVars
  PROVE  AttachmentsInv'
  <1>1. CASE UNCHANGED attachmentVars
    BY <1>1 DEF attachmentVars, AttachmentsInv, Evidence
  <1>2. CASE AttachmentTick
    BY <1>2 DEF AttachmentTick, AttachmentsInv, Evidence
  <1>3. CASE DownloadAttachment
    <2>1. attachment # NoAttachment => stored
      BY DEF AttachmentsInv
    <2>2. 410 \notin downloads'
      BY <1>3, <2>1 DEF DownloadAttachment, AttachmentsInv
    <2>3. QED
      BY <1>3, <2>2 DEF DownloadAttachment, AttachmentsInv, Evidence
  <1>4. ASSUME NEW u \in Uploads,
               ReadByHash(u) \/ PutBody(u) \/ CommitAttachment(u) \/ UploadFails(u) \/ RetryUpload(u)
        PROVE  AttachmentsInv'
    <2> DEFINE Row == [at : UploadSteps, row : AttachmentRow]
    <2>1. PICK j \in Row : j = upload[u]
      BY DEF AttachmentsInv
    <2>2. /\ j.at \in UploadSteps /\ j.row \in AttachmentRow
          /\ j.at = "commit" => stored
          /\ second \in Nat
      BY <2>1 DEF AttachmentsInv
    <2>3. \A s \in UploadSteps : [j EXCEPT !.at = s] \in Row /\ [j EXCEPT !.at = s].at = s
                                 /\ [j EXCEPT !.at = s].row = j.row
      OBVIOUS
    <2>4. CASE ReadByHash(u)
      <3>1. CASE attachment # NoAttachment
        <4>1. [at |-> "commit", row |-> attachment] \in Row
          BY <3>1 DEF AttachmentsInv, UploadSteps
        <4>2. PICK h \in Row : h = [at |-> "commit", row |-> attachment]
          BY <4>1
        <4>3. upload' = [upload EXCEPT ![u] = h] /\ h.at = "commit" /\ stored
          BY <2>4, <3>1, <4>2 DEF ReadByHash, UploadGoto, AttachmentsInv
        <4>4. QED
          BY <2>4, <4>3, UploadKeeps DEF ReadByHash, AttachmentsInv
      <3>2. CASE attachment = NoAttachment
        <4>1. PICK h \in Row : h = [j EXCEPT !.at = "put"]
          BY <2>3 DEF UploadSteps
        <4>2. upload' = [upload EXCEPT ![u] = h] /\ h.at = "put"
          BY <2>1, <2>4, <3>2, <4>1 DEF ReadByHash, UploadGoto
        <4>3. QED
          BY <2>4, <4>2, UploadKeeps DEF ReadByHash, AttachmentsInv
      <3>3. QED
        BY <3>1, <3>2
    <2>5. CASE PutBody(u)
      <3>1. PICK row \in AttachmentRow : row = [j.row EXCEPT !.at = second]
        BY <2>2 DEF AttachmentRow
      <3>2. [j EXCEPT !.at = "commit", !.row = row] \in Row
        BY <2>2 DEF UploadSteps
      <3>3. PICK h \in Row : h = [j EXCEPT !.at = "commit", !.row = row]
        BY <3>2
      <3>4. upload' = [upload EXCEPT ![u] = h] /\ h.at = "commit"
        BY <2>1, <2>5, <3>1, <3>3 DEF PutBody, UploadGoto
      <3>5. stored' = TRUE /\ UNCHANGED <<attachment, recorded, downloads, second>>
        BY <2>5 DEF PutBody
      <3>6. QED
        BY <3>4, <3>5, UploadKeeps DEF AttachmentsInv
    <2>6. CASE CommitAttachment(u)
      <3>1. stored /\ UNCHANGED <<stored, downloads, second>>
        BY <2>1, <2>2, <2>6 DEF CommitAttachment
      <3>2. CASE ConflictsWith(j.row)
        <4>1. PICK h \in Row : h = [j EXCEPT !.at = "500"]
          BY <2>3 DEF UploadSteps
        <4>2. upload' = [upload EXCEPT ![u] = h] /\ h.at = "500" /\ UNCHANGED <<attachment, recorded>>
          BY <2>1, <2>6, <3>2, <4>1 DEF CommitAttachment, UploadGoto
        <4>3. QED
          BY <3>1, <4>2, UploadKeeps DEF AttachmentsInv
      <3>3. CASE ~ConflictsWith(j.row)
        <4>1. PICK h \in Row : h = [j EXCEPT !.at = "200"]
          BY <2>3 DEF UploadSteps
        <4>2. upload' = [upload EXCEPT ![u] = h] /\ h.at = "200" /\ h.row = j.row /\ InsertBoth(j.row)
          BY <2>1, <2>6, <3>3, <4>1 DEF CommitAttachment, UploadGoto
        <4>3. /\ attachment' \in AttachmentRow /\ attachment' # NoAttachment
              /\ recorded' = Evidence(attachment') /\ recorded' = Evidence(h.row)
              /\ recorded # NoAttachment => recorded' = recorded
          BY <2>2, <3>1, <3>3, <4>2, InsertIsWhole
        <4>4. QED
          BY <3>1, <4>2, <4>3, UploadKeeps DEF AttachmentsInv
      <3>4. QED
        BY <3>2, <3>3
    <2>7. CASE UploadFails(u)
      <3>1. PICK h \in Row : h = [j EXCEPT !.at = "500"]
        BY <2>3 DEF UploadSteps
      <3>2. upload' = [upload EXCEPT ![u] = h] /\ h.at = "500" /\ UNCHANGED <<downloads, second>>
        BY <2>1, <2>7, <3>1 DEF UploadFails, UploadGoto
      <3>3. CASE UNCHANGED <<attachment, recorded>> /\ (stored' = TRUE \/ stored' = stored)
        BY <3>2, <3>3, UploadKeeps DEF AttachmentsInv
      <3>4. CASE j.at = "commit" /\ ~ConflictsWith(j.row) /\ InsertBoth(j.row) /\ UNCHANGED stored
        <4>1. /\ attachment' \in AttachmentRow /\ attachment' # NoAttachment
              /\ recorded' = Evidence(attachment')
              /\ recorded # NoAttachment => recorded' = recorded
          BY <2>2, <3>4, InsertIsWhole
        <4>2. stored /\ stored'
          BY <2>2, <3>4
        <4>3. QED
          BY <3>2, <3>4, <4>1, <4>2, UploadKeeps DEF AttachmentsInv
      <3>5. QED
        BY <2>1, <2>7, <3>3, <3>4 DEF UploadFails
    <2>8. CASE RetryUpload(u)
      <3>1. PICK h \in Row : h = [j EXCEPT !.at = "start"]
        BY <2>3 DEF UploadSteps
      <3>2. upload' = [upload EXCEPT ![u] = h] /\ h.at = "start"
            /\ UNCHANGED <<attachment, recorded, stored, downloads, second>>
        BY <2>1, <2>8, <3>1 DEF RetryUpload, UploadGoto
      <3>3. QED
        BY <3>2, UploadKeeps DEF AttachmentsInv
    <2>9. QED
      BY <1>4, <2>4, <2>5, <2>6, <2>7, <2>8
  <1>5. QED
    BY <1>1, <1>2, <1>3, <1>4 DEF AttachmentsNext

LEMMA AttachmentsStart == AttachmentsInit => AttachmentsInv
  <1> SUFFICES ASSUME AttachmentsInit PROVE AttachmentsInv
    OBVIOUS
  <1>1. ASSUME NEW u \in Uploads
        PROVE  upload[u] \in [at : UploadSteps, row : AttachmentRow] /\ upload[u].at = "start"
    BY DEF AttachmentsInit, UploadSteps, AttachmentRow
  <1>2. upload \in [Uploads -> [at : UploadSteps, row : AttachmentRow]]
    BY <1>1 DEF AttachmentsInit
  <1>3. QED
    BY <1>1, <1>2 DEF AttachmentsInit, AttachmentsInv

LEMMA AttachmentsEvident == AttachmentsInv => AttachmentsAreEvidence
  <1> SUFFICES ASSUME AttachmentsInv PROVE AttachmentsAreEvidence
    OBVIOUS
  <1>1. attachment # NoAttachment => recorded # NoAttachment
    <2>1. attachment # NoAttachment => attachment \in AttachmentRow /\ recorded = Evidence(attachment)
      BY DEF AttachmentsInv
    <2>2. QED
      BY <2>1, EvidenceIsSome
  <1>2. \A row \in Answers : Evidence(row) = recorded
    BY DEF Answers, AttachmentsInv
  <1>3. QED
    BY <1>1, <1>2 DEF AttachmentsInv, AttachmentsAreEvidence

-------------------------------------------------------------------------------
(* Versions of a dashboard and its links                                   *)

WriterSteps == {"start", "insert", "confirm", "201", "409", "500"}
WriterRow == [at : WriterSteps, next : Nat]
ShareRow == {NoShare} \cup [created : Nat \ {Never}, revoked : Nat]
RevokeJob == [at : {"update", "200", "404", "500"}, now : Nat \ {Never}, which : SUBSET Links]
RevokerRow == [at : {"start"}] \cup RevokeJob

DashboardsTypeOK ==
  /\ versions \in Seq(Writers) /\ writer \in [Writers -> WriterRow]
  /\ share \in [Links -> ShareRow] /\ revoker \in [Revokers -> RevokerRow]
  /\ promised \subseteq Links /\ dashClock \in Nat \ {Never} /\ dashFaults \in Nat

(* What a writer was told, or is about to claim, is about a number that    *)
(* exists.                                                                 *)
ToldTruly(w) ==
  /\ writer[w].at \in {"insert", "confirm", "409", "201"} => writer[w].next >= 1
  /\ writer[w].at = "409" => writer[w].next <= Len(versions)
  /\ writer[w].at = "201" => writer[w].next <= Len(versions) /\ versions[writer[w].next] = w

(* While nothing failed, only an edit answered 201 is among the versions,  *)
(* and once.                                                               *)
EachOnce ==
  dashFaults = 0 =>
    /\ \A i, k \in 1 .. Len(versions) : versions[i] = versions[k] => i = k
    /\ \A i \in 1 .. Len(versions) : writer[versions[i]].at = "201"

DashboardsInv ==
  /\ DashboardsTypeOK /\ EachOnce
  /\ \A w \in Writers : ToldTruly(w)
  /\ \A l \in promised : share[l].revoked # Never

LEMMA DashboardsStart == DashboardsInit => DashboardsInv
  BY DEF DashboardsInit, DashboardsInv, DashboardsTypeOK, EachOnce, ToldTruly, WriterRow,
     WriterSteps, ShareRow, RevokerRow, Never

(* A step of one writer that adds no version.                              *)
LEMMA WriterMoves ==
  ASSUME DashboardsInv, NEW w \in Writers, NEW h \in WriterRow,
         writer' = [writer EXCEPT ![w] = h],
         UNCHANGED <<versions, share, revoker, promised, dashClock>>,
         dashFaults' \in Nat, dashFaults' = 0 => dashFaults = 0,
         writer[w].at # "201",
         h.at \in {"insert", "confirm", "409"} => h.next >= 1,
         h.at = "409" => h.next <= Len(versions),
         h.at # "201"
  PROVE  DashboardsInv'
  <1>1. /\ writer' \in [Writers -> WriterRow] /\ writer'[w] = h
        /\ \A v \in Writers \ {w} : writer'[v] = writer[v]
    BY DEF DashboardsInv, DashboardsTypeOK
  <1>2. ASSUME NEW v \in Writers PROVE ToldTruly(v)'
    BY <1>1 DEF DashboardsInv, ToldTruly
  <1>3. EachOnce'
    <2>1. \A i \in 1 .. Len(versions) : versions[i] \in Writers
      BY DEF DashboardsInv, DashboardsTypeOK
    <2>2. QED
      BY <1>1, <2>1 DEF DashboardsInv, EachOnce
  <1>4. DashboardsTypeOK'
    BY <1>1 DEF DashboardsInv, DashboardsTypeOK
  <1>5. QED
    BY <1>2, <1>3, <1>4 DEF DashboardsInv

(* A version is added at the number its writer will be told, and by a      *)
(* writer that is not there yet unless a statement failed.                 *)
LEMMA VersionLands ==
  ASSUME DashboardsInv, NEW w \in Writers, NEW h \in WriterRow,
         writer' = [writer EXCEPT ![w] = h],
         versions' = Append(versions, w),
         UNCHANGED <<share, revoker, promised, dashClock>>,
         dashFaults' \in Nat,
         dashFaults' = 0 => dashFaults = 0 /\ h.at = "201",
         writer[w].at # "201",
         h.at \in {"201", "confirm"}, h.next = Len(versions) + 1
  PROVE  DashboardsInv'
  <1>1. /\ writer' \in [Writers -> WriterRow] /\ writer'[w] = h
        /\ \A v \in Writers \ {w} : writer'[v] = writer[v]
    BY DEF DashboardsInv, DashboardsTypeOK
  <1>2. /\ versions \in Seq(Writers) /\ Len(versions) \in Nat
        /\ versions' \in Seq(Writers) /\ Len(versions') = Len(versions) + 1
        /\ versions'[Len(versions) + 1] = w
        /\ \A i \in 1 .. Len(versions) : versions'[i] = versions[i] /\ versions[i] \in Writers
    BY DEF DashboardsInv, DashboardsTypeOK
  <1>3. ASSUME NEW v \in Writers PROVE ToldTruly(v)'
    <2>1. CASE v = w
      BY <1>1, <1>2, <2>1 DEF ToldTruly
    <2>2. CASE v # w
      <3>1. writer'[v] = writer[v] /\ writer[v].next \in Nat /\ ToldTruly(v)
        BY <1>1, <2>2 DEF DashboardsInv, DashboardsTypeOK, WriterRow
      <3>2. QED
        BY <1>2, <3>1 DEF ToldTruly
    <2>3. QED
      BY <2>1, <2>2
  <1>4. EachOnce'
    <2> SUFFICES ASSUME dashFaults' = 0
                 PROVE  /\ \A i, k \in 1 .. Len(versions') : versions'[i] = versions'[k] => i = k
                        /\ \A i \in 1 .. Len(versions') : writer'[versions'[i]].at = "201"
      BY DEF EachOnce
    <2>1. /\ \A i, k \in 1 .. Len(versions) : versions[i] = versions[k] => i = k
          /\ \A i \in 1 .. Len(versions) : writer[versions[i]].at = "201"
      BY DEF DashboardsInv, EachOnce
    <2>2. \A i \in 1 .. Len(versions) : versions[i] # w
      BY <2>1
    <2>3. QED
      BY <1>1, <1>2, <2>1, <2>2
  <1>5. DashboardsTypeOK'
    BY <1>1, <1>2 DEF DashboardsInv, DashboardsTypeOK
  <1>6. QED
    BY <1>3, <1>4, <1>5 DEF DashboardsInv

LEMMA WriterKeeps ==
  ASSUME DashboardsInv, NEW w \in Writers,
         CreateDashboard(w) \/ ReadLatest(w) \/ InsertVersion(w) \/ InsertFails(w)
         \/ ConfirmConflict(w) \/ ConfirmFails(w) \/ RetryEdit(w)
  PROVE  DashboardsInv'
  <1>1. /\ writer[w] \in WriterRow /\ writer[w].next \in Nat /\ Len(versions) \in Nat
        /\ dashFaults \in Nat /\ versions \in Seq(Writers) /\ ToldTruly(w)
    BY DEF DashboardsInv, DashboardsTypeOK, WriterRow
  <1>2. \A s \in WriterSteps, n \in Nat :
          /\ [at |-> s, next |-> n] \in WriterRow
          /\ [at |-> s, next |-> n].at = s /\ [at |-> s, next |-> n].next = n
    BY DEF WriterRow
  <1>3. CASE CreateDashboard(w)
    <2>1. PICK h \in WriterRow : h = [at |-> "201", next |-> 1]
      BY <1>2 DEF WriterSteps
    <2>2. versions' = Append(versions, w) /\ Len(versions) = 0
      BY <1>3 DEF CreateDashboard
    <2>3. /\ writer' = [writer EXCEPT ![w] = h] /\ writer[w].at = "start"
          /\ h.at = "201" /\ h.next = Len(versions) + 1
          /\ UNCHANGED <<share, revoker, promised, dashClock, dashFaults>>
      BY <1>3, <2>1, <2>2 DEF CreateDashboard, WriterGoto
    <2>4. QED
      BY <1>1, <2>2, <2>3, VersionLands
  <1>4. CASE ReadLatest(w)
    <2> DEFINE claim == [at |-> "insert", next |-> Len(versions) + 1]
    <2>1. claim \in WriterRow
      BY <1>1 DEF WriterSteps, WriterRow
    <2>2. PICK h \in WriterRow : h = claim
      BY <2>1
    <2>3. /\ writer' = [writer EXCEPT ![w] = h] /\ writer[w].at = "start"
          /\ h.at = "insert" /\ h.next >= 1
          /\ UNCHANGED <<versions, share, revoker, promised, dashClock, dashFaults>>
      BY <1>1, <1>4, <2>2 DEF ReadLatest, WriterGoto
    <2>4. QED
      BY <1>1, <2>3, WriterMoves
  <1>5. CASE InsertVersion(w)
    <2>1. CASE Admits(writer[w].next)
      <3>1. PICK h \in WriterRow : h = [at |-> "201", next |-> writer[w].next]
        BY <1>1, <1>2 DEF WriterSteps
      <3>2. /\ writer' = [writer EXCEPT ![w] = h] /\ versions' = Append(versions, w)
            /\ writer[w].at = "insert" /\ h.at = "201" /\ h.next = Len(versions) + 1
            /\ UNCHANGED <<share, revoker, promised, dashClock, dashFaults>>
        BY <1>5, <2>1, <3>1 DEF InsertVersion, WriterGoto, Admits
      <3>3. QED
        BY <1>1, <3>2, VersionLands
    <2>2. CASE ~Admits(writer[w].next)
      <3>1. PICK h \in WriterRow : h = [at |-> "confirm", next |-> writer[w].next]
        BY <1>1, <1>2 DEF WriterSteps
      <3>2. /\ writer' = [writer EXCEPT ![w] = h] /\ writer[w].at = "insert"
            /\ h.at = "confirm" /\ h.next >= 1
            /\ UNCHANGED <<versions, share, revoker, promised, dashClock, dashFaults>>
        BY <1>1, <1>5, <2>2, <3>1 DEF InsertVersion, WriterGoto, ToldTruly
      <3>3. QED
        BY <1>1, <3>2, WriterMoves
    <2>3. QED
      BY <2>1, <2>2
  <1>6. CASE InsertFails(w)
    <2>1. PICK h \in WriterRow : h = [at |-> "confirm", next |-> writer[w].next]
      BY <1>1, <1>2 DEF WriterSteps
    <2>2. /\ writer' = [writer EXCEPT ![w] = h] /\ writer[w].at = "insert"
          /\ h.at = "confirm" /\ h.next >= 1 /\ h.next = writer[w].next
          /\ dashFaults' \in Nat /\ dashFaults' # 0
          /\ UNCHANGED <<share, revoker, promised, dashClock>>
      BY <1>1, <1>6, <2>1 DEF InsertFails, WriterGoto, DashFault, ToldTruly
    <2>3. CASE UNCHANGED versions
      BY <2>2, <2>3, WriterMoves
    <2>4. CASE Admits(writer[w].next) /\ versions' = Append(versions, w)
      BY <2>2, <2>4, VersionLands DEF Admits
    <2>5. QED
      BY <1>6, <2>3, <2>4 DEF InsertFails
  <1>7. CASE ConfirmConflict(w)
    <2>1. PICK h \in WriterRow :
            h = [at |-> IF Confirmed(writer[w].next) THEN "409" ELSE "500", next |-> writer[w].next]
      BY <1>1, <1>2 DEF WriterSteps
    <2>2. /\ writer' = [writer EXCEPT ![w] = h] /\ writer[w].at = "confirm"
          /\ h.at \in {"409", "500"} /\ h.next >= 1
          /\ h.at = "409" => h.next <= Len(versions)
          /\ UNCHANGED <<versions, share, revoker, promised, dashClock, dashFaults>>
      BY <1>1, <1>7, <2>1 DEF ConfirmConflict, WriterGoto, Confirmed, ToldTruly
    <2>3. QED
      BY <1>1, <2>2, WriterMoves
  <1>8. CASE ConfirmFails(w)
    <2>1. PICK h \in WriterRow : h = [at |-> "500", next |-> writer[w].next]
      BY <1>1, <1>2 DEF WriterSteps
    <2>2. /\ writer' = [writer EXCEPT ![w] = h] /\ writer[w].at = "confirm" /\ h.at = "500"
          /\ dashFaults' \in Nat /\ dashFaults' # 0
          /\ UNCHANGED <<versions, share, revoker, promised, dashClock>>
      BY <1>1, <1>8, <2>1 DEF ConfirmFails, WriterGoto, DashFault
    <2>3. QED
      BY <1>1, <2>2, WriterMoves
  <1>9. CASE RetryEdit(w)
    <2>1. PICK h \in WriterRow : h = [at |-> "start", next |-> 0]
      BY <1>2 DEF WriterSteps
    <2>2. /\ writer' = [writer EXCEPT ![w] = h] /\ writer[w].at # "201" /\ h.at = "start"
          /\ UNCHANGED <<versions, share, revoker, promised, dashClock, dashFaults>>
      BY <1>9, <2>1 DEF RetryEdit, WriterGoto
    <2>3. QED
      BY <1>1, <2>2, WriterMoves
  <1>10. QED
    BY <1>3, <1>4, <1>5, <1>6, <1>7, <1>8, <1>9

(* A step that moves links and revokers, and leaves the versions alone.    *)
LEMMA LinksMove ==
  ASSUME DashboardsInv, UNCHANGED <<versions, writer>>,
         share' \in [Links -> ShareRow], revoker' \in [Revokers -> RevokerRow],
         promised' \subseteq Links, dashClock' \in Nat \ {Never},
         dashFaults' \in Nat, dashFaults' = 0 => dashFaults = 0,
         \A l \in promised' : share'[l].revoked # Never
  PROVE  DashboardsInv'
  BY DEF DashboardsInv, DashboardsTypeOK, EachOnce, ToldTruly

(* After the UPDATE no link it named is live, and a revoked one stays so.  *)
LEMMA MarkedAreRevoked ==
  ASSUME DashboardsInv, NEW r \in Revokers, NEW job \in RevokeJob, job = revoker[r], MarkRevoked(r)
  PROVE  /\ share' \in [Links -> ShareRow]
         /\ \A l \in Links : share[l].revoked # Never => share'[l].revoked # Never
         /\ \A l \in job.which : share[l] # NoShare => share'[l].revoked # Never
  <1>1. job.now \in Nat \ {Never} /\ job.which \subseteq Links
    BY DEF RevokeJob
  <1>2. ASSUME NEW l \in Links
        PROVE  /\ share'[l] \in ShareRow
               /\ share[l].revoked # Never => share'[l].revoked # Never
               /\ l \in job.which /\ share[l] # NoShare => share'[l].revoked # Never
    <2>1. PICK s \in ShareRow : s = share[l]
      BY DEF DashboardsInv, DashboardsTypeOK
    <2>2. CASE l \in Revoked(r)
      <3>1. share'[l] = [s EXCEPT !.revoked = job.now] /\ IsLive(s)
        BY <2>1, <2>2 DEF MarkRevoked, Revoked, LiveLinks
      <3>2. s \in [created : Nat \ {Never}, revoked : Nat]
        BY <3>1 DEF IsLive, ShareRow, NoShare
      <3>3. QED
        BY <1>1, <3>1, <3>2 DEF ShareRow
    <2>3. CASE l \notin Revoked(r)
      <3>1. share'[l] = s
        BY <2>1, <2>3 DEF MarkRevoked
      <3>2. l \in job.which => ~IsLive(s)
        BY <2>1, <2>3 DEF Revoked, LiveLinks
      <3>3. QED
        BY <2>1, <3>1, <3>2 DEF IsLive, ShareRow
    <2>4. QED
      BY <2>2, <2>3
  <1>3. share' = [l \in Links |-> share'[l]]
    BY DEF MarkRevoked
  <1>4. QED
    BY <1>1, <1>2, <1>3

LEMMA ShareKeeps ==
  ASSUME DashboardsInv, DashTick \/ (\E l \in Links : CreateShare(l))
  PROVE  DashboardsInv'
  <1>1. CASE DashTick
    <2>1. dashClock' \in Nat \ {Never} /\ UNCHANGED <<versions, writer, share, revoker, promised, dashFaults>>
      BY <1>1, DashAssumption DEF DashTick
    <2>2. QED
      BY <2>1, LinksMove DEF DashboardsInv, DashboardsTypeOK
  <1>2. ASSUME NEW l \in Links, CreateShare(l) PROVE DashboardsInv'
    <2>1. PICK s \in ShareRow : s = [NoShare EXCEPT !.created = dashClock]
      BY DEF DashboardsInv, DashboardsTypeOK, ShareRow, NoShare, Never
    <2>2. share' = [share EXCEPT ![l] = s] /\ share[l] = NoShare
      BY <1>2, <2>1 DEF CreateShare
    <2>3. l \notin promised
      BY <2>2 DEF DashboardsInv, NoShare
    <2>4. share' \in [Links -> ShareRow] /\ \A k \in promised : share'[k].revoked # Never
      BY <2>2, <2>3 DEF DashboardsInv, DashboardsTypeOK
    <2>5. QED
      BY <1>2, <2>4, LinksMove DEF CreateShare, DashboardsInv, DashboardsTypeOK
  <1>3. QED
    BY <1>1, <1>2

LEMMA RevokerKeeps ==
  ASSUME DashboardsInv, NEW r \in Revokers, StartRevoke(r) \/ UpdateShares(r) \/ RevokeFails(r)
  PROVE  DashboardsInv'
  <1>1. /\ share \in [Links -> ShareRow] /\ revoker \in [Revokers -> RevokerRow]
        /\ promised \subseteq Links /\ dashClock \in Nat \ {Never} /\ dashFaults \in Nat
        /\ \A l \in promised : share[l].revoked # Never
    BY DEF DashboardsInv, DashboardsTypeOK
  <1>2. CASE StartRevoke(r)
    <2>1. PICK which \in SUBSET Links :
            revoker' = [revoker EXCEPT ![r] = [at |-> "update", now |-> dashClock, which |-> which]]
      BY <1>2 DEF StartRevoke
    <2>2. PICK h \in RevokerRow : h = [at |-> "update", now |-> dashClock, which |-> which]
      BY <1>1 DEF RevokerRow, RevokeJob
    <2>3. revoker' \in [Revokers -> RevokerRow]
      BY <1>1, <2>1, <2>2
    <2>4. QED
      BY <1>1, <1>2, <2>3, LinksMove DEF StartRevoke
  <1>3. CASE UpdateShares(r) \/ RevokeFails(r)
    <2>1. PICK job \in RevokeJob : job = revoker[r]
      BY <1>1, <1>3 DEF UpdateShares, RevokeFails, RevokerRow
    <2>2. \A s \in {"200", "404", "500"} : [job EXCEPT !.at = s] \in RevokerRow
      BY DEF RevokerRow, RevokeJob
    <2>3. \A s \in {"200", "404", "500"} :
            revoker' = [revoker EXCEPT ![r].at = s] => revoker' \in [Revokers -> RevokerRow]
      <3> SUFFICES ASSUME NEW s \in {"200", "404", "500"}, revoker' = [revoker EXCEPT ![r].at = s]
                   PROVE  revoker' \in [Revokers -> RevokerRow]
        OBVIOUS
      <3>1. PICK h \in RevokerRow : h = [job EXCEPT !.at = s]
        BY <2>2
      <3>2. revoker' = [revoker EXCEPT ![r] = h]
        BY <2>1, <3>1
      <3>3. QED
        BY <1>1, <3>2
    <2>4. CASE RevokeFails(r)
      <3>1. /\ revoker' \in [Revokers -> RevokerRow] /\ dashFaults' = dashFaults + 1
            /\ UNCHANGED <<versions, writer, promised, dashClock>>
        BY <2>3, <2>4 DEF RevokeFails, DashFault
      <3>2. CASE UNCHANGED share
        BY <1>1, <3>1, <3>2, LinksMove
      <3>3. CASE MarkRevoked(r)
        BY <1>1, <2>1, <3>1, <3>3, LinksMove, MarkedAreRevoked
      <3>4. QED
        BY <2>4, <3>2, <3>3 DEF RevokeFails
    <2>5. CASE UpdateShares(r)
      <3>1. UNCHANGED <<versions, writer, dashClock, dashFaults>>
        BY <2>5 DEF UpdateShares
      <3>2. CASE Refuses(job.now, Revoked(r))
        <4>1. UNCHANGED <<share, promised>> /\ revoker' \in [Revokers -> RevokerRow]
          BY <2>1, <2>3, <2>5, <3>2 DEF UpdateShares
        <4>2. QED
          BY <1>1, <3>1, <4>1, LinksMove
      <3>3. CASE ~Refuses(job.now, Revoked(r))
        <4>1. /\ MarkRevoked(r)
              /\ promised' = promised
                 \/ promised' = promised \cup {l \in job.which : share[l] # NoShare}
          BY <2>1, <2>5, <3>3 DEF UpdateShares
        <4>2. \E s \in {"200", "404", "500"} : revoker' = [revoker EXCEPT ![r].at = s]
          BY <2>1, <2>5, <3>3 DEF UpdateShares
        <4>3. revoker' \in [Revokers -> RevokerRow] /\ job.which \subseteq Links
          BY <2>3, <4>2 DEF RevokeJob
        <4>4. share' \in [Links -> ShareRow] /\ \A l \in promised' : share'[l].revoked # Never
          BY <1>1, <2>1, <4>1, <4>3, MarkedAreRevoked
        <4>5. promised' \subseteq Links
          BY <1>1, <4>1, <4>3
        <4>6. QED
          BY <1>1, <3>1, <4>3, <4>4, <4>5, LinksMove
      <3>4. QED
        BY <3>2, <3>3
    <2>6. QED
      BY <1>3, <2>4, <2>5
  <1>4. QED
    BY <1>2, <1>3

LEMMA DashboardsStep ==
  ASSUME DashboardsInv, [DashboardsNext]_dashVars
  PROVE  DashboardsInv'
  <1>1. CASE UNCHANGED dashVars
    BY <1>1 DEF dashVars, DashboardsInv, DashboardsTypeOK, EachOnce, ToldTruly
  <1>2. CASE DashboardsNext
    BY <1>2, WriterKeeps, ShareKeeps, RevokerKeeps DEF DashboardsNext
  <1>3. QED
    BY <1>1, <1>2

LEMMA EditsKept == DashboardsInv => EditsAreKept
  <1> SUFFICES ASSUME DashboardsInv PROVE EditsAreKept
    OBVIOUS
  <1>1. versions \in Seq(Writers) /\ DOMAIN versions = 1 .. Len(versions)
        /\ \A w \in Writers : writer[w].next \in Nat
    BY DEF DashboardsInv, DashboardsTypeOK, WriterRow
  <1>2. ASSUME NEW w \in Writers
        PROVE  /\ writer[w].at = "201" => writer[w].next \in DOMAIN versions /\ versions[writer[w].next] = w
               /\ writer[w].at = "409" => writer[w].next \in DOMAIN versions
    BY <1>1 DEF DashboardsInv, ToldTruly
  <1>3. dashFaults = 0 => IsInjective(versions)
    BY <1>1 DEF DashboardsInv, EachOnce, IsInjective
  <1>4. \A l \in promised : ~Resolves(l)
    BY DEF DashboardsInv, Resolves, IsLive
  <1>5. QED
    BY <1>2, <1>3, <1>4 DEF EditsAreKept

(* What a client was told of its upload, or of its version of a dashboard, *)
(* stays true whatever failed since: an attachment has its bytes and the   *)
(* event that names it, an edit answered 201 is the version it was told, a *)
(* conflict is about a number someone has, and a link that was answered as *)
(* revoked resolves to nothing (createAttachment, appendVersion,           *)
(* revokeShares).                                                          *)
THEOREM WhatWasToldStands == DataSpec => []AnswersStand
  <1>1. DataInit => AttachmentsInv /\ DashboardsInv
    BY AttachmentsStart, DashboardsStart DEF DataInit
  <1>2. AttachmentsInv /\ DashboardsInv /\ [DataNext]_<<part, dataVars>>
          => AttachmentsInv' /\ DashboardsInv'
    BY PartsMove, AttachmentsStep, DashboardsStep
  <1>3. AttachmentsInv /\ DashboardsInv => AnswersStand
    BY AttachmentsEvident, EditsKept DEF AnswersStand
  <1>4. QED
    BY <1>1, <1>2, <1>3, PTL DEF DataSpec

-------------------------------------------------------------------------------
(* Tools that clients and the assistant call                               *)

Spaces == {HomeOf[u] : u \in ToolCallers}
EventIds == Spaces \X ScoreBodies \X Nat
ToolEventRow == [space : Spaces, body : ScoreBodies, at : Nat, by : CanWrite]
AttemptRow == [space : Spaces, body : ScoreBodies]
CallRow ==
  [step : {"none", "refused"}, repeats : Nat]
  \cup [step : {"stamp"}, by : CanWrite, body : ScoreBodies, repeats : Nat]
  \cup [step : {"insert", "answered", "lost"}, by : CanWrite, body : ScoreBodies, repeats : Nat, at : Nat]
OpenTalk ==
  [step : {"model", "answer", "error"}, by : ToolCallers, used : Seq(Tools), evidence : SUBSET EventIds]
BusyTalk ==
  [step : {"tool", "error"}, by : ToolCallers, used : Seq(Tools), evidence : SUBSET EventIds, tool : Tools]
TalkRow == {NoChat} \cup OpenTalk \cup BusyTalk

ToolsTypeOK ==
  /\ moment \in Nat /\ toolEvents \subseteq ToolEventRow
  /\ toolCall \in [ToolCalls -> CallRow] /\ chat \in [Chats -> TalkRow]
  /\ attempts \in Seq(AttemptRow)

(* Every event, and every call still on its way to one, was attempted: the *)
(* three sets are counted per workspace and payload.                       *)
Balanced(S, W, A) ==
  /\ IsFiniteSet(S) /\ IsFiniteSet(W) /\ IsFiniteSet(A)
  /\ Cardinality(S) + Cardinality(W) <= Cardinality(A)
SentEvents(space, body) == {e \in toolEvents : e.space = space /\ e.body = body}
Asks(row, space, body) ==
  row.step \in {"stamp", "insert"} /\ HomeOf[row.by] = space /\ row.body = body
OnTheirWay(space, body) == {c \in ToolCalls : Asks(toolCall[c], space, body)}
AttemptsAt(s, space, body) == {i \in DOMAIN s : s[i].space = space /\ s[i].body = body}
CallsAreCounted ==
  \A space \in Spaces, body \in ScoreBodies :
    Balanced(SentEvents(space, body), OnTheirWay(space, body), AttemptsAt(attempts, space, body))

EventsOf(row) == {e \in toolEvents : mcpEventID(e) = <<HomeOf[row.by], row.body, row.at>>}
AnswersAreLogged ==
  \A c \in ToolCalls : toolCall[c].step = "answered" => EventsOf(toolCall[c]) # {}

TalkHolds(talk) ==
  /\ talk.step \in {"model", "tool", "answer"} =>
       /\ Len(talk.used) <= MaxToolCalls /\ \A i \in DOMAIN talk.used : ReadOnly(talk.used[i])
       /\ talk.evidence \subseteq harvestEvidence(talk.by)
       /\ talk.evidence # {} => Len(talk.used) >= 1
  /\ talk.step = "tool" => Len(talk.used) < MaxToolCalls /\ ReadOnly(talk.tool)

ToolsInv ==
  /\ ToolsTypeOK
  /\ \A e \in toolEvents : e.space = HomeOf[e.by]
  /\ AnswersAreLogged /\ CallsAreCounted
  /\ \A a \in Chats : TalkHolds(chat[a])

LEMMA ToolsStart == ToolsInit => ToolsInv
  <1> SUFFICES ASSUME ToolsInit PROVE ToolsInv
    OBVIOUS
  <1>1. ToolsTypeOK
    <2>1. NoCall \in CallRow /\ NoChat \in TalkRow
      BY DEF NoCall, NoChat, CallRow, TalkRow
    <2>2. QED
      BY <2>1 DEF ToolsInit, ToolsTypeOK
  <1>2. CallsAreCounted
    <2> SUFFICES ASSUME NEW space \in Spaces, NEW body \in ScoreBodies
                 PROVE  Balanced(SentEvents(space, body), OnTheirWay(space, body),
                                 AttemptsAt(attempts, space, body))
      BY DEF CallsAreCounted
    <2>1. SentEvents(space, body) = {} /\ OnTheirWay(space, body) = {}
      BY DEF ToolsInit, SentEvents, OnTheirWay, Asks, NoCall
    <2>2. AttemptsAt(attempts, space, body) = {}
      BY DEF ToolsInit, AttemptsAt
    <2>3. QED
      BY <2>1, <2>2, FS_EmptySet DEF Balanced
  <1>3. AnswersAreLogged /\ \A a \in Chats : TalkHolds(chat[a])
    BY DEF ToolsInit, AnswersAreLogged, TalkHolds, NoCall, NoChat
  <1>4. QED
    BY <1>1, <1>2, <1>3 DEF ToolsInit, ToolsInv

(* A call that is sent is one attempt, and one that arrives is no longer   *)
(* on its way.                                                             *)
LEMMA IssueBalances ==
  ASSUME NEW S, NEW W, NEW A, Balanced(S, W, A), NEW V, NEW c, V \subseteq W \cup {c},
         NEW i, i \notin A
  PROVE  Balanced(S, V, A \cup {i})
  <1>1. /\ IsFiniteSet(S) /\ IsFiniteSet(W) /\ IsFiniteSet(A)
        /\ Cardinality(W) \in Nat /\ Cardinality(S) \in Nat /\ Cardinality(A) \in Nat
    BY FS_CardinalityType DEF Balanced
  <1>2. IsFiniteSet(W \cup {c}) /\ Cardinality(W \cup {c}) <= Cardinality(W) + 1
    <2>1. /\ IsFiniteSet(W \cup {c})
          /\ Cardinality(W \cup {c}) \in {Cardinality(W), Cardinality(W) + 1}
      BY <1>1, FS_AddElement
    <2>2. QED
      BY <1>1, <2>1
  <1>3. IsFiniteSet(V) /\ Cardinality(V) <= Cardinality(W \cup {c}) /\ Cardinality(V) \in Nat
        /\ Cardinality(W \cup {c}) \in Nat
    BY <1>2, FS_Subset, FS_CardinalityType
  <1>4. IsFiniteSet(A \cup {i}) /\ Cardinality(A \cup {i}) = Cardinality(A) + 1
    BY FS_AddElement DEF Balanced
  <1>5. QED
    BY <1>1, <1>2, <1>3, <1>4 DEF Balanced

LEMMA ArrivalBalances ==
  ASSUME NEW S, NEW W, NEW A, Balanced(S, W, A), NEW T, NEW e, T \subseteq S \cup {e},
         NEW c, c \in W
  PROVE  Balanced(T, W \ {c}, A)
  <1>1. /\ IsFiniteSet(S) /\ IsFiniteSet(W) /\ IsFiniteSet(A)
        /\ Cardinality(W) \in Nat /\ Cardinality(S) \in Nat /\ Cardinality(A) \in Nat
    BY FS_CardinalityType DEF Balanced
  <1>2. IsFiniteSet(S \cup {e}) /\ Cardinality(S \cup {e}) <= Cardinality(S) + 1
    <2>1. /\ IsFiniteSet(S \cup {e})
          /\ Cardinality(S \cup {e}) \in {Cardinality(S), Cardinality(S) + 1}
      BY <1>1, FS_AddElement
    <2>2. QED
      BY <1>1, <2>1
  <1>3. IsFiniteSet(T) /\ Cardinality(T) <= Cardinality(S \cup {e}) /\ Cardinality(T) \in Nat
        /\ Cardinality(S \cup {e}) \in Nat
    BY <1>2, FS_Subset, FS_CardinalityType
  <1>4. IsFiniteSet(W \ {c}) /\ Cardinality(W \ {c}) = Cardinality(W) - 1
    BY FS_RemoveElement DEF Balanced
  <1>5. QED
    BY <1>1, <1>2, <1>3, <1>4 DEF Balanced

LEMMA FewerBalance ==
  ASSUME NEW S, NEW W, NEW A, Balanced(S, W, A), NEW V \in SUBSET W
  PROVE  Balanced(S, V, A)
  <1>1. IsFiniteSet(V) /\ Cardinality(V) <= Cardinality(W) /\ Cardinality(V) \in Nat
        /\ Cardinality(W) \in Nat /\ Cardinality(S) \in Nat /\ Cardinality(A) \in Nat
    BY FS_Subset, FS_CardinalityType DEF Balanced
  <1>2. QED
    BY <1>1 DEF Balanced

LEMMA OneCallMoves ==
  ASSUME ToolsTypeOK, NEW c \in ToolCalls, NEW h \in CallRow,
         toolCall' = [toolCall EXCEPT ![c] = h]
  PROVE  \A space, body :
           OnTheirWay(space, body)'
             = {d \in ToolCalls : IF d = c THEN Asks(h, space, body) ELSE Asks(toolCall[d], space, body)}
  <1>1. toolCall'[c] = h /\ \A d \in ToolCalls \ {c} : toolCall'[d] = toolCall[d]
    BY DEF ToolsTypeOK
  <1>2. ASSUME NEW space, NEW body
        PROVE  OnTheirWay(space, body)'
                 = {d \in ToolCalls : IF d = c THEN Asks(h, space, body) ELSE Asks(toolCall[d], space, body)}
    BY <1>1 DEF OnTheirWay, Asks
  <1>3. QED
    BY <1>2

(* A call that moves without an event: the answers that were given stand.  *)
LEMMA CallMoves ==
  ASSUME ToolsInv, NEW c \in ToolCalls, NEW h \in CallRow, h.step # "answered",
         toolCall' = [toolCall EXCEPT ![c] = h],
         UNCHANGED <<moment, toolEvents, chat>>,
         attempts' \in Seq(AttemptRow), CallsAreCounted'
  PROVE  ToolsInv'
  <1>1. /\ toolCall' \in [ToolCalls -> CallRow] /\ toolCall'[c] = h
        /\ \A d \in ToolCalls \ {c} : toolCall'[d] = toolCall[d]
    BY DEF ToolsInv, ToolsTypeOK
  <1>2. AnswersAreLogged'
    BY <1>1 DEF ToolsInv, AnswersAreLogged, EventsOf, mcpEventID
  <1>3. \A a \in Chats : TalkHolds(chat[a])'
    BY DEF ToolsInv, TalkHolds, harvestEvidence, ScoresOf, ReadOnly, mcpEventID
  <1>4. ToolsTypeOK'
    BY <1>1 DEF ToolsInv, ToolsTypeOK
  <1>5. QED
    BY <1>2, <1>3, <1>4 DEF ToolsInv

(* An authorised call: one more attempt, one more on its way.              *)
LEMMA CallIssued ==
  ASSUME ToolsInv, NEW c \in ToolCalls, NEW h \in CallRow,
         h.step = "stamp", h.by \in CanWrite, h.body \in ScoreBodies,
         toolCall' = [toolCall EXCEPT ![c] = h],
         attempts' = Append(attempts, [space |-> HomeOf[h.by], body |-> h.body]),
         UNCHANGED <<moment, toolEvents, chat>>
  PROVE  ToolsInv'
  <1>1. ToolsTypeOK
    BY DEF ToolsInv
  <1>2. toolCall' = [toolCall EXCEPT ![c] = h]
    OBVIOUS
  <1>3. \A space, body :
          OnTheirWay(space, body)'
            = {d \in ToolCalls : IF d = c THEN Asks(h, space, body) ELSE Asks(toolCall[d], space, body)}
    BY <1>1, <1>2, OneCallMoves
  <1>4. PICK x \in AttemptRow : x = [space |-> HomeOf[h.by], body |-> h.body]
    BY ToolsAssumption DEF Spaces, AttemptRow
  <1>5. attempts \in Seq(AttemptRow) /\ attempts' = Append(attempts, x)
    BY <1>4 DEF ToolsInv, ToolsTypeOK
  <1>6. PICK i \in Nat : /\ i \notin DOMAIN attempts /\ DOMAIN attempts' = DOMAIN attempts \cup {i}
                         /\ attempts'[i] = x /\ \A k \in DOMAIN attempts : attempts'[k] = attempts[k]
    <2>1. Len(attempts) + 1 \in Nat
      BY <1>5
    <2>2. PICK i \in Nat : i = Len(attempts) + 1
      BY <2>1
    <2>3. QED
      BY <1>5, <2>2
  <1>7. CallsAreCounted'
    <2> SUFFICES ASSUME NEW space \in Spaces, NEW body \in ScoreBodies
                 PROVE  Balanced(SentEvents(space, body)', OnTheirWay(space, body)',
                                 AttemptsAt(attempts', space, body))
      BY DEF CallsAreCounted, Balanced, AttemptsAt
    <2>1. Balanced(SentEvents(space, body), OnTheirWay(space, body), AttemptsAt(attempts, space, body))
      BY DEF ToolsInv, CallsAreCounted
    <2>2. SentEvents(space, body)' = SentEvents(space, body)
      BY DEF SentEvents
    <2>3. CASE Asks(h, space, body)
      <3>1. OnTheirWay(space, body)' = OnTheirWay(space, body) \cup {c}
        BY <1>3, <2>3 DEF OnTheirWay
      <3>2. attempts'[i].space = space /\ attempts'[i].body = body
        BY <1>4, <1>6, <2>3 DEF Asks
      <3>3. /\ AttemptsAt(attempts', space, body) = AttemptsAt(attempts, space, body) \cup {i}
            /\ i \notin AttemptsAt(attempts, space, body)
        BY <1>6, <3>2 DEF AttemptsAt
      <3>4. Balanced(SentEvents(space, body), OnTheirWay(space, body) \cup {c},
                     AttemptsAt(attempts, space, body) \cup {i})
        BY <2>1, <3>3, IssueBalances
      <3>5. QED
        BY <2>2, <3>1, <3>3, <3>4
    <2>4. CASE ~Asks(h, space, body)
      <3>1. OnTheirWay(space, body)' = OnTheirWay(space, body) \ {c}
        BY <1>3, <2>4 DEF OnTheirWay
      <3>2. ~(attempts'[i].space = space /\ attempts'[i].body = body)
        BY <1>4, <1>6, <2>4 DEF Asks
      <3>3. AttemptsAt(attempts', space, body) = AttemptsAt(attempts, space, body)
        BY <1>6, <3>2 DEF AttemptsAt
      <3>4. Balanced(SentEvents(space, body), OnTheirWay(space, body) \ {c}, AttemptsAt(attempts, space, body))
        BY <2>1, FewerBalance
      <3>5. QED
        BY <2>2, <3>1, <3>3, <3>4
    <2>5. QED
      BY <2>3, <2>4
  <1>8. attempts' \in Seq(AttemptRow)
    BY <1>5
  <1>9. QED
    BY <1>7, <1>8, CallMoves

(* A call that is refused, or that takes its time.                         *)
LEMMA CallGoesOn ==
  ASSUME ToolsInv, NEW c \in ToolCalls, NEW h \in CallRow, h.step # "answered",
         \A space \in Spaces, body \in ScoreBodies :
           Asks(h, space, body) => Asks(toolCall[c], space, body),
         toolCall' = [toolCall EXCEPT ![c] = h],
         UNCHANGED <<moment, toolEvents, chat, attempts>>
  PROVE  ToolsInv'
  <1>1. CallsAreCounted'
    <2> SUFFICES ASSUME NEW space \in Spaces, NEW body \in ScoreBodies
                 PROVE  Balanced(SentEvents(space, body)', OnTheirWay(space, body)',
                                 AttemptsAt(attempts, space, body))
      BY DEF CallsAreCounted, Balanced, AttemptsAt
    <2>1. Balanced(SentEvents(space, body), OnTheirWay(space, body), AttemptsAt(attempts, space, body))
      BY DEF ToolsInv, CallsAreCounted
    <2>2. SentEvents(space, body)' = SentEvents(space, body)
      BY DEF SentEvents
    <2>3. OnTheirWay(space, body)' \in SUBSET OnTheirWay(space, body)
      BY OneCallMoves DEF ToolsInv, OnTheirWay
    <2>4. QED
      BY <2>1, <2>2, <2>3, FewerBalance
  <1>2. attempts' \in Seq(AttemptRow)
    BY DEF ToolsInv, ToolsTypeOK
  <1>3. QED
    BY <1>1, <1>2, CallMoves

(* The event of a call lands, or one of its id is there already.           *)
LEMMA CallLands ==
  ASSUME ToolsInv, NEW c \in ToolCalls, InsertToolEvent(c)
  PROVE  ToolsInv'
  <1>1. PICK j \in CallRow : j = toolCall[c]
    BY DEF ToolsInv, ToolsTypeOK
  <1>2. /\ j.step = "insert"
        /\ j \in [step : {"insert", "answered", "lost"}, by : CanWrite, body : ScoreBodies, repeats : Nat, at : Nat]
    BY <1>1 DEF InsertToolEvent, CallRow
  <1>3. PICK e \in ToolEventRow :
          e = [space |-> HomeOf[j.by], body |-> j.body, at |-> j.at, by |-> j.by]
    BY <1>2, ToolsAssumption DEF ToolEventRow, Spaces
  <1>4. /\ mcpEventID(e) = <<HomeOf[j.by], j.body, j.at>>
        /\ e.space = HomeOf[j.by] /\ e.body = j.body /\ e.by = j.by
    BY <1>3 DEF mcpEventID
  <1>5. PICK s \in {"answered", "lost"} : toolCall' = [toolCall EXCEPT ![c].step = s]
    BY DEF InsertToolEvent
  <1>6. [j EXCEPT !.step = s] \in CallRow
    BY <1>2, <1>5 DEF CallRow
  <1>7. PICK h \in CallRow : h = [j EXCEPT !.step = s]
    BY <1>6
  <1>8. /\ toolCall' = [toolCall EXCEPT ![c] = h] /\ h.step = s
        /\ h.by = j.by /\ h.body = j.body /\ h.at = j.at
    BY <1>1, <1>2, <1>5, <1>7
  <1>9. /\ toolEvents' = IF mcpEventID(e) \in {mcpEventID(f) : f \in toolEvents}
                         THEN toolEvents ELSE toolEvents \cup {e}
        /\ UNCHANGED <<moment, chat, attempts>>
    BY <1>1, <1>3 DEF InsertToolEvent, insertMcpEvent
  <1>10. /\ toolEvents \subseteq toolEvents' /\ toolEvents' \subseteq toolEvents \cup {e}
         /\ \E f \in toolEvents' : mcpEventID(f) = <<HomeOf[j.by], j.body, j.at>>
    BY <1>4, <1>9
  <1>11. /\ toolCall' \in [ToolCalls -> CallRow] /\ toolCall'[c] = h
         /\ \A d \in ToolCalls \ {c} : toolCall'[d] = toolCall[d]
    BY <1>7, <1>8 DEF ToolsInv, ToolsTypeOK
  <1>12. AnswersAreLogged'
    <2> SUFFICES ASSUME NEW d \in ToolCalls, toolCall'[d].step = "answered"
                 PROVE  EventsOf(toolCall[d])' # {}
      BY DEF AnswersAreLogged
    <2>1. CASE d = c
      BY <1>8, <1>10, <1>11, <2>1 DEF EventsOf, mcpEventID
    <2>2. CASE d # c
      <3>1. toolCall'[d] = toolCall[d] /\ EventsOf(toolCall[d]) # {}
        BY <1>11, <2>2 DEF ToolsInv, AnswersAreLogged
      <3>2. QED
        BY <1>10, <3>1 DEF EventsOf, mcpEventID
    <2>3. QED
      BY <2>1, <2>2
  <1>13. CallsAreCounted'
    <2> SUFFICES ASSUME NEW space \in Spaces, NEW body \in ScoreBodies
                 PROVE  Balanced(SentEvents(space, body)', OnTheirWay(space, body)',
                                 AttemptsAt(attempts, space, body))
      BY <1>9 DEF CallsAreCounted, Balanced, AttemptsAt
    <2>1. Balanced(SentEvents(space, body), OnTheirWay(space, body), AttemptsAt(attempts, space, body))
      BY DEF ToolsInv, CallsAreCounted
    <2>2. ~Asks(h, space, body)
      BY <1>5, <1>8 DEF Asks
    <2>3. OnTheirWay(space, body)' = OnTheirWay(space, body) \ {c}
      <3>1. \A d : d \in OnTheirWay(space, body)'
                     <=> d \in ToolCalls /\ d # c /\ Asks(toolCall[d], space, body)
        BY <1>11, <2>2 DEF OnTheirWay, Asks
      <3>2. QED
        BY <3>1 DEF OnTheirWay
    <2>4. CASE Asks(j, space, body)
      <3>1. c \in OnTheirWay(space, body)
        BY <1>1, <2>4 DEF OnTheirWay
      <3>2. SentEvents(space, body)' \subseteq SentEvents(space, body) \cup {e}
        BY <1>10 DEF SentEvents
      <3>3. Balanced(SentEvents(space, body)', OnTheirWay(space, body) \ {c}, AttemptsAt(attempts, space, body))
        BY <2>1, <3>1, <3>2, ArrivalBalances
      <3>4. QED
        BY <2>3, <3>3
    <2>5. CASE ~Asks(j, space, body)
      <3>1. ~(e.space = space /\ e.body = body)
        BY <1>2, <1>4, <2>5 DEF Asks
      <3>2. SentEvents(space, body)' = SentEvents(space, body)
        BY <1>10, <3>1 DEF SentEvents
      <3>3. Balanced(SentEvents(space, body), OnTheirWay(space, body) \ {c}, AttemptsAt(attempts, space, body))
        BY <2>1, FewerBalance
      <3>4. QED
        BY <2>3, <3>2, <3>3
    <2>6. QED
      BY <2>4, <2>5
  <1>14. ASSUME NEW a \in Chats PROVE TalkHolds(chat[a])'
    <2>1. TalkHolds(chat[a]) /\ chat' = chat
      BY <1>9 DEF ToolsInv
    <2>2. \A u : harvestEvidence(u) \subseteq harvestEvidence(u)'
      BY <1>10 DEF harvestEvidence, ScoresOf, mcpEventID
    <2>3. QED
      BY <2>1, <2>2 DEF TalkHolds, ReadOnly
  <1>15. ToolsTypeOK'
    BY <1>9, <1>10, <1>11 DEF ToolsInv, ToolsTypeOK
  <1>16. \A f \in toolEvents' : f.space = HomeOf[f.by]
    BY <1>4, <1>10 DEF ToolsInv
  <1>17. QED
    BY <1>12, <1>13, <1>14, <1>15, <1>16 DEF ToolsInv

LEMMA ToolCallKeeps ==
  ASSUME ToolsInv, NEW c \in ToolCalls,
         \/ \E u \in ToolCallers, body \in ScoreBodies : CallWriteTool(c, u, body)
         \/ StampCall(c) \/ RepeatCall(c)
  PROVE  ToolsInv'
  <1>1. PICK j \in CallRow : j = toolCall[c]
    BY DEF ToolsInv, ToolsTypeOK
  <1>2. \A n \in Nat : [step |-> "refused", repeats |-> n] \in CallRow
    BY DEF CallRow
  <1>3. \A u \in CanWrite, body \in ScoreBodies, n \in Nat :
          [step |-> "stamp", by |-> u, body |-> body, repeats |-> n] \in CallRow
    BY DEF CallRow
  <1>4. ASSUME NEW u \in ToolCallers, NEW body \in ScoreBodies, CallWriteTool(c, u, body)
        PROVE  ToolsInv'
    <2>1. CASE u \in CanWrite
      <3>1. PICK h \in CallRow : h = [step |-> "stamp", by |-> u, body |-> body, repeats |-> 0]
        BY <1>3, <2>1
      <3>2. /\ toolCall' = [toolCall EXCEPT ![c] = h] /\ h.step = "stamp" /\ h.by = u /\ h.body = body
            /\ attempts' = Append(attempts, [space |-> HomeOf[h.by], body |-> h.body])
            /\ UNCHANGED <<moment, toolEvents, chat>>
        BY <1>4, <2>1, <3>1 DEF CallWriteTool
      <3>3. QED
        BY <2>1, <3>2, CallIssued
    <2>2. CASE u \notin CanWrite
      <3>1. PICK h \in CallRow : h = [step |-> "refused", repeats |-> 0]
        BY <1>2
      <3>2. /\ toolCall' = [toolCall EXCEPT ![c] = h] /\ h.step = "refused"
            /\ UNCHANGED <<moment, toolEvents, chat, attempts>>
        BY <1>4, <2>2, <3>1 DEF CallWriteTool
      <3>3. QED
        BY <3>2, CallGoesOn DEF Asks
    <2>3. QED
      BY <2>1, <2>2
  <1>5. CASE StampCall(c)
    <2>1. /\ j.step = "stamp"
          /\ j \in [step : {"stamp"}, by : CanWrite, body : ScoreBodies, repeats : Nat]
      BY <1>1, <1>5 DEF StampCall, CallRow
    <2>2. [step |-> "insert", by |-> j.by, body |-> j.body, repeats |-> j.repeats, at |-> moment] \in CallRow
      BY <2>1 DEF CallRow, ToolsInv, ToolsTypeOK
    <2>3. PICK h \in CallRow :
            h = [step |-> "insert", by |-> j.by, body |-> j.body, repeats |-> j.repeats, at |-> moment]
      BY <2>2
    <2>4. /\ toolCall' = [toolCall EXCEPT ![c] = h]
          /\ h.step = "insert" /\ h.by = j.by /\ h.body = j.body
          /\ UNCHANGED <<moment, toolEvents, chat, attempts>>
      BY <1>1, <1>5, <2>3 DEF StampCall
    <2>5. \A space \in Spaces, body \in ScoreBodies : Asks(h, space, body) => Asks(toolCall[c], space, body)
      BY <1>1, <2>1, <2>4 DEF Asks
    <2>6. QED
      BY <2>4, <2>5, CallGoesOn
  <1>6. CASE RepeatCall(c)
    <2>1. /\ j.step = "lost"
          /\ j \in [step : {"insert", "answered", "lost"}, by : CanWrite, body : ScoreBodies, repeats : Nat, at : Nat]
      BY <1>1, <1>6 DEF RepeatCall, CallRow
    <2>2. CASE Authenticated(j.by)
      <3>1. j.repeats + 1 \in Nat
        BY <2>1
      <3>2. PICK h \in CallRow :
              h = [step |-> "stamp", by |-> j.by, body |-> j.body, repeats |-> j.repeats + 1]
        BY <1>3, <2>1, <3>1
      <3>3. /\ toolCall' = [toolCall EXCEPT ![c] = h] /\ h.step = "stamp" /\ h.by = j.by /\ h.body = j.body
            /\ attempts' = Append(attempts, [space |-> HomeOf[h.by], body |-> h.body])
            /\ UNCHANGED <<moment, toolEvents, chat>>
        BY <1>1, <1>6, <2>2, <3>2 DEF RepeatCall
      <3>4. QED
        BY <2>1, <3>3, CallIssued
    <2>3. CASE ~Authenticated(j.by)
      <3>1. PICK h \in CallRow : h = [step |-> "refused", repeats |-> j.repeats]
        BY <1>2, <2>1
      <3>2. /\ toolCall' = [toolCall EXCEPT ![c] = h] /\ h.step = "refused"
            /\ UNCHANGED <<moment, toolEvents, chat, attempts>>
        BY <1>1, <1>6, <2>3, <3>1 DEF RepeatCall
      <3>3. QED
        BY <3>2, CallGoesOn DEF Asks
    <2>4. QED
      BY <2>2, <2>3
  <1>7. QED
    BY <1>4, <1>5, <1>6

(* A conversation moves, and appends nothing.                              *)
LEMMA TalkMoves ==
  ASSUME ToolsInv, NEW a \in Chats, NEW h \in TalkRow, TalkHolds(h),
         chat' = [chat EXCEPT ![a] = h], UNCHANGED <<moment, toolEvents, toolCall, attempts>>
  PROVE  ToolsInv'
  <1>1. /\ chat' \in [Chats -> TalkRow] /\ chat'[a] = h
        /\ \A b \in Chats \ {a} : chat'[b] = chat[b]
    BY DEF ToolsInv, ToolsTypeOK
  <1>2. ASSUME NEW b \in Chats PROVE TalkHolds(chat[b])'
    <2>1. TalkHolds(chat'[b])
      BY <1>1 DEF ToolsInv
    <2>2. QED
      BY <2>1 DEF TalkHolds, harvestEvidence, ScoresOf, mcpEventID, ReadOnly
  <1>3. AnswersAreLogged' /\ CallsAreCounted'
    BY DEF ToolsInv, AnswersAreLogged, EventsOf, mcpEventID, CallsAreCounted, Balanced,
       SentEvents, OnTheirWay, Asks, AttemptsAt
  <1>4. ToolsTypeOK'
    BY <1>1 DEF ToolsInv, ToolsTypeOK
  <1>5. QED
    BY <1>2, <1>3, <1>4 DEF ToolsInv

LEMMA TalkKeeps ==
  ASSUME ToolsInv, NEW a \in Chats,
         \/ \E u \in ToolCallers : AskAssistant(a, u)
         \/ ModelAnswers(a) \/ ModelFails(a) \/ RunTool(a) \/ ToolFails(a)
         \/ \E t \in Tools \cup {"unknown"} : ModelCallsTool(a, t)
  PROVE  ToolsInv'
  <1>1. PICK j \in TalkRow : j = chat[a]
    BY DEF ToolsInv, ToolsTypeOK
  <1>2. TalkHolds(j) /\ MaxToolCalls \in Nat
    BY <1>1, ToolsAssumption DEF ToolsInv
  <1>3. j.step = "model" => j \in OpenTalk
    <2>1. NoChat.step = "none" /\ \A b \in BusyTalk : b.step # "model"
      BY DEF NoChat, BusyTalk
    <2>2. QED
      BY <2>1 DEF TalkRow
  <1>4. j.step = "tool" => j \in BusyTalk
    <2>1. NoChat.step = "none" /\ \A b \in OpenTalk : b.step # "tool"
      BY DEF NoChat, OpenTalk
    <2>2. QED
      BY <2>1 DEF TalkRow
  <1>5. \A s \in {"answer", "error"} : j \in OpenTalk => [j EXCEPT !.step = s] \in TalkRow
    BY DEF TalkRow, OpenTalk
  <1>6. j \in BusyTalk => [j EXCEPT !.step = "error"] \in TalkRow
    BY DEF TalkRow, BusyTalk
  <1>7. ASSUME NEW u \in ToolCallers, AskAssistant(a, u) PROVE ToolsInv'
    <2>1. <<>> \in Seq(Tools) /\ {} \in SUBSET EventIds
      OBVIOUS
    <2>2. [step |-> "model", by |-> u, used |-> <<>>, evidence |-> {}] \in OpenTalk
      BY <2>1 DEF OpenTalk
    <2>3. PICK h \in TalkRow : h = [step |-> "model", by |-> u, used |-> <<>>, evidence |-> {}]
      BY <2>2 DEF TalkRow
    <2>4. h.step = "model" /\ h.used = <<>> /\ h.evidence = {}
      BY <2>3
    <2>5. Len(<<>>) = 0 /\ \A i \in DOMAIN h.used : ReadOnly(h.used[i])
      BY <2>4
    <2>6. TalkHolds(h)
      BY <1>2, <2>4, <2>5 DEF TalkHolds
    <2>7. QED
      BY <1>7, <2>3, <2>6, TalkMoves DEF AskAssistant
  <1>8. ASSUME NEW s \in {"answer", "error"}, j.step = "model", Conclude(a, s),
               UNCHANGED <<moment, toolEvents, toolCall, attempts>>
        PROVE  ToolsInv'
    <2>1. PICK h \in TalkRow : h = [j EXCEPT !.step = s]
      BY <1>3, <1>5, <1>8
    <2>2. h.step = s /\ h.by = j.by /\ h.used = j.used /\ h.evidence = j.evidence
      BY <1>3, <1>8, <2>1 DEF OpenTalk
    <2>3. TalkHolds(h)
      BY <1>2, <1>8, <2>2 DEF TalkHolds
    <2>4. chat' = [chat EXCEPT ![a] = h]
      BY <1>1, <1>8, <2>1 DEF Conclude
    <2>5. QED
      BY <1>8, <2>3, <2>4, TalkMoves
  <1>9. ASSUME j.step = "tool", Conclude(a, "error"), UNCHANGED <<moment, toolEvents, toolCall, attempts>>
        PROVE  ToolsInv'
    <2>1. PICK h \in TalkRow : h = [j EXCEPT !.step = "error"]
      BY <1>4, <1>6, <1>9
    <2>2. h.step = "error"
      BY <1>4, <1>9, <2>1 DEF BusyTalk
    <2>3. chat' = [chat EXCEPT ![a] = h] /\ TalkHolds(h)
      BY <1>1, <1>9, <2>1, <2>2 DEF Conclude, TalkHolds
    <2>4. QED
      BY <1>9, <2>3, TalkMoves
  <1>10. ASSUME NEW t \in Tools \cup {"unknown"}, ModelCallsTool(a, t) PROVE ToolsInv'
    <2>1. j.step = "model" /\ j \in OpenTalk /\ UNCHANGED <<moment, toolEvents, toolCall, attempts>>
      BY <1>1, <1>3, <1>10 DEF ModelCallsTool
    <2>2. CASE Len(j.used) < MaxToolCalls /\ ReadOnly(t)
      <3>1. [step |-> "tool", by |-> j.by, used |-> j.used, evidence |-> j.evidence, tool |-> t] \in BusyTalk
        BY <2>1, <2>2 DEF OpenTalk, BusyTalk, ReadOnly
      <3>2. PICK h \in TalkRow :
              h = [step |-> "tool", by |-> j.by, used |-> j.used, evidence |-> j.evidence, tool |-> t]
        BY <3>1 DEF TalkRow
      <3>3. TalkHolds(h)
        BY <1>2, <2>1, <2>2, <3>2 DEF TalkHolds
      <3>4. chat' = [chat EXCEPT ![a] = h]
        BY <1>1, <1>10, <2>2, <3>2 DEF ModelCallsTool
      <3>5. QED
        BY <2>1, <3>3, <3>4, TalkMoves
    <2>3. CASE ~(Len(j.used) < MaxToolCalls /\ ReadOnly(t))
      <3>1. Conclude(a, "error")
        BY <1>1, <1>10, <2>3 DEF ModelCallsTool, Conclude
      <3>2. QED
        BY <1>8, <2>1, <3>1
    <2>4. QED
      BY <2>2, <2>3
  <1>11. CASE RunTool(a)
    <2>1. j.step = "tool" /\ j \in BusyTalk /\ ReadOnly(j.tool) /\ UNCHANGED <<moment, toolCall, attempts>>
      BY <1>1, <1>2, <1>4, <1>11 DEF RunTool, TalkHolds
    <2>2. ~WriteFlag[j.tool]
      BY <2>1 DEF ReadOnly
    <2>3. CASE ~Authenticated(j.by)
      <3>1. Conclude(a, "error") /\ UNCHANGED toolEvents
        BY <1>1, <1>11, <2>3 DEF RunTool
      <3>2. QED
        BY <1>9, <2>1, <3>1
    <2>4. CASE Authenticated(j.by)
      <3>1. /\ UNCHANGED toolEvents
            /\ chat' = [chat EXCEPT ![a] =
                 [step |-> "model", by |-> j.by, used |-> Append(j.used, j.tool),
                  evidence |-> j.evidence \cup harvestEvidence(j.by)]]
        BY <1>1, <1>11, <2>2, <2>4 DEF RunTool
      <3>2. harvestEvidence(j.by) \subseteq EventIds
        <4>1. \A e \in toolEvents : mcpEventID(e) \in EventIds
          BY DEF mcpEventID, EventIds, ToolEventRow, ToolsInv, ToolsTypeOK
        <4>2. QED
          BY <4>1 DEF harvestEvidence, ScoresOf
      <3>3. /\ Append(j.used, j.tool) \in Seq(Tools)
            /\ Len(Append(j.used, j.tool)) = Len(j.used) + 1 /\ Len(j.used) \in Nat
            /\ \A i \in DOMAIN Append(j.used, j.tool) : ReadOnly(Append(j.used, j.tool)[i])
        <4>1. j.used \in Seq(Tools) /\ j.tool \in Tools /\ \A i \in DOMAIN j.used : ReadOnly(j.used[i])
          BY <1>2, <2>1 DEF TalkHolds, BusyTalk
        <4>2. /\ DOMAIN Append(j.used, j.tool) = 1 .. Len(j.used) + 1 /\ DOMAIN j.used = 1 .. Len(j.used)
              /\ Append(j.used, j.tool)[Len(j.used) + 1] = j.tool
              /\ \A i \in 1 .. Len(j.used) : Append(j.used, j.tool)[i] = j.used[i]
          BY <4>1
        <4>3. \A i \in 1 .. Len(j.used) + 1 : i \in 1 .. Len(j.used) \/ i = Len(j.used) + 1
          BY <4>1
        <4>4. \A i \in DOMAIN Append(j.used, j.tool) : ReadOnly(Append(j.used, j.tool)[i])
          BY <2>1, <4>1, <4>2, <4>3
        <4>5. QED
          BY <4>1, <4>4
      <3>4. [step |-> "model", by |-> j.by, used |-> Append(j.used, j.tool),
             evidence |-> j.evidence \cup harvestEvidence(j.by)] \in OpenTalk
        BY <2>1, <3>2, <3>3 DEF OpenTalk, BusyTalk
      <3>5. PICK h \in TalkRow :
              h = [step |-> "model", by |-> j.by, used |-> Append(j.used, j.tool),
                   evidence |-> j.evidence \cup harvestEvidence(j.by)]
        BY <3>4 DEF TalkRow
      <3>6. /\ h.step = "model" /\ h.by = j.by /\ h.used = Append(j.used, j.tool)
            /\ h.evidence = j.evidence \cup harvestEvidence(j.by)
        BY <3>5
      <3>7. TalkHolds(h)
        BY <1>2, <2>1, <3>3, <3>6 DEF TalkHolds
      <3>8. chat' = [chat EXCEPT ![a] = h]
        BY <3>1, <3>5
      <3>9. QED
        BY <2>1, <3>1, <3>7, <3>8, TalkMoves
    <2>5. QED
      BY <2>3, <2>4
  <1>12. CASE ModelAnswers(a) \/ ModelFails(a)
    BY <1>1, <1>8, <1>12 DEF ModelAnswers, ModelFails
  <1>13. CASE ToolFails(a)
    BY <1>1, <1>9, <1>13 DEF ToolFails
  <1>14. QED
    BY <1>7, <1>10, <1>11, <1>12, <1>13

LEMMA ToolsStep ==
  ASSUME ToolsInv, [ToolsNext]_toolVars
  PROVE  ToolsInv'
  <1>1. ASSUME UNCHANGED <<toolEvents, toolCall, chat, attempts>>, moment' \in Nat
        PROVE  ToolsInv'
    BY <1>1 DEF ToolsInv, ToolsTypeOK, AnswersAreLogged, EventsOf, mcpEventID, CallsAreCounted,
       Balanced, SentEvents, OnTheirWay, Asks, AttemptsAt, TalkHolds, harvestEvidence, ScoresOf, ReadOnly
  <1>2. CASE UNCHANGED toolVars
    BY <1>1, <1>2 DEF toolVars, ToolsInv, ToolsTypeOK
  <1>3. CASE MomentPasses
    BY <1>1, <1>3 DEF MomentPasses, ToolsInv, ToolsTypeOK
  <1>4. ASSUME NEW u \in ToolCallers, RevokeCredential(u) PROVE ToolsInv'
    BY <1>1, <1>4 DEF RevokeCredential, ToolsInv, ToolsTypeOK
  <1>5. QED
    BY <1>2, <1>3, <1>4, ToolCallKeeps, CallLands, TalkKeeps DEF ToolsNext

LEMMA ToolsFaithful == ToolsInv => ToolsAreFaithful
  <1> SUFFICES ASSUME ToolsInv PROVE ToolsAreFaithful
    OBVIOUS
  <1>1. \A e \in toolEvents : e.by \in CanWrite /\ e.space = HomeOf[e.by]
    BY DEF ToolsInv, ToolsTypeOK, ToolEventRow
  <1>2. \A c \in ToolCalls : toolCall[c].step = "answered" =>
          \E e \in toolEvents : mcpEventID(e) = <<HomeOf[toolCall[c].by], toolCall[c].body, toolCall[c].at>>
    BY DEF ToolsInv, AnswersAreLogged, EventsOf
  <1>3. ASSUME NEW space \in Spaces, NEW body \in ScoreBodies
        PROVE  Cardinality({e \in toolEvents : e.space = space /\ e.body = body})
                 <= Cardinality({i \in DOMAIN attempts : attempts[i] = [space |-> space, body |-> body]})
    <2>1. Balanced(SentEvents(space, body), OnTheirWay(space, body), AttemptsAt(attempts, space, body))
      BY DEF ToolsInv, CallsAreCounted
    <2>2. /\ Cardinality(SentEvents(space, body)) \in Nat /\ Cardinality(OnTheirWay(space, body)) \in Nat
          /\ Cardinality(AttemptsAt(attempts, space, body)) \in Nat
          /\ Cardinality(SentEvents(space, body)) + Cardinality(OnTheirWay(space, body))
               <= Cardinality(AttemptsAt(attempts, space, body))
      BY <2>1, FS_CardinalityType DEF Balanced
    <2>3. Cardinality(SentEvents(space, body)) <= Cardinality(AttemptsAt(attempts, space, body))
      BY <2>2
    <2>4. AttemptsAt(attempts, space, body)
            = {i \in DOMAIN attempts : attempts[i] = [space |-> space, body |-> body]}
      <3>1. \A i \in DOMAIN attempts : attempts[i] \in AttemptRow
        <4>1. attempts \in Seq(AttemptRow)
          BY DEF ToolsInv, ToolsTypeOK
        <4>2. QED
          BY <4>1
      <3>2. \A x \in AttemptRow :
              x = [space |-> space, body |-> body] <=> x.space = space /\ x.body = body
        BY DEF AttemptRow
      <3>3. QED
        BY <3>1, <3>2 DEF AttemptsAt
    <2>5. QED
      BY <2>3, <2>4 DEF SentEvents
  <1>4. ASSUME NEW a \in Chats, chat[a].step = "answer"
        PROVE  /\ Len(chat[a].used) <= MaxToolCalls
               /\ chat[a].evidence \subseteq harvestEvidence(chat[a].by)
               /\ chat[a].evidence # {} => \E i \in DOMAIN chat[a].used : ReadOnly(chat[a].used[i])
    <2>1. PICK j \in TalkRow : j = chat[a]
      BY DEF ToolsInv, ToolsTypeOK
    <2>2. j.used \in Seq(Tools)
      BY <1>4, <2>1 DEF TalkRow, NoChat, OpenTalk, BusyTalk
    <2>3. 1 <= Len(j.used) => 1 \in DOMAIN j.used
      BY <2>2
    <2>4. TalkHolds(j)
      BY <2>1 DEF ToolsInv
    <2>5. QED
      BY <1>4, <2>1, <2>3, <2>4 DEF TalkHolds
  <1>5. QED
    BY <1>1, <1>2, <1>3, <1>4 DEF ToolsAreFaithful, Spaces

(* An event a tool appended is by a client that could write, in its own    *)
(* workspace and never by a conversation; an answered call is in the log;  *)
(* a payload is there no more often than it was sent, whatever answers are *)
(* lost; and an answer of the assistant rests on no more tools than the    *)
(* budget and on events of its caller's workspace (insertMcpEvent,         *)
(* toolDefsFrom, handleAssistantRoute).                                    *)
THEOREM ToolsStayFaithful == DataSpec => []ToolsAreFaithful
  <1>1. DataInit => ToolsInv
    BY ToolsStart DEF DataInit
  <1>2. ToolsInv /\ [DataNext]_<<part, dataVars>> => ToolsInv'
    BY PartsMove, ToolsStep
  <1>3. QED
    BY <1>1, <1>2, ToolsFaithful, PTL DEF DataSpec
-------------------------------------------------------------------------------
(* The cold tier: any number of sweeps, requests and faults, any sizes of  *)
(* pages and objects.                                                      *)

NameRow == [of : Tenants, min : Nat, max : Nat]
ObjectRow == [name : NameRow, rows : SUBSET Nat]
Cursors == UNION {[T -> Nat] : T \in SUBSET Tenants}
PageJob == [at : {"page"}, made : Nat, todo : Cursors]
PutJob == [at : {"put", "list"}, made : Nat, todo : Cursors, rows : SUBSET Nat]
SweepJob == {Asleep} \cup PageJob \cup PutJob

ExportStep == {"page", "put", "manifest", "drop", "failed", "end"}
ExportJob == [at : ExportStep, of : Tenants, cursor : Nat, lines : SUBSET Nat, since : SUBSET Nat]
ExportRow == [status : {"none", "running", "error"}] \cup [status : {"done"}, count : Nat]

ColdTypeOK ==
  /\ spineOf \in Seq(Tenants) /\ fileList \subseteq NameRow /\ cold \subseteq ObjectRow
  /\ compactor \in [Compactors -> SweepJob]
  /\ export \in [Exporters -> ExportRow]
  /\ download \in [Exporters -> SUBSET Nat]
  /\ exporter \in [Exporters -> [at : {"start"}] \cup ExportJob]
  /\ ackLost \subseteq Exporters

(* The events of a workspace in a range of sequence numbers that the log   *)
(* has reached, and those of its beginning that are in listed objects.     *)
Between(w, low, high) == {n \in RowsOf(w) : low <= n /\ n <= high}
Covered(w, k) ==
  \A n \in RowsOf(w) : n <= k => \E f \in fileList : f.of = w /\ f.min <= n /\ n <= f.max

ObjectsAreRanges ==
  \A o \in cold : o.name.max <= Len(spineOf) /\ o.rows = Between(o.name.of, o.name.min, o.name.max)
FilesAreWhole ==
  \A f \in fileList : Covered(f.of, f.max) /\ \E o \in cold : o.name = f

(* A sweep leaves nothing behind its cursors, and holds all the events     *)
(* from the cursor to the last that it read.                               *)
Sweeps(job) ==
  job # Asleep =>
    /\ DOMAIN job.todo # {}
    /\ \A w \in DOMAIN job.todo : job.todo[w] <= Len(spineOf) /\ Covered(w, job.todo[w])
    /\ job.at \in {"put", "list"} =>
         /\ job.rows # {} /\ job.rows \subseteq RowsOf(Here(job))
         /\ job.rows = Between(Here(job), job.todo[Here(job)] + 1, Max(job.rows))
    /\ job.at = "list" => \E o \in cold : o.name = ObjectName(Here(job), job.rows)

(* An export has every event up to its cursor, all it was asked for once   *)
(* it writes, and an outcome only where it stops or lost its manifest.     *)
Standing(e, job, row, kept, lost) ==
  LET whole == job.since \subseteq job.lines /\ Cardinality(job.lines) <= ExportRows
      written == whole /\ kept = job.lines
  IN /\ job.at = "start" => row.status = "none"
     /\ job.at # "start" =>
          /\ job.cursor <= Len(spineOf) /\ job.cursor \in job.lines \cup {0}
          /\ job.lines = Between(job.of, 0, job.cursor) /\ job.since \subseteq RowsOf(job.of)
     /\ job.at \in {"page", "put", "manifest"} => row.status = "running"
     /\ job.at \in {"drop", "failed"} => row.status = "running" \/ e \in lost
     /\ job.at = "put" => whole
     /\ job.at = "manifest" => written
     /\ row.status = "done" /\ e \notin lost =>
          job.at = "end" /\ written /\ row.count = Cardinality(job.lines)
ExportStands(e) == Standing(e, exporter[e], export[e], download[e], ackLost)

ColdTierInv ==
  /\ ColdTypeOK /\ ObjectsAreRanges /\ FilesAreWhole
  /\ \A c \in Compactors : Sweeps(compactor[c])
  /\ \A e \in Exporters : ExportStands(e)

-------------------------------------------------------------------------------
(* Pages                                                                   *)

LEMMA RowsAreLogged ==
  ASSUME ColdTypeOK
  PROVE  /\ Len(spineOf) \in Nat
         /\ \A w : RowsOf(w) \subseteq 1 .. Len(spineOf) /\ IsFiniteSet(RowsOf(w))
  <1>1. Len(spineOf) \in Nat /\ DOMAIN spineOf = 1 .. Len(spineOf)
    BY DEF ColdTypeOK
  <1>2. IsFiniteSet(1 .. Len(spineOf))
    BY <1>1, FS_Interval
  <1>3. \A w : RowsOf(w) \subseteq 1 .. Len(spineOf)
    BY <1>1 DEF RowsOf
  <1>4. QED
    BY <1>1, <1>2, <1>3, FS_Subset

(* A page has no gap, and one that is not full is all the rest.            *)
LEMMA PagesHaveNoGap ==
  ASSUME NEW all \in SUBSET Nat, IsFiniteSet(all), NEW k \in Nat, NEW limit \in Nat \ {0}
  PROVE  /\ Page(all, k, limit) \subseteq all /\ \A n \in Page(all, k, limit) : n > k
         /\ \A m \in Page(all, k, limit), n \in all : k < n /\ n <= m => n \in Page(all, k, limit)
         /\ Cardinality(Page(all, k, limit)) < limit => \A n \in all : n > k => n \in Page(all, k, limit)
  <1> DEFINE rest == {n \in all : n > k}
             UpTo(n) == {m \in rest : m <= n}
             rows == Page(all, k, limit)
  <1>1. IsFiniteSet(rest) /\ rest \subseteq Nat
    <2>1. rest \subseteq all
      OBVIOUS
    <2>2. QED
      BY <2>1, FS_Subset
  <1>2. rows = {n \in rest : Cardinality(UpTo(n)) <= limit}
    BY DEF Page
  <1>3. \A n \in rest : IsFiniteSet(UpTo(n)) /\ Cardinality(UpTo(n)) \in Nat
    <2>1. \A n \in rest : UpTo(n) \subseteq rest
      OBVIOUS
    <2>2. QED
      BY <1>1, <2>1, FS_Subset, FS_CardinalityType
  <1>4. ASSUME NEW m \in rows, NEW n \in all, k < n, n <= m
        PROVE  n \in rows
    <2>1. n \in rest /\ m \in rest
      BY <1>2, <1>4
    <2>2. UpTo(n) \subseteq UpTo(m)
      BY <1>1, <1>4, <2>1
    <2>3. Cardinality(UpTo(n)) <= Cardinality(UpTo(m))
      BY <1>3, <2>1, <2>2, FS_Subset
    <2>4. Cardinality(UpTo(n)) <= limit
      <3>1. Cardinality(UpTo(n)) \in Nat /\ Cardinality(UpTo(m)) \in Nat /\ Cardinality(UpTo(m)) <= limit
        BY <1>2, <1>3, <2>1
      <3> HIDE DEF UpTo
      <3>2. QED
        BY <2>3, <3>1
    <2>5. QED
      BY <1>2, <2>1, <2>4
  <1>5. ASSUME Cardinality(rows) < limit, rest \ rows # {}
        PROVE  FALSE
    <2> DEFINE x == Min(rest \ rows)
    <2>1. x \in rest /\ x \notin rows /\ \A n \in rest : n \notin rows => x <= n
      <3>1. rest \ rows \in SUBSET Nat
        BY <1>1
      <3>2. QED
        BY <1>5, <3>1, LeastOfSome
    <2>2. IsFiniteSet(rows) /\ Cardinality(rows) \in Nat
      BY <1>1, <1>2, FS_Subset, FS_CardinalityType
    <2>3. IsFiniteSet(rows \cup {x}) /\ Cardinality(rows \cup {x}) = Cardinality(rows) + 1
      BY <2>1, <2>2, FS_AddElement
    <2> HIDE DEF x, rows
    <2>4. UpTo(x) \subseteq rows \cup {x}
      <3>1. \A n \in UpTo(x) : n \in rest /\ n \in Nat /\ x \in Nat /\ n <= x
        BY <1>1, <2>1
      <3>2. \A n \in UpTo(x) : n = x \/ n \in rows
        BY <2>1, <3>1
      <3>3. QED
        BY <3>2
    <2>5. Cardinality(UpTo(x)) <= Cardinality(rows) + 1
      BY <2>3, <2>4, FS_Subset
    <2>6. Cardinality(UpTo(x)) <= limit
      BY <1>3, <1>5, <2>1, <2>2, <2>5
    <2>7. QED
      BY <1>2, <2>1, <2>6
  <1>6. QED
    BY <1>2, <1>4, <1>5

LEMMA JobIsTyped ==
  ASSUME NEW job \in PageJob \cup PutJob, DOMAIN job.todo # {}
  PROVE  /\ DOMAIN job.todo \subseteq Tenants /\ job.todo \in [DOMAIN job.todo -> Nat]
         /\ job.todo \in Cursors /\ Here(job) \in DOMAIN job.todo
  <1>1. job.todo \in Cursors
    BY DEF PageJob, PutJob
  <1>2. PICK T \in SUBSET Tenants : job.todo \in [T -> Nat]
    BY <1>1 DEF Cursors
  <1>3. DOMAIN job.todo = T
    BY <1>2
  <1>4. T \in SUBSET Nat
    BY ColdTierAssumptions
  <1>5. Here(job) \in T
    BY <1>3, <1>4, LeastOfSome DEF Here
  <1>6. QED
    BY <1>1, <1>2, <1>3, <1>5

LEMMA LastRow ==
  ASSUME ColdTypeOK, NEW w, NEW rows \in SUBSET RowsOf(w), rows # {}
  PROVE  /\ Max(rows) \in rows /\ Max(rows) \in Nat /\ Max(rows) <= Len(spineOf)
         /\ Min(rows) \in rows /\ Min(rows) \in Nat
         /\ \A n \in rows : Min(rows) <= n /\ n <= Max(rows)
  <1>1. Len(spineOf) \in Nat /\ rows \subseteq 1 .. Len(spineOf)
    BY RowsAreLogged
  <1>2. rows \in SUBSET (0 .. Len(spineOf)) /\ rows \in SUBSET Nat
    <2>1. \A n \in 1 .. Len(spineOf) : n \in Nat /\ n \in 0 .. Len(spineOf) /\ n <= Len(spineOf)
      BY <1>1
    <2>2. QED
      BY <1>1, <2>1
  <1>3. Max(rows) \in rows /\ \A n \in rows : n <= Max(rows)
    BY <1>1, <1>2, GreatestOfSome
  <1>4. Min(rows) \in rows /\ \A n \in rows : Min(rows) <= n
    BY <1>2, LeastOfSome
  <1>5. \A n \in rows : n \in Nat /\ n <= Len(spineOf)
    BY <1>1, <1>2
  <1>6. QED
    BY <1>3, <1>4, <1>5

-------------------------------------------------------------------------------
(* The log grows                                                           *)

LEMMA RowArrives ==
  ASSUME ColdTypeOK, NEW x \in Tenants, spineOf' = Append(spineOf, x)
  PROVE  /\ spineOf' \in Seq(Tenants) /\ Len(spineOf') = Len(spineOf) + 1
         /\ \A w : RowsOf(w) \subseteq RowsOf(w)'
         /\ \A w : \A n \in RowsOf(w)' : n <= Len(spineOf) => n \in RowsOf(w)
  <1>1. spineOf \in Seq(Tenants)
    BY DEF ColdTypeOK
  <1>2. /\ spineOf' \in Seq(Tenants) /\ Len(spineOf) \in Nat /\ Len(spineOf') = Len(spineOf) + 1
        /\ DOMAIN spineOf = 1 .. Len(spineOf) /\ DOMAIN spineOf' = 1 .. (Len(spineOf) + 1)
        /\ \A n \in 1 .. Len(spineOf) : spineOf'[n] = spineOf[n]
    BY <1>1
  <1>3. QED
    BY <1>2 DEF RowsOf

LEMMA RangesStay ==
  ASSUME ColdTypeOK, NEW x \in Tenants, spineOf' = Append(spineOf, x), fileList' = fileList
  PROVE  \A w, high : high \in Nat /\ high <= Len(spineOf) =>
           /\ \A low : Between(w, low, high)' = Between(w, low, high)
           /\ Covered(w, high) => Covered(w, high)'
  <1> SUFFICES ASSUME NEW w, NEW high \in Nat, high <= Len(spineOf)
               PROVE  /\ \A low : Between(w, low, high)' = Between(w, low, high)
                      /\ Covered(w, high) => Covered(w, high)'
    OBVIOUS
  <1>1. /\ RowsOf(w) \subseteq RowsOf(w)' /\ Len(spineOf') = Len(spineOf) + 1
        /\ \A n \in RowsOf(w)' : n <= Len(spineOf) => n \in RowsOf(w)
    BY RowArrives
  <1>2. \A n \in RowsOf(w)' : n <= high => n \in RowsOf(w)
    <2>1. RowsOf(w)' \subseteq Nat
      BY RowArrives DEF RowsOf
    <2>2. Len(spineOf) \in Nat
      BY RowsAreLogged
    <2>3. QED
      BY <1>1, <2>1, <2>2
  <1>3. \A low : Between(w, low, high)' = Between(w, low, high)
    BY <1>1, <1>2 DEF Between
  <1>4. Covered(w, high) => Covered(w, high)'
    BY <1>1, <1>2 DEF Covered
  <1>5. QED
    BY <1>3, <1>4

LEMMA RowsKeep ==
  ASSUME ColdTierInv, NEW x \in Tenants, AppendRow(x)
  PROVE  ColdTierInv'
  <1>1. /\ spineOf' = Append(spineOf, x)
        /\ UNCHANGED <<fileList, cold, compactor, export, download, exporter, ackLost>>
    BY DEF AppendRow, exportVars
  <1>2. ColdTypeOK
    BY DEF ColdTierInv
  <1>3. /\ spineOf' \in Seq(Tenants) /\ Len(spineOf') = Len(spineOf) + 1 /\ Len(spineOf) \in Nat
        /\ \A w : RowsOf(w) \subseteq RowsOf(w)'
    BY <1>1, <1>2, RowArrives, RowsAreLogged
  <1>4. \A w, high : high \in Nat /\ high <= Len(spineOf) =>
          /\ \A low : Between(w, low, high)' = Between(w, low, high)
          /\ Covered(w, high) => Covered(w, high)'
    BY <1>1, <1>2, RangesStay
  <1>5. ObjectsAreRanges'
    <2> SUFFICES ASSUME NEW o \in cold
                 PROVE  o.name.max <= Len(spineOf') /\ o.rows = Between(o.name.of, o.name.min, o.name.max)'
      BY <1>1 DEF ObjectsAreRanges
    <2>1. o.name.max \in Nat
      BY <1>2 DEF ColdTypeOK, ObjectRow, NameRow
    <2>2. o.name.max <= Len(spineOf) /\ o.rows = Between(o.name.of, o.name.min, o.name.max)
      BY DEF ColdTierInv, ObjectsAreRanges
    <2>3. PICK k \in Nat : k = o.name.max
      BY <2>1
    <2>4. k <= Len(spineOf) /\ o.rows = Between(o.name.of, o.name.min, k)
      BY <2>2, <2>3
    <2>5. Between(o.name.of, o.name.min, k)' = Between(o.name.of, o.name.min, k)
      BY <1>4, <2>4, Zenon
    <2>6. QED
      BY <1>3, <2>3, <2>4, <2>5
  <1>6. FilesAreWhole'
    <2> SUFFICES ASSUME NEW f \in fileList
                 PROVE  Covered(f.of, f.max)' /\ \E o \in cold : o.name = f
      BY <1>1 DEF FilesAreWhole
    <2>1. f.max \in Nat
      BY <1>2 DEF ColdTypeOK, NameRow
    <2>2. Covered(f.of, f.max) /\ \E o \in cold : o.name = f /\ o.name.max <= Len(spineOf)
      BY DEF ColdTierInv, FilesAreWhole, ObjectsAreRanges
    <2>3. QED
      BY <1>4, <2>1, <2>2
  <1>7. ASSUME NEW c \in Compactors PROVE Sweeps(compactor[c])'
    <2> SUFFICES ASSUME NEW job \in PageJob \cup PutJob, job = compactor[c], job # Asleep, Sweeps(job)
                 PROVE  Sweeps(job)'
      BY <1>1, <1>2 DEF ColdTierInv, ColdTypeOK, SweepJob, Sweeps
    <2>1. /\ DOMAIN job.todo # {} /\ job.todo \in [DOMAIN job.todo -> Nat]
          /\ Here(job) \in DOMAIN job.todo
      BY JobIsTyped DEF Sweeps
    <2>2. \A w \in DOMAIN job.todo : job.todo[w] <= Len(spineOf') /\ Covered(w, job.todo[w])'
      <3>1. ASSUME NEW w \in DOMAIN job.todo PROVE job.todo[w] <= Len(spineOf') /\ Covered(w, job.todo[w])'
        <4>1. job.todo[w] \in Nat /\ job.todo[w] <= Len(spineOf) /\ Covered(w, job.todo[w])
          BY <2>1 DEF Sweeps
        <4>2. QED
          BY <1>3, <1>4, <4>1
      <3>2. QED
        BY <3>1
    <2>3. ASSUME job.at \in {"put", "list"}
          PROVE  /\ job.rows # {} /\ job.rows \subseteq RowsOf(Here(job))'
                 /\ job.rows = Between(Here(job), job.todo[Here(job)] + 1, Max(job.rows))'
      <3>1. /\ job.rows # {} /\ job.rows \subseteq RowsOf(Here(job))
            /\ job.rows = Between(Here(job), job.todo[Here(job)] + 1, Max(job.rows))
        BY <2>3 DEF Sweeps
      <3>2. Max(job.rows) \in Nat /\ Max(job.rows) <= Len(spineOf)
        BY <1>2, <3>1, LastRow
      <3>3. QED
        BY <1>3, <1>4, <3>1, <3>2
    <2>4. QED
      BY <1>1, <2>1, <2>2, <2>3 DEF Sweeps
  <1>8. ASSUME NEW e \in Exporters PROVE ExportStands(e)'
    <2>1. ExportStands(e)
      BY DEF ColdTierInv
    <2>2. exporter[e].at # "start" => exporter[e] \in ExportJob /\ exporter[e].cursor \in Nat
      BY <1>2 DEF ColdTypeOK, ExportJob
    <2>3. exporter[e].at # "start" =>
            /\ exporter[e].cursor <= Len(spineOf') /\ exporter[e].since \subseteq RowsOf(exporter[e].of)'
            /\ exporter[e].lines = Between(exporter[e].of, 0, exporter[e].cursor)'
      <3> SUFFICES ASSUME exporter[e].at # "start"
                   PROVE  /\ exporter[e].cursor <= Len(spineOf') /\ exporter[e].since \subseteq RowsOf(exporter[e].of)'
                          /\ exporter[e].lines = Between(exporter[e].of, 0, exporter[e].cursor)'
        OBVIOUS
      <3>1. /\ exporter[e].cursor <= Len(spineOf) /\ exporter[e].since \subseteq RowsOf(exporter[e].of)
            /\ exporter[e].lines = Between(exporter[e].of, 0, exporter[e].cursor)
        BY <2>1 DEF ExportStands, Standing
      <3>2. PICK job \in ExportJob : job = exporter[e]
        BY <2>2
      <3>3. PICK k \in Nat : k = job.cursor
        BY <3>2 DEF ExportJob
      <3>4. k <= Len(spineOf) /\ job.since \subseteq RowsOf(job.of) /\ job.lines = Between(job.of, 0, k)
        BY <3>1, <3>2, <3>3
      <3>5. Between(job.of, 0, k)' = Between(job.of, 0, k)
        BY <1>4, <3>4, Zenon
      <3>6. RowsOf(job.of) \subseteq RowsOf(job.of)'
        BY <1>3
      <3>7. job.lines = Between(job.of, 0, job.cursor)' /\ job.since \subseteq RowsOf(job.of)'
        BY <3>3, <3>4, <3>5, <3>6
      <3>8. QED
        BY <1>1, <1>3, <3>2, <3>3, <3>4, <3>7
    <2>4. QED
      BY <1>1, <2>1, <2>3 DEF ExportStands, Standing
  <1>9. ColdTypeOK'
    BY <1>1, <1>2, <1>3 DEF ColdTypeOK
  <1>10. QED
    BY <1>5, <1>6, <1>7, <1>8, <1>9 DEF ColdTierInv

-------------------------------------------------------------------------------
(* Steps of a sweep                                                        *)

LEMMA SweepsRemain ==
  ASSUME UNCHANGED spineOf, fileList \subseteq fileList', cold \subseteq cold'
  PROVE  /\ \A w : RowsOf(w)' = RowsOf(w)
         /\ \A w, low, high : Between(w, low, high)' = Between(w, low, high)
         /\ \A w, k : Covered(w, k) => Covered(w, k)'
         /\ \A job : Sweeps(job) => Sweeps(job)'
  <1>1. \A w : RowsOf(w)' = RowsOf(w)
    BY DEF RowsOf
  <1>2. \A w, low, high : Between(w, low, high)' = Between(w, low, high)
    BY <1>1 DEF Between
  <1>3. \A w, k : Covered(w, k) => Covered(w, k)'
    BY <1>1 DEF Covered
  <1>4. ASSUME NEW job, Sweeps(job) PROVE Sweeps(job)'
    BY <1>1, <1>2, <1>3, <1>4 DEF Sweeps
  <1>5. QED
    BY <1>1, <1>2, <1>3, <1>4

LEMMA SweepMoves ==
  ASSUME ColdTierInv, NEW c \in Compactors, NEW h \in SweepJob, CompactorGoto(c, h),
         UNCHANGED <<spineOf, exportVars>>,
         fileList \subseteq fileList', fileList' \subseteq NameRow,
         cold \subseteq cold', cold' \subseteq ObjectRow,
         ObjectsAreRanges', FilesAreWhole', Sweeps(h)'
  PROVE  ColdTierInv'
  <1>1. /\ compactor' \in [Compactors -> SweepJob] /\ compactor'[c] = h
        /\ \A d \in Compactors : d # c => compactor'[d] = compactor[d]
    BY DEF ColdTierInv, ColdTypeOK, CompactorGoto
  <1>2. UNCHANGED <<spineOf, export, download, exporter, ackLost>>
    BY DEF exportVars
  <1>3. \A d \in Compactors : Sweeps(compactor[d])'
    <2>1. ASSUME NEW d \in Compactors PROVE Sweeps(compactor[d])'
      <3>1. CASE d = c
        BY <1>1, <3>1 DEF Sweeps
      <3>2. CASE d # c
        <4>1. PICK job \in SweepJob : job = compactor[d]
          BY DEF ColdTierInv, ColdTypeOK
        <4>2. Sweeps(job)
          BY <4>1 DEF ColdTierInv
        <4>3. Sweeps(job)'
          BY <4>2, SweepsRemain
        <4>4. QED
          BY <1>1, <3>2, <4>1, <4>3 DEF Sweeps
      <3>3. QED
        BY <3>1, <3>2
    <2>2. QED
      BY <2>1
  <1>4. \A e \in Exporters : ExportStands(e)'
    BY <1>2, SweepsRemain DEF ColdTierInv, ExportStands, Standing, Between, RowsOf
  <1>5. ColdTypeOK'
    BY <1>1, <1>2 DEF ColdTierInv, ColdTypeOK
  <1>6. QED
    BY <1>3, <1>4, <1>5 DEF ColdTierInv

(* A step that writes nothing.                                             *)
LEMMA SweepLooks ==
  ASSUME ColdTierInv, NEW c \in Compactors, NEW h \in SweepJob, CompactorGoto(c, h),
         UNCHANGED <<spineOf, fileList, cold, exportVars>>, Sweeps(h)
  PROVE  ColdTierInv'
  <1>1. /\ ObjectsAreRanges /\ FilesAreWhole /\ fileList \subseteq NameRow /\ cold \subseteq ObjectRow
        /\ UNCHANGED <<spineOf, fileList, cold>>
    BY DEF ColdTierInv, ColdTypeOK
  <1>2. Sweeps(h)'
    BY <1>1, SweepsRemain
  <1>3. ObjectsAreRanges'
    BY <1>1 DEF ObjectsAreRanges, Between, RowsOf
  <1>4. FilesAreWhole'
    BY <1>1 DEF FilesAreWhole, Covered, RowsOf
  <1>5. QED
    BY <1>1, <1>2, <1>3, <1>4, SweepMoves

LEMMA AsleepSweeps == Asleep \in SweepJob /\ Sweeps(Asleep)
  BY DEF SweepJob, Sweeps

(* The next workspace of a sweep that leaves nothing behind its cursors.   *)
LEMMA NextTenantGoes ==
  ASSUME NEW c \in Compactors, NEW job \in PageJob \cup PutJob, DOMAIN job.todo # {},
         \A w \in DOMAIN job.todo : job.todo[w] <= Len(spineOf) /\ Covered(w, job.todo[w]),
         NextTenant(c, job)
  PROVE  \E h \in SweepJob : CompactorGoto(c, h) /\ Sweeps(h)
  <1>1. CASE CompactorRests(c)
    BY <1>1, AsleepSweeps DEF CompactorRests
  <1>2. CASE ~CompactorRests(c)
    <2> DEFINE next == [w \in Others(job) |-> job.todo[w]]
               h == [at |-> "page", made |-> job.made, todo |-> next]
    <2>1. Others(job) # {} /\ CompactorGoto(c, h)
      BY <1>2 DEF NextTenant
    <2>2. Others(job) \subseteq DOMAIN job.todo
      BY DEF Others
    <2>3. DOMAIN job.todo \subseteq Tenants /\ job.todo \in [DOMAIN job.todo -> Nat]
      BY JobIsTyped
    <2>4. next \in [Others(job) -> Nat] /\ Others(job) \in SUBSET Tenants
      BY <2>2, <2>3
    <2>5. next \in Cursors
      BY <2>4 DEF Cursors
    <2>6. job.made \in Nat
      BY DEF PageJob, PutJob
    <2>7. h \in SweepJob
      BY <2>5, <2>6 DEF SweepJob, PageJob
    <2>8. Sweeps(h)
      <3>1. h.at = "page" /\ h.todo = next /\ DOMAIN next = Others(job)
        OBVIOUS
      <3>2. \A w \in DOMAIN next : next[w] <= Len(spineOf) /\ Covered(w, next[w])
        BY <2>2
      <3> HIDE DEF h, next
      <3>3. QED
        BY <2>1, <3>1, <3>2 DEF Sweeps
    <2>9. QED
      BY <2>1, <2>7, <2>8
  <1>3. QED
    BY <1>1, <1>2

(* No sweep looks again below the watermark, and nothing is missing there. *)
LEMMA WatermarkCovers ==
  ASSUME ColdTierInv, NEW w \in Tenants
  PROVE  Watermark(w) \in Nat /\ Watermark(w) <= Len(spineOf) /\ Covered(w, Watermark(w))
  <1> DEFINE S == {f.max : f \in {g \in fileList : g.of = w}} \cup {0}
  <1>1. /\ Len(spineOf) \in Nat /\ RowsOf(w) \subseteq 1 .. Len(spineOf)
    BY RowsAreLogged DEF ColdTierInv
  <1>2. \A f \in fileList : f.max \in Nat /\ f.max <= Len(spineOf) /\ Covered(f.of, f.max)
    <2>1. \A f \in fileList : f.max \in Nat
      BY DEF ColdTierInv, ColdTypeOK, NameRow
    <2>2. QED
      BY <2>1 DEF ColdTierInv, FilesAreWhole, ObjectsAreRanges
  <1>3. S \in SUBSET (0 .. Len(spineOf)) /\ S # {}
    <2>1. \A n \in S : n \in 0 .. Len(spineOf)
      BY <1>1, <1>2
    <2>2. QED
      BY <2>1
  <1>4. Max(S) \in S
    BY <1>1, <1>3, GreatestOfSome
  <1>5. CASE Max(S) = 0
    <2>1. Watermark(w) = 0
      BY <1>5 DEF Watermark
    <2>2. \A n \in RowsOf(w) : ~(n <= 0)
      BY <1>1
    <2>3. QED
      BY <1>1, <2>1, <2>2 DEF Covered
  <1>6. CASE Max(S) # 0
    <2>1. PICK f \in fileList : f.of = w /\ Max(S) = f.max
      BY <1>4, <1>6
    <2>2. QED
      BY <1>2, <2>1 DEF Watermark
  <1>7. QED
    BY <1>5, <1>6

LEMMA FirstPendingCovers ==
  ASSUME ColdTierInv, NEW w \in Tenants, Pending(w) # {}
  PROVE  BeforeFirst(w) \in Nat /\ BeforeFirst(w) <= Len(spineOf) /\ Covered(w, BeforeFirst(w))
  <1>1. Watermark(w) \in Nat /\ Covered(w, Watermark(w))
    BY WatermarkCovers
  <1>2. Len(spineOf) \in Nat /\ RowsOf(w) \subseteq 1 .. Len(spineOf)
    BY RowsAreLogged DEF ColdTierInv
  <1>3. Pending(w) \subseteq RowsOf(w) /\ Pending(w) \in SUBSET Nat
    BY <1>2 DEF Pending
  <1>4. PICK m \in Nat : m = Min(Pending(w)) /\ m \in Pending(w) /\ \A n \in Pending(w) : m <= n
    <2>1. Min(Pending(w)) \in Pending(w) /\ \A n \in Pending(w) : Min(Pending(w)) <= n
      BY <1>3, LeastOfSome
    <2>2. QED
      BY <1>3, <2>1
  <1>5. m \in 1 .. Len(spineOf)
    BY <1>2, <1>3, <1>4
  <1>6. ASSUME NEW n \in RowsOf(w), n <= m - 1 PROVE n <= Watermark(w)
    <2>1. n \in Nat
      BY <1>2
    <2>2. n \notin Pending(w)
      BY <1>4, <1>6, <2>1
    <2>3. QED
      BY <1>1, <2>1, <2>2 DEF Pending
  <1>7. Covered(w, m - 1)
    BY <1>1, <1>6 DEF Covered
  <1>8. QED
    BY <1>2, <1>4, <1>5, <1>7 DEF BeforeFirst

LEMMA StartKeepsCold ==
  ASSUME ColdTierInv, NEW c \in Compactors, StartCompaction(c)
  PROVE  ColdTierInv'
  <1> DEFINE todo == [w \in Candidates |-> BeforeFirst(w)]
             h == [at |-> "page", made |-> 0, todo |-> todo]
  <1>1. Candidates # {} /\ CompactorGoto(c, h) /\ UNCHANGED <<spineOf, fileList, cold, exportVars>>
    BY DEF StartCompaction
  <1>2. Candidates \in SUBSET Tenants /\ \A w \in Candidates : Pending(w) # {}
    BY DEF Candidates, Candidate
  <1>3. \A w \in Candidates :
          BeforeFirst(w) \in Nat /\ BeforeFirst(w) <= Len(spineOf) /\ Covered(w, BeforeFirst(w))
    BY <1>2, FirstPendingCovers
  <1>4. todo \in Cursors
    BY <1>2, <1>3 DEF Cursors
  <1>5. h \in SweepJob
    BY <1>4 DEF SweepJob, PageJob
  <1>6. h.at = "page" /\ h.todo = todo /\ DOMAIN todo = Candidates
        /\ \A w \in Candidates : todo[w] <= Len(spineOf) /\ Covered(w, todo[w])
    BY <1>3
  <1> HIDE DEF h, todo
  <1>7. Sweeps(h)
    BY <1>1, <1>6 DEF Sweeps
  <1>8. QED
    BY <1>1, <1>5, <1>7, SweepLooks

(* What is known of a sweep at work, and of its workspace at hand.         *)
LEMMA JobAtHand ==
  ASSUME ColdTierInv, NEW c \in Compactors, compactor[c].at # "asleep"
  PROVE  LET job == compactor[c]
             w == Here(job)
         IN /\ job \in PageJob \cup PutJob /\ Sweeps(job) /\ DOMAIN job.todo # {}
            /\ job.at # "page" => job \in PutJob
            /\ \A v \in DOMAIN job.todo : job.todo[v] <= Len(spineOf) /\ Covered(v, job.todo[v])
            /\ w \in DOMAIN job.todo /\ w \in Tenants
            /\ job.todo[w] \in Nat /\ Covered(w, job.todo[w])
            /\ job.todo \in Cursors
  <1>1. compactor[c] \in PageJob \cup PutJob /\ compactor[c] # Asleep /\ Sweeps(compactor[c])
    BY DEF ColdTierInv, ColdTypeOK, SweepJob, Asleep
  <1>2. PICK job \in PageJob \cup PutJob : job = compactor[c]
    BY <1>1
  <1>3. /\ DOMAIN job.todo # {}
        /\ \A v \in DOMAIN job.todo : job.todo[v] <= Len(spineOf) /\ Covered(v, job.todo[v])
    BY <1>1, <1>2 DEF Sweeps
  <1>4. /\ DOMAIN job.todo \subseteq Tenants /\ job.todo \in [DOMAIN job.todo -> Nat]
        /\ job.todo \in Cursors /\ Here(job) \in DOMAIN job.todo
    BY <1>3, JobIsTyped
  <1>5. job.at # "page" => job \in PutJob
    BY DEF PageJob
  <1>6. QED
    BY <1>1, <1>2, <1>3, <1>4, <1>5

LEMMA ReadKeepsCold ==
  ASSUME ColdTierInv, NEW c \in Compactors, ReadObjectRows(c)
  PROVE  ColdTierInv'
  <1>1. compactor[c].at = "page" /\ UNCHANGED <<spineOf, fileList, cold, exportVars>>
    BY DEF ReadObjectRows
  <1>2. PICK job \in PageJob \cup PutJob : job = compactor[c]
    BY <1>1, JobAtHand
  <1> DEFINE w == Here(job)
             rows == Page(RowsOf(w), job.todo[w], ObjectRows)
             h == [at |-> "put", made |-> job.made, todo |-> job.todo, rows |-> rows]
  <1>3. /\ DOMAIN job.todo # {} /\ w \in DOMAIN job.todo /\ job.todo[w] \in Nat /\ job.todo \in Cursors
        /\ \A v \in DOMAIN job.todo : job.todo[v] <= Len(spineOf) /\ Covered(v, job.todo[v])
    BY <1>1, <1>2, JobAtHand
  <1>4. rows = {} => NextTenant(c, job)
    BY <1>2 DEF ReadObjectRows
  <1>5. rows # {} => CompactorGoto(c, h)
    BY <1>2 DEF ReadObjectRows
  <1>6. CASE rows = {}
    <2>1. PICK g \in SweepJob : CompactorGoto(c, g) /\ Sweeps(g)
      BY <1>3, <1>4, <1>6, NextTenantGoes
    <2>2. QED
      BY <1>1, <2>1, SweepLooks
  <1>7. CASE rows # {}
    <2>1. ColdTypeOK /\ ObjectRows \in Nat \ {0}
      BY ColdTierAssumptions DEF ColdTierInv
    <2>2. RowsOf(w) \in SUBSET Nat /\ IsFiniteSet(RowsOf(w))
      <3>1. RowsOf(w) \subseteq 1 .. Len(spineOf) /\ IsFiniteSet(RowsOf(w)) /\ Len(spineOf) \in Nat
        BY <2>1, RowsAreLogged
      <3>2. QED
        BY <3>1
    <2>3. /\ rows \subseteq RowsOf(w) /\ \A n \in rows : n > job.todo[w]
          /\ \A m \in rows, n \in RowsOf(w) : job.todo[w] < n /\ n <= m => n \in rows
      BY <1>3, <2>1, <2>2, PagesHaveNoGap
    <2>4. Max(rows) \in rows /\ Max(rows) \in Nat /\ \A n \in rows : n <= Max(rows)
      BY <1>7, <2>1, <2>3, LastRow
    <2>5. PICK k \in Nat : k = job.todo[w]
      BY <1>3
    <2> HIDE DEF rows
    <2>6. \A n \in RowsOf(w) : n \in rows <=> k + 1 <= n /\ n <= Max(rows)
      BY <2>2, <2>3, <2>4, <2>5
    <2>7. rows = Between(w, job.todo[w] + 1, Max(rows))
      BY <2>3, <2>5, <2>6 DEF Between
    <2>8. job.made \in Nat /\ rows \in SUBSET Nat
      BY <2>2, <2>3 DEF PageJob, PutJob
    <2>9. h \in PutJob
      BY <1>3, <2>8 DEF PutJob
    <2>10. Here(h) = w /\ h.todo = job.todo /\ h.rows = rows /\ h.at = "put"
      BY DEF Here
    <2> HIDE DEF h, w
    <2>11. Sweeps(h)
      BY <1>3, <1>7, <2>3, <2>7, <2>10 DEF Sweeps
    <2>12. QED
      BY <1>1, <1>5, <1>7, <2>9, <2>11, SweepLooks DEF SweepJob
  <1>8. QED
    BY <1>6, <1>7

(* The rows a sweep holds are the range that its object is named after.    *)
LEMMA RowsAtHand ==
  ASSUME ColdTierInv, NEW job \in PutJob, Sweeps(job)
  PROVE  LET w == Here(job)
             name == ObjectName(w, job.rows)
         IN /\ w \in DOMAIN job.todo /\ job.todo[w] \in Nat /\ w \in Tenants
            /\ name \in NameRow /\ name.of = w /\ name.max = Max(job.rows)
            /\ name.max <= Len(spineOf) /\ job.rows \in SUBSET Nat
            /\ job.rows = Between(w, name.min, name.max)
            /\ \A n \in RowsOf(w) : n <= name.max /\ n > job.todo[w] => name.min <= n
  <1> DEFINE w == Here(job)
             name == ObjectName(w, job.rows)
  <1>1. job.at \in {"put", "list"} /\ job # Asleep
    BY DEF PutJob, Asleep
  <1>2. /\ DOMAIN job.todo # {} /\ job.rows # {} /\ job.rows \subseteq RowsOf(w)
        /\ job.rows = Between(w, job.todo[w] + 1, Max(job.rows))
    BY <1>1 DEF Sweeps
  <1>3. w \in DOMAIN job.todo /\ job.todo[w] \in Nat /\ w \in Tenants
    BY <1>2, JobIsTyped
  <1>4. /\ Max(job.rows) \in Nat /\ Max(job.rows) <= Len(spineOf) /\ Min(job.rows) \in Nat
        /\ Min(job.rows) \in job.rows /\ \A n \in job.rows : Min(job.rows) <= n /\ n <= Max(job.rows)
    BY <1>2, LastRow DEF ColdTierInv
  <1>5. name \in NameRow /\ name.of = w /\ name.min = Min(job.rows) /\ name.max = Max(job.rows)
    BY <1>3, <1>4 DEF ObjectName, NameRow
  <1>6. RowsOf(w) \subseteq Nat
    BY RowsAreLogged DEF ColdTierInv
  <1>7. PICK k \in Nat : k = job.todo[w]
    BY <1>3
  <1>8. PICK low \in Nat : low = Min(job.rows)
    BY <1>4
  <1>9. PICK high \in Nat : high = Max(job.rows)
    BY <1>4
  <1> HIDE DEF w
  <1>10. \A n \in RowsOf(w) : n \in job.rows <=> k < n /\ n <= high
    <2>1. \A n \in RowsOf(w) : n \in job.rows <=> k + 1 <= n /\ n <= high
      BY <1>2, <1>7, <1>9 DEF Between
    <2>2. QED
      BY <1>6, <2>1
  <1>11. \A n \in RowsOf(w) : low <= n /\ n <= high => k < n
    <2>1. low \in RowsOf(w) /\ k < low
      BY <1>2, <1>4, <1>8, <1>10
    <2>2. QED
      BY <1>6, <2>1
  <1>12. \A n \in RowsOf(w) : n \in job.rows <=> low <= n /\ n <= high
    BY <1>4, <1>8, <1>9, <1>10, <1>11
  <1>13. job.rows = Between(w, low, high)
    BY <1>2, <1>12 DEF Between
  <1>14. \A n \in RowsOf(w) : n <= high /\ n > k => low <= n
    BY <1>6, <1>10, <1>12
  <1> HIDE DEF name
  <1>15. job.rows \in SUBSET Nat
    BY <1>2, <1>6
  <1>16. QED
    BY <1>3, <1>4, <1>5, <1>7, <1>8, <1>9, <1>13, <1>14, <1>15 DEF w, name

LEMMA PutKeepsCold ==
  ASSUME ColdTierInv, NEW c \in Compactors, PutObject(c)
  PROVE  ColdTierInv'
  <1>1. compactor[c].at = "put" /\ UNCHANGED <<spineOf, fileList, exportVars>>
    BY DEF PutObject
  <1>2. PICK job \in PutJob : job = compactor[c] /\ Sweeps(job)
    BY <1>1, JobAtHand
  <1> DEFINE w == Here(job)
             name == ObjectName(w, job.rows)
             object == [name |-> name, rows |-> job.rows]
  <1>3. PICK h \in PutJob : h = [job EXCEPT !.at = "list"]
    BY DEF PutJob
  <1>4. CompactorGoto(c, h)
    BY <1>2, <1>3 DEF PutObject
  <1>5. /\ (\E o \in cold : o.name = name) => cold' = cold
        /\ ~(\E o \in cold : o.name = name) => cold' = cold \cup {object}
    BY <1>2 DEF PutObject
  <1>6. /\ name \in NameRow /\ name.of = w /\ name.max <= Len(spineOf) /\ job.rows \in SUBSET Nat
        /\ job.rows = Between(w, name.min, name.max)
    BY <1>2, RowsAtHand
  <1>7. object \in ObjectRow /\ object.name = name /\ object.rows = job.rows
    BY <1>6 DEF ObjectRow
  <1> HIDE DEF object, name
  <1>8. cold \subseteq cold' /\ cold' \subseteq cold \cup {object} /\ \E o \in cold' : o.name = name
    BY <1>5, <1>7
  <1>9. cold' \subseteq ObjectRow /\ fileList' \subseteq NameRow /\ fileList \subseteq fileList'
    BY <1>1, <1>7, <1>8 DEF ColdTierInv, ColdTypeOK
  <1>10. ObjectsAreRanges'
    <2> SUFFICES ASSUME NEW o \in cold'
                 PROVE  o.name.max <= Len(spineOf) /\ o.rows = Between(o.name.of, o.name.min, o.name.max)
      BY <1>1 DEF ObjectsAreRanges, Between, RowsOf
    <2>1. CASE o \in cold
      BY <2>1 DEF ColdTierInv, ObjectsAreRanges
    <2>2. CASE o = object
      BY <1>6, <1>7, <2>2
    <2>3. QED
      BY <1>8, <2>1, <2>2
  <1>11. FilesAreWhole'
    <2> SUFFICES ASSUME NEW f \in fileList
                 PROVE  Covered(f.of, f.max) /\ \E o \in cold' : o.name = f
      BY <1>1 DEF FilesAreWhole, Covered, RowsOf
    <2>1. QED
      BY <1>8 DEF ColdTierInv, FilesAreWhole
  <1>12. Sweeps(h)'
    <2>1. h.at = "list" /\ h.todo = job.todo /\ h.rows = job.rows /\ Here(h) = Here(job)
      BY <1>3 DEF PutJob, Here
    <2>2. Sweeps(job)' /\ job.at \in {"put", "list"} /\ job # Asleep
      BY <1>1, <1>2, <1>8, <1>9, SweepsRemain DEF PutJob, Asleep
    <2>3. \E o \in cold' : o.name = ObjectName(Here(h), h.rows)
      BY <1>8, <2>1 DEF name
    <2>4. QED
      BY <2>1, <2>2, <2>3 DEF Sweeps
  <1>13. QED
    BY <1>1, <1>4, <1>8, <1>9, <1>10, <1>11, <1>12, SweepMoves DEF SweepJob

LEMMA ListKeepsCold ==
  ASSUME ColdTierInv, NEW c \in Compactors, ListObject(c)
  PROVE  ColdTierInv'
  <1>1. compactor[c].at = "list" /\ UNCHANGED <<spineOf, cold, exportVars>>
    BY DEF ListObject
  <1>2. PICK job \in PutJob : job = compactor[c] /\ Sweeps(job)
    BY <1>1, JobAtHand
  <1> DEFINE w == Here(job)
             name == ObjectName(w, job.rows)
             made == job.made + 1
             moved == [job.todo EXCEPT ![w] = Max(job.rows)]
  <1>3. fileList' = fileList \cup {name}
    BY <1>2 DEF ListObject
  <1>4. /\ w \in DOMAIN job.todo /\ job.todo[w] \in Nat /\ w \in Tenants
        /\ name \in NameRow /\ name.of = w /\ name.max = Max(job.rows)
        /\ name.max <= Len(spineOf) /\ job.rows \in SUBSET Nat
        /\ job.rows = Between(w, name.min, name.max)
        /\ \A n \in RowsOf(w) : n <= name.max /\ n > job.todo[w] => name.min <= n
    BY <1>2, RowsAtHand
  <1>5. /\ DOMAIN job.todo # {} /\ job.todo \in Cursors
        /\ \A v \in DOMAIN job.todo : job.todo[v] <= Len(spineOf) /\ Covered(v, job.todo[v])
        /\ \E o \in cold : o.name = name
    <2>1. job # Asleep /\ job.at = "list"
      BY <1>1, <1>2 DEF PutJob, Asleep
    <2>2. QED
      BY <1>2, <2>1 DEF Sweeps, PutJob
  <1>6. /\ \A v : RowsOf(v)' = RowsOf(v)
        /\ \A v, k : Covered(v, k) => Covered(v, k)'
        /\ \A g : Sweeps(g) => Sweeps(g)'
    BY <1>1, <1>3, SweepsRemain
  <1> HIDE DEF name, w
  <1>7. Covered(w, name.max)'
    <2> SUFFICES ASSUME NEW n \in RowsOf(w), n <= name.max
                 PROVE  \E f \in fileList' : f.of = w /\ f.min <= n /\ n <= f.max
      BY <1>6 DEF Covered
    <2>1. CASE n <= job.todo[w]
      BY <1>3, <1>4, <1>5, <2>1 DEF Covered
    <2>2. CASE ~(n <= job.todo[w])
      <3>1. n \in Nat
        BY RowsAreLogged DEF ColdTierInv
      <3>2. n > job.todo[w]
        BY <1>4, <2>2, <3>1
      <3>3. QED
        BY <1>3, <1>4, <3>2
    <2>3. QED
      BY <2>1, <2>2
  <1>8. fileList \subseteq fileList' /\ fileList' \subseteq NameRow /\ cold \subseteq cold' /\ cold' \subseteq ObjectRow
    BY <1>1, <1>3, <1>4 DEF ColdTierInv, ColdTypeOK
  <1>9. ObjectsAreRanges'
    BY <1>1 DEF ColdTierInv, ObjectsAreRanges, Between, RowsOf
  <1>10. FilesAreWhole'
    <2> SUFFICES ASSUME NEW f \in fileList'
                 PROVE  Covered(f.of, f.max)' /\ \E o \in cold : o.name = f
      BY <1>1 DEF FilesAreWhole
    <2>1. CASE f \in fileList
      <3>1. Covered(f.of, f.max) /\ \E o \in cold : o.name = f
        BY <2>1 DEF ColdTierInv, FilesAreWhole
      <3>2. QED
        BY <1>6, <3>1
    <2>2. CASE f = name
      BY <1>4, <1>5, <1>7, <2>2
    <2>3. QED
      BY <1>3, <2>1, <2>2
  <1>11. ASSUME NEW h \in SweepJob, CompactorGoto(c, h), Sweeps(h)'
         PROVE  ColdTierInv'
    BY <1>1, <1>8, <1>9, <1>10, <1>11, SweepMoves
  <1>12. made \in Nat
    <2>1. job.made \in Nat
      BY DEF PutJob
    <2>2. QED
      BY <2>1
  <1> HIDE DEF made
  <1>13. CASE NextTenant(c, [job EXCEPT !.made = made])
    <2>1. PICK j \in PutJob : j = [job EXCEPT !.made = made]
      BY <1>12 DEF PutJob
    <2>2. j.todo = job.todo
      BY <2>1 DEF PutJob
    <2>3. PICK h \in SweepJob : CompactorGoto(c, h) /\ Sweeps(h)
      BY <1>5, <1>13, <2>1, <2>2, NextTenantGoes
    <2>4. QED
      BY <1>6, <1>11, <2>3
  <1>14. CASE CompactorGoto(c, [at |-> "page", made |-> made, todo |-> moved])
    <2>1. PICK T \in SUBSET Tenants : job.todo \in [T -> Nat]
      BY <1>5 DEF Cursors
    <2>2. Max(job.rows) \in Nat
      BY <1>4 DEF NameRow
    <2>3. moved \in [T -> Nat] /\ DOMAIN moved = DOMAIN job.todo
      BY <2>1, <2>2
    <2>4. moved \in Cursors
      BY <2>3 DEF Cursors
    <2>5. PICK h \in PageJob : h = [at |-> "page", made |-> made, todo |-> moved]
      BY <1>12, <2>4 DEF PageJob
    <2>6. \A v \in DOMAIN moved : moved[v] <= Len(spineOf) /\ Covered(v, moved[v])'
      <3>1. ASSUME NEW v \in DOMAIN moved PROVE moved[v] <= Len(spineOf) /\ Covered(v, moved[v])'
        <4>1. CASE v = w
          BY <1>4, <1>7, <2>1, <2>3, <4>1
        <4>2. CASE v # w
          <5>1. moved[v] = job.todo[v] /\ v \in DOMAIN job.todo
            BY <2>1, <2>3, <4>2
          <5>2. QED
            BY <1>5, <1>6, <5>1
        <4>3. QED
          BY <4>1, <4>2
      <3>2. QED
        BY <3>1
    <2> HIDE DEF moved
    <2>7. h.at = "page" /\ h.todo = moved
      BY <2>5
    <2>8. Sweeps(h)'
      BY <1>1, <1>5, <2>3, <2>6, <2>7 DEF Sweeps
    <2>9. QED
      BY <1>11, <1>14, <2>5, <2>8 DEF SweepJob
  <1>15. QED
    BY <1>2, <1>13, <1>14 DEF ListObject, w, made

LEMMA SweepKeeps ==
  ASSUME ColdTierInv, CompactionNext
  PROVE  ColdTierInv'
  <1>1. ASSUME NEW x \in Tenants, AppendRow(x) PROVE ColdTierInv'
    BY <1>1, RowsKeep
  <1>2. ASSUME RowsAge PROVE ColdTierInv'
    BY <1>2 DEF RowsAge, exportVars, ColdTierInv, ColdTypeOK, ObjectsAreRanges, FilesAreWhole,
       Sweeps, ExportStands, Standing, Between, Covered, RowsOf
  <1>3. ASSUME NEW c \in Compactors, CompactorDies(c) PROVE ColdTierInv'
    <2>1. CompactorGoto(c, Asleep) /\ UNCHANGED <<spineOf, fileList, cold, exportVars>>
      BY <1>3 DEF CompactorDies, CompactorRests
    <2>2. QED
      BY <2>1, AsleepSweeps, SweepLooks
  <1>4. QED
    BY <1>1, <1>2, <1>3, StartKeepsCold, ReadKeepsCold, PutKeepsCold, ListKeepsCold DEF CompactionNext

-------------------------------------------------------------------------------
(* Steps of an export                                                      *)

LEMMA ExportMoves ==
  ASSUME ColdTierInv, NEW e \in Exporters, NEW job \in ExportJob, ExporterGoto(e, job),
         export' \in [Exporters -> ExportRow], download' \in [Exporters -> SUBSET Nat],
         \A d \in Exporters \ {e} : export'[d] = export[d] /\ download'[d] = download[d],
         ackLost \subseteq ackLost', ackLost' \subseteq ackLost \cup {e},
         UNCHANGED <<spineOf, fileList, cold, compactor>>,
         Standing(e, job, export'[e], download'[e], ackLost')
  PROVE  ColdTierInv'
  <1>1. /\ exporter' \in [Exporters -> [at : {"start"}] \cup ExportJob] /\ exporter'[e] = job
        /\ \A d \in Exporters \ {e} : exporter'[d] = exporter[d]
    BY DEF ColdTierInv, ColdTypeOK, ExporterGoto
  <1>2. ColdTypeOK'
    BY <1>1 DEF ColdTierInv, ColdTypeOK
  <1>3. fileList \subseteq fileList' /\ cold \subseteq cold' /\ spineOf' = spineOf
    OBVIOUS
  <1>4. /\ \A w : RowsOf(w)' = RowsOf(w)
        /\ \A w, low, high : Between(w, low, high)' = Between(w, low, high)
        /\ \A g : Sweeps(g) => Sweeps(g)'
    BY <1>3, SweepsRemain
  <1>5. \A c \in Compactors : Sweeps(compactor[c])'
    <2>1. ASSUME NEW c \in Compactors PROVE Sweeps(compactor[c])'
      <3>1. PICK g \in SweepJob : g = compactor[c]
        BY DEF ColdTierInv, ColdTypeOK
      <3>2. Sweeps(g)'
        BY <1>4, <3>1 DEF ColdTierInv
      <3>3. QED
        BY <3>1, <3>2 DEF Sweeps
    <2>2. QED
      BY <2>1
  <1>6. ObjectsAreRanges' /\ FilesAreWhole'
    BY DEF ColdTierInv, ObjectsAreRanges, FilesAreWhole, Covered, Between, RowsOf
  <1>7. ASSUME NEW d \in Exporters PROVE ExportStands(d)'
    <2>1. CASE d = e
      BY <1>1, <2>1 DEF ExportStands, Standing, Between, RowsOf
    <2>2. CASE d # e
      <3>1. /\ exporter'[d] = exporter[d] /\ export'[d] = export[d] /\ download'[d] = download[d]
            /\ d \in ackLost' <=> d \in ackLost
        BY <1>1, <2>2
      <3>2. Standing(d, exporter[d], export[d], download[d], ackLost)
        BY DEF ColdTierInv, ExportStands
      <3>3. QED
        BY <3>1, <3>2 DEF ExportStands, Standing, Between, RowsOf
    <2>3. QED
      BY <2>1, <2>2
  <1>8. QED
    BY <1>2, <1>5, <1>6, <1>7 DEF ColdTierInv

LEMMA ExportAtHand ==
  ASSUME ColdTierInv, NEW e \in Exporters, exporter[e].at # "start"
  PROVE  /\ exporter[e] \in ExportJob /\ export[e] \in ExportRow /\ download[e] \in SUBSET Nat
         /\ Standing(e, exporter[e], export[e], download[e], ackLost)
  BY DEF ColdTierInv, ColdTypeOK, ExportStands

LEMMA InsertKeepsExports ==
  ASSUME ColdTierInv, NEW e \in Exporters, NEW w \in Tenants, InsertExport(e, w)
  PROVE  ColdTierInv'
  <1>1. RowsOf(w) \in SUBSET Nat /\ RowsOf(w) \subseteq 1 .. Len(spineOf) /\ Len(spineOf) \in Nat
    <2>1. RowsOf(w) \subseteq 1 .. Len(spineOf) /\ Len(spineOf) \in Nat
      BY RowsAreLogged DEF ColdTierInv
    <2>2. QED
      BY <2>1
  <1>2. PICK job \in ExportJob :
          job = [at |-> "page", of |-> w, cursor |-> 0, lines |-> {}, since |-> RowsOf(w)]
    BY <1>1 DEF ExportJob, ExportStep
  <1>3. PICK row \in ExportRow : row = [status |-> "running"]
    BY DEF ExportRow
  <1>4. /\ ExporterGoto(e, job) /\ export' = [export EXCEPT ![e] = row]
        /\ UNCHANGED <<spineOf, fileList, cold, compactor, download, ackLost>>
    BY <1>2, <1>3 DEF InsertExport, compactionVars
  <1>5. Between(w, 0, 0) = {}
    BY <1>1 DEF Between
  <1>6. Standing(e, job, row, download[e], ackLost)
    BY <1>1, <1>2, <1>3, <1>5 DEF Standing
  <1>7. QED
    BY <1>4, <1>6, ExportMoves DEF ColdTierInv, ColdTypeOK

(* A request that only goes on to another step of its handler.             *)
LEMMA ExportGoesOn ==
  ASSUME ColdTierInv, NEW e \in Exporters, NEW job \in ExportJob, job = exporter[e],
         NEW step \in ExportStep, ExporterGoto(e, [exporter[e] EXCEPT !.at = step]),
         NEW row \in ExportRow, NEW kept \in SUBSET Nat,
         export' = [export EXCEPT ![e] = row], download' = [download EXCEPT ![e] = kept],
         ackLost \subseteq ackLost', ackLost' \subseteq ackLost \cup {e},
         UNCHANGED <<spineOf, fileList, cold, compactor>>,
         step # "put", step \in {"page", "manifest"} => row.status = "running",
         step \in {"drop", "failed"} => row.status = "running" \/ e \in ackLost',
         step = "manifest" => job.at = "put" /\ kept = job.lines,
         row.status = "done" /\ e \notin ackLost' =>
           step = "end" /\ job.since \subseteq job.lines /\ Cardinality(job.lines) <= ExportRows
           /\ kept = job.lines /\ row.count = Cardinality(job.lines)
  PROVE  ColdTierInv'
  <1>1. PICK h \in ExportJob : h = [job EXCEPT !.at = step]
    BY DEF ExportJob
  <1>2. /\ h.at = step /\ h.of = job.of /\ h.cursor = job.cursor /\ h.lines = job.lines /\ h.since = job.since
    BY <1>1 DEF ExportJob
  <1>3. job.at # "start" /\ step # "start"
    BY DEF ExportJob, ExportStep
  <1>4. Standing(e, job, export[e], download[e], ackLost)
    BY <1>3, ExportAtHand
  <1>5. Standing(e, h, row, kept, ackLost')
    BY <1>2, <1>3, <1>4 DEF Standing
  <1>6. export'[e] = row /\ download'[e] = kept
        /\ export' \in [Exporters -> ExportRow] /\ download' \in [Exporters -> SUBSET Nat]
        /\ \A d \in Exporters \ {e} : export'[d] = export[d] /\ download'[d] = download[d]
    BY DEF ColdTierInv, ColdTypeOK
  <1>7. QED
    BY <1>1, <1>5, <1>6, ExportMoves

LEMMA PageKeepsExports ==
  ASSUME ColdTierInv, NEW e \in Exporters, ReadExportPage(e)
  PROVE  ColdTierInv'
  <1>1. exporter[e].at = "page" /\ UNCHANGED <<spineOf, fileList, cold, compactor, export, download, ackLost>>
    BY DEF ReadExportPage, compactionVars
  <1>2. PICK job \in ExportJob : job = exporter[e]
    BY <1>1, ExportAtHand
  <1>3. /\ job.at = "page" /\ export[e].status = "running" /\ job.cursor \in job.lines \cup {0}
        /\ job.cursor <= Len(spineOf) /\ job.lines = Between(job.of, 0, job.cursor)
        /\ job.since \subseteq RowsOf(job.of) /\ export[e] \in ExportRow /\ download[e] \in SUBSET Nat
    BY <1>1, <1>2, ExportAtHand DEF Standing
  <1>4. job.cursor \in Nat /\ job.lines \in SUBSET Nat /\ job.of \in Tenants /\ job.since \in SUBSET Nat
    BY DEF ExportJob
  <1> DEFINE all == RowsOf(job.of)
             rows == Page(all, job.cursor, ExportPage)
             lines == job.lines \cup rows
             last == CursorAfter(rows, job.cursor)
             step == IF Cardinality(lines) > ExportRows THEN "failed"
                     ELSE IF Cardinality(rows) < ExportPage THEN "put" ELSE "page"
  <1>5. /\ all \subseteq 1 .. Len(spineOf) /\ IsFiniteSet(all) /\ Len(spineOf) \in Nat
        /\ ExportPage \in Nat \ {0} /\ ExportRows \in Nat
    BY RowsAreLogged, ColdTierAssumptions DEF ColdTierInv
  <1>6. all \in SUBSET Nat
    BY <1>5
  <1>7. /\ rows \subseteq all /\ \A n \in rows : n > job.cursor
        /\ \A m \in rows, n \in all : job.cursor < n /\ n <= m => n \in rows
        /\ Cardinality(rows) < ExportPage => \A n \in all : n > job.cursor => n \in rows
    BY <1>4, <1>5, <1>6, PagesHaveNoGap
  <1> HIDE DEF all, rows
  <1>8. /\ last \in rows \cup {job.cursor} /\ last \in Nat /\ last <= Len(spineOf)
        /\ job.cursor <= last /\ \A n \in rows : n <= last
    <2> DEFINE S == rows \cup {job.cursor}
    <2>1. \A n \in S : n \in Nat /\ n <= Len(spineOf) /\ n \in 0 .. Len(spineOf)
      <3>1. \A n \in rows : n \in Nat /\ n <= Len(spineOf)
        BY <1>5, <1>7
      <3>2. QED
        BY <1>3, <1>4, <1>5, <3>1
    <2>2. job.cursor \in S /\ rows \subseteq S
      OBVIOUS
    <2>3. last = Max(S)
      BY DEF CursorAfter
    <2> HIDE DEF S, last
    <2>4. S \in SUBSET (0 .. Len(spineOf)) /\ S # {}
      BY <2>1, <2>2
    <2>5. last \in S /\ \A n \in S : n <= last
      BY <1>5, <2>3, <2>4, GreatestOfSome
    <2>6. QED
      BY <2>1, <2>2, <2>5 DEF S
  <1> HIDE DEF last
  <1>9. \A n \in all : n \in lines <=> n <= last
    <2>1. \A n \in all : n \in job.lines <=> n <= job.cursor
      BY <1>3, <1>6 DEF Between, all
    <2>2. \A n \in all : n > job.cursor => (n \in rows <=> n <= last)
      BY <1>6, <1>7, <1>8
    <2>3. QED
      BY <1>4, <1>6, <1>7, <1>8, <2>1, <2>2
  <1>10. job.lines \subseteq all
    BY <1>3 DEF Between, all
  <1>11. lines = Between(job.of, 0, last)
    BY <1>6, <1>7, <1>9, <1>10 DEF Between, all
  <1>12. IsFiniteSet(lines) /\ Cardinality(lines) \in Nat /\ lines \in SUBSET Nat
    <2>1. lines \subseteq all
      BY <1>7, <1>10
    <2>2. QED
      BY <1>5, <1>6, <2>1, FS_Subset, FS_CardinalityType
  <1>13. Cardinality(rows) < ExportPage => job.since \subseteq lines
    BY <1>3, <1>4, <1>6, <1>7, <1>8, <1>9 DEF all
  <1> HIDE DEF lines
  <1>14. PICK h \in ExportJob : h = [job EXCEPT !.at = step, !.lines = lines, !.cursor = last]
    BY <1>8, <1>12 DEF ExportJob, ExportStep
  <1>15. /\ h.at = step /\ h.of = job.of /\ h.cursor = last /\ h.lines = lines /\ h.since = job.since
    BY <1>14 DEF ExportJob
  <1>16. ExporterGoto(e, h)
    BY <1>2, <1>14 DEF ReadExportPage, all, rows, lines, last
  <1>17. last \in lines \cup {0}
    BY <1>3, <1>8 DEF lines
  <1>18. step \in {"failed", "put", "page"}
         /\ (step = "put" => job.since \subseteq lines /\ Cardinality(lines) <= ExportRows)
    BY <1>5, <1>12, <1>13
  <1> HIDE DEF step
  <1>19. Standing(e, h, export[e], download[e], ackLost)
    BY <1>3, <1>8, <1>11, <1>15, <1>17, <1>18 DEF Standing
  <1>20. QED
    BY <1>1, <1>16, <1>19, ExportMoves DEF ColdTierInv, ColdTypeOK

LEMMA OtherExportsKeep ==
  ASSUME ColdTierInv, NEW e \in Exporters,
         \/ PutExport(e) \/ CompleteExport(e) \/ ManifestThrows(e) \/ DropObject(e)
         \/ ExportThrows(e) \/ SettleFailedExport(e) \/ ExporterDies(e)
  PROVE  ColdTierInv'
  <1>1. exporter[e].at # "start" /\ UNCHANGED <<spineOf, fileList, cold, compactor>>
    BY DEF PutExport, CompleteExport, ManifestThrows, DropObject, ExportThrows, SettleFailedExport,
       ExporterDies, compactionVars
  <1>2. PICK job \in ExportJob : job = exporter[e]
    BY <1>1, ExportAtHand
  <1>3. PICK row \in ExportRow : row = export[e]
    BY <1>1, ExportAtHand
  <1>4. PICK kept \in SUBSET Nat : kept = download[e]
    BY <1>1, ExportAtHand
  <1>5. Standing(e, job, row, kept, ackLost)
    BY <1>1, <1>2, <1>3, <1>4, ExportAtHand
  <1>6. /\ export' = export => export' = [export EXCEPT ![e] = row]
        /\ download' = download => download' = [download EXCEPT ![e] = kept]
    BY <1>3, <1>4 DEF ColdTierInv, ColdTypeOK
  <1>7. job.lines \in SUBSET Nat /\ IsFiniteSet(job.lines) /\ Cardinality(job.lines) \in Nat
    <2>1. job.lines \subseteq RowsOf(job.of) /\ job.lines \in SUBSET Nat
      BY <1>1, <1>2, <1>5 DEF Standing, Between, ExportJob
    <2>2. IsFiniteSet(RowsOf(job.of))
      BY RowsAreLogged DEF ColdTierInv
    <2>3. QED
      BY <2>1, <2>2, FS_Subset, FS_CardinalityType
  <1>8. PICK done \in ExportRow : done = [status |-> "done", count |-> Cardinality(job.lines)]
    BY <1>7 DEF ExportRow
  <1>9. PICK error \in ExportRow : error = [status |-> "error"]
    BY DEF ExportRow
  <1>10. /\ \A settled \in ExportRow : SettleExport(e, settled) =>
             export' = [export EXCEPT ![e] = IF row.status = "running" THEN settled ELSE row]
         /\ SettleExport(e, DoneRow(e)) =>
             export' = [export EXCEPT ![e] = IF row.status = "running" THEN done ELSE row]
    BY <1>2, <1>3, <1>6, <1>8 DEF SettleExport, DoneRow
  <1>11. CASE PutExport(e)
    <2>1. /\ job.at = "put" /\ download' = [download EXCEPT ![e] = job.lines]
          /\ ExporterGoto(e, [exporter[e] EXCEPT !.at = "manifest"]) /\ UNCHANGED <<export, ackLost>>
      BY <1>2, <1>11 DEF PutExport
    <2>2. row.status = "running"
      BY <1>5, <2>1 DEF Standing
    <2>3. QED
      BY <1>1, <1>2, <1>6, <1>7, <2>1, <2>2, ExportGoesOn DEF ExportStep
  <1>12. CASE CompleteExport(e)
    <2>1. /\ job.at = "manifest" /\ SettleExport(e, DoneRow(e))
          /\ ExporterGoto(e, [exporter[e] EXCEPT !.at = "end"]) /\ UNCHANGED <<download, ackLost>>
      BY <1>2, <1>12 DEF CompleteExport
    <2>2. /\ row.status = "running" /\ job.since \subseteq job.lines
          /\ Cardinality(job.lines) <= ExportRows /\ kept = job.lines
      BY <1>5, <2>1 DEF Standing
    <2>3. export' = [export EXCEPT ![e] = done]
      BY <1>10, <2>1, <2>2
    <2>4. done.count = Cardinality(job.lines)
      BY <1>8
    <2>5. QED
      BY <1>1, <1>2, <1>6, <2>1, <2>2, <2>3, <2>4, ExportGoesOn DEF ExportStep
  <1>13. CASE ManifestThrows(e)
    <2>1. /\ job.at = "manifest" /\ ExporterGoto(e, [exporter[e] EXCEPT !.at = "drop"])
          /\ download' = download
          /\ \/ UNCHANGED <<export, ackLost>>
             \/ SettleExport(e, DoneRow(e)) /\ ackLost' = ackLost \cup {e}
      BY <1>2, <1>13 DEF ManifestThrows
    <2>2. row.status = "running"
      BY <1>5, <2>1 DEF Standing
    <2>3. CASE UNCHANGED <<export, ackLost>>
      BY <1>1, <1>2, <1>6, <2>1, <2>2, <2>3, ExportGoesOn DEF ExportStep
    <2>4. CASE SettleExport(e, DoneRow(e)) /\ ackLost' = ackLost \cup {e}
      <3>1. export' = [export EXCEPT ![e] = done]
        BY <1>10, <2>2, <2>4
      <3>2. QED
        BY <1>1, <1>2, <1>6, <2>1, <2>4, <3>1, ExportGoesOn DEF ExportStep
    <2>5. QED
      BY <2>1, <2>3, <2>4
  <1>14. CASE DropObject(e)
    <2>1. /\ job.at = "drop" /\ download' = [download EXCEPT ![e] = NoObject]
          /\ ExporterGoto(e, [exporter[e] EXCEPT !.at = "failed"]) /\ UNCHANGED <<export, ackLost>>
      BY <1>2, <1>14 DEF DropObject
    <2>2. row.status = "running" \/ e \in ackLost
      BY <1>5, <2>1 DEF Standing
    <2>3. NoObject \in SUBSET Nat
      BY DEF NoObject
    <2>4. QED
      BY <1>1, <1>2, <1>6, <2>1, <2>2, <2>3, ExportGoesOn DEF ExportStep
  <1>15. CASE ExportThrows(e)
    <2>1. /\ job.at \in {"page", "put"} /\ UNCHANGED <<export, ackLost>>
          /\ ExporterGoto(e, [exporter[e] EXCEPT !.at = "failed"])
          /\ download' = download \/ download' = [download EXCEPT ![e] = job.lines]
      BY <1>2, <1>15 DEF ExportThrows
    <2>2. row.status = "running"
      BY <1>5, <2>1 DEF Standing
    <2>3. PICK left \in SUBSET Nat : download' = [download EXCEPT ![e] = left]
      BY <1>6, <1>7, <2>1
    <2>4. QED
      BY <1>1, <1>2, <1>6, <2>1, <2>2, <2>3, ExportGoesOn DEF ExportStep
  <1>16. CASE SettleFailedExport(e)
    <2>1. /\ job.at = "failed" /\ SettleExport(e, error)
          /\ ExporterGoto(e, [exporter[e] EXCEPT !.at = "end"]) /\ UNCHANGED <<download, ackLost>>
      BY <1>2, <1>9, <1>16 DEF SettleFailedExport
    <2>2. row.status = "running" \/ e \in ackLost
      BY <1>5, <2>1 DEF Standing
    <2>3. PICK settled \in ExportRow :
            export' = [export EXCEPT ![e] = settled] /\ (settled.status = "done" => e \in ackLost)
      BY <1>9, <1>10, <2>1, <2>2
    <2>4. QED
      BY <1>1, <1>2, <1>6, <2>1, <2>3, ExportGoesOn DEF ExportStep
  <1>17. CASE ExporterDies(e)
    <2>1. /\ job.at \notin {"start", "end"} /\ UNCHANGED <<export, download, ackLost>>
          /\ ExporterGoto(e, [exporter[e] EXCEPT !.at = "end"])
      BY <1>2, <1>17 DEF ExporterDies
    <2>2. row.status = "done" => e \in ackLost
      BY <1>5, <2>1 DEF Standing
    <2>3. QED
      BY <1>1, <1>2, <1>6, <2>1, <2>2, ExportGoesOn DEF ExportStep
  <1>18. QED
    BY <1>11, <1>12, <1>13, <1>14, <1>15, <1>16, <1>17

LEMMA ColdTierStep == ColdTierInv /\ [ColdTierNext]_coldVars => ColdTierInv'
  <1> SUFFICES ASSUME ColdTierInv, [ColdTierNext]_coldVars PROVE ColdTierInv'
    OBVIOUS
  <1>1. CASE CompactionNext
    BY <1>1, SweepKeeps
  <1>2. CASE ExportNext
    BY <1>2, RowsKeep, InsertKeepsExports, PageKeepsExports, OtherExportsKeep DEF ExportNext
  <1>3. CASE UNCHANGED coldVars
    BY <1>3 DEF coldVars, compactionVars, exportVars, ColdTierInv, ColdTypeOK, ObjectsAreRanges,
       FilesAreWhole, Sweeps, ExportStands, Standing, Between, Covered, RowsOf
  <1>4. QED
    BY <1>1, <1>2, <1>3 DEF ColdTierNext

LEMMA ColdTierStart == ColdTierInit => ColdTierInv
  <1> SUFFICES ASSUME ColdTierInit PROVE ColdTierInv
    OBVIOUS
  <1>1. ColdTypeOK
    BY DEF ColdTierInit, ColdTypeOK, SweepJob, ExportRow, NoObject
  <1>2. \A c \in Compactors : Sweeps(compactor[c])
    BY AsleepSweeps DEF ColdTierInit
  <1>3. \A e \in Exporters : ExportStands(e)
    BY DEF ColdTierInit, ExportStands, Standing
  <1>4. QED
    BY <1>1, <1>2, <1>3 DEF ColdTierInv, ColdTierInit, ObjectsAreRanges, FilesAreWhole

LEMMA ColdTierWhole == ColdTierInv => ColdTierIsComplete /\ ExportsAreWhole
  <1> SUFFICES ASSUME ColdTierInv PROVE ColdTierIsComplete /\ ExportsAreWhole
    OBVIOUS
  <1>1. ColdTierIsComplete
    <2>1. ASSUME NEW f \in fileList
          PROVE  \E o \in cold : o.name = f /\ o.rows = {n \in RowsOf(f.of) : f.min <= n /\ n <= f.max}
      BY DEF ColdTierInv, FilesAreWhole, ObjectsAreRanges, Between
    <2>2. \A w \in Tenants : Covered(w, Watermark(w))
      BY WatermarkCovers
    <2>3. QED
      BY <2>1, <2>2 DEF ColdTierIsComplete, Covered
  <1>2. ASSUME NEW e \in Exporters, export[e].status = "done", e \notin ackLost
        PROVE  /\ download[e] # NoObject /\ Cardinality(download[e]) = export[e].count
               /\ exporter[e].since \subseteq download[e]
               /\ download[e] = {n \in RowsOf(exporter[e].of) : n <= Max(download[e] \cup {0})}
               /\ export[e].count <= ExportRows
    <2>1. Standing(e, exporter[e], export[e], download[e], ackLost)
      BY DEF ColdTierInv, ExportStands
    <2>2. exporter[e].at = "end"
      BY <1>2, <2>1 DEF Standing
    <2>3. PICK job \in ExportJob : job = exporter[e]
      BY <2>2, ExportAtHand
    <2>4. /\ job.cursor <= Len(spineOf) /\ job.cursor \in job.lines \cup {0} /\ job.cursor \in Nat
          /\ job.lines = Between(job.of, 0, job.cursor) /\ job.since \subseteq job.lines
          /\ Cardinality(job.lines) <= ExportRows
          /\ download[e] = job.lines /\ export[e].count = Cardinality(job.lines)
      BY <1>2, <2>1, <2>2, <2>3 DEF Standing, ExportJob
    <2>5. RowsOf(job.of) \subseteq 1 .. Len(spineOf) /\ Len(spineOf) \in Nat
      BY RowsAreLogged DEF ColdTierInv
    <2> DEFINE S == job.lines \cup {0}
    <2>6. S \in SUBSET (0 .. Len(spineOf)) /\ 0 \notin job.lines
      BY <2>4, <2>5 DEF Between
    <2>7. Max(S) \in S /\ \A n \in S : n <= Max(S)
      BY <2>5, <2>6, GreatestOfSome
    <2>8. \A n \in S : n <= job.cursor
      BY <2>4, <2>5 DEF Between
    <2>9. Max(S) = job.cursor
      <3>1. job.cursor \in S
        BY <2>4
      <3> HIDE DEF S
      <3>2. Max(S) <= job.cursor /\ job.cursor <= Max(S) /\ Max(S) \in 0 .. Len(spineOf)
        BY <2>6, <2>7, <2>8, <3>1
      <3>3. Max(S) \in Nat
        BY <2>5, <3>2
      <3>4. QED
        BY <2>4, <3>2, <3>3
    <2>10. job.lines = {n \in RowsOf(job.of) : n <= job.cursor}
      BY <2>4, <2>5 DEF Between
    <2>11. job.lines # NoObject
      BY <2>6 DEF NoObject
    <2>12. QED
      BY <2>3, <2>4, <2>9, <2>10, <2>11
  <1>3. ExportsAreWhole
    BY <1>2 DEF ExportsAreWhole
  <1>4. QED
    BY <1>1, <1>3

(* Whatever sweeps and exports overlap, die and fail, in any sizes of      *)
(* pages and objects: the listed objects replay the log up to every        *)
(* watermark, and an export that is offered is whole and counted right.    *)
THEOREM ColdRowsStayWhole == DataSpec => []ColdRowsAreWhole
  <1>1. DataInit => ColdTierInv
    BY ColdTierStart DEF DataInit
  <1>2. ColdTierInv /\ [DataNext]_<<part, dataVars>> => ColdTierInv'
    BY PartsMove, ColdTierStep
  <1>3. ColdTierInv => ColdRowsAreWhole
    BY ColdTierWhole DEF ColdRowsAreWhole
  <1>4. QED
    BY <1>1, <1>2, <1>3, PTL DEF DataSpec

-------------------------------------------------------------------------------
(* Rows of spans: one merge                                                *)

SpanRow ==
  [start : ObsTimes, startEvent : ObsIds, end : ObsTimes \cup {NoTime}, endEvent : ObsIds \cup {0},
   rank : 1 .. 3, agent : Agents \cup {NoAgent}, tokens : Agents \cup {NoAgent}]

(* What a row says of the events that are in it.                           *)
StartOf(row, S) ==
  \E d \in S : /\ row.start = d.at /\ row.startEvent = d.id
               /\ \A e \in S : d.at < e.at \/ (d.at = e.at /\ d.id <= e.id)
EndOf(row, S) ==
  \/ row.end = NoTime /\ row.endEvent = 0 /\ \A e \in S : ~Ends(e)
  \/ \E d \in S : /\ Ends(d) /\ row.end = d.at /\ row.endEvent = d.id
                  /\ \A e \in S : Ends(e) => d.at > e.at \/ (d.at = e.at /\ d.id >= e.id)
RankOf(row, S) == (\E d \in S : row.rank = Ranks[d.kind]) /\ \A e \in S : Ranks[e.kind] <= row.rank
AgentOf(row, S) ==
  IF \E e \in S : e.agent # NoAgent THEN \E d \in S : d.agent # NoAgent /\ row.agent = d.agent
  ELSE row.agent = NoAgent
RowOf(row, S) == row \in SpanRow /\ StartOf(row, S) /\ EndOf(row, S) /\ RankOf(row, S) /\ AgentOf(row, S)
SpanOf(row, S) == IF S = {} THEN row = NoSpan ELSE RowOf(row, S)

(* Ids, times and values are numbers, none of the first two zero.          *)
LEMMA ObsNumbers ==
  ASSUME ObservationAssumptions
  PROVE  /\ \A x \in ObsIds : x \in Nat /\ x # 0
         /\ \A x \in ObsTimes : x \in Nat /\ x # 0
         /\ \A x \in Agents \cup {NoAgent} : x \in Nat
  BY DEF ObservationAssumptions

(* What an event holds.                                                    *)
LEMMA FactTypes ==
  ASSUME ObservationAssumptions, NEW d \in Facts
  PROVE  /\ d.id \in ObsIds /\ d.id \in Nat /\ d.id # 0 /\ d.at \in ObsTimes /\ d.at \in Nat /\ d.at # 0
         /\ d.agent \in Agents \cup {NoAgent} /\ d.agent \in Nat /\ d.kind \in {"started", "completed", "failed"}
         /\ Ranks[d.kind] \in 1 .. 3
<1>1. d.id \in ObsIds /\ d.at \in ObsTimes /\ d.kind \in ObsKinds /\ d.agent \in Agents \cup {NoAgent}
  BY DEF Facts
<1>2. d.kind \in {"started", "completed", "failed"}
  BY <1>1 DEF ObservationAssumptions
<1>3. Ranks[d.kind] \in 1 .. 3
  BY <1>2 DEF Ranks
<1> QED BY <1>1, <1>2, <1>3, ObsNumbers

(* What a row holds.                                                       *)
LEMMA SpanRowTypes ==
  ASSUME ObservationAssumptions, NEW row \in SpanRow
  PROVE  /\ row.start \in Nat /\ row.startEvent \in Nat /\ row.end \in Nat /\ row.endEvent \in Nat /\ row.rank \in 1 .. 3
         /\ row.start \in ObsTimes /\ row.startEvent \in ObsIds /\ row.end \in ObsTimes \cup {NoTime}
         /\ row.endEvent \in ObsIds \cup {0} /\ row.agent \in Agents \cup {NoAgent}
         /\ row.tokens \in Agents \cup {NoAgent}
<1>1. /\ row.start \in ObsTimes /\ row.startEvent \in ObsIds /\ row.end \in ObsTimes \cup {NoTime}
      /\ row.endEvent \in ObsIds \cup {0} /\ row.rank \in 1 .. 3
      /\ row.agent \in Agents \cup {NoAgent} /\ row.tokens \in Agents \cup {NoAgent}
  BY DEF SpanRow
<1>2. row.start \in Nat /\ row.startEvent \in Nat
  BY <1>1, ObsNumbers
<1>3. row.end \in Nat
  <2>1. CASE row.end \in ObsTimes
    BY <2>1, ObsNumbers
  <2>2. CASE row.end = NoTime
    BY <2>2 DEF NoTime
  <2> QED BY <1>1, <2>1, <2>2
<1>4. row.endEvent \in Nat
  <2>1. CASE row.endEvent \in ObsIds
    BY <2>1, ObsNumbers
  <2>2. CASE row.endEvent = 0
    BY <2>2
  <2> QED BY <1>1, <2>1, <2>2
<1> QED BY <1>1, <1>2, <1>3, <1>4

(* A delta is the row of its event alone.                                  *)
LEMMA DeltaIsRow ==
  ASSUME ObservationAssumptions, NEW d \in Facts
  PROVE  SpanDelta(d) \in SpanRow /\ RowOf(SpanDelta(d), {d}) /\ ~SpanAborts(NoSpan, SpanDelta(d))
<1> DEFINE row == SpanDelta(d)
<1>1. row \in SpanRow
  BY FactTypes DEF SpanDelta, SpanRow
<1>2. /\ row.start = d.at /\ row.startEvent = d.id /\ row.rank = Ranks[d.kind] /\ row.agent = d.agent
      /\ row.end = IF Ends(d) THEN d.at ELSE NoTime
      /\ row.endEvent = IF Ends(d) THEN d.id ELSE 0
  BY DEF SpanDelta
<1>3. d.at \in Nat /\ d.id \in Nat /\ d.at # 0 /\ d.id # 0 /\ Ranks[d.kind] \in 1 .. 3
  BY FactTypes
<1> HIDE DEF row
<1>4. StartOf(row, {d}) /\ EndOf(row, {d}) /\ RankOf(row, {d}) /\ AgentOf(row, {d})
  BY <1>2, <1>3 DEF StartOf, EndOf, RankOf, AgentOf
<1>5. ~SpanAborts(NoSpan, row)
  BY <1>2, <1>3 DEF SpanAborts, NoTime
<1> QED BY <1>1, <1>4, <1>5 DEF RowOf, row

(* No row is none of the rows.                                             *)
LEMMA NoSpanIsNoRow == NoSpan \notin SpanRow
<1>1. NoSpan.rank = 0 /\ \A row \in SpanRow : row.rank # 0
  BY DEF NoSpan, SpanRow
<1> QED BY <1>1

(* A merge makes the row of the events in the old one and of the new,      *)
(* and the triggers let it pass.                                           *)
LEMMA MergeKeeps ==
  ASSUME ObservationAssumptions, NEW S \in SUBSET Facts, NEW row, RowOf(row, S), NEW d \in Facts
  PROVE  LET new == Merge(row, SpanDelta(d))
         IN RowOf(new, S \cup {d}) /\ ~SpanAborts(row, new)
<1> DEFINE delta == SpanDelta(d)
           new == Merge(row, delta)
           T == S \cup {d}
<1>1. /\ delta \in SpanRow /\ delta.start = d.at /\ delta.startEvent = d.id /\ delta.rank = Ranks[d.kind]
      /\ delta.end = IF Ends(d) THEN d.at ELSE NoTime
      /\ delta.endEvent = IF Ends(d) THEN d.id ELSE 0
      /\ delta.agent = d.agent /\ delta.tokens = IF Ends(d) THEN d.agent ELSE NoAgent
  BY DeltaIsRow DEF SpanDelta
<1>2. /\ row \in SpanRow /\ row # NoSpan /\ StartOf(row, S) /\ EndOf(row, S) /\ RankOf(row, S) /\ AgentOf(row, S)
  BY NoSpanIsNoRow DEF RowOf
<1>3. \A e \in T : /\ e \in Facts /\ e.at \in Nat /\ e.id \in Nat /\ e.at # 0 /\ e.id # 0 /\ Ranks[e.kind] \in 1 .. 3
                   /\ e.id \in ObsIds /\ e.at \in ObsTimes
  BY FactTypes
<1> HIDE DEF delta
<1>4. /\ new.start = Min({row.start, delta.start})
      /\ new.startEvent = IF StartWins(delta, row) THEN delta.startEvent ELSE row.startEvent
      /\ new.end = IF EndWins(delta, row) THEN delta.end ELSE row.end
      /\ new.endEvent = IF EndWins(delta, row) THEN delta.endEvent ELSE row.endEvent
      /\ new.rank = Max({row.rank, delta.rank})
      /\ new.agent = Preferring(StartWins(delta, row), delta.agent, row.agent)
      /\ new.tokens = Preferring(EndWins(delta, row), delta.tokens, row.tokens)
      /\ new = [start |-> new.start, startEvent |-> new.startEvent, end |-> new.end, endEvent |-> new.endEvent,
                rank |-> new.rank, agent |-> new.agent, tokens |-> new.tokens]
  BY <1>2 DEF Merge, GovernedBy
<1> HIDE DEF new
<1>5. /\ row.start \in Nat /\ row.startEvent \in Nat /\ row.end \in Nat /\ row.endEvent \in Nat /\ row.rank \in 1 .. 3
      /\ row.start \in ObsTimes /\ row.startEvent \in ObsIds /\ row.end \in ObsTimes \cup {NoTime}
      /\ row.endEvent \in ObsIds \cup {0} /\ row.agent \in Agents \cup {NoAgent} /\ row.tokens \in Agents \cup {NoAgent}
  BY <1>2, SpanRowTypes
<1>6. /\ delta.start \in ObsTimes /\ delta.startEvent \in ObsIds /\ delta.end \in ObsTimes \cup {NoTime}
      /\ delta.endEvent \in ObsIds \cup {0} /\ delta.agent \in Agents \cup {NoAgent}
      /\ delta.tokens \in Agents \cup {NoAgent} /\ delta.rank \in 1 .. 3
  BY <1>1 DEF SpanRow
<1>7. new.start = IF row.start <= d.at THEN row.start ELSE d.at
  BY <1>1, <1>3, <1>4, <1>5, MinOfTwo
<1>8. new.rank = IF row.rank >= Ranks[d.kind] THEN row.rank ELSE Ranks[d.kind]
  BY <1>1, <1>3, <1>4, <1>5, MaxOfTwo
<1>9. new \in SpanRow
  <2>1. new.start \in ObsTimes /\ new.startEvent \in ObsIds /\ new.end \in ObsTimes \cup {NoTime}
        /\ new.endEvent \in ObsIds \cup {0}
    BY <1>1, <1>3, <1>4, <1>5, <1>6, <1>7
  <2>2. new.rank \in 1 .. 3
    BY <1>3, <1>5, <1>8
  <2>3. new.agent \in Agents \cup {NoAgent} /\ new.tokens \in Agents \cup {NoAgent}
    BY <1>4, <1>5, <1>6 DEF Preferring
  <2> QED BY <1>4, <2>1, <2>2, <2>3 DEF SpanRow
<1>10. StartOf(new, T)
  <2>1. PICK b \in S : /\ row.start = b.at /\ row.startEvent = b.id
                       /\ \A e \in S : b.at < e.at \/ (b.at = e.at /\ b.id <= e.id)
    BY <1>2 DEF StartOf
  <2>2. CASE StartWins(delta, row)
    <3>1. d.at < b.at \/ (d.at = b.at /\ d.id < b.id)
      BY <1>1, <2>1, <2>2 DEF StartWins
    <3>2. new.start = d.at /\ new.startEvent = d.id
      BY <1>1, <1>3, <1>4, <1>7, <2>1, <2>2, <3>1
    <3>3. \A e \in T : d.at < e.at \/ (d.at = e.at /\ d.id <= e.id)
      BY <1>3, <2>1, <3>1
    <3> QED BY <3>2, <3>3 DEF StartOf
  <2>3. CASE ~StartWins(delta, row)
    <3>1. b.at < d.at \/ (b.at = d.at /\ b.id <= d.id)
      BY <1>1, <1>3, <2>1, <2>3 DEF StartWins
    <3>2. new.start = b.at /\ new.startEvent = b.id
      BY <1>1, <1>3, <1>4, <1>7, <2>1, <2>3, <3>1
    <3> QED BY <2>1, <3>1, <3>2 DEF StartOf
  <2> QED BY <2>2, <2>3
<1>11. EndOf(new, T) /\ new.end >= row.end /\ ((new.end = NoTime) <=> (new.endEvent = 0))
  <2>1. CASE ~Ends(d)
    <3>1. ~EndWins(delta, row)
      BY <1>1, <2>1 DEF EndWins
    <3>2. new.end = row.end /\ new.endEvent = row.endEvent
      BY <1>4, <3>1
    <3>3. EndOf(new, T)
      BY <1>2, <2>1, <3>2 DEF EndOf
    <3>4. (row.end = NoTime) <=> (row.endEvent = 0)
      BY <1>2, <1>3 DEF EndOf, NoTime
    <3> QED BY <1>5, <3>2, <3>3, <3>4
  <2>2. CASE Ends(d)
    <3>1. delta.end = d.at /\ delta.endEvent = d.id /\ d.at # NoTime
      BY <1>1, <1>3, <2>2 DEF NoTime
    <3>2. CASE row.end = NoTime /\ row.endEvent = 0 /\ \A e \in S : ~Ends(e)
      <4>1. EndWins(delta, row)
        BY <3>1, <3>2 DEF EndWins
      <4>2. new.end = d.at /\ new.endEvent = d.id
        BY <1>4, <3>1, <4>1
      <4>3. \A e \in T : Ends(e) => d.at > e.at \/ (d.at = e.at /\ d.id >= e.id)
        BY <1>3, <3>2
      <4>4. EndOf(new, T)
        BY <2>2, <4>2, <4>3 DEF EndOf
      <4> QED BY <1>3, <3>1, <3>2, <4>2, <4>4 DEF NoTime
    <3>3. CASE \E b \in S : /\ Ends(b) /\ row.end = b.at /\ row.endEvent = b.id
                            /\ \A e \in S : Ends(e) => b.at > e.at \/ (b.at = e.at /\ b.id >= e.id)
      <4>1. PICK b \in S : /\ Ends(b) /\ row.end = b.at /\ row.endEvent = b.id
                           /\ \A e \in S : Ends(e) => b.at > e.at \/ (b.at = e.at /\ b.id >= e.id)
        BY <3>3
      <4>2. CASE EndWins(delta, row)
        <5>1. d.at > b.at \/ (d.at = b.at /\ d.id > b.id)
          BY <1>3, <3>1, <4>1, <4>2 DEF EndWins, NoTime
        <5>2. new.end = d.at /\ new.endEvent = d.id
          BY <1>4, <3>1, <4>2
        <5>3. \A e \in T : Ends(e) => d.at > e.at \/ (d.at = e.at /\ d.id >= e.id)
          BY <1>3, <4>1, <5>1
        <5>4. EndOf(new, T)
          BY <2>2, <5>2, <5>3 DEF EndOf
        <5> QED BY <1>3, <3>1, <4>1, <5>1, <5>2, <5>4 DEF NoTime
      <4>3. CASE ~EndWins(delta, row)
        <5>1. b.at > d.at \/ (b.at = d.at /\ b.id >= d.id)
          BY <1>3, <3>1, <4>1, <4>3 DEF EndWins, NoTime
        <5>2. new.end = b.at /\ new.endEvent = b.id
          BY <1>4, <4>1, <4>3
        <5>3. EndOf(new, T)
          BY <4>1, <5>1, <5>2 DEF EndOf
        <5> QED BY <1>3, <1>5, <4>1, <5>2, <5>3 DEF NoTime
      <4> QED BY <4>2, <4>3
    <3> QED BY <1>2, <3>2, <3>3 DEF EndOf
  <2> QED BY <2>1, <2>2
<1>12. RankOf(new, T)
  <2>1. PICK b \in S : row.rank = Ranks[b.kind]
    BY <1>2 DEF RankOf
  <2>2. \A e \in S : Ranks[e.kind] <= row.rank
    BY <1>2 DEF RankOf
  <2>3. \A e \in T : Ranks[e.kind] <= new.rank
    BY <1>3, <1>5, <1>8, <2>2
  <2> QED BY <1>8, <2>1, <2>3 DEF RankOf
<1>13. AgentOf(new, T)
  <2>1. new.agent = IF d.agent = NoAgent \/ (row.agent # NoAgent /\ ~StartWins(delta, row)) THEN row.agent ELSE d.agent
    BY <1>1, <1>4 DEF Preferring
  <2> QED BY <1>2, <2>1 DEF AgentOf
<1>14. ~SpanAborts(row, new)
  <2>1. new.start <= row.start
    BY <1>3, <1>5, <1>7
  <2>2. new.rank >= row.rank
    BY <1>3, <1>5, <1>8
  <2>3. new.start \in Nat /\ new.end \in Nat /\ new.rank \in Nat
    <3>1. new.rank \in 1 .. 3 => new.rank \in Nat
      OBVIOUS
    <3> QED BY <1>9, <3>1, SpanRowTypes
  <2> QED BY <1>5, <1>11, <2>1, <2>2, <2>3 DEF SpanAborts
<1> QED BY <1>9, <1>10, <1>11, <1>12, <1>13, <1>14 DEF RowOf, new, delta

SomeRows == {row \in SpanRow \cup {NoSpan} : \E S \in SUBSET Facts : SpanOf(row, S)}

(* The same, from a row or from none.                                      *)
LEMMA MergeSpanKeeps ==
  ASSUME ObservationAssumptions, NEW S \in SUBSET Facts, NEW row, SpanOf(row, S), NEW d \in Facts
  PROVE  LET new == Merge(row, SpanDelta(d))
         IN new \in SpanRow /\ SpanOf(new, S \cup {d}) /\ ~SpanAborts(row, new)
<1>1. CASE S = {}
  <2>1. row = NoSpan /\ S \cup {d} = {d}
    BY <1>1 DEF SpanOf
  <2>2. Merge(row, SpanDelta(d)) = SpanDelta(d)
    BY <2>1 DEF Merge
  <2> QED BY <2>1, <2>2, DeltaIsRow DEF SpanOf
<1>2. CASE S # {}
  <2>1. RowOf(row, S)
    BY <1>2 DEF SpanOf
  <2>2. RowOf(Merge(row, SpanDelta(d)), S \cup {d}) /\ ~SpanAborts(row, Merge(row, SpanDelta(d)))
    BY <2>1, MergeKeeps
  <2> QED BY <2>2 DEF SpanOf, RowOf
<1> QED BY <1>1, <1>2

(* The rows a list of deltas makes, one after the other.                   *)
LEMMA RowsAfterIs ==
  ASSUME ObservationAssumptions, NEW row, NEW S \in SUBSET Facts, SpanOf(row, S), NEW deltas \in Seq(Facts)
  PROVE  /\ RowsAfter(row, deltas)[0] = row
         /\ \A k \in 1 .. Len(deltas) :
              RowsAfter(row, deltas)[k] = Merge(RowsAfter(row, deltas)[k - 1], SpanDelta(deltas[k]))
<1> DEFINE n == Len(deltas)
           g == [k \in 1 .. n |-> [r \in SomeRows |-> Merge(r, SpanDelta(deltas[k]))]]
           F(f) == [k \in 0 .. n |-> IF k = 0 THEN row ELSE Merge(f[k - 1], SpanDelta(deltas[k]))]
<1>1. n \in Nat /\ \A k \in 1 .. n : deltas[k] \in Facts
  OBVIOUS
<1>2. row \in SomeRows
  BY DEF SomeRows, SpanOf, RowOf
<1>3. \A k \in 1 .. n, r \in SomeRows : Merge(r, SpanDelta(deltas[k])) \in SomeRows
  <2> SUFFICES ASSUME NEW k \in 1 .. n, NEW r \in SomeRows PROVE Merge(r, SpanDelta(deltas[k])) \in SomeRows
    OBVIOUS
  <2>1. PICK R \in SUBSET Facts : SpanOf(r, R)
    BY DEF SomeRows
  <2>2. Merge(r, SpanDelta(deltas[k])) \in SpanRow /\ SpanOf(Merge(r, SpanDelta(deltas[k])), R \cup {deltas[k]})
    BY <1>1, <2>1, MergeSpanKeeps
  <2>3. R \cup {deltas[k]} \in SUBSET Facts
    BY <1>1, <2>1
  <2> QED BY <2>2, <2>3 DEF SomeRows
<1>4. g \in StepsIn(SomeRows, n)
  <2> HIDE DEF n
  <2> QED BY <1>3 DEF StepsIn
<1>5. PICK f : f \in [0 .. n -> SomeRows] /\ f[0] = row /\ \A k \in 1 .. n : f[k] = g[k][f[k - 1]]
  <2> HIDE DEF g, n
  <2>1. n \in Nat
    BY <1>1 DEF n
  <2>2. PICK f : ChainFrom(SomeRows, row, n, g, f)
    BY <1>2, <1>4, <2>1, ChainExists
  <2> QED BY <2>2 DEF ChainFrom
<1>6. \A k \in 1 .. n : f[k] = Merge(f[k - 1], SpanDelta(deltas[k]))
  <2> SUFFICES ASSUME NEW k \in 1 .. n PROVE f[k] = Merge(f[k - 1], SpanDelta(deltas[k]))
    OBVIOUS
  <2>1. k - 1 \in 0 .. n /\ f[k - 1] \in SomeRows
    BY <1>1, <1>5
  <2> QED BY <1>5, <2>1
<1>7. f = F(f)
  <2>1. \A k \in 0 .. n : f[k] = IF k = 0 THEN row ELSE Merge(f[k - 1], SpanDelta(deltas[k]))
    <3>1. \A k \in 0 .. n : k = 0 \/ k \in 1 .. n
      BY <1>1
    <3> HIDE DEF n
    <3> QED BY <1>5, <1>6, <3>1
  <2> HIDE DEF n
  <2> QED BY <1>5, <2>1
<1>8. RowsAfter(row, deltas) = F(RowsAfter(row, deltas))
  <2>1. RowsAfter(row, deltas) = CHOOSE h : h = F(h)
    BY DEF RowsAfter
  <2> HIDE DEF F
  <2> QED BY <1>7, <2>1
<1>9. \A k \in 0 .. n : RowsAfter(row, deltas)[k] =
        IF k = 0 THEN row ELSE Merge(RowsAfter(row, deltas)[k - 1], SpanDelta(deltas[k]))
  <2> DEFINE h == RowsAfter(row, deltas)
  <2>1. h = F(h)
    BY <1>8
  <2> HIDE DEF h, n
  <2>2. \A k \in 0 .. n : h[k] = IF k = 0 THEN row ELSE Merge(h[k - 1], SpanDelta(deltas[k]))
    BY <2>1
  <2> QED BY <2>2 DEF h
<1> HIDE DEF n
<1>10. 0 \in 0 .. n /\ \A k \in 1 .. n : k \in 0 .. n /\ k # 0
  BY <1>1
<1> QED BY <1>9, <1>10 DEF n

(* They are of the events before and of those in the list so far, and no   *)
(* trigger refuses one of them.                                            *)
LEMMA UpsertFolds ==
  ASSUME ObservationAssumptions, NEW row, NEW S \in SUBSET Facts, SpanOf(row, S), NEW deltas \in Seq(Facts)
  PROVE  /\ SpanOf(UpsertSpan(row, deltas), S \cup {deltas[i] : i \in 1 .. Len(deltas)})
         /\ ~UpsertSpanAborts(row, deltas)
<1> DEFINE n == Len(deltas)
           after == RowsAfter(row, deltas)
           In(k) == S \cup {deltas[i] : i \in 1 .. k}
           Bad == {k \in 0 .. n : ~SpanOf(after[k], In(k))}
<1>1. n \in Nat /\ \A k \in 1 .. n : deltas[k] \in Facts
  OBVIOUS
<1>2. after[0] = row /\ \A k \in 1 .. n : after[k] = Merge(after[k - 1], SpanDelta(deltas[k]))
  BY RowsAfterIs
<1> HIDE DEF after, n
<1>3. \A k \in 0 .. n : In(k) \in SUBSET Facts
  BY <1>1
<1>4. \A k \in 1 .. n : k - 1 \in 0 .. n /\ In(k) = In(k - 1) \cup {deltas[k]}
  BY <1>1
<1>5. In(0) = S
  OBVIOUS
<1> HIDE DEF In
<1>6. \A k \in 1 .. n : SpanOf(after[k - 1], In(k - 1)) =>
        SpanOf(after[k], In(k)) /\ ~SpanAborts(after[k - 1], after[k])
  BY <1>1, <1>2, <1>3, <1>4, MergeSpanKeeps
<1>7. Bad = {}
  <2>1. SUFFICES ASSUME Bad # {} PROVE FALSE
    OBVIOUS
  <2>2. Bad \in SUBSET Nat
    BY <1>1
  <2>3. PICK m \in Bad : \A k \in Bad : m <= k
    <3> HIDE DEF Bad
    <3> QED BY <2>1, <2>2, LeastOfSome
  <2>4. m \in 0 .. n /\ m # 0
    BY <1>2, <1>5, <2>3
  <2>5. m \in 1 .. n /\ m - 1 \in 0 .. n /\ ~(m <= m - 1)
    BY <1>1, <2>4
  <2>6. m - 1 \notin Bad
    <3> HIDE DEF Bad
    <3> QED BY <2>3, <2>5
  <2>7. SpanOf(after[m - 1], In(m - 1))
    BY <2>5, <2>6
  <2> QED BY <1>6, <2>3, <2>5, <2>7
<1>8. \A k \in 0 .. n : SpanOf(after[k], In(k))
  BY <1>7
<1>9. \A k \in 1 .. n : ~SpanAborts(after[k - 1], after[k])
  BY <1>4, <1>6, <1>8
<1>10. SpanOf(after[n], In(n))
  BY <1>1, <1>8
<1>11. DOMAIN deltas = 1 .. n
  BY DEF n
<1> QED BY <1>9, <1>10, <1>11 DEF UpsertSpan, UpsertSpanAborts, after, n, In

(* A projection lists each of its events, once.                            *)
(* The canonical encodings of different events are in an order.            *)
LEMMA EncodingIsOrder ==
  ASSUME ObservationAssumptions, NEW x \in Facts, NEW y \in Facts, x.id # y.id
  PROVE  /\ ~EncodesBefore(x, x)
         /\ EncodesBefore(x, y) \/ EncodesBefore(y, x)
         /\ \A z \in Facts : EncodesBefore(z, x) /\ EncodesBefore(x, y) => EncodesBefore(z, y)
<1>1. \A d \in Facts : d.id \in Nat /\ d.agent \in Nat
  BY FactTypes
<1>2. ~EncodesBefore(x, x)
  BY <1>1 DEF EncodesBefore
<1>3. EncodesBefore(x, y) \/ EncodesBefore(y, x)
  BY <1>1 DEF EncodesBefore, Ends
<1>4. ASSUME NEW z \in Facts, EncodesBefore(z, x), EncodesBefore(x, y) PROVE EncodesBefore(z, y)
  BY <1>1, <1>4 DEF EncodesBefore, Ends
<1> QED BY <1>2, <1>3, <1>4

LEMMA ProjectionLists ==
  ASSUME ObservationAssumptions, NEW E \in SUBSET Facts, IsFiniteSet(E), \A d, e \in E : d.id = e.id => d = e
  PROVE  /\ Projection(E) \in Seq(Facts)
         /\ {Projection(E)[i] : i \in 1 .. Len(Projection(E))} = E
<1> DEFINE n == Cardinality(E)
           f == [d \in E |-> {e \in E : EncodesBefore(e, d)}]
           p == Projection(E)
<1>1. n \in Nat
  BY FS_CardinalityType
<1>2. \A x \in E : f[x] \subseteq E /\ x \notin f[x]
  <2> SUFFICES ASSUME NEW x \in E PROVE ~EncodesBefore(x, x)
    OBVIOUS
  <2>1. x.id \in Nat /\ x.agent \in Nat
    BY FactTypes
  <2> QED BY <2>1 DEF EncodesBefore
<1>3. \A x, y \in E : x # y => (x \in f[y] /\ f[x] \subseteq f[y]) \/ (y \in f[x] /\ f[y] \subseteq f[x])
  <2> SUFFICES ASSUME NEW x \in E, NEW y \in E, x # y
               PROVE  (x \in f[y] /\ f[x] \subseteq f[y]) \/ (y \in f[x] /\ f[y] \subseteq f[x])
    OBVIOUS
  <2>1. x.id # y.id /\ x \in Facts /\ y \in Facts
    OBVIOUS
  <2>2. CASE EncodesBefore(x, y)
    <3>1. \A z \in E : EncodesBefore(z, x) => EncodesBefore(z, y)
      BY <2>1, <2>2, EncodingIsOrder
    <3> QED BY <2>2, <3>1
  <2>3. CASE EncodesBefore(y, x)
    <3>1. \A z \in E : EncodesBefore(z, y) => EncodesBefore(z, x)
      BY <2>1, <2>3, EncodingIsOrder
    <3> QED BY <2>3, <3>1
  <2> QED BY <2>1, <2>2, <2>3, EncodingIsOrder
<1>4. /\ \A k \in 1 .. n : \E x \in E : Cardinality(f[x]) = k - 1
      /\ \A x \in E : Cardinality(f[x]) + 1 \in 1 .. n
      /\ \A x, y \in E : Cardinality(f[x]) = Cardinality(f[y]) => x = y
  <2> HIDE DEF f
  <2> QED BY <1>2, <1>3, PlacesAreTaken
<1>5. p = [k \in 1 .. n |-> CHOOSE d \in E : Cardinality({e \in E : EncodesBefore(e, d)}) = k - 1]
  BY DEF Projection
<1>6. \A k \in 1 .. n : p[k] \in E /\ Cardinality(f[p[k]]) = k - 1
  <2>1. \A d \in E : f[d] = {e \in E : EncodesBefore(e, d)}
    OBVIOUS
  <2> HIDE DEF f, p, n
  <2> SUFFICES ASSUME NEW k \in 1 .. n PROVE p[k] \in E /\ Cardinality(f[p[k]]) = k - 1
    OBVIOUS
  <2>2. p[k] = CHOOSE d \in E : Cardinality({e \in E : EncodesBefore(e, d)}) = k - 1
    BY <1>5
  <2>3. \E d \in E : Cardinality({e \in E : EncodesBefore(e, d)}) = k - 1
    BY <1>4, <2>1
  <2>4. p[k] \in E /\ Cardinality({e \in E : EncodesBefore(e, p[k])}) = k - 1
    BY <2>2, <2>3
  <2> QED BY <2>1, <2>4
<1>7. p \in Seq(Facts) /\ Len(p) = n
  <2>1. p \in [1 .. n -> Facts]
    <3> HIDE DEF f, p, n
    <3> QED BY <1>5, <1>6
  <2> HIDE DEF f, p, n
  <2> QED BY <1>1, <2>1
<1>8. \A x \in E : \E k \in 1 .. n : p[k] = x
  <2> SUFFICES ASSUME NEW x \in E PROVE \E k \in 1 .. n : p[k] = x
    OBVIOUS
  <2>1. PICK k \in 1 .. n : k = Cardinality(f[x]) + 1
    BY <1>4
  <2>2. Cardinality(f[x]) = k - 1
    <3>1. Cardinality(f[x]) \in Nat
      <4>1. IsFiniteSet(f[x])
        BY <1>2, FS_Subset
      <4> QED BY <4>1, FS_CardinalityType
    <3> HIDE DEF f
    <3> QED BY <2>1, <3>1
  <2> HIDE DEF f, p, n
  <2>3. p[k] = x
    BY <1>4, <1>6, <2>2
  <2> QED BY <2>3
<1> HIDE DEF p, n, f
<1>9. {p[i] : i \in 1 .. Len(p)} = E
  BY <1>6, <1>7, <1>8
<1> QED BY <1>7, <1>9 DEF p

-------------------------------------------------------------------------------
(* Rows of sessions                                                        *)

SesRow == [first : Nat, last : Nat, events : Nat, spans : Nat, failed : Nat]
Settles(ses) == ses.failed <= ses.spans /\ ses.first <= ses.last

(* What a session takes from a batch agrees with itself.                   *)
LEMMA SessionDeltaIs ==
  ASSUME ObservationAssumptions, NEW E \in SUBSET Facts, IsFiniteSet(E), E # {},
         NEW L, IsFiniteSet(L), NEW row, row \in SpanRow \cup {NoSpan}
  PROVE  LET new == SessionDelta(E, L, row)
         IN new \in SesRow /\ Settles(new) /\ new.events = Cardinality(L)
<1> DEFINE new == SessionDelta(E, L, row)
           times == {d.at : d \in E}
<1>1. times \subseteq Nat /\ times # {}
  BY FactTypes
<1>2. IsFiniteSet(times)
  <2> DEFINE f == [d \in E |-> d.at]
  <2>1. f \in Surjection(E, times)
    BY DEF Surjection
  <2> HIDE DEF f, times
  <2> QED BY <2>1, FS_Surjection
<1>3. PICK N \in times : \A m \in times : m <= N
  <2> HIDE DEF times
  <2> QED BY <1>1, <1>2, LatestExists
<1>4. N \in Nat /\ times \in SUBSET (0 .. N)
  <2> HIDE DEF times
  <2> QED BY <1>1, <1>3
<1>5. Min(times) \in times /\ \A m \in times : Min(times) <= m
  <2> HIDE DEF times
  <2> QED BY <1>1, LeastOfSome
<1>6. Max(times) \in times /\ \A m \in times : m <= Max(times)
  <2> HIDE DEF times
  <2> QED BY <1>1, <1>4, GreatestOfSome
<1>7. new = [first |-> Min(times), last |-> Max(times), events |-> Cardinality(L),
             spans |-> IF row = NoSpan THEN 0 ELSE 1, failed |-> IF row.rank = 3 THEN 1 ELSE 0]
  BY DEF SessionDelta, Ranks
<1>8. Min(times) \in Nat /\ Max(times) \in Nat /\ Min(times) <= Max(times)
  <2> HIDE DEF times
  <2> QED BY <1>1, <1>5, <1>6
<1>9. row = NoSpan => row.rank = 0
  BY DEF NoSpan
<1>10. Cardinality(L) \in Nat
  BY FS_CardinalityType
<1> HIDE DEF new, times
<1>11. new \in SesRow
  BY <1>7, <1>8, <1>10 DEF SesRow
<1>12. Settles(new) /\ new.events = Cardinality(L)
  BY <1>7, <1>8, <1>9 DEF Settles
<1> QED BY <1>11, <1>12 DEF new

(* An upsert of a session keeps that, and the larger count.                *)
LEMMA SessionUpserts ==
  ASSUME NEW old, old \in SesRow \cup {NoSession}, old # NoSession => Settles(old), NEW new \in SesRow, Settles(new)
  PROVE  LET ses == UpsertSession(old, new)
         IN /\ ses \in SesRow /\ Settles(ses) /\ ~SessionAborts(old, ses)
            /\ ses.events = IF old # NoSession /\ old.events >= new.events THEN old.events ELSE new.events
<1> DEFINE ses == UpsertSession(old, new)
<1>1. new.first \in Nat /\ new.last \in Nat /\ new.events \in Nat /\ new.spans \in Nat /\ new.failed \in Nat
  BY DEF SesRow
<1>2. CASE old = NoSession
  <2>1. ses = new
    BY <1>2 DEF UpsertSession
  <2> HIDE DEF ses
  <2>2. ~SessionAborts(old, ses)
    BY <1>1, <1>2, <2>1 DEF SessionAborts, Settles
  <2> QED BY <1>2, <2>1, <2>2 DEF ses
<1>3. CASE old # NoSession
  <2>1. old.first \in Nat /\ old.last \in Nat /\ old.events \in Nat /\ old.spans \in Nat /\ old.failed \in Nat
    BY <1>3 DEF SesRow
  <2>2. ses = [first |-> IF old.first <= new.first THEN old.first ELSE new.first,
               last |-> IF old.last >= new.last THEN old.last ELSE new.last,
               events |-> IF old.events >= new.events THEN old.events ELSE new.events,
               spans |-> IF old.spans >= new.spans THEN old.spans ELSE new.spans,
               failed |-> IF old.failed >= new.failed THEN old.failed ELSE new.failed]
    BY <1>1, <1>3, <2>1, MinOfTwo, MaxOfTwo DEF UpsertSession
  <2> HIDE DEF ses
  <2>3. ses \in SesRow
    BY <1>1, <2>1, <2>2 DEF SesRow
  <2>4. Settles(ses)
    BY <1>1, <1>3, <2>1, <2>2 DEF Settles
  <2>5. ~SessionAborts(old, ses)
    BY <1>1, <1>3, <2>1, <2>2 DEF Settles, SessionAborts
  <2> QED BY <1>3, <2>2, <2>3, <2>4, <2>5 DEF ses
<1> QED BY <1>2, <1>3

-------------------------------------------------------------------------------
(* What every step of the read model preserves                             *)

RestingJob == [at : {"idle", "done"}]
ClearJob == [at : {"clear"}, scanned : SUBSET Facts]
SpansJob == [at : {"spans"}, scanned : SUBSET Facts, todo : Seq(Facts), alone : BOOLEAN]
Todo(job) == {job.todo[i] : i \in 1 .. Len(job.todo)}

ObsSets ==
  /\ logged \in SUBSET Facts /\ IsFiniteSet(logged)
  /\ folded \in SUBSET logged /\ excused \in SUBSET logged
  /\ \A d, e \in logged : d.id = e.id => d = e
ObsJobs == rebuilder \in [Rebuilders -> RestingJob \cup ClearJob \cup SpansJob]
ObsSpan == SpanOf(span, folded) /\ ~aborted
ObsSession ==
  /\ session \in SesRow \cup {NoSession}
  /\ session # NoSession => Settles(session) /\ session.events = Cardinality(logged)
HasScanned(job, log) == job.scanned \in SUBSET log /\ job.scanned # {}
ClearJobHolds(job, log) == job.at = "clear" => HasScanned(job, log)
SpansJobHolds(job, log, done) ==
  job.at = "spans" => /\ HasScanned(job, log) /\ Todo(job) \subseteq job.scanned
                      /\ job.alone => job.scanned \subseteq done \cup Todo(job)
ObsScans == \A r \in Rebuilders : ClearJobHolds(rebuilder[r], logged) /\ SpansJobHolds(rebuilder[r], logged, folded)
ObsCover ==
  \/ logged \subseteq folded \cup excused
  \/ \E q \in Rebuilders : rebuilder[q].at = "spans" /\ logged \subseteq folded \cup excused \cup Todo(rebuilder[q])
ObsInv == ObsSets /\ ObsJobs /\ ObsSpan /\ ObsSession /\ ObsScans /\ ObsCover
(* A rebuild at a step holds what the step needs.                          *)
LEMMA JobShapes ==
  ASSUME NEW job, job \in RestingJob \cup ClearJob \cup SpansJob
  PROVE  /\ job.at \in {"idle", "done", "clear", "spans"}
         /\ job.at = "clear" => job \in ClearJob /\ job.scanned \in SUBSET Facts
         /\ job.at = "spans" => /\ job \in SpansJob /\ job.scanned \in SUBSET Facts
                                /\ job.todo \in Seq(Facts) /\ job.alone \in BOOLEAN
                                /\ job = [at |-> "spans", scanned |-> job.scanned, todo |-> job.todo, alone |-> job.alone]
<1>1. CASE job \in RestingJob
  BY <1>1 DEF RestingJob
<1>2. CASE job \in ClearJob
  BY <1>2 DEF ClearJob
<1>3. CASE job \in SpansJob
  BY <1>3 DEF SpansJob
<1> QED BY <1>1, <1>2, <1>3

LEMMA JobsWait == \A w \in {"idle", "done"} : [at |-> w] \in RestingJob
  BY DEF RestingJob

(* There is a row when there are events in it.                             *)
LEMMA SpanIsRow ==
  ASSUME NEW row, NEW S, SpanOf(row, S)
  PROVE  row \in SpanRow \cup {NoSpan} /\ (row = NoSpan <=> S = {})
<1>1. CASE S = {}
  BY <1>1 DEF SpanOf
<1>2. CASE S # {}
  BY <1>2, NoSpanIsNoRow DEF SpanOf, RowOf
<1> QED BY <1>1, <1>2

LEMMA ObsStart ==
  ASSUME ObservationsInit
  PROVE  ObsInv
<1>1. ObsSets
  BY FS_EmptySet DEF ObservationsInit, ObsSets
<1>2. ObsJobs /\ \A r \in Rebuilders : rebuilder[r].at = "idle"
  BY JobsWait DEF ObservationsInit, ObsJobs
<1>3. ObsSpan
  BY DEF ObservationsInit, ObsSpan, SpanOf
<1>4. ObsSession
  BY DEF ObservationsInit, ObsSession
<1>5. ObsScans
  BY <1>2 DEF ObsScans, ClearJobHolds, SpansJobHolds
<1>6. ObsCover
  BY DEF ObservationsInit, ObsCover
<1> QED BY <1>1, <1>2, <1>3, <1>4, <1>5, <1>6 DEF ObsInv

(* A batch of ingest, whatever it brings.                                  *)
LEMMA IngestBatchKeeps ==
  ASSUME ObservationAssumptions, ObsInv, NEW E \in SUBSET Facts, IsFiniteSet(E), IngestBatch(E)
  PROVE  ObsInv'
<1> DEFINE p == Projection(E)
           row == UpsertSpan(span, p)
           delta == SessionDelta(E, logged \cup E, row)
           ses == UpsertSession(session, delta)
<1>1. /\ E # {} /\ Unambiguous(E)
      /\ aborted' = (aborted \/ UpsertSpanAborts(span, p) \/ SessionAborts(session, ses))
      /\ logged' = logged \cup E /\ span' = row /\ session' = ses /\ folded' = folded \cup E
      /\ rebuilder' = rebuilder /\ excused' = excused
  BY DEF IngestBatch
<1>2. /\ logged \in SUBSET Facts /\ IsFiniteSet(logged) /\ folded \in SUBSET logged /\ excused \in SUBSET logged
      /\ folded \in SUBSET Facts
  BY DEF ObsInv, ObsSets
<1>3. IsFiniteSet(logged \cup E) /\ Cardinality(logged) <= Cardinality(logged \cup E)
      /\ Cardinality(logged) \in Nat /\ Cardinality(logged \cup E) \in Nat
  <2>1. IsFiniteSet(logged \cup E)
    BY <1>2, FS_Union
  <2>2. Cardinality(logged) <= Cardinality(logged \cup E)
    BY <2>1, FS_Subset
  <2> QED BY <1>2, <2>1, <2>2, FS_CardinalityType
<1>4. p \in Seq(Facts) /\ {p[i] : i \in 1 .. Len(p)} = E
  <2>1. \A d, e \in E : d.id = e.id => d = e
    BY <1>1 DEF Unambiguous
  <2> QED BY <2>1, ProjectionLists
<1>5. SpanOf(row, folded \cup E) /\ ~UpsertSpanAborts(span, p)
  <2>1. SpanOf(span, folded)
    BY DEF ObsInv, ObsSpan
  <2> HIDE DEF p
  <2>2. SpanOf(UpsertSpan(span, p), folded \cup {p[i] : i \in 1 .. Len(p)}) /\ ~UpsertSpanAborts(span, p)
    BY <1>2, <1>4, <2>1, UpsertFolds
  <2> QED BY <1>4, <2>2
<1>6. delta \in SesRow /\ Settles(delta) /\ delta.events = Cardinality(logged \cup E)
  <2>1. row \in SpanRow \cup {NoSpan}
    BY <1>5, SpanIsRow
  <2> HIDE DEF row
  <2> QED BY <1>1, <1>3, <2>1, SessionDeltaIs
<1>7. ses \in SesRow /\ Settles(ses) /\ ~SessionAborts(session, ses) /\ ses.events = Cardinality(logged \cup E)
  <2>1. /\ session \in SesRow \cup {NoSession}
        /\ session # NoSession => Settles(session)
        /\ session # NoSession => session.events = Cardinality(logged)
    BY DEF ObsInv, ObsSession
  <2>2. /\ ses \in SesRow /\ Settles(ses) /\ ~SessionAborts(session, ses)
        /\ ses.events = IF session # NoSession /\ session.events >= delta.events THEN session.events ELSE delta.events
    <3>1. delta \in SesRow /\ Settles(delta)
      BY <1>6
    <3> HIDE DEF delta
    <3> QED BY <2>1, <3>1, SessionUpserts
  <2>3. ses.events = delta.events
    <3> HIDE DEF ses, delta
    <3> QED BY <1>3, <1>6, <2>1, <2>2
  <2> QED BY <1>6, <2>2, <2>3
<1> HIDE DEF p, row, delta, ses
<1>8. ObsSets'
  <2>1. \A d, e \in logged \cup E : d.id = e.id => d = e
    BY <1>1 DEF Unambiguous
  <2> QED BY <1>1, <1>2, <1>3, <2>1 DEF ObsSets
<1>9. ObsJobs'
  BY <1>1 DEF ObsInv, ObsJobs
<1>10. ObsSpan'
  <2>1. ~aborted
    BY DEF ObsInv, ObsSpan
  <2> QED BY <1>1, <1>5, <1>7, <2>1 DEF ObsSpan
<1>11. ObsSession'
  BY <1>1, <1>7 DEF ObsSession
<1>12. ObsScans'
  BY <1>1 DEF ObsInv, ObsScans, ClearJobHolds, SpansJobHolds, HasScanned
<1>13. ObsCover'
  BY <1>1 DEF ObsInv, ObsCover
<1> QED BY <1>8, <1>9, <1>10, <1>11, <1>12, <1>13 DEF ObsInv

(* A rebuild reads the log.                                                *)
LEMMA ScanLogKeeps ==
  ASSUME ObsInv, NEW r \in Rebuilders, ScanLog(r)
  PROVE  ObsInv'
<1> DEFINE next == [at |-> "clear", scanned |-> logged]
<1>1. /\ rebuilder[r].at = "idle" /\ logged # {} /\ rebuilder' = [rebuilder EXCEPT ![r] = next]
      /\ logged' = logged /\ span' = span /\ session' = session /\ folded' = folded /\ excused' = excused
      /\ aborted' = aborted
  BY DEF ScanLog, RebuilderGoto, obsHistory
<1>2. next \in ClearJob /\ next.at = "clear" /\ next.scanned = logged
  BY DEF ObsInv, ObsSets, ClearJob
<1> HIDE DEF next
<1>3. /\ rebuilder' \in [Rebuilders -> RestingJob \cup ClearJob \cup SpansJob] /\ rebuilder'[r] = next
      /\ \A q \in Rebuilders : q # r => rebuilder'[q] = rebuilder[q]
  BY <1>1, <1>2 DEF ObsInv, ObsJobs
<1>4. ObsSets' /\ ObsSpan' /\ ObsSession'
  BY <1>1 DEF ObsInv, ObsSets, ObsSpan, ObsSession
<1>5. ObsScans'
  <2> SUFFICES ASSUME NEW q \in Rebuilders
               PROVE  ClearJobHolds(rebuilder'[q], logged) /\ SpansJobHolds(rebuilder'[q], logged, folded)
    BY <1>1 DEF ObsScans
  <2>1. CASE q = r
    BY <1>1, <1>2, <1>3, <2>1 DEF ClearJobHolds, SpansJobHolds, HasScanned
  <2>2. CASE q # r
    BY <1>3, <2>2 DEF ObsInv, ObsScans
  <2> QED BY <2>1, <2>2
<1>6. ObsCover'
  <2>1. CASE logged \subseteq folded \cup excused
    BY <1>1, <2>1 DEF ObsCover
  <2>2. ASSUME NEW q \in Rebuilders, rebuilder[q].at = "spans", logged \subseteq folded \cup excused \cup Todo(rebuilder[q])
        PROVE  ObsCover'
    <3>1. q # r
      BY <1>1, <2>2
    <3> QED BY <1>1, <1>3, <2>2, <3>1 DEF ObsCover
  <2> QED BY <2>1, <2>2 DEF ObsInv, ObsCover
<1> QED BY <1>3, <1>4, <1>5, <1>6 DEF ObsInv, ObsJobs

(* What a step changes of the job of a rebuild.                            *)
LEMMA JobsChange ==
  ASSUME NEW job \in SpansJob
  PROVE  /\ [job EXCEPT !.alone = FALSE] \in SpansJob
         /\ LET new == [job EXCEPT !.alone = FALSE]
            IN new.at = "spans" /\ new.scanned = job.scanned /\ new.todo = job.todo /\ new.alone = FALSE
         /\ job.todo # <<>> => [job EXCEPT !.todo = Tail(@)] \in SpansJob
         /\ LET new == [job EXCEPT !.todo = Tail(@)]
            IN new.at = "spans" /\ new.scanned = job.scanned /\ new.todo = Tail(job.todo) /\ new.alone = job.alone
<1>1. [job EXCEPT !.alone = FALSE] \in SpansJob
  BY DEF SpansJob
<1>2. LET new == [job EXCEPT !.alone = FALSE]
      IN new.at = "spans" /\ new.scanned = job.scanned /\ new.todo = job.todo /\ new.alone = FALSE
  BY DEF SpansJob
<1>3. ASSUME job.todo # <<>> PROVE [job EXCEPT !.todo = Tail(@)] \in SpansJob
  <2>1. job.todo \in Seq(Facts)
    BY DEF SpansJob
  <2>2. PICK rest \in Seq(Facts) : rest = Tail(job.todo)
    <3>1. Tail(job.todo) \in Seq(Facts)
      BY <1>3, <2>1
    <3> QED BY <3>1
  <2>3. [job EXCEPT !.todo = rest] \in SpansJob
    BY DEF SpansJob
  <2> QED BY <2>2, <2>3
<1>4. LET new == [job EXCEPT !.todo = Tail(@)]
      IN new.at = "spans" /\ new.scanned = job.scanned /\ new.todo = Tail(job.todo) /\ new.alone = job.alone
  BY DEF SpansJob
<1> QED BY <1>1, <1>2, <1>3, <1>4

(* It clears the rows: its deltas are all to come, and what it did not     *)
(* read is excused.                                                        *)
LEMMA ClearRowsKeeps ==
  ASSUME ObservationAssumptions, ObsInv, NEW r \in Rebuilders, ClearRows(r)
  PROVE  ObsInv'
<1> DEFINE scanned == rebuilder[r].scanned
           p == Projection(scanned)
           next == [at |-> "spans", scanned |-> scanned, todo |-> p, alone |-> Clearing = {}]
           Disturbed(q) == [rebuilder[q] EXCEPT !.alone = FALSE]
<1>1. /\ rebuilder[r].at = "clear"
      /\ rebuilder' = [q \in Rebuilders |->
           IF q = r THEN next ELSE IF q \in Clearing THEN Disturbed(q) ELSE rebuilder[q]]
      /\ logged' = logged /\ span' = NoSpan /\ session' = NoSession /\ folded' = {}
      /\ excused' = excused \cup (logged \ scanned) /\ aborted' = aborted
  BY DEF ClearRows
<1>2. \A q \in Rebuilders : rebuilder[q] \in RestingJob \cup ClearJob \cup SpansJob
  BY DEF ObsInv, ObsJobs
<1>3. scanned \in SUBSET logged /\ scanned # {} /\ scanned \in SUBSET Facts /\ IsFiniteSet(scanned)
  <2>1. scanned \in SUBSET logged /\ scanned # {}
    BY <1>1 DEF ObsInv, ObsScans, ClearJobHolds, HasScanned
  <2>2. logged \in SUBSET Facts /\ IsFiniteSet(logged)
    BY DEF ObsInv, ObsSets
  <2> QED BY <2>1, <2>2, FS_Subset
<1>4. p \in Seq(Facts) /\ {p[i] : i \in 1 .. Len(p)} = scanned
  <2>1. \A d, e \in scanned : d.id = e.id => d = e
    BY <1>3 DEF ObsInv, ObsSets
  <2> HIDE DEF scanned
  <2> QED BY <1>3, <2>1, ProjectionLists
<1> HIDE DEF scanned, p
<1>5. next \in SpansJob /\ next.at = "spans" /\ next.scanned = scanned /\ Todo(next) = scanned
  <2>1. (Clearing = {}) \in BOOLEAN
    OBVIOUS
  <2>2. next \in SpansJob
    BY <1>3, <1>4, <2>1 DEF SpansJob
  <2>3. Todo(next) = {p[i] : i \in 1 .. Len(p)}
    BY DEF Todo
  <2> QED BY <1>4, <2>2, <2>3
<1> HIDE DEF next
<1>6. \A q \in Clearing : /\ Disturbed(q) \in SpansJob /\ Disturbed(q).at = "spans"
                          /\ Disturbed(q).scanned = rebuilder[q].scanned /\ Disturbed(q).alone = FALSE
                          /\ Todo(Disturbed(q)) = Todo(rebuilder[q])
  <2> SUFFICES ASSUME NEW q \in Rebuilders, rebuilder[q].at = "spans"
               PROVE  /\ Disturbed(q) \in SpansJob /\ Disturbed(q).at = "spans"
                      /\ Disturbed(q).scanned = rebuilder[q].scanned /\ Disturbed(q).alone = FALSE
                      /\ Todo(Disturbed(q)) = Todo(rebuilder[q])
    BY DEF Clearing
  <2> DEFINE job == rebuilder[q]
  <2>1. job \in SpansJob
    BY <1>2, JobShapes
  <2>2. Disturbed(q) \in SpansJob /\ Disturbed(q).at = "spans" /\ Disturbed(q).scanned = job.scanned
        /\ Disturbed(q).todo = job.todo /\ Disturbed(q).alone = FALSE
    BY <2>1, JobsChange
  <2> HIDE DEF Disturbed
  <2>3. Todo(Disturbed(q)) = Todo(job)
    BY <2>2 DEF Todo
  <2> QED BY <2>2, <2>3
<1> HIDE DEF Disturbed
<1>7. \A q \in Rebuilders :
        rebuilder'[q] = IF q = r THEN next ELSE IF q \in Clearing THEN Disturbed(q) ELSE rebuilder[q]
  BY <1>1
<1>8. ObsSets' /\ ObsSpan' /\ ObsSession'
  BY <1>1 DEF ObsInv, ObsSets, ObsSpan, ObsSession, SpanOf
<1>9. ObsJobs'
  <2>1. \A q \in Rebuilders : rebuilder'[q] \in RestingJob \cup ClearJob \cup SpansJob
    BY <1>2, <1>5, <1>6, <1>7
  <2> QED BY <1>1, <2>1 DEF ObsJobs
<1>10. ObsScans'
  <2> SUFFICES ASSUME NEW q \in Rebuilders
               PROVE  ClearJobHolds(rebuilder'[q], logged) /\ SpansJobHolds(rebuilder'[q], logged, {})
    BY <1>1 DEF ObsScans
  <2>1. CASE q = r
    BY <1>3, <1>5, <1>7, <2>1 DEF ClearJobHolds, SpansJobHolds, HasScanned
  <2>2. CASE q # r /\ q \in Clearing
    <3>1. SpansJobHolds(rebuilder[q], logged, folded) /\ rebuilder[q].at = "spans"
      BY <2>2 DEF ObsInv, ObsScans, Clearing
    <3>2. rebuilder'[q] = Disturbed(q)
      BY <1>7, <2>2
    <3> QED BY <1>6, <2>2, <3>1, <3>2 DEF ClearJobHolds, SpansJobHolds, HasScanned
  <2>3. CASE q # r /\ q \notin Clearing
    <3>1. rebuilder'[q] = rebuilder[q] /\ rebuilder[q].at # "spans" /\ ClearJobHolds(rebuilder[q], logged)
      BY <1>7, <2>3 DEF ObsInv, ObsScans, Clearing
    <3> QED BY <3>1 DEF SpansJobHolds
  <2> QED BY <2>1, <2>2, <2>3
<1>11. ObsCover'
  <2>1. rebuilder'[r].at = "spans" /\ Todo(rebuilder'[r]) = scanned
    BY <1>5, <1>7
  <2>2. logged' \subseteq folded' \cup excused' \cup Todo(rebuilder'[r])
    BY <1>1, <2>1
  <2>3. (Todo(rebuilder[r]))' = Todo(rebuilder'[r])
    BY DEF Todo
  <2> QED BY <2>1, <2>2, <2>3 DEF ObsCover
<1> QED BY <1>8, <1>9, <1>10, <1>11 DEF ObsInv

(* It puts one delta back.                                                 *)
LEMMA UpsertChunkKeeps ==
  ASSUME ObservationAssumptions, ObsInv, NEW r \in Rebuilders, UpsertChunk(r)
  PROVE  ObsInv'
<1> DEFINE job == rebuilder[r]
           d == Head(job.todo)
           row == UpsertSpan(span, <<d>>)
           next == [job EXCEPT !.todo = Tail(@)]
<1>1. /\ job.at = "spans" /\ job.todo # <<>>
      /\ aborted' = (aborted \/ UpsertSpanAborts(span, <<d>>))
      /\ span' = row /\ folded' = folded \cup {d}
      /\ rebuilder' = [rebuilder EXCEPT ![r] = next]
      /\ logged' = logged /\ session' = session /\ excused' = excused
  BY DEF UpsertChunk, RebuilderGoto
<1>2. \A q \in Rebuilders : rebuilder[q] \in RestingJob \cup ClearJob \cup SpansJob
  BY DEF ObsInv, ObsJobs
<1>3. /\ job.scanned \in SUBSET Facts /\ job.todo \in Seq(Facts) /\ job.alone \in BOOLEAN
      /\ job \in SpansJob
  BY <1>1, <1>2, JobShapes
<1>4. HasScanned(job, logged) /\ Todo(job) \subseteq job.scanned /\ (job.alone => job.scanned \subseteq folded \cup Todo(job))
  BY <1>1 DEF ObsInv, ObsScans, SpansJobHolds
<1>6. Len(job.todo) \in Nat \ {0} /\ d = job.todo[1] /\ Tail(job.todo) \in Seq(Facts)
      /\ Len(Tail(job.todo)) = Len(job.todo) - 1
      /\ \A i \in 1 .. Len(job.todo) - 1 : Tail(job.todo)[i] = job.todo[i + 1]
  BY <1>1, <1>3
<1> HIDE DEF job, d, next
<1>7. next \in SpansJob /\ next.at = "spans" /\ next.scanned = job.scanned /\ next.alone = job.alone
      /\ next.todo = Tail(job.todo)
  BY <1>1, <1>3, JobsChange DEF next
<1>8. Todo(job) = {d} \cup Todo(next)
  <2> DEFINE n == Len(job.todo)
             t == job.todo
             u == Tail(job.todo)
  <2>1. n \in Nat /\ n # 0 /\ d = t[1] /\ \A i \in 1 .. n - 1 : u[i] = t[i + 1]
    BY <1>6
  <2>2. Todo(next) = {u[i] : i \in 1 .. n - 1}
    BY <1>6, <1>7 DEF Todo
  <2>3. Todo(job) = {t[i] : i \in 1 .. n}
    BY DEF Todo
  <2> HIDE DEF n, t, u
  <2>4. {t[i] : i \in 1 .. n} \subseteq {d} \cup {u[i] : i \in 1 .. n - 1}
    <3> SUFFICES ASSUME NEW i \in 1 .. n, i # 1 PROVE t[i] \in {u[k] : k \in 1 .. n - 1}
      BY <2>1
    <3>1. i - 1 \in 1 .. n - 1 /\ t[i] = u[i - 1]
      BY <2>1
    <3> QED BY <3>1
  <2>5. {d} \cup {u[i] : i \in 1 .. n - 1} \subseteq {t[i] : i \in 1 .. n}
    <3>1. \A i \in 1 .. n - 1 : i + 1 \in 1 .. n
      BY <2>1
    <3>2. 1 \in 1 .. n
      BY <2>1
    <3> QED BY <2>1, <3>1, <3>2
  <2> QED BY <2>2, <2>3, <2>4, <2>5
<1>9. d \in logged /\ d \in Facts /\ folded \in SUBSET logged /\ logged \in SUBSET Facts
  <2>1. d \in job.scanned
    BY <1>4, <1>8
  <2> QED BY <1>4, <2>1 DEF ObsInv, ObsSets, HasScanned
<1>10. SpanOf(row, folded \cup {d}) /\ ~UpsertSpanAborts(span, <<d>>)
  <2> DEFINE one == <<d>>
  <2>1. one \in Seq(Facts) /\ {one[i] : i \in 1 .. Len(one)} = {d}
    <3>1. one \in Seq(Facts) /\ Len(one) = 1 /\ one[1] = d
      BY <1>9
    <3> HIDE DEF one
    <3> QED BY <3>1
  <2>2. SpanOf(span, folded) /\ folded \in SUBSET Facts
    BY <1>9 DEF ObsInv, ObsSpan
  <2> HIDE DEF one
  <2>3. SpanOf(UpsertSpan(span, one), folded \cup {one[i] : i \in 1 .. Len(one)}) /\ ~UpsertSpanAborts(span, one)
    BY <2>1, <2>2, UpsertFolds
  <2> QED BY <2>1, <2>3 DEF one
<1> HIDE DEF row
<1>11. /\ rebuilder' \in [Rebuilders -> RestingJob \cup ClearJob \cup SpansJob] /\ rebuilder'[r] = next
       /\ \A q \in Rebuilders : q # r => rebuilder'[q] = rebuilder[q]
  BY <1>1, <1>7 DEF ObsInv, ObsJobs
<1>12. ObsSets'
  BY <1>1, <1>9 DEF ObsInv, ObsSets
<1>13. ObsSpan' /\ ObsSession'
  BY <1>1, <1>10 DEF ObsInv, ObsSpan, ObsSession
<1>14. ObsScans'
  <2> SUFFICES ASSUME NEW q \in Rebuilders
               PROVE  ClearJobHolds(rebuilder'[q], logged) /\ SpansJobHolds(rebuilder'[q], logged, folded \cup {d})
    BY <1>1 DEF ObsScans
  <2>1. CASE q = r
    BY <1>4, <1>7, <1>8, <1>11, <2>1 DEF ClearJobHolds, SpansJobHolds, HasScanned
  <2>2. CASE q # r
    <3>1. ClearJobHolds(rebuilder[q], logged) /\ SpansJobHolds(rebuilder[q], logged, folded) /\ rebuilder'[q] = rebuilder[q]
      BY <1>11, <2>2 DEF ObsInv, ObsScans
    <3> QED BY <3>1 DEF SpansJobHolds
  <2> QED BY <2>1, <2>2
<1>15. ObsCover'
  <2>1. CASE logged \subseteq folded \cup excused
    BY <1>1, <2>1 DEF ObsCover
  <2>2. ASSUME NEW q \in Rebuilders, rebuilder[q].at = "spans", logged \subseteq folded \cup excused \cup Todo(rebuilder[q])
        PROVE  ObsCover'
    <3>1. rebuilder'[q].at = "spans" /\ Todo(rebuilder[q]) \subseteq {d} \cup Todo(rebuilder'[q])
      BY <1>7, <1>8, <1>11, <2>2 DEF job
    <3>2. (Todo(rebuilder[q]))' = Todo(rebuilder'[q])
      BY DEF Todo
    <3>3. logged' \subseteq folded' \cup excused' \cup Todo(rebuilder'[q])
      BY <1>1, <2>2, <3>1
    <3> QED BY <3>1, <3>2, <3>3 DEF ObsCover
  <2> QED BY <2>1, <2>2 DEF ObsInv, ObsCover
<1> QED BY <1>11, <1>12, <1>13, <1>14, <1>15 DEF ObsInv, ObsJobs

(* A rebuild that ends leaves the events of the row and of the others.     *)
LEMMA EndsOfRebuilds ==
  ASSUME ObsInv, NEW r \in Rebuilders, rebuilder' = [rebuilder EXCEPT ![r] = [at |-> "done"]],
         logged' = logged, folded' = folded
  PROVE  ObsJobs' /\ ObsScans' /\ rebuilder'[r].at = "done" /\ \A q \in Rebuilders : q # r => rebuilder'[q] = rebuilder[q]
<1> DEFINE next == [at |-> "done"]
<1>1. next \in RestingJob /\ next.at = "done"
  BY JobsWait
<1> HIDE DEF next
<1>2. rebuilder' = [rebuilder EXCEPT ![r] = next]
  BY DEF next
<1>3. /\ rebuilder' \in [Rebuilders -> RestingJob \cup ClearJob \cup SpansJob] /\ rebuilder'[r] = next
      /\ \A q \in Rebuilders : q # r => rebuilder'[q] = rebuilder[q]
  BY <1>1, <1>2 DEF ObsInv, ObsJobs
<1>4. ObsScans'
  <2> SUFFICES ASSUME NEW q \in Rebuilders
               PROVE  ClearJobHolds(rebuilder'[q], logged) /\ SpansJobHolds(rebuilder'[q], logged, folded)
    BY DEF ObsScans
  <2>1. CASE q = r
    BY <1>1, <1>3, <2>1 DEF ClearJobHolds, SpansJobHolds
  <2>2. CASE q # r
    BY <1>3, <2>2 DEF ObsInv, ObsScans
  <2> QED BY <2>1, <2>2
<1> QED BY <1>1, <1>3, <1>4 DEF ObsJobs

(* It ends with the session: alone, it has put back all it read.           *)
LEMMA UpsertSessionsKeeps ==
  ASSUME ObservationAssumptions, ObsInv, NEW r \in Rebuilders, UpsertSessions(r)
  PROVE  ObsInv'
<1> DEFINE job == rebuilder[r]
           delta == SessionDelta(job.scanned, logged, span)
           ses == UpsertSession(session, delta)
<1>1. /\ job.at = "spans" /\ job.todo = <<>> /\ aborted' = (aborted \/ SessionAborts(session, ses))
      /\ session' = ses /\ excused' = IF job.alone THEN excused \ job.scanned ELSE excused
      /\ rebuilder' = [rebuilder EXCEPT ![r] = [at |-> "done"]]
      /\ logged' = logged /\ span' = span /\ folded' = folded
  BY DEF UpsertSessions, RebuilderGoto
<1>2. HasScanned(job, logged) /\ (job.alone => job.scanned \subseteq folded \cup Todo(job)) /\ Todo(job) = {}
  <2>1. Todo(job) = {}
    BY <1>1 DEF Todo
  <2> QED BY <1>1, <2>1 DEF ObsInv, ObsScans, SpansJobHolds
<1>3. /\ logged \in SUBSET Facts /\ IsFiniteSet(logged) /\ Cardinality(logged) \in Nat
      /\ job.scanned \in SUBSET Facts /\ IsFiniteSet(job.scanned) /\ job.scanned # {}
  <2>1. logged \in SUBSET Facts /\ IsFiniteSet(logged) /\ job.scanned \in SUBSET logged /\ job.scanned # {}
    BY <1>2 DEF ObsInv, ObsSets, HasScanned
  <2> QED BY <2>1, FS_Subset, FS_CardinalityType
<1>4. span \in SpanRow \cup {NoSpan}
  BY SpanIsRow DEF ObsInv, ObsSpan
<1>5. delta \in SesRow /\ Settles(delta) /\ delta.events = Cardinality(logged)
  <2> HIDE DEF job
  <2> QED BY <1>3, <1>4, SessionDeltaIs
<1> HIDE DEF delta
<1>6. ses \in SesRow /\ Settles(ses) /\ ~SessionAborts(session, ses) /\ ses.events = Cardinality(logged)
  <2>1. /\ session \in SesRow \cup {NoSession}
        /\ session # NoSession => Settles(session)
        /\ session # NoSession => session.events = Cardinality(logged)
    BY DEF ObsInv, ObsSession
  <2>2. /\ ses \in SesRow /\ Settles(ses) /\ ~SessionAborts(session, ses)
        /\ ses.events = IF session # NoSession /\ session.events >= delta.events THEN session.events ELSE delta.events
    BY <1>5, <2>1, SessionUpserts
  <2> HIDE DEF ses
  <2> QED BY <1>5, <2>1, <2>2
<1> HIDE DEF ses
<1>7. ObsJobs' /\ ObsScans' /\ \A q \in Rebuilders : q # r => rebuilder'[q] = rebuilder[q]
  BY <1>1, EndsOfRebuilds
<1>8. ObsSets'
  BY <1>1 DEF ObsInv, ObsSets
<1>9. ObsSpan' /\ ObsSession'
  BY <1>1, <1>6 DEF ObsInv, ObsSpan, ObsSession
<1>10. folded' \cup excused' = folded \cup excused
  BY <1>1, <1>2
<1>11. ObsCover'
  <2>1. CASE logged \subseteq folded \cup excused
    BY <1>1, <1>10, <2>1 DEF ObsCover
  <2>2. ASSUME NEW q \in Rebuilders, rebuilder[q].at = "spans", logged \subseteq folded \cup excused \cup Todo(rebuilder[q])
        PROVE  ObsCover'
    <3>1. CASE q = r
      BY <1>1, <1>2, <1>10, <2>2, <3>1 DEF ObsCover
    <3>2. CASE q # r
      <4>1. rebuilder'[q] = rebuilder[q] /\ (Todo(rebuilder[q]))' = Todo(rebuilder'[q])
        BY <1>7, <3>2 DEF Todo
      <4> QED BY <1>1, <1>10, <2>2, <4>1 DEF ObsCover
    <3> QED BY <3>1, <3>2
  <2> QED BY <2>1, <2>2 DEF ObsInv, ObsCover
<1> QED BY <1>7, <1>8, <1>9, <1>11 DEF ObsInv

(* It dies: what it read is excused.                                       *)
LEMMA RebuildDiesKeeps ==
  ASSUME ObsInv, NEW r \in Rebuilders, RebuildDies(r)
  PROVE  ObsInv'
<1> DEFINE job == rebuilder[r]
<1>1. /\ job.at \in {"clear", "spans"}
      /\ excused' = IF job.at = "spans" THEN excused \cup job.scanned ELSE excused
      /\ rebuilder' = [rebuilder EXCEPT ![r] = [at |-> "done"]]
      /\ logged' = logged /\ span' = span /\ folded' = folded /\ session' = session /\ aborted' = aborted
  BY DEF RebuildDies, RebuilderGoto
<1>2. job.at = "spans" => job.scanned \in SUBSET logged /\ Todo(job) \subseteq job.scanned
  BY DEF ObsInv, ObsScans, SpansJobHolds, HasScanned
<1>3. ObsJobs' /\ ObsScans' /\ \A q \in Rebuilders : q # r => rebuilder'[q] = rebuilder[q]
  BY <1>1, EndsOfRebuilds
<1>4. ObsSets' /\ ObsSpan' /\ ObsSession' /\ excused \subseteq excused'
  BY <1>1, <1>2 DEF ObsInv, ObsSets, ObsSpan, ObsSession
<1>5. ObsCover'
  <2>1. CASE logged \subseteq folded \cup excused
    BY <1>1, <1>4, <2>1 DEF ObsCover
  <2>2. ASSUME NEW q \in Rebuilders, rebuilder[q].at = "spans", logged \subseteq folded \cup excused \cup Todo(rebuilder[q])
        PROVE  ObsCover'
    <3>1. CASE q = r
      BY <1>1, <1>2, <2>2, <3>1 DEF ObsCover
    <3>2. CASE q # r
      <4>1. rebuilder'[q] = rebuilder[q] /\ (Todo(rebuilder[q]))' = Todo(rebuilder'[q])
        BY <1>3, <3>2 DEF Todo
      <4> QED BY <1>1, <1>4, <2>2, <4>1 DEF ObsCover
    <3> QED BY <3>1, <3>2
  <2> QED BY <2>1, <2>2 DEF ObsInv, ObsCover
<1> QED BY <1>3, <1>4, <1>5 DEF ObsInv

(* Retention takes the row, and its events are excused.                    *)
LEMMA SweepRetentionKeeps ==
  ASSUME ObsInv, NEW cutoff, SweepRetention(cutoff)
  PROVE  ObsInv'
<1> DEFINE Disturbed(q) == [rebuilder[q] EXCEPT !.alone = FALSE]
<1>1. /\ span' = NoSpan /\ folded' = {} /\ excused' = excused \cup folded
      /\ rebuilder' = [q \in Rebuilders |-> IF q \in Clearing THEN Disturbed(q) ELSE rebuilder[q]]
      /\ logged' = logged /\ session' = session /\ aborted' = aborted
  BY DEF SweepRetention
<1>2. \A q \in Rebuilders : rebuilder[q] \in RestingJob \cup ClearJob \cup SpansJob
  BY DEF ObsInv, ObsJobs
<1>3. \A q \in Clearing : /\ Disturbed(q) \in SpansJob /\ Disturbed(q).at = "spans"
                          /\ Disturbed(q).scanned = rebuilder[q].scanned /\ Disturbed(q).alone = FALSE
                          /\ Todo(Disturbed(q)) = Todo(rebuilder[q])
  <2> SUFFICES ASSUME NEW q \in Rebuilders, rebuilder[q].at = "spans"
               PROVE  /\ Disturbed(q) \in SpansJob /\ Disturbed(q).at = "spans"
                      /\ Disturbed(q).scanned = rebuilder[q].scanned /\ Disturbed(q).alone = FALSE
                      /\ Todo(Disturbed(q)) = Todo(rebuilder[q])
    BY DEF Clearing
  <2>1. rebuilder[q] \in SpansJob
    BY <1>2, JobShapes
  <2>2. Disturbed(q) \in SpansJob /\ Disturbed(q).at = "spans" /\ Disturbed(q).scanned = rebuilder[q].scanned
        /\ Disturbed(q).todo = rebuilder[q].todo /\ Disturbed(q).alone = FALSE
    BY <2>1, JobsChange
  <2> HIDE DEF Disturbed
  <2>3. Todo(Disturbed(q)) = Todo(rebuilder[q])
    BY <2>2 DEF Todo
  <2> QED BY <2>2, <2>3
<1> HIDE DEF Disturbed
<1>4. \A q \in Rebuilders : rebuilder'[q] = IF q \in Clearing THEN Disturbed(q) ELSE rebuilder[q]
  BY <1>1
<1>5. ObsJobs'
  <2>1. \A q \in Rebuilders : rebuilder'[q] \in RestingJob \cup ClearJob \cup SpansJob
    BY <1>2, <1>3, <1>4
  <2> QED BY <1>1, <2>1 DEF ObsJobs
<1>6. ObsSets' /\ ObsSpan' /\ ObsSession'
  BY <1>1 DEF ObsInv, ObsSets, ObsSpan, ObsSession, SpanOf
<1>7. ObsScans'
  <2> SUFFICES ASSUME NEW q \in Rebuilders
               PROVE  ClearJobHolds(rebuilder'[q], logged) /\ SpansJobHolds(rebuilder'[q], logged, {})
    BY <1>1 DEF ObsScans
  <2>1. CASE q \in Clearing
    <3>1. SpansJobHolds(rebuilder[q], logged, folded) /\ rebuilder[q].at = "spans"
      BY <2>1 DEF ObsInv, ObsScans, Clearing
    <3>2. rebuilder'[q] = Disturbed(q)
      BY <1>4, <2>1
    <3> QED BY <1>3, <2>1, <3>1, <3>2 DEF ClearJobHolds, SpansJobHolds, HasScanned
  <2>2. CASE q \notin Clearing
    <3>1. rebuilder'[q] = rebuilder[q] /\ rebuilder[q].at # "spans" /\ ClearJobHolds(rebuilder[q], logged)
      BY <1>4, <2>2 DEF ObsInv, ObsScans, Clearing
    <3> QED BY <3>1 DEF SpansJobHolds
  <2> QED BY <2>1, <2>2
<1>8. ObsCover'
  <2>1. CASE logged \subseteq folded \cup excused
    BY <1>1, <2>1 DEF ObsCover
  <2>2. ASSUME NEW q \in Rebuilders, rebuilder[q].at = "spans", logged \subseteq folded \cup excused \cup Todo(rebuilder[q])
        PROVE  ObsCover'
    <3>1. rebuilder'[q] = Disturbed(q)
      BY <1>4, <2>2 DEF Clearing
    <3>2. q \in Clearing
      BY <2>2 DEF Clearing
    <3>3. rebuilder'[q].at = "spans" /\ Todo(rebuilder'[q]) = Todo(rebuilder[q])
      BY <1>3, <3>1, <3>2
    <3>4. (Todo(rebuilder[q]))' = Todo(rebuilder'[q])
      BY DEF Todo
    <3> QED BY <1>1, <2>2, <3>3, <3>4 DEF ObsCover
  <2> QED BY <2>1, <2>2 DEF ObsInv, ObsCover
<1> QED BY <1>5, <1>6, <1>7, <1>8 DEF ObsInv

LEMMA ObsStep ==
  ASSUME ObservationAssumptions, ObsInv, [ObservationsNext]_obsVars
  PROVE  ObsInv'
<1>1. CASE UNCHANGED obsVars
  BY <1>1 DEF obsVars, ObsInv, ObsSets, ObsJobs, ObsSpan, ObsSession, ObsScans, ObsCover, Todo
<1>2. ASSUME NEW d \in Facts, IngestBatch({d}) PROVE ObsInv'
  <2>1. IsFiniteSet({d})
    BY FS_Singleton
  <2> QED BY <1>2, <2>1, IngestBatchKeeps
<1>3. ASSUME NEW d \in Facts, NEW e \in Facts, IngestBatch({d, e}) PROVE ObsInv'
  <2>1. IsFiniteSet({d, e})
    <3>1. {d, e} = {d} \cup {e}
      OBVIOUS
    <3>2. IsFiniteSet({d}) /\ IsFiniteSet({e})
      BY FS_Singleton
    <3>3. IsFiniteSet({d} \cup {e})
      BY ONLY <3>2, FS_Union
    <3> QED BY <3>1, <3>3
  <2> QED BY <1>3, <2>1, IngestBatchKeeps
<1>4. ASSUME NEW c \in ObsTimes, SweepRetention(c) PROVE ObsInv'
  BY <1>4, SweepRetentionKeeps
<1>5. ASSUME NEW r \in Rebuilders, ScanLog(r) \/ ClearRows(r) \/ UpsertChunk(r) \/ UpsertSessions(r) \/ RebuildDies(r)
      PROVE ObsInv'
  BY <1>5, ScanLogKeeps, ClearRowsKeeps, UpsertChunkKeeps, UpsertSessionsKeeps, RebuildDiesKeeps
<1> QED BY <1>1, <1>2, <1>3, <1>4, <1>5 DEF ObservationsNext

(* What is preserved is more than the property.                            *)
LEMMA ObsSuffices ==
  ASSUME ObservationAssumptions, ObsInv
  PROVE  RowsAreFolds
<1>1. /\ logged \in SUBSET Facts /\ folded \in SUBSET logged /\ ~aborted /\ SpanOf(span, folded)
      /\ \A d, e \in folded : d.id = e.id => d = e
      /\ \A d \in folded : d.at \in Nat /\ d.id \in Nat /\ d.id # 0 /\ Ranks[d.kind] \in 1 .. 3
  BY FactTypes DEF ObsInv, ObsSets, ObsSpan
<1>2. span = NoSpan <=> folded = {}
  BY <1>1, SpanIsRow
<1>3. session # NoSession => session.events = Cardinality(logged)
  BY DEF ObsInv, ObsSession
<1>4. Clearing = {} => logged \subseteq folded \cup excused
  BY DEF ObsInv, ObsCover, Clearing
<1>5. ASSUME span # NoSpan
      PROVE  LET closers == {d \in folded : Ends(d)}
             IN /\ span.start = Earliest(folded).at /\ span.startEvent = Earliest(folded).id
                /\ span.endEvent = IF closers = {} THEN 0 ELSE Latest(closers).id
                /\ span.rank = Max({Ranks[d.kind] : d \in folded})
                /\ IF Values(folded) = {} THEN span.agent = NoAgent ELSE span.agent \in Values(folded)
  <2> DEFINE closers == {d \in folded : Ends(d)}
  <2>1. StartOf(span, folded) /\ EndOf(span, folded) /\ RankOf(span, folded) /\ AgentOf(span, folded) /\ folded # {}
    BY <1>1, <1>2, <1>5 DEF SpanOf, RowOf
  <2>2. span.start = Earliest(folded).at /\ span.startEvent = Earliest(folded).id
    <3> DEFINE Foremost(d) == \A e \in folded : d.at < e.at \/ (d.at = e.at /\ d.id <= e.id)
    <3>1. PICK d \in folded : span.start = d.at /\ span.startEvent = d.id /\ Foremost(d)
      BY <2>1 DEF StartOf
    <3>2. Earliest(folded) \in folded /\ Foremost(Earliest(folded))
      BY <3>1 DEF Earliest
    <3> HIDE DEF Foremost
    <3>3. PICK b \in folded : b = Earliest(folded)
      BY <3>2
    <3>4. Foremost(b)
      BY <3>2, <3>3
    <3>5. b.at = d.at /\ b.id = d.id
      BY <1>1, <3>1, <3>4 DEF Foremost
    <3> QED BY <3>1, <3>3, <3>5
  <2>3. span.endEvent = IF closers = {} THEN 0 ELSE Latest(closers).id
    <3>1. CASE closers = {}
      <4>1. ~\E d \in folded : Ends(d)
        BY <3>1
      <4> QED BY <2>1, <3>1, <4>1 DEF EndOf
    <3>2. CASE closers # {}
      <4> DEFINE Hindmost(d) == \A e \in closers : d.at > e.at \/ (d.at = e.at /\ d.id >= e.id)
      <4>1. PICK d \in closers : span.endEvent = d.id /\ Hindmost(d)
        BY <2>1, <3>2 DEF EndOf
      <4>2. Latest(closers) \in closers /\ Hindmost(Latest(closers))
        <5> HIDE DEF closers
        <5> QED BY <4>1 DEF Latest
      <4> HIDE DEF Hindmost
      <4>3. PICK b \in closers : b = Latest(closers)
        BY <4>2
      <4>4. Hindmost(b)
        BY <4>2, <4>3
      <4>5. b.id = d.id
        <5>1. b \in folded /\ d \in folded
          OBVIOUS
        <5> HIDE DEF closers
        <5> QED BY <1>1, <4>1, <4>4, <5>1 DEF Hindmost
      <4> HIDE DEF closers
      <4> QED BY <3>2, <4>1, <4>3, <4>5
    <3> QED BY <3>1, <3>2
  <2>4. span.rank = Max({Ranks[d.kind] : d \in folded})
    <3> DEFINE ranks == {Ranks[d.kind] : d \in folded}
    <3>1. ranks \in SUBSET (0 .. 3) /\ 3 \in Nat
      BY <1>1
    <3>2. span.rank \in ranks /\ \A n \in ranks : n <= span.rank
      BY <2>1 DEF RankOf
    <3> HIDE DEF ranks
    <3>3. Max(ranks) \in ranks /\ \A n \in ranks : n <= Max(ranks)
      <4>1. ranks # {}
        BY <3>2
      <4> QED BY <3>1, <4>1, GreatestOfSome
    <3>4. PICK a \in ranks, b \in ranks : a = span.rank /\ b = Max(ranks)
      BY <3>2, <3>3
    <3>5. a <= b /\ b <= a
      BY <3>2, <3>3, <3>4
    <3>6. a \in Nat /\ b \in Nat
      BY <3>1
    <3>7. span.rank = Max(ranks)
      BY <3>4, <3>5, <3>6
    <3> QED BY <3>7 DEF ranks
  <2>5. IF Values(folded) = {} THEN span.agent = NoAgent ELSE span.agent \in Values(folded)
    <3>1. Values(folded) = {} <=> ~\E e \in folded : e.agent # NoAgent
      BY DEF Values
    <3> QED BY <2>1, <3>1 DEF AgentOf, Values
  <2> QED BY <2>2, <2>3, <2>4, <2>5
<1> QED BY <1>1, <1>2, <1>3, <1>4, <1>5 DEF RowsAreFolds

(* Whatever batches, rebuilds and sweeps overlap, in any order and size:   *)
(* the row of a span is what the events in it say, no trigger refuses a    *)
(* batch, the session counts the log, and what is missing from the row was *)
(* taken by retention, by a rebuild that died or by one it overlapped.     *)
THEOREM RowsStayFolds == DataSpec => []RowsAreFolds
  <1>1. DataInit => ObsInv
    BY ObsStart DEF DataInit
  <1>2. ObsInv /\ [DataNext]_<<part, dataVars>> => ObsInv'
    BY ObservationAssumptions, PartsMove, ObsStep
  <1>3. ObsInv => RowsAreFolds
    BY ObservationAssumptions, ObsSuffices
  <1>4. QED
    BY <1>1, <1>2, <1>3, PTL DEF DataSpec
-------------------------------------------------------------------------------
(* Lists walked page by page                                               *)

LEMMA PageNumbers ==
  /\ RowIds \subseteq Nat \ {0} /\ IsFiniteSet(RowIds)
  /\ KeyTimes \subseteq Nat \ {0} /\ PageLimit \in Nat \ {0}
BY PagesAssumptions DEF PagesAssumptions

KindOfList == {ByTime, BySeq, ByName, WhileActive, OfSpans, OfSessions, OfLog, ByOffset, OfWorkstreams,
               [WhileActive EXCEPT !.resumes = FALSE]}
LEMMA ListFields ==
  \A l \in Lists : /\ l.by \in {"time", "seq", "name", "log", "offset"}
                   /\ l.moves # "no" => l.by = "time"
                   /\ l.moves \in {"no", "earlier", "later"}
                   /\ l.probes \in BOOLEAN
<1>1. Lists \subseteq KindOfList
  BY DEF Lists, KindOfList, listExports, listAttachments, listDashboards, listConfigs, listEvalRuns,
     listScenarios, listSimulationRuns, listPlaygroundRuns, listAlertRules, alertRuleHistory,
     listGatewayKeys, listQueues, listApiKeys, publicListScores, listWebhookEndpoints, listMembers,
     listInvites, listAudit, listWorkspaces, handleListWorkstreams, publicListWorkstreams,
     listObservations, publicListObservations, listSessions, publicListSessions, listFingerprints,
     listMaskingRules, listScimUsers, exportAudit
<1> DEFINE Fields == [by : {"time"}, moves : {"no"}, leaves : BOOLEAN, resumes : BOOLEAN, probes : BOOLEAN]
           Right(l) == /\ l.by \in {"time", "seq", "name", "log", "offset"}
                       /\ l.moves # "no" => l.by = "time"
                       /\ l.moves \in {"no", "earlier", "later"}
                       /\ l.probes \in BOOLEAN
<1>2. ByTime \in Fields /\ ByTime.by = "time" /\ ByTime.moves = "no" /\ ByTime.probes = TRUE
  <2>1. ByTime.by = "time"
    BY DEF ByTime
  <2>2. ByTime.moves = "no"
    BY DEF ByTime
  <2>3. ByTime.probes = TRUE
    BY DEF ByTime
  <2>4. ByTime \in Fields
    BY DEF ByTime
  <2> QED BY <2>1, <2>2, <2>3, <2>4
<1>3. WhileActive \in Fields /\ WhileActive.by = "time" /\ WhileActive.moves = "no" /\ WhileActive.probes = TRUE
  BY <1>2 DEF WhileActive
<1>4. Right(ByTime) /\ Right(WhileActive)
  BY <1>2, <1>3
<1>5. Right(BySeq) /\ Right(ByName)
  BY <1>2 DEF BySeq, ByName
<1>6. Right(OfSpans) /\ Right(OfSessions)
  BY <1>2 DEF OfSpans, OfSessions
<1>7. Right(OfWorkstreams) /\ Right(OfLog)
  BY <1>2 DEF OfLog, OfWorkstreams
<1>8. Right(ByOffset) /\ Right([WhileActive EXCEPT !.resumes = FALSE])
  BY <1>3 DEF ByOffset
<1> HIDE DEF Right
<1>9. \A l \in KindOfList : Right(l)
  BY <1>4, <1>5, <1>6, <1>7, <1>8 DEF KindOfList
<1> QED BY <1>1, <1>9 DEF Right

Followed == list.resumes /\ list.by # "offset"
PagesTypes ==
  /\ list \in Lists
  /\ keyOf \in [RowIds -> {0} \cup KeyTimes] /\ Admissible(keyOf)
  /\ cursor \in {Start, Finished} \cup [key : KeyTimes, id : RowIds]
  /\ pages \in Seq(Seq(RowIds))
  /\ \A n \in 1 .. Len(pages) : Len(pages[n]) <= PageLimit
  /\ cursor = Start => pages = <<>>
  /\ standing \subseteq Present

(* The order of a page is a strict total order of the rows there are.      *)
LEMMA OrderIsTotal ==
  ASSUME PagesTypes, Followed
  PROVE  \A i, j \in Present :
           /\ ~Precedes(i, i)
           /\ i # j => Precedes(i, j) \/ Precedes(j, i)
           /\ ~(Precedes(i, j) /\ Precedes(j, i))
           /\ \A k \in Present : Precedes(i, j) /\ Precedes(j, k) => Precedes(i, k)
<1>1. \A i \in Present : i \in Nat /\ keyOf[i] \in Nat
  BY PageNumbers DEF Present, PagesTypes
<1>2. list.by \in {"time", "seq", "name", "log"}
  BY ListFields DEF PagesTypes, Followed
<1>3. list.by \in {"seq", "log"} => \A i, j \in Present : keyOf[i] = keyOf[j] => i = j
  BY DEF PagesTypes, Admissible, Present
<1> QED BY <1>1, <1>2, <1>3 DEF Precedes

(* The rows before a row, among those ahead of the cursor.                 *)
LEMMA PlacesOfRows ==
  ASSUME PagesTypes, Followed
  PROVE  /\ Cardinality(Ahead) \in Nat
         /\ \A n \in 1 .. Cardinality(Ahead) : \E i \in Ahead : PlaceOf(i) = n
         /\ \A i \in Ahead : PlaceOf(i) \in 1 .. Cardinality(Ahead)
         /\ \A i, j \in Ahead : PlaceOf(i) = PlaceOf(j) => i = j
         /\ \A i, j \in Ahead : Precedes(i, j) <=> PlaceOf(i) < PlaceOf(j)
<1> DEFINE f == [i \in Ahead |-> {j \in Ahead : Precedes(j, i)}]
<1>1. Ahead \subseteq Present /\ Ahead \subseteq RowIds
  BY DEF Ahead, Present
<1>2. IsFiniteSet(Ahead) /\ Cardinality(Ahead) \in Nat
  BY <1>1, PageNumbers, FS_Subset, FS_CardinalityType
<1>3. \A x \in Ahead : f[x] \subseteq Ahead /\ x \notin f[x]
  BY <1>1, OrderIsTotal
<1>4. \A x, y \in Ahead : x # y => (x \in f[y] /\ f[x] \subseteq f[y]) \/ (y \in f[x] /\ f[y] \subseteq f[x])
  BY <1>1, OrderIsTotal
<1>5. \A x \in Ahead : PlaceOf(x) = Cardinality(f[x]) + 1 /\ Cardinality(f[x]) \in Nat /\ IsFiniteSet(f[x])
  <2> SUFFICES ASSUME NEW x \in Ahead PROVE PlaceOf(x) = Cardinality(f[x]) + 1 /\ Cardinality(f[x]) \in Nat /\ IsFiniteSet(f[x])
    OBVIOUS
  <2>1. f[x] = {j \in Ahead : Precedes(j, x)}
    OBVIOUS
  <2>2. IsFiniteSet(f[x])
    BY <1>2, <1>3, FS_Subset
  <2> QED BY <2>1, <2>2, FS_CardinalityType DEF PlaceOf
<1>6. \A i, j \in Ahead : Precedes(i, j) => PlaceOf(i) < PlaceOf(j)
  <2> SUFFICES ASSUME NEW i \in Ahead, NEW j \in Ahead, Precedes(i, j) PROVE PlaceOf(i) < PlaceOf(j)
    OBVIOUS
  <2>1. f[i] \subseteq f[j] /\ i \in f[j] /\ i \notin f[i]
    BY <1>1, OrderIsTotal
  <2>2. Cardinality(f[i]) <= Cardinality(f[j]) /\ (Cardinality(f[i]) = Cardinality(f[j]) => f[i] = f[j])
    <3> HIDE DEF f
    <3> QED BY <2>1, <1>5, FS_Subset
  <2>3. Cardinality(f[i]) # Cardinality(f[j])
    <3> HIDE DEF f
    <3> QED BY <2>1, <2>2
  <2> HIDE DEF f
  <2> QED BY <2>2, <2>3, <1>5
<1>7. /\ \A k \in 1 .. Cardinality(Ahead) : \E x \in Ahead : Cardinality(f[x]) = k - 1
      /\ \A x \in Ahead : Cardinality(f[x]) + 1 \in 1 .. Cardinality(Ahead)
      /\ \A x, y \in Ahead : Cardinality(f[x]) = Cardinality(f[y]) => x = y
  <2> HIDE DEF f
  <2> QED BY <1>2, <1>3, <1>4, PlacesAreTaken
<1>8. \A i, j \in Ahead : PlaceOf(i) < PlaceOf(j) => Precedes(i, j)
  <2> SUFFICES ASSUME NEW i \in Ahead, NEW j \in Ahead, PlaceOf(i) < PlaceOf(j), ~Precedes(i, j) PROVE FALSE
    OBVIOUS
  <2>1. PlaceOf(i) \in Nat /\ PlaceOf(j) \in Nat
    <3> HIDE DEF f
    <3> QED BY <1>5
  <2>2. i = j \/ Precedes(j, i)
    BY <1>1, OrderIsTotal
  <2> QED BY <2>1, <2>2, <1>6
<1> HIDE DEF f
<1>9. \A n \in 1 .. Cardinality(Ahead) : \E i \in Ahead : PlaceOf(i) = n
  <2> SUFFICES ASSUME NEW n \in 1 .. Cardinality(Ahead) PROVE \E i \in Ahead : PlaceOf(i) = n
    OBVIOUS
  <2>1. PICK i \in Ahead : Cardinality(f[i]) = n - 1
    BY <1>7
  <2> QED BY <2>1, <1>2, <1>5
<1>10. \A i, j \in Ahead : PlaceOf(i) = PlaceOf(j) => i = j
  BY <1>5, <1>7
<1>11. \A i \in Ahead : PlaceOf(i) \in 1 .. Cardinality(Ahead)
  BY <1>5, <1>7
<1> QED BY <1>2, <1>6, <1>8, <1>9, <1>10, <1>11

(* What is fetched: the first rows ahead of the cursor, each at its place. *)
LEMMA FetchedRows ==
  ASSUME PagesTypes, Followed
  PROVE  /\ FetchLimit \in Nat /\ FetchLimit \in {PageLimit, PageLimit + 1}
         /\ Len(Fetched) \in Nat /\ DOMAIN Fetched = 1 .. Len(Fetched)
         /\ Len(Fetched) = IF Cardinality(Ahead) <= FetchLimit THEN Cardinality(Ahead) ELSE FetchLimit
         /\ \A n \in 1 .. Len(Fetched) : Fetched[n] \in Ahead /\ PlaceOf(Fetched[n]) = n
         /\ Fetched \in Seq(RowIds)
<1> DEFINE m == Min({Cardinality(Ahead), FetchLimit})
<1>1. FetchLimit \in Nat /\ FetchLimit \in {PageLimit, PageLimit + 1}
  BY PageNumbers DEF FetchLimit
<1>2. Cardinality(Ahead) \in Nat
  BY PlacesOfRows
<1>3. m = IF Cardinality(Ahead) <= FetchLimit THEN Cardinality(Ahead) ELSE FetchLimit
  BY <1>1, <1>2, MinOfTwo
<1>4. m \in Nat
  <2> HIDE DEF m
  <2> QED BY <1>1, <1>2, <1>3
<1>5. Fetched = [n \in 1 .. m |-> CHOOSE i \in Ahead : PlaceOf(i) = n]
  BY DEF Fetched
<1> HIDE DEF m
<1>6. \A n \in 1 .. m : Fetched[n] \in Ahead /\ PlaceOf(Fetched[n]) = n
  <2> SUFFICES ASSUME NEW n \in 1 .. m PROVE Fetched[n] \in Ahead /\ PlaceOf(Fetched[n]) = n
    OBVIOUS
  <2>1. n \in 1 .. Cardinality(Ahead)
    BY <1>1, <1>2, <1>3
  <2>2. \E i \in Ahead : PlaceOf(i) = n
    BY <2>1, PlacesOfRows
  <2>3. Fetched[n] = CHOOSE i \in Ahead : PlaceOf(i) = n
    BY <1>5
  <2> HIDE DEF PlaceOf
  <2> QED BY <2>2, <2>3
<1>7. Fetched \in [1 .. m -> RowIds]
  <2>1. Ahead \subseteq RowIds
    BY DEF Ahead, Present
  <2> QED BY <1>5, <1>6, <2>1
<1>8. Fetched \in Seq(RowIds) /\ Len(Fetched) = m /\ DOMAIN Fetched = 1 .. m
  BY <1>4, <1>7
<1> QED BY <1>1, <1>3, <1>4, <1>6, <1>8

(* A page that is read: the rows ahead of the cursor, from the first on,   *)
(* and all of them when it is the last.                                    *)
PageRead(page) ==
  /\ Len(pages') = Len(pages) + 1 /\ pages'[Len(pages')] = page
  /\ \A n \in 1 .. Len(pages) : pages'[n] = pages[n]
  /\ page \in Seq(RowIds) /\ Len(page) <= PageLimit
  /\ \A n \in 1 .. Len(page) : page[n] \in Ahead /\ PlaceOf(page[n]) = n
  /\ \/ cursor' = Finished /\ Len(page) = Cardinality(Ahead)
     \/ Len(page) = PageLimit /\ cursor' = [key |-> keyOf[page[PageLimit]], id |-> page[PageLimit]]

LEMMA ReadPageReads ==
  ASSUME PagesTypes, Followed, ReadPage
  PROVE  \E page : PageRead(page) /\ pages' = Append(pages, page)
<1> DEFINE m == Min({Len(Fetched), PageLimit})
           page == SubSeq(Fetched, 1, m)
<1>1. /\ FetchLimit \in Nat /\ FetchLimit \in {PageLimit, PageLimit + 1} /\ Len(Fetched) \in Nat
      /\ DOMAIN Fetched = 1 .. Len(Fetched)
      /\ Len(Fetched) = IF Cardinality(Ahead) <= FetchLimit THEN Cardinality(Ahead) ELSE FetchLimit
      /\ \A n \in 1 .. Len(Fetched) : Fetched[n] \in Ahead /\ PlaceOf(Fetched[n]) = n
      /\ Fetched \in Seq(RowIds)
  BY FetchedRows
<1>2. PageLimit \in Nat \ {0} /\ Cardinality(Ahead) \in Nat
  BY PageNumbers, PlacesOfRows
<1>3. m = IF Len(Fetched) <= PageLimit THEN Len(Fetched) ELSE PageLimit
  BY <1>1, <1>2, MinOfTwo
<1>4. m \in 0 .. Len(Fetched) /\ m <= PageLimit
  <2> HIDE DEF m
  <2> QED BY <1>1, <1>2, <1>3
<1> HIDE DEF m
<1>5. page \in Seq(RowIds) /\ Len(page) = m /\ \A n \in 1 .. m : page[n] = Fetched[n]
  <2> HIDE DEF Fetched
  <2> QED BY <1>1, <1>4
<1>6. /\ pages' = Append(pages, page)
      /\ cursor' = IF Len(Fetched) = FetchLimit
                   THEN [key |-> keyOf[page[Len(page)]], id |-> page[Len(page)]] ELSE Finished
  BY DEF ReadPage, m
<1> HIDE DEF page
<1>7. \A n \in 1 .. Len(page) : page[n] \in Ahead /\ PlaceOf(page[n]) = n
  BY <1>1, <1>4, <1>5
<1>8. Len(Fetched) = FetchLimit => Len(page) = PageLimit
  BY <1>1, <1>2, <1>3, <1>5
<1>9. Len(Fetched) # FetchLimit => Len(page) = Cardinality(Ahead)
  <2>1. CASE list.probes
    BY <2>1, <1>1, <1>2, <1>3, <1>5 DEF FetchLimit
  <2>2. CASE ~list.probes
    BY <2>2, <1>1, <1>2, <1>3, <1>5 DEF FetchLimit
  <2> QED BY <2>1, <2>2
<1>10. pages \in Seq(Seq(RowIds)) /\ Len(pages) \in Nat
  BY DEF PagesTypes
<1>11. /\ Len(pages') = Len(pages) + 1 /\ pages'[Len(pages')] = page
       /\ \A n \in 1 .. Len(pages) : pages'[n] = pages[n]
  BY <1>5, <1>6, <1>10
<1>12. PageRead(page)
  BY <1>4, <1>5, <1>6, <1>7, <1>8, <1>9, <1>11 DEF PageRead
<1> QED BY <1>6, <1>12

(* What is shown: the rows of the pages.                                   *)
PlacesIn(s) == {place \in (1 .. Len(s)) \X (1 .. PageLimit) : place[2] <= Len(s[place[1]])}
RowsIn(s) == {s[place[1]][place[2]] : place \in PlacesIn(s)}
RowOfPage(i, s) == \E n \in 1 .. Len(s) : \E k \in 1 .. Len(s[n]) : s[n][k] = i

LEMMA RowsOfPages ==
  ASSUME NEW s \in Seq(Seq(RowIds)), \A n \in 1 .. Len(s) : Len(s[n]) <= PageLimit
  PROVE  RowsIn(s) \subseteq RowIds /\ \A i : i \in RowsIn(s) <=> RowOfPage(i, s)
<1>1. \A n \in 1 .. Len(s) : s[n] \in Seq(RowIds) /\ Len(s[n]) \in Nat /\ Len(s[n]) <= PageLimit
  OBVIOUS
<1>2. \A n \in 1 .. Len(s) : \A k \in 1 .. Len(s[n]) : <<n, k>> \in PlacesIn(s) /\ s[n][k] \in RowIds
  BY <1>1, PageNumbers DEF PlacesIn
<1>3. \A place \in PlacesIn(s) : place[1] \in 1 .. Len(s) /\ place[2] \in 1 .. Len(s[place[1]])
  BY <1>1, PageNumbers DEF PlacesIn
<1>4. ASSUME NEW i \in RowsIn(s) PROVE RowOfPage(i, s) /\ i \in RowIds
  <2>1. PICK place \in PlacesIn(s) : i = s[place[1]][place[2]]
    BY <1>4 DEF RowsIn
  <2> QED BY <1>2, <1>3, <2>1 DEF RowOfPage
<1>5. ASSUME NEW n \in 1 .. Len(s), NEW k \in 1 .. Len(s[n]) PROVE s[n][k] \in RowsIn(s)
  <2>1. <<n, k>> \in PlacesIn(s)
    BY <1>2
  <2> QED BY <2>1 DEF RowsIn
<1> QED BY <1>4, <1>5 DEF RowOfPage

LEMMA ShownRows ==
  ASSUME PagesTypes
  PROVE  Shown = RowsIn(pages) /\ Shown \subseteq RowIds /\ \A i : i \in Shown <=> RowOfPage(i, pages)
<1>1. Shown = RowsIn(pages)
  BY DEF Places, Shown, RowAt, RowsIn, PlacesIn
<1>2. pages \in Seq(Seq(RowIds)) /\ \A n \in 1 .. Len(pages) : Len(pages[n]) <= PageLimit
  BY DEF PagesTypes
<1> QED BY <1>1, <1>2, RowsOfPages

(* Beyond the new cursor are the rows after the last of the page; what is  *)
(* after a row beyond the cursor is beyond it.                             *)
LEMMA BeyondTheCursor ==
  ASSUME PagesTypes, Followed
  PROVE  \A i, j \in Present : Beyond(i) /\ Precedes(i, j) => Beyond(j)
<1>1. \A i \in Present : i \in Nat /\ keyOf[i] \in Nat
  BY PageNumbers DEF Present, PagesTypes
<1>2. list.by \in {"time", "seq", "name", "log"}
  BY ListFields DEF PagesTypes, Followed
<1>3. cursor.key \in Nat /\ cursor.id \in Nat
  <2>1. CASE cursor \in {Start, Finished}
    BY <2>1 DEF Start, Finished
  <2>2. CASE cursor \in [key : KeyTimes, id : RowIds]
    BY <2>2, PageNumbers
  <2> QED BY <2>1, <2>2 DEF PagesTypes
<1> QED BY <1>1, <1>2, <1>3 DEF Beyond, Precedes, Followed

LEMMA BeyondTheNext ==
  ASSUME PagesTypes, Followed, NEW last \in Present, cursor' = [key |-> keyOf[last], id |-> last],
         UNCHANGED <<list, keyOf>>
  PROVE  \A i \in Present : Beyond(i)' <=> Precedes(last, i)
<1>1. \A i \in Present : i \in Nat /\ keyOf[i] \in Nat \ {0}
  BY PageNumbers DEF Present, PagesTypes
<1>2. list.by \in {"time", "seq", "name", "log"}
  BY ListFields DEF PagesTypes, Followed
<1>3. list.by \in {"seq", "log"} => \A i, j \in Present : keyOf[i] = keyOf[j] => i = j
  BY DEF PagesTypes, Admissible, Present
<1>4. cursor'.key = keyOf[last] /\ cursor'.id = last /\ cursor' # Start
  BY <1>1 DEF Start
<1>5. \A i \in Present : Beyond(i)' <=> \/ list.by = "name" /\ i > last
                                        \/ list.by = "seq" /\ keyOf[i] < keyOf[last]
                                        \/ list.by = "log" /\ keyOf[i] > keyOf[last]
                                        \/ list.by = "time" /\ (keyOf[i] < keyOf[last] \/ (keyOf[i] = keyOf[last] /\ i < last))
  BY <1>4 DEF Beyond, Followed, Start
<1> QED BY <1>1, <1>2, <1>3, <1>5 DEF Precedes

(* Whoever follows the cursors has been shown, of the rows that were there *)
(* throughout, all that are not beyond its cursor; and of those that are,  *)
(* none.                                                                   *)
NothingMissed ==
  list.moves # "later" =>
    /\ cursor # Finished => \A i \in standing : i \in Shown \/ Beyond(i)
    /\ cursor = Finished => standing \subseteq Shown
NothingTwice ==
  list.moves # "earlier" =>
    /\ \A p, q \in Places : RowAt(p) = RowAt(q) => p = q
    /\ cursor \notin {Start, Finished} => \A i \in Shown \cap Present : ~Beyond(i)
PagesInv == list \in Lists /\ (Followed => PagesTypes /\ NothingMissed /\ NothingTwice)

LEMMA PagesBegin == PagesInit => PagesInv
<1> SUFFICES ASSUME PagesInit PROVE PagesInv
  OBVIOUS
<1>1. PagesTypes
  BY DEF PagesInit, PagesTypes
<1>2. Len(pages) = 0
  BY DEF PagesInit
<1>3. Places = {}
  <2>1. 1 .. Len(pages) = {}
    BY <1>2
  <2> QED BY <2>1 DEF Places
<1>4. \A i \in standing : Beyond(i)
  BY DEF PagesInit, Beyond
<1>5. cursor = Start /\ cursor # Finished
  BY DEF PagesInit, Start, Finished
<1>6. Shown = {}
  BY <1>3 DEF Shown
<1>7. NothingMissed
  BY <1>4, <1>5 DEF NothingMissed
<1>8. NothingTwice
  BY <1>3, <1>5 DEF NothingTwice
<1> QED BY <1>1, <1>7, <1>8 DEF PagesInv, PagesInit

(* A page adds its rows, which are beyond the cursor, to those shown.      *)
LEMMA ReadKeepsPages ==
  ASSUME PagesTypes, Followed, NothingMissed, NothingTwice, ReadPage
  PROVE  PagesTypes' /\ NothingMissed' /\ NothingTwice'
<1>1. PICK page : PageRead(page) /\ pages' = Append(pages, page)
  BY ReadPageReads
<1>2. /\ cursor # Finished /\ UNCHANGED <<list, keyOf, standing>>
      /\ Present' = Present
  BY DEF ReadPage, Walking, Present
<1>3. /\ pages \in Seq(Seq(RowIds)) /\ Len(pages) \in Nat
      /\ page \in Seq(RowIds) /\ Len(page) \in Nat /\ Len(page) <= PageLimit
      /\ PageLimit \in Nat \ {0}
  BY <1>1, PageNumbers DEF PagesTypes, PageRead
<1>4. /\ Cardinality(Ahead) \in Nat
      /\ \A i \in Ahead : PlaceOf(i) \in 1 .. Cardinality(Ahead)
      /\ \A i, j \in Ahead : PlaceOf(i) = PlaceOf(j) => i = j
      /\ \A i, j \in Ahead : Precedes(i, j) <=> PlaceOf(i) < PlaceOf(j)
  BY PlacesOfRows
<1>5. Ahead \subseteq Present /\ Present \subseteq RowIds /\ \A i : i \in Ahead <=> i \in Present /\ Beyond(i)
  BY DEF Ahead, Present
<1>6. \A n \in 1 .. Len(page) : page[n] \in Ahead /\ PlaceOf(page[n]) = n
  BY <1>1 DEF PageRead
<1> DEFINE Whole == cursor' = Finished /\ Len(page) = Cardinality(Ahead)
           Full(last) == /\ last \in Ahead /\ PlaceOf(last) = Len(page)
                         /\ cursor' \in [key : KeyTimes, id : RowIds] /\ cursor' \notin {Start, Finished}
                         /\ \A i \in Present : Beyond(i)' <=> Precedes(last, i)
<1>7. Whole \/ \E last : Full(last)
  <2>1. CASE Len(page) = PageLimit /\ cursor' = [key |-> keyOf[page[PageLimit]], id |-> page[PageLimit]]
    <3> DEFINE last == page[PageLimit]
    <3>1. last \in Ahead /\ last \in Present /\ PlaceOf(last) = PageLimit
      BY <1>3, <1>5, <1>6, <2>1
    <3>2. keyOf[last] \in KeyTimes
      BY <3>1 DEF Present, PagesTypes
    <3>3. cursor' = [key |-> keyOf[last], id |-> last]
      BY <2>1
    <3> HIDE DEF last
    <3>4. cursor' \in [key : KeyTimes, id : RowIds] /\ cursor' # Start /\ cursor' # Finished
      BY <3>1, <3>2, <3>3, <1>5, PageNumbers DEF Start, Finished
    <3>5. \A i \in Present : Beyond(i)' <=> Precedes(last, i)
      BY <3>1, <3>3, <1>2, BeyondTheNext
    <3>6. Full(last)
      BY <2>1, <3>1, <3>4, <3>5
    <3> QED BY <3>6
  <2> QED BY <2>1, <1>1 DEF PageRead
<1>8. /\ pages' \in Seq(Seq(RowIds)) /\ Len(pages') = Len(pages) + 1 /\ pages'[Len(pages) + 1] = page
      /\ \A n \in 1 .. Len(pages) : pages'[n] = pages[n]
      /\ \A n \in 1 .. Len(pages') : n \in 1 .. Len(pages) \/ n = Len(pages) + 1
  BY <1>1, <1>3 DEF PageRead
<1>9. PagesTypes'
  <2>1. \A n \in 1 .. Len(pages') : Len(pages'[n]) <= PageLimit
    BY <1>3, <1>8 DEF PagesTypes
  <2>2. cursor' \in {Start, Finished} \cup [key : KeyTimes, id : RowIds]
    BY <1>7
  <2>3. cursor' # Start
    BY <1>7 DEF Start, Finished
  <2>4. Admissible(keyOf)'
    BY <1>2 DEF PagesTypes, Admissible
  <2> QED BY <1>2, <1>8, <2>1, <2>2, <2>3, <2>4 DEF PagesTypes
<1>10. \A i : i \in Shown' <=> i \in Shown \/ \E k \in 1 .. Len(page) : page[k] = i
  <2>1. \A i : i \in Shown <=> RowOfPage(i, pages)
    BY ShownRows
  <2>2. \A i : i \in Shown' <=> RowOfPage(i, pages')
    <3>1. Shown' = RowsIn(pages')
      BY DEF Places, Shown, RowAt, RowsIn, PlacesIn
    <3>2. pages' \in Seq(Seq(RowIds)) /\ \A n \in 1 .. Len(pages') : Len(pages'[n]) <= PageLimit
      BY <1>9 DEF PagesTypes
    <3> QED BY <3>1, <3>2, RowsOfPages
  <2>3. \A n \in 1 .. Len(pages) : n \in 1 .. Len(pages')
    BY <1>3, <1>8
  <2>4. Len(pages) + 1 \in 1 .. Len(pages')
    BY <1>3, <1>8
  <2> QED BY <2>1, <2>2, <2>3, <2>4, <1>8 DEF RowOfPage
<1>11. \A i \in Ahead : (PlaceOf(i) \in 1 .. Len(page) => page[PlaceOf(i)] = i)
  BY <1>4, <1>6
<1>12. NothingMissed'
  <2> SUFFICES ASSUME list.moves # "later" PROVE (cursor # Finished => \A i \in standing : i \in Shown \/ Beyond(i))'
                                                 /\ (cursor = Finished => standing \subseteq Shown)'
    BY <1>2 DEF NothingMissed
  <2>1. \A i \in standing : i \in Shown \/ i \in Ahead
    BY <1>2, <1>5 DEF NothingMissed, PagesTypes
  <2>2. CASE Whole
    <3>1. \A i \in Ahead : i \in Shown'
      BY <2>2, <1>4, <1>10, <1>11
    <3> QED BY <2>1, <2>2, <3>1, <1>2, <1>10
  <2>3. ASSUME NEW last, Full(last) PROVE (cursor # Finished => \A i \in standing : i \in Shown \/ Beyond(i))'
    <3>1. ASSUME NEW i \in Ahead, i \notin Shown' PROVE Beyond(i)'
      <4>1. PlaceOf(i) \in Nat /\ PlaceOf(i) \notin 1 .. Len(page) /\ PlaceOf(i) >= 1
        BY <3>1, <1>4, <1>10, <1>11
      <4>2. PlaceOf(last) < PlaceOf(i)
        BY <4>1, <1>3, <2>3
      <4> QED BY <4>2, <2>3, <1>4, <1>5
    <3> QED BY <2>1, <3>1, <1>2, <1>10
  <2> QED BY <2>2, <2>3, <1>7
<1>13. NothingTwice'
  <2> SUFFICES ASSUME list.moves # "earlier"
               PROVE  /\ (\A p, q \in Places : RowAt(p) = RowAt(q) => p = q)'
                      /\ (cursor \notin {Start, Finished} => \A i \in Shown \cap Present : ~Beyond(i))'
    BY <1>2 DEF NothingTwice
  <2>1. \A i \in Ahead : i \notin Shown
    <3>1. CASE cursor = Start
      <4>1. Len(pages) = 0
        BY <3>1 DEF PagesTypes
      <4>2. Shown = {}
        BY <4>1, ShownRows DEF RowOfPage
      <4> QED BY <4>2
    <3> QED BY <3>1, <1>2, <1>5 DEF NothingTwice
  <2>2. \A p \in Places' : \/ p \in Places /\ RowAt(p)' = RowAt(p) /\ RowAt(p) \in Shown
                           \/ /\ p = <<Len(pages) + 1, p[2]>> /\ p[2] \in 1 .. Len(page)
                              /\ RowAt(p)' = page[p[2]]
    <3> SUFFICES ASSUME NEW p \in Places'
                 PROVE  \/ p \in Places /\ RowAt(p)' = RowAt(p) /\ RowAt(p) \in Shown
                        \/ /\ p = <<Len(pages) + 1, p[2]>> /\ p[2] \in 1 .. Len(page)
                           /\ RowAt(p)' = page[p[2]]
      OBVIOUS
    <3>1. /\ p \in (1 .. Len(pages')) \X (1 .. PageLimit) /\ p[2] <= Len(pages'[p[1]])
          /\ p = <<p[1], p[2]>>
      BY DEF Places
    <3>2. CASE p[1] \in 1 .. Len(pages)
      <4>1. p \in Places /\ RowAt(p)' = RowAt(p)
        BY <3>1, <3>2, <1>8 DEF Places, RowAt
      <4> QED BY <4>1 DEF Shown
    <3>3. CASE p[1] = Len(pages) + 1
      BY <3>1, <3>3, <1>3, <1>8 DEF RowAt
    <3> QED BY <3>1, <3>2, <3>3, <1>8
  <2>3. \A k, l \in 1 .. Len(page) : page[k] = page[l] => k = l
    BY <1>6
  <2>4. (\A p, q \in Places : RowAt(p) = RowAt(q) => p = q)'
    <3> SUFFICES ASSUME NEW p \in Places', NEW q \in Places', RowAt(p)' = RowAt(q)' PROVE p = q
      OBVIOUS
    <3>1. CASE p \in Places /\ RowAt(p)' = RowAt(p) /\ q \in Places /\ RowAt(q)' = RowAt(q)
      BY <3>1 DEF NothingTwice
    <3>2. CASE /\ p = <<Len(pages) + 1, p[2]>> /\ p[2] \in 1 .. Len(page) /\ RowAt(p)' = page[p[2]]
               /\ q = <<Len(pages) + 1, q[2]>> /\ q[2] \in 1 .. Len(page) /\ RowAt(q)' = page[q[2]]
      BY <3>2, <2>3
    <3> QED BY <3>1, <3>2, <2>1, <2>2, <1>6
  <2>5. ASSUME NEW last, Full(last), NEW i \in Shown' \cap Present PROVE ~Beyond(i)'
    <3>1. CASE i \in Ahead
      <4>1. \E k \in 1 .. Len(page) : page[k] = i
        BY <3>1, <2>1, <2>5, <1>10
      <4>2. PlaceOf(i) <= PlaceOf(last) /\ PlaceOf(i) \in Nat /\ PlaceOf(last) \in Nat
        BY <4>1, <1>3, <1>6, <2>5
      <4> QED BY <4>2, <3>1, <2>5, <1>4
    <3>2. CASE i \notin Ahead
      BY <3>2, <2>5, <1>5, BeyondTheCursor
    <3> QED BY <3>1, <3>2
  <2>6. (cursor \notin {Start, Finished} => \A i \in Shown \cap Present : ~Beyond(i))'
    BY <2>5, <1>2, <1>7
  <2> QED BY <2>4, <2>6
<1> QED BY <1>9, <1>12, <1>13

(* A write: the pages and the cursor stand, and a row that is not written  *)
(* keeps its key.                                                          *)
LEMMA WritesKeepTypes ==
  ASSUME PagesTypes, NEW i \in RowIds, NEW t \in {0} \cup KeyTimes, WriteKey(i, t)
  PROVE  /\ keyOf' \in [RowIds -> {0} \cup KeyTimes] /\ Admissible(keyOf)'
         /\ keyOf'[i] = t /\ \A j \in RowIds \ {i} : keyOf'[j] = keyOf[j]
         /\ Present' = IF t = 0 THEN Present \ {i} ELSE Present \cup {i}
         /\ UNCHANGED <<list, cursor, pages, Places, Shown>> /\ \A p : RowAt(p)' = RowAt(p)
         /\ cursor # Finished
         /\ \A j \in RowIds \ {i} : Followed => (Beyond(j)' <=> Beyond(j))
<1>1. keyOf' = [keyOf EXCEPT ![i] = t] /\ keyOf \in [RowIds -> {0} \cup KeyTimes]
  BY DEF WriteKey, PagesTypes
<1>2. keyOf' \in [RowIds -> {0} \cup KeyTimes] /\ keyOf'[i] = t /\ \A j \in RowIds \ {i} : keyOf'[j] = keyOf[j]
  BY <1>1
<1>3. UNCHANGED <<list, cursor, pages>> /\ cursor # Finished
  BY DEF WriteKey, Walking
<1>4. UNCHANGED <<Places, Shown>> /\ \A p : RowAt(p)' = RowAt(p)
  <2>1. UNCHANGED Places
    BY <1>3 DEF Places
  <2> QED BY <1>3, <2>1 DEF Shown, RowAt
<1>5. Admissible(keyOf)'
  BY <1>3 DEF WriteKey, Admissible
<1>6. Present' = IF t = 0 THEN Present \ {i} ELSE Present \cup {i}
  BY <1>2, PageNumbers DEF Present
<1>7. \A j \in RowIds \ {i} : Followed => (Beyond(j)' <=> Beyond(j))
  BY <1>2, <1>3 DEF Beyond, Followed, Start
<1> QED BY <1>2, <1>3, <1>4, <1>5, <1>6, <1>7

LEMMA InsertKeepsPages ==
  ASSUME PagesTypes, Followed, NothingMissed, NothingTwice,
         NEW i \in RowIds, NEW t \in KeyTimes, InsertRow(i, t)
  PROVE  PagesTypes' /\ NothingMissed' /\ NothingTwice'
<1>1. /\ keyOf' \in [RowIds -> {0} \cup KeyTimes] /\ Admissible(keyOf)'
      /\ Present' = Present \cup {i}
      /\ UNCHANGED <<list, cursor, pages, Places, Shown, standing>> /\ \A p : RowAt(p)' = RowAt(p)
      /\ cursor # Finished
      /\ \A j \in RowIds \ {i} : (Beyond(j)' <=> Beyond(j))
  BY WritesKeepTypes, PageNumbers DEF InsertRow
<1>2. i \notin Present /\ i \notin Shown
  BY DEF InsertRow
<1>3. PagesTypes'
  BY <1>1 DEF PagesTypes
<1>4. \A j \in standing : j \in RowIds \ {i}
  BY <1>2 DEF PagesTypes, Present
<1>5. NothingMissed'
  BY <1>1, <1>4 DEF NothingMissed
<1>6. \A j \in Shown \cap Present' : j \in RowIds \ {i} /\ j \in Present
  BY <1>1, <1>2 DEF Present
<1>7. NothingTwice'
  BY <1>1, <1>6 DEF NothingTwice
<1> QED BY <1>3, <1>5, <1>7

LEMMA RemoveKeepsPages ==
  ASSUME PagesTypes, Followed, NothingMissed, NothingTwice, NEW i \in RowIds, RemoveRow(i)
  PROVE  PagesTypes' /\ NothingMissed' /\ NothingTwice'
<1>1. /\ keyOf' \in [RowIds -> {0} \cup KeyTimes] /\ Admissible(keyOf)'
      /\ Present' = Present \ {i}
      /\ UNCHANGED <<list, cursor, pages, Places, Shown>> /\ \A p : RowAt(p)' = RowAt(p)
      /\ cursor # Finished
      /\ \A j \in RowIds \ {i} : (Beyond(j)' <=> Beyond(j))
  BY WritesKeepTypes DEF RemoveRow
<1>2. standing' = standing \ {i}
  BY DEF RemoveRow
<1>3. PagesTypes'
  BY <1>1, <1>2 DEF PagesTypes
<1>4. \A j \in standing' : j \in RowIds \ {i} /\ j \in standing
  BY <1>2 DEF PagesTypes, Present
<1>5. NothingMissed'
  BY <1>1, <1>4 DEF NothingMissed
<1>6. \A j \in Shown \cap Present' : j \in RowIds \ {i} /\ j \in Present
  BY <1>1 DEF Present
<1>7. NothingTwice'
  BY <1>1, <1>6 DEF NothingTwice
<1> QED BY <1>3, <1>5, <1>7

(* A key that moves towards the end stays beyond the cursor, one that      *)
(* moves towards the beginning stays before it.                            *)
LEMMA MoveKeepsPages ==
  ASSUME PagesTypes, Followed, NothingMissed, NothingTwice,
         NEW i \in RowIds, NEW t \in KeyTimes, MoveKey(i, t)
  PROVE  PagesTypes' /\ NothingMissed' /\ NothingTwice'
<1>1. /\ keyOf' \in [RowIds -> {0} \cup KeyTimes] /\ Admissible(keyOf)' /\ keyOf'[i] = t
      /\ Present' = Present \cup {i}
      /\ UNCHANGED <<list, cursor, pages, Places, Shown, standing>> /\ \A p : RowAt(p)' = RowAt(p)
      /\ cursor # Finished
      /\ \A j \in RowIds \ {i} : (Beyond(j)' <=> Beyond(j))
  BY WritesKeepTypes, PageNumbers DEF MoveKey
<1>2. /\ i \in Present /\ list.by = "time"
      /\ (list.moves = "earlier" /\ t < keyOf[i]) \/ (list.moves = "later" /\ t > keyOf[i])
  BY ListFields DEF MoveKey, PagesTypes
<1>3. Present' = Present
  BY <1>1, <1>2
<1>4. keyOf[i] \in Nat /\ t \in Nat /\ i \in Nat
  <2>1. keyOf[i] \in {0} \cup KeyTimes
    BY DEF PagesTypes
  <2>2. {0} \cup KeyTimes \subseteq Nat /\ t \in Nat /\ i \in Nat
    BY PageNumbers
  <2> QED BY <2>1, <2>2
<1>5. cursor.key \in Nat /\ cursor.id \in Nat
  <2>1. CASE cursor \in {Start, Finished}
    BY <2>1 DEF Start, Finished
  <2>2. CASE cursor \in [key : KeyTimes, id : RowIds]
    BY <2>2, PageNumbers
  <2> QED BY <2>1, <2>2 DEF PagesTypes
<1>6. /\ Beyond(i) <=> cursor = Start \/ keyOf[i] < cursor.key \/ (keyOf[i] = cursor.key /\ i < cursor.id)
      /\ Beyond(i)' <=> cursor = Start \/ t < cursor.key \/ (t = cursor.key /\ i < cursor.id)
  BY <1>1, <1>2 DEF Beyond, Followed, Start
<1>7. /\ list.moves = "earlier" /\ Beyond(i) => Beyond(i)'
      /\ list.moves = "later" /\ ~Beyond(i) /\ cursor # Start => ~Beyond(i)'
  BY <1>2, <1>4, <1>5, <1>6
<1>8. PagesTypes'
  BY <1>1, <1>3 DEF PagesTypes
<1>9. \A j \in standing : j \in RowIds \ {i} \/ j = i
  BY DEF PagesTypes, Present
<1>10. NothingMissed'
  BY <1>1, <1>2, <1>7, <1>9 DEF NothingMissed
<1>11. \A j \in Shown \cap Present : j \in RowIds \ {i} \/ j = i
  BY DEF Present
<1>12. NothingTwice'
  BY <1>1, <1>2, <1>3, <1>7, <1>11 DEF NothingTwice
<1> QED BY <1>8, <1>10, <1>12

LEMMA PagesStep == PagesInv /\ [PagesNext]_pageVars => PagesInv'
<1> SUFFICES ASSUME PagesInv, [PagesNext]_pageVars PROVE PagesInv'
  OBVIOUS
<1>1. CASE UNCHANGED pageVars
  <2>1. UNCHANGED <<list, keyOf, cursor, pages, standing>>
    BY <1>1 DEF pageVars
  <2>2. UNCHANGED <<Present, Places, Shown, Followed>> /\ (\A p : RowAt(p)' = RowAt(p)) /\ \A i : Beyond(i)' <=> Beyond(i)
    <3>1. UNCHANGED <<Present, Places, Followed>> /\ \A p : RowAt(p)' = RowAt(p)
      BY <2>1 DEF Present, Places, RowAt, Followed
    <3> QED BY <2>1, <3>1 DEF Shown, Beyond, RowAt, Start
  <2>3. Followed => PagesTypes'
    BY <2>1, <2>2 DEF PagesInv, PagesTypes, Admissible
  <2>4. Followed => NothingMissed' /\ NothingTwice'
    BY <2>1, <2>2 DEF PagesInv, NothingMissed, NothingTwice
  <2> QED BY <2>1, <2>2, <2>3, <2>4 DEF PagesInv
<1>2. CASE PagesNext
  <2>1. UNCHANGED <<list, Followed>>
    BY <1>2 DEF PagesNext, ReadPage, InsertRow, MoveKey, RemoveRow, WriteKey, Followed
  <2>2. CASE ReadPage
    BY <2>1, <2>2, ReadKeepsPages DEF PagesInv
  <2>3. ASSUME NEW i \in RowIds, NEW t \in KeyTimes, InsertRow(i, t) PROVE PagesInv'
    BY <2>1, <2>3, InsertKeepsPages DEF PagesInv
  <2>4. ASSUME NEW i \in RowIds, NEW t \in KeyTimes, MoveKey(i, t) PROVE PagesInv'
    BY <2>1, <2>4, MoveKeepsPages DEF PagesInv
  <2>5. ASSUME NEW i \in RowIds, RemoveRow(i) PROVE PagesInv'
    BY <2>1, <2>5, RemoveKeepsPages DEF PagesInv
  <2> QED BY <1>2, <2>2, <2>3, <2>4, <2>5 DEF PagesNext
<1> QED BY <1>1, <1>2

LEMMA PagesShow == PagesInv => WalksAreComplete
BY DEF PagesInv, Followed, NothingMissed, NothingTwice, WalksAreComplete

-------------------------------------------------------------------------------
(* Funnels, series and summaries                                           *)

LEMMA AnalyticsNumbers ==
  SpanIds \subseteq Nat /\ IsFiniteSet(SpanIds) /\ LastStart \in Nat /\ BucketWidth \in Nat \ {0}
BY AnalyticsAssumption DEF AnalyticsAssumption

(* An index that is narrowed by buckets loses no row.                      *)
LEMMA BucketsAreMonotone == \A a, b \in Nat : Bucket(a) \in Int /\ (a <= b => Bucket(a) <= Bucket(b))
<1> SUFFICES ASSUME NEW a \in Nat, NEW b \in Nat PROVE Bucket(a) \in Int /\ (a <= b => Bucket(a) <= Bucket(b))
  OBVIOUS
<1> DEFINE w == BucketWidth
<1>1. w \in Nat /\ w > 0
  BY AnalyticsNumbers
<1> HIDE DEF w
<1>2. a \div w \in Int /\ b \div w \in Int
  BY <1>1
<1>3. \A x \in Nat, y \in Nat : x <= y => x \div w <= y \div w
  <2> SUFFICES ASSUME NEW x \in Nat, NEW y \in Nat, x <= y, x \div w > y \div w PROVE FALSE
    BY <1>1
  <2> DEFINE p == x \div w
             q == y \div w
  <2>1. p \in Int /\ q \in Int /\ x % w \in 0 .. w - 1 /\ y % w \in 0 .. w - 1
    BY <1>1
  <2>2. x = w * p + (x % w) /\ y = w * q + (y % w)
    BY <1>1
  <2>3. p >= q + 1
    BY <2>1
  <2>4. \A u, v \in Int : u >= v + 1 => w * u >= w * v + w
    BY <1>1
  <2> HIDE DEF p, q
  <2>5. w * p >= w * q + w /\ w * p \in Int /\ w * q \in Int
    BY <2>1, <2>3, <2>4, <1>1
  <2>6. \A m, n, r, s \in Int : m >= n + w /\ r >= 0 /\ s < w => m + r > n + s
    BY <1>1
  <2> QED BY <2>1, <2>2, <2>5, <2>6, <1>1
<1> QED BY <1>2, <1>3 DEF Bucket, w

(* Rows that are counted by the bucket they are in add up to the rows.     *)
LEMMA FibresAddUp ==
  ASSUME NEW S, IsFiniteSet(S), NEW B, NEW g, B = {g[s] : s \in S}, NEW p, p = [b \in B |-> Cardinality({s \in S : g[s] = b})]
  PROVE  SumFunctionOnSet(p, B) = Cardinality(S)
<1> DEFINE Over(T) == {s \in S : g[s] \in T}
           Bad == {T \in SUBSET B : SumFunctionOnSet(p, T) # Cardinality(Over(T))}
<1>1. IsFiniteSet(B)
  <2> DEFINE h == [s \in S |-> g[s]]
  <2>1. h \in Surjection(S, B)
    BY DEF Surjection
  <2> QED BY <2>1, FS_Surjection
<1>2. \A b \in B : IsFiniteSet({s \in S : g[s] = b}) /\ p[b] = Cardinality({s \in S : g[s] = b}) /\ p[b] \in Nat
  <2> SUFFICES ASSUME NEW b \in B
               PROVE  IsFiniteSet({s \in S : g[s] = b}) /\ p[b] = Cardinality({s \in S : g[s] = b}) /\ p[b] \in Nat
    OBVIOUS
  <2>1. IsFiniteSet({s \in S : g[s] = b})
    BY FS_Subset
  <2> QED BY <2>1, FS_CardinalityType
<1>3. ASSUME Bad # {} PROVE FALSE
  <2>1. PICK T \in Bad : \A U \in Bad : U \subseteq T => U = T
    <3>1. Bad \in SUBSET (SUBSET B)
      OBVIOUS
    <3> HIDE DEF Bad
    <3> QED BY ONLY <1>1, <1>3, <3>1, SmallestSet
  <2>2. T \subseteq B /\ SumFunctionOnSet(p, T) # Cardinality(Over(T))
    BY <2>1
  <2>3. T # {}
    <3>1. Over({}) = {}
      OBVIOUS
    <3>2. SumFunctionOnSet(p, {}) = 0 /\ Cardinality({}) = 0
      BY SumOfNone, FS_EmptySet
    <3> HIDE DEF Over
    <3> QED BY <2>2, <3>1, <3>2
  <2>4. PICK y \in T : TRUE
    BY <2>3
  <2>5. T \ {y} \subseteq B /\ T \ {y} \notin Bad
    BY <2>1, <2>4
  <2>6. SumFunctionOnSet(p, T \ {y}) = Cardinality(Over(T \ {y}))
    BY <2>5
  <2>7. SumFunctionOnSet(p, T) = p[y] + SumFunctionOnSet(p, T \ {y})
    <3>1. T \in SUBSET B /\ \A b \in B : p[b] \in Nat
      BY <1>2, <2>2
    <3> QED BY ONLY <1>1, <3>1, <2>4, SumOfAny
  <2> DEFINE F == {s \in S : g[s] = y}
             R == Over(T \ {y})
  <2>8. Over(T) = F \cup R /\ F \cap R = {} /\ F \subseteq S /\ R \subseteq S
    BY <2>4
  <2>9. p[y] = Cardinality(F)
    BY <1>2, <2>2, <2>4
  <2> HIDE DEF F, R, Over
  <2>10. IsFiniteSet(F) /\ IsFiniteSet(R)
    BY <2>8, FS_Subset
  <2>11. Cardinality(F \cup R) = Cardinality(F) + Cardinality(R) - Cardinality(F \cap R)
    BY ONLY <2>10, FS_Union
  <2>12. Cardinality(F) \in Nat /\ Cardinality(R) \in Nat /\ Cardinality({}) = 0
    BY <2>10, FS_CardinalityType, FS_EmptySet
  <2>13. SumFunctionOnSet(p, T \ {y}) = Cardinality(R)
    BY <2>6 DEF R
  <2>14. Cardinality(Over(T)) = Cardinality(F) + Cardinality(R)
    <3>1. Cardinality(F \cap R) = 0
      BY ONLY <2>8, <2>12
    <3>2. Cardinality(Over(T)) = Cardinality(F \cup R)
      BY <2>8
    <3> QED BY ONLY <3>1, <3>2, <2>11, <2>12
  <2>15. SumFunctionOnSet(p, T) = Cardinality(F) + Cardinality(R)
    BY <2>7, <2>9, <2>13
  <2> QED BY <2>2, <2>14, <2>15
<1>4. SumFunctionOnSet(p, B) = Cardinality(Over(B))
  BY <1>3
<1>5. Over(B) = S
  OBVIOUS
<1> HIDE DEF Over
<1> QED BY <1>4, <1>5

(* The spans of a trace, sorted.                                           *)
LEMMA SpansInOrder ==
  ASSUME NEW T, IsFiniteSet(T), T \subseteq SpanIds, \A s \in T : startOf[s] \in Int
  PROVE  LET spans == sortSpansAscending(T)
         IN /\ Cardinality(T) \in Nat /\ Len(spans) = Cardinality(T)
            /\ \A n \in 1 .. Len(spans) : spans[n] \in T /\ Ordinal(spans[n], T) = n
            /\ \A s \in T : Ordinal(s, T) \in 1 .. Len(spans) /\ spans[Ordinal(s, T)] = s
            /\ \A r, s \in T : SpanBefore(r, s) <=> Ordinal(r, T) < Ordinal(s, T)
            /\ \A r, s \in T : Ordinal(r, T) = Ordinal(s, T) => r = s
<1> DEFINE f == [s \in T |-> {r \in T : SpanBefore(r, s)}]
           spans == sortSpansAscending(T)
<1>1. Cardinality(T) \in Nat
  BY FS_CardinalityType
<1>2. \A x \in T : x \in Nat
  BY AnalyticsNumbers
<1>3. \A x, y \in T : /\ ~SpanBefore(x, x) /\ (x # y => SpanBefore(x, y) \/ SpanBefore(y, x))
                      /\ ~(SpanBefore(x, y) /\ SpanBefore(y, x))
                      /\ \A z \in T : SpanBefore(x, y) /\ SpanBefore(y, z) => SpanBefore(x, z)
  BY <1>2 DEF SpanBefore
<1>4. \A x \in T : f[x] \subseteq T /\ x \notin f[x] /\ \A y \in T : y \in f[x] <=> SpanBefore(y, x)
  BY <1>3
<1>5. \A x, y \in T : x # y => (x \in f[y] /\ f[x] \subseteq f[y]) \/ (y \in f[x] /\ f[y] \subseteq f[x])
  BY <1>3
<1>6. \A x \in T : Ordinal(x, T) = Cardinality(f[x]) + 1 /\ IsFiniteSet(f[x]) /\ Cardinality(f[x]) \in Nat
  <2> SUFFICES ASSUME NEW x \in T PROVE Ordinal(x, T) = Cardinality(f[x]) + 1 /\ IsFiniteSet(f[x]) /\ Cardinality(f[x]) \in Nat
    OBVIOUS
  <2>1. f[x] = {r \in T : SpanBefore(r, x)} /\ f[x] \subseteq T
    OBVIOUS
  <2>2. IsFiniteSet(f[x])
    BY <2>1, FS_Subset
  <2> QED BY <2>1, <2>2, FS_CardinalityType DEF Ordinal
<1> HIDE DEF f
<1>7. /\ \A k \in 1 .. Cardinality(T) : \E x \in T : Cardinality(f[x]) = k - 1
      /\ \A x \in T : Cardinality(f[x]) + 1 \in 1 .. Cardinality(T)
      /\ \A x, y \in T : Cardinality(f[x]) = Cardinality(f[y]) => x = y
  BY <1>4, <1>5, PlacesAreTaken
<1>8. \A r, s \in T : Ordinal(r, T) = Ordinal(s, T) => r = s
  BY <1>6, <1>7
<1>9. \A r, s \in T : SpanBefore(r, s) => Ordinal(r, T) < Ordinal(s, T)
  <2> SUFFICES ASSUME NEW r \in T, NEW s \in T, SpanBefore(r, s) PROVE Ordinal(r, T) < Ordinal(s, T)
    OBVIOUS
  <2>1. f[r] \subseteq f[s] /\ r # s
    BY <1>3, <1>4
  <2>2. Cardinality(f[r]) <= Cardinality(f[s])
    BY <2>1, <1>6, FS_Subset
  <2>3. Cardinality(f[r]) # Cardinality(f[s])
    BY <2>1, <1>7
  <2> QED BY <2>2, <2>3, <1>6
<1>10. \A r, s \in T : Ordinal(r, T) < Ordinal(s, T) => SpanBefore(r, s)
  <2> SUFFICES ASSUME NEW r \in T, NEW s \in T, Ordinal(r, T) < Ordinal(s, T), ~SpanBefore(r, s) PROVE FALSE
    OBVIOUS
  <2>1. Ordinal(r, T) \in Nat /\ Ordinal(s, T) \in Nat
    BY <1>6
  <2>2. r = s \/ SpanBefore(s, r)
    BY <1>3
  <2> QED BY <2>1, <2>2, <1>9
<1>11. Len(spans) = Cardinality(T) /\ \A n \in 1 .. Cardinality(T) : spans[n] = CHOOSE s \in T : Ordinal(s, T) = n
  BY <1>1 DEF sortSpansAscending
<1> HIDE DEF spans
<1>12. \A n \in 1 .. Len(spans) : spans[n] \in T /\ Ordinal(spans[n], T) = n
  <2> SUFFICES ASSUME NEW n \in 1 .. Cardinality(T) PROVE spans[n] \in T /\ Ordinal(spans[n], T) = n
    BY <1>11
  <2>1. PICK x \in T : Cardinality(f[x]) = n - 1
    BY <1>7
  <2>2. Ordinal(x, T) = n
    BY <2>1, <1>1, <1>6
  <2> QED BY <2>2, <1>11
<1>13. \A s \in T : Ordinal(s, T) \in 1 .. Len(spans) /\ spans[Ordinal(s, T)] = s
  BY <1>6, <1>7, <1>8, <1>11, <1>12
<1> QED BY <1>1, <1>8, <1>9, <1>10, <1>11, <1>12, <1>13 DEF spans

(* The steps that a trace takes: each from where the one before left it.   *)
Stances == [at : Nat \ {0}, reached : Nat]
HitsFrom(spans, kind, before) == {i \in before.at .. Len(spans) : kind \in KindOf[spans[i]]}
Taken(spans, kind, n, before, after) ==
  LET hits == HitsFrom(spans, kind, before)
  IN /\ before.reached < n - 1 \/ hits = {} => after = before
     /\ ~(before.reached < n - 1) /\ hits # {} =>
          after.reached = n /\ after.at \in hits /\ \A i \in hits : after.at <= i
LEMMA TakeStepIs ==
  ASSUME NEW spans, Len(spans) \in Nat, NEW kind, NEW n \in Nat, NEW before \in Stances
  PROVE  /\ TakeStep(spans, kind, n, before) \in Stances
         /\ Taken(spans, kind, n, before, TakeStep(spans, kind, n, before))
<1> DEFINE hits == HitsFrom(spans, kind, before)
           after == TakeStep(spans, kind, n, before)
<1>1. after = IF before.reached < n - 1 \/ hits = {} THEN before ELSE [at |-> Min(hits), reached |-> n]
  BY DEF TakeStep, HitsFrom
<1>2. hits \in SUBSET (Nat \ {0}) /\ hits \in SUBSET Nat
  BY DEF Stances, HitsFrom
<1> HIDE DEF hits, after
<1>3. hits # {} => Min(hits) \in hits /\ \A i \in hits : Min(hits) <= i
  BY <1>2, LeastOfSome
<1>4. before.reached < n - 1 \/ hits = {} => after = before
  BY <1>1
<1>5. ~(before.reached < n - 1) /\ hits # {} => after.reached = n /\ after.at = Min(hits) /\ after \in Stances
  BY <1>1, <1>2, <1>3 DEF Stances
<1> QED BY <1>3, <1>4, <1>5 DEF hits, after, Taken

LEMMA StepsTakenIs ==
  ASSUME NEW spans, Len(spans) \in Nat, NEW steps \in Seq(StepKinds)
  PROVE  /\ StepsTaken(spans, steps)[0] = [at |-> 1, reached |-> 0]
         /\ \A n \in 1 .. Len(steps) :
              StepsTaken(spans, steps)[n] = TakeStep(spans, steps[n], n, StepsTaken(spans, steps)[n - 1])
         /\ \A n \in 0 .. Len(steps) : StepsTaken(spans, steps)[n] \in Stances
<1> DEFINE m == Len(steps)
           first == [at |-> 1, reached |-> 0]
           g == [n \in 1 .. m |-> [r \in Stances |-> TakeStep(spans, steps[n], n, r)]]
           F(f) == [n \in 0 .. m |-> IF n = 0 THEN first ELSE TakeStep(spans, steps[n], n, f[n - 1])]
<1>1. m \in Nat /\ \A n \in 1 .. m : n \in Nat /\ n - 1 \in 0 .. m /\ n \in 0 .. m /\ n # 0
  OBVIOUS
<1>2. first \in Stances
  BY DEF Stances
<1>3. \A n \in 1 .. m, r \in Stances : TakeStep(spans, steps[n], n, r) \in Stances
  BY <1>1, TakeStepIs
<1>4. g \in StepsIn(Stances, m)
  <2> HIDE DEF m
  <2> QED BY <1>3 DEF StepsIn
<1>5. PICK f : f \in [0 .. m -> Stances] /\ f[0] = first /\ \A k \in 1 .. m : f[k] = g[k][f[k - 1]]
  <2> HIDE DEF g, m, first
  <2>1. PICK f : ChainFrom(Stances, first, m, g, f)
    BY <1>1, <1>2, <1>4, ChainExists
  <2> QED BY <2>1 DEF ChainFrom
<1>6. \A k \in 1 .. m : f[k] = TakeStep(spans, steps[k], k, f[k - 1])
  <2> SUFFICES ASSUME NEW k \in 1 .. m PROVE f[k] = TakeStep(spans, steps[k], k, f[k - 1])
    OBVIOUS
  <2>1. f[k - 1] \in Stances
    BY <1>1, <1>5
  <2> QED BY <1>5, <2>1
<1>7. f = F(f)
  <2>1. \A k \in 0 .. m : f[k] = IF k = 0 THEN first ELSE TakeStep(spans, steps[k], k, f[k - 1])
    <3>1. \A k \in 0 .. m : k = 0 \/ k \in 1 .. m
      BY <1>1
    <3> HIDE DEF m, first
    <3> QED BY <1>5, <1>6, <3>1
  <2> HIDE DEF m, first
  <2> QED BY <1>5, <2>1
<1> DEFINE h == StepsTaken(spans, steps)
<1>8. h = F(h)
  <2>1. h = CHOOSE k : k = F(k)
    BY DEF StepsTaken
  <2> HIDE DEF F, h
  <2> QED BY <1>7, <2>1
<1>9. \A n \in 0 .. m : h[n] = IF n = 0 THEN first ELSE TakeStep(spans, steps[n], n, h[n - 1])
  <2> HIDE DEF h, m, first
  <2> QED BY <1>8
<1> HIDE DEF m, h, first
<1>10. h[0] = first /\ \A n \in 1 .. m : h[n] = TakeStep(spans, steps[n], n, h[n - 1])
  BY <1>1, <1>9
<1>11. \A n \in 0 .. m : h[n] \in Stances
  <2> DEFINE Bad == {n \in 0 .. m : h[n] \notin Stances}
  <2> SUFFICES ASSUME Bad # {} PROVE FALSE
    OBVIOUS
  <2>1. PICK n \in Bad : \A k \in Bad : n <= k
    <3>1. Bad \in SUBSET Nat
      BY <1>1
    <3> HIDE DEF Bad
    <3> QED BY <3>1, LeastOfSome
  <2>2. n # 0 /\ n \in 1 .. m
    BY <2>1, <1>1, <1>2, <1>10
  <2>3. n - 1 \notin Bad
    BY <2>1, <2>2
  <2>4. h[n - 1] \in Stances
    BY <2>2, <2>3, <1>1
  <2> QED BY <2>1, <2>2, <2>4, <1>3, <1>10
<1> QED BY <1>10, <1>11 DEF m, h, first

(* Taking the earliest span at each step brings a trace as far as any      *)
(* choice of spans would.                                                  *)
Through(T, steps, n, f) ==
  /\ f \in [1 .. n -> T]
  /\ \A i \in 1 .. n : steps[i] \in KindOf[f[i]]
  /\ \A i \in 2 .. n : f[i - 1] = f[i] \/ SpanBefore(f[i - 1], f[i])

LEMMA GreedyIsEnough ==
  ASSUME NEW T, IsFiniteSet(T), T \subseteq SpanIds, \A s \in T : startOf[s] \in Int,
         NEW steps \in Seq(StepKinds), NEW n \in 1 .. Len(steps)
  PROVE  evaluateTrace(sortSpansAscending(T), steps) >= n <=> \E f : Through(T, steps, n, f)
<1> DEFINE spans == sortSpansAscending(T)
           W == StepsTaken(spans, steps)
           m == Len(steps)
           rank == [s \in T |-> Ordinal(s, T)]
<1>1. /\ Len(spans) \in Nat
      /\ \A k \in 1 .. Len(spans) : spans[k] \in T /\ rank[spans[k]] = k
      /\ \A s \in T : rank[s] \in 1 .. Len(spans) /\ spans[rank[s]] = s
      /\ \A r, s \in T : SpanBefore(r, s) <=> rank[r] < rank[s]
      /\ \A r, s \in T : rank[r] = rank[s] => r = s
  <2>1. /\ Cardinality(T) \in Nat /\ Len(spans) = Cardinality(T)
        /\ \A k \in 1 .. Len(spans) : spans[k] \in T /\ Ordinal(spans[k], T) = k
        /\ \A s \in T : Ordinal(s, T) \in 1 .. Len(spans) /\ spans[Ordinal(s, T)] = s
        /\ \A r, s \in T : SpanBefore(r, s) <=> Ordinal(r, T) < Ordinal(s, T)
        /\ \A r, s \in T : Ordinal(r, T) = Ordinal(s, T) => r = s
    <3> HIDE DEF spans
    <3> QED BY SpansInOrder DEF spans
  <2>2. \A s \in T : rank[s] = Ordinal(s, T)
    OBVIOUS
  <2> HIDE DEF spans, rank
  <2> QED BY <2>1, <2>2
<1> HIDE DEF spans, rank
<1>2. m \in Nat /\ n \in 1 .. m /\ \A k \in 1 .. m : k \in Nat /\ k - 1 \in 0 .. m /\ k \in 0 .. m
  OBVIOUS
<1>3. /\ W[0] = [at |-> 1, reached |-> 0]
      /\ \A k \in 1 .. m : W[k] = TakeStep(spans, steps[k], k, W[k - 1])
      /\ \A k \in 0 .. m : W[k] \in Stances
  <2> HIDE DEF W
  <2> QED BY <1>1, StepsTakenIs DEF W, m
<1> HIDE DEF W, m
<1> DEFINE Hits(k) == {i \in W[k - 1].at .. Len(spans) : steps[k] \in KindOf[spans[i]]}
<1>4. \A k \in 1 .. m :
        /\ W[k - 1].reached < k - 1 \/ Hits(k) = {} => W[k] = W[k - 1]
        /\ ~(W[k - 1].reached < k - 1) /\ Hits(k) # {} =>
             W[k].reached = k /\ W[k].at \in Hits(k) /\ \A i \in Hits(k) : W[k].at <= i
  <2> SUFFICES ASSUME NEW k \in 1 .. m
               PROVE  /\ W[k - 1].reached < k - 1 \/ Hits(k) = {} => W[k] = W[k - 1]
                      /\ ~(W[k - 1].reached < k - 1) /\ Hits(k) # {} =>
                           W[k].reached = k /\ W[k].at \in Hits(k) /\ \A i \in Hits(k) : W[k].at <= i
    OBVIOUS
  <2> DEFINE before == W[k - 1]
             kind == steps[k]
  <2>1. before \in Stances /\ k \in Nat /\ W[k] = TakeStep(spans, kind, k, before)
    BY <1>2, <1>3
  <2>2. Hits(k) = HitsFrom(spans, kind, before)
    BY DEF HitsFrom
  <2> HIDE DEF before, kind
  <2>3. Taken(spans, kind, k, before, W[k])
    BY <2>1, <1>1, TakeStepIs
  <2> HIDE DEF Hits
  <2> QED BY <2>2, <2>3 DEF before, Taken
<1> HIDE DEF Hits
<1>5. \A k \in 0 .. m : W[k].at \in Nat \ {0} /\ W[k].reached \in Nat
  BY <1>3 DEF Stances
<1>6. \A k \in 0 .. m : W[k].reached <= k
  <2> DEFINE Bad == {k \in 0 .. m : ~(W[k].reached <= k)}
  <2> SUFFICES ASSUME Bad # {} PROVE FALSE
    OBVIOUS
  <2>1. PICK k \in Bad : \A j \in Bad : k <= j
    <3>1. Bad \in SUBSET Nat
      BY <1>2
    <3> HIDE DEF Bad
    <3> QED BY <3>1, LeastOfSome
  <2>2. k \in 1 .. m
    <3>1. W[0].reached = 0
      BY <1>3
    <3> QED BY <2>1, <3>1, <1>2
  <2>3. W[k - 1].reached <= k - 1
    BY <2>1, <2>2, <1>2
  <2>4. W[k] = W[k - 1] \/ W[k].reached = k
    BY <2>2, <2>3, <1>2, <1>4, <1>5
  <2>5. W[k].reached <= k
    BY <2>2, <2>3, <2>4, <1>2, <1>5
  <2> QED BY <2>1, <2>5
(* Once it comes short of a step it takes no other.                        *)
<1>7. \A j \in 0 .. m : \A k \in j .. m :
        /\ W[j].reached < j => W[k].reached = W[j].reached
        /\ W[j].reached = j => W[k].reached >= j
  <2> SUFFICES ASSUME NEW j \in 0 .. m PROVE \A k \in j .. m :
                 /\ W[j].reached < j => W[k].reached = W[j].reached
                 /\ W[j].reached = j => W[k].reached >= j
    OBVIOUS
  <2> DEFINE Good(k) == /\ W[j].reached < j => W[k].reached = W[j].reached
                        /\ W[j].reached = j => W[k].reached >= j
             Bad == {k \in j .. m : ~Good(k)}
  <2> SUFFICES ASSUME Bad # {} PROVE FALSE
    OBVIOUS
  <2>1. PICK k \in Bad : \A i \in Bad : k <= i
    <3>1. Bad \in SUBSET Nat
      BY <1>2
    <3> HIDE DEF Bad
    <3> QED BY <3>1, LeastOfSome
  <2>2. k # j /\ k - 1 \in j .. m /\ k \in 1 .. m
    <3>1. Good(j)
      BY <1>5
    <3> QED BY <2>1, <3>1, <1>2
  <2>3. Good(k - 1) /\ ~Good(k)
    BY <2>1, <2>2
  <2>4. W[k - 1].reached \in Nat /\ W[k].reached \in Nat /\ W[j].reached \in Nat
    BY <2>2, <1>2, <1>5
  <2> QED BY <2>2, <2>3, <2>4, <1>2, <1>4
<1>8. \A k \in 0 .. m : /\ W[k].reached = k /\ k > 0 =>
                             /\ W[k].at \in 1 .. Len(spans)
                             /\ \E f : Through(T, steps, k, f) /\ f[k] = spans[W[k].at]
                        /\ \A f : Through(T, steps, k, f) => W[k].reached = k /\ (k > 0 => W[k].at <= rank[f[k]])
  <2> DEFINE Good(k) == /\ W[k].reached = k /\ k > 0 =>
                             /\ W[k].at \in 1 .. Len(spans)
                             /\ \E f : Through(T, steps, k, f) /\ f[k] = spans[W[k].at]
                        /\ \A f : Through(T, steps, k, f) => W[k].reached = k /\ (k > 0 => W[k].at <= rank[f[k]])
             Bad == {k \in 0 .. m : ~Good(k)}
  <2> SUFFICES ASSUME Bad # {} PROVE FALSE
    OBVIOUS
  <2>1. PICK k \in Bad : \A i \in Bad : k <= i
    <3>1. Bad \in SUBSET Nat
      BY <1>2
    <3> HIDE DEF Bad
    <3> QED BY <3>1, LeastOfSome
  <2>2. W[0].at = 1 /\ W[0].reached = 0
    BY <1>3
  <2>3. k \in 1 .. m
    <3>1. Good(0)
      BY <2>2
    <3> QED BY <2>1, <3>1, <1>2
  <2>4. Good(k - 1) /\ k - 1 \in 0 .. m
    BY <2>1, <2>3, <1>2
  <2>5. W[k - 1].reached \in Nat /\ W[k - 1].at \in Nat \ {0} /\ W[k - 1].reached <= k - 1
    BY <2>4, <1>5, <1>6
  <2>6. ASSUME W[k].reached = k
        PROVE  W[k].at \in 1 .. Len(spans) /\ \E f : Through(T, steps, k, f) /\ f[k] = spans[W[k].at]
    <3>1. W[k - 1].reached = k - 1 /\ W[k].at \in Hits(k)
      BY <2>3, <2>5, <2>6, <1>4
    <3>2. W[k].at \in 1 .. Len(spans) /\ W[k - 1].at <= W[k].at /\ steps[k] \in KindOf[spans[W[k].at]]
      BY <3>1, <2>5, <1>1 DEF Hits
    <3> DEFINE s == spans[W[k].at]
    <3>3. s \in T /\ rank[s] = W[k].at
      BY <3>2, <1>1
    <3>4. CASE k = 1
      <4> DEFINE f == [i \in 1 .. 1 |-> s]
      <4>1. f \in [1 .. 1 -> T] /\ f[1] = s /\ \A i \in 1 .. 1 : i = 1
        BY <3>3
      <4>2. ~\E i \in 2 .. 1 : TRUE
        OBVIOUS
      <4>3. Through(T, steps, 1, f)
        <5> HIDE DEF f
        <5> QED BY <4>1, <4>2, <3>2, <3>4 DEF Through
      <4> QED BY <4>1, <4>3, <3>2, <3>4
    <3>5. CASE k # 1
      <4>1. PICK e : Through(T, steps, k - 1, e) /\ e[k - 1] = spans[W[k - 1].at] /\ W[k - 1].at \in 1 .. Len(spans)
        BY <2>3, <2>4, <3>1, <3>5
      <4> DEFINE f == [i \in 1 .. k |-> IF i = k THEN s ELSE e[i]]
      <4>2. \A i \in 1 .. k : i = k \/ i \in 1 .. k - 1
        BY <2>3
      <4>3. f \in [1 .. k -> T] /\ f[k] = s /\ \A i \in 1 .. k - 1 : f[i] = e[i]
        BY <4>1, <4>2, <2>3, <3>3 DEF Through
      <4> HIDE DEF f, s
      <4>4. \A i \in 1 .. k : steps[i] \in KindOf[f[i]]
        BY <4>1, <4>2, <4>3, <3>2 DEF Through, s
      <4>5. \A i \in 2 .. k - 1 : i - 1 \in 1 .. k - 1 /\ i \in 1 .. k - 1
        BY <2>3
      <4>6. k - 1 \in 1 .. k - 1 /\ \A i \in 2 .. k : i = k \/ i \in 2 .. k - 1
        BY <2>3, <3>5
      <4>7. f[k - 1] = f[k] \/ SpanBefore(f[k - 1], f[k])
        <5>1. f[k - 1] = spans[W[k - 1].at] /\ f[k - 1] \in T /\ rank[f[k - 1]] = W[k - 1].at
          BY <4>1, <4>3, <4>6, <1>1
        <5>2. rank[f[k - 1]] = rank[s] \/ rank[f[k - 1]] < rank[s]
          BY <5>1, <3>2, <3>3, <2>5
        <5> QED BY <5>1, <5>2, <3>3, <4>3, <1>1
      <4>8. \A i \in 2 .. k : f[i - 1] = f[i] \/ SpanBefore(f[i - 1], f[i])
        BY <4>1, <4>3, <4>5, <4>6, <4>7 DEF Through
      <4>9. Through(T, steps, k, f)
        BY <4>3, <4>4, <4>8 DEF Through
      <4> QED BY <4>3, <4>9, <3>2 DEF s
    <3> QED BY <3>4, <3>5
  <2>7. ASSUME NEW f, Through(T, steps, k, f) PROVE W[k].reached = k /\ W[k].at <= rank[f[k]]
    <3> DEFINE e == [i \in 1 .. k - 1 |-> f[i]]
    <3>1. \A i \in 1 .. k - 1 : i \in 1 .. k
      BY <2>3
    <3>2. \A i \in 2 .. k - 1 : i \in 2 .. k /\ i \in 1 .. k - 1 /\ i - 1 \in 1 .. k - 1
      BY <2>3
    <3>3. e \in [1 .. k - 1 -> T] /\ \A i \in 1 .. k - 1 : e[i] = f[i]
      BY <3>1, <2>7 DEF Through
    <3> HIDE DEF e
    <3>4. Through(T, steps, k - 1, e)
      BY <3>1, <3>2, <3>3, <2>7 DEF Through
    <3>5. W[k - 1].reached = k - 1 /\ (k - 1 > 0 => W[k - 1].at <= rank[e[k - 1]])
      BY <3>4, <2>4
    <3>6. k \in 1 .. k /\ f[k] \in T /\ steps[k] \in KindOf[f[k]] /\ rank[f[k]] \in 1 .. Len(spans) /\ spans[rank[f[k]]] = f[k]
      BY <2>3, <2>7, <1>1 DEF Through
    <3>7. W[k - 1].at <= rank[f[k]]
      <4>1. CASE k = 1
        BY <4>1, <2>2, <3>6
      <4>2. CASE k # 1
        <5>1. k - 1 \in 1 .. k - 1 /\ k - 1 > 0 /\ k \in 2 .. k /\ e[k - 1] \in T
          BY <4>2, <2>3, <3>3
        <5>2. f[k - 1] = e[k - 1] /\ (f[k - 1] = f[k] \/ SpanBefore(f[k - 1], f[k]))
          BY <5>1, <3>3, <2>7 DEF Through
        <5>3. rank[e[k - 1]] = rank[f[k]] \/ rank[e[k - 1]] < rank[f[k]]
          BY <5>1, <5>2, <3>6, <1>1
        <5>4. rank[e[k - 1]] \in Nat /\ rank[f[k]] \in Nat
          BY <5>1, <3>6, <1>1
        <5> QED BY <5>1, <5>3, <5>4, <3>5, <2>5
      <4> QED BY <4>1, <4>2
    <3>8. rank[f[k]] \in Hits(k)
      BY <3>6, <3>7, <2>5, <1>1 DEF Hits
    <3> QED BY <3>5, <3>8, <2>3, <2>5, <1>4
  <2> QED BY <2>1, <2>3, <2>6, <2>7
<1>9. evaluateTrace(spans, steps) = W[m].reached
  BY DEF evaluateTrace, W, m
<1>10. n \in 0 .. m /\ m \in n .. m /\ m \in 0 .. m /\ n > 0
  BY <1>2
<1>11. W[m].reached >= n <=> W[n].reached = n
  BY <1>5, <1>6, <1>7, <1>10
<1>12. W[n].reached = n <=> \E f : Through(T, steps, n, f)
  BY <1>8, <1>10
<1> QED BY <1>9, <1>11, <1>12 DEF spans

LEMMA ScopeIsExact ==
  ASSUME startOf \in [SpanIds -> {Absent} \cup 0 .. LastStart],
         NEW since \in 0 .. LastStart, NEW until \in 0 .. LastStart
  PROVE  /\ Scope(since, until) = Exactly(since, until)
         /\ IsFiniteSet(Exactly(since, until)) /\ Exactly(since, until) \subseteq SpanIds
         /\ \A s \in Exactly(since, until) : startOf[s] \in Nat
<1>1. since \in Nat /\ until \in Nat
  BY AnalyticsNumbers
<1>2. \A s \in Rows : s \in SpanIds /\ startOf[s] \in Nat
  <2>1. \A t \in {Absent} \cup 0 .. LastStart : t = Absent \/ t \in Nat
    BY AnalyticsNumbers
  <2> QED BY <2>1 DEF Rows
<1>3. \A s \in Rows : /\ startOf[s] >= since => Bucket(startOf[s]) >= Bucket(since)
                      /\ startOf[s] <= until => Bucket(startOf[s]) <= Bucket(until)
  <2> SUFFICES ASSUME NEW s \in Rows
               PROVE  /\ startOf[s] >= since => Bucket(startOf[s]) >= Bucket(since)
                      /\ startOf[s] <= until => Bucket(startOf[s]) <= Bucket(until)
    OBVIOUS
  <2>1. startOf[s] \in Nat
    BY <1>2
  <2>2. Bucket(startOf[s]) \in Int /\ Bucket(since) \in Int /\ Bucket(until) \in Int
    BY <2>1, <1>1, BucketsAreMonotone
  <2>3. since <= startOf[s] => Bucket(since) <= Bucket(startOf[s])
    BY <2>1, <1>1, BucketsAreMonotone
  <2>4. startOf[s] <= until => Bucket(startOf[s]) <= Bucket(until)
    BY <2>1, <1>1, BucketsAreMonotone
  <2> QED BY <2>1, <2>2, <2>3, <2>4, <1>1
<1>4. Scope(since, until) = Exactly(since, until)
  BY <1>1, <1>2, <1>3 DEF Scope, Exactly
<1>5. Exactly(since, until) \subseteq SpanIds /\ \A s \in Exactly(since, until) : startOf[s] \in Nat
  BY <1>2 DEF Exactly
<1>6. IsFiniteSet(Exactly(since, until))
  BY <1>5, AnalyticsNumbers, FS_Subset
<1> QED BY <1>4, <1>5, <1>6

(* What a funnel answers.                                                  *)
LEMMA FunnelCounts ==
  ASSUME NEW S, IsFiniteSet(S), S \subseteq SpanIds, \A s \in S : startOf[s] \in Nat,
         NEW steps \in Seq(StepKinds), NEW n \in DOMAIN steps
  PROVE  computeFunnel(S, steps)[n] = Cardinality({t \in TracesOf(S) : GoesThrough(S, t, steps, n)})
<1> DEFINE T(t) == {s \in S : TraceOf[s] = t}
           reached == [t \in TracesOf(S) |-> evaluateTrace(sortSpansAscending(T(t)), steps)]
<1>1. n \in 1 .. Len(steps)
  OBVIOUS
<1>2. ASSUME NEW t \in TracesOf(S) PROVE reached[t] >= n <=> GoesThrough(S, t, steps, n)
  <2>1. IsFiniteSet(T(t))
    BY FS_Subset
  <2>2. T(t) \subseteq SpanIds /\ \A s \in T(t) : startOf[s] \in Int
    OBVIOUS
  <2>3. GoesThrough(S, t, steps, n) <=> \E f : Through(T(t), steps, n, f)
    BY DEF GoesThrough, Through
  <2>4. reached[t] = evaluateTrace(sortSpansAscending(T(t)), steps)
    OBVIOUS
  <2> HIDE DEF T, reached
  <2>5. evaluateTrace(sortSpansAscending(T(t)), steps) >= n <=> \E f : Through(T(t), steps, n, f)
    BY <2>1, <2>2, <1>1, GreedyIsEnough
  <2> QED BY <2>3, <2>4, <2>5
<1>3. computeFunnel(S, steps)[n] = Cardinality({t \in TracesOf(S) : reached[t] >= n})
  BY DEF computeFunnel
<1> HIDE DEF reached, T
<1>4. {t \in TracesOf(S) : reached[t] >= n} = {t \in TracesOf(S) : GoesThrough(S, t, steps, n)}
  BY <1>2
<1> QED BY <1>3, <1>4

(* The points of a series.                                                 *)
LEMMA SeriesAddUp ==
  ASSUME NEW S, IsFiniteSet(S)
  PROVE  LET points == [b \in {Bucket(startOf[s]) : s \in S} |-> Cardinality({s \in S : Bucket(startOf[s]) = b})]
         IN /\ DOMAIN points = {Bucket(startOf[s]) : s \in S}
            /\ SumFunctionOnSet(points, DOMAIN points) = Cardinality(S)
<1> DEFINE g == [s \in S |-> Bucket(startOf[s])]
           B == {g[s] : s \in S}
           p == [b \in B |-> Cardinality({s \in S : g[s] = b})]
           points == [b \in {Bucket(startOf[s]) : s \in S} |-> Cardinality({s \in S : Bucket(startOf[s]) = b})]
<1>1. B = {Bucket(startOf[s]) : s \in S} /\ DOMAIN points = B /\ DOMAIN p = B
  OBVIOUS
<1>2. \A b \in B : p[b] = points[b]
  <2>1. \A b : {s \in S : g[s] = b} = {s \in S : Bucket(startOf[s]) = b}
    OBVIOUS
  <2> QED BY <1>1, <2>1
<1>3. p = points
  BY <1>1, <1>2
<1>4. SumFunctionOnSet(p, B) = Cardinality(S)
  <2> HIDE DEF g
  <2>1. B = {g[s] : s \in S} /\ p = [b \in B |-> Cardinality({s \in S : g[s] = b})]
    OBVIOUS
  <2> HIDE DEF B, p
  <2> QED BY <2>1, FibresAddUp
<1> HIDE DEF points, p, B, g
<1> QED BY <1>1, <1>3, <1>4 DEF points

(* The request and its answer, and the invariant: an answer is exact until *)
(* its client has it.                                                      *)
QueryIsTyped ==
  \/ query = NoQuery /\ answer = NoAnswer
  \/ /\ query # NoQuery
     /\ query.since \in 0 .. LastStart /\ query.until \in 0 .. LastStart
     /\ query.kind = "funnel" => query.steps \in Seq(StepKinds)
AnalyticsInv ==
  /\ startOf \in [SpanIds -> {Absent} \cup 0 .. LastStart]
  /\ QueryIsTyped
  /\ AnswersAreExact

LEMMA AnalyticsBegin == AnalyticsInit => AnalyticsInv
BY DEF AnalyticsInit, AnalyticsInv, QueryIsTyped, AnswersAreExact, Answered

LEMMA NothingAnswered == ~Answered => AnswersAreExact
BY DEF AnswersAreExact

LEMMA FunnelStep ==
  ASSUME AnalyticsInv, ReadFunnelRows
  PROVE  AnswersAreExact'
<1>1. /\ startOf \in [SpanIds -> {Absent} \cup 0 .. LastStart]
      /\ query.since \in 0 .. LastStart /\ query.until \in 0 .. LastStart /\ query.steps \in Seq(StepKinds)
  BY DEF AnalyticsInv, QueryIsTyped, ReadFunnelRows, NoQuery
<1>2. PICK S : S = Exactly(query.since, query.until)
  OBVIOUS
<1>3. PICK steps : steps = query.steps
  OBVIOUS
<1>4. PICK matched : matched = computeFunnel(S, steps)
  OBVIOUS
<1>5. /\ Scope(query.since, query.until) = S /\ IsFiniteSet(S) /\ S \subseteq SpanIds
      /\ \A s \in S : startOf[s] \in Nat
  BY <1>1, <1>2, ScopeIsExact
<1>6. /\ answer' = [is |-> "funnel", scanned |-> Cardinality(TracesOf(S)), matched |-> matched]
      /\ UNCHANGED <<startOf, query>>
  BY <1>3, <1>4, <1>5 DEF ReadFunnelRows
<1>7. Exactly(query.since, query.until)' = S /\ query'.steps = steps
  BY <1>2, <1>3, <1>6 DEF Exactly, Rows
<1>8. \A t, n : GoesThrough(S, t, steps, n)' <=> GoesThrough(S, t, steps, n)
  BY <1>6 DEF GoesThrough, SpanBefore
<1>9. \A n \in DOMAIN steps : matched[n] = Cardinality({t \in TracesOf(S) : GoesThrough(S, t, steps, n)})
  BY <1>1, <1>3, <1>4, <1>5, FunnelCounts
<1>10. \A n \in DOMAIN steps : matched[n] = Cardinality({t \in TracesOf(S) : GoesThrough(S, t, steps, n)'})
  <2>1. \A n : {t \in TracesOf(S) : GoesThrough(S, t, steps, n)'} = {t \in TracesOf(S) : GoesThrough(S, t, steps, n)}
    BY <1>8
  <2> QED BY <2>1, <1>9
<1>11. answer'.is = "funnel" /\ answer'.scanned = Cardinality(TracesOf(S)) /\ answer'.matched = matched
  BY <1>6
<1> QED BY <1>7, <1>10, <1>11 DEF AnswersAreExact

LEMMA SeriesStep ==
  ASSUME AnalyticsInv, NEW since \in 0 .. LastStart, NEW until \in 0 .. LastStart, getSeries(since, until)
  PROVE  AnswersAreExact'
<1>1. startOf \in [SpanIds -> {Absent} \cup 0 .. LastStart]
  BY DEF AnalyticsInv
<1>2. PICK S : S = Exactly(since, until)
  OBVIOUS
<1>3. Scope(since, until) = S /\ IsFiniteSet(S)
  BY <1>1, <1>2, ScopeIsExact
<1>4. PICK B : B = {Bucket(startOf[s]) : s \in S}
  OBVIOUS
<1>5. PICK points : points = [b \in B |-> Cardinality({s \in S : Bucket(startOf[s]) = b})]
  OBVIOUS
<1>6. DOMAIN points = B /\ SumFunctionOnSet(points, DOMAIN points) = Cardinality(S)
  BY <1>3, <1>4, <1>5, SeriesAddUp
<1>7. answer' = [is |-> "series", points |-> points] /\ UNCHANGED startOf
  BY <1>3, <1>4, <1>5 DEF getSeries
<1>8. query'.since = since /\ query'.until = until
  BY DEF getSeries
<1>9. Exactly(query.since, query.until)' = S /\ B = {Bucket(startOf'[s]) : s \in S}
  BY <1>2, <1>4, <1>7, <1>8 DEF Exactly, Rows
<1>10. answer'.is = "series" /\ answer'.points = points
  BY <1>7
<1> QED BY <1>6, <1>9, <1>10 DEF AnswersAreExact, Bucket

LEMMA SummaryStep ==
  ASSUME AnalyticsInv, ReadSecondSummary
  PROVE  AnswersAreExact'
<1>1. /\ startOf \in [SpanIds -> {Absent} \cup 0 .. LastStart]
      /\ query.since \in 0 .. LastStart /\ query.until \in 0 .. LastStart
  BY DEF AnalyticsInv, QueryIsTyped, ReadSecondSummary, NoQuery
<1>2. PICK S : S = Exactly(query.since, query.until)
  OBVIOUS
<1>3. Scope(query.since, query.until) = S
  BY <1>1, <1>2, ScopeIsExact
<1>4. PICK counted, costed : /\ counted = IF query.first = "counts" THEN query.read ELSE S
                             /\ costed = IF query.first = "counts" THEN S ELSE query.read
  OBVIOUS
<1>5. PICK groups : groups = {GroupOf[s] : s \in counted}
  OBVIOUS
<1>6. /\ answer' = [is |-> "summary", spans |-> [g \in groups |-> Spans(counted, g)],
                    costs |-> [g \in groups |-> Spans(costed, g)]]
      /\ UNCHANGED <<startOf, query>>
  BY <1>3, <1>4, <1>5 DEF ReadSecondSummary
<1>7. Exactly(query.since, query.until)' = S
  BY <1>2, <1>6 DEF Exactly, Rows
<1>8. query'.read = S => counted = S /\ costed = S
  BY <1>4, <1>6
<1>9. /\ answer'.is = "summary" /\ answer'.spans = [g \in groups |-> Spans(counted, g)]
      /\ answer'.costs = [g \in groups |-> Spans(costed, g)]
  BY <1>6
<1>10. query'.read = S => /\ DOMAIN answer'.spans = {GroupOf[s] : s \in S}
                          /\ \A g \in DOMAIN answer'.spans :
                               answer'.spans[g] = answer'.costs[g] /\ answer'.costs[g] = Spans(S, g)
  BY <1>5, <1>8, <1>9
<1> QED BY <1>7, <1>9, <1>10 DEF AnswersAreExact

LEMMA AnalyticsStep == AnalyticsInv /\ [AnalyticsNext]_analyticsVars => AnalyticsInv'
<1> SUFFICES ASSUME AnalyticsInv, [AnalyticsNext]_analyticsVars PROVE AnalyticsInv'
  OBVIOUS
<1> USE DEF AnalyticsInv
<1>1. CASE UNCHANGED analyticsVars
  <2>1. UNCHANGED <<startOf, query, answer>>
    BY <1>1 DEF analyticsVars
  <2>2. QueryIsTyped'
    BY <2>1 DEF QueryIsTyped
  <2>3. AnswersAreExact'
    <3>1. PICK S : S = Exactly(query.since, query.until)
      OBVIOUS
    <3>2. Exactly(query.since, query.until)' = S
      BY <2>1, <3>1 DEF Exactly, Rows
    <3>3. \A t, steps, n : GoesThrough(S, t, steps, n)' <=> GoesThrough(S, t, steps, n)
      BY <2>1 DEF GoesThrough, SpanBefore
    <3>4. \A steps, n : {t \in TracesOf(S) : GoesThrough(S, t, steps, n)'} = {t \in TracesOf(S) : GoesThrough(S, t, steps, n)}
      BY <3>3
    <3>5. {Bucket(startOf[s]) : s \in S}' = {Bucket(startOf[s]) : s \in S}
      BY <2>1
    <3> QED BY <2>1, <3>1, <3>2, <3>4, <3>5 DEF AnswersAreExact, Answered
  <2> QED BY <2>1, <2>2, <2>3
<1>2. ASSUME NEW steps \in UNION {[1 .. n -> StepKinds] : n \in 1 .. MaxSteps},
             NEW since \in 0 .. LastStart, NEW until \in 0 .. LastStart, postFunnel(steps, since, until)
      PROVE  AnalyticsInv'
  <2>1. steps \in Seq(StepKinds)
    BY AnalyticsAssumption DEF AnalyticsAssumption
  <2>2. /\ query' = [kind |-> "funnel", steps |-> steps, since |-> since, until |-> until]
        /\ answer' = [is |-> "refused"] \/ answer' = NoAnswer
        /\ UNCHANGED startOf
    BY <1>2 DEF postFunnel
  <2>3. query'.kind = "funnel" /\ query'.steps = steps /\ query'.since = since /\ query'.until = until
    BY <2>2
  <2>4. QueryIsTyped'
    BY <2>1, <2>3 DEF QueryIsTyped, NoQuery
  <2>5. AnswersAreExact'
    BY <2>2 DEF AnswersAreExact, Answered
  <2> QED BY <2>2, <2>4, <2>5
<1>3. ASSUME NEW since \in 0 .. LastStart, NEW until \in 0 .. LastStart, getSeries(since, until)
      PROVE  AnalyticsInv'
  <2>1. query' = [kind |-> "series", since |-> since, until |-> until] /\ UNCHANGED startOf
    BY <1>3 DEF getSeries
  <2>2. query'.kind = "series" /\ query'.since = since /\ query'.until = until
    BY <2>1
  <2>3. QueryIsTyped'
    BY <2>2 DEF QueryIsTyped, NoQuery
  <2> QED BY <1>3, <2>1, <2>3, SeriesStep
<1>4. ASSUME NEW since \in 0 .. LastStart, NEW until \in 0 .. LastStart, NEW first \in {"counts", "costs"},
             getSummary(since, until, first)
      PROVE  AnalyticsInv'
  <2>1. query' = [kind |-> "summary", since |-> since, until |-> until, first |-> first, read |-> Scope(since, until)]
    BY <1>4 DEF getSummary
  <2>2. query'.kind = "summary" /\ query'.since = since /\ query'.until = until
    BY <2>1
  <2>3. UNCHANGED <<startOf, answer>> /\ answer = NoAnswer
    BY <1>4 DEF getSummary, QueryIsTyped
  <2>4. QueryIsTyped'
    BY <2>2 DEF QueryIsTyped, NoQuery
  <2>5. AnswersAreExact'
    BY <2>3 DEF AnswersAreExact, Answered, NoAnswer
  <2> QED BY <2>3, <2>4, <2>5
<1>5. CASE ReadFunnelRows
  <2>1. UNCHANGED <<startOf, query>> /\ query # NoQuery
    BY <1>5 DEF ReadFunnelRows, NoQuery
  <2>2. QueryIsTyped'
    BY <2>1 DEF QueryIsTyped
  <2> QED BY <1>5, <2>1, <2>2, FunnelStep
<1>6. CASE ReadSecondSummary
  <2>1. UNCHANGED <<startOf, query>> /\ query # NoQuery
    BY <1>6 DEF ReadSecondSummary, NoQuery
  <2>2. QueryIsTyped'
    BY <2>1 DEF QueryIsTyped
  <2> QED BY <1>6, <2>1, <2>2, SummaryStep
<1>7. CASE EndQuery
  BY <1>7 DEF EndQuery, QueryIsTyped, AnswersAreExact, Answered
<1>8. ASSUME NEW s \in SpanIds, NEW t \in 0 .. LastStart, UpsertRow(s, t) PROVE AnalyticsInv'
  <2>1. startOf' \in [SpanIds -> {Absent} \cup 0 .. LastStart]
    BY <1>8 DEF UpsertRow
  <2>2. UNCHANGED <<query, answer>> /\ ~Answered
    BY <1>8 DEF UpsertRow
  <2> QED BY <2>1, <2>2 DEF QueryIsTyped, AnswersAreExact, Answered
<1> QED BY <1>1, <1>2, <1>3, <1>4, <1>5, <1>6, <1>7, <1>8 DEF AnalyticsNext

(* A walk through any of the lists, over any number of rows and whatever   *)
(* comes, moves and leaves between its pages, misses no row that stayed    *)
(* and shows none twice that did not move; and a funnel, a series or a     *)
(* summary of any log counts each trace or span of its range exactly once. *)
THEOREM ReadsStayExact == DataSpec => []ReadsAreExact
  <1>1. DataInit => PagesInv /\ AnalyticsInv
    BY PagesBegin, AnalyticsBegin DEF DataInit
  <1>2. PagesInv /\ AnalyticsInv /\ [DataNext]_<<part, dataVars>> => PagesInv' /\ AnalyticsInv'
    BY PartsMove, PagesStep, AnalyticsStep
  <1>3. PagesInv /\ AnalyticsInv => ReadsAreExact
    BY PagesShow DEF AnalyticsInv, ReadsAreExact
  <1>4. QED
    BY <1>1, <1>2, <1>3, PTL DEF DataSpec

-------------------------------------------------------------------------------
(* Exports of OpenTelemetry                                                *)

(* The spans of an export, each at its place.                              *)
IsExport(spans) == DOMAIN spans \subseteq Nat /\ Range(spans) \subseteq TelemetrySpans
LEMMA ExportsAre == \A spans \in Exports : IsExport(spans)
BY DEF Exports, IsExport, Range

LEMMA PlacesInExport ==
  ASSUME NEW spans, IsExport(spans), NEW s \in Range(spans)
  PROVE  PlaceIn(spans, s) \in Nat /\ spans[PlaceIn(spans, s)] = s
<1>1. \E i \in DOMAIN spans : spans[i] = s
  BY DEF Range
<1>2. PlaceIn(spans, s) \in DOMAIN spans /\ spans[PlaceIn(spans, s)] = s
  BY <1>1 DEF PlaceIn
<1> QED BY <1>2 DEF IsExport

LEMMA FirstIsFirst ==
  ASSUME NEW spans, IsExport(spans), NEW S, S \subseteq Range(spans), S # {}
  PROVE  /\ FirstIn(spans, S) \in S
         /\ \A t \in S : PlaceIn(spans, FirstIn(spans, S)) <= PlaceIn(spans, t)
<1> DEFINE N == {PlaceIn(spans, t) : t \in S}
<1>1. \A t \in S : PlaceIn(spans, t) \in Nat
  BY PlacesInExport
<1>2. PICK n \in N : \A m \in N : n <= m
  <2>1. N \in SUBSET Nat /\ N # {}
    BY <1>1
  <2> HIDE DEF N
  <2> QED BY <2>1, LeastOfSome
<1>3. \E s \in S : \A t \in S : PlaceIn(spans, s) <= PlaceIn(spans, t)
  BY <1>2
<1> QED BY <1>3 DEF FirstIn

LEMMA SameFirst ==
  ASSUME NEW x, IsExport(x), NEW y, IsExport(y), NEW S, S # {}, S \subseteq Range(x), S \subseteq Range(y),
         \A a, b \in S : PlaceIn(x, a) <= PlaceIn(x, b) <=> PlaceIn(y, a) <= PlaceIn(y, b)
  PROVE  FirstIn(x, S) = FirstIn(y, S)
<1>1. PICK a \in S : a = FirstIn(x, S) /\ \A t \in S : PlaceIn(x, a) <= PlaceIn(x, t)
  BY FirstIsFirst
<1>2. PICK b \in S : b = FirstIn(y, S) /\ \A t \in S : PlaceIn(y, b) <= PlaceIn(y, t)
  BY FirstIsFirst
<1>3. PlaceIn(x, a) <= PlaceIn(x, b) /\ PlaceIn(x, b) <= PlaceIn(x, a)
  BY <1>1, <1>2
<1>4. PlaceIn(x, a) \in Nat /\ PlaceIn(x, b) \in Nat /\ x[PlaceIn(x, a)] = a /\ x[PlaceIn(x, b)] = b
  BY <1>1, <1>2, PlacesInExport
<1>5. PlaceIn(x, a) = PlaceIn(x, b)
  BY <1>3, <1>4
<1>6. a = b
  BY <1>4, <1>5
<1> QED BY <1>1, <1>2, <1>6

(* Exports that are composed alike.                                        *)
Alike(x, y) ==
  /\ IsExport(x) /\ IsExport(y)
  /\ \A s \in Range(x), t \in Range(y) : Related(s, t) => Kin(x, s) = Kin(y, t)
KinOf(spans, s) == {t \in Range(spans) : \E u \in Range(spans) : Related(s, u) /\ Related(u, t)}

LEMMA RelatedSpans ==
  /\ \A s : Related(s, s)
  /\ \A s, t : Related(s, t) => Related(t, s)
  /\ \A s, t : OtlpSpan[s].trace = OtlpSpan[t].trace => Related(s, t)
  /\ \A s, t, k : k \in Names(s) /\ k \in Names(t) => Related(s, t)
BY DEF Related, Names

LEMMA KinIsSame ==
  ASSUME NEW x, NEW y, Alike(x, y), NEW s \in Range(x), NEW t \in Range(y), Related(s, t)
  PROVE  /\ KinOf(x, s) = KinOf(y, t) /\ KinOf(x, s) \subseteq Range(x) /\ KinOf(x, s) \subseteq Range(y)
         /\ \A a, b \in KinOf(x, s) : PlaceIn(x, a) <= PlaceIn(x, b) <=> PlaceIn(y, a) <= PlaceIn(y, b)
<1>1. Kin(x, s) = Kin(y, t) /\ IsExport(x) /\ IsExport(y)
  BY DEF Alike
<1>2. /\ \A a, b : <<a, b>> \in Kin(x, s) <=> a \in KinOf(x, s) /\ b \in KinOf(x, s) /\ PlaceIn(x, a) <= PlaceIn(x, b)
      /\ \A a, b : <<a, b>> \in Kin(y, t) <=> a \in KinOf(y, t) /\ b \in KinOf(y, t) /\ PlaceIn(y, a) <= PlaceIn(y, b)
  BY DEF Kin, KinOf
<1>3. KinOf(x, s) \subseteq Range(x) /\ KinOf(y, t) \subseteq Range(y)
  BY DEF KinOf
<1>4. /\ \A a \in KinOf(x, s) : PlaceIn(x, a) \in Nat
      /\ \A a \in KinOf(y, t) : PlaceIn(y, a) \in Nat
  BY <1>1, <1>3, PlacesInExport
<1>5. \A a : a \in KinOf(x, s) <=> <<a, a>> \in Kin(x, s)
  BY <1>2, <1>4
<1>6. \A a : a \in KinOf(y, t) <=> <<a, a>> \in Kin(y, t)
  BY <1>2, <1>4
<1>7. KinOf(x, s) = KinOf(y, t)
  <2>1. \A a : a \in KinOf(x, s) <=> a \in KinOf(y, t)
    BY <1>1, <1>5, <1>6
  <2> HIDE DEF KinOf
  <2> QED BY <2>1
<1>8. \A a, b \in KinOf(x, s) : PlaceIn(x, a) <= PlaceIn(x, b) <=> PlaceIn(y, a) <= PlaceIn(y, b)
  BY <1>1, <1>2, <1>7
<1> QED BY <1>3, <1>7, <1>8

LEMMA FirstOfKin ==
  ASSUME NEW x, NEW y, Alike(x, y), NEW s \in Range(x), NEW t \in Range(y), Related(s, t),
         NEW S, S # {}, S \subseteq KinOf(x, s)
  PROVE  FirstIn(x, S) = FirstIn(y, S) /\ FirstIn(x, S) \in S
<1>1. /\ S \subseteq Range(x) /\ S \subseteq Range(y)
      /\ \A a, b \in S : PlaceIn(x, a) <= PlaceIn(x, b) <=> PlaceIn(y, a) <= PlaceIn(y, b)
  BY KinIsSame
<1>2. IsExport(x) /\ IsExport(y)
  BY DEF Alike
<1> QED BY <1>1, <1>2, SameFirst, FirstIsFirst

(* A session's key is a name of a span in it, or of its trace.             *)
WithKey(spans, t) == {s \in Range(spans) : OtlpSpan[s].trace = t /\ UsableKey(s)}
LEMMA TraceKeyIs ==
  \A spans, t : TraceKey(spans, t) = IF WithKey(spans, t) = {} THEN t ELSE OtlpSpan[FirstIn(spans, WithKey(spans, t))].key
BY DEF TraceKey, WithKey

LEMMA KeyIsNamed ==
  ASSUME NEW x, IsExport(x), NEW r \in Range(x)
  PROVE  \E u \in Range(x) : /\ SessionKey(x, r) \in Names(u) /\ Related(u, r)
                             /\ OtlpSpan[r].fault = "none" => OtlpSpan[u].fault # "key"
<1> DEFINE t == OtlpSpan[r].trace
           with == WithKey(x, t)
<1>1. CASE OtlpSpan[r].key # NoKey
  <2>1. SessionKey(x, r) \in Names(r)
    BY <1>1 DEF SessionKey, Names
  <2> QED BY <2>1, RelatedSpans
<1>2. CASE OtlpSpan[r].key = NoKey /\ with = {}
  <2>1. SessionKey(x, r) = t
    BY <1>2, TraceKeyIs DEF SessionKey
  <2>2. SessionKey(x, r) \in Names(r)
    BY <2>1 DEF Names
  <2> QED BY <2>2, RelatedSpans
<1>3. CASE OtlpSpan[r].key = NoKey /\ with # {}
  <2>1. with \subseteq Range(x)
    BY DEF WithKey
  <2> DEFINE u == FirstIn(x, with)
  <2>2. u \in with
    <3> HIDE DEF with
    <3> QED BY <1>3, <2>1, FirstIsFirst
  <2>3. SessionKey(x, r) = OtlpSpan[u].key
    BY <1>3, TraceKeyIs DEF SessionKey
  <2> HIDE DEF u
  <2>4. u \in Range(x) /\ OtlpSpan[u].trace = t /\ UsableKey(u)
    BY <2>2 DEF WithKey
  <2>5. SessionKey(x, r) \in Names(u) /\ Related(u, r) /\ OtlpSpan[u].fault # "key"
    BY <2>3, <2>4, RelatedSpans DEF Names, UsableKey
  <2> QED BY <2>4, <2>5
<1> QED BY <1>1, <1>2, <1>3

LEMMA SameKey ==
  ASSUME NEW x, NEW y, Alike(x, y), NEW r \in Range(x), r \in Range(y)
  PROVE  SessionKey(x, r) = SessionKey(y, r)
<1> DEFINE t == OtlpSpan[r].trace
<1>1. Related(r, r)
  BY RelatedSpans
<1>2. KinOf(x, r) = KinOf(y, r)
  BY <1>1, KinIsSame
<1>3. WithKey(x, t) = {s \in KinOf(x, r) : OtlpSpan[s].trace = t /\ UsableKey(s)}
  BY RelatedSpans DEF WithKey, KinOf
<1>4. WithKey(y, t) = {s \in KinOf(y, r) : OtlpSpan[s].trace = t /\ UsableKey(s)}
  BY RelatedSpans DEF WithKey, KinOf
<1> DEFINE W == WithKey(x, t)
<1>5. W = WithKey(y, t) /\ W \subseteq KinOf(x, r)
  BY <1>2, <1>3, <1>4
<1>6. W # {} => FirstIn(x, W) = FirstIn(y, W)
  <2> HIDE DEF W
  <2> QED BY <1>1, <1>5, FirstOfKin
<1>7. TraceKey(x, t) = TraceKey(y, t)
  BY <1>5, <1>6, TraceKeyIs
<1> QED BY <1>7 DEF SessionKey

(* The events of an export, by their class.                                *)
SpanStarts(x, s) ==
  [EventOf("span-start", s, OtlpSpan[s].from, SessionKey(x, s)) EXCEPT !.agent = OtlpSpan[s].service,
     !.parents = {<<"span-start", p, OtlpSpan[p].from>> :
                    p \in {p \in Scanned(x) : p = OtlpSpan[s].parent /\ OtlpSpan[p].trace = OtlpSpan[s].trace}}]
SpanEnds(x, tier, s) ==
  [EventOf("span-end", s, OtlpSpan[s].to, SessionKey(x, s)) EXCEPT !.kept = applyTier(tier), !.agent = OtlpSpan[s].service]
OfTrace(x, t) == {s \in AcceptedSpans(x) : OtlpSpan[s].trace = t}
TraceStarts(x, t) == EventOf("trace-start", t, From(OfTrace(x, t)), SessionKey(x, FirstIn(x, OfTrace(x, t))))
TraceEnds(x, t) ==
  [EventOf("trace-end", t, To(OfTrace(x, t)), SessionKey(x, FirstIn(x, OfTrace(x, t)))) EXCEPT
     !.tokens = SumFunctionOnSet(TokensOf, OfTrace(x, t))]
OfSession(x, key) == {s \in AcceptedSpans(x) : SessionKey(x, s) = key}

LEMMA EventsByClass ==
  ASSUME NEW x, NEW tier, NEW e
  PROVE  e \in convertOtlpExport(x, tier) <=>
           \/ \E s \in AcceptedSpans(x) : e = SpanStarts(x, s) \/ e = SpanEnds(x, tier, s)
           \/ \E s \in AcceptedSpans(x) : e = TraceStarts(x, OtlpSpan[s].trace) \/ e = TraceEnds(x, OtlpSpan[s].trace)
           \/ \E s \in AcceptedSpans(x) : e = SessionEvent(x, SessionKey(x, s))
<1>1. \A s : e \in SpanEvents(x, tier, s) <=> e = SpanStarts(x, s) \/ e = SpanEnds(x, tier, s)
  BY DEF SpanEvents, SpanStarts, SpanEnds
<1>2. \A t : e \in TraceEvents(x, t) <=> e = TraceStarts(x, t) \/ e = TraceEnds(x, t)
  BY DEF TraceEvents, TraceStarts, TraceEnds, OfTrace
<1>3. e \in convertOtlpExport(x, tier) <=>
        \/ \E s \in AcceptedSpans(x) : e \in SpanEvents(x, tier, s)
        \/ \E s \in AcceptedSpans(x) : e \in TraceEvents(x, OtlpSpan[s].trace)
        \/ \E s \in AcceptedSpans(x) : e = SessionEvent(x, SessionKey(x, s))
  <2> DEFINE S == AcceptedSpans(x)
             A == UNION {SpanEvents(x, tier, s) : s \in S}
             T == {OtlpSpan[s].trace : s \in S}
             B == UNION {TraceEvents(x, t) : t \in T}
             K == {SessionKey(x, s) : s \in S}
             C == {SessionEvent(x, k) : k \in K}
  <2>1. convertOtlpExport(x, tier) = A \cup B \cup C
    BY DEF convertOtlpExport
  <2> HIDE DEF S
  <2>2. e \in A <=> \E s \in S : e \in SpanEvents(x, tier, s)
    OBVIOUS
  <2>3. e \in B <=> \E s \in S : e \in TraceEvents(x, OtlpSpan[s].trace)
    <3>1. e \in B <=> \E t \in T : e \in TraceEvents(x, t)
      <4> HIDE DEF T
      <4> QED OBVIOUS
    <3> HIDE DEF B
    <3> QED BY <3>1
  <2>4. e \in C <=> \E s \in S : e = SessionEvent(x, SessionKey(x, s))
    OBVIOUS
  <2> HIDE DEF A, B, C
  <2> QED BY <2>1, <2>2, <2>3, <2>4 DEF S
<1> QED BY <1>1, <1>2, <1>3

LEMMA SameSpanEvents ==
  ASSUME NEW x, NEW y, Alike(x, y), NEW tier, NEW s \in AcceptedSpans(x), s \in AcceptedSpans(y)
  PROVE  SpanStarts(x, s) = SpanStarts(y, s) /\ SpanEnds(x, tier, s) = SpanEnds(y, tier, s)
<1>1. s \in Range(x) /\ s \in Range(y)
  BY DEF AcceptedSpans
<1>2. SessionKey(x, s) = SessionKey(y, s)
  BY <1>1, SameKey
<1>3. KinOf(x, s) = KinOf(y, s)
  BY <1>1, RelatedSpans, KinIsSame
<1>4. \A z : s \in Range(z) =>
        {p \in Scanned(z) : p = OtlpSpan[s].parent /\ OtlpSpan[p].trace = OtlpSpan[s].trace}
          = {p \in KinOf(z, s) : OtlpSpan[p].fault # "ids" /\ p = OtlpSpan[s].parent /\ OtlpSpan[p].trace = OtlpSpan[s].trace}
  BY RelatedSpans DEF Scanned, KinOf
<1>5. {p \in Scanned(x) : p = OtlpSpan[s].parent /\ OtlpSpan[p].trace = OtlpSpan[s].trace}
        = {p \in Scanned(y) : p = OtlpSpan[s].parent /\ OtlpSpan[p].trace = OtlpSpan[s].trace}
  BY <1>1, <1>3, <1>4
<1> QED BY <1>2, <1>5 DEF SpanStarts, SpanEnds

LEMMA SameTraceEvents ==
  ASSUME NEW x, NEW y, Alike(x, y), NEW t, NEW r \in AcceptedSpans(x), OtlpSpan[r].trace = t,
         NEW s \in AcceptedSpans(y), OtlpSpan[s].trace = t
  PROVE  TraceStarts(x, t) = TraceStarts(y, t) /\ TraceEnds(x, t) = TraceEnds(y, t)
<1>1. r \in Range(x) /\ s \in Range(y) /\ Related(r, s)
  BY RelatedSpans DEF AcceptedSpans
<1>2. KinOf(x, r) = KinOf(y, s)
  BY <1>1, KinIsSame
<1>3. OfTrace(x, t) = {p \in KinOf(x, r) : ~Rejected(p) /\ OtlpSpan[p].trace = t}
  BY <1>1, RelatedSpans DEF OfTrace, AcceptedSpans, KinOf
<1>4. OfTrace(y, t) = {p \in KinOf(y, s) : ~Rejected(p) /\ OtlpSpan[p].trace = t}
  BY <1>1, RelatedSpans DEF OfTrace, AcceptedSpans, KinOf
<1> DEFINE S == OfTrace(x, t)
<1>5. S = OfTrace(y, t) /\ S \subseteq KinOf(x, r)
  BY <1>2, <1>3, <1>4
<1>6. S # {}
  BY DEF OfTrace
<1>7. FirstIn(x, S) = FirstIn(y, S) /\ FirstIn(x, S) \in S
  <2> HIDE DEF S
  <2> QED BY <1>1, <1>5, <1>6, FirstOfKin
<1>8. S \subseteq Range(x) /\ S \subseteq Range(y)
  BY <1>5 DEF OfTrace, AcceptedSpans
<1> HIDE DEF S
<1>9. SessionKey(x, FirstIn(x, S)) = SessionKey(y, FirstIn(y, S))
  BY <1>7, <1>8, SameKey
<1> QED BY <1>5, <1>9 DEF S, TraceStarts, TraceEnds

LEMMA SameSessionEvent ==
  ASSUME NEW x, NEW y, Alike(x, y), NEW k, NEW r \in AcceptedSpans(x), SessionKey(x, r) = k,
         NEW s \in AcceptedSpans(y), SessionKey(y, s) = k
  PROVE  SessionEvent(x, k) = SessionEvent(y, k)
<1>1. r \in Range(x) /\ s \in Range(y) /\ IsExport(x) /\ IsExport(y)
  BY DEF AcceptedSpans, Alike
<1>2. PICK u \in Range(x) : k \in Names(u) /\ Related(u, r)
  BY <1>1, KeyIsNamed
<1>3. PICK v \in Range(y) : k \in Names(v) /\ Related(v, s)
  BY <1>1, KeyIsNamed
<1>4. Related(u, v)
  BY <1>2, <1>3, RelatedSpans
<1>5. KinOf(x, u) = KinOf(y, v)
  BY <1>4, KinIsSame
<1>6. \A p \in OfSession(x, k) : p \in KinOf(x, u)
  <2> SUFFICES ASSUME NEW p \in OfSession(x, k) PROVE p \in KinOf(x, u)
    OBVIOUS
  <2>1. p \in Range(x) /\ SessionKey(x, p) = k
    BY DEF OfSession, AcceptedSpans
  <2>2. PICK w \in Range(x) : k \in Names(w) /\ Related(w, p)
    BY <2>1, <1>1, KeyIsNamed
  <2>3. Related(u, w)
    BY <1>2, <2>2, RelatedSpans
  <2> QED BY <2>1, <2>2, <2>3 DEF KinOf
<1>7. \A p \in OfSession(y, k) : p \in KinOf(y, v)
  <2> SUFFICES ASSUME NEW p \in OfSession(y, k) PROVE p \in KinOf(y, v)
    OBVIOUS
  <2>1. p \in Range(y) /\ SessionKey(y, p) = k
    BY DEF OfSession, AcceptedSpans
  <2>2. PICK w \in Range(y) : k \in Names(w) /\ Related(w, p)
    BY <2>1, <1>1, KeyIsNamed
  <2>3. Related(v, w)
    BY <1>3, <2>2, RelatedSpans
  <2> QED BY <2>1, <2>2, <2>3 DEF KinOf
<1>8. KinOf(x, u) \subseteq Range(x) /\ KinOf(y, v) \subseteq Range(y)
  BY DEF KinOf
<1>9. OfSession(x, k) = OfSession(y, k)
  <2>1. \A p \in KinOf(x, u) : SessionKey(x, p) = SessionKey(y, p) /\ p \in Range(x) /\ p \in Range(y)
    BY <1>5, <1>8, SameKey
  <2>2. \A p : p \in OfSession(x, k) <=> p \in OfSession(y, k)
    BY <2>1, <1>5, <1>6, <1>7 DEF OfSession, AcceptedSpans
  <2> HIDE DEF OfSession
  <2> QED BY <2>2 DEF OfSession
<1> DEFINE named == {p \in OfSession(x, k) : OtlpSpan[p].service # NoKey}
<1>10. named \subseteq KinOf(x, u)
  BY <1>6
<1>11. named # {} => FirstIn(x, named) = FirstIn(y, named)
  <2> HIDE DEF named
  <2> QED BY <1>4, <1>10, FirstOfKin
<1>12. \A z : SessionEvent(z, k) = [EventOf("session-start", k, From(OfSession(z, k)), k) EXCEPT
                 !.agent = IF {p \in OfSession(z, k) : OtlpSpan[p].service # NoKey} = {} THEN NoKey
                           ELSE OtlpSpan[FirstIn(z, {p \in OfSession(z, k) : OtlpSpan[p].service # NoKey})].service]
  BY DEF SessionEvent, OfSession
<1>13. SessionEvent(x, k) = [EventOf("session-start", k, From(OfSession(x, k)), k) EXCEPT
                 !.agent = IF named = {} THEN NoKey ELSE OtlpSpan[FirstIn(x, named)].service]
  BY <1>12
<1>14. SessionEvent(y, k) = [EventOf("session-start", k, From(OfSession(x, k)), k) EXCEPT
                 !.agent = IF named = {} THEN NoKey ELSE OtlpSpan[FirstIn(y, named)].service]
  BY <1>9, <1>12
<1> HIDE DEF named
<1> QED BY <1>11, <1>13, <1>14

IsSpanStart(x, d, s) == /\ d = SpanStarts(x, s) /\ d.class = "span-start" /\ d.of = s /\ d.at = OtlpSpan[s].from
                        /\ d.session = SessionKey(x, s) /\ d.kept = {}
IsSpanEnd(x, tier, d, s) == /\ d = SpanEnds(x, tier, s) /\ d.class = "span-end" /\ d.of = s /\ d.at = OtlpSpan[s].to
                            /\ d.session = SessionKey(x, s) /\ d.kept = applyTier(tier)
IsTraceEvent(x, d, t) == /\ \/ d = TraceStarts(x, t) /\ d.class = "trace-start"
                            \/ d = TraceEnds(x, t) /\ d.class = "trace-end"
                         /\ d.of = t /\ d.session = SessionKey(x, FirstIn(x, OfTrace(x, t))) /\ d.kept = {}
IsSessionEvent(x, d, k) == /\ d = SessionEvent(x, k) /\ d.class = "session-start"
                           /\ d.of = k /\ d.session = k /\ d.kept = {}

LEMMA EventForms ==
  ASSUME NEW x, NEW tier, NEW d \in convertOtlpExport(x, tier)
  PROVE  \/ \E s \in AcceptedSpans(x) : IsSpanStart(x, d, s)
         \/ \E s \in AcceptedSpans(x) : IsSpanEnd(x, tier, d, s)
         \/ \E s \in AcceptedSpans(x) : IsTraceEvent(x, d, OtlpSpan[s].trace)
         \/ \E s \in AcceptedSpans(x) : IsSessionEvent(x, d, SessionKey(x, s))
<1>1. \A s : IsSpanStart(x, SpanStarts(x, s), s)
  BY DEF SpanStarts, EventOf, IsSpanStart
<1>2. \A s : IsSpanEnd(x, tier, SpanEnds(x, tier, s), s)
  BY DEF SpanEnds, EventOf, IsSpanEnd
<1>3. \A t : IsTraceEvent(x, TraceStarts(x, t), t)
  BY DEF TraceStarts, EventOf, IsTraceEvent
<1>4. \A t : IsTraceEvent(x, TraceEnds(x, t), t)
  BY DEF TraceEnds, EventOf, IsTraceEvent
<1>5. \A k : IsSessionEvent(x, SessionEvent(x, k), k)
  BY DEF SessionEvent, EventOf, IsSessionEvent
<1>6. \/ \E s \in AcceptedSpans(x) : d = SpanStarts(x, s) \/ d = SpanEnds(x, tier, s)
      \/ \E s \in AcceptedSpans(x) : d = TraceStarts(x, OtlpSpan[s].trace) \/ d = TraceEnds(x, OtlpSpan[s].trace)
      \/ \E s \in AcceptedSpans(x) : d = SessionEvent(x, SessionKey(x, s))
  BY EventsByClass
<1> QED BY ONLY <1>1, <1>2, <1>3, <1>4, <1>5, <1>6

(* The ids of an export tell its events apart, and an export that is       *)
(* composed alike has the same event for each id they share.               *)
SameOf(x, y, tier) ==
  /\ \A s : s \in AcceptedSpans(x) /\ s \in AcceptedSpans(y) =>
       SpanStarts(x, s) = SpanStarts(y, s) /\ SpanEnds(x, tier, s) = SpanEnds(y, tier, s)
  /\ \A r \in AcceptedSpans(x), s \in AcceptedSpans(y) : \A t : OtlpSpan[r].trace = t /\ OtlpSpan[s].trace = t =>
       TraceStarts(x, t) = TraceStarts(y, t) /\ TraceEnds(x, t) = TraceEnds(y, t)
  /\ \A r \in AcceptedSpans(x), s \in AcceptedSpans(y) : \A k : SessionKey(x, r) = k /\ SessionKey(y, s) = k =>
       SessionEvent(x, k) = SessionEvent(y, k)
LEMMA AlikeIsSame ==
  ASSUME NEW x, NEW y, Alike(x, y), NEW tier
  PROVE  SameOf(x, y, tier)
BY SameSpanEvents, SameTraceEvents, SameSessionEvent DEF SameOf

LEMMA SameEvents ==
  ASSUME NEW x, NEW y, NEW tier, SameOf(x, y, tier),
         NEW d \in convertOtlpExport(x, tier), NEW f \in convertOtlpExport(y, tier), IdOf(d) = IdOf(f)
  PROVE  d = f
<1>1. d.class = f.class /\ d.of = f.of
  BY DEF IdOf
<1> DEFINE Forms(z, e) ==
  \/ \E s \in AcceptedSpans(z) : IsSpanStart(z, e, s)
  \/ \E s \in AcceptedSpans(z) : IsSpanEnd(z, tier, e, s)
  \/ \E s \in AcceptedSpans(z) : IsTraceEvent(z, e, OtlpSpan[s].trace)
  \/ \E s \in AcceptedSpans(z) : IsSessionEvent(z, e, SessionKey(z, s))
<1>2. Forms(x, d)
  BY EventForms
<1>3. Forms(y, f)
  BY EventForms
<1>4. CASE \E s \in AcceptedSpans(x) : IsSpanStart(x, d, s)
  <2>1. PICK s \in AcceptedSpans(x) : IsSpanStart(x, d, s)
    BY <1>4
  <2>2. \E r \in AcceptedSpans(y) : IsSpanStart(y, f, r)
    BY <2>1, <1>1, <1>3 DEF IsSpanStart, IsSpanEnd, IsTraceEvent, IsSessionEvent
  <2> QED BY <2>1, <2>2, <1>1 DEF IsSpanStart, SameOf
<1>5. CASE \E s \in AcceptedSpans(x) : IsSpanEnd(x, tier, d, s)
  <2>1. PICK s \in AcceptedSpans(x) : IsSpanEnd(x, tier, d, s)
    BY <1>5
  <2>2. \E r \in AcceptedSpans(y) : IsSpanEnd(y, tier, f, r)
    BY <2>1, <1>1, <1>3 DEF IsSpanStart, IsSpanEnd, IsTraceEvent, IsSessionEvent
  <2> QED BY <2>1, <2>2, <1>1 DEF IsSpanEnd, SameOf
<1>6. CASE \E s \in AcceptedSpans(x) : IsTraceEvent(x, d, OtlpSpan[s].trace)
  <2>1. PICK s \in AcceptedSpans(x) : IsTraceEvent(x, d, OtlpSpan[s].trace)
    BY <1>6
  <2>2. \E r \in AcceptedSpans(y) : IsTraceEvent(y, f, OtlpSpan[r].trace)
    BY <2>1, <1>1, <1>3 DEF IsSpanStart, IsSpanEnd, IsTraceEvent, IsSessionEvent
  <2>3. PICK r \in AcceptedSpans(y) : IsTraceEvent(y, f, OtlpSpan[r].trace)
    BY <2>2
  <2>4. OtlpSpan[r].trace = OtlpSpan[s].trace
    BY <1>1, <2>1, <2>3 DEF IsTraceEvent
  <2>5. /\ TraceStarts(x, OtlpSpan[s].trace) = TraceStarts(y, OtlpSpan[s].trace)
        /\ TraceEnds(x, OtlpSpan[s].trace) = TraceEnds(y, OtlpSpan[s].trace)
    BY <2>4 DEF SameOf
  <2> QED BY <1>1, <2>1, <2>3, <2>4, <2>5 DEF IsTraceEvent
<1>7. CASE \E s \in AcceptedSpans(x) : IsSessionEvent(x, d, SessionKey(x, s))
  <2>1. PICK s \in AcceptedSpans(x) : IsSessionEvent(x, d, SessionKey(x, s))
    BY <1>7
  <2>2. \E r \in AcceptedSpans(y) : IsSessionEvent(y, f, SessionKey(y, r))
    BY <2>1, <1>1, <1>3 DEF IsSpanStart, IsSpanEnd, IsTraceEvent, IsSessionEvent
  <2>3. PICK r \in AcceptedSpans(y) : IsSessionEvent(y, f, SessionKey(y, r))
    BY <2>2
  <2>4. SessionKey(y, r) = SessionKey(x, s)
    BY <1>1, <2>1, <2>3 DEF IsSessionEvent
  <2>5. SessionEvent(x, SessionKey(x, s)) = SessionEvent(y, SessionKey(x, s))
    BY <2>4 DEF SameOf
  <2> QED BY <2>1, <2>3, <2>4, <2>5 DEF IsSessionEvent
<1> QED BY <1>2, <1>4, <1>5, <1>6, <1>7

(* What is appended of an event: with its own instant.                     *)
Stamped(d) == [d EXCEPT !.observed = d.at]
LEMMA StampKeepsFields ==
  ASSUME NEW x, NEW tier, NEW d \in convertOtlpExport(x, tier)
  PROVE  /\ Stamped(d).class = d.class /\ Stamped(d).of = d.of /\ Stamped(d).at = d.at
         /\ Stamped(d).session = d.session /\ Stamped(d).kept = d.kept
         /\ IdOf(Stamped(d)) = IdOf(d)
<1> DEFINE Kept(e) == /\ Stamped(e).class = e.class /\ Stamped(e).of = e.of /\ Stamped(e).at = e.at
                      /\ Stamped(e).session = e.session /\ Stamped(e).kept = e.kept
<1>1. \A s : Kept(SpanStarts(x, s))
  BY DEF Stamped, SpanStarts, EventOf
<1>2. \A s : Kept(SpanEnds(x, tier, s))
  BY DEF Stamped, SpanEnds, EventOf
<1>3. \A t : Kept(TraceStarts(x, t))
  BY DEF Stamped, TraceStarts, EventOf
<1>4. \A t : Kept(TraceEnds(x, t))
  BY DEF Stamped, TraceEnds, EventOf
<1>5. \A k : Kept(SessionEvent(x, k))
  BY DEF Stamped, SessionEvent, EventOf
<1> HIDE DEF Kept
<1>6. Kept(d)
  <2>1. \/ \E s : d = SpanStarts(x, s) \/ d = SpanEnds(x, tier, s)
        \/ \E t : d = TraceStarts(x, t) \/ d = TraceEnds(x, t)
        \/ \E k : d = SessionEvent(x, k)
    BY EventsByClass
  <2> QED BY ONLY <1>1, <1>2, <1>3, <1>4, <1>5, <2>1
<1> QED BY <1>6 DEF Kept, IdOf

Landed(x, tier) == Conversion[x, tier]
LEMMA ConversionIs ==
  \A x \in Exports, tier \in Tiers :
    \A e : e \in Landed(x, tier) <=> \E d \in convertOtlpExport(x, tier) : e = Stamped(d)
<1> SUFFICES ASSUME NEW x \in Exports, NEW tier \in Tiers
             PROVE  \A e : e \in Landed(x, tier) <=> \E d \in convertOtlpExport(x, tier) : e = Stamped(d)
  OBVIOUS
<1>1. Landed(x, tier) = Observed(convertOtlpExport(x, tier))
  BY DEF Landed, Conversion
<1> QED BY <1>1 DEF Observed, Stamped

LEMMA FullTier == \A tier : "body" \in applyTier(tier) => tier = "full"
BY DEF applyTier

(* Every event of an export: of a span, unless it is of a trace or of a    *)
(* session; in a session that a span with no bad key has named.            *)
LEMMA EventsAreSound ==
  ASSUME NEW x \in Exports, NEW tier \in Tiers, NEW e \in Landed(x, tier)
  PROVE  /\ e.class \in {"span-start", "span-end"} => e.of \in AcceptedSpans(x)
         /\ \E t \in TelemetrySpans : OtlpSpan[t].fault # "key" /\ e.session \in Names(t)
         /\ "body" \in e.kept => tier = "full" /\ e.of \in Range(x)
<1>1. PICK d \in convertOtlpExport(x, tier) : e = Stamped(d)
  BY ConversionIs
<1>2. /\ e.class = d.class /\ e.of = d.of /\ e.session = d.session /\ e.kept = d.kept
  BY <1>1, StampKeepsFields
<1>3. IsExport(x) /\ AcceptedSpans(x) \subseteq Range(x) /\ \A s \in AcceptedSpans(x) : OtlpSpan[s].fault = "none"
  BY ExportsAre DEF AcceptedSpans, Rejected
<1>8. \/ \E s \in AcceptedSpans(x) : IsSpanStart(x, d, s)
      \/ \E s \in AcceptedSpans(x) : IsSpanEnd(x, tier, d, s)
      \/ \E s \in AcceptedSpans(x) : IsTraceEvent(x, d, OtlpSpan[s].trace)
      \/ \E s \in AcceptedSpans(x) : IsSessionEvent(x, d, SessionKey(x, s))
  BY EventForms
<1>4. e.class \in {"span-start", "span-end"} => e.of \in AcceptedSpans(x)
  BY ONLY <1>2, <1>8 DEF IsSpanStart, IsSpanEnd, IsTraceEvent, IsSessionEvent
<1>5. \E s \in AcceptedSpans(x) : e.session = SessionKey(x, s)
  <2>1. \A s \in AcceptedSpans(x) : FirstIn(x, OfTrace(x, OtlpSpan[s].trace)) \in AcceptedSpans(x)
    <3> SUFFICES ASSUME NEW s \in AcceptedSpans(x)
                 PROVE  FirstIn(x, OfTrace(x, OtlpSpan[s].trace)) \in AcceptedSpans(x)
      OBVIOUS
    <3> DEFINE S == OfTrace(x, OtlpSpan[s].trace)
    <3>1. S \subseteq AcceptedSpans(x) /\ S \subseteq Range(x) /\ S # {}
      BY <1>3 DEF OfTrace
    <3>2. FirstIn(x, S) \in S
      <4> HIDE DEF S
      <4> QED BY <1>3, <3>1, FirstIsFirst
    <3> QED BY <3>1, <3>2
  <2> QED BY ONLY <1>2, <1>8, <2>1 DEF IsSpanStart, IsSpanEnd, IsTraceEvent, IsSessionEvent
<1>6. \E t \in TelemetrySpans : OtlpSpan[t].fault # "key" /\ e.session \in Names(t)
  <2>1. PICK s \in AcceptedSpans(x) : e.session = SessionKey(x, s)
    BY <1>5
  <2>2. PICK u \in Range(x) : SessionKey(x, s) \in Names(u) /\ (OtlpSpan[s].fault = "none" => OtlpSpan[u].fault # "key")
    BY <1>3, <2>1, KeyIsNamed
  <2>3. u \in TelemetrySpans
    BY <1>3, <2>2 DEF IsExport
  <2> QED BY <1>3, <2>1, <2>2, <2>3
<1>7. ASSUME "body" \in e.kept PROVE tier = "full" /\ e.of \in Range(x)
  <2>1. \E s \in AcceptedSpans(x) : IsSpanEnd(x, tier, d, s)
    BY ONLY <1>2, <1>7, <1>8 DEF IsSpanStart, IsSpanEnd, IsTraceEvent, IsSessionEvent
  <2>2. e.of \in AcceptedSpans(x) /\ e.kept = applyTier(tier)
    BY ONLY <1>2, <2>1 DEF IsSpanEnd
  <2>3. tier = "full"
    BY <2>2, <1>7, FullTier
  <2> QED BY <2>2, <2>3, <1>3
<1> QED BY <1>4, <1>6, <1>7

(* An accepted span has its two events, in one session.                    *)
LEMMA SpansHaveEvents ==
  ASSUME NEW x \in Exports, NEW tier \in Tiers, NEW s \in AcceptedSpans(x)
  PROVE  \E e, f \in Landed(x, tier) :
           /\ e.class = "span-start" /\ e.of = s
           /\ f.class = "span-end" /\ f.of = s /\ e.session = f.session
<1> DEFINE e == SpanStarts(x, s)
           f == SpanEnds(x, tier, s)
<1>1. e \in convertOtlpExport(x, tier) /\ f \in convertOtlpExport(x, tier)
  BY EventsByClass
<1>2. e.class = "span-start" /\ e.of = s /\ e.session = SessionKey(x, s)
  BY DEF SpanStarts, EventOf
<1>3. f.class = "span-end" /\ f.of = s /\ f.session = SessionKey(x, s)
  BY DEF SpanEnds, EventOf
<1> HIDE DEF e, f
<1>4. Stamped(e) \in Landed(x, tier) /\ Stamped(f) \in Landed(x, tier)
  BY <1>1, ConversionIs
<1>5. /\ Stamped(e).class = e.class /\ Stamped(e).of = e.of /\ Stamped(e).session = e.session
      /\ Stamped(f).class = f.class /\ Stamped(f).of = f.of /\ Stamped(f).session = f.session
  BY <1>1, StampKeepsFields
<1> QED BY <1>2, <1>3, <1>4, <1>5

(* The start and the end of a span are at instants of its own.             *)
LEMMA SpanEventsAt ==
  ASSUME NEW x \in Exports, NEW tier \in Tiers, NEW e \in Landed(x, tier)
  PROVE  /\ e.class = "span-start" => e.at = OtlpSpan[e.of].from
         /\ e.class = "span-end" => e.at = OtlpSpan[e.of].to
<1>1. PICK d \in convertOtlpExport(x, tier) : e = Stamped(d)
  BY ConversionIs
<1>2. /\ e.class = d.class /\ e.of = d.of /\ e.at = d.at
  BY <1>1, StampKeepsFields
<1>3. \/ \E s \in AcceptedSpans(x) : IsSpanStart(x, d, s)
      \/ \E s \in AcceptedSpans(x) : IsSpanEnd(x, tier, d, s)
      \/ \E s \in AcceptedSpans(x) : IsTraceEvent(x, d, OtlpSpan[s].trace)
      \/ \E s \in AcceptedSpans(x) : IsSessionEvent(x, d, SessionKey(x, s))
  BY EventForms
<1> QED BY ONLY <1>2, <1>3 DEF IsSpanStart, IsSpanEnd, IsTraceEvent, IsSessionEvent

(* An export has events when it has a sound span.                          *)
LEMMA SomeEvents ==
  ASSUME NEW x \in Exports, NEW tier \in Tiers
  PROVE  Landed(x, tier) # {} <=> AcceptedSpans(x) # {}
<1>1. AcceptedSpans(x) # {} => Landed(x, tier) # {}
  BY SpansHaveEvents
<1>2. ASSUME NEW e \in Landed(x, tier) PROVE AcceptedSpans(x) # {}
  <2>1. PICK d \in convertOtlpExport(x, tier) : e = Stamped(d)
    BY ConversionIs
  <2> QED BY EventsByClass
<1> QED BY <1>1, <1>2

(* Two exports under one tier whose conversions share an id share the      *)
(* event, when they are one export or are composed alike.                  *)
LEMMA ConversionsAgree ==
  ASSUME NEW x \in Exports, NEW y \in Exports, NEW tier \in Tiers, x = y \/ Alike(x, y),
         NEW e \in Landed(x, tier), NEW f \in Landed(y, tier), IdOf(e) = IdOf(f)
  PROVE  e = f
<1>1. PICK c \in convertOtlpExport(x, tier) : e = Stamped(c)
  BY ConversionIs
<1>2. PICK d \in convertOtlpExport(y, tier) : f = Stamped(d)
  BY ConversionIs
<1>3. IdOf(c) = IdOf(d)
  BY <1>1, <1>2, StampKeepsFields
<1>4. c = d
  <2>1. x = y => SameOf(x, y, tier)
    BY DEF SameOf
  <2>2. SameOf(x, y, tier)
    BY <2>1, AlikeIsSame
  <2> QED BY <1>3, <2>2, SameEvents
<1> QED BY <1>1, <1>2, <1>4

(* The log has the events of the exports that were accepted, and one event *)
(* for an id; an export that is composed like all the others was accepted  *)
(* unless every span of it was rejected.                                   *)
ExportsInv ==
  /\ \A x \in sent : x.spans \in Exports /\ x.tier \in Tiers /\ x.ok \in BOOLEAN
  /\ \A e : e \in telemetry <=> \E x \in sent : x.ok /\ e \in Landed(x.spans, x.tier)
  /\ \A e, f \in telemetry : IdOf(e) = IdOf(f) => e = f
  /\ \A x \in sent :
       (\A y \in sent : ComposedAlike(x, y)) => (x.ok <=> AcceptedSpans(x.spans) # {})

LEMMA ExportsBegin == OtlpInit => ExportsInv
BY DEF OtlpInit, ExportsInv

LEMMA ExportKeepsLog ==
  ASSUME ExportsInv, NEW spans \in Exports, NEW tier \in Tiers, handleOtlpExport(spans, tier)
  PROVE  ExportsInv'
<1>1. PICK events : events = Landed(spans, tier)
  OBVIOUS
<1>2. PICK ok \in BOOLEAN : ok <=> ~Conflicts(events) /\ events # {}
  OBVIOUS
<1>3. PICK new : new = [spans |-> spans, tier |-> tier, ok |-> ok]
  OBVIOUS
<1>4. new.spans = spans /\ new.tier = tier /\ new.ok = ok
  BY <1>3
<1>5. sent' = sent \cup {new} /\ telemetry' = IF ok THEN telemetry \cup events ELSE telemetry
  BY <1>1, <1>2, <1>3 DEF handleOtlpExport, Landed
<1>6. \A x \in sent : x.spans \in Exports /\ x.tier \in Tiers /\ x.ok \in BOOLEAN
  BY DEF ExportsInv
<1>7. \A x \in sent' : x.spans \in Exports /\ x.tier \in Tiers /\ x.ok \in BOOLEAN
  BY <1>2, <1>4, <1>5, <1>6
<1>8. \A e : e \in telemetry' <=> \E x \in sent' : x.ok /\ e \in Landed(x.spans, x.tier)
  <2>1. \A e : e \in telemetry <=> \E x \in sent : x.ok /\ e \in Landed(x.spans, x.tier)
    BY DEF ExportsInv
  <2>2. \A e : e \in events <=> e \in Landed(new.spans, new.tier)
    BY <1>1, <1>4
  <2>3. \A e : e \in telemetry' <=> e \in telemetry \/ (ok /\ e \in events)
    BY <1>5
  <2> QED BY ONLY <2>1, <2>2, <2>3, <1>4, <1>5
<1>9. \A e, f \in telemetry' : IdOf(e) = IdOf(f) => e = f
  <2> SUFFICES ASSUME NEW e \in telemetry', NEW f \in telemetry', IdOf(e) = IdOf(f)
               PROVE  e = f
    OBVIOUS
  <2>1. CASE e \in telemetry /\ f \in telemetry
    BY <2>1 DEF ExportsInv
  <2>2. CASE e \in events /\ f \in events
    BY <2>2, <1>1, ConversionsAgree
  <2>3. CASE ok /\ e \in events /\ f \in telemetry
    BY <2>3, <1>2 DEF Conflicts
  <2>4. CASE ok /\ e \in telemetry /\ f \in events
    BY <2>4, <1>2 DEF Conflicts
  <2> QED BY <1>5, <2>1, <2>2, <2>3, <2>4
<1>10. ASSUME NEW x \in sent', \A y \in sent' : ComposedAlike(x, y)
       PROVE  x.ok <=> AcceptedSpans(x.spans) # {}
  <2>1. \A y \in sent : ComposedAlike(x, y)
    BY <1>5, <1>10
  <2>2. CASE x \in sent
    BY <2>1, <2>2 DEF ExportsInv
  <2>3. CASE x = new
    <3>1. events # {} <=> AcceptedSpans(spans) # {}
      BY <1>1, SomeEvents
    <3>2. ~Conflicts(events)
      <4> SUFFICES ASSUME NEW e \in events, NEW f \in telemetry, IdOf(e) = IdOf(f)
                   PROVE  e = f
        BY DEF Conflicts
      <4>1. PICK y \in sent : y.ok /\ f \in Landed(y.spans, y.tier)
        BY DEF ExportsInv
      <4>2. ComposedAlike(new, y)
        BY <2>1, <2>3, <4>1
      <4>3. y.tier = tier /\ \A s \in Range(spans), t \in Range(y.spans) : Related(s, t) => Kin(spans, s) = Kin(y.spans, t)
        BY <4>2, <1>4 DEF ComposedAlike
      <4>4. y.spans \in Exports /\ IsExport(spans) /\ IsExport(y.spans)
        BY <1>6, ExportsAre
      <4>5. Alike(spans, y.spans)
        BY <4>3, <4>4 DEF Alike
      <4>6. e \in Landed(spans, tier) /\ f \in Landed(y.spans, tier)
        BY <1>1, <4>1, <4>3
      <4> QED BY <4>4, <4>5, <4>6, ConversionsAgree
    <3> QED BY <1>2, <1>4, <2>3, <3>1, <3>2
  <2> QED BY <1>5, <2>2, <2>3
<1>11. \A x \in sent' : (\A y \in sent' : ComposedAlike(x, y)) => (x.ok <=> AcceptedSpans(x.spans) # {})
  BY <1>10
<1> QED BY <1>7, <1>8, <1>9, <1>11 DEF ExportsInv, IdOf, ComposedAlike, AcceptedSpans

LEMMA ExportsStep == ExportsInv /\ [OtlpNext]_otlpVars => ExportsInv'
<1> SUFFICES ASSUME ExportsInv, [OtlpNext]_otlpVars PROVE ExportsInv'
  OBVIOUS
<1>1. CASE OtlpNext
  BY <1>1, ExportKeepsLog DEF OtlpNext
<1>2. CASE UNCHANGED otlpVars
  <2>1. telemetry' = telemetry /\ sent' = sent
    BY <1>2 DEF otlpVars
  <2> QED BY <2>1 DEF ExportsInv
<1> QED BY <1>1, <1>2

LEMMA ExportsSuffice == ExportsInv => ExportsAreAbsorbed
<1> SUFFICES ASSUME ExportsInv PROVE ExportsAreAbsorbed
  OBVIOUS
<1>1. \A x \in sent : x.spans \in Exports /\ x.tier \in Tiers /\ x.ok \in BOOLEAN
  BY DEF ExportsInv
<1>2. \A e : e \in telemetry <=> \E x \in sent : x.ok /\ e \in Landed(x.spans, x.tier)
  BY DEF ExportsInv
<1>3. ASSUME NEW e \in telemetry
      PROVE  \E x \in sent, spans \in Exports, tier \in Tiers :
               x.ok /\ x.spans = spans /\ x.tier = tier /\ e \in Landed(spans, tier)
  BY <1>1, <1>2
<1>4. ASSUME NEW x \in sent, x.ok, NEW s \in AcceptedSpans(x.spans)
      PROVE  \E e, f \in telemetry :
               Of("span-start", s) = {e} /\ Of("span-end", s) = {f} /\ e.session = f.session
  <2>1. PICK spans \in Exports, tier \in Tiers : x.spans = spans /\ x.tier = tier
    BY <1>1
  <2>2. \E e, f \in Landed(spans, tier) :
          /\ e.class = "span-start" /\ e.of = s
          /\ f.class = "span-end" /\ f.of = s /\ e.session = f.session
    BY <1>4, <2>1, SpansHaveEvents
  <2>3. PICK e \in telemetry, f \in telemetry :
          /\ e.class = "span-start" /\ e.of = s
          /\ f.class = "span-end" /\ f.of = s /\ e.session = f.session
    BY <1>2, <1>4, <2>1, <2>2
  <2>4. \A d \in telemetry : /\ d.class = "span-start" => d.at = OtlpSpan[d.of].from
                             /\ d.class = "span-end" => d.at = OtlpSpan[d.of].to
    BY <1>3, SpanEventsAt
  <2>5. \A c, d \in telemetry : c.class = d.class /\ c.of = d.of /\ c.at = d.at => c = d
    BY DEF ExportsInv, IdOf
  <2>6. \A d \in telemetry : d.class = "span-start" /\ d.of = s => d = e
    BY <2>3, <2>4, <2>5
  <2>7. \A d \in telemetry : d.class = "span-end" /\ d.of = s => d = f
    BY <2>3, <2>4, <2>5
  <2>8. Of("span-start", s) = {e} /\ Of("span-end", s) = {f}
    BY <2>3, <2>6, <2>7 DEF Of
  <2> QED BY <2>3, <2>8
<1>5. ASSUME NEW e \in telemetry
      PROVE  /\ e.class \in {"span-start", "span-end"} => ~Rejected(e.of)
             /\ \E t \in TelemetrySpans : OtlpSpan[t].fault # "key" /\ e.session \in Names(t)
             /\ "body" \in e.kept => \E x \in sent : x.tier = "full" /\ e.of \in Range(x.spans)
  <2>1. PICK x \in sent, spans \in Exports, tier \in Tiers :
               x.ok /\ x.spans = spans /\ x.tier = tier /\ e \in Landed(spans, tier)
    BY <1>3
  <2>2. /\ e.class \in {"span-start", "span-end"} => e.of \in AcceptedSpans(spans)
        /\ \E t \in TelemetrySpans : OtlpSpan[t].fault # "key" /\ e.session \in Names(t)
        /\ "body" \in e.kept => tier = "full" /\ e.of \in Range(spans)
    BY <2>1, EventsAreSound
  <2> QED BY <2>1, <2>2 DEF AcceptedSpans
<1>6. \A x \in sent : (\A y \in sent : ComposedAlike(x, y)) => (x.ok <=> AcceptedSpans(x.spans) # {})
  BY DEF ExportsInv
<1> QED BY <1>4, <1>5, <1>6 DEF ExportsAreAbsorbed

(* However an exporter groups, orders, repeats and mixes its spans: an     *)
(* export composed like those before is accepted unless nothing of it is   *)
(* sound, every sound span of it has one start and one end in the log, in  *)
(* one session, and nothing rejected or withheld by the tier gets there.   *)
THEOREM ExportsStayAbsorbed == DataSpec => []ExportsAreAbsorbed
  <1>1. DataInit => ExportsInv
    BY ExportsBegin DEF DataInit
  <1>2. ExportsInv /\ [DataNext]_<<part, dataVars>> => ExportsInv'
    BY PartsMove, ExportsStep
  <1>3. ExportsInv => ExportsAreAbsorbed
    BY ExportsSuffice
  <1>4. QED
    BY <1>1, <1>2, <1>3, PTL DEF DataSpec

-------------------------------------------------------------------------------
(* Masking rules and amounts of money                                      *)

(* Whatever rules an account has and whatever a payload carries, a field   *)
(* is in the clear exactly when no rule names it or encloses it; and       *)
(* however many digits they have, a spend is the exact sum of its costs, a *)
(* sum of costs is exact and written in one way, a comparison is that of   *)
(* the numbers, and a rate is never rounded up.                            *)
THEOREM RulesStayExact == DataSpec => []RulesAreExact
  <1>1. DataInit => MaskingInv /\ DecimalsInv
    BY MaskingBegins, DecimalsBegin DEF DataInit
  <1>2. MaskingInv /\ DecimalsInv /\ [DataNext]_<<part, dataVars>> => MaskingInv' /\ DecimalsInv'
    BY PartsMove, MaskingStep, DecimalsStep
  <1>3. MaskingInv /\ DecimalsInv => RulesAreExact
    BY MaskingSuffices, DecimalsSuffice DEF RulesAreExact
  <1>4. QED
    BY <1>1, <1>2, <1>3, PTL DEF DataSpec
================================================================================
