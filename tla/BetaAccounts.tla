----------------------------- MODULE BetaAccounts -----------------------------
(***************************************************************************)
(* Who gets one of the hosted beta accounts: provisionAccount in           *)
(* platform/src/account.ts and the lifetime ledger in R2 of                *)
(* hosted_capacity_ledger.ts, with the capacity trigger of migration 0003. *)
(*                                                                         *)
(* A callback holds only what it read between two awaited calls.  D1 may   *)
(* be restored to an earlier state at any time; R2 is never restored.  An  *)
(* account deletion removes the rows of the subject and leaves both        *)
(* counters; its WorkOS user is gone by then, and callbacks that started   *)
(* before that have ended (AccountDeletion).                               *)
(***************************************************************************)
EXTENDS Integers, FiniteSets

CONSTANTS
  Subjects,           \* WorkOS users
  Callbacks,          \* auth callbacks without a session cookie
  MaxAccounts,        \* HOSTED_BETA_MAX_ACCOUNTS and max_accounts
  MaxCasAttempts,     \* MAX_CAS_ATTEMPTS
  MaxAccountFaults    \* bound: restores and lost acknowledgements

ASSUME BetaAssumption == IsFiniteSet(Subjects) /\ MaxAccounts \in Nat

VARIABLES
  beta,        \* D1: hosted_beta_capacity and the provider identities
  betaBackup,  \* the state of D1 that a restore would bring back
  burned,      \* R2: the hashes of the ledger; {} while there is no object
  removed,     \* subjects whose WorkOS user was deleted
  provisioned, \* subjects that ever had an account, in any history of D1
  callback,    \* the callbacks
  accountFaults

accountVars == <<beta, betaBackup, burned, removed, provisioned, callback, accountFaults>>

Beta == [active : 0 .. MaxAccounts, identities : SUBSET Subjects]
Waiting == [at |-> "idle"]

AccountsInit ==
  /\ beta = [active |-> 0, identities |-> {}] /\ betaBackup = beta
  /\ burned = {} /\ removed = {} /\ provisioned = {}
  /\ callback = [c \in Callbacks |-> Waiting]
  /\ accountFaults = 0

Fault(n) == /\ accountFaults + n <= MaxAccountFaults
            /\ accountFaults' = accountFaults + n
At(c, step) == callback[c].at = step
(* What was read is not used again once the step after it was taken.       *)
Turn(c, step) ==
  callback' = [callback EXCEPT ![c] =
    IF step = "ended" THEN Waiting
    ELSE [@ EXCEPT !.at = step, !.count = 0, !.known = {}, !.read = {}, !.signup = FALSE]]
Elsewhere == UNCHANGED <<beta, betaBackup, burned, removed, provisioned, accountFaults>>

(* WorkOS vouched for the subject; a sign-up may create an account.        *)
Exchange(c) ==
  /\ At(c, "idle")
  /\ \E s \in Subjects \ removed, signup \in BOOLEAN :
       callback' = [callback EXCEPT ![c] =
         [at |-> "identity", subject |-> s, signup |-> signup, count |-> 0,
          known |-> {}, read |-> {}, tries |-> 0]]
  /\ Elsewhere

ReadIdentity(c) ==
  /\ At(c, "identity")
  /\ Turn(c, IF callback[c].subject \in beta.identities THEN "member"
             ELSE IF callback[c].signup THEN "capacity" ELSE "ended")
  /\ Elsewhere

ReadCapacity(c) ==
  /\ At(c, "capacity")
  /\ callback' = [callback EXCEPT ![c].at = "inventory", ![c].count = beta.active]
  /\ Elsewhere

ReadInventory(c) ==
  /\ At(c, "inventory")
  /\ callback' = [callback EXCEPT ![c].at = "audit", ![c].known = beta.identities]
  /\ Elsewhere

(* An absent object bootstraps an empty D1 only; otherwise it must cover   *)
(* the count and the identities that were read.                            *)
Covers(ledger, count, known) ==
  /\ Cardinality(known) <= count
  /\ count <= Cardinality(ledger) /\ known \subseteq ledger

AuditCoverage(c) ==
  /\ At(c, "audit")
  /\ Turn(c, IF Covers(burned, callback[c].count, callback[c].known) THEN "reserve" ELSE "ended")
  /\ Elsewhere

Reserve(c) ==
  /\ At(c, "reserve")
  /\ LET with == burned \cup {callback[c].subject} IN
     IF callback[c].tries = MaxCasAttempts THEN Turn(c, "ended")
     ELSE IF with = burned THEN Turn(c, "insert")
     ELSE IF Cardinality(with) > MaxAccounts THEN Turn(c, "ended")
     ELSE callback' = [callback EXCEPT ![c].at = "put", ![c].read = burned]
  /\ Elsewhere

(* A put on the etag that was read.  The ledger only grows, so the etag    *)
(* stands for the set.                                                     *)
Always(c) == TRUE  \* mutant: the put is unconditional
Unchanged(c) == burned = callback[c].read
PutLedger(c) ==
  /\ At(c, "put")
  /\ \/ /\ Unchanged(c)
        /\ burned' = callback[c].read \cup {callback[c].subject}
        /\ \/ Turn(c, "reread") /\ Fault(0)
           \/ Turn(c, "ended") /\ Fault(1)
     \/ /\ ~Unchanged(c)
        /\ callback' = [callback EXCEPT ![c].tries = @ + 1,
             ![c].at = "reserve"]
        /\ UNCHANGED <<burned, accountFaults>>
  /\ UNCHANGED <<beta, betaBackup, removed, provisioned>>

Reread(c) ==
  /\ At(c, "reread")
  /\ Turn(c, IF callback[c].subject \in burned THEN "insert" ELSE "ended")
  /\ Elsewhere

(* One batch: the rows of the account, unique by subject, and the trigger  *)
(* that counts its entitlement.  It may stand though it seems to fail.     *)
InsertAccount(c) ==
  /\ At(c, "insert")
  /\ LET s == callback[c].subject IN
     \/ /\ s \notin beta.identities /\ beta.active < MaxAccounts
        /\ beta' = [active |-> beta.active + 1, identities |-> beta.identities \cup {s}]
        /\ provisioned' = provisioned \cup {s}
        /\ \/ Turn(c, "account") /\ Fault(0)
           \/ Turn(c, "winner") /\ Fault(1)
     \/ /\ s \in beta.identities \/ beta.active >= MaxAccounts
        /\ Turn(c, "winner")
        /\ UNCHANGED <<beta, provisioned, accountFaults>>
  /\ UNCHANGED <<betaBackup, burned, removed>>

ReadWinner(c) ==
  /\ At(c, "winner")
  /\ Turn(c, IF callback[c].subject \in beta.identities THEN "account" ELSE "ended")
  /\ Elsewhere

VerifyMembership(c) ==
  /\ At(c, "member")
  /\ Turn(c, IF callback[c].subject \in burned THEN "account" ELSE "ended")
  /\ Elsewhere

(* The profile is updated and the account read back, or the callback is    *)
(* refused; then it is given a session (BrowserSessions).                  *)
ReadAccount(c) ==
  /\ At(c, "account")
  /\ Turn(c, "ended")
  /\ Elsewhere

(* The purge of a deleted account: its counters stay as they are.          *)
RemoveAccount(s) ==
  /\ s \in beta.identities
  /\ \A c \in Callbacks : callback[c] # Waiting => callback[c].subject # s
  /\ beta' = [beta EXCEPT !.identities = @ \ {s}]
  /\ removed' = removed \cup {s}
  /\ UNCHANGED <<betaBackup, burned, provisioned, callback, accountFaults>>

BackUp == /\ betaBackup # beta /\ betaBackup' = beta
          /\ UNCHANGED <<beta, burned, removed, provisioned, callback, accountFaults>>
Restore == /\ beta # betaBackup /\ beta' = betaBackup /\ Fault(1)
           /\ UNCHANGED <<betaBackup, burned, removed, provisioned, callback>>

AccountsNext ==
  \/ \E c \in Callbacks :
       \/ Exchange(c) \/ ReadIdentity(c) \/ ReadCapacity(c) \/ ReadInventory(c)
       \/ AuditCoverage(c) \/ Reserve(c) \/ PutLedger(c) \/ Reread(c)
       \/ InsertAccount(c) \/ ReadWinner(c) \/ VerifyMembership(c) \/ ReadAccount(c)
  \/ \E s \in Subjects : RemoveAccount(s)
  \/ BackUp \/ Restore

AccountsSpec == AccountsInit /\ [][AccountsNext]_accountVars

-----------------------------------------------------------------------------
(* "restoring D1 to an older active_accounts value cannot issue a 51st     *)
(* lifetime account" (docs/privacy.md:229): whoever ever had an account is *)
(* in the ledger, which is bounded; and the ledger covers the counter and  *)
(* the identities of D1, else the audit would refuse every later sign-up.  *)
IssuancesAreBurned ==
  /\ provisioned \subseteq burned /\ Cardinality(burned) <= MaxAccounts
  /\ Covers(burned, beta.active, beta.identities)
===============================================================================
