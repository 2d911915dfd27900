------------------------------- MODULE Directory -------------------------------
(***************************************************************************)
(* SCIM provisioning of the Enterprise tier: createScimToken,              *)
(* authenticateScim and createScimUser in platform/ee/src/ee.ts, over the  *)
(* tables of migrations 0004 and 0016.  An identity provider sends a user; *)
(* the handler authenticates, looks for a live invite, reads the head of   *)
(* the audit chain and commits an invite with its link, in one batch that  *)
(* it tries twice.  Administrators use the same invites and the same chain *)
(* meanwhile, and owners issue new directory tokens.                       *)
(***************************************************************************)
EXTENDS Integers, Sequences, FiniteSets

CONSTANTS
  DirectoryCalls,  \* requests of the identity provider
  Rotators,        \* requests of owners who issue a token
  Addresses,       \* e-mail addresses
  Seats,           \* max_seats of the workspace
  InviteLife,      \* INVITE_TTL_SECONDS
  LastDay,         \* bound of the clock
  MaxScimTokens, MaxInviteRows, MaxChain  \* bounds of the tables

(* The table of seats has CHECK(max_seats >= 1).                           *)
ASSUME DirectoryAssumption == Seats \in Nat \ {0} /\ InviteLife \in Nat

VARIABLES
  day,        \* the clock
  scimToken,  \* the ee_scim_tokens rows: [created, revoked], revoked -1 for NULL
  inviteRow,  \* the workspace_invites rows: [address, expires, state]
  chain,      \* the audit chain: the number of an invite created, or 0
  staff,      \* active members
  call,       \* the directory's requests
  rotation    \* the time at which a rotation began, or -1

directoryVars == <<day, scimToken, inviteRow, chain, staff, call, rotation>>

Waits == [step |-> "none"]

DirectoryInit ==
  /\ day = 0 /\ scimToken = <<>> /\ inviteRow = <<>> /\ chain = <<>> /\ staff = 1
  /\ call = [c \in DirectoryCalls |-> Waits]
  /\ rotation = [r \in Rotators |-> -1]

LiveTokens == {t \in DOMAIN scimToken : scimToken[t].revoked = -1}
OpenInvites(a) == {i \in DOMAIN inviteRow : inviteRow[i].address = a /\ inviteRow[i].state = "open"}

-------------------------------------------------------------------------------
(* One batch revokes the live tokens and inserts the new one; it aborts    *)
(* when a token would be revoked before it was created.                    *)
StartRotation(r) ==
  /\ rotation[r] = -1 /\ Len(scimToken) < MaxScimTokens
  /\ rotation' = [rotation EXCEPT ![r] = day]
  /\ UNCHANGED <<day, scimToken, inviteRow, chain, staff, call>>

RevokeLive(now) ==
  [t \in DOMAIN scimToken |->
    IF t \in LiveTokens THEN [scimToken[t] EXCEPT !.revoked = now] ELSE scimToken[t]]
CommitRotation(r) ==
  /\ rotation[r] # -1
  /\ LET now == rotation[r]
     IN scimToken' = IF \A t \in LiveTokens : scimToken[t].created <= now
                     THEN Append(RevokeLive(now), [created |-> now, revoked |-> -1])
                     ELSE scimToken
  /\ rotation' = [rotation EXCEPT ![r] = -1]
  /\ UNCHANGED <<day, inviteRow, chain, staff, call>>

-------------------------------------------------------------------------------
(* POST /Users: authenticate; a live invite is a conflict; read the head.  *)
(* The oldest owner signs for the invite; a workspace always has one.      *)
Provision(c) ==
  /\ call[c] = Waits
  /\ \E t \in LiveTokens, a \in Addresses :
       call' = [call EXCEPT ![c] =
         [step |-> "invite", token |-> t, address |-> a, now |-> day, head |-> 0, attempt |-> 0]]
  /\ UNCHANGED <<day, scimToken, inviteRow, chain, staff, rotation>>

ReadLiveInvite(c) ==
  /\ call[c].step = "invite"
  /\ call' = [call EXCEPT ![c] =
       IF \E i \in OpenInvites(@.address) : inviteRow[i].expires > @.now
       THEN Waits ELSE [@ EXCEPT !.step = "head"]]
  /\ UNCHANGED <<day, scimToken, inviteRow, chain, staff, rotation>>

ReadChainHead(c) ==
  /\ call[c].step = "head"
  /\ call' = [call EXCEPT ![c].step = "commit", ![c].head = Len(chain)]
  /\ UNCHANGED <<day, scimToken, inviteRow, chain, staff, rotation>>

(* The batch in its order: expired invites of the address are swept; the   *)
(* trigger counts seats; the unique index admits one open invite of an     *)
(* address; the link must follow the head that was read.                   *)
SweptRows(a, now) ==
  [i \in DOMAIN inviteRow |->
    IF i \in OpenInvites(a) /\ inviteRow[i].expires <= now
    THEN [inviteRow[i] EXCEPT !.state = "revoked"] ELSE inviteRow[i]]
SeatsTaken(now) ==
  staff + Cardinality({i \in DOMAIN inviteRow :
    inviteRow[i].state = "open" /\ inviteRow[i].expires > now})
NotOccupied(a, now) == FALSE  \* mutant: the unique index is missing
Occupied(a, now) == \E i \in OpenInvites(a) : inviteRow[i].expires > now
InviteAddress(a, now) ==
  /\ Len(inviteRow) < MaxInviteRows /\ Len(chain) < MaxChain
  /\ inviteRow' = Append(SweptRows(a, now), [address |-> a, expires |-> now + InviteLife, state |-> "open"])
  /\ chain' = Append(chain, Len(inviteRow) + 1)
Admitted(a, now) == SeatsTaken(now) < Seats /\ ~Occupied(a, now)

CommitInvite(c) ==
  /\ call[c].step = "commit" /\ call[c].head = Len(chain)
  /\ Admitted(call[c].address, call[c].now)
  /\ InviteAddress(call[c].address, call[c].now)
  /\ call' = [call EXCEPT ![c] = Waits]
  /\ UNCHANGED <<day, scimToken, staff, rotation>>

(* A batch that aborts changes nothing: full or occupied is answered, a    *)
(* link that lost the race is built once more and then answered 503.       *)
AbortInvite(c) ==
  /\ call[c].step = "commit"
  /\ ~Admitted(call[c].address, call[c].now) \/ call[c].head # Len(chain)
  /\ call' = [call EXCEPT ![c] =
       IF Admitted(@.address, @.now) /\ @.attempt = 0
       THEN [@ EXCEPT !.step = "head", !.attempt = 1] ELSE Waits]
  /\ UNCHANGED <<day, scimToken, inviteRow, chain, staff, rotation>>

-------------------------------------------------------------------------------
(* Requests of the team, each with its own link (module Teams): an invite, *)
(* its acceptance or revocation, a member who leaves.                      *)
AdminInvites(a) ==
  /\ Admitted(a, day) /\ InviteAddress(a, day)
  /\ UNCHANGED <<day, scimToken, staff, call, rotation>>

ResolveInvite(i, outcome) ==
  /\ inviteRow[i].state = "open" /\ Len(chain) < MaxChain
  /\ outcome = "accepted" => day < inviteRow[i].expires /\ staff < Seats
  /\ inviteRow' = [inviteRow EXCEPT ![i].state = outcome]
  /\ staff' = IF outcome = "accepted" THEN staff + 1 ELSE staff
  /\ chain' = Append(chain, 0)
  /\ UNCHANGED <<day, scimToken, call, rotation>>

MemberLeaves ==
  /\ staff > 1 /\ Len(chain) < MaxChain
  /\ staff' = staff - 1 /\ chain' = Append(chain, 0)
  /\ UNCHANGED <<day, scimToken, inviteRow, call, rotation>>

DayPasses ==
  /\ day < LastDay /\ day' = day + 1
  /\ UNCHANGED <<scimToken, inviteRow, chain, staff, call, rotation>>

DirectoryNext ==
  \/ \E r \in Rotators : StartRotation(r) \/ CommitRotation(r)
  \/ \E c \in DirectoryCalls :
       \/ Provision(c) \/ ReadLiveInvite(c) \/ ReadChainHead(c)
       \/ CommitInvite(c) \/ AbortInvite(c)
  \/ \E a \in Addresses : AdminInvites(a)
  \/ \E i \in DOMAIN inviteRow, outcome \in {"accepted", "revoked"} : ResolveInvite(i, outcome)
  \/ MemberLeaves \/ DayPasses

DirectorySpec == DirectoryInit /\ [][DirectoryNext]_directoryVars

-------------------------------------------------------------------------------
(* The links that tell of an invite.                                       *)
Creations == {n \in DOMAIN chain : chain[n] # 0}

(* However directories, owners and administrators race: one token works at *)
(* a time ("there is never a window with two working credentials",         *)
(* migration 0016); an address has one open invite; seats are not          *)
(* promised twice; and the chain tells of every invite once, in order.     *)
DirectoryIsOrderly ==
  /\ Cardinality(LiveTokens) <= 1
  /\ \A a \in Addresses : Cardinality(OpenInvites(a)) <= 1
  /\ SeatsTaken(day) <= Seats
  /\ {chain[n] : n \in Creations} = DOMAIN inviteRow
  /\ \A m, n \in Creations : m < n => chain[m] < chain[n]
===============================================================================
