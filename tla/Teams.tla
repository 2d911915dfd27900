--------------------------------- MODULE Teams ---------------------------------
(***************************************************************************)
(* Members, invites and the audit trail of one hosted workspace:           *)
(* platform/src/teams.ts over the triggers of migration 0004, and the      *)
(* membership repair of a sign-in in platform/src/account.ts.              *)
(*                                                                         *)
(* A request authorizes its actor, reads what it is about, reads the head  *)
(* of the trail, and commits its rows with the links of the trail in one   *)
(* transaction.  Every read is a step of its own and nothing that was read *)
(* is read again at the commit: only the conditions of the statements, the *)
(* unique indexes and the triggers stand between two racing requests.      *)
(* Requests that are denied at their first read change nothing and are     *)
(* left out, and so is everything that appends to the trail and touches    *)
(* neither members nor invites.                                            *)
(***************************************************************************)
EXTENDS Integers, Sequences, FiniteSets

CONSTANTS
  Users,       \* accounts; an address belongs to one of them
  Founder,     \* whose personal workspace this is
  Invites, Requests,
  MaxSeats,
  Memberships, \* what earlier requests may have left: [role, active]
  Given,       \* bound: the roles requests ask for
  MaxLinks     \* bound: no request starts once the trail has this length

Roles == {"owner", "admin", "member", "viewer"}
InvitableRoles == Roles \ {"owner"}
Rank == [r \in Roles |-> CASE r = "owner" -> 3 [] r = "admin" -> 2
                           [] r = "member" -> 1 [] OTHER -> 0]
MeetsRole(r, minimum) == Rank[r] >= Rank[minimum]

ASSUME TeamsAssumption ==
  /\ Founder \in Users /\ IsFiniteSet(Users)
  /\ MaxSeats \in Nat /\ MaxLinks \in Nat /\ Given \subseteq Roles
  /\ \A m \in Memberships :
       /\ m.role \in [Users -> Roles \cup {"none"}] /\ m.active \subseteq Users
       /\ \A u \in m.active : m.role[u] # "none"
       /\ \E u \in m.active : m.role[u] = "owner"
       /\ Cardinality(m.active) <= MaxSeats
       /\ m.role[Founder] # "none"

VARIABLES
  role,     \* workspace_members.role, "none" without a row
  active,   \* the users with status 'active'
  invites,  \* workspace_invites
  expired,  \* the invites whose expires_at has passed
  trail,    \* audit_chain in the order of insertion
  step, req, \* where a request is and what it has read
  lockedOut \* whether the founder's last sign-in failed on the repair

teamsVars == <<role, active, invites, expired, trail, step, req, lockedOut>>
tables == <<role, active, invites, trail>>

Owners == {u \in active : role[u] = "owner"}
Live(i) == invites[i].state = "live"

(* A link names its predecessor by content hash: here, by its number.      *)
Link == [seq : Nat, prev : Nat \cup {-1}]
Numbers == {trail[n].seq : n \in 1 .. Len(trail)}
TrailHead == CHOOSE s \in Numbers \cup {-1} : \A t \in Numbers : t <= s

Request == [op : {"invite", "revoke", "accept", "role", "remove"},
            actor : Users, user : Users, invite : Invites \cup {"none"},
            next : Roles, as : Roles \cup {"none"}, was : Roles,
            late : SUBSET Invites, head : Nat \cup {-1}, retried : BOOLEAN]
NoRequest == [op |-> "none"]
NewRequest(op, a, u) ==
  [op |-> op, actor |-> a, user |-> u, invite |-> "none", next |-> "viewer",
   as |-> role[a], was |-> "viewer", late |-> {}, head |-> -1, retried |-> FALSE]

TeamsInit ==
  /\ \E m \in Memberships : role = m.role /\ active = m.active
  /\ invites = [i \in Invites |-> [email |-> Founder, role |-> "viewer", state |-> "unused"]]
  /\ expired = {} /\ trail = <<>>
  /\ step = [r \in Requests |-> "idle"] /\ req = [r \in Requests |-> NoRequest]
  /\ lockedOut = FALSE

-------------------------------------------------------------------------------
(* From the request to the commit                                          *)

BeginRequest(r, label, q) ==
  /\ step[r] = "idle" /\ Len(trail) < MaxLinks
  /\ step' = [step EXCEPT ![r] = label]
  /\ req' = [req EXCEPT ![r] = q]
  /\ UNCHANGED <<tables, expired, lockedOut>>

End(r) ==
  /\ step' = [step EXCEPT ![r] = "idle"]
  /\ req' = [req EXCEPT ![r] = NoRequest]

Continue(r, label, q) ==
  /\ step' = [step EXCEPT ![r] = label]
  /\ req' = [req EXCEPT ![r] = q]

(* requireRole: the row of an active member, once per request.             *)
Authorized(a, minimum) == a \in active /\ MeetsRole(role[a], minimum)

(* The id of an invite is new.                                             *)
Fresh(i) ==
  invites[i].state = "unused" /\ \A s \in Requests : req[s].op = "invite" => req[s].invite # i

CreateInvite(r) ==
  \E a \in Users, u \in Users, i \in Invites, n \in Given \cap InvitableRoles :
    /\ Authorized(a, "admin") /\ Fresh(i)
    /\ BeginRequest(r, "read", [NewRequest("invite", a, u) EXCEPT !.invite = i, !.next = n])

RevokeInvite(r) ==
  \E a \in Users, i \in Invites :
    /\ Authorized(a, "admin") /\ invites[i].state # "unused"
    /\ BeginRequest(r, "read", [NewRequest("revoke", a, a) EXCEPT !.invite = i])

(* The token is the authority: found, unresolved, in time, and issued to   *)
(* the address of the session.  The clock is read here, once.              *)
AcceptInvite(r) ==
  \E i \in Invites :
    /\ Live(i) /\ i \notin expired
    /\ BeginRequest(r, "head",
         [NewRequest("accept", invites[i].email, invites[i].email) EXCEPT
            !.invite = i, !.next = invites[i].role, !.late = expired])

ChangeMemberRole(r) ==
  \E a \in Users, u \in Users, n \in Given :
    /\ Authorized(a, "admin")
    /\ BeginRequest(r, "read", [NewRequest("role", a, u) EXCEPT !.next = n])

RemoveMember(r) ==
  \E a \in Users, u \in Users :
    /\ Authorized(a, "viewer")
    /\ BeginRequest(r, "read", NewRequest("remove", a, u))

(* createInvite takes the time and looks for a live invite of the address, *)
(* revokeInvite for a pending one of the id.                               *)
ReadInvite(r) ==
  /\ step[r] = "read" /\ req[r].op \in {"invite", "revoke"}
  /\ IF req[r].op = "invite"
       THEN IF \E i \in Invites : Live(i) /\ i \notin expired /\ invites[i].email = req[r].user
              THEN End(r)
              ELSE Continue(r, "head", [req[r] EXCEPT !.late = expired])
       ELSE IF Live(req[r].invite) THEN Continue(r, "head", req[r]) ELSE End(r)
  /\ UNCHANGED <<tables, expired, lockedOut>>

(* Only an owner makes or unseats another owner, only an admin removes     *)
(* anybody but himself.                                                    *)
Forbidden(q, was) ==
  IF q.op = "role" THEN q.as # "owner" /\ (q.next = "owner" \/ was = "owner")
  ELSE q.actor # q.user
       /\ (~MeetsRole(q.as, "admin") \/ (was = "owner" /\ q.as # "owner"))

ReadTarget(r) ==
  LET q == req[r]
      was == role[q.user]
  IN /\ step[r] = "read" /\ q.op \in {"role", "remove"}
     /\ IF q.user \notin active \/ Forbidden(q, was) \/ (q.op = "role" /\ was = q.next)
          THEN End(r)
          ELSE Continue(r, IF was = "owner" THEN "count" ELSE "head", [q EXCEPT !.was = was])
     /\ UNCHANGED <<tables, expired, lockedOut>>

CountOwners(r) ==
  /\ step[r] = "count"
  /\ IF Cardinality(Owners) <= 1 THEN End(r) ELSE Continue(r, "head", req[r])
  /\ UNCHANGED <<tables, expired, lockedOut>>

ReadAuditHead(r) ==
  /\ step[r] = "head"
  /\ Continue(r, "commit", [req[r] EXCEPT !.head = TrailHead])
  /\ UNCHANGED <<tables, expired, lockedOut>>

(* A read or the batch throws, or the isolate is gone.                     *)
Abandon(r) ==
  /\ step[r] # "idle"
  /\ End(r)
  /\ UNCHANGED <<tables, expired, lockedOut>>

-------------------------------------------------------------------------------
(* The transaction                                                         *)

(* workspace_members_seat_capacity_insert runs before the conflict of an   *)
(* upsert or of an INSERT OR IGNORE is found: a seat that is held does not *)
(* count for its holder.                                                   *)
InsertMemberAborts == Cardinality(active) >= MaxSeats

(* The sweep of createInvite resolves expired invites of the address.      *)
Swept(q, i) == Live(i) /\ invites[i].email = q.user /\ i \in q.late
(* One unresolved invite per address; active members and pending invites   *)
(* fit the seats.                                                          *)
InsertInviteAborts(q) ==
  LET left == {i \in Invites : Live(i) /\ ~Swept(q, i)}
  IN \/ \E i \in left : invites[i].email = q.user
     \/ Cardinality(active) + Cardinality(left \ q.late) >= MaxSeats

MatchesAnyRole(q) ==  \* mutant: UPDATE without AND role = ?3
  q.user \in active
(* The row UPDATE_MEMBER_ROLE_SQL and REMOVE_MEMBER_SQL are after: still   *)
(* active and still in the role that was checked.                          *)
Matches(q) == q.user \in active /\ role[q.user] = q.was

LosesLastOwnerUnguarded(q) ==  \* mutant: without the last owner triggers
  FALSE
(* workspace_members_last_owner_role and _status.                          *)
LosesLastOwner(q) ==
  /\ Matches(q) /\ Owners = {q.user}
  /\ q.op = "remove" \/ q.next # "owner"

Aborts(q) ==
  \/ q.op = "invite" /\ InsertInviteAborts(q)
  \/ q.op = "accept" /\ InsertMemberAborts
  \/ q.op \in {"role", "remove"} /\ LosesLastOwner(q)

ApplyInvite(q) ==
  /\ invites' = [i \in Invites |->
       IF i = q.invite THEN [email |-> q.user, role |-> q.next, state |-> "live"]
       ELSE IF Swept(q, i) THEN [invites[i] EXCEPT !.state = "revoked"] ELSE invites[i]]
  /\ UNCHANGED <<role, active>>

(* REVOKE_INVITE_SQL: the row if it is still pending.                      *)
ApplyRevoke(q) ==
  /\ invites' = [invites EXCEPT ![q.invite].state = IF @ = "live" THEN "revoked" ELSE @]
  /\ UNCHANGED <<role, active>>

(* ACCEPT_INVITE_SQL: the row if it is still pending.  UPSERT_MEMBER_SQL,  *)
(* in any case: an owner, active or not, stays one.                        *)
ApplyAccept(q) ==
  /\ invites' = [invites EXCEPT ![q.invite].state = IF @ = "live" THEN "accepted" ELSE @]
  /\ role' = [role EXCEPT ![q.actor] = IF @ = "owner" THEN @ ELSE q.next]
  /\ active' = active \cup {q.actor}

ApplyRole(q) ==
  /\ role' = IF Matches(q) THEN [role EXCEPT ![q.user] = q.next] ELSE role
  /\ UNCHANGED <<active, invites>>

ApplyRemove(q) ==
  /\ active' = IF Matches(q) THEN active \ {q.user} ELSE active
  /\ UNCHANGED <<role, invites>>

Apply(q) ==
  \/ q.op = "invite" /\ ApplyInvite(q)
  \/ q.op = "revoke" /\ ApplyRevoke(q)
  \/ q.op = "accept" /\ ApplyAccept(q)
  \/ q.op = "role" /\ ApplyRole(q)
  \/ q.op = "remove" /\ ApplyRemove(q)

(* buildAuditRecords: an accepted invite leaves two links.                 *)
LinkAfter(head) == [seq |-> head + 1, prev |-> head]
LinksOf(q) ==
  IF q.op = "accept" THEN <<LinkAfter(q.head), LinkAfter(q.head + 1)>> ELSE <<LinkAfter(q.head)>>

ChainConflictIgnored(q) ==  \* mutant: a trail without its key and its trigger
  FALSE
(* The key (workspace_id, seq): somebody has been faster.                  *)
ChainConflict(q) == q.head + 1 \in Numbers

Commit(r) ==
  LET q == req[r]
  IN /\ step[r] = "commit"
     /\ \/ /\ Aborts(q)
           /\ End(r)
           /\ UNCHANGED tables
        \/ /\ ~Aborts(q) /\ ChainConflict(q)
           /\ IF q.retried THEN End(r)
              ELSE Continue(r, "head", [q EXCEPT !.retried = TRUE])
           /\ UNCHANGED tables
        \/ /\ ~Aborts(q) /\ ~ChainConflict(q)
           /\ Apply(q)
           /\ trail' = trail \o LinksOf(q)
           /\ End(r)
     /\ UNCHANGED <<expired, lockedOut>>

-------------------------------------------------------------------------------
(* Around the requests                                                     *)

(* Seven days have passed.                                                 *)
Expire(i) ==
  /\ invites[i].state # "unused" /\ i \notin expired
  /\ expired' = expired \cup {i}
  /\ UNCHANGED <<tables, step, req, lockedOut>>

(* provisionAccount, for an account that exists: INSERT OR IGNORE of the   *)
(* membership of the personal workspace.  Its row is there, so nothing is  *)
(* inserted, but the batch may fail.                                       *)
SignIn ==
  /\ lockedOut' = InsertMemberAborts
  /\ UNCHANGED <<tables, expired, step, req>>

TeamsNext ==
  \/ \E r \in Requests :
       \/ CreateInvite(r) \/ RevokeInvite(r) \/ AcceptInvite(r)
       \/ ChangeMemberRole(r) \/ RemoveMember(r)
       \/ ReadInvite(r) \/ ReadTarget(r) \/ CountOwners(r) \/ ReadAuditHead(r)
       \/ Commit(r) \/ Abandon(r)
  \/ \E i \in Invites : Expire(i)
  \/ SignIn

TeamsSpec == TeamsInit /\ [][TeamsNext]_teamsVars

-------------------------------------------------------------------------------
(* Properties                                                              *)

Steps == {"idle", "read", "count", "head", "commit"}
(* Every variable stays in its domain and an active member has a role.     *)
TeamsTypeOK ==
  /\ role \in [Users -> Roles \cup {"none"}]
  /\ active \subseteq Users /\ \A u \in active : role[u] # "none"
  /\ invites \in [Invites -> [email : Users, role : {"admin", "member", "viewer"},
                              state : {"unused", "live", "accepted", "revoked"}]]
  /\ expired \subseteq Invites /\ trail \in Seq(Link)
  /\ step \in [Requests -> Steps] /\ lockedOut \in BOOLEAN
  /\ req \in [Requests -> Request \cup {NoRequest}]
  /\ \A r \in Requests : step[r] = "idle" <=> req[r] = NoRequest

(* "a workspace can never lose its last active owner" (0004_teams_rbac.sql:6), *)
(* although requests count the owners long before they commit: two owners  *)
(* may unseat each other or leave at the same time.                        *)
NeverOwnerless == Owners # {}

(* The seats bound the active members, whatever invites were outstanding   *)
(* and however many are redeemed at once.                                  *)
SeatsBound == Cardinality(active) <= MaxSeats

(* A team stands: somebody owns it, and everybody in it has a seat.        *)
TeamStands == NeverOwnerless /\ SeatsBound

(* "Only an owner may create or unseat another owner" (teams.ts:1064): a   *)
(* request of somebody who was no owner when it was authorized never does, *)
(* although its target may have been promoted since it was checked.  What  *)
(* remains is to leave, and to come back as the owner one was.             *)
OwnersStep ==
  \A u \in Users : (u \in Owners) # (u \in Owners') =>
    \E r \in Requests :
      /\ step[r] = "commit" /\ step'[r] = "idle"
      /\ \/ req[r].as = "owner"
         \/ req[r].op = "remove" /\ req[r].actor = u
         \/ req[r].op = "accept" /\ req[r].actor = u /\ role[u] = "owner"
OwnersActOnOwners == [][OwnersStep]_teamsVars

(* "Every mutation commits together with its audit evidence" (teams.ts:17) *)
(* and nothing forks the trail: whoever races, members and invites change  *)
(* only as the trail grows, and it stays one chain from its first link.    *)
OneChain == \A n \in 1 .. Len(trail) : trail[n].seq = n - 1 /\ trail[n].prev = n - 2
AuditStep ==
  /\ \A n \in 1 .. Len(trail) : n <= Len(trail') /\ trail'[n] = trail[n]
  /\ <<role, active, invites>> # <<role, active, invites>>' => Len(trail') > Len(trail)
  /\ OneChain'
ChangesAreAudited == [][AuditStep]_teamsVars

(* "Ownership is never conferred by a bearer link" (0004_teams_rbac.sql:193).  *)
NoOwnerByInvite ==
  [][\A r \in Requests : step[r] = "commit" /\ step'[r] = "idle" /\ req[r].op = "accept"
       => Owners' \subseteq Owners]_teamsVars

===============================================================================
