---------------------------- MODULE MCHostedTables -----------------------------
(* The read model and the members of a workspace: tables that no statement *)
(* writes together.  A behaviour moves one of the two parts.               *)
EXTENDS WorkstreamProjection, Teams, TLC

CONSTANTS w1, w2, a, b, u1, u2, u3

Make(i, w, t, k, n, r) ==
  [id |-> i, ws |-> w, at |-> t, kind |-> k, title |-> n, repository |-> r]
(* Starts with the same and with different times, with and without a       *)
(* title; completions before and after them; other events; one event whose *)
(* content is disputed and some of another workstream or of none.          *)
MCEvents == {
  Make(1, w1, 2, "workstream.started", a, 2),
  Make(2, w1, 2, "workstream.started", b, None),
  Make(3, w1, 3, "workstream.started", None, None),
  Make(4, w1, 1, "workstream.completed", None, None),
  Make(5, w1, 1, "workstream.completed", None, 1),
  Make(6, w1, 0, "other", None, 3),
  Make(6, w1, 4, "other", None, None),
  Make(7, w2, 1, "workstream.started", b, 1),
  Make(8, w2, 0, "workstream.started", a, None),
  Make(9, None, 0, "other", None, 1)}

Members(r1, r2, r3, S) == [role |-> (u1 :> r1 @@ u2 :> r2 @@ u3 :> r3), active |-> S]
(* A founder alone; alone again after an admin left; two owners; a founder *)
(* next to an admin, with an owner who was removed.                        *)
MCFounded == {Members("owner", "none", "none", {u1})}
MCMemberships == MCFounded \cup {
  Members("owner", "none", "admin", {u1}),
  Members("owner", "owner", "none", {u1, u2}),
  Members("owner", "admin", "owner", {u1, u2})}
TeamSymmetry == Permutations(Requests) \cup Permutations(Invites)

VARIABLE part
HostedInit ==
  /\ Init /\ TeamsInit /\ part \in {"projection", "teams"}
  /\ part = "projection" => active = {Founder}
HostedNext ==
  /\ UNCHANGED part
  /\ \/ part = "projection" /\ Next /\ UNCHANGED teamsVars
     \/ part = "teams" /\ TeamsNext /\ UNCHANGED vars
HostedSpec == HostedInit /\ [][HostedNext]_<<vars, teamsVars, part>>
===============================================================================
