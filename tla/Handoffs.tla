-------------------------------- MODULE Handoffs --------------------------------
(***************************************************************************)
(* Handing one workstream over on one machine: the command "continue"      *)
(* (internal/launch) and the tools of the local MCP server that            *)
(* checkpoint, hand over, acknowledge, claim files and complete            *)
(* (internal/mcp/handlers.go).  Every agent has a server of its own on one *)
(* database.  A call reads what it decides on, reads the clock, and writes *)
(* one row at its end; reads put the events in the order of those clocks,  *)
(* not of their rows.  A call that dies takes no further step: it holds    *)
(* nothing.                                                                *)
(***************************************************************************)
EXTENDS Integers, Sequences, FiniteSets

CONSTANTS
  Calls,          \* calls, and the ids of what they make
  Agents,         \* codex, claude, pi
  AgentSessions,  \* native sessions, named by their session keys
  ProviderOf,     \* the agent of a native session
  ClaimedPaths,   \* sets of paths that a call may claim
  Unset,          \* an argument that is left out
  MaxWall,        \* bound of the clock
  MaxSetBacks,    \* bound: times that the clock is set back
  MaxCommits,     \* bound: commits in the worktree
  MaxCaptured     \* bound: events that hooks capture

ASSUME HandoffsAssumption ==
  /\ Calls \subseteq Nat \ {0} /\ AgentSessions \subseteq Nat /\ Unset \notin Nat
  /\ ProviderOf \in [AgentSessions -> Agents]

VARIABLES
  trail,     \* the events of the workstream, by sequence number
  stored,    \* the table checkpoints
  wall,      \* the clock
  setBacks,  \* how often it was set back
  tree,      \* the last commit of the worktree (0: none yet)
  call       \* what each call holds

handoffVars == <<trail, stored, wall, setBacks, tree, call>>

Captured(s, t) == [kind |-> "captured", at |-> t, session |-> s]
NoCheckpoint == [id |-> 0, at |-> 0, covers |-> 0, head |-> 0]
(* A call: what it does and where it stands, the sequence number it read   *)
(* up to, the checkpoint it made or took, the event it appends and its row.*)
(* "from" and "shelf" are history: what was there when it came.            *)
NoCall ==
  [op |-> "none", step |-> "idle", from |-> 0, shelf |-> {}, seen |-> 0, cp |-> NoCheckpoint, to |-> Unset,
   paths |-> {}, told |-> {}, event |-> [kind |-> "none"], row |-> 0]
(* A store with a captured event, or also its checkpoint and a handoff.    *)
HandoffsInit ==
  /\ wall = 0 /\ setBacks = 0 /\ tree = 0
  /\ call = [c \in Calls |-> NoCall]
  /\ \E s \in AgentSessions :
       LET cp == [id |-> 0, at |-> 0, covers |-> 1, head |-> 0]
           given == [kind |-> "handoff.created", at |-> 0, id |-> 0, cp |-> cp, agent |-> ProviderOf[s],
                     mode |-> "native_resume", clean |-> TRUE]
       IN \/ trail = <<Captured(s, 0)>> /\ stored = {}
          \/ trail = <<Captured(s, 0), given>> /\ stored = {cp}

-------------------------------------------------------------------------------
(* What is derived from the events with sequence numbers up to n.          *)

Precedes(i, j) == trail[i].at < trail[j].at \/ (trail[i].at = trail[j].at /\ i < j)
Latest(S) == CHOOSE i \in S : \A j \in S : i = j \/ Precedes(j, i)
EventsOfKind(n, k) == {i \in 1 .. n : trail[i].kind = k}

(* Completion is terminal; else the last of handing over and accepting.    *)
deriveWorkstreamStatus(n) ==
  LET HandedOff == \E i \in EventsOfKind(n, "handoff.created") :
                     \A j \in EventsOfKind(n, "handoff.accepted") : Precedes(j, i)
  IN CASE EventsOfKind(n, "workstream.completed") # {} -> "completed"
       [] OTHER -> IF HandedOff THEN "handed_off" ELSE "active"

(* Handoffs with an id, and what was said of each: the latest acceptance   *)
(* wins, wherever it stands relative to the handoff.                       *)
AcceptsSeenAfter(n, i) ==  \* mutant: one pass over the events
  {j \in EventsOfKind(n, "handoff.accepted") : trail[j].id = trail[i].id /\ Precedes(i, j)}
AcceptsOf(n, i) == {j \in EventsOfKind(n, "handoff.accepted") : trail[j].id = trail[i].id}
ListHandoffs(n) ==
  {[id |-> trail[i].id, agent |-> trail[i].agent, cp |-> trail[i].cp.id, at |-> trail[i].at,
    shown |-> IF AcceptsOf(n, i) = {} THEN 0 ELSE Latest(AcceptsOf(n, i))] :
   i \in {i \in EventsOfKind(n, "handoff.created") : trail[i].id # Unset}}

(* The newest row of a table, by its time and then by its id.              *)
Newest(S) == CHOOSE x \in S : \A y \in S : y.at < x.at \/ (y.at = x.at /\ y.id <= x.id)

(* The session with the greatest key decides; it is resumed by its own     *)
(* agent and seeds any other.                                              *)
SessionsIn(cp) == {trail[i].session : i \in EventsOfKind(cp.covers, "captured")}
LaunchMode(cp, agent) ==
  LET keys == SessionsIn(cp)
      best == CHOOSE s \in keys : \A t \in keys : t <= s
  IN IF keys # {} /\ ProviderOf[best] = agent THEN "native_resume" ELSE "checkpoint_seed"

(* A mismatch needs both sides known; the remote of the repository makes   *)
(* a baseline of any checkpoint.  Branches and dirty files are left out.   *)
DetectDrift(cp) == [head |-> cp.head # 0 /\ tree # 0 /\ cp.head # tree]
IsClean(drift) == ~drift.head

-------------------------------------------------------------------------------
Holds(c, held) == call' = [call EXCEPT ![c] = held]
At(c, ops, step) == call[c].step = step /\ call[c].op \in ops
Database == <<trail, stored>>
World == <<wall, setBacks, tree>>

(* The first read of a call.                                               *)
Coming(op, step) == [NoCall EXCEPT !.op = op, !.step = step, !.from = Len(trail), !.shelf = stored]
Begins(c, held) ==
  /\ call[c] = NoCall
  /\ Holds(c, held)
  /\ UNCHANGED <<Database, World>>
Refused(c) == Begins(c, [NoCall EXCEPT !.step = "refused"])

(* create_checkpoint and handoff_workstream: the events, the worktree and  *)
(* the clock, the checkpoint; a handoff also appends its event, which gets *)
(* its time last.                                                          *)
LoadWorkstream(c) ==
  \E op \in {"checkpoint", "handoff"} : Begins(c, [Coming(op, "build") EXCEPT !.seen = Len(trail)])
BuildCheckpoint(c) ==
  /\ At(c, {"checkpoint", "handoff"}, "build")
  /\ Holds(c, [call[c] EXCEPT !.step = "save",
                 !.cp = [id |-> c, at |-> wall, covers |-> call[c].seen, head |-> tree]])
  /\ UNCHANGED <<Database, World>>
SaveCheckpoint(c) ==
  /\ At(c, {"checkpoint", "handoff"}, "save")
  /\ stored' = stored \cup {call[c].cp}
  /\ IF call[c].op = "checkpoint" THEN Holds(c, [call[c] EXCEPT !.step = "answered"])
     ELSE Holds(c, [call[c] EXCEPT !.step = "stamp",
            !.event = [kind |-> "handoff.created", at |-> 0, id |-> Unset, cp |-> call[c].cp]])
  /\ UNCHANGED <<trail, World>>

(* continue: the newest checkpoint, then the worktree and the clock.       *)
LatestCheckpoint(c) ==
  IF stored = {} THEN Refused(c)
  ELSE \E a \in Agents : Begins(c, [Coming("continue", "prepare") EXCEPT !.to = a, !.cp = Newest(stored)])
Prepare(c) ==
  /\ At(c, {"continue"}, "prepare")
  /\ Holds(c, [call[c] EXCEPT !.step = "append",
       !.event = [kind |-> "handoff.created", at |-> wall, id |-> c, cp |-> call[c].cp, agent |-> call[c].to,
                  mode |-> LaunchMode(call[c].cp, call[c].to),
                  clean |-> IsClean(DetectDrift(call[c].cp))]])
  /\ UNCHANGED <<Database, World>>

(* accept_handoff: a handoff or a checkpoint may be named and has to be    *)
(* there, or the agent that accepts; the newest handoff that matches is    *)
(* accepted, if it is for this agent.  Without a match the acceptance      *)
(* names none.  The handoff is looked up again before the clock is read,   *)
(* and is there again: rows stay.                                          *)
AcceptArgs ==
  LET ids == Calls \cup {0}
      Naming(h, p, a) == [handoff |-> h, checkpoint |-> p, agent |-> a]
  IN {Naming(h, Unset, Unset) : h \in ids} \cup {Naming(Unset, p, Unset) : p \in ids}
     \cup {Naming(Unset, Unset, a) : a \in Agents \cup {Unset}}
Matching(args) ==
  {r \in ListHandoffs(Len(trail)) :
     args.handoff \in {Unset, r.id} /\ args.checkpoint \in {Unset, r.cp}}
Acceptable(args) ==
  /\ args.checkpoint = Unset \/ \E cp \in stored : cp.id = args.checkpoint
  /\ args.handoff = Unset \/ Matching(args) # {}
  /\ Matching(args) = {} \/ args.agent \in {Unset, Newest(Matching(args)).agent}
MatchHandoff(c) ==
  \E args \in AcceptArgs :
    IF ~Acceptable(args) THEN Refused(c)
    ELSE LET id == IF Matching(args) = {} THEN Unset ELSE Newest(Matching(args)).id
         IN Begins(c, [Coming("accept", "stamp") EXCEPT
                         !.event = [kind |-> "handoff.accepted", at |-> 0, id |-> id]])

(* claim_files reports who claimed before, complete_workstream refuses to  *)
(* complete twice.                                                         *)
EarlierClaims(paths) == {i \in EventsOfKind(Len(trail), "files.claimed") : trail[i].paths \cap paths # {}}
ReadClaims(c) ==
  \E paths \in ClaimedPaths :
    Begins(c, [Coming("claim", "stamp") EXCEPT
      !.told = EarlierClaims(paths), !.paths = paths,
      !.event = [kind |-> "files.claimed", at |-> 0, paths |-> paths]])
ReadCompletion(c) ==
  IF deriveWorkstreamStatus(Len(trail)) = "completed" THEN Refused(c)
  ELSE Begins(c, [Coming("complete", "stamp") EXCEPT !.event = [kind |-> "workstream.completed", at |-> 0]])

StampEvent(c) ==
  /\ call[c].step = "stamp"
  /\ Holds(c, [call[c] EXCEPT !.step = "append", !.event.at = wall])
  /\ UNCHANGED <<Database, World>>
AppendOne(c) ==
  /\ call[c].step = "append"
  /\ trail' = Append(trail, call[c].event)
  /\ Holds(c, [call[c] EXCEPT !.step = "answered", !.row = Len(trail) + 1])
  /\ UNCHANGED <<stored, World>>

(* Hooks append what happened, late or not; somebody works in the tree;    *)
(* time passes, and is corrected now and then.                             *)
CaptureEvent ==
  /\ Cardinality(EventsOfKind(Len(trail), "captured")) < MaxCaptured
  /\ \E s \in AgentSessions, t \in 0 .. wall : trail' = Append(trail, Captured(s, t))
  /\ UNCHANGED <<stored, World, call>>
WorkInTree == tree < MaxCommits /\ tree' = tree + 1 /\ UNCHANGED <<Database, wall, setBacks, call>>
ClockMoves ==
  /\ \/ wall < MaxWall /\ wall' = wall + 1 /\ UNCHANGED setBacks
     \/ wall > 0 /\ setBacks < MaxSetBacks /\ wall' = wall - 1 /\ setBacks' = setBacks + 1
  /\ UNCHANGED <<Database, tree, call>>

CallStep(c) ==
  \/ LoadWorkstream(c) \/ BuildCheckpoint(c) \/ SaveCheckpoint(c) \/ LatestCheckpoint(c) \/ Prepare(c)
  \/ MatchHandoff(c) \/ ReadClaims(c) \/ ReadCompletion(c) \/ StampEvent(c) \/ AppendOne(c)
HandoffsNext == (\E c \in Calls : CallStep(c)) \/ CaptureEvent \/ WorkInTree \/ ClockMoves

HandoffsSpec == HandoffsInit /\ [][HandoffsNext]_handoffVars

-------------------------------------------------------------------------------
(* Properties                                                              *)

Answered(ops) == {c \in Calls : call[c].step = "answered" /\ call[c].op \in ops}
(* The row of c was there when d came.                                     *)
AppendedBefore(c, d) == call[c].row <= call[d].from
Handovers == EventsOfKind(Len(trail), "handoff.created")

(* An acceptance that was answered shows in the status of its handoff,     *)
(* whatever the clocks said.  While the clock is not set back, what is     *)
(* shown is no acceptance that another came after.                         *)
AcknowledgementsShow ==
  \A c \in Answered({"accept"}) : call[c].event.id # Unset =>
    \E r \in ListHandoffs(Len(trail)) :
      /\ r.id = call[c].event.id /\ r.shown # 0
      /\ setBacks = 0 /\ r.shown = call[c].row =>
           \A d \in Answered({"accept"}) : call[d].event.id = r.id => ~AppendedBefore(c, d)

(* The status of a workstream: completed for ever once it is; with a clock *)
(* that is not set back, active when an acceptance came after every        *)
(* handoff, and handed off when a handoff came after every acceptance.     *)
StatusIsCurrent ==
  LET status == deriveWorkstreamStatus(Len(trail))
      Since(c, kind) == \A i \in EventsOfKind(Len(trail), kind) : i <= call[c].from
  IN /\ status = "completed" <=> EventsOfKind(Len(trail), "workstream.completed") # {}
     /\ setBacks = 0 /\ status # "completed" =>
          /\ \A c \in Answered({"accept"}) : Since(c, "handoff.created") => status = "active"
          /\ \A c \in Answered({"handoff", "continue"}) :
               Since(c, "handoff.accepted") => status = "handed_off"

(* A call that comes after a completion does not complete again, and a     *)
(* claim that comes after a claim of one of its paths is told.             *)
LaterCallsAreTold ==
  /\ \A c, d \in Answered({"complete"}) : c # d => ~AppendedBefore(c, d)
  /\ \A c, d \in Answered({"claim"}) :
       AppendedBefore(c, d) /\ call[c].paths \cap call[d].paths # {} => call[c].row \in call[d].told

(* A handoff names a checkpoint that is stored.  handoff_workstream packs  *)
(* all that was recorded when it was called; continue takes no checkpoint  *)
(* on the shelf that a later one replaces: one made by a call that came    *)
(* when it was there already.  A drift that is reported is one.            *)
HandoffsCarryEvidence ==
  /\ \A i \in Handovers : trail[i].cp \in stored
  /\ \A c \in Answered({"handoff"}) : call[c].cp.covers >= call[c].from
  /\ \A c \in Answered({"continue"}) : setBacks = 0 =>
       \A p \in call[c].shelf : p.id \in Calls /\ p.at # call[c].cp.at => call[c].cp \notin call[p.id].shelf
  /\ \A c \in Answered({"continue"}) : ~call[c].event.clean => call[c].cp.head < tree

(* All of it, of every interleaving of the calls.                          *)
HandoffsAreSound ==
  AcknowledgementsShow /\ StatusIsCurrent /\ LaterCallsAreTold /\ HandoffsCarryEvidence

(* Statements that overlapping calls, an unborn branch or a session of     *)
(* another agent refute: every earlier claim is reported                   *)
(* (internal/mcp/handlers.go:877); a second completion is no event         *)
(* (internal/mcp/handlers_test.go:819); a clean drift report compared      *)
(* something (internal/launch/launch.go:162); the target resumes its own   *)
(* session if there is one (docs/architecture.md:196).                     *)
EarlierClaimsAreReported ==
  \A c, d \in Answered({"claim"}) :
    call[c].row < call[d].row /\ call[c].paths \cap call[d].paths # {} => call[c].row \in call[d].told
CompletedOnce == Cardinality(EventsOfKind(Len(trail), "workstream.completed")) <= 1
CleanIsVerified == \A c \in Answered({"continue"}) : call[c].event.clean => call[c].cp.head # 0
OwnSessionIsResumed ==
  \A c \in Answered({"continue"}) :
    (\E s \in SessionsIn(call[c].cp) : ProviderOf[s] = call[c].to) => call[c].event.mode = "native_resume"
===============================================================================
