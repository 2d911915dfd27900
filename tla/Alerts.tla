-------------------------------- MODULE Alerts ---------------------------------
(***************************************************************************)
(* The threshold alerts of platform/src/alerts.ts: the cron sweep that     *)
(* measures a window of each rule that is due, and on a breach appends an  *)
(* alert.fired event and posts to the channels of the rule.                *)
(*                                                                         *)
(* Time is counted in half windows; a window of one grid slot is two ticks *)
(* long and ends on the grid.  A sweep keeps the time and the rows it read *)
(* when it started, and ticks of the cron may overlap.                     *)
(***************************************************************************)
EXTENDS Integers, FiniteSets

CONSTANTS
  Rules,          \* rule ids, in the order of the sweep
  Sweepers,       \* ticks of the cron under way
  Levels,         \* what a measurement may yield
  Breaching,      \* the levels for which the comparator holds
  RefireWindows,  \* ALERT_REFIRE_WINDOWS
  SweepLimit,     \* ALERT_SWEEP_RULE_LIMIT
  MaxAlertTime,   \* bound of the clock
  MaxLateSpans,   \* bound: measurements that change after their window closed
  MaxAlertFaults  \* bound: sweeps that die or calls that fail

ASSUME AlertsAssumption ==
  /\ IsFiniteSet(Rules) /\ Rules \subseteq Nat /\ Breaching \subseteq Levels
  /\ RefireWindows \in Nat \ {0} /\ SweepLimit \in Nat \ {0}
  /\ MaxAlertTime \in Nat /\ MaxLateSpans \in Nat /\ MaxAlertFaults \in Nat

VARIABLES
  alertClock,  \* now
  level,       \* what a window that ends at each grid point measures
  rule,        \* alert_rules: [active, evaluated, fired, state]
  firings,     \* alert.fired events of each rule: [window, value]
  announced,   \* what was posted to the channels of each rule
  sweeper,     \* what each sweep is about to do
  lateSpans, alertFaults,
  unannounced, \* history: firings whose sweep died, or whose post failed
  rejected     \* history: did a trigger abort the statements of an evaluation

alertVars == <<alertClock, level, rule, firings, announced, sweeper, lateSpans,
               alertFaults, unannounced, rejected>>

Never == -1
Window == 2
GridEnd(now) == (now \div Window) * Window  \* alertWindow
GridPoints == {t \in 0 .. MaxAlertTime : t = GridEnd(t)}

NoRule == [active |-> FALSE, evaluated |-> Never, fired |-> Never, state |-> "absent"]

AlertsInit ==
  /\ alertClock = 0
  /\ level \in [GridPoints -> Levels]
  /\ rule = [r \in Rules |-> NoRule]
  /\ firings = [r \in Rules |-> {}]
  /\ announced = [r \in Rules |-> {}]
  /\ sweeper = [s \in Sweepers |-> [at |-> "idle"]]
  /\ lateSpans = 0 /\ alertFaults = 0
  /\ unannounced = [r \in Rules |-> {}]
  /\ rejected = FALSE

AlertTick ==
  /\ alertClock < MaxAlertTime
  /\ alertClock' = alertClock + 1
  /\ UNCHANGED <<level, rule, firings, announced, sweeper, lateSpans, alertFaults, unannounced, rejected>>

(* Ingest stores spans of a window that has already been measured.         *)
SpansArriveLate ==
  /\ lateSpans < MaxLateSpans
  /\ lateSpans' = lateSpans + 1
  /\ \E t \in GridPoints, v \in Levels : v # level[t] /\ level' = [level EXCEPT ![t] = v]
  /\ UNCHANGED <<alertClock, rule, firings, announced, sweeper, alertFaults, unannounced, rejected>>

(* createAlertRule; a rule is never made again, and disabling is for good. *)
CreateRule(r) ==
  /\ rule[r] = NoRule
  /\ rule' = [rule EXCEPT ![r] = [NoRule EXCEPT !.active = TRUE, !.state = "ok"]]
  /\ UNCHANGED <<alertClock, level, firings, announced, sweeper, lateSpans, alertFaults, unannounced, rejected>>
DisableRule(r) ==
  /\ rule[r].active
  /\ rule' = [rule EXCEPT ![r].active = FALSE]
  /\ UNCHANGED <<alertClock, level, firings, announced, sweeper, lateSpans, alertFaults, unannounced, rejected>>

-------------------------------------------------------------------------------
SweeperGoto(s, next) == sweeper' = [sweeper EXCEPT ![s] = next]
(* The rule that comes first of those a sweep has left, by its id, and the *)
(* sweep after it is done with, for better or worse.                       *)
NextOf(ids) == CHOOSE r \in ids : \A q \in ids : r <= q
This(s) == NextOf(DOMAIN sweeper[s].rows)
Sweeping(now, rows) == IF DOMAIN rows = {} THEN [at |-> "idle"] ELSE [at |-> "rule", now |-> now, rows |-> rows]
NextRule(s) ==
  SweeperGoto(s, Sweeping(sweeper[s].now, [r \in DOMAIN sweeper[s].rows \ {This(s)} |-> sweeper[s].rows[r]]))

(* DUE_RULES_SQL: half a window since the last evaluation, in the order of *)
(* the ids, bounded.                                                       *)
Due(r) ==
  /\ rule[r].active
  /\ rule[r].evaluated = Never \/ 2 * (alertClock - rule[r].evaluated) >= Window
DueRules == {r \in Rules : Due(r) /\ Cardinality({q \in Rules : Due(q) /\ q < r}) < SweepLimit}

(* alertsScheduled reads the clock and the rows of the rules once.         *)
StartSweep(s) ==
  /\ sweeper[s].at = "idle" /\ DueRules # {}
  /\ SweeperGoto(s, Sweeping(alertClock, [r \in DueRules |-> rule[r]]))
  /\ UNCHANGED <<alertClock, level, rule, firings, announced, lateSpans, alertFaults, unannounced, rejected>>

(* decideFire: on the transition, and then once per RefireWindows windows. *)
Fires(row, window, breaching) ==
  /\ breaching
  /\ row.state # "breaching" \/ row.fired = Never \/ window - row.fired >= RefireWindows * Window

(* evaluateRule measures and decides, from the row the sweep read ...      *)
MeasureRule(s) ==
  /\ sweeper[s].at = "rule"
  /\ LET w == GridEnd(sweeper[s].now)
         breaching == level[w] \in Breaching
     IN  SweeperGoto(s, [at |-> "commit", now |-> sweeper[s].now, rows |-> sweeper[s].rows,
                         firing |-> [window |-> w, value |-> level[w]],
                         fires |-> Fires(sweeper[s].rows[This(s)], w, breaching),
                         state |-> IF breaching THEN "breaching" ELSE "ok"])
  /\ UNCHANGED <<alertClock, level, rule, firings, announced, lateSpans, alertFaults, unannounced, rejected>>

RegressesNothing(r, evaluated, fired) == FALSE  \* mutant: without the trigger
(* alert_rules_monotone_evaluation                                         *)
Regresses(r, evaluated, fired) == evaluated < rule[r].evaluated \/ fired < rule[r].fired
(* events_reject_payload_conflict: the id holds the rule and the window.   *)
SameWindow(r, firing) == {f \in firings[r] : f.window = firing.window}
PayloadConflicts(r, firing) == \E f \in SameWindow(r, firing) : f.value # firing.value

(* ... then writes: the bookkeeping alone, or in one batch with the event. *)
RecordEvaluation(s, r) ==
  /\ ~sweeper[s].fires /\ ~Regresses(r, sweeper[s].now, rule[r].fired)
  /\ rule' = [rule EXCEPT ![r].evaluated = sweeper[s].now, ![r].state = sweeper[s].state]
  /\ NextRule(s)
  /\ UNCHANGED <<firings, alertFaults, rejected>>
RecordFire(s, r) ==
  /\ sweeper[s].fires /\ ~Regresses(r, sweeper[s].now, sweeper[s].firing.window)
  /\ ~PayloadConflicts(r, sweeper[s].firing)
  /\ rule' = [rule EXCEPT ![r].evaluated = sweeper[s].now, ![r].state = "breaching",
                          ![r].fired = sweeper[s].firing.window]
  /\ firings' = [firings EXCEPT ![r] = @ \cup {sweeper[s].firing}]
  /\ SweeperGoto(s, [at |-> "announce", now |-> sweeper[s].now, rows |-> sweeper[s].rows, firing |-> sweeper[s].firing])
  /\ UNCHANGED <<alertFaults, rejected>>
(* A statement that a trigger aborts, or that fails, takes the batch with  *)
(* it; the sweep logs and goes on with the next rule.                      *)
EvaluationFails(s, r) ==
  /\ IF \/ Regresses(r, sweeper[s].now, IF sweeper[s].fires THEN sweeper[s].firing.window ELSE rule[r].fired)
        \/ sweeper[s].fires /\ PayloadConflicts(r, sweeper[s].firing)
     THEN /\ rejected' = (rejected \/ (sweeper[s].fires /\ PayloadConflicts(r, sweeper[s].firing)))
          /\ UNCHANGED alertFaults
     ELSE alertFaults < MaxAlertFaults /\ alertFaults' = alertFaults + 1 /\ UNCHANGED rejected
  /\ NextRule(s)
  /\ UNCHANGED <<rule, firings>>
CommitEvaluation(s) ==
  /\ sweeper[s].at = "commit"
  /\ LET r == This(s)
     IN  RecordEvaluation(s, r) \/ RecordFire(s, r) \/ EvaluationFails(s, r)
  /\ UNCHANGED <<alertClock, level, announced, lateSpans, unannounced>>

(* dispatchChannels: a channel that fails is logged and left at that.      *)
Announce(s) ==
  /\ sweeper[s].at = "announce"
  /\ LET r == This(s)
     IN  \/ /\ announced' = [announced EXCEPT ![r] = @ \cup {sweeper[s].firing}]
            /\ UNCHANGED <<alertFaults, unannounced>>
         \/ /\ alertFaults < MaxAlertFaults /\ alertFaults' = alertFaults + 1
            /\ unannounced' = [unannounced EXCEPT ![r] = @ \cup {sweeper[s].firing}]
            /\ UNCHANGED announced
  /\ NextRule(s)
  /\ UNCHANGED <<alertClock, level, rule, firings, lateSpans, rejected>>

SweeperDies(s) ==
  /\ sweeper[s].at # "idle" /\ alertFaults < MaxAlertFaults
  /\ alertFaults' = alertFaults + 1
  /\ unannounced' = IF sweeper[s].at = "announce"
                    THEN [unannounced EXCEPT ![This(s)] = @ \cup {sweeper[s].firing}]
                    ELSE unannounced
  /\ SweeperGoto(s, [at |-> "idle"])
  /\ UNCHANGED <<alertClock, level, rule, firings, announced, lateSpans, rejected>>

AlertsNext ==
  \/ AlertTick \/ SpansArriveLate
  \/ \E r \in Rules : CreateRule(r) \/ DisableRule(r)
  \/ \E s \in Sweepers :
       StartSweep(s) \/ MeasureRule(s) \/ CommitEvaluation(s) \/ Announce(s) \/ SweeperDies(s)

-------------------------------------------------------------------------------
Announcing(r) ==
  {sweeper[s].firing : s \in {t \in Sweepers : sweeper[t].at = "announce" /\ This(t) = r}}

(* However sweeps overlap and die: a rule remembers exactly the last       *)
(* firing the event log holds of it, no window is in the log twice, what   *)
(* the channels were told is in the log with the value they were told, and *)
(* a firing nobody was told of is one whose sweep died or whose post       *)
(* failed.                                                                 *)
FiringsAreEvidence ==
  \A r \in Rules :
    /\ \A f \in firings[r] : f.window <= rule[r].fired /\ SameWindow(r, f) = {f}
    /\ rule[r].fired # Never => \E f \in firings[r] : f.window = rule[r].fired
    /\ firings[r] = announced[r] \cup Announcing(r) \cup unannounced[r]

(* A window that is evaluated again is absorbed (platform/src/alerts.ts in *)
(* evaluateRule: "re-evaluating the same window mints the same id and is   *)
(* absorbed rather than duplicated"): no evaluation is lost to the         *)
(* payload-conflict trigger.                                               *)
ReevaluationIsAbsorbed == ~rejected
===============================================================================
