------------------------------- MODULE Analytics -------------------------------
(***************************************************************************)
(* The reads of platform/src/analytics.ts over the span rows of one        *)
(* workspace: a series of buckets, the totals of each group, and a funnel. *)
(* A funnel counts the traces in its scope, refuses too many, and then     *)
(* reads the rows; a summary reads counts and costs in two statements.     *)
(* Ingest inserts rows and moves a start to an earlier time meanwhile.     *)
(***************************************************************************)
EXTENDS Integers, Sequences, FiniteSets, FiniteSetsExt, Functions

CONSTANTS
  SpanIds,          \* span ids, in their order
  LastStart,        \* bound of the start times
  BucketWidth,      \* what one ts_bucket spans, and one interval of a series
  TraceOf,          \* the trace of a span
  GroupOf,          \* its provider and model
  StepKinds,        \* what a step of a funnel may match
  KindOf,           \* what a span matches
  MaxSteps,         \* MAX_FUNNEL_STEPS
  MaxFunnelTraces   \* MAX_FUNNEL_TRACES

ASSUME AnalyticsAssumption ==
  /\ SpanIds \subseteq Nat /\ IsFiniteSet(SpanIds)
  /\ LastStart \in Nat /\ BucketWidth \in Nat \ {0} /\ MaxSteps \in Nat

VARIABLES
  startOf,  \* the rows: the start of each span, or Absent
  query,    \* the request that is served
  answer    \* its answer: "none" before it, "refused", or what was read and computed

analyticsVars == <<startOf, query, answer>>

Absent == -1
NoQuery == [kind |-> "none"]
NoAnswer == [is |-> "none"]
Rows == {s \in SpanIds : startOf[s] # Absent}

AnalyticsInit ==
  startOf = [s \in SpanIds |-> Absent] /\ query = NoQuery /\ answer = NoAnswer

-------------------------------------------------------------------------------
(* appendObservationScope: the index is narrowed by buckets, and the exact *)
(* times decide.                                                           *)
Bucket(t) == t \div BucketWidth
Scope(since, until) ==
  {s \in Rows : Bucket(startOf[s]) >= Bucket(since) /\ startOf[s] >= since
                /\ Bucket(startOf[s]) <= Bucket(until) /\ startOf[s] <= until}
TracesOf(S) == {TraceOf[s] : s \in S}

(* evaluateTrace: each step takes the earliest span at or after the span   *)
(* of the step before.                                                     *)
SpanBefore(s, t) == startOf[s] < startOf[t] \/ (startOf[s] = startOf[t] /\ s < t)
Ordinal(s, S) == Cardinality({r \in S : SpanBefore(r, s)}) + 1
sortSpansAscending(S) == [n \in 1 .. Cardinality(S) |-> CHOOSE s \in S : Ordinal(s, S) = n]
TakeStep(spans, kind, n, before) ==  \* before: [at |-> index in spans, reached |-> steps satisfied]
  LET hits == {i \in before.at .. Len(spans) : kind \in KindOf[spans[i]]}
  IN IF before.reached < n - 1 \/ hits = {} THEN before ELSE [at |-> Min(hits), reached |-> n]
StepsTaken(spans, steps) ==
  LET taken[n \in 0 .. Len(steps)] ==
        IF n = 0 THEN [at |-> 1, reached |-> 0] ELSE TakeStep(spans, steps[n], n, taken[n - 1])
  IN taken
evaluateTrace(spans, steps) == StepsTaken(spans, steps)[Len(steps)].reached
computeFunnel(S, steps) ==
  LET reached == [t \in TracesOf(S) |->
        evaluateTrace(sortSpansAscending({s \in S : TraceOf[s] = t}), steps)]
  IN [n \in DOMAIN steps |-> Cardinality({t \in TracesOf(S) : reached[t] >= n})]

-------------------------------------------------------------------------------
(* POST /v1/analytics/funnel.                                              *)
postFunnel(steps, since, until) ==
  /\ query = NoQuery
  /\ query' = [kind |-> "funnel", steps |-> steps, since |-> since, until |-> until]
  /\ answer' = IF Cardinality(TracesOf(Scope(since, until))) > MaxFunnelTraces
               THEN [is |-> "refused"] ELSE NoAnswer
  /\ UNCHANGED startOf

ReadFunnelRows ==
  /\ query.kind = "funnel" /\ answer = NoAnswer
  /\ LET S == Scope(query.since, query.until)
     IN answer' = [is |-> "funnel", scanned |-> Cardinality(TracesOf(S)),
                   matched |-> computeFunnel(S, query.steps)]
  /\ UNCHANGED <<startOf, query>>

(* GET /v1/analytics/series: one point for each bucket that has rows.      *)
getSeries(since, until) ==
  /\ query = NoQuery
  /\ query' = [kind |-> "series", since |-> since, until |-> until]
  /\ LET S == Scope(since, until)
     IN answer' = [is |-> "series", points |-> [b \in {Bucket(startOf[s]) : s \in S} |->
                     Cardinality({s \in S : Bucket(startOf[s]) = b})]]
  /\ UNCHANGED startOf

(* GET /v1/analytics/summary: counts and costs of each group, by two       *)
(* statements that are sent together; a group that only the costs have     *)
(* seen is left out.  Every span costs one.                                *)
Spans(S, g) == Cardinality({s \in S : GroupOf[s] = g})
getSummary(since, until, first) ==
  /\ query = NoQuery
  /\ query' = [kind |-> "summary", since |-> since, until |-> until, first |-> first,
               read |-> Scope(since, until)]
  /\ UNCHANGED <<startOf, answer>>

ReadSecondSummary ==
  /\ query.kind = "summary" /\ answer = NoAnswer
  /\ LET S == Scope(query.since, query.until)
         counted == IF query.first = "counts" THEN query.read ELSE S
         costed == IF query.first = "counts" THEN S ELSE query.read
         groups == {GroupOf[s] : s \in counted}
     IN answer' = [is |-> "summary", spans |-> [g \in groups |-> Spans(counted, g)],
                   costs |-> [g \in groups |-> Spans(costed, g)]]
  /\ UNCHANGED <<startOf, query>>

Answered == query # NoQuery /\ answer # NoAnswer
EndQuery == Answered /\ query' = NoQuery /\ answer' = NoAnswer /\ UNCHANGED startOf

(* Ingest: a row appears, or its start moves to an earlier time.           *)
UpsertRow(s, t) ==
  /\ ~Answered
  /\ startOf[s] = Absent \/ t < startOf[s]
  /\ startOf' = [startOf EXCEPT ![s] = t]
  /\ UNCHANGED <<query, answer>>

AnalyticsNext ==
  \/ \E steps \in UNION {[1 .. n -> StepKinds] : n \in 1 .. MaxSteps}, since, until \in 0 .. LastStart :
       postFunnel(steps, since, until)
  \/ \E since, until \in 0 .. LastStart : getSeries(since, until)
  \/ \E since, until \in 0 .. LastStart, first \in {"counts", "costs"} : getSummary(since, until, first)
  \/ ReadFunnelRows \/ ReadSecondSummary \/ EndQuery
  \/ \E s \in SpanIds, t \in 0 .. LastStart : UpsertRow(s, t)

-------------------------------------------------------------------------------
Exactly(since, until) == {s \in Rows : since <= startOf[s] /\ startOf[s] <= until}

(* A trace goes through the first n steps when some spans of it, each at   *)
(* or after the one before, match them.                                    *)
GoesThrough(S, t, steps, n) ==
  \E f \in [1 .. n -> {s \in S : TraceOf[s] = t}] :
    /\ \A i \in 1 .. n : steps[i] \in KindOf[f[i]]
    /\ \A i \in 2 .. n : f[i - 1] = f[i] \/ SpanBefore(f[i - 1], f[i])

(* "D1 aggregate reads [...] are the CORRECTNESS source": the two-level    *)
(* pruning by buckets loses and adds no row; taking the earliest span at   *)
(* each step of a funnel never misses a trace that some other choice would *)
(* bring through, so no step matches more traces than the one before; the  *)
(* points of a series add up to its rows; and a summary that did not race  *)
(* with ingest has every group, with the costs of the spans it counts.     *)
AnswersAreExact ==
  Answered /\ answer.is # "refused" =>
    LET S == Exactly(query.since, query.until)
    IN /\ answer.is = "funnel" =>
            /\ answer.scanned = Cardinality(TracesOf(S))
            /\ \A n \in DOMAIN query.steps :
                 answer.matched[n] = Cardinality({t \in TracesOf(S) : GoesThrough(S, t, query.steps, n)})
       /\ answer.is = "series" =>
            /\ DOMAIN answer.points = {Bucket(startOf[s]) : s \in S}
            /\ SumFunctionOnSet(answer.points, DOMAIN answer.points) = Cardinality(S)
       /\ answer.is = "summary" /\ query.read = S =>
            /\ DOMAIN answer.spans = {GroupOf[s] : s \in S}
            /\ \A g \in DOMAIN answer.spans :
                 answer.spans[g] = answer.costs[g] /\ answer.costs[g] = Spans(S, g)
===============================================================================
