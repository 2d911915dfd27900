------------------------------ MODULE OtlpExports ------------------------------
(***************************************************************************)
(* POST /v1/otlp: handleOtlpExport of platform/src/index.ts, the converter *)
(* of platform/src/otlp.ts, and the trigger of migration 0003 that refuses *)
(* an event id with another payload.  An exporter sends the spans it has,  *)
(* in any grouping and order and as often as it likes; the ids of the      *)
(* events are computed from the spans, so the log keeps one copy.          *)
(***************************************************************************)
EXTENDS Integers, Sequences, FiniteSetsExt, Functions

CONSTANTS
  TelemetrySpans,  \* the spans an application has made
  OtlpSpan,          \* [trace, parent, from, to, key, service, tokens, fault] of a span
  NoKey,           \* an attribute, a parent or a service name that is absent
  BadServices,     \* services whose resource attributes are refused
  Tiers,           \* capture tiers the exporter asks for
  SpanOrders,      \* orders in which an exporter may have the spans
  MaxSpansSent,    \* bound: spans in one export
  MaxExports       \* bound: exports

(* What is wrong with a span: its ids; its session attribute; or anything  *)
(* else (the other attributes, the name, the times).                       *)
Faults == {"none", "ids", "key", "other"}
ASSUME OtlpAssumption ==
  \A s \in TelemetrySpans : OtlpSpan[s].fault \in Faults /\ OtlpSpan[s].from <= OtlpSpan[s].to

VARIABLES
  telemetry,  \* the events of the log that came by this route
  sent        \* history: the exports that were answered, [spans, tier, ok]

otlpVars == <<telemetry, sent>>
OtlpInit == telemetry = {} /\ sent = {}

-------------------------------------------------------------------------------
(* An event: its id is computed from its class, what it is of and when it  *)
(* happened.  "kept" is what the capture tier leaves of the attributes.    *)
EventOf(class, of, at, session) ==
  [class |-> class, of |-> of, at |-> at, observed |-> at, session |-> session,
   parents |-> {}, kept |-> {}, tokens |-> 0, agent |-> NoKey]
IdOf(e) == <<e.class, e.of, e.at>>

(* The first of some spans of an export.                                   *)
PlaceIn(spans, s) == CHOOSE i \in DOMAIN spans : spans[i] = s
FirstIn(spans, S) == CHOOSE s \in S : \A t \in S : PlaceIn(spans, s) <= PlaceIn(spans, t)

(* The scan before the conversion, and its session key of a trace: that of *)
(* the first span with a usable one.                                       *)
Scanned(spans) == {s \in Range(spans) : OtlpSpan[s].fault # "ids"}
UsableKey(s) == OtlpSpan[s].fault \notin {"ids", "key"} /\ OtlpSpan[s].key # NoKey
TraceKey(spans, t) ==
  LET with == {s \in Range(spans) : OtlpSpan[s].trace = t /\ UsableKey(s)}
  IN IF with = {} THEN t ELSE OtlpSpan[FirstIn(spans, with)].key
SessionKey(spans, s) ==
  IF OtlpSpan[s].key # NoKey THEN OtlpSpan[s].key ELSE TraceKey(spans, OtlpSpan[s].trace)

(* A span is refused alone, or with all the spans of its resource.         *)
Rejected(s) == OtlpSpan[s].fault # "none" \/ OtlpSpan[s].service \in BadServices
AcceptedSpans(spans) == {s \in Range(spans) : ~Rejected(s)}

applyTier(tier) ==
  IF tier = "full" THEN {"plain", "body"} ELSE IF tier = "metadata" THEN {"plain"} ELSE {}

SpanEvents(spans, tier, s) ==
  LET key == SessionKey(spans, s)
      parents == {p \in Scanned(spans) : p = OtlpSpan[s].parent /\ OtlpSpan[p].trace = OtlpSpan[s].trace}
  IN {[EventOf("span-start", s, OtlpSpan[s].from, key) EXCEPT !.agent = OtlpSpan[s].service,
         !.parents = {<<"span-start", p, OtlpSpan[p].from>> : p \in parents}],
      [EventOf("span-end", s, OtlpSpan[s].to, key) EXCEPT !.kept = applyTier(tier), !.agent = OtlpSpan[s].service]}

(* The bounds and the tokens of a trace are those of the spans of this     *)
(* export; its session is that of the first of them.                       *)
From(S) == Min({OtlpSpan[s].from : s \in S})
To(S) == Max({OtlpSpan[s].to : s \in S})
TokensOf == [s \in TelemetrySpans |-> OtlpSpan[s].tokens]
TraceEvents(spans, t) ==
  LET mine == {s \in AcceptedSpans(spans) : OtlpSpan[s].trace = t}
      key == SessionKey(spans, FirstIn(spans, mine))
  IN {EventOf("trace-start", t, From(mine), key),
      [EventOf("trace-end", t, To(mine), key) EXCEPT !.tokens = SumFunctionOnSet(TokensOf, mine)]}
SessionEvent(spans, key) ==
  LET mine == {s \in AcceptedSpans(spans) : SessionKey(spans, s) = key}
      named == {s \in mine : OtlpSpan[s].service # NoKey}
  IN [EventOf("session-start", key, From(mine), key) EXCEPT
        !.agent = IF named = {} THEN NoKey ELSE OtlpSpan[FirstIn(spans, named)].service]

convertOtlpExport(spans, tier) ==
  LET S == AcceptedSpans(spans)
  IN (UNION {SpanEvents(spans, tier, s) : s \in S})
       \cup (UNION {TraceEvents(spans, t) : t \in {OtlpSpan[s].trace : s \in S}})
       \cup {SessionEvent(spans, key) : key \in {SessionKey(spans, s) : s \in S}}

-------------------------------------------------------------------------------
(* observed_at of an event is its own instant.                             *)
ObservedAtEndOfExport(events) ==  \* mutant: one instant for the whole export
  {[e EXCEPT !.observed = Max({f.at : f \in events})] : e \in events}
Observed(events) == {[e EXCEPT !.observed = e.at] : e \in events}

InOrder(spans, order) ==
  /\ Range(spans) \subseteq Range(order)
  /\ \A i, j \in DOMAIN spans : i < j => PlaceIn(order, spans[i]) < PlaceIn(order, spans[j])
Exports == {spans \in UNION {[1 .. n -> TelemetrySpans] : n \in 1 .. MaxSpansSent} :
              \E order \in SpanOrders : InOrder(spans, order)}
Conversion == [x \in Exports \X Tiers |-> Observed(convertOtlpExport(x[1], x[2]))]

Conflicts(events) == \E e \in events, f \in telemetry : IdOf(e) = IdOf(f) /\ e # f

(* The batch lands as a whole or is refused; nothing converted is a 400.   *)
handleOtlpExport(spans, tier) ==
  /\ Cardinality(sent) < MaxExports
  /\ LET events == Conversion[spans, tier]
         ok == ~Conflicts(events) /\ events # {}
     IN /\ sent' = sent \cup {[spans |-> spans, tier |-> tier, ok |-> ok]}
        /\ telemetry' = IF ok THEN telemetry \cup events ELSE telemetry

OtlpNext == \E spans \in Exports, tier \in Tiers : handleOtlpExport(spans, tier)

-------------------------------------------------------------------------------
(* Two exports are composed alike when whatever session they share has the *)
(* same spans in both, in one order and under one tier.  (A key may spell  *)
(* a trace.)                                                               *)
Names(s) == {OtlpSpan[s].trace} \cup ({OtlpSpan[s].key} \ {NoKey})
Related(s, t) == Names(s) \cap Names(t) # {}
Kin(spans, s) ==
  LET kin == {t \in Range(spans) : \E u \in Range(spans) : Related(s, u) /\ Related(u, t)}
  IN {pair \in kin \X kin : PlaceIn(spans, pair[1]) <= PlaceIn(spans, pair[2])}
ComposedAlike(x, y) ==
  /\ x.tier = y.tier
  /\ \A s \in Range(x.spans), t \in Range(y.spans) :
       Related(s, t) => Kin(x.spans, s) = Kin(y.spans, t)

Of(class, of) == {e \in telemetry : e.class = class /\ e.of = of}

(* "Replays of the same telemetry [...] dedupe": an export that repeats    *)
(* sessions among other sessions is never refused, unless it has nothing   *)
(* but rejected spans; of an export that was accepted every sound span has *)
(* one start and one end in the log, in one session, whatever was rejected *)
(* beside it; a rejected span leaves no event, and its unusable session    *)
(* key reaches no sibling; and a body that no export sent in full is not   *)
(* in the log.                                                             *)
ExportsAreAbsorbed ==
  /\ \A x \in sent :
       (\A y \in sent : ComposedAlike(x, y)) => (x.ok <=> AcceptedSpans(x.spans) # {})
  /\ \A x \in sent : x.ok => \A s \in AcceptedSpans(x.spans) :
       \E e, f \in telemetry :
         Of("span-start", s) = {e} /\ Of("span-end", s) = {f} /\ e.session = f.session
  /\ \A e \in telemetry :
       /\ e.class \in {"span-start", "span-end"} => ~Rejected(e.of)
       /\ \E t \in TelemetrySpans : OtlpSpan[t].fault # "key" /\ e.session \in Names(t)
       /\ "body" \in e.kept => \E x \in sent : x.tier = "full" /\ e.of \in Range(x.spans)

(* "The same span is byte-identical in every batch that carries it"        *)
(* (handleOtlpExport).                                                     *)
SpansAreIdentical ==
  \A x, y \in sent : x.tier = y.tier =>
    \A s \in AcceptedSpans(x.spans) \cap Range(y.spans) :
      SpanEvents(x.spans, x.tier, s) = SpanEvents(y.spans, y.tier, s)
===============================================================================
