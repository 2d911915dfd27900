-------------------------------- MODULE Gateway --------------------------------
(***************************************************************************)
(* The model gateway of platform/src/gateway.ts: one virtual key with a    *)
(* budget, its row and its spend ledger in D1, the copy of the row and the *)
(* rate window in the edge cache (KV), and the calls proxied under it.     *)
(*                                                                         *)
(* Each await of a call is a step, so the checks, the charge and the       *)
(* mirroring of different calls interleave.  A write to the cache may fail *)
(* silently; an entry expires after its TTL at the latest.  A call is over *)
(* within one tick of the clock (UPSTREAM_TIMEOUT_MS).                     *)
(***************************************************************************)
EXTENDS Integers, Sequences, FiniteSets, Functions

CONSTANTS
  Callers,        \* calls under way
  RequestIds,     \* what requestIdentityKey and the millisecond yield
  Costs,          \* what a provider may report, in units
  Budget,         \* budget_amount
  RateLimit,      \* rate_limit_per_min
  EdgeTTL,        \* GATEWAY_KEY_KV_TTL_SECONDS, in ticks
  MaxGatewayTime, \* bound of the clock
  MaxCalls,       \* bound: calls that were let through
  MaxGatewayFaults \* bound: evictions and failing writes

ASSUME GatewayAssumption ==
  /\ Costs \subseteq Nat \ {0} /\ Budget \in Nat /\ RateLimit \in Nat \ {0}
  /\ EdgeTTL \in Nat /\ MaxGatewayTime \in Nat /\ MaxCalls \in Nat /\ MaxGatewayFaults \in Nat

VARIABLES
  gwNow,     \* the clock
  gwKey,     \* gateway_keys: [made, disabled, spent]
  ledger,    \* gateway_requests: [call, cost] by request id
  captured,  \* the call of each capture event on the spine, by request id
  edge,      \* the copy of the row in KV: [row, until], or NoEntry
  used,      \* the count of the rate window in KV
  caller,    \* what each call is about to do
  operator,  \* what createGatewayKey and disableGatewayKey are about to put
  calls,     \* history: number of calls let through
  disabledAt,\* history: when the key was disabled
  gatewayFaults,
  uncharged, \* history: calls whose batch failed
  shadowed   \* history: calls whose request id had been charged before

clock == <<gwNow, disabledAt>>
books == <<gwKey, ledger, captured>>
fates == <<uncharged, shadowed>>
gatewayVars == <<clock, books, edge, used, caller, operator, calls, gatewayFaults, fates>>

NoEntry == [until |-> 0]
Nobody == [made |-> FALSE]
NotYet == MaxGatewayTime + 1
NoCost == 0
Resting == [at |-> "rest"]
CallerGoto(c, next) == caller' = [caller EXCEPT ![c] = next]
Rest(c) == CallerGoto(c, Resting)

GatewayInit ==
  /\ gwKey = [made |-> FALSE, disabled |-> FALSE, spent |-> 0]
  /\ ledger = <<>> /\ captured = <<>>
  /\ edge = NoEntry /\ used = 0
  /\ caller = [c \in Callers |-> Resting]
  /\ operator = Nobody /\ gwNow = 0 /\ disabledAt = NotYet
  /\ calls = 0 /\ gatewayFaults = 0 /\ uncharged = {} /\ shadowed = {}

(* kvPut swallows a failure.                                               *)
KvPut(record) ==
  \/ edge' = [row |-> record, until |-> gwNow + EdgeTTL] /\ UNCHANGED gatewayFaults
  \/ /\ gatewayFaults < MaxGatewayFaults /\ gatewayFaults' = gatewayFaults + 1
     /\ UNCHANGED edge

(* createGatewayKey and disableGatewayKey: D1 first, then the cache.       *)
CreateKey ==
  /\ ~gwKey.made
  /\ gwKey' = [gwKey EXCEPT !.made = TRUE]
  /\ operator' = gwKey'
  /\ UNCHANGED <<clock, ledger, captured, edge, used, caller, calls, gatewayFaults, fates>>
DisableKey ==
  /\ gwKey.made /\ ~gwKey.disabled /\ operator = Nobody
  /\ gwKey' = [gwKey EXCEPT !.disabled = TRUE]
  /\ operator' = gwKey' /\ disabledAt' = gwNow
  /\ UNCHANGED <<gwNow, ledger, captured, edge, used, caller, calls, gatewayFaults, fates>>
WriteThrough ==
  /\ operator # Nobody
  /\ KvPut(operator)
  /\ operator' = Nobody
  /\ UNCHANGED <<clock, books, used, caller, calls, fates>>

GatewayTick ==
  /\ gwNow < MaxGatewayTime
  /\ \A c \in Callers : caller[c] # Resting => caller[c].started = gwNow
  /\ operator = Nobody
  /\ gwNow' = gwNow + 1
  /\ edge' = IF edge.until < gwNow' THEN NoEntry ELSE edge
  /\ UNCHANGED <<disabledAt, books, used, caller, operator, calls, gatewayFaults, fates>>
EntryExpires ==
  /\ edge # NoEntry /\ edge' = NoEntry
  /\ UNCHANGED <<clock, books, used, caller, operator, calls, gatewayFaults, fates>>
WindowPasses ==
  /\ used # 0 /\ used' = 0
  /\ UNCHANGED <<clock, books, edge, caller, operator, calls, gatewayFaults, fates>>

-------------------------------------------------------------------------------
(* resolveGatewayKey: the cache, or on a miss D1 and then the backfill.    *)
ReadEdge(c) ==
  /\ caller[c] = Resting /\ calls < MaxCalls
  /\ CallerGoto(c, IF edge = NoEntry THEN [at |-> "miss", started |-> gwNow]
                   ELSE [at |-> "gate", started |-> gwNow, record |-> edge.row])
  /\ UNCHANGED <<clock, books, edge, used, operator, calls, gatewayFaults, fates>>
ReadKey(c) ==
  /\ caller[c].at = "miss"
  /\ IF gwKey.made THEN CallerGoto(c, [at |-> "backfill", started |-> caller[c].started, record |-> gwKey]) ELSE Rest(c)
  /\ UNCHANGED <<clock, books, edge, used, operator, calls, gatewayFaults, fates>>
Backfill(c) ==
  /\ caller[c].at = "backfill"
  /\ KvPut(caller[c].record)
  /\ CallerGoto(c, [caller[c] EXCEPT !.at = "gate"])
  /\ UNCHANGED <<clock, books, used, operator, calls, fates>>

(* authorizeVirtualKey on the record, then checkRateLimit: a read ...      *)
Admissible(record) == ~record.disabled /\ record.spent < Budget
Gate(c) ==
  /\ caller[c].at = "gate"
  /\ IF Admissible(caller[c].record) /\ used < RateLimit
     THEN CallerGoto(c, [at |-> "count", started |-> caller[c].started, record |-> caller[c].record, used |-> used])
     ELSE Rest(c)
  /\ UNCHANGED <<clock, books, edge, used, operator, calls, gatewayFaults, fates>>
(* ... and a write.                                                        *)
CountCall(c) ==
  /\ caller[c].at = "count" /\ calls < MaxCalls
  /\ used' \in {caller[c].used + 1, used}
  /\ calls' = calls + 1
  /\ CallerGoto(c, [at |-> "call", started |-> caller[c].started, record |-> caller[c].record, call |-> calls + 1])
  /\ UNCHANGED <<clock, books, edge, operator, gatewayFaults, fates>>

Answered(c, id, cost) ==
  CallerGoto(c, [at |-> "capture", started |-> caller[c].started, record |-> caller[c].record,
                 call |-> caller[c].call, id |-> id, cost |-> cost])
(* proxyChatCompletions: a response of the cache is captured uncharged; so *)
(* is a provider that could not be reached, after its fallbacks, and an    *)
(* answer without a reported cost.                                         *)
AnswerFromCache(c) ==
  /\ caller[c].at = "call"
  /\ \E id \in RequestIds : Answered(c, id, NoCost)
  /\ UNCHANGED <<clock, books, edge, used, operator, calls, gatewayFaults, fates>>
CallProvider(c) ==
  /\ caller[c].at = "call"
  /\ \E id \in RequestIds, cost \in Costs \cup {NoCost} : Answered(c, id, cost)
  /\ UNCHANGED <<clock, books, edge, used, operator, calls, gatewayFaults, fates>>

With1(f, id, v) == [i \in DOMAIN f \cup {id} |-> IF i \in DOMAIN f THEN f[i] ELSE v]
ChargeAgain(id, cost) == cost  \* mutant: without the guard on the ledger row
(* UPDATE_BUDGET_SQL: unless the ledger has a row of this request.         *)
Charge(id, cost) == IF id \in DOMAIN ledger THEN 0 ELSE cost

(* recordCapture: the charge, the ledger row and the event in one batch;   *)
(* again without the event when the spine has another one of this id,      *)
(* whose latency, at least, is another.                                    *)
RecordCapture(c) ==
  /\ caller[c].at = "capture"
  /\ LET id == caller[c].id  cost == caller[c].cost
     IN  /\ gwKey' = [gwKey EXCEPT !.spent = @ + Charge(id, cost)]
         /\ ledger' = With1(ledger, id, [call |-> caller[c].call, cost |-> cost])
         /\ captured' = With1(captured, id, caller[c].call)
         /\ shadowed' = IF id \in DOMAIN ledger THEN shadowed \cup {caller[c].call} ELSE shadowed
         /\ IF cost # NoCost THEN CallerGoto(c, [at |-> "committed", started |-> caller[c].started, record |-> caller[c].record])
                             ELSE Rest(c)
  /\ UNCHANGED <<clock, edge, used, operator, calls, gatewayFaults, uncharged>>
(* The batch fails, or the Worker dies, before or after the commit.        *)
CaptureFails(c) ==
  /\ caller[c].at \in {"call", "capture", "committed", "mirror", "put"}
  /\ gatewayFaults < MaxGatewayFaults /\ gatewayFaults' = gatewayFaults + 1
  /\ uncharged' = IF caller[c].at \in {"call", "capture"} THEN uncharged \cup {caller[c].call} ELSE uncharged
  /\ Rest(c)
  /\ UNCHANGED <<clock, books, edge, used, operator, calls, shadowed>>

(* mirrorCommittedSpend: read D1, compare with the cache, put the record   *)
(* the call started with, but for the spend.                               *)
Committed(c) == [caller[c].record EXCEPT !.spent = gwKey.spent]
ReadCommitted(c) ==
  /\ caller[c].at = "committed"
  /\ CallerGoto(c, [at |-> "mirror", started |-> caller[c].started, record |-> Committed(c)])
  /\ UNCHANGED <<clock, books, edge, used, operator, calls, gatewayFaults, fates>>
ReadMirror(c) ==
  /\ caller[c].at = "mirror"
  /\ IF edge # NoEntry /\ edge.row.spent >= caller[c].record.spent
     THEN Rest(c) ELSE CallerGoto(c, [caller[c] EXCEPT !.at = "put"])
  /\ UNCHANGED <<clock, books, edge, used, operator, calls, gatewayFaults, fates>>
PutMirror(c) ==
  /\ caller[c].at = "put"
  /\ KvPut(caller[c].record)
  /\ Rest(c)
  /\ UNCHANGED <<clock, books, used, operator, calls, fates>>

GatewayNext ==
  \/ GatewayTick \/ CreateKey \/ DisableKey \/ WriteThrough \/ EntryExpires \/ WindowPasses
  \/ \E c \in Callers :
       ReadEdge(c) \/ ReadKey(c) \/ Backfill(c) \/ Gate(c) \/ CountCall(c)
         \/ AnswerFromCache(c) \/ CallProvider(c)
         \/ RecordCapture(c) \/ CaptureFails(c) \/ ReadCommitted(c) \/ ReadMirror(c) \/ PutMirror(c)

-------------------------------------------------------------------------------
(* The calls that are past the rate window and not yet captured.           *)
InFlight == {caller[c].call : c \in {d \in Callers : caller[d].at \in {"call", "capture"}}}
Booked == {ledger[i].call : i \in DOMAIN ledger}

(* The spend of the key is the sum of its ledger, whatever calls overlap,  *)
(* repeat an id, fail or die: no charge is lost to a concurrent one or     *)
(* made twice.  Every call has a row of its own unless its batch failed or *)
(* a call of the same id has the row.  The row and the event of an id are  *)
(* of one call, and the cache never enforces a spend or a revocation that  *)
(* D1 does not hold.                                                       *)
SpendIsTheLedger ==
  /\ gwKey.spent = SumFunction([i \in DOMAIN ledger |-> ledger[i].cost])
  /\ 1 .. calls = Booked \cup InFlight \cup uncharged \cup shadowed
  /\ \A i \in DOMAIN ledger : captured[i] = ledger[i].call
  /\ edge # NoEntry => edge.row.spent <= gwKey.spent /\ (edge.row.disabled => gwKey.disabled)

(* The spend of every captured call is recorded (platform/src/gateway.ts   *)
(* on the retry of recordCapture: "the spend must still be recorded").     *)
EverySpendIsRecorded == shadowed = {}

(* A revocation holds at the edge once the TTL of an entry has passed, and *)
(* the tick a call may last (docs/gateway.md: "Cached entries carry a      *)
(* 300 s TTL, so even a lost revocation write self-heals inside five       *)
(* minutes").                                                              *)
RevocationSelfHeals ==
  edge # NoEntry /\ gwKey.disabled /\ ~edge.row.disabled => gwNow <= disabledAt + EdgeTTL + 1
===============================================================================
