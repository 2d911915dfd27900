-------------------------------- MODULE ApiKeys --------------------------------
(***************************************************************************)
(* One public API key of platform/src/apikeys.ts: its row in D1, the       *)
(* verdict the edge cache (KV) holds of it, the requests that present it   *)
(* and the revocation.                                                     *)
(*                                                                         *)
(* A verification reads the cache, on a miss the row, and then writes its  *)
(* verdict to the cache; the revocation updates the row and then writes a  *)
(* tombstone.  A request is over within MaxVerify ticks of the clock.      *)
(***************************************************************************)
EXTENDS Naturals, FiniteSets

CONSTANTS
  Verifiers,     \* requests in flight
  VerdictTTL,    \* API_KEY_CACHE_TTL_SECONDS, in ticks
  MaxVerify,     \* how long a request may take, in ticks
  MaxApiTime     \* bound of the clock

ASSUME ApiKeysAssumption == VerdictTTL \in Nat /\ MaxVerify \in Nat /\ MaxApiTime \in Nat

VARIABLES
  apiNow,     \* the clock
  apiKey,     \* api_keys: is the row there, and when was it revoked
  verdict,    \* apikey-verdict:<hash>: [v, until]
  verifier,   \* what each request is about to do
  revoker,    \* is a tombstone about to be written
  accepted    \* history: when a request was last accepted

apiVars == <<apiNow, apiKey, verdict, verifier, revoker, accepted>>

NoVerdict == [v |-> "none", until |-> 0]
NotRevoked == MaxApiTime + 1
Revoked == apiKey.made /\ apiKey.revokedAt # NotRevoked
Free == [at |-> "free"]

ApiKeysInit ==
  /\ apiNow = 0
  /\ apiKey = [made |-> FALSE, revokedAt |-> NotRevoked]
  /\ verdict = NoVerdict
  /\ verifier = [q \in Verifiers |-> Free]
  /\ revoker = FALSE
  /\ accepted = 0

(* An entry is gone after its TTL, or before.                              *)
ApiTick ==
  /\ apiNow < MaxApiTime
  /\ \A q \in Verifiers : verifier[q] # Free => apiNow < verifier[q].started + MaxVerify
  /\ apiNow' = apiNow + 1
  /\ verdict' = IF verdict.until < apiNow' THEN NoVerdict ELSE verdict
  /\ UNCHANGED <<apiKey, verifier, revoker, accepted>>
VerdictEvicted ==
  /\ verdict # NoVerdict /\ verdict' = NoVerdict
  /\ UNCHANGED <<apiNow, apiKey, verifier, revoker, accepted>>

CreateApiKey ==
  /\ ~apiKey.made
  /\ apiKey' = [apiKey EXCEPT !.made = TRUE]
  /\ UNCHANGED <<apiNow, verdict, verifier, revoker, accepted>>

PutVerdict(v) == verdict' = [v |-> v, until |-> apiNow + VerdictTTL]
VerifierGoto(q, next) == verifier' = [verifier EXCEPT ![q] = next]
AcceptIf(ok) == accepted' = IF ok THEN apiNow ELSE accepted

RefreshVerdict(v) == PutVerdict(v)  \* mutant: a hit renews the entry
KeepVerdict(v) == UNCHANGED verdict
(* authenticateApiKey: a cached verdict decides, ...                       *)
ReadVerdict(q) ==
  /\ verifier[q] = Free
  /\ IF verdict = NoVerdict
     THEN VerifierGoto(q, [at |-> "lookup", started |-> apiNow]) /\ UNCHANGED <<verdict, accepted>>
     ELSE KeepVerdict(verdict.v) /\ AcceptIf(verdict.v = "ok") /\ UNCHANGED verifier
  /\ UNCHANGED <<apiNow, apiKey, revoker>>
(* ... or the row does, whose verdict is then cached.                      *)
LookUpKey(q) ==
  /\ verifier[q].at = "lookup"
  /\ VerifierGoto(q, [at |-> "put", started |-> verifier[q].started,
                      v |-> IF apiKey.made /\ ~Revoked THEN "ok" ELSE "rejected"])
  /\ UNCHANGED <<apiNow, apiKey, verdict, revoker, accepted>>
(* A put that fails fails the request.                                     *)
CacheVerdict(q) ==
  /\ verifier[q].at = "put"
  /\ \/ PutVerdict(verifier[q].v) /\ AcceptIf(verifier[q].v = "ok")
     \/ UNCHANGED <<verdict, accepted>>
  /\ VerifierGoto(q, Free)
  /\ UNCHANGED <<apiNow, apiKey, revoker>>

(* revokeApiKey: once, since it answers 404 afterwards.                    *)
RevokeApiKey ==
  /\ apiKey.made /\ ~Revoked
  /\ apiKey' = [apiKey EXCEPT !.revokedAt = apiNow]
  /\ revoker' = TRUE
  /\ UNCHANGED <<apiNow, verdict, verifier, accepted>>
(* The tombstone, which may be lost: the Worker dies, or the put fails.    *)
WriteTombstone ==
  /\ revoker
  /\ PutVerdict("rejected") \/ UNCHANGED verdict
  /\ revoker' = FALSE
  /\ UNCHANGED <<apiNow, apiKey, verifier, accepted>>

ApiKeysNext ==
  \/ ApiTick \/ VerdictEvicted \/ CreateApiKey \/ RevokeApiKey \/ WriteTombstone
  \/ \E q \in Verifiers : ReadVerdict(q) \/ LookUpKey(q) \/ CacheVerdict(q)

-------------------------------------------------------------------------------
(* However verifications race the revocation, and even if the tombstone is *)
(* lost, no request is accepted later than the TTL after the revocation    *)
(* plus the time a verification that read the row before it may still take.*)
RevocationReachesTheEdge ==
  Revoked => accepted <= apiKey.revokedAt + VerdictTTL + MaxVerify

(* A verdict cached before a revocation dies with it                       *)
(* (docs/hosted-mcp.md: "a cached "ok" verdict can never outlive the       *)
(* revocation by the TTL").                                                *)
NoVerdictOutlivesItsKey ==
  Revoked => accepted <= apiKey.revokedAt + VerdictTTL
===============================================================================
