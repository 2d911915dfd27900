-------------------------------- MODULE Masking --------------------------------
(***************************************************************************)
(* The masking rules of the Enterprise tier: their table (createMaskingRule *)
(* and deleteMaskingRule) and the pure function that applies them to a     *)
(* payload (applyMaskingRules, platform/ee/src/ee.ts).                     *)
(*                                                                         *)
(* A payload is a tree, given by the paths of its nodes.  A name is a      *)
(* sequence of letters; a token, which may hold "*", is the sequence of    *)
(* the literals between its stars.  A pattern is a sequence of tokens and  *)
(* of Globstar, the "**" that spans any number of names.                   *)
(***************************************************************************)
EXTENDS Naturals, Sequences, FiniteSets, FiniteSetsExt, SequencesExt

CONSTANTS
  Globstar,
  Patterns,      \* field patterns
  Payloads,      \* payloads: sets of paths, each with the prefixes of its members
  MaxRules,      \* bound of the table; loadMaskingRules reads the newest 500
  MaxMaskDepth,  \* MAX_MASK_DEPTH
  MaxMaskNodes   \* MAX_MASK_NODES

Name == Seq(Nat)
Token == Seq(Name) \ {<<>>}
ASSUME MaskingAssumption ==
  /\ Patterns \subseteq Seq({Globstar} \cup Token) /\ MaxMaskNodes \in Nat
  /\ \A tree \in Payloads : tree \subseteq Seq(Name) /\ IsFiniteSet(tree)

VARIABLES
  maskingRule,  \* the rules: the action of each pattern, or "none"
  payload,      \* the payload that was masked last
  masked        \* what applyMaskingRules made of it

maskingVars == <<maskingRule, payload, masked>>
Nothing == [ok |-> FALSE, clear |-> {}, hashed |-> {}, dropped |-> {}]
MaskingInit ==
  maskingRule = [p \in Patterns |-> "none"] /\ payload = {} /\ masked = Nothing

-------------------------------------------------------------------------------
(* globMatches: the literals are searched from left to right, and the last *)
(* must not overlap what the others took.                                  *)
OccursAt(part, text, at) == at + Len(part) <= Len(text) /\ SubSeq(text, at + 1, at + Len(part)) = part
SearchParts(parts, text) ==
  LET Found[n \in 1 .. Len(parts) - 1] ==  \* the index after part n; beyond the text, not found
        IF n = 1 THEN Len(parts[1])
        ELSE LET hits == {at \in Found[n - 1] .. Len(text) : OccursAt(parts[n], text, at)}
             IN IF hits = {} THEN Len(text) + 1 ELSE Min(hits) + Len(parts[n])
  IN Found[Len(parts) - 1]
Brackets(parts, text) ==
  IsPrefix(parts[1], text) /\ IsSuffix(Last(parts), text)
OverlapMatches(parts, text) ==  \* mutant: the ends may share letters
  IF Len(parts) = 1 THEN parts[1] = text
  ELSE Brackets(parts, text) /\ SearchParts(parts, text) <= Len(text)
globMatches(parts, text) ==
  IF Len(parts) = 1 THEN parts[1] = text
  ELSE Brackets(parts, text) /\ SearchParts(parts, text) + Len(Last(parts)) <= Len(text)

(* pathMatches: walk(i, j) of the patterns from i on against the path from *)
(* j on.                                                                   *)
pathMatches(pattern, path) ==
  LET walk[i \in 1 .. Len(pattern) + 1] ==  \* the j for which walk(i, j)
        IF i > Len(pattern) THEN {Len(path) + 1}
        ELSE IF pattern[i] = Globstar THEN {j \in 1 .. Len(path) + 1 : \E k \in walk[i + 1] : j <= k}
        ELSE {j \in DOMAIN path : globMatches(pattern[i], path[j]) /\ j + 1 \in walk[i + 1]}
  IN 1 \in walk[1]

(* visit: drop wins over hash, and what is matched is not descended into.  *)
RulesFor(path) == {maskingRule[p] : p \in {q \in Patterns : pathMatches(q, path)}}
ActionOn(path) ==
  IF "drop" \in RulesFor(path) THEN "drop" ELSE IF "hash" \in RulesFor(path) THEN "hash" ELSE "none"
applyMaskingRules(tree) ==
  LET action == [path \in tree |-> ActionOn(path)]
      visited == {path \in tree : \A q \in tree : IsStrictPrefix(q, path) => action[q] = "none"}
      With(a) == {path \in visited : action[path] = a}
  IN IF Cardinality(visited) > MaxMaskNodes \/ \E path \in visited : Len(path) > MaxMaskDepth
     THEN Nothing
     ELSE [ok |-> TRUE, clear |-> With("none"), hashed |-> With("hash"), dropped |-> With("drop")]

-------------------------------------------------------------------------------
(* A second rule for a pattern is refused by the unique index.             *)
createMaskingRule(p, action) ==
  /\ maskingRule[p] = "none"
  /\ Cardinality({q \in Patterns : maskingRule[q] # "none"}) < MaxRules
  /\ maskingRule' = [maskingRule EXCEPT ![p] = action]
  /\ payload' = {} /\ masked' = Nothing

deleteMaskingRule(p) ==
  /\ maskingRule[p] # "none"
  /\ maskingRule' = [maskingRule EXCEPT ![p] = "none"]
  /\ payload' = {} /\ masked' = Nothing

MaskPayload(tree) ==
  payload' = tree /\ masked' = applyMaskingRules(tree) /\ UNCHANGED maskingRule

MaskingNext ==
  \/ \E p \in Patterns : deleteMaskingRule(p) \/ createMaskingRule(p, "drop") \/ createMaskingRule(p, "hash")
  \/ \E tree \in Payloads : MaskPayload(tree)

-------------------------------------------------------------------------------
(* What the patterns mean, without an algorithm.  A token spells a name    *)
(* when its literals stand in the name in order, apart, from its first to  *)
(* its last letter; a pattern names a path that can be cut into pieces,    *)
(* one name for each token and any number for each Globstar.               *)
Spells(parts, text) ==
  \E at \in [DOMAIN parts -> 0 .. Len(text)] :
    /\ \A n \in DOMAIN parts : OccursAt(parts[n], text, at[n])
    /\ \A n \in 2 .. Len(parts) : at[n - 1] + Len(parts[n - 1]) <= at[n]
    /\ at[1] = 0 /\ at[Len(parts)] + Len(Last(parts)) = Len(text)
NamesPath(pattern, path) ==
  \E cut \in [0 .. Len(pattern) -> 0 .. Len(path)] :
    /\ cut[0] = 0 /\ cut[Len(pattern)] = Len(path)
    /\ \A n \in DOMAIN pattern :
         IF pattern[n] = Globstar THEN cut[n - 1] <= cut[n]
         ELSE cut[n] = cut[n - 1] + 1 /\ Spells(pattern[n], path[cut[n]])

Encloses(path, S) == \E q \in S : IsPrefix(q, path)
Named(actions) ==
  {path \in payload : \E p \in Patterns : maskingRule[p] \in actions /\ NamesPath(p, path)}

(* "Fail-closed" (applyMaskingRules): of a payload that is returned, the   *)
(* fields in the clear are exactly those that no rule names and that no    *)
(* field named by a rule encloses; what a rule drops is gone, whatever     *)
(* other rules say of it; and a payload is refused only for its size.      *)
MaskingIsComplete ==
  /\ masked.ok =>
       /\ masked.clear = {path \in payload : ~Encloses(path, Named({"drop", "hash"}))}
       /\ \A path \in Named({"drop"}) : Encloses(path, masked.dropped \cup masked.hashed)
       /\ masked.hashed \cap Named({"drop"}) = {}
       /\ masked.hashed \cup masked.dropped \subseteq Named({"drop", "hash"})
  /\ ~masked.ok =>
       \/ masked = Nothing /\ payload = {}
       \/ Cardinality(payload) > MaxMaskNodes \/ \E path \in payload : Len(path) > MaxMaskDepth
===============================================================================
