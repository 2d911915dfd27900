------------------------------ MODULE RulesProofs -------------------------------
(***************************************************************************)
(* What the masking rules and the amounts of money compute, for any input. *)
(* A glob, a pattern and the walk of a tree against their meaning, for     *)
(* names, patterns and payloads of any size; reading, writing, adding,     *)
(* comparing and dividing decimal strings against the numbers, for any     *)
(* digits in any radix.  A recursion is followed place by place.           *)
(***************************************************************************)
EXTENDS Masking, Decimals, SetLemmas, SequenceTheorems

-------------------------------------------------------------------------------
(* Masking rules                                                           *)

(* What patterns, tokens and names are.                                    *)
LEMMA MaskingTypes ==
  /\ \A p \in Patterns : Len(p) \in Nat /\ \A n \in 1 .. Len(p) : p[n] = Globstar \/ p[n] \in Token
  /\ \A parts \in Token : Len(parts) \in Nat \ {0} /\ \A n \in 1 .. Len(parts) : parts[n] \in Name
  /\ \A text \in Name : Len(text) \in Nat
<1>1. ASSUME NEW p \in Patterns PROVE Len(p) \in Nat /\ \A n \in 1 .. Len(p) : p[n] = Globstar \/ p[n] \in Token
  <2>1. p \in Seq({Globstar} \cup Token)
    BY MaskingAssumption DEF MaskingAssumption
  <2> QED BY <2>1
<1>2. ASSUME NEW parts \in Token PROVE Len(parts) \in Nat \ {0} /\ \A n \in 1 .. Len(parts) : parts[n] \in Name
  <2>1. parts \in Seq(Name) /\ parts # <<>>
    BY DEF Token
  <2> HIDE DEF Name
  <2> QED BY <2>1, EmptySeq
<1> QED BY <1>1, <1>2 DEF Name

(* The literals at both ends.                                              *)
LEMMA OccursIs ==
  ASSUME NEW literal \in Name, NEW text \in Name, NEW at \in Nat
  PROVE  OccursAt(literal, text, at) <=>
           at + Len(literal) <= Len(text) /\ \A i \in 1 .. Len(literal) : text[at + i] = literal[i]
<1>1. Len(literal) \in Nat /\ Len(text) \in Nat
  BY DEF Name
<1> DEFINE s == SubSeq(text, at + 1, at + Len(literal))
<1>2. ASSUME at + Len(literal) <= Len(text)
      PROVE  s = literal <=> \A i \in 1 .. Len(literal) : text[at + i] = literal[i]
  <2>1. s \in Seq(Nat) /\ Len(s) = Len(literal) /\ \A i \in 1 .. Len(literal) : s[i] = text[at + i]
    BY <1>1, <1>2 DEF Name
  <2>2. (\A i \in 1 .. Len(literal) : s[i] = literal[i]) => s = literal
    <3> HIDE DEF s
    <3> QED BY <2>1, <1>1, SeqEqual DEF Name
  <2> HIDE DEF s
  <2> QED BY <2>1, <2>2
<1> QED BY <1>2 DEF OccursAt

(* globMatches tests the first and the last literal at both ends of the    *)
(* text.                                                                   *)
LEMMA BracketsAre ==
  ASSUME NEW parts \in Token, NEW text \in Name
  PROVE  Brackets(parts, text) <=>
           OccursAt(parts[1], text, 0)
           /\ Len(parts[Len(parts)]) <= Len(text) /\ OccursAt(parts[Len(parts)], text, Len(text) - Len(parts[Len(parts)]))
<1> DEFINE s == parts[Len(parts)]
<1>1. parts[1] \in Name /\ s \in Name /\ Len(parts[1]) \in Nat /\ Len(s) \in Nat /\ Len(text) \in Nat
  BY MaskingTypes
<1>2. IsPrefix(parts[1], text) <=> OccursAt(parts[1], text, 0)
  <2>1. SubSeq(parts[1], 1, Len(parts[1])) = parts[1]
    BY <1>1 DEF Name
  <2> QED BY <2>1, <1>1 DEF IsPrefix, OccursAt
<1>3. IsSuffix(s, text) <=> Len(s) <= Len(text) /\ OccursAt(s, text, Len(text) - Len(s))
  <2> HIDE DEF s
  <2> DEFINE r == Reverse(s)
             t == Reverse(text)
             m == Len(s)
             n == Len(text)
  <2>1. /\ r \in Seq(Nat) /\ Len(r) = m /\ \A i \in 1 .. m : r[i] = s[m - i + 1]
        /\ t \in Seq(Nat) /\ Len(t) = n /\ \A i \in 1 .. n : t[i] = text[n - i + 1]
    BY <1>1 DEF Reverse, Name
  <2>2. IsSuffix(s, text) <=> m <= n /\ SubSeq(r, 1, m) = SubSeq(t, 1, m)
    BY <2>1 DEF IsSuffix, IsPrefix
  <2>3. ASSUME m <= n
        PROVE  SubSeq(r, 1, m) = SubSeq(t, 1, m) <=> OccursAt(s, text, n - m)
    <3> HIDE DEF r, t
    <3>1. /\ SubSeq(r, 1, m) = r /\ SubSeq(t, 1, m) \in Seq(Nat) /\ Len(SubSeq(t, 1, m)) = m
          /\ \A i \in 1 .. m : SubSeq(t, 1, m)[i] = t[i]
      <4>1. SubSeq(r, 1, m) = r
        BY <2>1, <1>1
      <4>2. SubSeq(t, 1, m) \in Seq(Nat) /\ Len(SubSeq(t, 1, m)) = m
        BY <2>1, <2>3, <1>1
      <4>3. \A i \in 1 .. m : SubSeq(t, 1, m)[i] = t[i]
        BY <2>1, <2>3, <1>1
      <4> QED BY <4>1, <4>2, <4>3
    <3>2. SubSeq(r, 1, m) = SubSeq(t, 1, m) <=> \A i \in 1 .. m : r[i] = t[i]
      <4>1. (\A i \in 1 .. m : r[i] = SubSeq(t, 1, m)[i]) => r = SubSeq(t, 1, m)
        <5> HIDE DEF m
        <5> QED BY <3>1, <2>1, SeqEqual
      <4> QED BY <3>1, <4>1
    <3>3. (\A i \in 1 .. m : r[i] = t[i]) <=> \A i \in 1 .. m : s[m - i + 1] = text[n - i + 1]
      <4>1. \A i \in 1 .. m : i \in 1 .. n /\ r[i] = s[m - i + 1] /\ t[i] = text[n - i + 1]
        BY <2>1, <2>3, <1>1
      <4> HIDE DEF m, n
      <4> QED BY <4>1
    <3>4. (\A i \in 1 .. m : s[m - i + 1] = text[n - i + 1]) <=> \A k \in 1 .. m : s[k] = text[n - m + k]
      <4>1. ASSUME \A i \in 1 .. m : s[m - i + 1] = text[n - i + 1], NEW k \in 1 .. m
            PROVE  s[k] = text[n - m + k]
        <5>1. m - k + 1 \in 1 .. m /\ m - (m - k + 1) + 1 = k /\ n - (m - k + 1) + 1 = n - m + k
          BY <1>1
        <5> QED BY <4>1, <5>1
      <4>2. ASSUME \A k \in 1 .. m : s[k] = text[n - m + k], NEW i \in 1 .. m
            PROVE  s[m - i + 1] = text[n - i + 1]
        <5>1. m - i + 1 \in 1 .. m /\ n - m + (m - i + 1) = n - i + 1
          BY <1>1
        <5> QED BY <4>2, <5>1
      <4> QED BY <4>1, <4>2
    <3>5. n - m \in Nat /\ n - m + m <= n
      BY <1>1, <2>3
    <3>6. OccursAt(s, text, n - m) <=> \A k \in 1 .. m : text[n - m + k] = s[k]
      BY <3>5, <1>1, OccursIs
    <3> QED BY <3>2, <3>3, <3>4, <3>6
  <2> QED BY <2>2, <2>3
<1> QED BY <1>2, <1>3 DEF Brackets, Last

(* The search through the middle literals: each at its first place behind  *)
(* the one before.                                                         *)
HitsOf(literal, text, from) == {at \in from .. Len(text) : OccursAt(literal, text, at)}
AfterHit(literal, text, from) ==
  IF HitsOf(literal, text, from) = {} THEN Len(text) + 1 ELSE Min(HitsOf(literal, text, from)) + Len(literal)
Searched(parts, text, F) ==
  /\ F[1] = Len(parts[1])
  /\ \A n \in 2 .. Len(parts) - 1 : F[n] = AfterHit(parts[n], text, F[n - 1])
  /\ \A n \in 1 .. Len(parts) - 1 : F[n] \in Nat

(* indexOf: the least place of a literal from one on, or none.             *)
LEMMA FirstHit ==
  ASSUME NEW literal \in Name, NEW text \in Name, NEW from \in Nat
  PROVE  /\ AfterHit(literal, text, from) \in Nat
         /\ HitsOf(literal, text, from) = {} => AfterHit(literal, text, from) = Len(text) + 1
         /\ HitsOf(literal, text, from) # {} =>
              \E at \in HitsOf(literal, text, from) :
                AfterHit(literal, text, from) = at + Len(literal) /\ \A a \in HitsOf(literal, text, from) : at <= a
<1> DEFINE H == HitsOf(literal, text, from)
<1>1. Len(literal) \in Nat /\ Len(text) \in Nat
  BY MaskingTypes
<1>2. H \in SUBSET Nat
  BY <1>1 DEF HitsOf
<1>3. H # {} => Min(H) \in H /\ \A a \in H : Min(H) <= a
  <2> HIDE DEF H
  <2> QED BY <1>2, LeastOfSome
<1>4. AfterHit(literal, text, from) = IF H = {} THEN Len(text) + 1 ELSE Min(H) + Len(literal)
  BY DEF AfterHit
<1> HIDE DEF H
<1> QED BY <1>1, <1>2, <1>3, <1>4 DEF H

(* The recursion of SearchParts is that search, with an index behind every *)
(* literal.                                                                *)
LEMMA SearchIs ==
  ASSUME NEW parts \in Token, NEW text \in Name, Len(parts) # 1
  PROVE  \E F : Searched(parts, text, F) /\ SearchParts(parts, text) = F[Len(parts) - 1]
<1> DEFINE m == Len(parts) - 1
           first == Len(parts[1])
           g == [k \in 1 .. m - 1 |-> [from \in Nat |-> AfterHit(parts[k + 1], text, from)]]
           G(f) == [n \in 1 .. m |-> IF n = 1 THEN first ELSE AfterHit(parts[n], text, f[n - 1])]
<1>1. m \in Nat \ {0} /\ m - 1 \in Nat /\ first \in Nat
  <2>1. Len(parts) \in Nat \ {0} /\ 1 \in 1 .. Len(parts)
    BY MaskingTypes
  <2>2. parts[1] \in Name
    BY <2>1, MaskingTypes
  <2>3. Len(parts[1]) \in Nat
    BY <2>2, MaskingTypes
  <2> QED BY <2>1, <2>3
<1>2. \A k \in 1 .. m : k \in 1 .. Len(parts) /\ k \in Nat
  BY MaskingTypes
<1>3. \A k \in 1 .. m, from \in Nat : AfterHit(parts[k], text, from) \in Nat
  BY <1>2, MaskingTypes, FirstHit
<1>4. g \in StepsIn(Nat, m - 1)
  <2>1. \A k \in 1 .. m - 1 : k + 1 \in 1 .. m
    BY <1>1
  <2> HIDE DEF m
  <2> QED BY <1>3, <2>1 DEF StepsIn
<1>5. PICK c : c \in [0 .. m - 1 -> Nat] /\ c[0] = first /\ \A k \in 1 .. m - 1 : c[k] = g[k][c[k - 1]]
  <2> HIDE DEF g, m, first
  <2>1. PICK c : ChainFrom(Nat, first, m - 1, g, c)
    BY <1>1, <1>4, ChainExists
  <2> QED BY <2>1 DEF ChainFrom
<1>6. \A k \in 1 .. m - 1 : c[k] = AfterHit(parts[k + 1], text, c[k - 1])
  <2> SUFFICES ASSUME NEW k \in 1 .. m - 1 PROVE c[k] = AfterHit(parts[k + 1], text, c[k - 1])
    OBVIOUS
  <2>1. k - 1 \in 0 .. m - 1
    BY <1>1
  <2>2. c[k - 1] \in Nat
    BY <1>5, <2>1
  <2> QED BY <1>5, <2>2
<1> DEFINE f == [n \in 1 .. m |-> c[n - 1]]
<1>7. f = G(f)
  <2> SUFFICES \A n \in 1 .. m : f[n] = IF n = 1 THEN first ELSE AfterHit(parts[n], text, f[n - 1])
    OBVIOUS
  <2> TAKE n \in 1 .. m
  <2>1. CASE n = 1
    BY <2>1, <1>5
  <2>2. CASE n # 1
    <3>1. n - 1 \in 1 .. m - 1 /\ n - 1 \in 1 .. m /\ n - 1 + 1 = n
      BY <2>2, <1>1
    <3>2. f[n] = c[n - 1] /\ f[n - 1] = c[n - 1 - 1]
      BY <3>1
    <3>3. c[n - 1] = AfterHit(parts[n - 1 + 1], text, c[n - 1 - 1])
      BY <1>6, <3>1
    <3> QED BY <2>2, <3>1, <3>2, <3>3
  <2> QED BY <2>1, <2>2
<1> DEFINE h == CHOOSE k : k = G(k)
<1>8. h = G(h)
  <2> HIDE DEF G, f
  <2> QED BY <1>7
<1>9. SearchParts(parts, text) = h[Len(parts) - 1]
  BY DEF SearchParts, AfterHit, HitsOf
<1>10. \A n \in 1 .. m : h[n] = IF n = 1 THEN first ELSE AfterHit(parts[n], text, h[n - 1])
  <2> HIDE DEF h, m, first
  <2> QED BY <1>8
<1> HIDE DEF h
<1>11. \A n \in 1 .. m : h[n] \in Nat
  <2> DEFINE Bad == {n \in 1 .. m : h[n] \notin Nat}
  <2> SUFFICES ASSUME Bad # {} PROVE FALSE
    OBVIOUS
  <2>1. PICK n \in Bad : \A k \in Bad : n <= k
    <3>1. Bad \in SUBSET Nat
      BY <1>2
    <3> HIDE DEF Bad
    <3> QED BY <3>1, LeastOfSome
  <2>2. n # 1
    BY <2>1, <1>1, <1>10
  <2>3. n - 1 \notin Bad /\ n - 1 \in 1 .. m
    BY <2>1, <2>2, <1>1
  <2>4. h[n - 1] \in Nat
    BY <2>3
  <2> QED BY <2>1, <2>2, <2>4, <1>3, <1>10
<1>12. h[1] = Len(parts[1]) /\ \A n \in 2 .. Len(parts) - 1 : h[n] = AfterHit(parts[n], text, h[n - 1])
  BY <1>1, <1>10
<1> QED BY <1>9, <1>11, <1>12 DEF Searched

(* A token matches a text exactly when its literals can be laid in it one  *)
(* behind the other, from the first letter to the last: the leftmost       *)
(* places are enough.                                                      *)
LEMMA GlobSpells ==
  ASSUME NEW parts \in Token, NEW text \in Name
  PROVE  globMatches(parts, text) <=> Spells(parts, text)
<1> DEFINE m == Len(parts)
           n == Len(text)
           last == parts[m]
<1>1. /\ m \in Nat \ {0} /\ n \in Nat /\ DOMAIN parts = 1 .. m
      /\ \A k \in 1 .. m : parts[k] \in Name /\ Len(parts[k]) \in Nat
  BY MaskingTypes DEF Token
<1>2. Last(parts) = last
  BY DEF Last
<1>3. CASE m = 1
  <2>1. globMatches(parts, text) <=> parts[1] = text
    BY <1>3 DEF globMatches
  <2>2. ASSUME parts[1] = text PROVE Spells(parts, text)
    <3> DEFINE at == [k \in DOMAIN parts |-> 0]
    <3>1. at \in [DOMAIN parts -> 0 .. Len(text)] /\ at[1] = 0 /\ at[m] = 0
      BY <1>1, <1>3
    <3>2. OccursAt(parts[1], text, 0)
      BY <1>1, <2>2, OccursIs
    <3>3. \A k \in DOMAIN parts : OccursAt(parts[k], text, at[k])
      BY <1>1, <1>3, <3>1, <3>2
    <3>4. \A k \in 2 .. m : FALSE
      BY <1>3
    <3>5. at[m] + Len(last) = n
      BY <1>1, <1>3, <2>2, <3>1
    <3> HIDE DEF at, last, m
    <3> QED BY <3>1, <3>3, <3>4, <3>5, <1>2 DEF Spells, m
  <2>3. ASSUME Spells(parts, text) PROVE parts[1] = text
    <3>1. PICK at : /\ \A k \in DOMAIN parts : OccursAt(parts[k], text, at[k])
                    /\ at[1] = 0 /\ at[m] + Len(last) = n
      BY <2>3, <1>2 DEF Spells
    <3>2. Len(parts[1]) = n /\ OccursAt(parts[1], text, 0)
      BY <3>1, <1>1, <1>3
    <3>3. \A i \in 1 .. n : text[i] = parts[1][i]
      BY <3>2, <1>1, OccursIs
    <3> QED BY <3>2, <3>3, <1>1, SeqEqual DEF Name
  <2> QED BY <2>1, <2>2, <2>3
<1>4. CASE m # 1
  <2>1. PICK F : Searched(parts, text, F) /\ SearchParts(parts, text) = F[m - 1]
    BY <1>4, SearchIs
  <2>2. /\ F[1] = Len(parts[1])
        /\ \A k \in 2 .. m - 1 : F[k] = AfterHit(parts[k], text, F[k - 1])
        /\ \A k \in 1 .. m - 1 : F[k] \in Nat
    BY <2>1 DEF Searched
  <2>3. globMatches(parts, text) <=>
          OccursAt(parts[1], text, 0) /\ Len(last) <= n /\ OccursAt(last, text, n - Len(last)) /\ F[m - 1] + Len(last) <= n
    BY <1>2, <1>4, <2>1, BracketsAre DEF globMatches
  <2>4. m \in Nat /\ 2 <= m /\ m - 1 \in 1 .. m /\ m - 1 \in Nat
    BY <1>1, <1>4
  <2> HIDE DEF m, n, last
  <2>5. ASSUME NEW k \in 2 .. m - 1
        PROVE  /\ k - 1 \in 1 .. m - 1 /\ k \in 1 .. m
               /\ HitsOf(parts[k], text, F[k - 1]) = {} => F[k] = n + 1
               /\ HitsOf(parts[k], text, F[k - 1]) # {} =>
                    \E at \in F[k - 1] .. n :
                      /\ F[k] = at + Len(parts[k]) /\ OccursAt(parts[k], text, at)
                      /\ \A a \in F[k - 1] .. n : OccursAt(parts[k], text, a) => at <= a
    <3>1. k - 1 \in 1 .. m - 1 /\ k \in 1 .. m
      BY <2>4
    <3>2. F[k - 1] \in Nat /\ F[k] = AfterHit(parts[k], text, F[k - 1]) /\ parts[k] \in Name
      BY <1>1, <2>2, <3>1
    <3>3. HitsOf(parts[k], text, F[k - 1]) = {at \in F[k - 1] .. n : OccursAt(parts[k], text, at)}
      BY DEF HitsOf, n
    <3> DEFINE H == HitsOf(parts[k], text, F[k - 1])
    <3>4. /\ H = {} => F[k] = n + 1
          /\ H # {} => \E at \in H : F[k] = at + Len(parts[k]) /\ \A a \in H : at <= a
      BY <3>2, FirstHit DEF n
    <3> QED BY <3>1, <3>3, <3>4
  <2>6. ASSUME globMatches(parts, text) PROVE Spells(parts, text)
    <3> DEFINE at == [k \in 1 .. m |-> IF k = m THEN n - Len(last) ELSE F[k] - Len(parts[k])]
    <3>1. \A k \in 1 .. m - 1 : F[k] <= n
      <4> DEFINE Bad == {k \in 1 .. m - 1 : ~(F[k] <= n)}
      <4> SUFFICES ASSUME Bad # {} PROVE FALSE
        OBVIOUS
      <4>1. PICK k \in Bad : \A j \in Bad : j <= k
        <5>1. Bad \in SUBSET (0 .. m - 1)
          BY <2>4
        <5> HIDE DEF Bad
        <5> QED BY <2>4, <5>1, GreatestOfSome
      <4>2. k # m - 1
        <5>1. F[m - 1] + Len(last) <= n /\ F[m - 1] \in Nat /\ Len(last) \in Nat
          BY <2>3, <2>6, <2>2, <2>4, <1>1 DEF last
        <5> QED BY <4>1, <5>1, <1>1
      <4>3. k + 1 \in 2 .. m - 1 /\ k + 1 \notin Bad /\ k + 1 - 1 = k /\ k \in Nat
        BY <4>1, <4>2, <2>4
      <4>4. F[k] > n /\ F[k + 1] <= n
        BY <4>1, <4>3, <2>2, <1>1
      <4>5. HitsOf(parts[k + 1], text, F[k]) = {}
        BY <4>3, <4>4, <2>2, <1>1 DEF HitsOf, n
      <4>6. F[k + 1] = n + 1
        BY <4>3, <4>5, <2>5
      <4> QED BY <4>4, <4>6, <1>1
    <3>2. ASSUME NEW k \in 2 .. m - 1
          PROVE  /\ F[k] - Len(parts[k]) \in 0 .. n /\ OccursAt(parts[k], text, F[k] - Len(parts[k]))
                 /\ F[k - 1] <= F[k] - Len(parts[k])
      <4>1. k \in 1 .. m - 1 /\ k - 1 \in 1 .. m - 1 /\ k \in 1 .. m /\ Len(parts[k]) \in Nat
        BY <2>4, <1>1
      <4>2. F[k] # n + 1
        BY <3>1, <4>1, <1>1, <2>2
      <4>3. PICK a \in F[k - 1] .. n : F[k] = a + Len(parts[k]) /\ OccursAt(parts[k], text, a)
        BY <4>2, <2>5
      <4>4. F[k - 1] \in Nat /\ a \in Nat /\ F[k] - Len(parts[k]) = a
        BY <4>1, <4>3, <2>2, <1>1
      <4> QED BY <4>3, <4>4, <1>1
    <3>3. F[1] - Len(parts[1]) = 0 /\ OccursAt(parts[1], text, 0)
      BY <2>2, <2>3, <2>6, <1>1, <2>4
    <3>4. n - Len(last) \in 0 .. n /\ OccursAt(last, text, n - Len(last)) /\ n - Len(last) + Len(last) = n
          /\ F[m - 1] <= n - Len(last)
      BY <2>2, <2>3, <2>4, <2>6, <1>1 DEF last
    <3>5. \A k \in 1 .. m : k = m \/ k = 1 \/ k \in 2 .. m - 1
      BY <2>4
    <3>6. at[1] = 0 /\ at[m] = n - Len(last) /\ \A k \in 2 .. m - 1 : at[k] = F[k] - Len(parts[k])
      BY <2>4, <3>3
    <3>7. DOMAIN at = 1 .. m /\ \A k \in 1 .. m : at[k] \in 0 .. n /\ OccursAt(parts[k], text, at[k])
      <4> HIDE DEF at
      <4>1. \A k \in 2 .. m - 1 : at[k] \in 0 .. n /\ OccursAt(parts[k], text, at[k])
        BY <3>2, <3>6
      <4>2. 0 \in 0 .. n /\ at[1] = 0
        BY <1>1, <3>6
      <4>3. DOMAIN at = 1 .. m
        BY DEF at
      <4> QED BY <3>3, <3>4, <3>5, <3>6, <4>1, <4>2, <4>3 DEF last
    <3>8. \A k \in 2 .. m : at[k - 1] + Len(parts[k - 1]) <= at[k]
      <4> SUFFICES ASSUME NEW k \in 2 .. m PROVE at[k - 1] + Len(parts[k - 1]) <= at[k]
        OBVIOUS
      <4>1. k - 1 \in 1 .. m - 1 /\ k - 1 # m /\ Len(parts[k - 1]) \in Nat /\ F[k - 1] \in Nat
        BY <2>4, <1>1, <2>2
      <4>2. at[k - 1] + Len(parts[k - 1]) = F[k - 1]
        <5>1. at[k - 1] = F[k - 1] - Len(parts[k - 1])
          BY <4>1, <2>4
        <5> HIDE DEF at
        <5> QED BY <5>1, <4>1
      <4>3. F[k - 1] <= at[k]
        <5> HIDE DEF at
        <5>1. CASE k = m
          BY <5>1, <3>4, <3>6
        <5>2. CASE k # m
          <6>1. k \in 2 .. m - 1
            BY <5>2, <2>4
          <6> QED BY <6>1, <3>2, <3>6
        <5> QED BY <5>1, <5>2
      <4> QED BY <4>2, <4>3
    <3>9. at \in [DOMAIN parts -> 0 .. Len(text)]
      <4>1. at = [k \in 1 .. m |-> at[k]]
        OBVIOUS
      <4> HIDE DEF at
      <4> QED BY <3>7, <4>1, <1>1 DEF n, m
    <3> HIDE DEF at
    <3>10. at[1] = 0 /\ at[Len(parts)] + Len(Last(parts)) = Len(text)
      BY <3>4, <3>6, <1>2 DEF n, m, last
    <3> QED BY <3>7, <3>8, <3>9, <3>10, <1>1 DEF Spells, m
  <2>7. ASSUME Spells(parts, text) PROVE globMatches(parts, text)
    <3>1. PICK at \in [DOMAIN parts -> 0 .. n] :
            /\ \A k \in DOMAIN parts : OccursAt(parts[k], text, at[k])
            /\ \A k \in 2 .. m : at[k - 1] + Len(parts[k - 1]) <= at[k]
            /\ at[1] = 0 /\ at[m] + Len(last) = n
      BY <2>7, <1>2 DEF Spells, m, n
    <3>2. \A k \in 1 .. m : at[k] \in Nat /\ at[k] \in 0 .. n /\ OccursAt(parts[k], text, at[k])
      <4>1. DOMAIN parts = 1 .. m /\ \A a \in 0 .. n : a \in Nat
        BY <1>1 DEF m
      <4> QED BY <3>1, <4>1
    <3>3. 1 \in 1 .. m /\ m \in 1 .. m
      BY <2>4
    <3>4. at[m] = n - Len(last) /\ Len(last) <= n /\ Len(last) \in Nat
      <4>1. Len(last) \in Nat
        BY <3>3, <1>1 DEF last
      <4>2. at[m] \in Nat /\ at[m] + Len(last) = n
        BY <3>1, <3>2, <3>3
      <4> QED BY <4>1, <4>2
    <3>5. OccursAt(parts[1], text, 0) /\ OccursAt(last, text, n - Len(last))
      BY <3>1, <3>2, <3>3, <3>4 DEF last
    <3>6. \A k \in 1 .. m - 1 : F[k] <= at[k] + Len(parts[k])
      <4> DEFINE Bad == {k \in 1 .. m - 1 : ~(F[k] <= at[k] + Len(parts[k]))}
      <4> SUFFICES ASSUME Bad # {} PROVE FALSE
        OBVIOUS
      <4>1. PICK k \in Bad : \A j \in Bad : k <= j
        <5>1. Bad \in SUBSET Nat
          BY <2>4
        <5> HIDE DEF Bad
        <5> QED BY <5>1, LeastOfSome
      <4>2. k # 1
        BY <4>1, <3>1, <2>2, <1>1, <2>4
      <4>3. k \in 2 .. m - 1 /\ k \in 2 .. m /\ k \in 1 .. m /\ k - 1 \in 1 .. m - 1 /\ k - 1 \in 1 .. m /\ k - 1 \notin Bad
        BY <4>1, <4>2, <2>4
      <4>4. F[k - 1] <= at[k - 1] + Len(parts[k - 1])
        BY <4>3
      <4>5. F[k - 1] \in Nat /\ F[k] \in Nat /\ at[k] \in 0 .. n /\ at[k - 1] \in Nat
            /\ Len(parts[k - 1]) \in Nat /\ Len(parts[k]) \in Nat
        BY <4>3, <2>2, <3>2, <1>1
      <4>6. F[k - 1] <= at[k]
        <5>1. at[k - 1] + Len(parts[k - 1]) <= at[k]
          BY <4>3, <3>1
        <5> HIDE DEF Bad
        <5> QED BY <4>4, <4>5, <5>1
      <4>7. at[k] \in F[k - 1] .. n /\ OccursAt(parts[k], text, at[k])
        BY <4>3, <4>5, <4>6, <3>2, <1>1
      <4>8. HitsOf(parts[k], text, F[k - 1]) # {}
        BY <4>7 DEF HitsOf, n
      <4>9. PICK a \in F[k - 1] .. n : F[k] = a + Len(parts[k]) /\ a <= at[k]
        BY <4>3, <4>7, <4>8, <2>5
      <4>10. a \in Int /\ F[k] <= at[k] + Len(parts[k])
        BY <4>9, <4>5, <1>1
      <4> QED BY <4>1, <4>10
    <3>7. F[m - 1] <= at[m - 1] + Len(parts[m - 1])
      BY <3>6, <2>4
    <3>8. at[m - 1] + Len(parts[m - 1]) <= at[m]
      BY <3>1, <2>4
    <3>9. F[m - 1] \in Nat /\ at[m - 1] \in Nat /\ Len(parts[m - 1]) \in Nat /\ at[m] \in Nat
      BY <2>2, <2>4, <3>2, <3>3, <1>1
    <3>10. F[m - 1] + Len(last) <= n
      BY <3>4, <3>7, <3>8, <3>9, <1>1
    <3> QED BY <2>3, <3>4, <3>5, <3>10
  <2> QED BY <2>6, <2>7
<1> QED BY <1>3, <1>4

(* One pattern of a path: which places it may lead from to which.          *)
Leads(pattern, path, i, j, k) ==
  IF pattern[i] = Globstar THEN j <= k
  ELSE k = j + 1 /\ j \in 1 .. Len(path) /\ globMatches(pattern[i], path[j])
WalkFrom(pattern, path, i, after) ==
  {j \in 1 .. Len(path) + 1 : \E k \in after : Leads(pattern, path, i, j, k)}
Walked(pattern, path, W) ==
  /\ W[Len(pattern) + 1] = {Len(path) + 1}
  /\ \A i \in 1 .. Len(pattern) : W[i] = WalkFrom(pattern, path, i, W[i + 1])
  /\ \A i \in 1 .. Len(pattern) + 1 : W[i] \subseteq 1 .. Len(path) + 1

(* The recursion of pathMatches, from the last pattern to the first.       *)
LEMMA WalkIs ==
  ASSUME NEW pattern, Len(pattern) \in Nat, NEW path, Len(path) \in Nat, DOMAIN path = 1 .. Len(path)
  PROVE  \E W : Walked(pattern, path, W) /\ (pathMatches(pattern, path) <=> 1 \in W[1])
<1> DEFINE m == Len(pattern)
           places == 1 .. Len(path) + 1
           A == SUBSET places
           end == {Len(path) + 1}
           Step(i, S) == IF pattern[i] = Globstar THEN {j \in 1 .. Len(path) + 1 : \E k \in S : j <= k}
                         ELSE {j \in DOMAIN path : globMatches(pattern[i], path[j]) /\ j + 1 \in S}
           g == [k \in 1 .. m |-> [S \in A |-> WalkFrom(pattern, path, m + 1 - k, S)]]
           G(f) == [i \in 1 .. m + 1 |-> IF i > m THEN end ELSE Step(i, f[i + 1])]
<1>1. m \in Nat /\ end \in A
  OBVIOUS
<1>2. \A i, S : S \in A => Step(i, S) = WalkFrom(pattern, path, i, S)
  <2> SUFFICES ASSUME NEW i, NEW S \in A PROVE Step(i, S) = WalkFrom(pattern, path, i, S)
    OBVIOUS
  <2>1. CASE pattern[i] = Globstar
    BY <2>1 DEF WalkFrom, Leads
  <2>2. CASE pattern[i] # Globstar
    <3>1. Step(i, S) = {j \in 1 .. Len(path) : globMatches(pattern[i], path[j]) /\ j + 1 \in S}
      BY <2>2
    <3>2. WalkFrom(pattern, path, i, S)
            = {j \in 1 .. Len(path) + 1 : j \in 1 .. Len(path) /\ globMatches(pattern[i], path[j]) /\ j + 1 \in S}
      BY <2>2 DEF WalkFrom, Leads
    <3> HIDE DEF Step
    <3> QED BY <3>1, <3>2
  <2> QED BY <2>1, <2>2
<1>3. \A i, S : WalkFrom(pattern, path, i, S) \in A
  BY DEF WalkFrom
<1>4. g \in StepsIn(A, m)
  <2> HIDE DEF m, A
  <2> QED BY <1>3 DEF StepsIn
<1>5. PICK c : c \in [0 .. m -> A] /\ c[0] = end /\ \A k \in 1 .. m : c[k] = g[k][c[k - 1]]
  <2> HIDE DEF g, m, A, end
  <2>1. PICK c : ChainFrom(A, end, m, g, c)
    BY <1>1, <1>4, ChainExists
  <2> QED BY <2>1 DEF ChainFrom
<1>6. \A k \in 1 .. m : c[k] = WalkFrom(pattern, path, m + 1 - k, c[k - 1]) /\ c[k - 1] \in A
  <2> SUFFICES ASSUME NEW k \in 1 .. m
               PROVE  c[k] = WalkFrom(pattern, path, m + 1 - k, c[k - 1]) /\ c[k - 1] \in A
    OBVIOUS
  <2> HIDE DEF A, m
  <2>1. k - 1 \in 0 .. m
    BY <1>1
  <2>2. c[k - 1] \in A
    BY <1>5, <2>1
  <2> QED BY <1>5, <2>2
<1> DEFINE f == [i \in 1 .. m + 1 |-> c[m + 1 - i]]
<1>7. f = G(f)
  <2> SUFFICES \A i \in 1 .. m + 1 : f[i] = IF i > m THEN end ELSE Step(i, f[i + 1])
    OBVIOUS
  <2> TAKE i \in 1 .. m + 1
  <2> HIDE DEF A, end, Step, m
  <2>1. CASE i > m
    <3>1. m + 1 - i = 0
      BY <2>1, <1>1
    <3> QED BY <2>1, <3>1, <1>5
  <2>2. CASE ~(i > m)
    <3> DEFINE k == m + 1 - i
    <3>1. i + 1 \in 1 .. m + 1 /\ k \in 1 .. m /\ m + 1 - k = i /\ m + 1 - (i + 1) = k - 1
      BY <2>2, <1>1
    <3>2. f[i] = c[k] /\ f[i + 1] = c[m + 1 - (i + 1)]
      BY <3>1
    <3>3. f[i + 1] = c[k - 1]
      <4> HIDE DEF f, k
      <4> QED BY <3>1, <3>2
    <3> HIDE DEF k, f
    <3>4. c[k] = WalkFrom(pattern, path, m + 1 - k, c[k - 1]) /\ c[k - 1] \in A
      BY <1>6, <3>1
    <3>5. f[i] = WalkFrom(pattern, path, i, f[i + 1]) /\ f[i + 1] \in A
      BY <3>1, <3>2, <3>3, <3>4, Zenon
    <3> QED BY <1>2, <2>2, <3>5
  <2> QED BY <2>1, <2>2
<1> DEFINE h == CHOOSE k : k = G(k)
<1>8. h = G(h)
  <2> HIDE DEF G, f
  <2> QED BY <1>7
<1>9. pathMatches(pattern, path) <=> 1 \in h[1]
  BY DEF pathMatches
<1> HIDE DEF Step, m, end
<1>10. \A i \in 1 .. m + 1 : h[i] = IF i > m THEN end ELSE Step(i, h[i + 1])
  <2> HIDE DEF h
  <2> QED BY <1>8
<1> HIDE DEF h, A
<1>11. \A i \in 1 .. m + 1 : h[i] \in A
  <2> DEFINE Bad == {i \in 1 .. m + 1 : h[i] \notin A}
  <2> SUFFICES ASSUME Bad # {} PROVE FALSE
    OBVIOUS
  <2>1. PICK i \in Bad : \A k \in Bad : k <= i
    <3>1. Bad \in SUBSET (0 .. m + 1) /\ m + 1 \in Nat
      BY <1>1
    <3> HIDE DEF Bad
    <3> QED BY <3>1, GreatestOfSome
  <2>2. ~(i > m)
    BY <2>1, <1>1, <1>10
  <2>3. i + 1 \in 1 .. m + 1 /\ i + 1 \notin Bad
    BY <2>1, <2>2, <1>1
  <2>4. h[i + 1] \in A
    BY <2>3
  <2>5. h[i] = Step(i, h[i + 1])
    BY <2>1, <2>2, <1>10
  <2> QED BY <2>1, <2>4, <2>5, <1>2, <1>3
<1>12. h[m + 1] = end
  BY <1>1, <1>10
<1>13. \A i \in 1 .. m : h[i] = WalkFrom(pattern, path, i, h[i + 1])
  <2> SUFFICES ASSUME NEW i \in 1 .. m PROVE h[i] = WalkFrom(pattern, path, i, h[i + 1])
    OBVIOUS
  <2>1. i \in 1 .. m + 1 /\ i + 1 \in 1 .. m + 1 /\ ~(i > m)
    BY <1>1
  <2> QED BY <2>1, <1>2, <1>10, <1>11
<1> QED BY <1>9, <1>11, <1>12, <1>13 DEF Walked, A, m, end

(* A pattern matches where a path can be cut for it.                       *)
Cuts(pattern, path, i, j, cut) ==
  /\ cut \in [i .. Len(pattern) + 1 -> 1 .. Len(path) + 1]
  /\ cut[i] = j /\ cut[Len(pattern) + 1] = Len(path) + 1
  /\ \A n \in i .. Len(pattern) : Leads(pattern, path, n, cut[n], cut[n + 1])

(* A place is reached by the walk exactly when the rest of the path can be *)
(* cut for the rest of the pattern.                                        *)
LEMMA WalkCuts ==
  ASSUME NEW pattern, Len(pattern) \in Nat, NEW path, Len(path) \in Nat, NEW W, Walked(pattern, path, W)
  PROVE  \A i \in 1 .. Len(pattern) + 1 : \A j : j \in W[i] <=> \E cut : Cuts(pattern, path, i, j, cut)
<1> DEFINE m == Len(pattern)
           n == Len(path)
           Fits(i) == \A j : j \in W[i] <=> \E cut : Cuts(pattern, path, i, j, cut)
           Bad == {i \in 1 .. m + 1 : ~Fits(i)}
<1>1. m \in Nat /\ n \in Nat
  OBVIOUS
<1>2. W[m + 1] = {n + 1} /\ \A i \in 1 .. m : W[i] = WalkFrom(pattern, path, i, W[i + 1])
  BY DEF Walked
<1>3. Fits(m + 1)
  <2> SUFFICES ASSUME NEW j PROVE j = n + 1 <=> \E cut : Cuts(pattern, path, m + 1, j, cut)
    BY <1>2
  <2>1. ASSUME j = n + 1 PROVE \E cut : Cuts(pattern, path, m + 1, j, cut)
    <3> DEFINE cut == [k \in m + 1 .. m + 1 |-> n + 1]
    <3>1. cut \in [m + 1 .. m + 1 -> 1 .. n + 1] /\ cut[m + 1] = n + 1 /\ \A k \in m + 1 .. m : FALSE
      BY <1>1
    <3> HIDE DEF cut
    <3> QED BY <2>1, <3>1 DEF Cuts
  <2>2. ASSUME NEW cut, Cuts(pattern, path, m + 1, j, cut) PROVE j = n + 1
    BY <2>2 DEF Cuts
  <2> QED BY <2>1, <2>2
<1>4. ASSUME NEW i \in 1 .. m, Fits(i + 1) PROVE Fits(i)
  <2> SUFFICES ASSUME NEW j PROVE j \in W[i] <=> \E cut : Cuts(pattern, path, i, j, cut)
    OBVIOUS
  <2>1. W[i] = {a \in 1 .. n + 1 : \E k \in W[i + 1] : Leads(pattern, path, i, a, k)}
    BY <1>2 DEF WalkFrom
  <2>2. /\ i \in Nat /\ i + 1 \in i .. m + 1 /\ i # m + 1 /\ i \in i .. m + 1 /\ i \in i .. m
        /\ m + 1 \in i + 1 .. m + 1 /\ i + 1 \in i + 1 .. m + 1
        /\ \A k \in i .. m + 1 : k = i \/ (k # i /\ k \in i + 1 .. m + 1)
        /\ \A k \in i + 1 .. m + 1 : k \in i .. m + 1
        /\ \A k \in i .. m : k + 1 # i /\ k + 1 \in i .. m + 1 /\ (k = i \/ (k # i /\ k \in i + 1 .. m))
        /\ \A k \in i + 1 .. m : k \in i .. m /\ k + 1 \in i + 1 .. m + 1 /\ k \in i + 1 .. m + 1
    BY <1>1
  <2> HIDE DEF Fits
  <2>3. ASSUME j \in W[i] PROVE \E cut : Cuts(pattern, path, i, j, cut)
    <3>1. j \in 1 .. n + 1 /\ \E k \in W[i + 1] : Leads(pattern, path, i, j, k)
      BY <2>1, <2>3
    <3>2. PICK k \in W[i + 1] : Leads(pattern, path, i, j, k)
      BY <3>1
    <3>3. PICK c : Cuts(pattern, path, i + 1, k, c)
      BY <1>4, <3>2 DEF Fits
    <3>4. /\ c \in [i + 1 .. m + 1 -> 1 .. n + 1] /\ c[i + 1] = k /\ c[m + 1] = n + 1
          /\ \A b \in i + 1 .. m : Leads(pattern, path, b, c[b], c[b + 1])
      BY <3>3 DEF Cuts
    <3> DEFINE cut == [b \in i .. m + 1 |-> IF b = i THEN j ELSE c[b]]
    <3>5. /\ cut[i] = j /\ \A b \in i + 1 .. m + 1 : cut[b] = c[b]
      BY <2>2
    <3>6. cut \in [i .. m + 1 -> 1 .. n + 1]
      BY <2>2, <3>1, <3>4
    <3> HIDE DEF cut
    <3>7. cut[m + 1] = n + 1 /\ cut[i + 1] = k
      BY <2>2, <3>4, <3>5
    <3>8. \A b \in i .. m : Leads(pattern, path, b, cut[b], cut[b + 1])
      <4> SUFFICES ASSUME NEW b \in i .. m PROVE Leads(pattern, path, b, cut[b], cut[b + 1])
        OBVIOUS
      <4>1. CASE b = i
        BY <4>1, <3>2, <3>5, <3>7
      <4>2. CASE b # i
        <5>1. b \in i + 1 .. m /\ b + 1 \in i + 1 .. m + 1 /\ b \in i + 1 .. m + 1
          BY <2>2, <4>2
        <5>2. cut[b] = c[b] /\ cut[b + 1] = c[b + 1]
          BY <3>5, <5>1
        <5> QED BY <3>4, <5>1, <5>2
      <4> QED BY <4>1, <4>2
    <3> QED BY <3>5, <3>6, <3>7, <3>8 DEF Cuts
  <2>4. ASSUME NEW cut, Cuts(pattern, path, i, j, cut) PROVE j \in W[i]
    <3>1. /\ cut \in [i .. m + 1 -> 1 .. n + 1] /\ cut[i] = j /\ cut[m + 1] = n + 1
          /\ \A b \in i .. m : Leads(pattern, path, b, cut[b], cut[b + 1])
      BY <2>4 DEF Cuts
    <3> DEFINE c == [b \in i + 1 .. m + 1 |-> cut[b]]
    <3>2. c \in [i + 1 .. m + 1 -> 1 .. n + 1] /\ \A b \in i + 1 .. m + 1 : c[b] = cut[b]
      BY <2>2, <3>1
    <3> HIDE DEF c
    <3>3. \A b \in i + 1 .. m : Leads(pattern, path, b, c[b], c[b + 1])
      <4> SUFFICES ASSUME NEW b \in i + 1 .. m PROVE Leads(pattern, path, b, c[b], c[b + 1])
        OBVIOUS
      <4>1. b \in i .. m /\ c[b] = cut[b] /\ c[b + 1] = cut[b + 1]
        BY <2>2, <3>2
      <4> QED BY <3>1, <4>1
    <3>4. c[i + 1] = cut[i + 1] /\ c[m + 1] = n + 1
      BY <2>2, <3>1, <3>2
    <3>5. Cuts(pattern, path, i + 1, cut[i + 1], c)
      BY <3>2, <3>3, <3>4 DEF Cuts
    <3>6. cut[i + 1] \in W[i + 1]
      BY <1>4, <3>5 DEF Fits
    <3>7. j \in 1 .. n + 1 /\ Leads(pattern, path, i, j, cut[i + 1])
      BY <2>2, <3>1
    <3> QED BY <2>1, <3>6, <3>7
  <2> QED BY <2>3, <2>4
<1>5. SUFFICES ASSUME Bad # {} PROVE FALSE
  OBVIOUS
<1> HIDE DEF Fits
<1>6. PICK i \in Bad : \A k \in Bad : k <= i
  <2>1. Bad \in SUBSET (0 .. m + 1) /\ m + 1 \in Nat
    BY <1>1
  <2> HIDE DEF Bad
  <2> QED BY <1>5, <2>1, GreatestOfSome
<1>7. i # m + 1
  BY <1>3, <1>6
<1>8. i \in 1 .. m /\ i + 1 \in 1 .. m + 1 /\ i + 1 \notin Bad
  BY <1>1, <1>6, <1>7
<1> QED BY <1>4, <1>6, <1>8

(* Cuts of the definition count the names before a place.                  *)
LEMMA PathsMatch ==
  ASSUME NEW pattern \in Patterns, NEW path \in Seq(Name)
  PROVE  pathMatches(pattern, path) <=> NamesPath(pattern, path)
<1> DEFINE m == Len(pattern)
           n == Len(path)
<1>1. m \in Nat /\ n \in Nat /\ DOMAIN path = 1 .. n /\ DOMAIN pattern = 1 .. m
      /\ \A k \in 1 .. n : path[k] \in Name
  <2>1. pattern \in Seq({Globstar} \cup Token)
    BY MaskingAssumption DEF MaskingAssumption
  <2> HIDE DEF Name
  <2> QED BY <2>1
<1>2. \A k \in 1 .. m : pattern[k] = Globstar \/ pattern[k] \in Token
  BY MaskingTypes
<1>3. PICK W : Walked(pattern, path, W) /\ (pathMatches(pattern, path) <=> 1 \in W[1])
  BY <1>1, WalkIs
<1>4. 1 \in W[1] <=> \E cut : Cuts(pattern, path, 1, 1, cut)
  <2>1. 1 \in 1 .. m + 1
    BY <1>1
  <2> QED BY <2>1, <1>1, <1>3, WalkCuts
<1> HIDE DEF m, n
<1>5. ASSUME NEW i \in 1 .. m, NEW j \in 1 .. n + 1, NEW k \in 1 .. n + 1
      PROVE  Leads(pattern, path, i, j, k) <=>
               IF pattern[i] = Globstar THEN j - 1 <= k - 1
               ELSE k - 1 = j - 1 + 1 /\ Spells(pattern[i], path[k - 1])
  <2>1. CASE pattern[i] = Globstar
    BY <2>1, <1>1 DEF Leads
  <2>2. CASE pattern[i] # Globstar
    <3>1. pattern[i] \in Token
      BY <1>2, <2>2
    <3>2. j \in Nat /\ k \in Nat /\ (k = j + 1 => k - 1 = j /\ j \in 1 .. n)
      BY <1>1
    <3>3. Leads(pattern, path, i, j, k) <=> k = j + 1 /\ j \in 1 .. n /\ globMatches(pattern[i], path[j])
      BY <2>2 DEF Leads, n
    <3>4. k = j + 1 => (globMatches(pattern[i], path[j]) <=> Spells(pattern[i], path[k - 1]))
      BY <1>1, <3>1, <3>2, GlobSpells
    <3>5. k = j + 1 <=> k - 1 = j - 1 + 1
      BY <3>2
    <3> QED BY <2>2, <3>2, <3>3, <3>4, <3>5
  <2> QED BY <2>1, <2>2
<1>6. ASSUME NEW cut, Cuts(pattern, path, 1, 1, cut) PROVE NamesPath(pattern, path)
  <2>1. /\ cut \in [1 .. m + 1 -> 1 .. n + 1] /\ cut[1] = 1 /\ cut[m + 1] = n + 1
        /\ \A i \in 1 .. m : Leads(pattern, path, i, cut[i], cut[i + 1])
    BY <1>6 DEF Cuts, m, n
  <2> DEFINE c == [i \in 0 .. m |-> cut[i + 1] - 1]
  <2>2. \A i \in 0 .. m : i + 1 \in 1 .. m + 1 /\ cut[i + 1] \in 1 .. n + 1 /\ cut[i + 1] - 1 \in 0 .. n
    BY <1>1, <2>1
  <2>3. c \in [0 .. m -> 0 .. n] /\ c[0] = 0 /\ c[m] = n
    BY <1>1, <2>1, <2>2
  <2>4. \A i \in 1 .. m : i - 1 \in 0 .. m /\ i \in 0 .. m /\ i - 1 + 1 = i
    BY <1>1
  <2>5. \A i \in 1 .. m : c[i - 1] = cut[i] - 1 /\ c[i] = cut[i + 1] - 1
    BY <2>4
  <2> HIDE DEF c
  <2>6. \A i \in 1 .. m : IF pattern[i] = Globstar THEN c[i - 1] <= c[i]
                          ELSE c[i] = c[i - 1] + 1 /\ Spells(pattern[i], path[c[i]])
    <3> SUFFICES ASSUME NEW i \in 1 .. m
                 PROVE  IF pattern[i] = Globstar THEN c[i - 1] <= c[i]
                        ELSE c[i] = c[i - 1] + 1 /\ Spells(pattern[i], path[c[i]])
      OBVIOUS
    <3>1. cut[i] \in 1 .. n + 1 /\ cut[i + 1] \in 1 .. n + 1 /\ Leads(pattern, path, i, cut[i], cut[i + 1])
      BY <2>1, <2>2, <2>4
    <3> QED BY <1>5, <2>5, <3>1
  <2> QED BY <1>1, <2>3, <2>6 DEF NamesPath, m, n
<1>7. ASSUME NamesPath(pattern, path) PROVE \E cut : Cuts(pattern, path, 1, 1, cut)
  <2>1. PICK c \in [0 .. m -> 0 .. n] :
          /\ c[0] = 0 /\ c[m] = n
          /\ \A i \in DOMAIN pattern : IF pattern[i] = Globstar THEN c[i - 1] <= c[i]
                                       ELSE c[i] = c[i - 1] + 1 /\ Spells(pattern[i], path[c[i]])
    BY <1>7 DEF NamesPath, m, n
  <2> DEFINE cut == [i \in 1 .. m + 1 |-> c[i - 1] + 1]
  <2>2. \A i \in 1 .. m + 1 : i - 1 \in 0 .. m /\ c[i - 1] \in 0 .. n /\ c[i - 1] + 1 \in 1 .. n + 1
    BY <1>1
  <2>3. cut \in [1 .. m + 1 -> 1 .. n + 1] /\ cut[1] = 1 /\ cut[m + 1] = n + 1
    BY <1>1, <2>1, <2>2
  <2>4. \A i \in 1 .. m : /\ i \in 1 .. m + 1 /\ i + 1 \in 1 .. m + 1 /\ i + 1 - 1 = i
                          /\ cut[i] - 1 = c[i - 1] /\ cut[i + 1] - 1 = c[i]
    <3> SUFFICES ASSUME NEW i \in 1 .. m
                 PROVE  /\ i \in 1 .. m + 1 /\ i + 1 \in 1 .. m + 1 /\ i + 1 - 1 = i
                        /\ cut[i] - 1 = c[i - 1] /\ cut[i + 1] - 1 = c[i]
      OBVIOUS
    <3>1. i \in 1 .. m + 1 /\ i + 1 \in 1 .. m + 1 /\ i + 1 - 1 = i
      BY <1>1
    <3>2. c[i - 1] \in Int /\ c[i] \in Int
      BY <2>2, <3>1, <1>1
    <3>3. cut[i] = c[i - 1] + 1 /\ cut[i + 1] = c[i] + 1
      BY <3>1
    <3> HIDE DEF cut
    <3> QED BY <3>1, <3>2, <3>3
  <2> HIDE DEF cut
  <2>5. \A i \in 1 .. m : Leads(pattern, path, i, cut[i], cut[i + 1])
    <3> SUFFICES ASSUME NEW i \in 1 .. m PROVE Leads(pattern, path, i, cut[i], cut[i + 1])
      OBVIOUS
    <3>1. cut[i] \in 1 .. n + 1 /\ cut[i + 1] \in 1 .. n + 1
      BY <2>3, <2>4
    <3>2. IF pattern[i] = Globstar THEN c[i - 1] <= c[i]
          ELSE c[i] = c[i - 1] + 1 /\ Spells(pattern[i], path[c[i]])
      BY <1>1, <2>1
    <3> QED BY <1>5, <2>4, <3>1, <3>2
  <2> QED BY <2>3, <2>5 DEF Cuts, m, n
<1> QED BY <1>3, <1>4, <1>6, <1>7

(* The order of prefixes.                                                  *)
LEMMA PrefixesAre ==
  ASSUME NEW q \in Seq(Name), NEW r \in Seq(Name)
  PROVE  /\ IsPrefix(q, q)
         /\ IsPrefix(q, r) => Len(q) \in Nat /\ Len(r) \in Nat /\ Len(q) <= Len(r)
         /\ IsStrictPrefix(q, r) => Len(q) < Len(r)
         /\ \A s \in Seq(Name) : IsPrefix(q, r) /\ IsPrefix(r, s) => IsPrefix(q, s)
<1> HIDE DEF Name
<1> DEFINE Begins(a, b) == Len(a) <= Len(b) /\ \A i \in 1 .. Len(a) : a[i] = b[i]
<1>1. ASSUME NEW a \in Seq(Name), NEW b \in Seq(Name) PROVE IsPrefix(a, b) <=> Begins(a, b)
  <2>1. Len(a) \in Nat /\ Len(b) \in Nat
    OBVIOUS
  <2>2. ASSUME Len(a) <= Len(b)
        PROVE  SubSeq(a, 1, Len(a)) = SubSeq(b, 1, Len(a)) <=> \A i \in 1 .. Len(a) : a[i] = b[i]
    <3> DEFINE u == SubSeq(a, 1, Len(a))
               v == SubSeq(b, 1, Len(a))
    <3>1. /\ u \in Seq(Name) /\ Len(u) = Len(a) /\ \A i \in 1 .. Len(a) : u[i] = a[i]
          /\ v \in Seq(Name) /\ Len(v) = Len(a) /\ \A i \in 1 .. Len(a) : v[i] = b[i]
      BY <2>1, <2>2
    <3>2. (\A i \in 1 .. Len(a) : u[i] = v[i]) => u = v
      <4> HIDE DEF u, v
      <4> QED BY <3>1, SeqEqual
    <3> HIDE DEF u, v
    <3>3. u = v <=> \A i \in 1 .. Len(a) : a[i] = b[i]
      BY <3>1, <3>2
    <3> QED BY <3>3 DEF u, v
  <2> QED BY <2>2 DEF IsPrefix
<1>2. Len(q) \in Nat /\ Len(r) \in Nat
  OBVIOUS
<1>3. Begins(q, q)
  BY <1>2
<1>4. IsStrictPrefix(q, r) => Len(q) < Len(r)
  <2> SUFFICES ASSUME IsStrictPrefix(q, r), ~(Len(q) < Len(r)) PROVE FALSE
    OBVIOUS
  <2>1. Begins(q, r) /\ q # r
    BY <1>1 DEF IsStrictPrefix
  <2>2. Len(q) = Len(r)
    BY <2>1, <1>2
  <2> QED BY <2>1, <2>2, SeqEqual
<1>5. ASSUME NEW s \in Seq(Name), Begins(q, r), Begins(r, s) PROVE Begins(q, s)
  <2>1. Len(s) \in Nat /\ \A i \in 1 .. Len(q) : i \in 1 .. Len(r)
    BY <1>2, <1>5
  <2> QED BY <1>2, <1>5, <2>1
<1> HIDE DEF Begins
<1>6. IsPrefix(q, r) => Len(q) <= Len(r)
  BY DEF IsPrefix
<1> QED BY <1>1, <1>2, <1>3, <1>4, <1>5, <1>6

(* What the rules make of one path.                                        *)
NamedBy(actions, path) == \E p \in Patterns : maskingRule[p] \in actions /\ NamesPath(p, path)

(* Drop wins over hash.                                                    *)
LEMMA ActionsAre ==
  ASSUME NEW path \in Seq(Name)
  PROVE  /\ ActionOn(path) \in {"none", "drop", "hash"}
         /\ ActionOn(path) = "drop" <=> NamedBy({"drop"}, path)
         /\ ActionOn(path) # "none" <=> NamedBy({"drop", "hash"}, path)
<1>1. \A p \in Patterns : pathMatches(p, path) <=> NamesPath(p, path)
  BY PathsMatch
<1>2. \A a : a \in RulesFor(path) <=> \E p \in Patterns : maskingRule[p] = a /\ NamesPath(p, path)
  BY <1>1 DEF RulesFor
<1> QED BY <1>2 DEF ActionOn, NamedBy

(* What is visited.                                                        *)
Reached(tree) == {path \in tree : \A q \in tree : IsStrictPrefix(q, path) => ActionOn(q) = "none"}
Settled(tree, a) == {path \in Reached(tree) : ActionOn(path) = a}

(* applyMaskingRules, as the sets of what it visits.                       *)
LEMMA MasksAre ==
  ASSUME NEW tree
  PROVE  applyMaskingRules(tree) =
           IF Cardinality(Reached(tree)) > MaxMaskNodes \/ \E path \in Reached(tree) : Len(path) > MaxMaskDepth
           THEN Nothing
           ELSE [ok |-> TRUE, clear |-> Settled(tree, "none"), hashed |-> Settled(tree, "hash"),
                 dropped |-> Settled(tree, "drop")]
<1> DEFINE action == [path \in tree |-> ActionOn(path)]
           visited == {path \in tree : \A q \in tree : IsStrictPrefix(q, path) => action[q] = "none"}
           With(a) == {path \in visited : action[path] = a}
<1>1. \A q \in tree : action[q] = ActionOn(q)
  OBVIOUS
<1>2. applyMaskingRules(tree) =
        IF Cardinality(visited) > MaxMaskNodes \/ \E path \in visited : Len(path) > MaxMaskDepth
        THEN Nothing
        ELSE [ok |-> TRUE, clear |-> With("none"), hashed |-> With("hash"), dropped |-> With("drop")]
  BY DEF applyMaskingRules
<1> HIDE DEF action
<1>3. visited = Reached(tree)
  BY <1>1 DEF Reached
<1>4. \A a : With(a) = Settled(tree, a)
  <2> SUFFICES ASSUME NEW a PROVE With(a) = Settled(tree, a)
    OBVIOUS
  <2>1. \A path \in visited : path \in tree
    OBVIOUS
  <2> QED BY <1>1, <1>3, <2>1 DEF Settled
<1>5. With("none") = Settled(tree, "none") /\ With("hash") = Settled(tree, "hash") /\ With("drop") = Settled(tree, "drop")
  BY <1>4
<1> HIDE DEF visited, With
<1> QED BY <1>2, <1>3, <1>5

(* A path that a rule names lies under the first that the walk stops at.   *)
LEMMA NamedIsReached ==
  ASSUME NEW tree, tree \subseteq Seq(Name), NEW path \in tree, ActionOn(path) # "none"
  PROVE  \E q \in Reached(tree) : ActionOn(q) # "none" /\ IsPrefix(q, path)
<1> HIDE DEF Name
<1> DEFINE stops == {q \in tree : IsPrefix(q, path) /\ ActionOn(q) # "none"}
           lengths == {Len(q) : q \in stops}
<1>1. lengths \in SUBSET Nat /\ Len(path) \in lengths
  BY PrefixesAre
<1>2. PICK n \in lengths : \A k \in lengths : n <= k
  <2> HIDE DEF lengths
  <2> QED BY <1>1, LeastOfSome
<1>3. PICK q \in stops : Len(q) = n
  BY <1>2
<1>4. ASSUME NEW r \in tree, IsStrictPrefix(r, q) PROVE ActionOn(r) = "none"
  <2>1. Len(r) < Len(q) /\ IsPrefix(r, path) /\ Len(r) \in Nat /\ Len(q) \in Nat
    BY <1>3, <1>4, PrefixesAre DEF IsStrictPrefix
  <2>2. r \notin stops
    <3> SUFFICES ASSUME r \in stops PROVE FALSE
      OBVIOUS
    <3>1. Len(r) \in lengths
      OBVIOUS
    <3>2. Len(q) = n
      BY <1>3
    <3> HIDE DEF lengths, stops
    <3> QED BY <1>2, <2>1, <3>1, <3>2
  <2> QED BY <2>1, <2>2
<1> QED BY <1>3, <1>4 DEF Reached

(* The rules, and what was masked last by them.                            *)
MaskingInv ==
  /\ maskingRule \in [Patterns -> {"none", "drop", "hash"}]
  /\ \/ payload = {} /\ masked = Nothing
     \/ payload \in Payloads /\ masked = applyMaskingRules(payload)

(* A fresh table has no rule and nothing is masked.                        *)
LEMMA MaskingBegins == MaskingInit => MaskingInv
BY DEF MaskingInit, MaskingInv

(* A change of the rules forgets what was masked by those before it.       *)
LEMMA MaskingStep == MaskingInv /\ [MaskingNext]_maskingVars => MaskingInv'
<1> SUFFICES ASSUME MaskingInv, [MaskingNext]_maskingVars PROVE MaskingInv'
  OBVIOUS
<1>1. ASSUME NEW p \in Patterns, deleteMaskingRule(p) PROVE MaskingInv'
  BY <1>1 DEF MaskingInv, deleteMaskingRule, Nothing
<1>2. ASSUME NEW p \in Patterns, NEW a \in {"drop", "hash"}, createMaskingRule(p, a) PROVE MaskingInv'
  BY <1>2 DEF MaskingInv, createMaskingRule, Nothing
<1>3. ASSUME NEW tree \in Payloads, MaskPayload(tree) PROVE MaskingInv'
  <2>1. maskingRule' = maskingRule /\ payload' = tree /\ masked' = applyMaskingRules(tree)
    BY <1>3 DEF MaskPayload
  <2>2. applyMaskingRules(payload)' = applyMaskingRules(tree)
    BY <2>1 DEF applyMaskingRules, ActionOn, RulesFor
  <2> HIDE DEF applyMaskingRules
  <2> QED BY <2>1, <2>2 DEF MaskingInv
<1>4. CASE UNCHANGED maskingVars
  <2>1. maskingRule' = maskingRule /\ payload' = payload /\ masked' = masked
    BY <1>4 DEF maskingVars
  <2>2. applyMaskingRules(payload)' = applyMaskingRules(payload)
    BY <2>1 DEF applyMaskingRules, ActionOn, RulesFor
  <2> QED BY <2>1, <2>2 DEF MaskingInv, Nothing
<1> QED BY <1>1, <1>2, <1>3, <1>4 DEF MaskingNext

(* What is masked is what the rules name, and nothing else, unless the     *)
(* payload is beyond the limits.                                           *)
LEMMA MaskingSuffices == MaskingInv => MaskingIsComplete
<1> SUFFICES ASSUME MaskingInv PROVE MaskingIsComplete
  OBVIOUS
<1>1. CASE payload = {} /\ masked = Nothing
  <2>1. masked.ok = FALSE
    BY <1>1 DEF Nothing
  <2> QED BY <1>1, <2>1 DEF MaskingIsComplete
<1>2. CASE payload \in Payloads /\ masked = applyMaskingRules(payload)
  <2>1. payload \subseteq Seq(Name) /\ IsFiniteSet(payload) /\ MaxMaskNodes \in Nat
    BY <1>2, MaskingAssumption DEF MaskingAssumption
  <2> HIDE DEF Name
  <2>2. \A path \in payload :
          /\ ActionOn(path) \in {"none", "drop", "hash"}
          /\ ActionOn(path) = "drop" <=> path \in Named({"drop"})
          /\ ActionOn(path) # "none" <=> path \in Named({"drop", "hash"})
    BY <2>1, ActionsAre DEF Named, NamedBy
  <2>3. Named({"drop"}) \subseteq payload /\ Named({"drop", "hash"}) \subseteq payload
    BY DEF Named
  <2>4. \A q, r \in payload : IsPrefix(q, q) /\ (IsPrefix(q, r) /\ q # r => IsStrictPrefix(q, r))
    BY <2>1, PrefixesAre DEF IsStrictPrefix
  <2>5. Reached(payload) \subseteq payload
    BY DEF Reached
  <2>6. CASE Cardinality(Reached(payload)) > MaxMaskNodes \/ \E path \in Reached(payload) : Len(path) > MaxMaskDepth
    <3>1. masked = Nothing
      BY <1>2, <2>6, MasksAre
    <3>2. masked.ok = FALSE
      BY <3>1 DEF Nothing
    <3>3. Cardinality(Reached(payload)) <= Cardinality(payload) /\ Cardinality(payload) \in Nat
          /\ Cardinality(Reached(payload)) \in Nat
      BY <2>1, <2>5, FS_Subset, FS_CardinalityType
    <3>4. Cardinality(payload) > MaxMaskNodes \/ \E path \in payload : Len(path) > MaxMaskDepth
      BY <2>1, <2>5, <2>6, <3>3
    <3> QED BY <3>2, <3>4 DEF MaskingIsComplete
  <2>7. CASE ~(Cardinality(Reached(payload)) > MaxMaskNodes \/ \E path \in Reached(payload) : Len(path) > MaxMaskDepth)
    <3>1. masked = [ok |-> TRUE, clear |-> Settled(payload, "none"), hashed |-> Settled(payload, "hash"),
                    dropped |-> Settled(payload, "drop")]
      BY <1>2, <2>7, MasksAre
    <3>2. /\ masked.ok = TRUE /\ masked.clear = Settled(payload, "none")
          /\ masked.hashed = Settled(payload, "hash") /\ masked.dropped = Settled(payload, "drop")
      BY <3>1
    <3>3. Settled(payload, "none") = {path \in payload : ~Encloses(path, Named({"drop", "hash"}))}
      <4>1. ASSUME NEW path \in Settled(payload, "none"), NEW q \in Named({"drop", "hash"}), IsPrefix(q, path)
            PROVE  FALSE
        BY <4>1, <2>2, <2>3, <2>4 DEF Settled, Reached
      <4>2. ASSUME NEW path \in payload, \A q \in Named({"drop", "hash"}) : ~IsPrefix(q, path)
            PROVE  path \in Settled(payload, "none")
        BY <4>2, <2>2, <2>4 DEF Settled, Reached, IsStrictPrefix
      <4>3. Settled(payload, "none") \subseteq payload
        BY <2>5 DEF Settled
      <4> QED BY <4>1, <4>2, <4>3 DEF Encloses
    <3>4. ASSUME NEW path \in Named({"drop"})
          PROVE  Encloses(path, Settled(payload, "drop") \cup Settled(payload, "hash"))
      <4>1. PICK q \in Reached(payload) : ActionOn(q) # "none" /\ IsPrefix(q, path)
        BY <2>1, <2>2, <2>3, NamedIsReached
      <4>2. q \in Settled(payload, "drop") \cup Settled(payload, "hash")
        BY <4>1, <2>2, <2>5 DEF Settled
      <4> QED BY <4>1, <4>2 DEF Encloses
    <3>5. Settled(payload, "hash") \cap Named({"drop"}) = {}
      BY <2>2, <2>5 DEF Settled
    <3>6. Settled(payload, "hash") \cup Settled(payload, "drop") \subseteq Named({"drop", "hash"})
      BY <2>2, <2>5 DEF Settled
    <3> QED BY <3>2, <3>3, <3>4, <3>5, <3>6 DEF MaskingIsComplete
  <2> QED BY <2>6, <2>7
<1> QED BY <1>1, <1>2 DEF MaskingInv

-------------------------------------------------------------------------------
(* Amounts of money                                                        *)

(* Induction over places, for a set of them.                               *)
LEMMA AllPlaces ==
  ASSUME NEW n \in Nat, NEW S, 0 \in S, \A k \in 0 .. n : k \in S /\ k < n => k + 1 \in S
  PROVE  \A k \in 0 .. n : k \in S
<1> DEFINE Bad == {k \in 0 .. n : k \notin S}
<1> SUFFICES ASSUME Bad # {} PROVE FALSE
  OBVIOUS
<1>1. PICK k \in Bad : \A j \in Bad : k <= j
  <2>1. Bad \in SUBSET Nat
    OBVIOUS
  <2> HIDE DEF Bad
  <2> QED BY <2>1, LeastOfSome
<1>2. k # 0
  BY <1>1
<1>3. k - 1 \in 0 .. n /\ k - 1 < n /\ k - 1 + 1 = k /\ k - 1 \notin Bad
  BY <1>1, <1>2
<1> QED BY <1>1, <1>3

(* There are at least two digits.                                          *)
LEMMA RadixIs == Radix \in Nat /\ Radix >= 2
  BY DecimalsAssumption DEF DecimalsAssumption

(* Tables that are read from left to right: of Pow (no digits, from 1) and *)
(* of Num.                                                                 *)
Reads(f, first, s, n) ==
  f \in [0 .. n -> Nat] /\ f[0] = first /\ \A k \in 0 .. n : k < n => f[k + 1] = Radix * f[k] + s[k + 1]

(* Every table exists.                                                     *)
LEMMA ReadsExist ==
  ASSUME NEW n \in Nat, NEW first \in Nat, NEW s, \A k \in 1 .. n : s[k] \in Nat
  PROVE  \E f : Reads(f, first, s, n)
<1> DEFINE g == [k \in 1 .. n |-> [x \in Nat |-> Radix * x + s[k]]]
<1>1. g \in StepsIn(Nat, n)
  BY RadixIs DEF StepsIn
<1>2. \A k \in 1 .. n : \A x \in Nat : g[k][x] = Radix * x + s[k]
  OBVIOUS
<1> HIDE DEF g
<1>3. PICK f : ChainFrom(Nat, first, n, g, f)
  BY <1>1, ChainExists
<1>4. /\ f \in [0 .. n -> Nat] /\ f[0] = first
      /\ \A k \in 1 .. n : f[k] = g[k][f[k - 1]]
  BY <1>3 DEF ChainFrom
<1>5. ASSUME NEW k \in 0 .. n, k < n PROVE f[k + 1] = Radix * f[k] + s[k + 1]
  <2>1. k + 1 \in 1 .. n /\ k + 1 - 1 = k /\ f[k] \in Nat
    BY <1>4, <1>5
  <2>2. f[k + 1] = g[k + 1][f[k]]
    BY <1>4, <2>1
  <2> QED BY <1>2, <2>1, <2>2
<1> QED BY <1>4, <1>5 DEF Reads

(* Two tables agree as far as their digits do.                             *)
LEMMA ReadsAgree ==
  ASSUME NEW n \in Nat, NEW m \in Nat, NEW first, NEW s, NEW t, NEW f, NEW g, n <= m,
         Reads(f, first, s, n), Reads(g, first, t, m), \A k \in 1 .. n : s[k] = t[k]
  PROVE  \A k \in 0 .. n : f[k] = g[k]
<1> DEFINE S == {k \in 0 .. n : f[k] = g[k]}
<1>1. 0 \in S
  BY DEF Reads
<1>2. ASSUME NEW k \in 0 .. n, k \in S, k < n PROVE k + 1 \in S
  <2>1. k + 1 \in 1 .. n /\ k \in 0 .. m /\ k < m /\ k + 1 \in 0 .. n
    BY <1>2
  <2>2. f[k + 1] = Radix * f[k] + s[k + 1]
    BY <1>2 DEF Reads
  <2>3. g[k + 1] = Radix * g[k] + t[k + 1]
    BY <2>1 DEF Reads
  <2>4. f[k] = g[k] /\ s[k + 1] = t[k + 1]
    BY <1>2, <2>1
  <2>5. f[k + 1] = g[k + 1]
    BY <2>2, <2>3, <2>4
  <2> QED BY <2>1, <2>5
<1> HIDE DEF S
<1>3. \A k \in 0 .. n : k \in S
  BY <1>1, <1>2, AllPlaces
<1> QED BY <1>3 DEF S

(* A recursive definition of the model gives such a table.                 *)
LEMMA DefinedReads ==
  ASSUME NEW n \in Nat, NEW first \in Nat, NEW s, \A k \in 1 .. n : s[k] \in Nat,
         NEW h, h = [k \in 0 .. n |-> IF k = 0 THEN first ELSE Radix * h[k - 1] + s[k]]
  PROVE  Reads(h, first, s, n)
<1>1. h[0] = first
  OBVIOUS
<1>2. ASSUME NEW k \in 0 .. n, k < n PROVE h[k + 1] = Radix * h[k] + s[k + 1]
  <2>1. k + 1 \in 0 .. n /\ k + 1 # 0 /\ k + 1 - 1 = k
    BY <1>2
  <2>2. \A i \in 0 .. n : i # 0 => h[i] = Radix * h[i - 1] + s[i]
    OBVIOUS
  <2>3. h[k + 1] = Radix * h[k + 1 - 1] + s[k + 1]
    BY <2>1, <2>2
  <2> QED BY <2>1, <2>3
<1> DEFINE S == {k \in 0 .. n : h[k] \in Nat}
<1>3. ASSUME NEW k \in 0 .. n, k \in S, k < n PROVE k + 1 \in S
  <2>1. k + 1 \in 0 .. n /\ k + 1 \in 1 .. n
    BY <1>3
  <2>2. h[k] \in Nat /\ s[k + 1] \in Nat
    BY <1>3, <2>1
  <2>3. Radix * h[k] + s[k + 1] \in Nat
    <3>1. \A a, b, c \in Nat : a * b + c \in Nat
      OBVIOUS
    <3> QED BY <2>2, <3>1, RadixIs
  <2>4. h[k + 1] \in Nat
    BY <1>2, <1>3, <2>3
  <2> QED BY <2>1, <2>4
<1>4. \A k \in 0 .. n : k \in S
  <2>1. 0 \in S
    BY <1>1
  <2> HIDE DEF S
  <2> QED BY <1>3, <2>1, AllPlaces
<1>5. h \in [0 .. n -> Nat]
  <2>1. \A k \in 0 .. n : h[k] \in Nat
    BY <1>4
  <2>2. h = [k \in 0 .. n |-> h[k]]
    OBVIOUS
  <2> QED BY <2>1, <2>2
<1> QED BY <1>1, <1>2, <1>5 DEF Reads

(* The powers of the radix.                                                *)
LEMMA PowIs ==
  ASSUME NEW n \in Nat, NEW f, NEW s, \A k \in 1 .. n : s[k] = 0, Reads(f, 1, s, n)
  PROVE  \A m \in 0 .. n : Pow(m) = f[m]
<1> SUFFICES ASSUME NEW m \in 0 .. n PROVE Pow(m) = f[m]
  OBVIOUS
<1> DEFINE G(h) == [k \in 0 .. m |-> IF k = 0 THEN 1 ELSE Radix * h[k - 1]]
           z == [k \in 1 .. m |-> 0]
<1>1. PICK g : Reads(g, 1, z, m)
  BY ReadsExist
<1>2. g = G(g)
  <2>1. g \in [0 .. m -> Nat] /\ g[0] = 1
    BY <1>1 DEF Reads
  <2>2. ASSUME NEW k \in 0 .. m, k # 0 PROVE g[k] = Radix * g[k - 1]
    <3>1. k - 1 \in 0 .. m /\ k - 1 < m /\ k - 1 + 1 = k /\ z[k] = 0 /\ g[k - 1] \in Nat
      BY <2>1, <2>2
    <3>2. \A i \in 0 .. m : i < m => g[i + 1] = Radix * g[i] + z[i + 1]
      BY <1>1 DEF Reads
    <3> HIDE DEF z
    <3> DEFINE i == k - 1
    <3>3. i \in 0 .. m /\ i < m /\ i + 1 = k
      BY <3>1
    <3> HIDE DEF i
    <3>4. g[k] = Radix * g[i] + z[k]
      BY <3>2, <3>3
    <3> QED BY <3>1, <3>4, RadixIs DEF i
  <2> QED BY <2>1, <2>2
<1> DEFINE h == CHOOSE h : h = G(h)
<1>3. h = G(h)
  <2> HIDE DEF G
  <2> QED BY <1>2
<1>4. Pow(m) = h[m]
  BY DEF Pow
<1> HIDE DEF h
<1>5. Reads(h, 1, z, m)
  <2>1. \A k \in 0 .. m : k # 0 => h[k] = Radix * h[k - 1]
    BY <1>3
  <2> DEFINE S == {k \in 0 .. m : h[k] \in Nat}
  <2>2. h[0] = 1
    BY <1>3
  <2>3. ASSUME NEW k \in 0 .. m, k < m PROVE h[k + 1] = Radix * h[k] /\ k + 1 \in 0 .. m
    <3>1. k + 1 \in 0 .. m /\ k + 1 # 0 /\ k + 1 - 1 = k
      BY <2>3
    <3>2. h[k + 1] = Radix * h[k + 1 - 1]
      BY <2>1, <3>1
    <3> QED BY <3>1, <3>2
  <2>4. \A k \in 0 .. m : k \in S
    <3>1. 0 \in S
      BY <2>2
    <3>2. ASSUME NEW k \in 0 .. m, k \in S, k < m PROVE k + 1 \in S
      BY <2>3, <3>2, RadixIs
    <3> HIDE DEF S
    <3> QED BY <3>1, <3>2, AllPlaces
  <2>5. h \in [0 .. m -> Nat]
    <3>1. h = [k \in 0 .. m |-> h[k]]
      BY <1>3
    <3> QED BY <2>4, <3>1
  <2>6. \A k \in 0 .. m : k < m => h[k + 1] = Radix * h[k] + z[k + 1]
    <3> SUFFICES ASSUME NEW k \in 0 .. m, k < m PROVE h[k + 1] = Radix * h[k] + z[k + 1]
      OBVIOUS
    <3>1. z[k + 1] = 0 /\ h[k] \in Nat
      BY <2>5
    <3> QED BY <2>3, <3>1, RadixIs
  <2> QED BY <2>2, <2>5, <2>6 DEF Reads
<1>6. h[m] = f[m]
  <2>1. \A k \in 1 .. m : z[k] = s[k]
    OBVIOUS
  <2>2. m \in Nat /\ m <= n /\ m \in 0 .. m
    OBVIOUS
  <2> HIDE DEF z
  <2>3. \A k \in 0 .. m : h[k] = f[k]
    BY <1>5, <2>1, <2>2, ReadsAgree
  <2> QED BY <2>2, <2>3
<1> QED BY <1>4, <1>6

(* Products of naturals, for the solvers.                                  *)
LEMMA Arithmetic ==
  /\ \A a, b \in Nat : a * b \in Nat
  /\ \A a, b, c \in Nat : a * (b + c) = a * b + a * c /\ a * b = b * a
  /\ \A a, b, c \in Nat : a * (b * c) = a * b * c
  /\ \A a, b, c \in Nat : b <= c => a * b <= a * c
  /\ \A a, b, c \in Nat : a >= 1 /\ b < c => a * b < a * c
OBVIOUS

(* Powers by one step.                                                     *)
LEMMA Powers ==
  /\ Pow(0) = 1
  /\ \A n \in Nat : Pow(n) \in Nat /\ n < Pow(n) /\ Pow(n) >= 1
  /\ \A m, n \in Nat : m = n + 1 => Pow(m) = Radix * Pow(n)
<1>1. ASSUME NEW n \in Nat PROVE Pow(0) = 1 /\ Pow(n) \in Nat /\ n < Pow(n) /\ Pow(n + 1) = Radix * Pow(n)
  <2> DEFINE N == n + 1
             s == [k \in 1 .. N |-> 0]
  <2>1. N \in Nat /\ \A k \in 1 .. N : s[k] = 0
    OBVIOUS
  <2>2. 0 \in 0 .. N /\ n \in 0 .. N /\ N \in 0 .. N /\ n < N
    OBVIOUS
  <2> HIDE DEF s, N
  <2>3. PICK f : Reads(f, 1, s, N)
    BY <2>1, ReadsExist
  <2>4. \A m \in 0 .. N : Pow(m) = f[m]
    BY <2>1, <2>3, PowIs
  <2>5. f \in [0 .. N -> Nat] /\ f[0] = 1 /\ \A k \in 0 .. N : k < N => f[k + 1] = Radix * f[k] + s[k + 1]
    BY <2>3 DEF Reads
  <2>6. ASSUME NEW k \in 0 .. N, k < N PROVE f[k + 1] = Radix * f[k]
    <3>1. s[k + 1] = 0 /\ f[k] \in Nat
      BY <2>1, <2>5, <2>6
    <3>2. Radix * f[k] \in Nat
      BY <3>1, RadixIs, Arithmetic
    <3> QED BY <2>5, <2>6, <3>1, <3>2
  <2> DEFINE S == {k \in 0 .. N : k < f[k]}
  <2>7. ASSUME NEW k \in 0 .. N, k \in S, k < N PROVE k + 1 \in S
    <3>1. f[k] \in Nat /\ k < f[k]
      BY <2>5, <2>7
    <3>2. k + 1 < Radix * f[k]
      <4>1. \A a, b, c \in Nat : a >= 2 /\ c < b => c + 1 < a * b
        OBVIOUS
      <4>2. k \in Nat
        OBVIOUS
      <4> QED BY <3>1, <4>1, <4>2, RadixIs
    <3>3. k + 1 \in 0 .. N
      BY <2>1, <2>7
    <3> QED BY <2>6, <2>7, <3>2, <3>3
  <2>8. \A k \in 0 .. N : k \in S
    <3>1. 0 \in S
      BY <2>2, <2>5
    <3> HIDE DEF S
    <3> QED BY <2>1, <2>7, <3>1, AllPlaces
  <2>9. Pow(n) = f[n] /\ Pow(0) = f[0] /\ Pow(N) = f[N]
    BY <2>2, <2>4
  <2>10. f[N] = Radix * f[n]
    BY <2>2, <2>6 DEF N
  <2>11. n < f[n] /\ f[n] \in Nat
    BY <2>2, <2>5, <2>8
  <2>12. Pow(N) = Radix * Pow(n)
    BY <2>9, <2>10
  <2> QED BY <2>5, <2>9, <2>11, <2>12 DEF N
<1>2. ASSUME NEW n \in Nat, NEW m \in Nat, m = n + 1 PROVE Pow(m) = Radix * Pow(n)
  BY <1>1, <1>2
<1>3. ASSUME NEW n \in Nat PROVE Pow(n) >= 1
  <2>1. Pow(n) \in Nat /\ n < Pow(n)
    BY <1>1
  <2> QED BY <2>1
<1> QED BY <1>1, <1>2, <1>3

(* Powers of sums.                                                         *)
LEMMA PowOfSum ==
  ASSUME NEW a \in Nat, NEW b \in Nat, NEW c \in Nat, c = a + b
  PROVE  Pow(c) = Pow(a) * Pow(b)
<1> DEFINE S == {k \in 0 .. b : \A d \in Nat : d = a + k => Pow(d) = Pow(a) * Pow(k)}
<1>1. 0 \in S
  <2> SUFFICES ASSUME NEW d \in Nat, d = a + 0 PROVE Pow(d) = Pow(a) * Pow(0)
    OBVIOUS
  <2>1. d = a
    OBVIOUS
  <2>2. Pow(a) \in Nat /\ Pow(0) = 1
    BY Powers
  <2> QED BY <2>1, <2>2
<1>2. ASSUME NEW k \in 0 .. b, k \in S, k < b PROVE k + 1 \in S
  <2>1. k + 1 \in 0 .. b /\ k \in Nat /\ k + 1 \in Nat
    BY <1>2
  <2>2. ASSUME NEW d \in Nat, d = a + (k + 1) PROVE Pow(d) = Pow(a) * Pow(k + 1)
    <3> DEFINE e == a + k
               j == k + 1
    <3>1. e \in Nat /\ d = e + 1 /\ j \in Nat /\ j = k + 1
      BY <2>1, <2>2
    <3> HIDE DEF e, j
    <3>2. Pow(d) = Radix * Pow(e) /\ Pow(j) = Radix * Pow(k)
      BY <2>1, <3>1, Powers
    <3>3. Pow(e) = Pow(a) * Pow(k)
      BY <1>2, <3>1 DEF e
    <3>4. Pow(a) \in Nat /\ Pow(k) \in Nat
      BY <2>1, Powers
    <3>5. \A x, y, z \in Nat : x * (y * z) = y * (x * z)
      OBVIOUS
    <3>6. Pow(d) = Pow(a) * Pow(j)
      BY <3>2, <3>3, <3>4, <3>5, RadixIs
    <3> QED BY <3>6 DEF j
  <2> QED BY <2>1, <2>2
<1>3. \A k \in 0 .. b : k \in S
  <2> HIDE DEF S
  <2> QED BY <1>1, <1>2, AllPlaces
<1>4. b \in 0 .. b
  OBVIOUS
<1> QED BY <1>3, <1>4

(* Powers grow.                                                            *)
LEMMA PowGrows == \A a, b \in Nat : a <= b => Pow(a) <= Pow(b)
<1> SUFFICES ASSUME NEW a \in Nat, NEW b \in Nat, a <= b PROVE Pow(a) <= Pow(b)
  OBVIOUS
<1> DEFINE c == b - a
<1>1. c \in Nat /\ b = a + c
  OBVIOUS
<1> HIDE DEF c
<1>2. Pow(b) = Pow(a) * Pow(c)
  BY <1>1, PowOfSum
<1>2a. Pow(a) \in Nat /\ Pow(c) \in Nat /\ Pow(c) >= 1
  BY <1>1, Powers
<1>3. \A x, y \in Nat : y >= 1 => x <= x * y
  OBVIOUS
<1> QED BY <1>2, <1>2a, <1>3

(* What a sequence of digits reads as.                                     *)
LEMMA NumIs ==
  ASSUME NEW s, Len(s) \in Nat, \A k \in 1 .. Len(s) : s[k] \in Nat
  PROVE  \E f : Reads(f, 0, s, Len(s)) /\ Num(s) = f[Len(s)]
<1> DEFINE n == Len(s)
           G(h) == [k \in 0 .. n |-> IF k = 0 THEN 0 ELSE Radix * h[k - 1] + s[k]]
<1>1. n \in Nat /\ \A k \in 1 .. n : s[k] \in Nat
  OBVIOUS
<1>2. PICK f : Reads(f, 0, s, n)
  <2> HIDE DEF n
  <2> QED BY <1>1, ReadsExist
<1>3. f = G(f)
  <2> HIDE DEF n
  <2>1. f \in [0 .. n -> Nat] /\ f[0] = 0 /\ \A i \in 0 .. n : i < n => f[i + 1] = Radix * f[i] + s[i + 1]
    BY <1>2 DEF Reads
  <2>2. ASSUME NEW k \in 0 .. n, k # 0 PROVE f[k] = Radix * f[k - 1] + s[k]
    <3> DEFINE i == k - 1
    <3>1. i \in 0 .. n /\ i < n /\ i + 1 = k
      BY <1>1, <2>2
    <3> HIDE DEF i
    <3>2. f[k] = Radix * f[i] + s[k]
      BY <2>1, <3>1
    <3> QED BY <3>2 DEF i
  <2> QED BY <2>1, <2>2
<1> DEFINE h == CHOOSE h : h = G(h)
<1>4. h = G(h)
  <2> HIDE DEF G
  <2> QED BY <1>3
<1>5. Num(s) = h[n]
  BY DEF Num
<1>6. Reads(h, 0, s, n)
  <2> HIDE DEF h, n
  <2> QED BY <1>1, <1>4, DefinedReads
<1> QED BY <1>5, <1>6

(* The value of a prefix.                                                  *)
LEMMA NumOfPart ==
  ASSUME NEW s, Len(s) \in Nat, \A k \in 1 .. Len(s) : s[k] \in Nat, NEW f, Reads(f, 0, s, Len(s)),
         NEW t, Len(t) \in Nat, Len(t) <= Len(s), \A k \in 1 .. Len(t) : t[k] = s[k]
  PROVE  Num(t) = f[Len(t)]
<1>1. \A k \in 1 .. Len(t) : t[k] \in Nat
  OBVIOUS
<1>2. PICK g : Reads(g, 0, t, Len(t)) /\ Num(t) = g[Len(t)]
  BY <1>1, NumIs
<1>3. \A k \in 0 .. Len(t) : g[k] = f[k]
  BY <1>2, ReadsAgree
<1>4. Len(t) \in 0 .. Len(t)
  OBVIOUS
<1> QED BY <1>2, <1>3, <1>4

(* A numeral is a natural number.                                          *)
LEMMA NumIsNatural ==
  ASSUME NEW s, Len(s) \in Nat, \A k \in 1 .. Len(s) : s[k] \in Nat
  PROVE  Num(s) \in Nat
<1>1. PICK f : Reads(f, 0, s, Len(s)) /\ Num(s) = f[Len(s)]
  BY NumIs
<1> QED BY <1>1 DEF Reads

Figures == Seq(0 .. Radix - 1)

(* Sequences of digits.                                                    *)
LEMMA FiguresAre ==
  ASSUME NEW s \in Figures
  PROVE  /\ Len(s) \in Nat /\ DOMAIN s = 1 .. Len(s)
         /\ \A k \in 1 .. Len(s) : s[k] \in Nat /\ s[k] + 1 <= Radix
         /\ Num(s) \in Nat
<1>1. Len(s) \in Nat /\ DOMAIN s = 1 .. Len(s) /\ \A k \in 1 .. Len(s) : s[k] \in 0 .. Radix - 1
  <2> DEFINE D == 0 .. Radix - 1
  <2>1. s \in Seq(D)
    BY DEF Figures
  <2> HIDE DEF D
  <2>2. Len(s) \in Nat /\ DOMAIN s = 1 .. Len(s) /\ \A k \in 1 .. Len(s) : s[k] \in D
    BY <2>1
  <2> QED BY <2>2 DEF D
<1>2. \A k \in 1 .. Len(s) : s[k] \in Nat /\ s[k] + 1 <= Radix
  BY <1>1, RadixIs
<1> QED BY <1>1, <1>2, NumIsNatural

(* No digits are zero.                                                     *)
LEMMA NumOfNone == Num(<<>>) = 0
<1>1. Len(<<>>) = 0 /\ \A k \in 1 .. Len(<<>>) : <<>>[k] \in Nat
  OBVIOUS
<1>2. PICK f : Reads(f, 0, <<>>, Len(<<>>)) /\ Num(<<>>) = f[Len(<<>>)]
  BY <1>1, NumIs
<1> QED BY <1>1, <1>2 DEF Reads

(* Two numerals one after the other.                                       *)
LEMMA NumOfBoth ==
  ASSUME NEW s \in Figures, NEW t \in Figures
  PROVE  s \o t \in Figures /\ Num(s \o t) = Num(s) * Pow(Len(t)) + Num(t)
<1> DEFINE u == s \o t
           m == Len(s)
           n == Len(t)
<1>1. /\ m \in Nat /\ n \in Nat /\ u \in Figures /\ Len(u) = m + n
      /\ \A k \in 1 .. m : u[k] = s[k]
      /\ \A k \in 1 .. n : u[m + k] = t[k]
  BY DEF Figures
<1>2. /\ \A k \in 1 .. m : s[k] \in Nat
      /\ \A k \in 1 .. n : t[k] \in Nat
      /\ \A k \in 1 .. Len(u) : u[k] \in Nat
      /\ Num(s) \in Nat /\ Len(u) \in Nat /\ Len(s) <= Len(u)
  BY <1>1, FiguresAre
<1> HIDE DEF u
<1>3. PICK f : Reads(f, 0, u, Len(u)) /\ Num(u) = f[Len(u)]
  BY <1>1, <1>2, NumIs
<1>4. PICK g : Reads(g, 0, t, n) /\ Num(t) = g[n]
  BY <1>1, <1>2, NumIs
<1>5. Num(s) = f[m]
  <2>1. Len(s) \in Nat /\ \A k \in 1 .. Len(s) : s[k] = u[k]
    BY <1>1
  <2> HIDE DEF m
  <2>2. Num(s) = f[Len(s)]
    BY <1>2, <1>3, <2>1, NumOfPart
  <2> QED BY <2>2 DEF m
<1> HIDE DEF m, n
<1>6. /\ f \in [0 .. m + n -> Nat] /\ \A i \in 0 .. m + n : i < m + n => f[i + 1] = Radix * f[i] + u[i + 1]
      /\ g \in [0 .. n -> Nat] /\ g[0] = 0 /\ \A k \in 0 .. n : k < n => g[k + 1] = Radix * g[k] + t[k + 1]
  BY <1>1, <1>3, <1>4 DEF Reads
<1> DEFINE S == {k \in 0 .. n : f[m + k] = Num(s) * Pow(k) + g[k]}
<1>7. 0 \in S
  <2>1. m + 0 = m /\ Pow(0) = 1 /\ 0 \in 0 .. n
    BY <1>1, Powers
  <2> QED BY <1>2, <1>5, <1>6, <2>1
<1>8. ASSUME NEW k \in 0 .. n, k \in S, k < n PROVE k + 1 \in S
  <2>1. /\ m + k \in 0 .. m + n /\ m + k < m + n /\ m + k + 1 = m + (k + 1) /\ k + 1 \in 0 .. n
        /\ k + 1 \in 1 .. n /\ k \in Nat
    BY <1>1, <1>8
  <2>2. f[m + (k + 1)] = Radix * f[m + k] + u[m + (k + 1)]
    BY <1>6, <2>1
  <2>3. u[m + (k + 1)] = t[k + 1]
    BY <1>1, <2>1
  <2>4. g[k + 1] = Radix * g[k] + t[k + 1]
    BY <1>6, <1>8
  <2>5. f[m + k] = Num(s) * Pow(k) + g[k]
    BY <1>8
  <2> DEFINE j == k + 1
  <2>6. Pow(j) = Radix * Pow(k)
    BY <2>1, Powers
  <2>7. Pow(k) \in Nat /\ g[k] \in Nat /\ t[k + 1] \in Nat
    BY <1>2, <1>6, <2>1, Powers
  <2>8. \A r, a, b, c, x \in Nat : r * (a * b + c) + x = a * (r * b) + (r * c + x)
    OBVIOUS
  <2>9. f[m + j] = Num(s) * Pow(j) + g[j]
    BY <1>2, <2>2, <2>3, <2>4, <2>5, <2>6, <2>7, <2>8, RadixIs
  <2> QED BY <2>1, <2>9
<1>9. \A k \in 0 .. n : k \in S
  <2> HIDE DEF S
  <2> QED BY <1>1, <1>7, <1>8, AllPlaces
<1>10. f[m + n] = Num(s) * Pow(n) + g[n]
  BY <1>1, <1>9
<1>11. Num(u) = Num(s) * Pow(n) + Num(t)
  BY <1>1, <1>3, <1>4, <1>10
<1> QED BY <1>1, <1>11 DEF u, n

(* One digit.                                                              *)
LEMMA NumOfOne == \A a \in 0 .. Radix - 1 : <<a>> \in Figures /\ Num(<<a>>) = a
<1> SUFFICES ASSUME NEW a \in 0 .. Radix - 1 PROVE <<a>> \in Figures /\ Num(<<a>>) = a
  OBVIOUS
<1> DEFINE s == <<a>>
<1>1. s \in Figures /\ Len(s) = 1 /\ s[1] = a /\ a \in Nat
  BY RadixIs DEF Figures
<1> HIDE DEF s
<1>2. Len(s) \in Nat /\ \A k \in 1 .. Len(s) : s[k] \in Nat
  BY <1>1
<1>3. PICK f : Reads(f, 0, s, Len(s)) /\ Num(s) = f[Len(s)]
  BY <1>1, <1>2, NumIs
<1>4. f[0] = 0 /\ f[0 + 1] = Radix * f[0] + s[0 + 1]
  BY <1>1, <1>3 DEF Reads
<1>5. f[1] = a
  BY <1>1, <1>4, RadixIs
<1> QED BY <1>1, <1>3, <1>5 DEF s

(* A numeral stays below the power of its length.                          *)
LEMMA NumIsBounded ==
  ASSUME NEW s \in Figures
  PROVE  Num(s) + 1 <= Pow(Len(s))
<1> DEFINE n == Len(s)
<1>1. n \in Nat /\ \A k \in 1 .. n : s[k] \in Nat /\ s[k] + 1 <= Radix
  BY FiguresAre
<1>2. PICK f : Reads(f, 0, s, n) /\ Num(s) = f[n]
  BY <1>1, NumIs
<1> HIDE DEF n
<1>3. f \in [0 .. n -> Nat] /\ f[0] = 0 /\ \A k \in 0 .. n : k < n => f[k + 1] = Radix * f[k] + s[k + 1]
  BY <1>2 DEF Reads
<1> DEFINE S == {k \in 0 .. n : f[k] + 1 <= Pow(k)}
<1>4. 0 \in S
  BY <1>1, <1>3, Powers
<1>5. ASSUME NEW k \in 0 .. n, k \in S, k < n PROVE k + 1 \in S
  <2> DEFINE j == k + 1
  <2>1. j \in 0 .. n /\ j \in 1 .. n /\ k \in Nat /\ j \in Nat /\ j = k + 1
    BY <1>1, <1>5
  <2>2. f[j] = Radix * f[k] + s[j]
    BY <1>3, <1>5
  <2> HIDE DEF j
  <2>3. Pow(j) = Radix * Pow(k) /\ Pow(k) \in Nat
    BY <2>1, Powers
  <2>4. f[k] \in Nat /\ f[k] + 1 <= Pow(k) /\ s[j] \in Nat /\ s[j] + 1 <= Radix
    BY <1>1, <1>3, <1>5, <2>1
  <2>5. \A r, a, x, p \in Nat : a + 1 <= p /\ x + 1 <= r => r * a + x + 1 <= r * p
    <3> SUFFICES ASSUME NEW r \in Nat, NEW a \in Nat, NEW x \in Nat, NEW p \in Nat, a + 1 <= p, x + 1 <= r
                 PROVE  r * a + x + 1 <= r * p
      OBVIOUS
    <3>1. r * (a + 1) <= r * p
      BY Arithmetic
    <3>2. r * (a + 1) = r * a + r
      OBVIOUS
    <3> QED BY <3>1, <3>2
  <2>6. f[j] + 1 <= Pow(j)
    BY <2>2, <2>3, <2>4, <2>5, RadixIs
  <2> QED BY <2>1, <2>6 DEF j
<1>6. \A k \in 0 .. n : k \in S
  <2> HIDE DEF S
  <2> QED BY <1>1, <1>4, <1>5, AllPlaces
<1>7. n \in 0 .. n
  BY <1>1
<1>8. f[n] + 1 <= Pow(n)
  BY <1>6, <1>7
<1> QED BY <1>2, <1>8 DEF n

(* The first difference decides.                                           *)
LEMMA FirstDifference ==
  ASSUME NEW s \in Figures, NEW t \in Figures, Len(s) = Len(t),
         NEW i \in 1 .. Len(s), s[i] < t[i], \A k \in 1 .. Len(s) : k < i => s[k] = t[k]
  PROVE  Num(s) < Num(t)
<1> DEFINE n == Len(s)
<1>1. /\ n \in Nat /\ Len(t) = n
      /\ \A k \in 1 .. n : s[k] \in Nat /\ s[k] + 1 <= Radix /\ t[k] \in Nat
  BY FiguresAre
<1>2. PICK f : Reads(f, 0, s, n) /\ Num(s) = f[n]
  BY <1>1, NumIs
<1>3. PICK g : Reads(g, 0, t, n) /\ Num(t) = g[n]
  BY <1>1, NumIs
<1>4. i \in 1 .. n /\ \A k \in 1 .. n : k < i => s[k] = t[k]
  OBVIOUS
<1> HIDE DEF n
<1>5. /\ f \in [0 .. n -> Nat] /\ f[0] = 0 /\ \A k \in 0 .. n : k < n => f[k + 1] = Radix * f[k] + s[k + 1]
      /\ g \in [0 .. n -> Nat] /\ g[0] = 0 /\ \A k \in 0 .. n : k < n => g[k + 1] = Radix * g[k] + t[k + 1]
  BY <1>2, <1>3 DEF Reads
<1> DEFINE S == {k \in 0 .. n : (k < i => f[k] = g[k]) /\ (k >= i => f[k] + 1 <= g[k])}
<1>6. 0 \in S
  BY <1>1, <1>4, <1>5
<1>7. ASSUME NEW k \in 0 .. n, k \in S, k < n PROVE k + 1 \in S
  <2> DEFINE j == k + 1
  <2>1. j \in 0 .. n /\ j \in 1 .. n /\ j = k + 1
    BY <1>1, <1>7
  <2>2. f[j] = Radix * f[k] + s[j] /\ g[j] = Radix * g[k] + t[j]
    BY <1>5, <1>7
  <2> HIDE DEF j
  <2>3. /\ f[k] \in Nat /\ g[k] \in Nat /\ s[j] \in Nat /\ s[j] + 1 <= Radix /\ t[j] \in Nat
        /\ (k < i => f[k] = g[k]) /\ (k >= i => f[k] + 1 <= g[k])
    BY <1>1, <1>5, <1>7, <2>1
  <2>4. CASE j < i
    <3>1. f[k] = g[k] /\ s[j] = t[j]
      BY <1>4, <2>1, <2>3, <2>4
    <3>2. f[j] = g[j]
      BY <2>2, <3>1
    <3> QED BY <1>1, <1>4, <2>1, <2>4, <3>2 DEF j
  <2>5. CASE j = i
    <3>1. f[k] = g[k] /\ s[j] < t[j]
      BY <1>4, <2>1, <2>3, <2>5
    <3>2. Radix * g[k] \in Nat
      BY <2>3, RadixIs, Arithmetic
    <3>3. f[j] + 1 <= g[j]
      BY <2>2, <2>3, <3>1, <3>2
    <3> QED BY <1>1, <1>4, <2>1, <2>5, <3>3 DEF j
  <2>6. CASE j > i
    <3>1. f[k] + 1 <= g[k]
      BY <1>4, <2>1, <2>3, <2>6
    <3>2. \A r, a, x, p, y \in Nat : a + 1 <= p /\ x + 1 <= r => r * a + x + 1 <= r * p + y
      <4> SUFFICES ASSUME NEW r \in Nat, NEW a \in Nat, NEW x \in Nat, NEW p \in Nat, NEW y \in Nat,
                          a + 1 <= p, x + 1 <= r
                   PROVE  r * a + x + 1 <= r * p + y
        OBVIOUS
      <4>1. r * (a + 1) <= r * p
        BY Arithmetic
      <4>2. r * (a + 1) = r * a + r
        OBVIOUS
      <4> QED BY <4>1, <4>2
    <3>3. f[j] + 1 <= g[j]
      BY <2>2, <2>3, <3>1, <3>2, RadixIs
    <3> QED BY <1>1, <1>4, <2>1, <2>6, <3>3 DEF j
  <2> QED BY <1>4, <2>1, <2>4, <2>5, <2>6
<1>8. \A k \in 0 .. n : k \in S
  <2> HIDE DEF S
  <2> QED BY <1>1, <1>6, <1>7, AllPlaces
<1>9. n \in 0 .. n /\ n >= i
  BY <1>1, <1>4
<1>10. f[n] + 1 <= g[n] /\ f[n] \in Nat /\ g[n] \in Nat
  BY <1>5, <1>8, <1>9
<1>11. f[n] < g[n]
  BY <1>10
<1> QED BY <1>2, <1>3, <1>11

(* Numerals of one length and value are one.                               *)
LEMMA SameNum ==
  ASSUME NEW s \in Figures, NEW t \in Figures, Len(s) = Len(t), Num(s) = Num(t)
  PROVE  s = t
<1> DEFINE differ == {i \in 1 .. Len(s) : s[i] # t[i]}
<1>1. Len(s) \in Nat /\ \A k \in 1 .. Len(s) : s[k] \in Nat /\ t[k] \in Nat
  BY FiguresAre
<1>2. ASSUME differ # {} PROVE FALSE
  <2>1. differ \in SUBSET Nat
    BY <1>1
  <2> HIDE DEF differ
  <2>2. PICK i \in differ : \A k \in differ : i <= k
    BY <1>2, <2>1, LeastOfSome
  <2> USE DEF differ
  <2>3. i \in 1 .. Len(s) /\ s[i] # t[i] /\ \A k \in 1 .. Len(s) : k < i => s[k] = t[k]
    BY <2>2, <1>1
  <2>4. s[i] < t[i] \/ t[i] < s[i]
    BY <1>1, <2>3
  <2>5. Num(s) \in Nat /\ Num(t) \in Nat
    BY FiguresAre
  <2>6. CASE s[i] < t[i]
    <3>1. Num(s) < Num(t)
      BY <2>3, <2>6, FirstDifference
    <3> QED BY <2>5, <3>1
  <2>7. CASE t[i] < s[i]
    <3>1. \A k \in 1 .. Len(t) : k < i => t[k] = s[k]
      BY <2>3
    <3>2. Num(t) < Num(s)
      BY <2>3, <2>7, <3>1, FirstDifference
    <3> QED BY <2>5, <3>2
  <2> QED BY <2>4, <2>6, <2>7
<1>3. \A i \in 1 .. Len(s) : s[i] = t[i]
  BY <1>2
<1> QED BY <1>3, SeqEqual DEF Figures

(* Division with its rest.                                                 *)
LEMMA DivIs ==
  ASSUME NEW a \in Nat, NEW b \in Nat, b >= 1
  PROVE  /\ a \div b \in Nat /\ a % b \in 0 .. b - 1
         /\ a = b * (a \div b) + (a % b)
OBVIOUS

(* There is one way to divide.                                             *)
LEMMA DivIsOnly ==
  ASSUME NEW a \in Nat, NEW b \in Nat, b >= 1, NEW q \in Nat, NEW r \in Nat, r < b, a = b * q + r
  PROVE  a \div b = q /\ a % b = r
<1> DEFINE p == a \div b
           s == a % b
<1>1. p \in Nat /\ s \in 0 .. b - 1 /\ a = b * p + s
  BY DivIs
<1> HIDE DEF p, s
<1>2. p <= q
  <2> SUFFICES ASSUME q + 1 <= p PROVE FALSE
    BY <1>1
  <2>1. b * (q + 1) <= b * p /\ b * (q + 1) = b * q + b
    BY <1>1, Arithmetic
  <2> QED BY <1>1, <2>1
<1>3. q <= p
  <2> SUFFICES ASSUME p + 1 <= q PROVE FALSE
    BY <1>1
  <2>1. b * (p + 1) <= b * q /\ b * (p + 1) = b * p + b
    BY <1>1, Arithmetic
  <2> QED BY <1>1, <2>1
<1>4. p = q
  BY <1>1, <1>2, <1>3
<1> QED BY <1>1, <1>4 DEF p, s

(* Division by a product is division by one factor and then the other.     *)
LEMMA DivTwice ==
  ASSUME NEW a \in Nat, NEW b \in Nat, b >= 1, NEW c \in Nat, c >= 1
  PROVE  (a \div c) \div b = a \div (b * c) /\ a \div c = b * (a \div (b * c)) + ((a \div c) % b)
<1> DEFINE q == a \div c
           r == a % c
           p == q \div b
           s == q % b
<1>1. q \in Nat /\ r \in 0 .. c - 1 /\ a = c * q + r
  BY DivIs
<1> HIDE DEF q, r
<1>2. p \in Nat /\ s \in 0 .. b - 1 /\ q = b * p + s
  BY <1>1, DivIs
<1> HIDE DEF p, s
<1> DEFINE d == b * c
           e == c * s + r
<1>3. d \in Nat /\ d >= 1 /\ e \in Nat
  <2>1. \A x, y \in Nat : x >= 1 /\ y >= 1 => x * y \in Nat /\ x * y >= 1
    OBVIOUS
  <2>2. \A x, y, z \in Nat : x * y + z \in Nat
    OBVIOUS
  <2> QED BY <1>1, <1>2, <2>1, <2>2
<1>4. e < d
  <2>1. c * (s + 1) <= c * b /\ c * (s + 1) = c * s + c /\ c * b = b * c
    BY <1>2, Arithmetic
  <2>2. c * s \in Nat /\ b * c \in Nat
    BY <1>2, Arithmetic
  <2> QED BY <1>1, <2>1, <2>2
<1>5. a = d * p + e
  <2>1. \A x, y, z, u, v \in Nat : x * (y * z + u) + v = y * x * z + (x * u + v)
    OBVIOUS
  <2> QED BY <1>1, <1>2, <2>1
<1> HIDE DEF d, e
<1>6. a \div d = p
  BY <1>2, <1>3, <1>4, <1>5, DivIsOnly
<1> QED BY <1>2, <1>6 DEF d, p, q, s

(* A numeral in canonical form.                                            *)
Clean(s) == s \in Figures /\ (s = <<0>> \/ (s # <<>> /\ s[1] # 0))

(* Zero is written with zeros only.                                        *)
LEMMA NumOfZeros ==
  ASSUME NEW s \in Figures
  PROVE  Num(s) = 0 <=> \A k \in 1 .. Len(s) : s[k] = 0
<1>1. Len(s) \in Nat
  BY FiguresAre
<1> DEFINE z == [k \in 1 .. Len(s) |-> 0]
<1>2. z \in Figures /\ Len(z) = Len(s) /\ \A k \in 1 .. Len(z) : z[k] = 0 /\ z[k] \in Nat
  BY <1>1, RadixIs DEF Figures
<1> HIDE DEF z
<1>3. Len(z) \in Nat
  BY <1>1, <1>2
<1>4. PICK f : Reads(f, 0, z, Len(z)) /\ Num(z) = f[Len(z)]
  BY <1>2, <1>3, NumIs
<1> DEFINE n == Len(z)
           S == {k \in 0 .. n : f[k] = 0}
<1>5. f[0] = 0 /\ \A k \in 0 .. n : k < n => f[k + 1] = Radix * f[k] + z[k + 1]
  BY <1>4 DEF Reads
<1>6. ASSUME NEW k \in 0 .. n, k \in S, k < n PROVE k + 1 \in S
  <2>1. k + 1 \in 1 .. n /\ k + 1 \in 0 .. n
    BY <1>3, <1>6
  <2>2. f[k + 1] = Radix * f[k] + z[k + 1] /\ f[k] = 0 /\ z[k + 1] = 0
    BY <1>2, <1>5, <1>6, <2>1
  <2> QED BY <2>1, <2>2, RadixIs
<1>7. \A k \in 0 .. n : k \in S
  <2>1. 0 \in S
    BY <1>3, <1>5
  <2> HIDE DEF S
  <2> QED BY <1>3, <1>6, <2>1, AllPlaces
<1>8. Num(z) = 0
  BY <1>3, <1>4, <1>7
<1>9. ASSUME Num(s) = 0 PROVE s = z
  BY <1>2, <1>8, <1>9, SameNum
<1>10. ASSUME \A k \in 1 .. Len(s) : s[k] = 0 PROVE s = z
  <2>1. s \in Seq(0 .. Radix - 1) /\ z \in Seq(0 .. Radix - 1)
    BY <1>2 DEF Figures
  <2>2. \A k \in 1 .. Len(s) : s[k] = z[k]
    BY <1>2, <1>10
  <2> HIDE DEF Figures
  <2> QED BY <1>2, <2>1, <2>2, SeqEqual
<1> QED BY <1>2, <1>8, <1>9, <1>10

(* A run of zeros.                                                         *)
LEMMA ZerosAre ==
  ASSUME NEW n \in Nat
  PROVE  Zeros(n) \in Figures /\ Len(Zeros(n)) = n /\ Num(Zeros(n)) = 0
<1> DEFINE z == Zeros(n)
<1>1. z \in Figures /\ Len(z) = n /\ \A k \in 1 .. Len(z) : z[k] = 0
  BY RadixIs DEF Figures, Zeros
<1> HIDE DEF z
<1>2. Num(z) = 0
  BY <1>1, NumOfZeros
<1> QED BY <1>1, <1>2 DEF z

(* padStart keeps the number, and padEnd shifts it.                        *)
LEMMA PadsAre ==
  ASSUME NEW s \in Figures, NEW n \in Nat
  PROVE  /\ PadStart(s, n) \in Figures /\ Num(PadStart(s, n)) = Num(s)
         /\ Len(PadStart(s, n)) = IF Len(s) >= n THEN Len(s) ELSE n
         /\ Len(s) <= n => /\ PadEnd(s, n) \in Figures /\ Len(PadEnd(s, n)) = n
                           /\ Num(PadEnd(s, n)) = Num(s) * Pow(n - Len(s))
<1>1. Len(s) \in Nat /\ Num(s) \in Nat
  BY FiguresAre
<1>2. CASE Len(s) >= n
  <2>1. PadStart(s, n) = s /\ PadEnd(s, n) = s
    BY <1>2 DEF PadStart, PadEnd
  <2>2. Len(s) <= n => n - Len(s) = 0 /\ Len(s) = n
    BY <1>1, <1>2
  <2>3. Len(s) <= n => Pow(n - Len(s)) = 1
    BY <2>2, Powers
  <2> QED BY <1>1, <1>2, <2>1, <2>2, <2>3
<1>3. CASE ~(Len(s) >= n)
  <2> DEFINE m == n - Len(s)
             z == Zeros(m)
  <2>1. m \in Nat /\ m + Len(s) = n /\ Len(s) + m = n
    BY <1>1, <1>3
  <2>2. PadStart(s, n) = z \o s /\ PadEnd(s, n) = s \o z
    BY <1>3 DEF PadStart, PadEnd
  <2> HIDE DEF m
  <2>3. z \in Figures /\ Len(z) = m /\ Num(z) = 0
    BY <2>1, ZerosAre
  <2> HIDE DEF z
  <2>4. /\ z \o s \in Figures /\ Num(z \o s) = Num(z) * Pow(Len(s)) + Num(s)
        /\ s \o z \in Figures /\ Num(s \o z) = Num(s) * Pow(Len(z)) + Num(z)
    BY <2>3, NumOfBoth
  <2>5. Len(z \o s) = n /\ Len(s \o z) = n
    BY <2>1, <2>3 DEF Figures
  <2>6. Pow(Len(s)) \in Nat /\ Pow(m) \in Nat
    BY <1>1, <2>1, Powers
  <2>7. Num(z \o s) = Num(s)
    BY <1>1, <2>3, <2>4, <2>6
  <2>8. Num(s \o z) = Num(s) * Pow(m)
    <3>1. Num(s) * Pow(m) \in Nat
      BY <1>1, <2>6, Arithmetic
    <3> QED BY <2>3, <2>4, <3>1
  <2> QED BY <1>3, <2>2, <2>4, <2>5, <2>7, <2>8 DEF m
<1> QED BY <1>2, <1>3

(* A numeral cut in two.                                                   *)
LEMMA CutInTwo ==
  ASSUME NEW s \in Figures, NEW i \in 0 .. Len(s)
  PROVE  /\ SubSeq(s, 1, i) \in Figures /\ Len(SubSeq(s, 1, i)) = i
         /\ \A k \in 1 .. i : SubSeq(s, 1, i)[k] = s[k]
         /\ SubSeq(s, i + 1, Len(s)) \in Figures /\ Len(SubSeq(s, i + 1, Len(s))) = Len(s) - i
         /\ \A k \in 1 .. Len(s) - i : SubSeq(s, i + 1, Len(s))[k] = s[i + k]
         /\ s = SubSeq(s, 1, i) \o SubSeq(s, i + 1, Len(s))
<1> DEFINE D == 0 .. Radix - 1
           n == Len(s)
           a == SubSeq(s, 1, i)
           b == SubSeq(s, i + 1, n)
<1>1. s \in Seq(D) /\ n \in Nat /\ i \in Nat /\ i <= n
  BY FiguresAre DEF Figures
<1> HIDE DEF D
<1>2. a \in Seq(D) /\ Len(a) = i /\ \A k \in 1 .. i : a[k] = s[k]
  BY <1>1
<1>3. b \in Seq(D) /\ Len(b) = n - i /\ \A k \in 1 .. n - i : b[k] = s[i + k]
  BY <1>1
<1> HIDE DEF a, b
<1>4. s = a \o b
  <2> DEFINE c == a \o b
  <2>1. c \in Seq(D) /\ Len(c) = n
    BY <1>1, <1>2, <1>3
  <2>2. ASSUME NEW k \in 1 .. n PROVE c[k] = s[k]
    <3>1. CASE k <= i
      <4>1. k \in 1 .. i
        BY <1>1, <3>1
      <4>2. c[k] = a[k]
        BY <1>1, <1>2, <1>3, <4>1
      <4> QED BY <1>2, <4>1, <4>2
    <3>2. CASE k > i
      <4> DEFINE m == k - i
      <4>1. m \in 1 .. n - i /\ i + m = k
        BY <1>1, <3>2
      <4> HIDE DEF m
      <4>2. c[i + m] = b[m]
        BY <1>1, <1>2, <1>3, <4>1
      <4>3. b[m] = s[i + m]
        BY <1>3, <4>1
      <4> HIDE DEF c
      <4> QED BY <4>1, <4>2, <4>3
    <3>3. k <= i \/ k > i
      BY <1>1
    <3> HIDE DEF c, n
    <3> QED BY <3>1, <3>2, <3>3
  <2> HIDE DEF c
  <2>3. c = s
    BY <1>1, <2>1, <2>2, SeqEqual
  <2> QED BY <2>3 DEF c
<1> QED BY <1>2, <1>3, <1>4 DEF a, b, Figures, D, n

(* Stripping leading zeros gives the clean numeral of the same number.     *)
LEMMA StripIs ==
  ASSUME NEW s \in Figures
  PROVE  /\ Clean(stripLeadingZeros(s)) /\ Num(stripLeadingZeros(s)) = Num(s)
         /\ Clean(s) => stripLeadingZeros(s) = s
<1> DEFINE nonzero == {i \in DOMAIN s : s[i] # 0}
<1>1. Len(s) \in Nat /\ DOMAIN s = 1 .. Len(s) /\ \A k \in 1 .. Len(s) : s[k] \in Nat
  BY FiguresAre
<1>2. <<0>> \in Figures /\ Num(<<0>>) = 0 /\ Clean(<<0>>)
  <2>1. 0 \in 0 .. Radix - 1
    BY RadixIs
  <2> QED BY <2>1, NumOfOne DEF Clean
<1>3. CASE \A i \in DOMAIN s : s[i] = 0
  <2>1. stripLeadingZeros(s) = <<0>>
    BY <1>3 DEF stripLeadingZeros
  <2>2. Num(s) = 0
    BY <1>1, <1>3, NumOfZeros
  <2>3. Clean(s) => s = <<0>>
    <3> SUFFICES ASSUME s # <<>>, s[1] # 0 PROVE FALSE
      BY DEF Clean
    <3>1. Len(s) # 0
      BY EmptySeq DEF Figures
    <3>2. 1 \in DOMAIN s
      BY <1>1, <3>1
    <3> QED BY <1>3, <3>2
  <2> QED BY <1>2, <2>1, <2>2, <2>3
<1>4. CASE ~\A i \in DOMAIN s : s[i] = 0
  <2>1. nonzero \in SUBSET Nat /\ nonzero # {}
    BY <1>1, <1>4
  <2> DEFINE i == Min(nonzero)
             j == i - 1
  <2> HIDE DEF nonzero
  <2>2. i \in nonzero /\ \A k \in nonzero : i <= k
    BY <2>1, LeastOfSome
  <2>3. stripLeadingZeros(s) = SubSeq(s, i, Len(s))
    BY <1>4 DEF stripLeadingZeros, nonzero
  <2> HIDE DEF i
  <2>4. i \in 1 .. Len(s) /\ s[i] # 0 /\ \A k \in 1 .. Len(s) : k < i => s[k] = 0
    <3>1. i \in DOMAIN s /\ s[i] # 0
      BY <2>2 DEF nonzero
    <3>2. ASSUME NEW k \in 1 .. Len(s), k < i PROVE s[k] = 0
      <4>1. k \notin nonzero
        BY <1>1, <2>2, <3>1, <3>2
      <4> QED BY <1>1, <4>1 DEF nonzero
    <3> QED BY <1>1, <3>1, <3>2
  <2>5. j \in 0 .. Len(s) /\ j + 1 = i /\ 1 \in 1 .. Len(s) - j /\ j \in Nat
    BY <1>1, <2>4
  <2> HIDE DEF j
  <2> DEFINE a == SubSeq(s, 1, j)
             b == SubSeq(s, j + 1, Len(s))
  <2>6. /\ a \in Figures /\ Len(a) = j /\ \A k \in 1 .. j : a[k] = s[k]
        /\ b \in Figures /\ Len(b) = Len(s) - j /\ \A k \in 1 .. Len(s) - j : b[k] = s[j + k]
        /\ s = a \o b
    BY <2>5, CutInTwo
  <2>7. stripLeadingZeros(s) = b
    BY <2>3, <2>5
  <2> HIDE DEF a, b
  <2>8. Num(a) = 0
    <3>1. \A k \in 1 .. Len(a) : a[k] = 0
      BY <1>1, <2>4, <2>5, <2>6
    <3> QED BY <2>6, <3>1, NumOfZeros
  <2>9. Num(s) = Num(b)
    <3>1. Num(s) = Num(a) * Pow(Len(b)) + Num(b)
      BY <2>6, NumOfBoth
    <3>2. Len(b) \in Nat /\ Num(b) \in Nat
      BY <2>6, FiguresAre
    <3>3. Pow(Len(b)) \in Nat
      BY <3>2, Powers
    <3> QED BY <2>8, <3>1, <3>2, <3>3
  <2>10. b[1] # 0 /\ b # <<>>
    <3>1. b[1] = s[i]
      BY <2>5, <2>6
    <3>2. Len(b) # 0
      BY <1>1, <2>5, <2>6
    <3> QED BY <2>4, <3>1, <3>2
  <2>11. Clean(s) => b = s
    <3> SUFFICES ASSUME Clean(s) PROVE b = s
      OBVIOUS
    <3>1. CASE s = <<0>>
      BY <1>1, <1>4, <3>1
    <3>2. CASE s[1] # 0
      <4>1. i = 1
        BY <1>1, <2>4, <3>2
      <4>2. b = SubSeq(s, 1, Len(s))
        BY <2>5, <4>1 DEF b
      <4> QED BY <4>2 DEF Figures
    <3> QED BY <3>1, <3>2 DEF Clean
  <2> QED BY <2>6, <2>7, <2>9, <2>10, <2>11 DEF Clean
<1> QED BY <1>3, <1>4

(* A clean numeral uses its length: the longer of two is the greater.      *)
LEMMA CleanIsLarge ==
  ASSUME NEW t, Clean(t), NEW n \in Nat, Len(t) = n + 1, n >= 1
  PROVE  Num(t) >= Pow(n)
<1>1. t \in Figures /\ Len(t) \in Nat /\ Num(t) \in Nat
  BY FiguresAre DEF Clean
<1>3. t[1] # 0 /\ 1 \in 0 .. Len(t)
  <2>1. t # <<0>>
    <3>1. Len(<<0>>) = 1 /\ Len(t) # 1
      BY <1>1
    <3> QED BY <3>1
  <2> QED BY <1>1, <2>1 DEF Clean
<1> DEFINE a == SubSeq(t, 1, 1)
           b == SubSeq(t, 1 + 1, Len(t))
<1>4. /\ a \in Figures /\ Len(a) = 1 /\ \A k \in 1 .. 1 : a[k] = t[k]
      /\ b \in Figures /\ Len(b) = Len(t) - 1
      /\ t = a \o b
  BY <1>1, <1>3, CutInTwo
<1> HIDE DEF a, b
<1>5. Num(a) \in Nat /\ Num(a) >= 1
  <2>1. a[1] = t[1] /\ 1 \in 1 .. Len(a)
    BY <1>4
  <2>2. Num(a) # 0
    BY <1>3, <1>4, <2>1, NumOfZeros
  <2>3. Num(a) \in Nat
    BY <1>4, FiguresAre
  <2> QED BY <2>2, <2>3
<1>6. Num(t) = Num(a) * Pow(Len(b)) + Num(b) /\ Num(b) \in Nat
  BY <1>4, NumOfBoth, FiguresAre
<1>7. Len(b) = n
  BY <1>4
<1>8. Pow(n) \in Nat
  BY Powers
<1>9. \A x, y, z \in Nat : x >= 1 => x * y + z >= y
  OBVIOUS
<1> QED BY <1>5, <1>6, <1>7, <1>8, <1>9

(* A clean numeral has a digit.                                            *)
LEMMA CleanIsLong ==
  ASSUME NEW t, Clean(t)
  PROVE  t \in Figures /\ Len(t) \in Nat /\ Len(t) >= 1 /\ Num(t) \in Nat
<1>1. t \in Figures /\ Len(t) \in Nat /\ Num(t) \in Nat
  BY FiguresAre DEF Clean
<1>2. Len(<<0>>) = 1
  OBVIOUS
<1>3. t # <<>> => Len(t) # 0
  BY <1>1, EmptySeq DEF Figures
<1>4. t = <<0>> \/ t # <<>>
  BY DEF Clean
<1>5. Len(t) # 0
  BY <1>2, <1>3, <1>4
<1> QED BY <1>1, <1>5

(* Of two clean numerals the longer is the greater.                        *)
LEMMA LongerIsGreater ==
  ASSUME NEW s, NEW t, Clean(s), Clean(t), Len(s) < Len(t)
  PROVE  Num(s) < Num(t)
<1>1. s \in Figures /\ Len(s) \in Nat /\ Len(s) >= 1 /\ Len(t) \in Nat /\ Num(s) \in Nat /\ Num(t) \in Nat
  BY CleanIsLong
<1> DEFINE n == Len(t) - 1
<1>2. n \in Nat /\ Len(t) = n + 1 /\ n >= 1 /\ Len(s) <= n
  BY <1>1
<1> HIDE DEF n
<1>3. Num(t) >= Pow(n)
  BY <1>2, CleanIsLarge
<1>4. Num(s) + 1 <= Pow(Len(s))
  BY <1>1, NumIsBounded
<1>5. Pow(Len(s)) <= Pow(n) /\ Pow(n) \in Nat /\ Pow(Len(s)) \in Nat
  BY <1>1, <1>2, PowGrows, Powers
<1> QED BY <1>1, <1>3, <1>4, <1>5

(* A number has one clean numeral.                                         *)
LEMMA CleanIsOnly ==
  ASSUME NEW s, NEW t, Clean(s), Clean(t), Num(s) = Num(t)
  PROVE  s = t
<1>1. s \in Figures /\ t \in Figures /\ Len(s) \in Nat /\ Len(t) \in Nat /\ Num(s) \in Nat
  BY FiguresAre DEF Clean
<1>2. ~(Len(s) < Len(t))
  <2> SUFFICES ASSUME Len(s) < Len(t) PROVE FALSE
    OBVIOUS
  <2>1. Num(s) < Num(t)
    BY LongerIsGreater
  <2> QED BY <1>1, <2>1
<1>3. ~(Len(t) < Len(s))
  <2> SUFFICES ASSUME Len(t) < Len(s) PROVE FALSE
    OBVIOUS
  <2>1. Num(t) < Num(s)
    BY LongerIsGreater
  <2> QED BY <1>1, <2>1
<1>4. Len(s) = Len(t)
  BY <1>1, <1>2, <1>3
<1> QED BY <1>1, <1>4, SameNum

(* The digits of a number are its clean numeral.                           *)
LEMMA DigitsAre ==
  ASSUME NEW n \in Nat
  PROVE  Clean(Digits(n)) /\ Num(Digits(n)) = n
<1> DEFINE Wide(w) == w \in 1 .. n + 1 /\ n < Pow(w) /\ (w > 1 => Pow(w - 1) <= n)
           w == CHOOSE x \in 1 .. n + 1 : n < Pow(x) /\ (x > 1 => Pow(x - 1) <= n)
<1>1. \E x \in 1 .. n + 1 : n < Pow(x) /\ (x > 1 => Pow(x - 1) <= n)
  <2> DEFINE wide == {x \in 1 .. n + 1 : n < Pow(x)}
  <2>1. n + 1 \in 1 .. n + 1 /\ n + 1 \in Nat
    OBVIOUS
  <2>2. n < Pow(n + 1)
    <3>1. n + 1 < Pow(n + 1) /\ Pow(n + 1) \in Nat
      BY <2>1, Powers
    <3> QED BY <3>1
  <2>3. wide \in SUBSET Nat /\ n + 1 \in wide
    BY <2>1, <2>2
  <2> HIDE DEF wide
  <2>4. PICK x \in wide : \A y \in wide : x <= y
    BY <2>3, LeastOfSome
  <2>5. x \in 1 .. n + 1 /\ n < Pow(x)
    BY <2>4 DEF wide
  <2>6. ASSUME x > 1 PROVE Pow(x - 1) <= n
    <3> DEFINE y == x - 1
    <3>1. y \in 1 .. n + 1 /\ y < x /\ y \in Nat
      BY <2>5, <2>6
    <3> HIDE DEF y
    <3>2. y \notin wide
      BY <2>3, <2>4, <3>1
    <3>3. ~(n < Pow(y)) /\ Pow(y) \in Nat
      BY <3>1, <3>2, Powers DEF wide
    <3>4. Pow(y) <= n
      BY <3>3
    <3> QED BY <3>4 DEF y
  <2> QED BY <2>5, <2>6
<1>2. w \in 1 .. n + 1 /\ n < Pow(w) /\ (w > 1 => Pow(w - 1) <= n)
  BY <1>1
<1>3. Digits(n) = [i \in 1 .. w |-> (n \div Pow(w - i)) % Radix]
  BY DEF Digits
<1> HIDE DEF w
<1> DEFINE d == [i \in 1 .. w |-> (n \div Pow(w - i)) % Radix]
<1>4. \A k \in 0 .. w : w - k \in Nat /\ Pow(w - k) \in Nat /\ Pow(w - k) >= 1 /\ n \div Pow(w - k) \in Nat
  <2> SUFFICES ASSUME NEW k \in 0 .. w
               PROVE  w - k \in Nat /\ Pow(w - k) \in Nat /\ Pow(w - k) >= 1 /\ n \div Pow(w - k) \in Nat
    OBVIOUS
  <2> DEFINE m == w - k
  <2>1. m \in Nat
    BY <1>2
  <2> HIDE DEF m
  <2>2. Pow(m) \in Nat /\ Pow(m) >= 1
    BY <2>1, Powers
  <2>3. n \div Pow(m) \in Nat
    BY <2>2, DivIs
  <2> QED BY <2>1, <2>2, <2>3 DEF m
<1>5. d \in Figures /\ Len(d) = w /\ w \in Nat
  <2>1. ASSUME NEW i \in 1 .. w PROVE d[i] \in 0 .. Radix - 1
    <3>1. n \div Pow(w - i) \in Nat
      BY <1>2, <1>4
    <3>2. (n \div Pow(w - i)) % Radix \in 0 .. Radix - 1
      BY <3>1, RadixIs, DivIs
    <3> QED BY <3>2
  <2>2. w \in Nat /\ d = [i \in 1 .. w |-> d[i]]
    BY <1>2
  <2> HIDE DEF d
  <2> DEFINE D == 0 .. Radix - 1
  <2>3. \A i \in 1 .. w : d[i] \in D
    BY <2>1
  <2> HIDE DEF D
  <2>4. d \in Seq(D) /\ Len(d) = w
    BY <2>2, <2>3
  <2> QED BY <2>2, <2>4 DEF Figures, D
<1>6. \A i \in 1 .. w : d[i] = (n \div Pow(w - i)) % Radix
  OBVIOUS
<1> HIDE DEF d
<1>7. PICK f : Reads(f, 0, d, Len(d)) /\ Num(d) = f[Len(d)]
  BY <1>5, FiguresAre, NumIs
<1>8. f[0] = 0 /\ \A k \in 0 .. w : k < w => f[k + 1] = Radix * f[k] + d[k + 1]
  BY <1>5, <1>7 DEF Reads
<1> DEFINE S == {k \in 0 .. w : f[k] = n \div Pow(w - k)}
<1>9. 0 \in S
  <2>1. w - 0 = w /\ Pow(w) \in Nat /\ Pow(w) >= 1 /\ n < Pow(w)
    BY <1>2, <1>5, Powers
  <2>2. n = Pow(w) * 0 + n
    BY <2>1
  <2>3. n \div Pow(w) = 0
    BY <2>1, <2>2, DivIsOnly
  <2> QED BY <1>5, <1>8, <2>1, <2>3
<1>10. ASSUME NEW k \in 0 .. w, k \in S, k < w PROVE k + 1 \in S
  <2> DEFINE j == k + 1
             a == w - k
             b == w - j
  <2>1. j \in 1 .. w /\ j \in 0 .. w /\ a \in Nat /\ b \in Nat /\ a = b + 1
    BY <1>5, <1>10
  <2>2. f[j] = Radix * f[k] + d[j] /\ f[k] = n \div Pow(a)
    BY <1>8, <1>10
  <2>3. d[j] = (n \div Pow(b)) % Radix
    BY <1>6, <2>1
  <2> HIDE DEF a, b, j
  <2>4. Pow(a) = Radix * Pow(b) /\ Pow(b) \in Nat /\ Pow(b) >= 1
    BY <2>1, Powers
  <2>5. n \div Pow(b) = Radix * (n \div (Radix * Pow(b))) + ((n \div Pow(b)) % Radix)
    <3> DEFINE p == Pow(b)
    <3>1. p \in Nat /\ p >= 1
      BY <2>4
    <3> HIDE DEF p
    <3>2. n \div p = Radix * (n \div (Radix * p)) + ((n \div p) % Radix)
      <4>1. Radix \in Nat /\ Radix >= 1
        BY RadixIs
      <4> QED BY <3>1, <4>1, DivTwice, Zenon
    <3> QED BY <3>2 DEF p
  <2>6. f[j] = n \div Pow(b)
    BY <2>2, <2>3, <2>4, <2>5
  <2>7. j \in S
    BY <2>1, <2>6 DEF b
  <2> QED BY <2>7 DEF j
<1>11. \A k \in 0 .. w : k \in S
  <2> HIDE DEF S
  <2> QED BY <1>5, <1>9, <1>10, AllPlaces
<1>12. f[w] = n
  <2>1. f[w] = n \div Pow(w - w) /\ w - w = 0
    BY <1>5, <1>11
  <2>2. Pow(w - w) = 1
    BY <2>1, Powers
  <2> QED BY <2>1, <2>2
<1>13. d = <<0>> \/ (d # <<>> /\ d[1] # 0)
  <2>1. d # <<>> /\ 1 \in 1 .. w /\ 1 \in 0 .. w /\ d[1] \in Nat
    BY <1>2, <1>5, FiguresAre
  <2>2. f[1] = d[1]
    <3>1. f[0 + 1] = Radix * f[0] + d[0 + 1]
      BY <1>5, <1>8, <2>1
    <3> QED BY <1>8, <2>1, <3>1, RadixIs
  <2>3. CASE w > 1
    <3>1. f[1] = n \div Pow(w - 1)
      BY <1>11, <2>1
    <3>2. Pow(w - 1) <= n /\ Pow(w - 1) \in Nat /\ Pow(w - 1) >= 1
      BY <1>2, <1>4, <2>1, <2>3
    <3>3. n \div Pow(w - 1) # 0
      <4> SUFFICES ASSUME n \div Pow(w - 1) = 0 PROVE FALSE
        OBVIOUS
      <4>1. n = Pow(w - 1) * (n \div Pow(w - 1)) + (n % Pow(w - 1)) /\ n % Pow(w - 1) \in 0 .. Pow(w - 1) - 1
        BY <3>2, DivIs
      <4> QED BY <3>2, <4>1
    <3> QED BY <2>1, <2>2, <3>1, <3>3
  <2>4. CASE w = 1
    <3>1. \A k \in 1 .. Len(d) : d[k] = d[1]
      BY <1>5, <2>4
    <3>2. d[1] = 0 => d = <<0>>
      <4> SUFFICES ASSUME d[1] = 0 PROVE d = <<0>>
        OBVIOUS
      <4>1. <<0>> \in Seq(0 .. Radix - 1) /\ Len(<<0>>) = 1 /\ \A k \in 1 .. 1 : <<0>>[k] = 0
        BY RadixIs
      <4> QED BY <1>5, <2>4, <3>1, <4>1, SeqEqual DEF Figures
    <3> QED BY <2>1, <3>2
  <2> QED BY <1>2, <2>3, <2>4
<1> QED BY <1>3, <1>5, <1>7, <1>12, <1>13 DEF d, Clean

(* The scales of the configuration.                                        *)
LEMMA ScalesAre == SumScale \in Nat /\ RateScale \in Nat /\ FractionDigits \in Nat /\ FractionDigits <= SumScale
  BY DecimalsAssumption DEF DecimalsAssumption

(* An amount, in units of a scale, and the one way of writing it.          *)
Amount(d) == d = Dec(d.neg, d.whole, d.fraction) /\ d.neg \in BOOLEAN /\ d.whole \in Figures /\ d.fraction \in Figures
Units(d, scale) == Num(d.whole) * Pow(scale) + Num(d.fraction) * Pow(scale - Len(d.fraction))
WrittenAs(d, units, scale) ==
  /\ d = Dec(FALSE, d.whole, d.fraction) /\ Clean(d.whole) /\ d.fraction \in Figures /\ Len(d.fraction) = scale
  /\ units = Num(d.whole) * Pow(scale) + Num(d.fraction)

(* The fields of an amount.                                                *)
LEMMA AmountsAre ==
  ASSUME NEW d, Amount(d)
  PROVE  /\ Num(d.whole) \in Nat /\ Num(d.fraction) \in Nat /\ Len(d.fraction) \in Nat
         /\ d.whole \in Figures /\ d.fraction \in Figures /\ d.neg \in BOOLEAN
  BY FiguresAre DEF Amount

(* What is written so is an amount without a sign.                         *)
LEMMA WrittenIsAmount ==
  ASSUME NEW d, NEW units, NEW scale, WrittenAs(d, units, scale)
  PROVE  Amount(d) /\ d.neg = FALSE /\ Len(d.fraction) = scale /\ scale \in Nat
<1>1. d.neg = FALSE
  BY DEF WrittenAs, Dec
<1>2. d.whole \in Figures /\ d.fraction \in Figures /\ Len(d.fraction) = scale
  BY DEF WrittenAs, Clean
<1>3. d = Dec(d.neg, d.whole, d.fraction)
  BY <1>1 DEF WrittenAs
<1>4. scale \in Nat
  BY <1>2, FiguresAre
<1> QED BY <1>1, <1>2, <1>3, <1>4 DEF Amount

(* Units of a scale are written in one way.                                *)
LEMMA WrittenIsOnly ==
  ASSUME NEW d, NEW e, NEW units, NEW scale \in Nat, WrittenAs(d, units, scale), WrittenAs(e, units, scale)
  PROVE  d = e
<1> DEFINE p == Pow(scale)
<1>1. p \in Nat /\ p >= 1
  BY Powers
<1>2. /\ d = Dec(FALSE, d.whole, d.fraction) /\ Clean(d.whole) /\ d.fraction \in Figures /\ Len(d.fraction) = scale
      /\ units = Num(d.whole) * p + Num(d.fraction)
      /\ e = Dec(FALSE, e.whole, e.fraction) /\ Clean(e.whole) /\ e.fraction \in Figures /\ Len(e.fraction) = scale
      /\ units = Num(e.whole) * p + Num(e.fraction)
  BY DEF WrittenAs
<1>3. /\ Num(d.whole) \in Nat /\ Num(d.fraction) \in Nat /\ Num(d.fraction) + 1 <= p
      /\ Num(e.whole) \in Nat /\ Num(e.fraction) \in Nat /\ Num(e.fraction) + 1 <= p
  <2>1. Num(d.fraction) + 1 <= Pow(Len(d.fraction)) /\ Num(e.fraction) + 1 <= Pow(Len(e.fraction))
    BY <1>2, NumIsBounded
  <2> QED BY <1>2, <2>1, FiguresAre DEF Clean
<1> DEFINE w == Num(d.whole)
           f == Num(d.fraction)
           x == Num(e.whole)
           g == Num(e.fraction)
<1> HIDE DEF p, w, f, x, g
<1>4. w = x /\ f = g
  <2>1. /\ w \in Nat /\ x \in Nat /\ f \in Nat /\ g \in Nat /\ f < p /\ g < p
        /\ units = p * w + f /\ units = p * x + g /\ units \in Nat
    <3>1. w \in Nat /\ x \in Nat /\ f \in Nat /\ g \in Nat /\ f < p /\ g < p
      BY <1>1, <1>3 DEF w, x, f, g
    <3>2. units = w * p + f /\ units = x * p + g
      BY <1>2 DEF w, x, f, g
    <3>3. w * p = p * w /\ x * p = p * x /\ w * p \in Nat
      BY <1>1, <3>1, Arithmetic
    <3> QED BY <3>1, <3>2, <3>3
  <2>2. units \div p = w /\ units % p = f
    BY <1>1, <2>1, DivIsOnly
  <2>3. units \div p = x /\ units % p = g
    BY <1>1, <2>1, DivIsOnly
  <2> QED BY <2>2, <2>3
<1>5. d.whole = e.whole
  BY <1>2, <1>4, CleanIsOnly DEF w, x
<1>6. d.fraction = e.fraction
  BY <1>2, <1>4, SameNum DEF f, g
<1> QED BY <1>2, <1>5, <1>6

(* A number of so many digits, padded.                                     *)
LEMMA PaddedDigits ==
  ASSUME NEW k \in Nat, k >= 1, NEW n \in Nat, n < Pow(k)
  PROVE  PadStart(Digits(n), k) \in Figures /\ Len(PadStart(Digits(n), k)) = k /\ Num(PadStart(Digits(n), k)) = n
<1> DEFINE s == Digits(n)
<1>1. Clean(s) /\ Num(s) = n
  BY DigitsAre
<1>2. s \in Figures /\ Len(s) \in Nat
  BY <1>1, CleanIsLong
<1> HIDE DEF s
<1>3. Len(s) <= k
  <2> SUFFICES ASSUME ~(Len(s) <= k) PROVE FALSE
    OBVIOUS
  <2> DEFINE m == Len(s) - 1
  <2>1. m \in Nat /\ Len(s) = m + 1 /\ m >= 1 /\ k <= m
    BY <1>2
  <2> HIDE DEF m
  <2>2. Num(s) >= Pow(m)
    BY <1>1, <2>1, CleanIsLarge
  <2>3. Pow(k) <= Pow(m) /\ Pow(m) \in Nat /\ Pow(k) \in Nat
    BY <2>1, PowGrows, Powers
  <2> QED BY <1>1, <2>2, <2>3
<1>4. PadStart(s, k) \in Figures /\ Num(PadStart(s, k)) = Num(s) /\ Len(PadStart(s, k)) = IF Len(s) >= k THEN Len(s) ELSE k
  BY <1>2, PadsAre
<1> QED BY <1>1, <1>2, <1>3, <1>4 DEF s

(* formatDecimal writes them so.                                           *)
LEMMA FormatIs ==
  ASSUME NEW units \in Nat, NEW scale \in Nat
  PROVE  WrittenAs(formatDecimal(units, scale), units, scale)
<1> DEFINE r == Digits(units)
           s == PadStart(r, scale + 1)
           i == Len(s) - scale
           a == SubSeq(s, 1, i)
           b == SubSeq(s, i + 1, Len(s))
<1>1. Clean(r) /\ Num(r) = units /\ r \in Figures /\ Len(r) \in Nat /\ Len(r) >= 1
  BY DigitsAre, CleanIsLong
<1>2. formatDecimal(units, scale) = Dec(FALSE, a, b)
  BY DEF formatDecimal, Keep
<1> HIDE DEF r
<1>3. s \in Figures /\ Num(s) = units /\ Len(s) = (IF Len(r) >= scale + 1 THEN Len(r) ELSE scale + 1)
  BY <1>1, PadsAre
<1>4. s[1] # 0 \/ (Len(s) = scale + 1 /\ s[1] = 0)
  <2>1. CASE Len(r) >= scale + 1
    <3>1. s = r
      BY <2>1 DEF PadStart
    <3>2. r = <<0>> => Len(r) = 1 /\ r[1] = 0
      OBVIOUS
    <3>3. r = <<0>> \/ r[1] # 0
      BY <1>1 DEF Clean
    <3>4. Len(s) = Len(r) /\ s[1] = r[1]
      BY <3>1
    <3> HIDE DEF s
    <3>5. CASE r = <<0>>
      <4>1. Len(r) = 1 /\ r[1] = 0
        BY <3>2, <3>5
      <4>2. scale + 1 = 1
        BY <2>1, <4>1
      <4> QED BY <3>4, <4>1, <4>2
    <3> QED BY <3>3, <3>4, <3>5
  <2>2. CASE ~(Len(r) >= scale + 1)
    <3> DEFINE m == scale + 1 - Len(r)
    <3>1. m \in Nat /\ m >= 1
      BY <1>1, <2>2
    <3>2. s = Zeros(m) \o r
      BY <2>2 DEF PadStart
    <3> HIDE DEF m
    <3>3. Zeros(m) \in Seq(Nat) /\ Len(Zeros(m)) = m /\ Zeros(m)[1] = 0
      BY <3>1 DEF Zeros
    <3>4. s[1] = 0
      <4> HIDE DEF s
      <4> QED BY <1>1, <3>1, <3>2, <3>3 DEF Figures
    <3> QED BY <1>3, <2>2, <3>4
  <2> QED BY <2>1, <2>2
<1> HIDE DEF s
<1>5. i \in 0 .. Len(s) /\ i >= 1 /\ Len(s) - i = scale /\ (Len(s) = scale + 1 => i = 1)
  BY <1>1, <1>3
<1>6. /\ a \in Figures /\ Len(a) = i /\ \A k \in 1 .. i : a[k] = s[k]
      /\ b \in Figures /\ Len(b) = scale
      /\ s = a \o b
  <2> HIDE DEF i
  <2> QED BY <1>3, <1>5, CutInTwo
<1> HIDE DEF a, b, i
<1>7. Num(s) = Num(a) * Pow(scale) + Num(b)
  BY <1>6, NumOfBoth
<1>8. Clean(a)
  <2>1. a[1] = s[1] /\ a # <<>>
    BY <1>5, <1>6
  <2>2. CASE s[1] # 0
    BY <1>6, <2>1, <2>2 DEF Clean
  <2>3. CASE Len(s) = scale + 1 /\ s[1] = 0
    <3>1. Len(a) = 1 /\ a[1] = 0
      BY <1>5, <1>6, <2>1, <2>3
    <3>2. a = <<0>>
      <4>1. a \in Seq(0 .. Radix - 1) /\ <<0>> \in Seq(0 .. Radix - 1) /\ Len(<<0>>) = 1 /\ \A k \in 1 .. 1 : <<0>>[k] = 0
        BY <1>6, RadixIs DEF Figures
      <4>2. \A k \in 1 .. Len(a) : a[k] = <<0>>[k]
        BY <3>1
      <4> QED BY <3>1, <4>1, <4>2, SeqEqual
    <3> QED BY <1>6, <3>2 DEF Clean
  <2> QED BY <1>4, <2>2, <2>3
<1> DEFINE d == Dec(FALSE, a, b)
<1>9. d.whole = a /\ d.fraction = b /\ d.neg = FALSE
  BY DEF Dec
<1>10. WrittenAs(d, units, scale)
  <2>1. d = Dec(FALSE, d.whole, d.fraction)
    BY <1>9
  <2> HIDE DEF d
  <2> QED BY <1>3, <1>6, <1>7, <1>8, <1>9, <2>1 DEF WrittenAs
<1> QED BY <1>2, <1>10

(* The fraction that the database pads is what follows the first digit.    *)
LEMMA SqlFraction ==
  ASSUME NEW total \in Nat, NEW scale \in Nat, scale >= 1
  PROVE  /\ PaddedFraction(total, scale) \in Figures /\ Len(PaddedFraction(total, scale)) = scale
         /\ Num(PaddedFraction(total, scale)) = total % Pow(scale)
<1> DEFINE p == Pow(scale)
           r == total % p
           s == Digits(p + r)
<1>1. p \in Nat /\ p >= 1
  BY Powers
<1> HIDE DEF p
<1>2. r \in Nat /\ r < p
  BY <1>1, DivIs
<1> HIDE DEF r
<1>3. p + r \in Nat
  BY <1>1, <1>2
<1>4. Clean(s) /\ Num(s) = p + r /\ s \in Figures /\ Len(s) \in Nat /\ Len(s) >= 1
  BY <1>3, DigitsAre, CleanIsLong
<1> HIDE DEF s
<1>5. Len(s) = scale + 1
  <2>1. ~(Len(s) <= scale)
    <3> SUFFICES ASSUME Len(s) <= scale PROVE FALSE
      OBVIOUS
    <3>1. Num(s) + 1 <= Pow(Len(s))
      BY <1>4, NumIsBounded
    <3>2. Pow(Len(s)) <= Pow(scale) /\ Pow(Len(s)) \in Nat
      BY <1>4, PowGrows, Powers
    <3> QED BY <1>1, <1>2, <1>4, <3>1, <3>2 DEF p
  <2>2. ~(Len(s) > scale + 1)
    <3> SUFFICES ASSUME Len(s) > scale + 1 PROVE FALSE
      OBVIOUS
    <3> DEFINE m == Len(s) - 1
               n == scale + 1
    <3>1. m \in Nat /\ Len(s) = m + 1 /\ m >= 1 /\ n \in Nat /\ n <= m /\ n = scale + 1
      BY <1>4
    <3> HIDE DEF m, n
    <3>2. Num(s) >= Pow(m)
      BY <1>4, <3>1, CleanIsLarge
    <3>3. Pow(n) <= Pow(m) /\ Pow(m) \in Nat /\ Pow(n) = Radix * p
      BY <3>1, PowGrows, Powers DEF p
    <3>4. Radix * p >= p + p
      <4>1. \A x, y \in Nat : x >= 2 => x * y >= y + y
        OBVIOUS
      <4> QED BY <1>1, <4>1, RadixIs
    <3>5. Radix * p \in Nat
      BY <1>1, RadixIs, Arithmetic
    <3> QED BY <1>1, <1>2, <1>4, <3>2, <3>3, <3>4, <3>5
  <2> QED BY <1>4, <2>1, <2>2
<1> DEFINE a == SubSeq(s, 1, 1)
           b == SubSeq(s, 1 + 1, Len(s))
<1>6. /\ a \in Figures /\ Len(a) = 1
      /\ b \in Figures /\ Len(b) = scale
      /\ s = a \o b
  <2>1. 1 \in 0 .. Len(s) /\ Len(s) - 1 = scale
    BY <1>4, <1>5
  <2>2. Len(b) = Len(s) - 1
    BY <1>4, <2>1, CutInTwo
  <2>3. a \in Figures /\ Len(a) = 1 /\ b \in Figures /\ s = a \o b
    BY <1>4, <2>1, CutInTwo
  <2> QED BY <2>1, <2>2, <2>3
<1>7. Tail(s) = b
  <2>1. s \in Seq(0 .. Radix - 1) /\ b \in Seq(0 .. Radix - 1)
    BY <1>4, <1>6 DEF Figures
  <2>2. Tail(s) \in Seq(0 .. Radix - 1) /\ Len(Tail(s)) = scale /\ \A k \in 1 .. scale : Tail(s)[k] = s[k + 1]
    BY <1>5, <2>1
  <2>3. \A k \in 1 .. scale : b[k] = s[k + 1]
    BY <1>5, <2>1
  <2> HIDE DEF b
  <2> QED BY <1>6, <2>1, <2>2, <2>3, SeqEqual
<1> HIDE DEF a, b
<1>8. Num(s) = Num(a) * p + Num(b) /\ Num(a) \in Nat /\ Num(b) \in Nat /\ Num(b) + 1 <= p
  <2>1. Num(s) = Num(a) * Pow(Len(b)) + Num(b)
    BY <1>6, NumOfBoth
  <2>2. Num(b) + 1 <= Pow(Len(b))
    BY <1>6, NumIsBounded
  <2>3. Num(a) \in Nat /\ Num(b) \in Nat
    BY <1>6, FiguresAre
  <2> QED BY <1>6, <2>1, <2>2, <2>3 DEF p
<1>9. Num(b) = r
  <2> DEFINE x == Num(a)
             y == Num(b)
             q == p + r
  <2>1. x \in Nat /\ y \in Nat /\ y < p /\ q = x * p + y
    BY <1>1, <1>4, <1>8
  <2> HIDE DEF x, y
  <2>2. q = p * x + y /\ q = p * 1 + r /\ q \in Nat
    <3>1. x * p = p * x /\ p * 1 = p
      BY <1>1, <2>1, Arithmetic
    <3> QED BY <1>3, <2>1, <3>1
  <2> HIDE DEF q
  <2>3. q % p = y
    BY <1>1, <2>1, <2>2, DivIsOnly
  <2>4. q % p = r
    BY <1>1, <1>2, <2>2, DivIsOnly
  <2> QED BY <2>3, <2>4 DEF y
<1>10. PaddedFraction(total, scale) = Tail(s)
  BY DEF PaddedFraction, s, p, r
<1> QED BY <1>6, <1>7, <1>9, <1>10 DEF r, p

(* The statement of the database writes them so, too.                      *)
LEMMA SqlFormat ==
  ASSUME NEW total \in Nat, NEW scale \in Nat
  PROVE  /\ scale = 0 => WrittenAs(Dec(FALSE, Digits(total), <<>>), total, scale)
         /\ scale # 0 => WrittenAs(Dec(FALSE, Digits(total \div Pow(scale)), PaddedFraction(total, scale)), total, scale)
<1> DEFINE p == Pow(scale)
<1>1. p \in Nat /\ p >= 1 /\ (scale = 0 => p = 1)
  BY Powers
<1>2. CASE scale = 0
  <2> DEFINE w == Digits(total)
             d == Dec(FALSE, w, <<>>)
  <2>1. Clean(w) /\ Num(w) = total
    BY DigitsAre
  <2>2. <<>> \in Figures /\ Len(<<>>) = 0 /\ Num(<<>>) = 0
    BY NumOfNone DEF Figures
  <2> HIDE DEF w
  <2>3. d.whole = w /\ d.fraction = <<>> /\ d = Dec(FALSE, d.whole, d.fraction)
    BY DEF Dec
  <2> HIDE DEF d
  <2>4. total = Num(w) * p + Num(<<>>)
    BY <1>1, <1>2, <2>1, <2>2
  <2>5. WrittenAs(d, total, scale)
    BY <1>2, <2>1, <2>2, <2>3, <2>4 DEF WrittenAs, p
  <2> QED BY <1>2, <2>5 DEF d, w
<1>3. CASE scale # 0
  <2> DEFINE q == total \div p
             w == Digits(q)
             f == PaddedFraction(total, scale)
             d == Dec(FALSE, w, f)
  <2>1. q \in Nat /\ total % p \in Nat /\ total = p * q + (total % p) /\ p * q = q * p
    <3>1. q \in Nat /\ total % p \in 0 .. p - 1 /\ total = p * q + (total % p)
      BY <1>1, DivIs
    <3>2. total % p \in Nat
      BY <1>1, <3>1
    <3> HIDE DEF q
    <3>3. p * q = q * p
      BY <1>1, <3>1, Arithmetic
    <3> QED BY <3>1, <3>2, <3>3
  <2>2. f \in Figures /\ Len(f) = scale /\ Num(f) = total % p
    BY <1>3, SqlFraction
  <2> HIDE DEF q, f
  <2>3. Clean(w) /\ Num(w) = q
    BY <2>1, DigitsAre
  <2> HIDE DEF w
  <2>4. d.whole = w /\ d.fraction = f /\ d = Dec(FALSE, d.whole, d.fraction)
    BY DEF Dec
  <2> HIDE DEF d
  <2>5. total = Num(w) * p + Num(f)
    BY <2>1, <2>2, <2>3
  <2>6. WrittenAs(d, total, scale)
    BY <2>2, <2>3, <2>4, <2>5 DEF WrittenAs, p
  <2> QED BY <1>3, <2>6 DEF d, w, q, f
<1> QED BY <1>2, <1>3

(* An amount in units of a finer scale.                                    *)
LEMMA Rescaled ==
  ASSUME NEW d, Amount(d), NEW m \in Nat, NEW n \in Nat, Len(d.fraction) <= m, m <= n
  PROVE  Units(d, m) \in Nat /\ Pow(n - m) \in Nat /\ Pow(n - m) >= 1 /\ Units(d, n) = Units(d, m) * Pow(n - m)
<1> DEFINE l == Len(d.fraction)
           w == Num(d.whole)
           f == Num(d.fraction)
           a == m - l
           b == n - m
           c == n - l
<1>1. w \in Nat /\ f \in Nat /\ l \in Nat
  BY AmountsAre
<1>2. a \in Nat /\ b \in Nat /\ c \in Nat /\ n = m + b /\ c = a + b
  BY <1>1
<1>3. Units(d, m) = w * Pow(m) + f * Pow(a) /\ Units(d, n) = w * Pow(n) + f * Pow(c)
  BY DEF Units
<1> HIDE DEF a, b, c, w, f, l
<1>4. Pow(n) = Pow(m) * Pow(b)
  BY <1>2, PowOfSum
<1>5. Pow(c) = Pow(a) * Pow(b)
  BY <1>2, PowOfSum
<1>6. Pow(a) \in Nat /\ Pow(b) \in Nat /\ Pow(m) \in Nat /\ Pow(b) >= 1
  <2>1. b < Pow(b) /\ Pow(b) \in Nat
    BY <1>2, Powers
  <2>2. Pow(a) \in Nat /\ Pow(m) \in Nat
    BY <1>2, Powers
  <2> QED BY <1>2, <2>1, <2>2
<1>7. \A x, y, u, v, z \in Nat : x * y + u * v \in Nat /\ x * (y * z) + u * (v * z) = (x * y + u * v) * z
  OBVIOUS
<1>8. Units(d, m) \in Nat /\ Units(d, n) = Units(d, m) * Pow(b)
  BY <1>1, <1>3, <1>4, <1>5, <1>6, <1>7
<1> QED BY <1>6, <1>8 DEF b

(* decimalUnits reads the units of a scale that is fine enough.            *)
LEMMA UnitsAre ==
  ASSUME NEW d, Amount(d), NEW n \in Nat, Len(d.fraction) <= n
  PROVE  /\ decimalUnits(d, n) = Units(d, n) /\ Units(d, n) \in Nat
         /\ Units(d, n) = Num(d.whole) * Pow(n) + Num(PadEnd(d.fraction, n))
         /\ Num(d.whole \o d.fraction) = Units(d, Len(d.fraction))
<1>1. /\ d.whole \in Figures /\ d.fraction \in Figures /\ Len(d.fraction) \in Nat
      /\ Num(d.whole) \in Nat /\ Num(d.fraction) \in Nat
  BY AmountsAre
<1> DEFINE f == PadEnd(d.fraction, n)
<1>2. f \in Figures /\ Len(f) = n /\ Num(f) = Num(d.fraction) * Pow(n - Len(d.fraction))
  BY <1>1, PadsAre
<1> HIDE DEF f
<1>3. Num(d.whole \o f) = Num(d.whole) * Pow(n) + Num(f)
  BY <1>1, <1>2, NumOfBoth
<1>4. Units(d, n) \in Nat
  BY <1>1, Rescaled
<1>5. decimalUnits(d, n) = Num(d.whole \o f)
  BY DEF decimalUnits, f
<1>6. Num(d.whole \o d.fraction) = Units(d, Len(d.fraction))
  <2> DEFINE l == Len(d.fraction)
  <2>1. Num(d.whole \o d.fraction) = Num(d.whole) * Pow(l) + Num(d.fraction)
    BY <1>1, NumOfBoth
  <2>2. l - l = 0 /\ l \in Nat
    BY <1>1
  <2>3. Pow(l - l) = 1
    BY <2>2, Powers
  <2>4. Units(d, l) = Num(d.whole) * Pow(l) + Num(d.fraction)
    BY <1>1, <2>3 DEF Units
  <2> QED BY <2>1, <2>4
<1>7. Units(d, n) = Num(d.whole) * Pow(n) + Num(f)
  BY <1>2 DEF Units
<1> QED BY <1>3, <1>4, <1>5, <1>6, <1>7 DEF f

(* What was written is read again.                                         *)
LEMMA ExactUnits ==
  ASSUME NEW d, NEW units, NEW scale, WrittenAs(d, units, scale)
  PROVE  Units(d, scale) = units
<1>1. Amount(d) /\ d.neg = FALSE /\ Len(d.fraction) = scale /\ scale \in Nat
  BY WrittenIsAmount
<1>2. scale - scale = 0 /\ Num(d.fraction) \in Nat
  BY <1>1, AmountsAre
<1>3. Pow(scale - scale) = 1
  BY <1>2, Powers
<1> QED BY <1>1, <1>2, <1>3 DEF Units, WrittenAs

(* The value of an amount is its units on the finest scale, signed.        *)
LEMMA ValueIs ==
  ASSUME NEW d, Amount(d), Len(d.fraction) <= SumScale
  PROVE  Units(d, SumScale) \in Nat /\ Value(d) = IF d.neg THEN -Units(d, SumScale) ELSE Units(d, SumScale)
<1>1. Units(d, SumScale) \in Nat
  BY ScalesAre, UnitsAre
<1> QED BY <1>1 DEF Value, Units

(* The number of an amount without a sign.                                 *)
LEMMA Added ==
  ASSUME NEW a, NEW b, Amount(a), Amount(b), a.neg = FALSE, b.neg = FALSE,
         Len(a.fraction) <= FractionDigits, Len(b.fraction) <= FractionDigits
  PROVE  LET sum == addDecimalStrings(a, b)
         IN /\ Amount(sum) /\ sum.neg = FALSE /\ Clean(sum.whole) /\ Len(sum.fraction) <= FractionDigits
            /\ Value(sum) = Value(a) + Value(b) /\ Value(a) \in Nat /\ Value(b) \in Nat
            /\ ChargedSpent(a, b) \in {sum, Refused}
<1> DEFINE scale == MaxOf(Len(a.fraction), Len(b.fraction))
           ua == Units(a, scale)
           ub == Units(b, scale)
           units == ua + ub
           sum == formatDecimal(units, scale)
           rest == Pow(SumScale - scale)
<1>1. Len(a.fraction) \in Nat /\ Len(b.fraction) \in Nat /\ SumScale \in Nat /\ FractionDigits \in Nat
      /\ FractionDigits <= SumScale
  BY AmountsAre, ScalesAre
<1>2. /\ scale \in Nat /\ Len(a.fraction) <= scale /\ Len(b.fraction) <= scale
      /\ scale <= SumScale /\ scale <= FractionDigits
  BY <1>1 DEF MaxOf
<1> HIDE DEF scale
<1>3. decimalUnits(a, scale) = ua /\ decimalUnits(b, scale) = ub /\ ua \in Nat /\ ub \in Nat
  BY <1>2, UnitsAre
<1>4. Units(a, SumScale) = ua * rest /\ rest \in Nat
  BY <1>1, <1>2, Rescaled
<1>5. Units(b, SumScale) = ub * rest
  BY <1>1, <1>2, Rescaled
<1>6. addDecimalStrings(a, b) = sum
  BY <1>3 DEF addDecimalStrings, scale
<1>7. units \in Nat
  BY <1>3
<1>8. WrittenAs(sum, units, scale)
  BY <1>2, <1>7, FormatIs
<1> HIDE DEF sum
<1>9. Amount(sum) /\ sum.neg = FALSE /\ Len(sum.fraction) = scale /\ scale \in Nat
  BY <1>8, WrittenIsAmount
<1>10. Clean(sum.whole)
  BY <1>8 DEF WrittenAs
<1>11. Units(sum, scale) = units
  BY <1>8, ExactUnits
<1>12. Units(sum, SumScale) = units * rest
  BY <1>1, <1>2, <1>9, <1>11, Rescaled
<1>13. Value(sum) = Units(sum, SumScale) /\ Value(a) = Units(a, SumScale) /\ Value(b) = Units(b, SumScale)
       /\ Units(a, SumScale) \in Nat /\ Units(b, SumScale) \in Nat
  <2>1. Value(sum) = Units(sum, SumScale)
    BY <1>2, <1>9, ValueIs
  <2>2. Value(a) = Units(a, SumScale) /\ Units(a, SumScale) \in Nat
    BY <1>1, <1>2, ValueIs
  <2>3. Value(b) = Units(b, SumScale) /\ Units(b, SumScale) \in Nat
    BY <1>1, <1>2, ValueIs
  <2> QED BY <2>1, <2>2, <2>3
<1>14. Value(sum) = Value(a) + Value(b)
  <2>1. \A x, y, z \in Nat : (x + y) * z = x * z + y * z
    OBVIOUS
  <2>2. units * rest = ua * rest + ub * rest
    BY <1>3, <1>4, <2>1
  <2> QED BY <1>4, <1>5, <1>12, <1>13, <2>2
<1>15. ChargedSpent(a, b) \in {sum, Refused}
  <2> DEFINE pa == Num(a.whole \o a.fraction)
             pb == Num(b.whole \o b.fraction)
             total == pa * Pow(scale - Len(a.fraction)) + pb * Pow(scale - Len(b.fraction))
             sqlSum == IF scale = 0 THEN Dec(FALSE, Digits(total), <<>>)
                       ELSE Dec(FALSE, Digits(total \div Pow(scale)), PaddedFraction(total, scale))
  <2>1. ua = pa * Pow(scale - Len(a.fraction))
    <3>1. pa = Units(a, Len(a.fraction))
      BY <1>2, UnitsAre
    <3> DEFINE l == Len(a.fraction)
    <3>2. l \in Nat /\ l = Len(a.fraction) /\ l <= scale
      BY <1>1, <1>2
    <3> HIDE DEF l
    <3>3. Units(a, scale) = Units(a, l) * Pow(scale - l)
      BY <1>2, <3>2, Rescaled
    <3> QED BY <3>1, <3>3 DEF l
  <2>2. ub = pb * Pow(scale - Len(b.fraction))
    <3>1. pb = Units(b, Len(b.fraction))
      BY <1>2, UnitsAre
    <3>2. ub = Units(b, Len(b.fraction)) * Pow(scale - Len(b.fraction))
      BY <1>1, <1>2, Rescaled
    <3> QED BY <3>1, <3>2
  <2>3. total = units
    BY <2>1, <2>2
  <2>4. ChargedSpent(a, b) \in {sqlSum, Refused}
    BY DEF ChargedSpent, scale
  <2> HIDE DEF total, units
  <2>5. WrittenAs(sqlSum, units, scale)
    BY <1>2, <1>7, <2>3, SqlFormat
  <2>6. sqlSum = sum
    BY <1>2, <1>8, <2>5, WrittenIsOnly
  <2> QED BY <2>4, <2>6
<1> HIDE DEF units, ua, ub, rest
<1>16. Value(a) \in Nat /\ Value(b) \in Nat
  BY <1>13
<1> QED BY <1>2, <1>6, <1>9, <1>10, <1>14, <1>15, <1>16

(* The comparison from left to right is that of the numbers.               *)
LEMMA LexIs ==
  ASSUME NEW s \in Figures, NEW t \in Figures, Len(s) = Len(t)
  PROVE  LexOrder(s, t) \in Int /\ SameSign(LexOrder(s, t), Num(s) - Num(t))
<1> DEFINE differ == {i \in DOMAIN s : s[i] # t[i]}
<1>1. /\ Len(s) \in Nat /\ DOMAIN s = 1 .. Len(s) /\ \A k \in 1 .. Len(s) : s[k] \in Nat /\ t[k] \in Nat
      /\ Num(s) \in Nat /\ Num(t) \in Nat
  BY FiguresAre
<1>2. CASE differ = {}
  <2>1. LexOrder(s, t) = 0
    BY <1>2 DEF LexOrder
  <2>2. s = t
    <3>1. \A k \in 1 .. Len(s) : s[k] = t[k]
      BY <1>1, <1>2
    <3> QED BY <3>1, SeqEqual DEF Figures
  <2> QED BY <1>1, <2>1, <2>2 DEF SameSign
<1>3. CASE differ # {}
  <2>1. LexOrder(s, t) = s[Min(differ)] - t[Min(differ)]
    BY <1>3 DEF LexOrder
  <2>2. differ \in SUBSET Nat
    BY <1>1
  <2> DEFINE i == Min(differ)
  <2> HIDE DEF differ
  <2>3. i \in differ /\ \A k \in differ : i <= k
    BY <1>3, <2>2, LeastOfSome
  <2>4. LexOrder(s, t) = s[i] - t[i]
    BY <2>1
  <2> HIDE DEF i
  <2>5. i \in 1 .. Len(s) /\ s[i] # t[i] /\ \A k \in 1 .. Len(s) : k < i => s[k] = t[k]
    <3>1. i \in 1 .. Len(s) /\ s[i] # t[i]
      BY <1>1, <2>3 DEF differ
    <3>2. ASSUME NEW k \in 1 .. Len(s), k < i PROVE s[k] = t[k]
      <4>1. k \notin differ
        BY <1>1, <2>3, <3>1, <3>2
      <4> QED BY <1>1, <4>1 DEF differ
    <3> QED BY <3>1, <3>2
  <2>6. s[i] \in Nat /\ t[i] \in Nat
    BY <1>1, <2>5
  <2>7. CASE s[i] < t[i]
    <3>1. Num(s) < Num(t)
      BY <2>5, <2>7, FirstDifference
    <3> QED BY <1>1, <2>4, <2>6, <2>7, <3>1 DEF SameSign
  <2>8. CASE t[i] < s[i]
    <3>1. i \in 1 .. Len(t) /\ \A k \in 1 .. Len(t) : k < i => t[k] = s[k]
      BY <2>5
    <3>2. Num(t) < Num(s)
      BY <2>8, <3>1, FirstDifference
    <3> QED BY <1>1, <2>4, <2>6, <2>8, <3>2 DEF SameSign
  <2> QED BY <2>5, <2>6, <2>7, <2>8
<1> QED BY <1>2, <1>3

(* Signs do not change with the scale.                                     *)
LEMMA ScaledSign ==
  ASSUME NEW m \in Nat, NEW n \in Nat, NEW r \in Nat, r >= 1
  PROVE  SameSign(m - n, m * r - n * r) /\ (m < n <=> m * r < n * r)
<1>1. \A x, y \in Nat : x < y => x * r < y * r
  <2> SUFFICES ASSUME NEW x \in Nat, NEW y \in Nat, x < y PROVE x * r < y * r
    OBVIOUS
  <2>1. x * r = r * x /\ y * r = r * y /\ r * x < r * y
    BY Arithmetic
  <2> QED BY <2>1
<1>2. m * r \in Nat /\ n * r \in Nat
  BY Arithmetic
<1>3. m < n \/ m = n \/ n < m
  OBVIOUS
<1>4. CASE m < n
  BY <1>1, <1>2, <1>4 DEF SameSign
<1>5. CASE m = n
  BY <1>2, <1>5 DEF SameSign
<1>6. CASE n < m
  BY <1>1, <1>2, <1>6 DEF SameSign
<1> QED BY <1>3, <1>4, <1>5, <1>6

(* Comparing the wholes by length and digits and then the padded fractions *)
(* compares the numbers.                                                   *)
LEMMA MagnitudesCompare ==
  ASSUME NEW a, NEW b, Amount(a), Amount(b), Len(a.fraction) <= SumScale, Len(b.fraction) <= SumScale
  PROVE  /\ compareMagnitude(a, b) \in Int
         /\ SameSign(compareMagnitude(a, b), Units(a, SumScale) - Units(b, SumScale))
<1> DEFINE width == MaxOf(Len(a.fraction), Len(b.fraction))
           wa == stripLeadingZeros(a.whole)
           wb == stripLeadingZeros(b.whole)
           fa == PadEnd(a.fraction, width)
           fb == PadEnd(b.fraction, width)
           ua == Units(a, width)
           ub == Units(b, width)
           p == Pow(width)
           rest == Pow(SumScale - width)
<1>1. /\ Len(a.fraction) \in Nat /\ Len(b.fraction) \in Nat /\ SumScale \in Nat
      /\ a.whole \in Figures /\ b.whole \in Figures /\ a.fraction \in Figures /\ b.fraction \in Figures
  BY AmountsAre, ScalesAre
<1>2. width \in Nat /\ Len(a.fraction) <= width /\ Len(b.fraction) <= width /\ width <= SumScale
  BY <1>1 DEF MaxOf
<1>3. compareMagnitude(a, b) =
        IF Len(wa) # Len(wb) THEN Len(wa) - Len(wb)
        ELSE IF wa # wb THEN LexOrder(wa, wb) ELSE LexOrder(fa, fb)
  BY DEF compareMagnitude
<1> HIDE DEF width
<1>4. /\ Clean(wa) /\ Num(wa) = Num(a.whole) /\ wa \in Figures /\ Len(wa) \in Nat /\ Num(wa) \in Nat
      /\ Clean(wb) /\ Num(wb) = Num(b.whole) /\ wb \in Figures /\ Len(wb) \in Nat /\ Num(wb) \in Nat
  BY <1>1, StripIs, CleanIsLong
<1>5. fa \in Figures /\ Len(fa) = width /\ fb \in Figures /\ Len(fb) = width
  BY <1>1, <1>2, PadsAre
<1>6. p \in Nat /\ p >= 1
  BY <1>2, Powers
<1>7. Num(fa) \in Nat /\ Num(fa) + 1 <= p /\ Num(fb) \in Nat /\ Num(fb) + 1 <= p
  <2>1. Num(fa) + 1 <= Pow(Len(fa)) /\ Num(fb) + 1 <= Pow(Len(fb))
    BY <1>5, NumIsBounded
  <2>2. Num(fa) \in Nat /\ Num(fb) \in Nat
    BY <1>5, FiguresAre
  <2> QED BY <1>5, <2>1, <2>2
<1>8. ua = Num(wa) * p + Num(fa) /\ ub = Num(wb) * p + Num(fb) /\ ua \in Nat /\ ub \in Nat
  BY <1>2, <1>4, UnitsAre
<1>9a. Units(a, SumScale) = ua * rest /\ rest \in Nat /\ rest >= 1
  BY <1>1, <1>2, Rescaled
<1>9b. Units(b, SumScale) = ub * rest
  BY <1>1, <1>2, Rescaled
<1> DEFINE order == compareMagnitude(a, b)
<1>10. order \in Int /\ SameSign(order, ua - ub)
  <2> HIDE DEF wa, wb, fa, fb, p, ua, ub
  <2> DEFINE x == Num(wa)
             y == Num(wb)
             f == Num(fa)
             g == Num(fb)
  <2>1. x \in Nat /\ y \in Nat /\ f \in Nat /\ g \in Nat /\ f < p /\ g < p /\ ua = x * p + f /\ ub = y * p + g
    BY <1>4, <1>6, <1>7, <1>8
  <2>2. ASSUME x < y PROVE ua < ub
    <3>1. \A i, j, k, l, m \in Nat : i < j /\ k < m => i * m + k < j * m + l
      <4> SUFFICES ASSUME NEW i \in Nat, NEW j \in Nat, NEW k \in Nat, NEW l \in Nat, NEW m \in Nat, i < j, k < m
                   PROVE  i * m + k < j * m + l
        OBVIOUS
      <4>1. m * (i + 1) <= m * j /\ m * (i + 1) = m * i + m /\ m * i = i * m /\ m * j = j * m
        BY Arithmetic
      <4>2. i * m \in Nat /\ j * m \in Nat
        BY Arithmetic
      <4> QED BY <4>1, <4>2
    <3> HIDE DEF x, y, f, g
    <3> QED BY <1>6, <2>1, <2>2, <3>1
  <2>3. ASSUME y < x PROVE ub < ua
    <3>1. \A i, j, k, l, m \in Nat : i < j /\ k < m => i * m + k < j * m + l
      <4> SUFFICES ASSUME NEW i \in Nat, NEW j \in Nat, NEW k \in Nat, NEW l \in Nat, NEW m \in Nat, i < j, k < m
                   PROVE  i * m + k < j * m + l
        OBVIOUS
      <4>1. m * (i + 1) <= m * j /\ m * (i + 1) = m * i + m /\ m * i = i * m /\ m * j = j * m
        BY Arithmetic
      <4>2. i * m \in Nat /\ j * m \in Nat
        BY Arithmetic
      <4> QED BY <4>1, <4>2
    <3> HIDE DEF x, y, f, g
    <3> QED BY <1>6, <2>1, <2>3, <3>1
  <2>4. CASE Len(wa) < Len(wb)
    <3>1. x < y
      BY <1>4, <2>4, LongerIsGreater
    <3>2. order = Len(wa) - Len(wb)
      BY <1>3, <1>4, <2>4
    <3> QED BY <1>4, <1>8, <2>2, <2>4, <3>1, <3>2 DEF SameSign
  <2>5. CASE Len(wb) < Len(wa)
    <3>1. y < x
      BY <1>4, <2>5, LongerIsGreater
    <3>2. order = Len(wa) - Len(wb)
      BY <1>3, <1>4, <2>5
    <3> QED BY <1>4, <1>8, <2>3, <2>5, <3>1, <3>2 DEF SameSign
  <2>6. CASE Len(wa) = Len(wb) /\ wa # wb
    <3>1. order = LexOrder(wa, wb)
      BY <1>3, <2>6
    <3>2. order \in Int /\ SameSign(order, x - y)
      BY <1>4, <2>6, <3>1, LexIs
    <3>3. x # y
      BY <1>4, <2>6, SameNum
    <3> HIDE DEF x, y, order
    <3>4. x < y \/ y < x
      BY <2>1, <3>3
    <3> QED BY <1>8, <2>1, <2>2, <2>3, <3>2, <3>4 DEF SameSign
  <2>7. CASE wa = wb
    <3>1. order = LexOrder(fa, fb)
      BY <1>3, <2>7
    <3>2. order \in Int /\ SameSign(order, f - g)
      BY <1>5, <3>1, LexIs
    <3>3. ua - ub = f - g
      <4>1. x = y
        BY <2>7
      <4>2. x * p \in Nat
        BY <1>6, <2>1, Arithmetic
      <4> HIDE DEF x, y, f, g
      <4> QED BY <2>1, <4>1, <4>2
    <3> QED BY <3>2, <3>3
  <2> QED BY <1>4, <2>4, <2>5, <2>6, <2>7
<1>11. SameSign(ua - ub, Units(a, SumScale) - Units(b, SumScale))
  <2> HIDE DEF ua, ub, rest
  <2>1. SameSign(ua - ub, ua * rest - ub * rest)
    BY <1>8, <1>9a, ScaledSign
  <2> QED BY <1>9a, <1>9b, <2>1
<1>12. SameSign(order, Units(a, SumScale) - Units(b, SumScale))
  BY <1>10, <1>11 DEF SameSign
<1> QED BY <1>10, <1>12

(* isZero knows zero however it is written.                                *)
LEMMA ZeroIs ==
  ASSUME NEW d, Amount(d), Len(d.fraction) <= SumScale
  PROVE  isZero(d) <=> Units(d, SumScale) = 0
<1> DEFINE w == stripLeadingZeros(d.whole)
           x == Num(d.whole)
           f == Num(d.fraction)
           p == Pow(SumScale)
           q == Pow(SumScale - Len(d.fraction))
<1>1. x \in Nat /\ f \in Nat /\ Len(d.fraction) \in Nat /\ d.whole \in Figures /\ SumScale \in Nat
  BY AmountsAre, ScalesAre
<1>2. p \in Nat /\ p >= 1 /\ q \in Nat /\ q >= 1
  <2> DEFINE k == SumScale - Len(d.fraction)
  <2>1. k \in Nat
    BY <1>1
  <2> HIDE DEF k
  <2>2. Pow(k) \in Nat /\ Pow(k) >= 1
    BY <2>1, Powers
  <2>3. p \in Nat /\ p >= 1
    BY <1>1, Powers
  <2> QED BY <2>2, <2>3 DEF k
<1>3. Units(d, SumScale) = x * p + f * q
  BY DEF Units
<1>4. Clean(w) /\ Num(w) = x
  BY <1>1, StripIs
<1>5. Clean(<<0>>) /\ Num(<<0>>) = 0
  <2>1. 0 \in 0 .. Radix - 1
    BY RadixIs
  <2> QED BY <2>1, NumOfOne DEF Clean
<1>6. w = <<0>> <=> x = 0
  BY <1>4, <1>5, CleanIsOnly
<1> HIDE DEF p, q
<1>7. x * p + f * q = 0 <=> x = 0 /\ f = 0
  <2>1. \A i, j, k, l \in Nat : j >= 1 /\ l >= 1 => (i * j + k * l = 0 <=> i = 0 /\ k = 0)
    <3> SUFFICES ASSUME NEW i \in Nat, NEW j \in Nat, NEW k \in Nat, NEW l \in Nat, j >= 1, l >= 1
                 PROVE  i * j + k * l = 0 <=> i = 0 /\ k = 0
      OBVIOUS
    <3>1. i * j \in Nat /\ k * l \in Nat /\ (i * j = 0 <=> i = 0) /\ (k * l = 0 <=> k = 0)
      OBVIOUS
    <3> QED BY <3>1
  <2> HIDE DEF x, f
  <2> QED BY <1>1, <1>2, <2>1
<1> QED BY <1>3, <1>6, <1>7 DEF isZero

(* The comparison of alerts.ts, with signs and "-0".                       *)
LEMMA DecimalsCompare ==
  ASSUME NEW a, NEW b, Amount(a), Amount(b), Len(a.fraction) <= SumScale, Len(b.fraction) <= SumScale
  PROVE  SameSign(compareDecimalStrings(a, b), Value(a) - Value(b))
<1> DEFINE ua == Units(a, SumScale)
           ub == Units(b, SumScale)
           order == compareMagnitude(a, b)
           negA == a.neg /\ ~isZero(a)
           negB == b.neg /\ ~isZero(b)
<1>1. ua \in Nat /\ Value(a) = (IF a.neg THEN -ua ELSE ua)
  BY ValueIs
<1>2. ub \in Nat /\ Value(b) = (IF b.neg THEN -ub ELSE ub)
  BY ValueIs
<1>3. order \in Int /\ SameSign(order, ua - ub)
  BY MagnitudesCompare
<1>4. (isZero(a) <=> ua = 0) /\ (isZero(b) <=> ub = 0)
  BY ZeroIs
<1>5. compareDecimalStrings(a, b) =
        IF negA # negB THEN IF negA THEN -1 ELSE 1 ELSE IF negA THEN -order ELSE order
  BY DEF compareDecimalStrings
<1> HIDE DEF ua, ub, order
<1>6. CASE negA /\ negB
  <2>1. compareDecimalStrings(a, b) = -order
    BY <1>5, <1>6
  <2>2. Value(a) = -ua /\ Value(b) = -ub
    BY <1>1, <1>2, <1>6
  <2> QED BY <1>1, <1>2, <1>3, <2>1, <2>2 DEF SameSign
<1>7. CASE negA /\ ~negB
  <2>1. compareDecimalStrings(a, b) = -1
    BY <1>5, <1>7
  <2>2. Value(a) = -ua /\ ua # 0
    BY <1>1, <1>4, <1>7
  <2>3. Value(b) \in Nat
    BY <1>2, <1>4, <1>7
  <2> QED BY <1>1, <2>1, <2>2, <2>3 DEF SameSign
<1>8. CASE ~negA /\ negB
  <2>1. compareDecimalStrings(a, b) = 1
    BY <1>5, <1>8
  <2>2. Value(b) = -ub /\ ub # 0
    BY <1>2, <1>4, <1>8
  <2>3. Value(a) \in Nat
    BY <1>1, <1>4, <1>8
  <2> QED BY <1>2, <2>1, <2>2, <2>3 DEF SameSign
<1>9. CASE ~negA /\ ~negB
  <2>1. compareDecimalStrings(a, b) = order
    BY <1>5, <1>9
  <2>2. Value(a) = ua
    BY <1>1, <1>4, <1>9
  <2>3. Value(b) = ub
    BY <1>2, <1>4, <1>9
  <2> QED BY <1>1, <1>2, <1>3, <2>1, <2>2, <2>3 DEF SameSign
<1> QED BY <1>6, <1>7, <1>8, <1>9

(* The comparison of gateway.ts.                                           *)
LEMMA UnitsCompare ==
  ASSUME NEW a, NEW b, Amount(a), Amount(b), Len(a.fraction) <= SumScale, Len(b.fraction) <= SumScale,
         a.neg = FALSE, b.neg = FALSE
  PROVE  SameSign(compareUnits(a, b), Value(a) - Value(b))
<1> DEFINE scale == MaxOf(Len(a.fraction), Len(b.fraction))
           ua == Units(a, scale)
           ub == Units(b, scale)
           rest == Pow(SumScale - scale)
<1>1. Len(a.fraction) \in Nat /\ Len(b.fraction) \in Nat /\ SumScale \in Nat
  BY AmountsAre, ScalesAre
<1>2. scale \in Nat /\ Len(a.fraction) <= scale /\ Len(b.fraction) <= scale /\ scale <= SumScale
  BY <1>1 DEF MaxOf
<1> HIDE DEF scale
<1>3. decimalUnits(a, scale) = ua /\ decimalUnits(b, scale) = ub /\ ua \in Nat /\ ub \in Nat
  BY <1>2, UnitsAre
<1>4. Units(a, SumScale) = ua * rest /\ rest \in Nat /\ rest >= 1
  BY <1>1, <1>2, Rescaled
<1>5. Units(b, SumScale) = ub * rest
  BY <1>1, <1>2, Rescaled
<1>6. Value(a) = Units(a, SumScale)
  BY ValueIs
<1>7. Value(b) = Units(b, SumScale)
  BY ValueIs
<1>8. compareUnits(a, b) = ua - ub
  BY <1>3 DEF compareUnits, scale
<1> HIDE DEF ua, ub, rest
<1>9. SameSign(ua - ub, ua * rest - ub * rest)
  BY <1>3, <1>4, ScaledSign
<1> QED BY <1>4, <1>5, <1>6, <1>7, <1>8, <1>9

(* Both files cut a rate off at the scale, and alike.                      *)
LEMMA RatesAre ==
  ASSUME NEW n \in Nat, NEW d \in Nat, d >= 1, NEW scale \in Nat
  PROVE  /\ Truncates(ratioToDecimalString(n, d, scale), n, d, scale)
         /\ ratioDecimal(n, d, scale) = ratioToDecimalString(n, d, scale)
<1> DEFINE p == Pow(scale)
           m == n * p
           units == m \div d
           r == formatDecimal(units, scale)
<1>1. p \in Nat /\ p >= 1 /\ m \in Nat
  <2>1. p \in Nat /\ p >= 1
    BY Powers
  <2> HIDE DEF p
  <2> QED BY <2>1, Arithmetic
<1> HIDE DEF m
<1>2. units \in Nat /\ m % d \in 0 .. d - 1 /\ m = d * units + (m % d)
  BY <1>1, DivIs
<1> HIDE DEF units
<1>3. WrittenAs(r, units, scale)
  BY <1>2, FormatIs
<1>4. ratioToDecimalString(n, d, scale) = r
  BY DEF ratioToDecimalString, units, m, p
<1> HIDE DEF r
<1>5. Amount(r) /\ r.neg = FALSE /\ Len(r.fraction) = scale /\ scale \in Nat
  BY <1>3, WrittenIsAmount
<1>6. Truncates(r, n, d, scale)
  <2>1. decimalUnits(r, scale) = Units(r, scale)
    BY <1>5, UnitsAre
  <2>2. Units(r, scale) = units
    BY <1>3, ExactUnits
  <2>3. Num(r.whole \o PadEnd(r.fraction, scale)) = units
    BY <2>1, <2>2 DEF decimalUnits
  <2>4. units * d <= m /\ m < (units + 1) * d
    <3>1. units * d = d * units /\ (units + 1) * d = d * units + d /\ d * units \in Nat
      BY <1>2
    <3> QED BY <1>1, <1>2, <3>1
  <2> QED BY <2>3, <2>4 DEF Truncates, m, p
<1>7. ratioDecimal(n, d, scale) = r
  <2> DEFINE w == Digits(units \div p)
             f == IF scale = 0 THEN <<>> ELSE PadStart(Digits(units % p), scale)
             e == Dec(FALSE, w, f)
  <2>1. ratioDecimal(n, d, scale) = e
    <3>1. ratioDecimal(n, d, scale) = IF d <= 0 THEN Dec(FALSE, <<0>>, <<>>) ELSE e
      BY DEF ratioDecimal, units, m, p
    <3>2. ~(d <= 0)
      OBVIOUS
    <3> HIDE DEF e
    <3> QED BY <3>1, <3>2
  <2>2. units \div p \in Nat /\ units % p \in Nat /\ units % p < p /\ units = p * (units \div p) + (units % p)
    <3>1. units \div p \in Nat /\ units % p \in 0 .. p - 1 /\ units = p * (units \div p) + (units % p)
      BY <1>1, <1>2, DivIs
    <3> DEFINE x == units % p
    <3>2. x \in 0 .. p - 1
      BY <3>1
    <3> HIDE DEF x
    <3>3. x \in Nat /\ x < p
      BY <1>1, <3>2
    <3> QED BY <3>1, <3>3 DEF x
  <2>3. Clean(w) /\ Num(w) = units \div p
    BY <2>2, DigitsAre
  <2>4. f \in Figures /\ Len(f) = scale /\ Num(f) = units % p
    <3>1. CASE scale = 0
      <4>1. <<>> \in Figures /\ Len(<<>>) = 0 /\ Num(<<>>) = 0
        BY NumOfNone DEF Figures
      <4>2. p = 1
        BY <3>1, Powers
      <4>3. units % p = 0
        BY <2>2, <4>2
      <4> QED BY <3>1, <4>1, <4>3
    <3>2. CASE scale # 0
      <4> DEFINE x == units % p
      <4>1. x \in Nat /\ x < Pow(scale) /\ scale >= 1
        BY <2>2, <3>2
      <4> HIDE DEF x
      <4>2. PadStart(Digits(x), scale) \in Figures /\ Len(PadStart(Digits(x), scale)) = scale
            /\ Num(PadStart(Digits(x), scale)) = x
        BY <4>1, PaddedDigits
      <4> QED BY <3>2, <4>2 DEF x
    <3> QED BY <3>1, <3>2
  <2> HIDE DEF w, f
  <2>5. e.whole = w /\ e.fraction = f /\ e = Dec(FALSE, e.whole, e.fraction)
    BY DEF Dec
  <2> HIDE DEF e
  <2>6. units = Num(w) * p + Num(f)
    <3> DEFINE q == units \div p
    <3>1. q \in Nat /\ units = p * q + Num(f) /\ Num(w) = q
      BY <2>2, <2>3, <2>4
    <3> HIDE DEF q
    <3>2. p * q = q * p
      BY <1>1, <3>1, Arithmetic
    <3> QED BY <3>1, <3>2
  <2>7. WrittenAs(e, units, scale)
    BY <2>3, <2>4, <2>5, <2>6 DEF WrittenAs, p
  <2>8. e = r
    BY <1>3, <2>7, WrittenIsOnly
  <2> QED BY <2>1, <2>8
<1> QED BY <1>4, <1>6, <1>7

(* A rate is compared with its threshold without dividing.                 *)
LEMMA ThresholdsHold ==
  ASSUME NEW n \in Nat, NEW d \in Nat, d >= 1, NEW t, Amount(t), t.neg = FALSE, Len(t.fraction) <= SumScale
  PROVE  belowRateThreshold(n, d, t) <=> n * Pow(SumScale) < Value(t) * d
<1> DEFINE l == Len(t.fraction)
           u == Units(t, l)
           c == SumScale - l
           p == Pow(l)
           r == Pow(c)
<1>1. l \in Nat /\ SumScale \in Nat /\ c \in Nat /\ SumScale = l + c /\ l = Len(t.fraction) /\ l <= SumScale
  BY AmountsAre, ScalesAre
<1>2. belowRateThreshold(n, d, t) <=> n * p < Num(t.whole \o t.fraction) * d
  BY DEF belowRateThreshold
<1>3. Num(t.whole \o t.fraction) = u /\ u \in Nat
  <2>1. l <= l
    BY <1>1
  <2> QED BY <1>1, <2>1, UnitsAre
<1>4. Value(t) = Units(t, SumScale)
  BY ValueIs
<1> HIDE DEF l
<1>5. Units(t, SumScale) = u * r /\ r \in Nat /\ r >= 1
  <2>1. Units(t, SumScale) = Units(t, l) * Pow(SumScale - l)
    BY <1>1, Rescaled
  <2>2. r \in Nat /\ r >= 1
    <3> HIDE DEF c
    <3> QED BY <1>1, Powers
  <2> QED BY <2>1, <2>2
<1> HIDE DEF c, u
<1>6. Pow(SumScale) = p * r /\ p \in Nat
  <2>1. Pow(SumScale) = Pow(l) * Pow(c)
    BY <1>1, PowOfSum
  <2>2. Pow(l) \in Nat
    BY <1>1, Powers
  <2> QED BY <2>1, <2>2 DEF p, r
<1> HIDE DEF p, r
<1>7. n * p \in Nat /\ u * d \in Nat
  BY <1>3, <1>6, Arithmetic
<1>8. n * p < u * d <=> n * p * r < u * d * r
  <2> DEFINE x == n * p
             y == u * d
  <2>1. x \in Nat /\ y \in Nat
    BY <1>7
  <2> HIDE DEF x, y
  <2>2. x < y <=> x * r < y * r
    BY <1>5, <2>1, ScaledSign
  <2> QED BY <2>2 DEF x, y
<1>9. n * p * r = n * (p * r)
  BY <1>5, <1>6, Arithmetic
<1>10. u * d * r = u * r * d
  <2>1. \A x, y, z \in Nat : x * y * z = x * z * y
    OBVIOUS
  <2> QED BY <1>3, <1>5, <2>1
<1> QED BY <1>2, <1>3, <1>4, <1>5, <1>6, <1>8, <1>9, <1>10

(* analytics.ts reads an amount on its scale.                              *)
LEMMA ScaledIs ==
  ASSUME NEW d, Amount(d), Len(d.fraction) <= SumScale
  PROVE  decimalStringToScaled(d) = Value(d) /\ Value(d) \in Int
<1>1. Units(d, SumScale) = Num(d.whole) * Pow(SumScale) + Num(PadEnd(d.fraction, SumScale))
  BY ScalesAre, UnitsAre
<1>2. Units(d, SumScale) \in Nat /\ Value(d) = IF d.neg THEN -Units(d, SumScale) ELSE Units(d, SumScale)
  BY ValueIs
<1>3. decimalStringToScaled(d) = IF d.neg THEN -Units(d, SumScale) ELSE Units(d, SumScale)
  BY <1>1 DEF decimalStringToScaled
<1> QED BY <1>2, <1>3

(* Integers add up to one.                                                 *)
LEMMA SumIsInteger ==
  ASSUME NEW S, IsFiniteSet(S), NEW f, \A x \in S : f[x] \in Int
  PROVE  SumFunctionOnSet(f, S) \in Int
<1> DEFINE F == {T \in SUBSET S : SumFunctionOnSet(f, T) \notin Int}
<1> SUFFICES ASSUME F # {} PROVE FALSE
  BY DEF F
<1>1. PICK m \in F : \A s \in F : s \subseteq m => s = m
  <2>1. F \in SUBSET (SUBSET S)
    OBVIOUS
  <2> HIDE DEF F
  <2> QED BY <2>1, SmallestSet
<1>2. m \in SUBSET S /\ SumFunctionOnSet(f, m) \notin Int
  BY <1>1
<1>3. IsFiniteSet(m)
  BY <1>2, FS_Subset
<1> DEFINE x == FirstOf(m)
           r == m \ {x}
<1>4. SumFunctionOnSet(f, m) = IF m = {} THEN 0 ELSE f[x] + SumFunctionOnSet(f, r)
  BY <1>3, SumOfFirst
<1>5. m # {}
  BY <1>2, <1>4
<1>6. x \in m
  BY <1>5, FirstIsIn
<1> HIDE DEF x
<1>7. r \notin F /\ r \in SUBSET S
  <2>1. r \subseteq m /\ r # m
    BY <1>6
  <2> HIDE DEF F
  <2> QED BY <1>1, <1>2, <2>1
<1>8. SumFunctionOnSet(f, r) \in Int
  BY <1>7
<1>9. f[x] \in Int
  BY <1>2, <1>6
<1> HIDE DEF F, r
<1> QED BY <1>2, <1>4, <1>5, <1>8, <1>9

(* Stripping trailing zeros is done once and keeps the number on its       *)
(* scale.                                                                  *)
LEMMA TrailingIs ==
  ASSUME NEW s \in Figures
  PROVE  LET t == StripTrailingZeros(s)
         IN /\ t \in Figures /\ Len(t) <= Len(s) /\ StripTrailingZeros(t) = t
            /\ Num(s) = Num(t) * Pow(Len(s) - Len(t))
<1> DEFINE nonzero == {i \in DOMAIN s : s[i] # 0}
           n == IF \A i \in DOMAIN s : s[i] = 0 THEN 0 ELSE Max(nonzero)
           t == SubSeq(s, 1, n)
           u == SubSeq(s, n + 1, Len(s))
<1>1. StripTrailingZeros(s) = t
  BY DEF StripTrailingZeros, Keep
<1>2. Len(s) \in Nat /\ DOMAIN s = 1 .. Len(s) /\ \A k \in 1 .. Len(s) : s[k] \in Nat
  BY FiguresAre
<1>3. /\ n \in 0 .. Len(s) /\ (n # 0 => s[n] # 0)
      /\ \A k \in 1 .. Len(s) : k > n => s[k] = 0
  <2>1. CASE \A i \in DOMAIN s : s[i] = 0
    <3>1. n = 0
      BY <2>1
    <3> HIDE DEF n
    <3> QED BY <1>2, <2>1, <3>1
  <2>2. CASE ~\A i \in DOMAIN s : s[i] = 0
    <3>1. nonzero \in SUBSET (0 .. Len(s)) /\ nonzero # {} /\ n = Max(nonzero)
      BY <1>2, <2>2
    <3> HIDE DEF nonzero, n
    <3>2. n \in nonzero /\ \A k \in nonzero : k <= n
      BY <1>2, <3>1, GreatestOfSome
    <3>3. n \in 1 .. Len(s) /\ s[n] # 0
      BY <1>2, <3>2 DEF nonzero
    <3>4. ASSUME NEW k \in 1 .. Len(s), k > n PROVE s[k] = 0
      <4>1. k \notin nonzero
        BY <1>2, <3>2, <3>3, <3>4
      <4> QED BY <1>2, <4>1 DEF nonzero
    <3> QED BY <1>2, <3>3, <3>4
  <2> QED BY <2>1, <2>2
<1> HIDE DEF n
<1>4. /\ t \in Figures /\ Len(t) = n /\ \A k \in 1 .. n : t[k] = s[k]
      /\ u \in Figures /\ Len(u) = Len(s) - n /\ \A k \in 1 .. Len(s) - n : u[k] = s[n + k]
      /\ s = t \o u
  BY <1>3, CutInTwo
<1> HIDE DEF t, u
<1>5. Num(u) = 0
  <2>1. ASSUME NEW k \in 1 .. Len(u) PROVE u[k] = 0
    <3> DEFINE j == n + k
    <3>1. k \in 1 .. Len(s) - n /\ j \in 1 .. Len(s) /\ j > n
      BY <1>2, <1>3, <1>4
    <3>2. u[k] = s[j]
      BY <1>4, <3>1
    <3> HIDE DEF j
    <3> QED BY <1>3, <3>1, <3>2
  <2> QED BY <1>4, <2>1, NumOfZeros
<1>6. Num(s) = Num(t) * Pow(Len(u)) + Num(u) /\ Num(t) \in Nat /\ Len(u) \in Nat
  BY <1>4, NumOfBoth, FiguresAre
<1>7. Pow(Len(u)) \in Nat
  BY <1>6, Powers
<1>8. Num(s) = Num(t) * Pow(Len(u))
  <2>1. Num(t) * Pow(Len(u)) \in Nat
    BY <1>6, <1>7, Arithmetic
  <2> QED BY <1>5, <1>6, <2>1
<1>9. StripTrailingZeros(t) = t
  <2>1. DOMAIN t = 1 .. n /\ SubSeq(t, 1, n) = t
    <3>1. t \in Seq(0 .. Radix - 1)
      BY <1>4 DEF Figures
    <3> QED BY <1>3, <1>4, <3>1
  <2>2. CASE n = 0
    <3>1. \A i \in DOMAIN t : t[i] = 0
      BY <2>1, <2>2
    <3> QED BY <2>1, <2>2, <3>1 DEF StripTrailingZeros, Keep
  <2>3. CASE n # 0
    <3> DEFINE left == {i \in DOMAIN t : t[i] # 0}
    <3>1. n \in 1 .. n /\ t[n] # 0 /\ n \in Nat
      BY <1>3, <1>4, <2>3
    <3>2. left \in SUBSET (0 .. n) /\ left # {} /\ n \in left
      BY <2>1, <3>1
    <3>3. ~\A i \in DOMAIN t : t[i] = 0
      BY <2>1, <3>1
    <3>4. StripTrailingZeros(t) = SubSeq(t, 1, Max(left))
      BY <3>3 DEF StripTrailingZeros, Keep
    <3> HIDE DEF left
    <3>5. Max(left) \in left /\ n <= Max(left)
      BY <3>1, <3>2, GreatestOfSome
    <3>6. Max(left) = n
      <4> DEFINE x == Max(left)
      <4>1. x \in 0 .. n /\ n <= x
        BY <3>2, <3>5
      <4> HIDE DEF x
      <4>2. x = n
        BY <3>1, <4>1
      <4> QED BY <4>2 DEF x
    <3> QED BY <2>1, <3>4, <3>6
  <2> QED BY <2>2, <2>3
<1>10. Len(t) <= Len(s)
  BY <1>2, <1>3, <1>4
<1>11. Pow(Len(s) - Len(t)) = Pow(Len(u))
  BY <1>4
<1> QED BY <1>1, <1>4, <1>8, <1>9, <1>10, <1>11

(* Every scaled integer is written back in the one form, never as "-0".    *)
LEMMA SumsAreWritten ==
  ASSUME NEW n \in Int
  PROVE  LET r == scaledToDecimalString(n)
         IN /\ Value(r) = n /\ (r.neg => n # 0)
            /\ r.whole = stripLeadingZeros(r.whole) /\ r.fraction = StripTrailingZeros(r.fraction)
<1> DEFINE m == Magnitude(n)
           p == Pow(SumScale)
           q == m \div p
           x == m % p
           w == Digits(q)
           s == PadStart(Digits(x), SumScale)
           f == StripTrailingZeros(s)
           r == Dec(n < 0, w, f)
<1>1. SumScale \in Nat /\ p \in Nat /\ p >= 1
  BY ScalesAre, Powers
<1>2. m \in Nat /\ (n < 0 => n = -m /\ n # 0) /\ (~(n < 0) => n = m)
  BY DEF Magnitude
<1>3. scaledToDecimalString(n) = r
  BY DEF scaledToDecimalString
<1> HIDE DEF m
<1>4. q \in Nat /\ x \in Nat /\ x < p /\ m = p * q + x
  <2>1. q \in Nat /\ x \in 0 .. p - 1 /\ m = p * q + x
    BY <1>1, <1>2, DivIs
  <2> HIDE DEF q, x, p
  <2> QED BY <1>1, <2>1
<1> HIDE DEF q, x
<1>5. Clean(w) /\ Num(w) = q /\ w \in Figures
  BY <1>4, DigitsAre, CleanIsLong
<1>6. s \in Figures /\ Num(s) = x /\ Len(s) \in Nat /\ (SumScale >= 1 => Len(s) = SumScale)
  <2>1. Clean(Digits(x)) /\ Num(Digits(x)) = x /\ Digits(x) \in Figures
    BY <1>4, DigitsAre, CleanIsLong
  <2>2. s \in Figures /\ Num(s) = x
    BY <1>1, <2>1, PadsAre
  <2>3. SumScale >= 1 => Len(s) = SumScale
    BY <1>1, <1>4, PaddedDigits
  <2>4. Len(s) \in Nat
    BY <2>2, FiguresAre
  <2> QED BY <2>2, <2>3, <2>4
<1> HIDE DEF s
<1>7. f \in Figures /\ Len(f) <= Len(s) /\ StripTrailingZeros(f) = f /\ Num(s) = Num(f) * Pow(Len(s) - Len(f))
      /\ Num(f) \in Nat /\ Len(f) \in Nat
  <2>1. f \in Figures /\ Len(f) <= Len(s) /\ StripTrailingZeros(f) = f /\ Num(s) = Num(f) * Pow(Len(s) - Len(f))
    BY <1>6, TrailingIs
  <2> QED BY <2>1, FiguresAre
<1> HIDE DEF w, f
<1>8. r.neg = (n < 0) /\ r.whole = w /\ r.fraction = f
  BY DEF Dec
<1>9. Num(f) * Pow(SumScale - Len(f)) = x
  <2>1. CASE SumScale >= 1
    BY <1>6, <1>7, <2>1
  <2>2. CASE SumScale = 0
    <3>1. p = 1
      BY <2>2, Powers
    <3>2. x = 0
      BY <1>4, <3>1
    <3> DEFINE k == Len(s) - Len(f)
    <3>3. k \in Nat /\ Num(f) * Pow(k) = 0
      <4>1. k \in Nat
        BY <1>6, <1>7
      <4>2. Num(s) = 0
        BY <1>6, <3>2
      <4>3. Num(f) * Pow(k) = Num(s)
        BY <1>7
      <4> QED BY <4>1, <4>2, <4>3
    <3> HIDE DEF k
    <3>4. Pow(k) \in Nat /\ Pow(k) >= 1
      BY <3>3, Powers
    <3>5. \A a, b \in Nat : b >= 1 /\ a * b = 0 => a = 0
      OBVIOUS
    <3>6. Num(f) = 0
      BY <1>7, <3>3, <3>4, <3>5
    <3>7. \A i \in 1 .. Len(f) : f[i] = 0
      BY <1>7, <3>6, NumOfZeros
    <3>8. f = <<>>
      <4>1. DOMAIN f = 1 .. Len(f)
        BY <1>7, FiguresAre
      <4>2. f = SubSeq(f, 1, 0)
        <5>1. StripTrailingZeros(f) = SubSeq(f, 1, 0)
          BY <3>7, <4>1 DEF StripTrailingZeros, Keep
        <5> QED BY <1>7, <5>1
      <4>3. Len(SubSeq(f, 1, 0)) = 0
        BY <1>7 DEF Figures
      <4> QED BY <1>7, <4>2, <4>3, EmptySeq DEF Figures
    <3>9. SumScale - Len(f) = 0
      <4>1. Len(f) = 0
        BY <3>8
      <4> QED BY <2>2, <4>1
    <3>10. Pow(SumScale - Len(f)) = 1
      BY <3>9, Powers
    <3> QED BY <3>2, <3>6, <3>10
  <2> QED BY <1>1, <2>1, <2>2
<1>10. Value(r) = n
  <2>1. Num(w) * p + Num(f) * Pow(SumScale - Len(f)) = m
    <3>1. q * p = p * q
      BY <1>1, <1>4, Arithmetic
    <3> QED BY <1>4, <1>5, <1>9, <3>1
  <2>2. Value(r) = IF r.neg THEN -m ELSE m
    BY <1>8, <2>1 DEF Value
  <2> HIDE DEF r
  <2> QED BY <1>2, <1>8, <2>2
<1>11. stripLeadingZeros(w) = w
  BY <1>5, StripIs
<1> HIDE DEF r
<1>12. r.neg => n # 0
  BY <1>2, <1>8
<1> QED BY <1>3, <1>7, <1>8, <1>10, <1>11, <1>12

(* What the operands may be.                                               *)
LEMMA WrittenAre ==
  ASSUME NEW n \in Nat, NEW s \in Written(n)
  PROVE  s \in Figures /\ Len(s) \in Nat /\ Len(s) <= n
<1>1. PICK k \in 0 .. n : s \in [1 .. k -> 0 .. Radix - 1]
  BY DEF Written
<1> DEFINE D == 0 .. Radix - 1
<1>2. s \in [1 .. k -> D] /\ k \in Nat
  BY <1>1
<1> HIDE DEF D
<1>3. s \in Seq(D) /\ Len(s) = k
  BY <1>2
<1> QED BY <1>1, <1>2, <1>3 DEF Figures, D

(* The strings that DECIMAL_PATTERN admits.                                *)
LEMMA CanonicalAre ==
  ASSUME NEW d \in Canonical
  PROVE  Amount(d) /\ d.neg = FALSE /\ Clean(d.whole) /\ Len(d.fraction) <= FractionDigits
<1>0. PICK w \in {v \in Written(WholeDigits) : v = <<0>> \/ (v # <<>> /\ v[1] # 0)}, f \in Written(FractionDigits) : d = Dec(FALSE, w, f)
  BY DEF Canonical, Dec
<1>1. w \in Written(WholeDigits) /\ d = Dec(FALSE, w, f) /\ (w = <<0>> \/ (w # <<>> /\ w[1] # 0)) /\ f \in Written(FractionDigits)
  BY <1>0
<1>2. WholeDigits \in Nat /\ FractionDigits \in Nat
  BY DecimalsAssumption DEF DecimalsAssumption
<1>3. w \in Figures /\ f \in Figures /\ Len(f) <= FractionDigits
  <2>1. w \in Figures
    BY <1>1, <1>2, WrittenAre
  <2>2. f \in Figures /\ Len(f) <= FractionDigits
    BY <1>1, <1>2, WrittenAre
  <2> QED BY <2>1, <2>2
<1>4. d.neg = FALSE /\ d.whole = w /\ d.fraction = f
  BY <1>1 DEF Dec
<1>5. d = Dec(d.neg, d.whole, d.fraction)
  BY <1>1, <1>4
<1> QED BY <1>1, <1>3, <1>4, <1>5 DEF Amount, Clean

(* The strings that DECIMAL_AMOUNT admits.                                 *)
LEMMA SignedAre ==
  ASSUME NEW d \in Signed
  PROVE  Amount(d) /\ Len(d.fraction) <= SumScale
<1>1. CASE d \in Canonical
  <2>1. Amount(d) /\ d.neg = FALSE /\ Clean(d.whole) /\ Len(d.fraction) <= FractionDigits
    BY <1>1, CanonicalAre
  <2> QED BY <2>1, ScalesAre, AmountsAre
<1>2. CASE d \notin Canonical
  <2>1. PICK e \in Canonical : d = [e EXCEPT !.neg = TRUE]
    BY <1>2 DEF Signed
  <2>2. Amount(e) /\ e.neg = FALSE /\ Clean(e.whole) /\ Len(e.fraction) <= FractionDigits
    BY CanonicalAre
  <2>3. e = Dec(e.neg, e.whole, e.fraction) /\ e.whole \in Figures /\ e.fraction \in Figures
    BY <2>2 DEF Amount
  <2>4. d = Dec(TRUE, e.whole, e.fraction)
    BY <2>1, <2>3 DEF Dec
  <2>5. d.neg = TRUE /\ d.whole = e.whole /\ d.fraction = e.fraction
    BY <2>4 DEF Dec
  <2>6. Len(e.fraction) \in Nat
    BY <2>2, AmountsAre
  <2>7. d = Dec(d.neg, d.whole, d.fraction)
    BY <2>4, <2>5
  <2>8. Amount(d)
    BY <2>3, <2>5, <2>7 DEF Amount
  <2> QED BY <2>2, <2>5, <2>6, <2>8, ScalesAre
<1> QED BY <1>1, <1>2

(* The strings that parseDecimalString admits.                             *)
LEMMA LooseAre ==
  ASSUME NEW d \in Loose
  PROVE  Amount(d) /\ Len(d.fraction) <= SumScale
<1>1. PICK n \in BOOLEAN, w \in Written(WholeDigits), f \in Written(FractionDigits) : d = Dec(n, w, f)
  BY DEF Loose
<1>2. WholeDigits \in Nat /\ FractionDigits \in Nat
  BY DecimalsAssumption DEF DecimalsAssumption
<1>3. w \in Figures /\ f \in Figures /\ Len(f) <= FractionDigits /\ Len(f) \in Nat
  BY <1>2, WrittenAre
<1>4. d.neg = n /\ d.whole = w /\ d.fraction = f
  BY <1>1 DEF Dec
<1>5. d = Dec(d.neg, d.whole, d.fraction)
  BY <1>1, <1>4
<1>6. Amount(d)
  BY <1>1, <1>3, <1>4, <1>5 DEF Amount
<1> QED BY <1>3, <1>4, <1>6, ScalesAre

(* The spend so far, by the program and by the database, and what is       *)
(* computed at the moment.                                                 *)
SpendInv ==
  /\ Amount(spentTs) /\ spentTs.neg = FALSE /\ Clean(spentTs.whole) /\ Len(spentTs.fraction) <= FractionDigits
  /\ Value(spentTs) = exact
  /\ spentSql \in {spentTs, Refused}
OperandsInv ==
  \/ operands = Idle
  \/ \E amounts \in Seq(Signed) : operands = [op |-> "sum", amounts |-> amounts]
  \/ \E a, b \in Loose : operands = [op |-> "compare", a |-> a, b |-> b]
  \/ \E n, d \in 0 .. MaxRate, t \in Canonical : operands = [op |-> "rate", n |-> n, d |-> d, threshold |-> t]
DecimalsInv == SpendInv /\ OperandsInv

(* A key has spent nothing.                                                *)
LEMMA DecimalsBegin == DecimalsInit => DecimalsInv
<1> SUFFICES ASSUME DecimalsInit PROVE DecimalsInv
  OBVIOUS
<1> DEFINE zero == Dec(FALSE, <<0>>, <<>>)
<1>1. <<0>> \in Figures /\ Num(<<0>>) = 0 /\ Clean(<<0>>) /\ <<>> \in Figures /\ Len(<<>>) = 0 /\ Num(<<>>) = 0
  <2>1. 0 \in 0 .. Radix - 1
    BY RadixIs
  <2> QED BY <2>1, NumOfOne, NumOfNone DEF Clean, Figures
<1>2. zero.neg = FALSE /\ zero.whole = <<0>> /\ zero.fraction = <<>>
  BY DEF Dec
<1>3. zero = Dec(zero.neg, zero.whole, zero.fraction)
  BY <1>2
<1> HIDE DEF zero
<1>4. Amount(zero) /\ Clean(zero.whole) /\ Len(zero.fraction) <= FractionDigits
  <2>1. Amount(zero)
    BY <1>1, <1>2, <1>3 DEF Amount
  <2>2. Len(zero.fraction) = 0
    BY <1>1, <1>2
  <2>3. FractionDigits \in Nat
    BY DecimalsAssumption DEF DecimalsAssumption
  <2> QED BY <1>1, <1>2, <2>1, <2>2, <2>3
<1>5. Value(zero) = 0
  <2>1. Pow(SumScale) \in Nat /\ SumScale - 0 = SumScale
    BY ScalesAre, Powers
  <2> QED BY <1>1, <1>2, <2>1 DEF Value
<1>6. exact = 0 /\ spentTs = zero /\ spentSql = zero /\ operands = Idle
  BY DEF DecimalsInit, zero
<1> QED BY <1>2, <1>4, <1>5, <1>6 DEF DecimalsInv, SpendInv, OperandsInv

(* A charge adds its cost exactly, in the program and in the database.     *)
LEMMA DecimalsStep == DecimalsInv /\ [DecimalsNext]_decimalVars => DecimalsInv'
<1> SUFFICES ASSUME DecimalsInv, [DecimalsNext]_decimalVars PROVE DecimalsInv'
  OBVIOUS
<1>1. ASSUME NEW cost \in Canonical, ChargeCost(cost) PROVE DecimalsInv'
  <2>1. /\ spentTs' = addDecimalStrings(spentTs, cost) /\ spentSql' = ChargedSpent(spentSql, cost)
        /\ exact' = exact + Value(cost) /\ operands' = operands /\ spentSql # Refused
    BY <1>1 DEF ChargeCost
  <2>2. /\ Amount(spentTs) /\ spentTs.neg = FALSE /\ Len(spentTs.fraction) <= FractionDigits
        /\ Value(spentTs) = exact /\ spentSql \in {spentTs, Refused}
    BY DEF DecimalsInv, SpendInv
  <2>3. Amount(cost) /\ cost.neg = FALSE /\ Clean(cost.whole) /\ Len(cost.fraction) <= FractionDigits
    BY CanonicalAre
  <2> DEFINE sum == addDecimalStrings(spentTs, cost)
  <2>4. /\ Amount(sum) /\ sum.neg = FALSE /\ Clean(sum.whole) /\ Len(sum.fraction) <= FractionDigits
        /\ Value(sum) = Value(spentTs) + Value(cost) /\ Value(spentTs) \in Nat /\ Value(cost) \in Nat
        /\ ChargedSpent(spentTs, cost) \in {sum, Refused}
    BY <2>2, <2>3, Added
  <2> HIDE DEF sum
  <2>5. spentTs' = sum /\ spentSql' \in {sum, Refused} /\ exact' = Value(sum)
    BY <2>1, <2>2, <2>4 DEF sum
  <2>6. SpendInv'
    BY <2>4, <2>5 DEF SpendInv
  <2>7. OperandsInv'
    BY <2>1 DEF DecimalsInv, OperandsInv
  <2> QED BY <2>6, <2>7 DEF DecimalsInv
<1>2. ASSUME NEW what, Compute(what),
             \/ \E amounts \in Seq(Signed) : what = [op |-> "sum", amounts |-> amounts]
             \/ \E a, b \in Loose : what = [op |-> "compare", a |-> a, b |-> b]
             \/ \E n, d \in 0 .. MaxRate, t \in Canonical :
                  what = [op |-> "rate", n |-> n, d |-> d, threshold |-> t]
      PROVE  DecimalsInv'
  <2>1. operands' = what /\ exact' = exact /\ spentTs' = spentTs /\ spentSql' = spentSql
    BY <1>2 DEF Compute
  <2>2. SpendInv'
    BY <2>1 DEF DecimalsInv, SpendInv
  <2>3. OperandsInv'
    BY <1>2, <2>1 DEF OperandsInv
  <2> QED BY <2>2, <2>3 DEF DecimalsInv
<1>3. ASSUME NEW amount \in Signed, SumSpans(amount) PROVE DecimalsInv'
  <2> DEFINE before == IF operands.op = "sum" THEN operands.amounts ELSE <<>>
  <2>1. Compute([op |-> "sum", amounts |-> Append(before, amount)])
    BY <1>3 DEF SumSpans
  <2>2. before \in Seq(Signed)
    <3>1. CASE operands.op = "sum"
      <4>1. \E amounts \in Seq(Signed) : operands = [op |-> "sum", amounts |-> amounts]
        BY <3>1 DEF DecimalsInv, OperandsInv, Idle
      <4> QED BY <3>1, <4>1
    <3>2. CASE operands.op # "sum"
      BY <3>2
    <3> QED BY <3>1, <3>2
  <2> HIDE DEF before
  <2>3. Append(before, amount) \in Seq(Signed)
    BY <2>2
  <2> QED BY <1>2, <2>1, <2>3
<1>4. ASSUME NEW a \in Loose, NEW b \in Loose, CompareThreshold(a, b) PROVE DecimalsInv'
  BY <1>2, <1>4 DEF CompareThreshold
<1>5. ASSUME NEW n \in 0 .. MaxRate, NEW d \in 0 .. MaxRate, NEW t \in Canonical, RateTools(n, d, t) PROVE DecimalsInv'
  BY <1>2, <1>5 DEF RateTools
<1>6. CASE UNCHANGED decimalVars
  BY <1>6 DEF decimalVars, DecimalsInv, SpendInv, OperandsInv
<1>7. CASE DecimalsNext
  BY <1>1, <1>3, <1>4, <1>5, <1>7 DEF DecimalsNext
<1> QED BY <1>6, <1>7

(* The sum of any sequence of costs.                                       *)
LEMMA SumsAreExact ==
  ASSUME NEW amounts \in Seq(Signed)
  PROVE  LET sum == SumOfAmounts(amounts)
         IN /\ Value(sum) = Total(amounts)
            /\ sum.neg => Value(sum) # 0
            /\ sum.whole = stripLeadingZeros(sum.whole) /\ sum.fraction = StripTrailingZeros(sum.fraction)
<1> DEFINE f == [i \in DOMAIN amounts |-> decimalStringToScaled(amounts[i])]
           g == [i \in DOMAIN amounts |-> Value(amounts[i])]
           total == SumFunction(g)
<1>1. ASSUME NEW i \in DOMAIN amounts
      PROVE  decimalStringToScaled(amounts[i]) = Value(amounts[i]) /\ Value(amounts[i]) \in Int
  <2>1. amounts[i] \in Signed
    BY <1>1
  <2>2. Amount(amounts[i]) /\ Len(amounts[i].fraction) <= SumScale
    BY <2>1, SignedAre
  <2> QED BY <2>2, ScaledIs
<1>2. f = g
  BY <1>1
<1>3. DOMAIN g = 1 .. Len(amounts) /\ Len(amounts) \in Nat /\ \A i \in DOMAIN g : g[i] \in Int
  BY <1>1
<1>4. SumOfAmounts(amounts) = scaledToDecimalString(total) /\ Total(amounts) = total
  BY <1>2 DEF SumOfAmounts, Total
<1> HIDE DEF g
<1>5. total \in Int
  <2>1. IsFiniteSet(DOMAIN g)
    BY <1>3, FS_Interval
  <2> QED BY <1>3, <2>1, SumIsInteger DEF SumFunction
<1> HIDE DEF total
<1> DEFINE r == scaledToDecimalString(total)
<1>6. /\ Value(r) = total /\ (r.neg => total # 0)
      /\ r.whole = stripLeadingZeros(r.whole) /\ r.fraction = StripTrailingZeros(r.fraction)
  BY <1>5, SumsAreWritten
<1> HIDE DEF r
<1>7. SumOfAmounts(amounts) = r
  BY <1>4 DEF r
<1> QED BY <1>4, <1>6, <1>7

(* So every result is exact.                                               *)
LEMMA DecimalsSuffice == DecimalsInv => DecimalsAreExact
<1> SUFFICES ASSUME DecimalsInv PROVE DecimalsAreExact
  OBVIOUS
<1>1. Value(spentTs) = exact /\ spentSql \in {spentTs, Refused} /\ spentTs.whole = stripLeadingZeros(spentTs.whole)
  <2>1. Clean(spentTs.whole) /\ spentTs.whole \in Figures
    BY DEF DecimalsInv, SpendInv, Clean
  <2>2. stripLeadingZeros(spentTs.whole) = spentTs.whole
    BY <2>1, StripIs
  <2> QED BY <2>2 DEF DecimalsInv, SpendInv
<1>2. ASSUME operands.op = "sum"
      PROVE  LET sum == SumOfAmounts(operands.amounts)
             IN /\ Value(sum) = Total(operands.amounts)
                /\ sum.neg => Value(sum) # 0
                /\ sum.whole = stripLeadingZeros(sum.whole) /\ sum.fraction = StripTrailingZeros(sum.fraction)
  <2>1. operands.amounts \in Seq(Signed)
    BY <1>2 DEF DecimalsInv, OperandsInv, Idle
  <2> QED BY <2>1, SumsAreExact
<1>3. ASSUME operands.op = "compare"
      PROVE  LET a == operands.a  b == operands.b
             IN /\ SameSign(compareDecimalStrings(a, b), Value(a) - Value(b))
                /\ {a, b} \subseteq Canonical => SameSign(compareUnits(a, b), Value(a) - Value(b))
  <2> DEFINE a == operands.a
             b == operands.b
  <2>1. a \in Loose /\ b \in Loose
    BY <1>3 DEF DecimalsInv, OperandsInv, Idle
  <2> HIDE DEF a, b
  <2>2. Amount(a) /\ Len(a.fraction) <= SumScale
    BY <2>1, LooseAre
  <2>3. Amount(b) /\ Len(b.fraction) <= SumScale
    BY <2>1, LooseAre
  <2>4. SameSign(compareDecimalStrings(a, b), Value(a) - Value(b))
    BY <2>2, <2>3, DecimalsCompare
  <2>5. ASSUME {a, b} \subseteq Canonical PROVE SameSign(compareUnits(a, b), Value(a) - Value(b))
    <3>1. a \in Canonical /\ b \in Canonical
      BY <2>5
    <3>2. a.neg = FALSE /\ b.neg = FALSE
      BY <3>1, CanonicalAre
    <3> QED BY <2>2, <2>3, <3>2, UnitsCompare
  <2> QED BY <2>4, <2>5 DEF a, b
<1>4. ASSUME operands.op = "rate", operands.d > 0
      PROVE  LET n == operands.n  d == operands.d  t == operands.threshold
             IN /\ Truncates(ratioToDecimalString(n, d, RateScale), n, d, RateScale)
                /\ ratioDecimal(n, d, RateScale) = ratioToDecimalString(n, d, RateScale)
                /\ belowRateThreshold(n, d, t) <=> n * Pow(SumScale) < Value(t) * d
  <2> DEFINE n == operands.n
             d == operands.d
             t == operands.threshold
  <2>1. n \in 0 .. MaxRate /\ d \in 0 .. MaxRate /\ t \in Canonical
    BY <1>4 DEF DecimalsInv, OperandsInv, Idle
  <2>2. n \in Nat /\ d \in Nat /\ d >= 1
    <3>1. MaxRate \in Nat
      BY DecimalsAssumption DEF DecimalsAssumption
    <3> QED BY <1>4, <2>1, <3>1
  <2> HIDE DEF n, d, t
  <2>3. Amount(t) /\ t.neg = FALSE /\ Clean(t.whole) /\ Len(t.fraction) <= FractionDigits
    BY <2>1, CanonicalAre
  <2>4. Len(t.fraction) <= SumScale
    BY <2>3, AmountsAre, ScalesAre
  <2>5. /\ Truncates(ratioToDecimalString(n, d, RateScale), n, d, RateScale)
        /\ ratioDecimal(n, d, RateScale) = ratioToDecimalString(n, d, RateScale)
    BY <2>2, ScalesAre, RatesAre
  <2>6. belowRateThreshold(n, d, t) <=> n * Pow(SumScale) < Value(t) * d
    BY <2>2, <2>3, <2>4, ThresholdsHold
  <2> QED BY <2>5, <2>6 DEF n, d, t
<1> QED BY <1>1, <1>2, <1>3, <1>4 DEF DecimalsAreExact
================================================================================
