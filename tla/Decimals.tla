------------------------------- MODULE Decimals --------------------------------
(***************************************************************************)
(* Money and rates are decimal strings, and four files compute with them:  *)
(* gateway.ts adds a cost to the spend of a key, once in TypeScript and    *)
(* once more in SQL; analytics.ts sums the costs of spans; alerts.ts       *)
(* compares a metric with a threshold; evals.ts compares a rate.  A string *)
(* is modelled by its sign and its digits before and after the point, in   *)
(* base Radix.                                                             *)
(***************************************************************************)
EXTENDS Integers, Sequences, FiniteSets, FiniteSetsExt, SequencesExt

CONSTANTS
  Radix,         \* 10
  WholeDigits, FractionDigits,  \* bounds of the operands
  WidestSql,     \* the 18 digits that the integers of SQLite hold for certain
  SumScale,      \* the 9 fraction digits of analytics.ts
  RateScale,     \* fraction digits of a rate
  MaxRate,       \* bound of the operands of a rate
  MaxCharges, MaxTerms  \* bounds: charges of a key, terms of a sum

ASSUME DecimalsAssumption ==
  /\ Radix \in Nat \ {0, 1} /\ {WholeDigits, FractionDigits, SumScale, RateScale, MaxRate} \subseteq Nat
  /\ FractionDigits <= SumScale

VARIABLES
  charges,   \* the number of costs charged to a key
  exact,     \* history: their sum, in units of the finest scale
  spentTs,   \* their sum by addDecimalStrings of gateway.ts
  spentSql,  \* their sum by UPDATE_BUDGET_SQL, or Refused
  operands   \* what is summed, compared or rated at the moment

decimalVars == <<charges, exact, spentTs, spentSql, operands>>

-------------------------------------------------------------------------------
(* Digits: a sequence, most significant first.                             *)
Pow(n) == LET power[k \in 0 .. n] == IF k = 0 THEN 1 ELSE Radix * power[k - 1] IN power[n]
Zeros(n) == [i \in 1 .. n |-> 0]
Num(s) ==
  LET read[k \in 0 .. Len(s)] == IF k = 0 THEN 0 ELSE Radix * read[k - 1] + s[k] IN read[Len(s)]
Digits(n) ==
  LET width == CHOOSE w \in 1 .. n + 1 : n < Pow(w) /\ (w > 1 => Pow(w - 1) <= n)
  IN [i \in 1 .. width |-> (n \div Pow(width - i)) % Radix]
PadStart(s, width) == IF Len(s) >= width THEN s ELSE Zeros(width - Len(s)) \o s
PadEnd(s, width) == IF Len(s) >= width THEN s ELSE s \o Zeros(width - Len(s))
Keep(s, width) == SubSeq(s, 1, width)
stripLeadingZeros(s) ==
  IF \A i \in DOMAIN s : s[i] = 0 THEN <<0>>
  ELSE SubSeq(s, Min({i \in DOMAIN s : s[i] # 0}), Len(s))
StripTrailingZeros(s) ==
  Keep(s, IF \A i \in DOMAIN s : s[i] = 0 THEN 0 ELSE Max({i \in DOMAIN s : s[i] # 0}))

Dec(neg, whole, fraction) == [neg |-> neg, whole |-> whole, fraction |-> fraction]
Refused == Dec(FALSE, <<>>, <<>>)  \* no string at all
Written(maxWhole) == UNION {[1 .. n -> 0 .. Radix - 1] : n \in 0 .. maxWhole}
(* What DECIMAL_PATTERN of gateway.ts and DECIMAL_AMOUNT of analytics.ts   *)
(* admit, and what parseDecimalString of alerts.ts does.                   *)
Canonical == {Dec(FALSE, w, f) : w \in {v \in Written(WholeDigits) : v = <<0>> \/ (v # <<>> /\ v[1] # 0)},
                                 f \in Written(FractionDigits)}
Signed == Canonical \cup {[d EXCEPT !.neg = TRUE] : d \in Canonical}
Loose == {Dec(n, w, f) : n \in BOOLEAN, w \in Written(WholeDigits), f \in Written(FractionDigits)}
           \ {Dec(n, <<>>, <<>>) : n \in BOOLEAN}

-------------------------------------------------------------------------------
(* gateway.ts                                                              *)
MaxOf(a, b) == IF a >= b THEN a ELSE b
decimalUnits(d, scale) == Num(d.whole \o PadEnd(d.fraction, scale))
formatDecimal(units, scale) ==
  LET digits == PadStart(Digits(units), scale + 1)
  IN Dec(FALSE, Keep(digits, Len(digits) - scale), SubSeq(digits, Len(digits) - scale + 1, Len(digits)))
addDecimalStrings(a, b) ==
  LET scale == MaxOf(Len(a.fraction), Len(b.fraction))
  IN formatDecimal(decimalUnits(a, scale) + decimalUnits(b, scale), scale)
compareUnits(a, b) ==
  LET scale == MaxOf(Len(a.fraction), Len(b.fraction))
  IN decimalUnits(a, scale) - decimalUnits(b, scale)

(* CHARGED_SPENT_SQL: integers of the database, refused when they may be   *)
(* too wide; a padded fraction is what follows the 1 of 10^scale + rest.   *)
PaddedFraction(total, scale) == Tail(Digits(Pow(scale) + (total % Pow(scale))))
ChargedSpent(stored, cost) ==
  LET scale == MaxOf(Len(stored.fraction), Len(cost.fraction))
      total == Num(stored.whole \o stored.fraction) * Pow(scale - Len(stored.fraction))
                 + Num(cost.whole \o cost.fraction) * Pow(scale - Len(cost.fraction))
  IN IF Len(stored.whole) + scale > WidestSql \/ Len(cost.whole) + scale > WidestSql THEN Refused
     ELSE IF scale = 0 THEN Dec(FALSE, Digits(total), <<>>)
     ELSE Dec(FALSE, Digits(total \div Pow(scale)), PaddedFraction(total, scale))

(* analytics.ts: a fixed point of SumScale digits; no trailing zeros, and  *)
(* never "-0".                                                             *)
decimalStringToScaled(d) ==
  LET magnitude == Num(d.whole) * Pow(SumScale) + Num(PadEnd(d.fraction, SumScale))
  IN IF d.neg THEN -magnitude ELSE magnitude
Magnitude(n) == IF n < 0 THEN -n ELSE n
scaledToDecimalString(scaled) ==
  LET magnitude == Magnitude(scaled)
  IN Dec(scaled < 0, Digits(magnitude \div Pow(SumScale)),
         StripTrailingZeros(PadStart(Digits(magnitude % Pow(SumScale)), SumScale)))
SumOfAmounts(amounts) ==
  scaledToDecimalString(SumFunction([i \in DOMAIN amounts |-> decimalStringToScaled(amounts[i])]))

(* alerts.ts: digits are compared from left to right.                      *)
LexOrder(s, t) ==
  LET differ == {i \in DOMAIN s : s[i] # t[i]}
  IN IF differ = {} THEN 0 ELSE s[Min(differ)] - t[Min(differ)]
compareMagnitude(a, b) ==
  LET wholeA == stripLeadingZeros(a.whole)  wholeB == stripLeadingZeros(b.whole)
      width == MaxOf(Len(a.fraction), Len(b.fraction))
  IN IF Len(wholeA) # Len(wholeB) THEN Len(wholeA) - Len(wholeB)
     ELSE IF wholeA # wholeB THEN LexOrder(wholeA, wholeB)
     ELSE LexOrder(PadEnd(a.fraction, width), PadEnd(b.fraction, width))
isZero(d) == stripLeadingZeros(d.whole) = <<0>> /\ Num(d.fraction) = 0
compareDecimalStrings(a, b) ==
  LET negA == a.neg /\ ~isZero(a)  negB == b.neg /\ ~isZero(b)
  IN IF negA # negB THEN IF negA THEN -1 ELSE 1
     ELSE IF negA THEN -compareMagnitude(a, b) ELSE compareMagnitude(a, b)
ratioToDecimalString(n, d, scale) ==
  formatDecimal(IF d = 0 THEN 0 ELSE (n * Pow(scale)) \div d, scale)

(* evals.ts                                                                *)
ratioDecimal(n, d, scale) ==
  LET scaled == (n * Pow(scale)) \div d
  IN IF d <= 0 THEN Dec(FALSE, <<0>>, <<>>)
     ELSE Dec(FALSE, Digits(scaled \div Pow(scale)),
              IF scale = 0 THEN <<>> ELSE PadStart(Digits(scaled % Pow(scale)), scale))
belowRateThreshold(failed, total, threshold) ==
  total > 0 => failed * Pow(Len(threshold.fraction)) < Num(threshold.whole \o threshold.fraction) * total

-------------------------------------------------------------------------------
(* The value of a string, in units of the finest scale.                    *)
Value(d) ==
  LET magnitude == Num(d.whole) * Pow(SumScale) + Num(d.fraction) * Pow(SumScale - Len(d.fraction))
  IN IF d.neg THEN -magnitude ELSE magnitude

Idle == [op |-> "none"]
DecimalsInit ==
  charges = 0 /\ exact = 0 /\ spentTs = Dec(FALSE, <<0>>, <<>>) /\ spentSql = spentTs /\ operands = Idle

(* A charge that the database refuses rolls back: the spend stays.         *)
ChargeCost(cost) ==
  /\ operands = Idle /\ charges < MaxCharges /\ spentSql # Refused
  /\ charges' = charges + 1 /\ exact' = exact + Value(cost)
  /\ spentTs' = addDecimalStrings(spentTs, cost)
  /\ spentSql' = ChargedSpent(spentSql, cost)
  /\ UNCHANGED operands

Compute(what) ==
  /\ charges = 0 /\ operands' = what /\ UNCHANGED <<charges, exact, spentTs, spentSql>>
SumSpans(amount) ==
  /\ operands.op \in {"none", "sum"}
  /\ operands.op = "sum" => Len(operands.amounts) < MaxTerms
  /\ LET so_far == IF operands.op = "sum" THEN operands.amounts ELSE <<>>
     IN Compute([op |-> "sum", amounts |-> Append(so_far, amount)])
CompareThreshold(a, b) == operands = Idle /\ Compute([op |-> "compare", a |-> a, b |-> b])
RateTools(n, d, threshold) ==
  operands = Idle /\ Compute([op |-> "rate", n |-> n, d |-> d, threshold |-> threshold])

DecimalsNext ==
  \/ \E cost \in Canonical : ChargeCost(cost)
  \/ \E amount \in Signed : SumSpans(amount)
  \/ \E a, b \in Loose : CompareThreshold(a, b)
  \/ \E n, d \in 0 .. MaxRate, threshold \in Canonical : n <= d /\ RateTools(n, d, threshold)

-------------------------------------------------------------------------------
Total(amounts) == SumFunction([i \in DOMAIN amounts |-> Value(amounts[i])])
SameSign(m, n) == (m < 0 <=> n < 0) /\ (m > 0 <=> n > 0)
Truncates(d, n, over, scale) ==
  LET units == Num(d.whole \o PadEnd(d.fraction, scale))
  IN units * over <= n * Pow(scale) /\ n * Pow(scale) < (units + 1) * over

(* "Never floats [...] a ledger that rounds is not a ledger" (gateway.ts): *)
(* the spend of a key is the exact sum of its costs, written by the        *)
(* database digit for digit as the program would write it, unless the      *)
(* database refuses the charge; a sum of span costs is exact and written   *)
(* in one way; a comparison is that of the numbers, however they are       *)
(* written; and a rate is never rounded up, and is below a threshold       *)
(* exactly when the fraction is.                                           *)
DecimalsAreExact ==
  /\ Value(spentTs) = exact
  /\ spentSql \in {spentTs, Refused}
  /\ spentTs.whole = stripLeadingZeros(spentTs.whole)
  /\ operands.op = "sum" =>
       LET sum == SumOfAmounts(operands.amounts)
       IN /\ Value(sum) = Total(operands.amounts)
          /\ sum.neg => Value(sum) # 0
          /\ sum.whole = stripLeadingZeros(sum.whole) /\ sum.fraction = StripTrailingZeros(sum.fraction)
  /\ operands.op = "compare" =>
       LET a == operands.a  b == operands.b
       IN /\ SameSign(compareDecimalStrings(a, b), Value(a) - Value(b))
          /\ {a, b} \subseteq Canonical => SameSign(compareUnits(a, b), Value(a) - Value(b))
  /\ operands.op = "rate" /\ operands.d > 0 =>
       LET n == operands.n  d == operands.d  t == operands.threshold
       IN /\ Truncates(ratioToDecimalString(n, d, RateScale), n, d, RateScale)
          /\ ratioDecimal(n, d, RateScale) = ratioToDecimalString(n, d, RateScale)
          /\ belowRateThreshold(n, d, t) <=> n * Pow(SumScale) < Value(t) * d
===============================================================================
