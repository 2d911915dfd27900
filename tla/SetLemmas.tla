------------------------------- MODULE SetLemmas -------------------------------
(***************************************************************************)
(* Finite sets and sums over them.  The induction theorems of the library  *)
(* take an operator as a parameter, which the provers cannot instantiate;  *)
(* a smallest member of a family of sets says the same of a set: what      *)
(* fails for some finite set fails for one whose parts all have it.        *)
(***************************************************************************)
EXTENDS Integers, Functions, FiniteSetsExt, FiniteSetTheorems, WellFoundedInduction, TLAPS

(* A family of subsets of a finite set has a member without a smaller one. *)
LEMMA SmallestSet ==
  ASSUME NEW S, IsFiniteSet(S), NEW F \in SUBSET (SUBSET S), F # {}
  PROVE  \E m \in F : \A s \in F : s \subseteq m => s = m
<1> DEFINE R == StrictSubsetOrdering(S)
<1>1. F \subseteq FiniteSubsetsOf(S)
  BY FS_Subset DEF FiniteSubsetsOf
<1>2. IsWellFoundedOn(R, FiniteSubsetsOf(S))
  BY FS_StrictSubsetOrderingWellFounded
<1> HIDE DEF R
<1>3. PICK m \in F : \A s \in F : ~(<<s, m>> \in R)
  BY <1>1, <1>2, WFMin
<1>4. \A s \in F : s \subseteq m => s = m
  <2> SUFFICES ASSUME NEW s \in F, s \subseteq m, s # m PROVE FALSE
    OBVIOUS
  <2>1. s \in SUBSET S /\ m \in SUBSET S
    OBVIOUS
  <2>2. <<s, m>> \in R
    BY <2>1 DEF R, StrictSubsetOrdering
  <2> QED BY <2>2, <1>3
<1> QED BY <1>4

(* A finite set of numbers has a least one.                                *)
LEMMA LeastExists ==
  ASSUME NEW S, IsFiniteSet(S), S \subseteq Int, S # {}
  PROVE  \E m \in S : \A n \in S : m <= n
<1> DEFINE Least(T) == \E m \in T : \A n \in T : m <= n
           F == {T \in SUBSET S : T # {} /\ ~Least(T)}
<1> SUFFICES ASSUME F # {} PROVE FALSE
  OBVIOUS
<1>1. F \in SUBSET (SUBSET S)
  OBVIOUS
<1>2. \E m \in F : \A s \in F : s \subseteq m => s = m
  <2> HIDE DEF F
  <2> QED BY ONLY <1>1, F # {}, IsFiniteSet(S), SmallestSet
<1>3. PICK T \in F : \A s \in F : s \subseteq T => s = T
  BY <1>2
<1>4. PICK x \in T : TRUE
  OBVIOUS
<1>5. CASE T \ {x} = {}
  <2>1. Least(T)
    BY <1>4, <1>5
  <2> QED BY <2>1
<1>6. CASE T \ {x} # {}
  <2>1. Least(T \ {x})
    <3>1. T \ {x} \in SUBSET S /\ T \ {x} \subseteq T /\ T \ {x} # T
      BY <1>4
    <3> QED BY <3>1, <1>3, <1>6
  <2>2. PICK m \in T \ {x} : \A n \in T \ {x} : m <= n
    BY <2>1
  <2>3. Least(T)
    BY <1>4, <2>2
  <2> QED BY <2>3
<1> QED BY <1>5, <1>6

(* The same for Min and Max, which choose.                                 *)
LEMMA LeastOfSome ==
  ASSUME NEW S \in SUBSET Nat, S # {}
  PROVE  Min(S) \in S /\ \A n \in S : Min(S) <= n
  <1>1. PICK x \in S : TRUE
    OBVIOUS
  <1> DEFINE T == {n \in S : n <= x}
  <1>2. IsFiniteSet(T) /\ T \subseteq Int /\ T # {}
    <2>1. x \in Nat /\ x \in T
      BY <1>1
    <2>2. ASSUME NEW n \in T PROVE n \in 0 .. x /\ n \in Int
      BY <2>1, <2>2
    <2> HIDE DEF T
    <2>3. T \subseteq 0 .. x /\ T \subseteq Int
      BY <2>2
    <2>4. IsFiniteSet(0 .. x)
      BY <2>1, FS_Interval
    <2>5. QED
      BY <2>1, <2>3, <2>4, FS_Subset
  <1>3. PICK m \in T : \A n \in T : m <= n
    BY <1>2, LeastExists
  <1>4. m \in S /\ \A n \in S : m <= n
    BY <1>1, <1>3
  <1>5. QED
    BY <1>4 DEF Min

LEMMA GreatestOfSome ==
  ASSUME NEW N \in Nat, NEW S \in SUBSET (0 .. N), S # {}
  PROVE  Max(S) \in S /\ \A n \in S : n <= Max(S)
  <1> DEFINE D == {N - n : n \in S}
  <1>1. D \subseteq 0 .. N /\ D # {}
    <2>1. ASSUME NEW n \in S PROVE N - n \in 0 .. N
      OBVIOUS
    <2>2. QED
      BY <2>1
  <1>2. IsFiniteSet(D) /\ D \subseteq Int
    <2>1. IsFiniteSet(0 .. N) /\ 0 .. N \subseteq Int
      BY FS_Interval
    <2>2. QED
      BY <1>1, <2>1, FS_Subset
  <1>3. PICK d \in D : \A n \in D : d <= n
    BY <1>1, <1>2, LeastExists
  <1>4. PICK m \in S : d = N - m
    BY <1>3
  <1>5. \A n \in S : n <= m
    <2>1. ASSUME NEW n \in S PROVE n <= m
      <3>1. N - m <= N - n
        BY <1>3, <1>4
      <3>2. m \in Nat /\ n \in Nat
        OBVIOUS
      <3>3. QED
        BY <3>1, <3>2
    <2>2. QED
      BY <2>1
  <1>6. \A n \in S : m >= n
    BY <1>5
  <1>7. QED
    BY <1>5, <1>6 DEF Max

-------------------------------------------------------------------------------
(* Sums                                                                    *)

FirstOf(S) == CHOOSE x \in S : TRUE
(* g is the table of the sums of f over the subsets of S.                  *)
SumsOver(f, S, g) ==
  g = [s \in SUBSET S |-> IF s = {} THEN 0 ELSE f[FirstOf(s)] + g[s \ {FirstOf(s)}]]

LEMMA FirstIsIn == \A S : S # {} => FirstOf(S) \in S
  BY DEF FirstOf

(* Two tables agree where both are defined.                                *)
LEMMA SumsAgree ==
  ASSUME NEW f, NEW S, IsFiniteSet(S), NEW T \in SUBSET S, NEW g, NEW h,
         SumsOver(f, S, g), SumsOver(f, T, h)
  PROVE  \A s \in SUBSET T : g[s] = h[s]
<1> DEFINE F == {s \in SUBSET T : g[s] # h[s]}
<1> SUFFICES ASSUME F # {} PROVE FALSE
  OBVIOUS
<1>1. F \in SUBSET (SUBSET S)
  OBVIOUS
<1>2. \E m \in F : \A s \in F : s \subseteq m => s = m
  <2> HIDE DEF F
  <2> QED BY <1>1, SmallestSet
<1>2a. PICK m \in F : \A s \in F : s \subseteq m => s = m
  BY <1>2
<1>3. m \in SUBSET S /\ m \in SUBSET T
  OBVIOUS
<1>4. CASE m = {}
  BY <1>3, <1>4 DEF SumsOver
<1>5. CASE m # {}
  <2> DEFINE x == FirstOf(m)
  <2>1. x \in m
    BY <1>5, FirstIsIn
  <2>2. m \ {x} \in SUBSET T /\ m \ {x} \notin F
    BY <1>2a, <1>3, <2>1
  <2>3. g[m] = f[x] + g[m \ {x}] /\ h[m] = f[x] + h[m \ {x}]
    BY <1>3, <1>5 DEF SumsOver
  <2> QED BY <2>2, <2>3
<1> QED BY <1>4, <1>5

(* There is a table for every finite set.                                  *)
LEMMA SumsExist ==
  ASSUME NEW f, NEW S, IsFiniteSet(S)
  PROVE  \E g : SumsOver(f, S, g)
<1> DEFINE F == {s \in SUBSET S : ~\E g : SumsOver(f, s, g)}
<1> SUFFICES ASSUME F # {} PROVE FALSE
  OBVIOUS
<1>1. F \in SUBSET (SUBSET S)
  OBVIOUS
<1>2. \E m \in F : \A s \in F : s \subseteq m => s = m
  <2> HIDE DEF F
  <2> QED BY <1>1, SmallestSet
<1>2a. PICK m \in F : \A s \in F : s \subseteq m => s = m
  BY <1>2
<1>3. m \in SUBSET S /\ IsFiniteSet(m)
  BY FS_Subset
<1> DEFINE Table(s) == CHOOSE g : SumsOver(f, s, g)
<1>4. \A s \in SUBSET m : s # m => SumsOver(f, s, Table(s)) /\ IsFiniteSet(s)
  <2> TAKE s \in SUBSET m
  <2> HAVE s # m
  <2>1. s \in SUBSET S /\ s \notin F
    BY <1>2a, <1>3
  <2>2. \E g : SumsOver(f, s, g)
    BY <2>1
  <2> QED BY <2>2, <1>3, FS_Subset
<1> DEFINE h == [s \in SUBSET m |-> IF s = {} THEN 0
                                    ELSE f[FirstOf(s)] + Table(s \ {FirstOf(s)})[s \ {FirstOf(s)}]]
<1> HIDE DEF Table
<1>5. \A s \in SUBSET m : s # m => h[s] = Table(s)[s]
  <2> TAKE s \in SUBSET m
  <2> HAVE s # m
  <2>1. SumsOver(f, s, Table(s))
    BY <1>4
  <2>2. CASE s = {}
    BY <2>1, <2>2 DEF SumsOver
  <2>3. CASE s # {}
    <3> DEFINE r == s \ {FirstOf(s)}
    <3>1. FirstOf(s) \in s
      BY <2>3, FirstIsIn
    <3>2. r \in SUBSET m /\ r # m /\ r \in SUBSET s
      BY <3>1
    <3>3. SumsOver(f, r, Table(r))
      BY <3>2, <1>4
    <3>3a. IsFiniteSet(s)
      BY <1>4
    <3>4. \A u \in SUBSET r : Table(s)[u] = Table(r)[u]
      BY <2>1, <3>2, <3>3, <3>3a, SumsAgree
    <3>5. Table(s)[r] = Table(r)[r]
      BY <3>4
    <3>6. Table(s)[s] = f[FirstOf(s)] + Table(s)[r]
      BY <2>1, <2>3 DEF SumsOver
    <3>7. h[s] = f[FirstOf(s)] + Table(r)[r]
      BY <2>3
    <3> QED BY <3>5, <3>6, <3>7
  <2> QED BY <2>2, <2>3
<1>6. SumsOver(f, m, h)
  <2>1. \A s \in SUBSET m : s # {} => s \ {FirstOf(s)} \in SUBSET m /\ s \ {FirstOf(s)} # m
    BY FirstIsIn
  <2>2. \A s \in SUBSET m : s # {} => h[s] = f[FirstOf(s)] + h[s \ {FirstOf(s)}]
    BY <2>1, <1>5
  <2>3. h = [s \in SUBSET m |-> h[s]]
    OBVIOUS
  <2>4. \A s \in SUBSET m : h[s] = IF s = {} THEN 0 ELSE f[FirstOf(s)] + h[s \ {FirstOf(s)}]
    BY <2>2
  <2> HIDE DEF h
  <2> QED BY <2>3, <2>4 DEF SumsOver
<1> QED BY <1>2a, <1>6

(* The sum over a set is in every table that has the set.                  *)
LEMMA SumIsInTable ==
  ASSUME NEW f, NEW S, IsFiniteSet(S), NEW T \in SUBSET S, NEW g, SumsOver(f, S, g)
  PROVE  SumFunctionOnSet(f, T) = g[T]
<1> DEFINE h == CHOOSE k : SumsOver(f, T, k)
<1>1. IsFiniteSet(T)
  BY FS_Subset
<1>2. SumsOver(f, T, h)
  BY <1>1, SumsExist
<1>3. SumFunctionOnSet(f, T) = h[T]
  BY DEF SumFunctionOnSet, FoldFunctionOnSet, MapThenFoldSet, SumsOver, FirstOf
<1>4. \A s \in SUBSET T : g[s] = h[s]
  <2>1. PICK k : k = h
    OBVIOUS
  <2>2. SumsOver(f, T, k)
    BY <1>2, <2>1
  <2>3. \A s \in SUBSET T : g[s] = k[s]
    BY <2>2, SumsAgree
  <2> QED BY <2>1, <2>3
<1> QED BY <1>3, <1>4

(* The sum over a set is that of its first element and of the rest.        *)
LEMMA SumOfFirst ==
  ASSUME NEW f, NEW S, IsFiniteSet(S)
  PROVE  SumFunctionOnSet(f, S)
           = IF S = {} THEN 0 ELSE f[FirstOf(S)] + SumFunctionOnSet(f, S \ {FirstOf(S)})
<1>1. PICK g : SumsOver(f, S, g)
  BY SumsExist
<1>2. \A T \in SUBSET S : SumFunctionOnSet(f, T) = g[T]
  BY <1>1, SumIsInTable
<1>3. g[S] = IF S = {} THEN 0 ELSE f[FirstOf(S)] + g[S \ {FirstOf(S)}]
  BY <1>1 DEF SumsOver
<1> QED BY <1>2, <1>3

LEMMA SumOfNone == \A f : SumFunctionOnSet(f, {}) = 0
  BY SumOfFirst, FS_EmptySet

(* ... and of any element and of the rest.                                 *)
LEMMA SumOfAny ==
  ASSUME NEW S, IsFiniteSet(S), NEW f, \A x \in S : f[x] \in Nat
  PROVE  \A T \in SUBSET S : /\ SumFunctionOnSet(f, T) \in Nat
                            /\ \A y \in T : SumFunctionOnSet(f, T) = f[y] + SumFunctionOnSet(f, T \ {y})
<1> DEFINE Sum(T) == SumFunctionOnSet(f, T)
           F == {T \in SUBSET S : ~(Sum(T) \in Nat /\ \A y \in T : Sum(T) = f[y] + Sum(T \ {y}))}
<1> SUFFICES ASSUME F # {} PROVE FALSE
  OBVIOUS
<1>1. F \in SUBSET (SUBSET S)
  OBVIOUS
<1>2. \E m \in F : \A s \in F : s \subseteq m => s = m
  <2> HIDE DEF F
  <2> QED BY <1>1, SmallestSet
<1>3. PICK m \in F : \A s \in F : s \subseteq m => s = m
  BY <1>2
<1>4. m \in SUBSET S /\ IsFiniteSet(m)
  BY FS_Subset
<1>5. Sum(m) = IF m = {} THEN 0 ELSE f[FirstOf(m)] + Sum(m \ {FirstOf(m)})
  BY <1>4, SumOfFirst
<1> DEFINE x == FirstOf(m)
<1>6. \A s \in SUBSET m : s # m => Sum(s) \in Nat /\ \A y \in s : Sum(s) = f[y] + Sum(s \ {y})
  BY <1>3, <1>4
<1>7. m # {} => x \in m /\ f[x] \in Nat
  BY <1>4, FirstIsIn
<1> HIDE DEF Sum, x
<1>8. Sum(m) \in Nat
  <2>1. CASE m = {}
    BY <2>1, <1>5
  <2>2. CASE m # {}
    <3>1. m \ {x} \in SUBSET m /\ m \ {x} # m
      BY <2>2, <1>7
    <3>2. Sum(m \ {x}) \in Nat
      BY <3>1, <1>6
    <3> QED BY <2>2, <1>5, <1>7, <3>2 DEF x
  <2> QED BY <2>1, <2>2
<1>9. ASSUME NEW y \in m PROVE Sum(m) = f[y] + Sum(m \ {y})
  <2>1. m # {} /\ f[y] \in Nat
    BY <1>4
  <2>2. Sum(m) = f[x] + Sum(m \ {x})
    BY <2>1, <1>5 DEF x
  <2>3. CASE y = x
    BY <2>2, <2>3
  <2>4. CASE y # x
    <3> DEFINE r == m \ {x, y}
    <3>1. /\ m \ {x} \in SUBSET m /\ m \ {x} # m /\ y \in m \ {x} /\ (m \ {x}) \ {y} = r
          /\ m \ {y} \in SUBSET m /\ m \ {y} # m /\ x \in m \ {y} /\ (m \ {y}) \ {x} = r
          /\ r \in SUBSET m /\ r # m
      BY <2>1, <2>4, <1>7
    <3>2. Sum(m \ {x}) = f[y] + Sum(r)
      BY <3>1, <1>6
    <3>3. Sum(m \ {y}) = f[x] + Sum(r)
      BY <3>1, <1>6
    <3>4. Sum(r) \in Nat
      BY <3>1, <1>6
    <3> HIDE DEF r
    <3> QED BY <2>1, <2>2, <3>2, <3>3, <3>4, <1>7
  <2> QED BY <2>3, <2>4
<1> QED BY <1>3, <1>8, <1>9 DEF Sum

(* One more element adds its value.                                        *)
LEMMA SumOfOneMore ==
  ASSUME NEW S, IsFiniteSet(S), NEW f, NEW x, x \notin S, \A y \in S \cup {x} : f[y] \in Nat
  PROVE  SumFunctionOnSet(f, S \cup {x}) = SumFunctionOnSet(f, S) + f[x]
<1>1. IsFiniteSet(S \cup {x}) /\ (S \cup {x}) \ {x} = S
  BY FS_AddElement
<1> DEFINE T == S \cup {x}
<1>2. T \in SUBSET T /\ S \in SUBSET T /\ x \in T /\ T \ {x} = S /\ IsFiniteSet(T) /\ \A y \in T : f[y] \in Nat
  BY <1>1
<1> HIDE DEF T
<1>3. \A U \in SUBSET T : /\ SumFunctionOnSet(f, U) \in Nat
                          /\ \A y \in U : SumFunctionOnSet(f, U) = f[y] + SumFunctionOnSet(f, U \ {y})
  BY <1>2, SumOfAny
<1>4. SumFunctionOnSet(f, T) = f[x] + SumFunctionOnSet(f, S) /\ SumFunctionOnSet(f, S) \in Nat
  BY <1>2, <1>3
<1> QED BY <1>4, <1>2 DEF T

(* The sum depends on the values at the elements only.                     *)
LEMMA SumOfSame ==
  ASSUME NEW S, IsFiniteSet(S), NEW f, NEW g, \A x \in S : f[x] = g[x]
  PROVE  SumFunctionOnSet(f, S) = SumFunctionOnSet(g, S)
<1>1. PICK h : SumsOver(f, S, h)
  BY SumsExist
<1>2. SumsOver(g, S, h)
  <2>1. \A s \in SUBSET S : s # {} => f[FirstOf(s)] = g[FirstOf(s)]
    BY FirstIsIn
  <2>2. [s \in SUBSET S |-> IF s = {} THEN 0 ELSE f[FirstOf(s)] + h[s \ {FirstOf(s)}]]
          = [s \in SUBSET S |-> IF s = {} THEN 0 ELSE g[FirstOf(s)] + h[s \ {FirstOf(s)}]]
    BY <2>1
  <2> QED BY <1>1, <2>2 DEF SumsOver
<1> QED BY <1>1, <1>2, SumIsInTable

(* A chain of steps, each a function of the one before, exists.            *)
StepsIn(A, n) == [1 .. n -> [A -> A]]
ChainFrom(A, a, n, g, f) == f \in [0 .. n -> A] /\ f[0] = a /\ \A k \in 1 .. n : f[k] = g[k][f[k - 1]]
LEMMA ChainExists ==
  ASSUME NEW A, NEW a \in A, NEW n \in Nat, NEW g \in StepsIn(A, n)
  PROVE  \E f : ChainFrom(A, a, n, g, f)
<1> USE DEF StepsIn
<1> DEFINE Chain(m) == \E f \in [0 .. m -> A] : f[0] = a /\ \A k \in 1 .. m : f[k] = g[k][f[k - 1]]
           Bad == {m \in 0 .. n : ~Chain(m)}
<1>1. SUFFICES ASSUME Bad # {} PROVE FALSE
  <2>1. ASSUME Bad = {} PROVE Chain(n)
    <3>1. n \in 0 .. n
      OBVIOUS
    <3> HIDE DEF Chain
    <3> QED BY <2>1, <3>1
  <2> QED BY <2>1 DEF ChainFrom
<1>2. PICK m \in Bad : \A k \in Bad : m <= k
  <2>1. Bad \in SUBSET Nat
    OBVIOUS
  <2> HIDE DEF Bad
  <2> QED BY <1>1, <2>1, LeastOfSome
<1>3. m \in 0 .. n /\ ~Chain(m)
  BY <1>2
<1>4. Chain(0)
  <2>1. PICK f : f = [k \in 0 .. 0 |-> a]
    OBVIOUS
  <2>2. f \in [0 .. 0 -> A] /\ f[0] = a /\ ~\E k \in 1 .. 0 : TRUE
    BY <2>1
  <2> QED BY <2>2
<1>5. m # 0 /\ m - 1 \in 0 .. n /\ ~(m <= m - 1)
  <2>1. m # 0
    <3> HIDE DEF Chain
    <3> QED BY <1>3, <1>4
  <2> QED BY <1>3, <2>1
<1>6. Chain(m - 1)
  BY <1>2, <1>5
<1>7. PICK f \in [0 .. m - 1 -> A] : f[0] = a /\ \A k \in 1 .. m - 1 : f[k] = g[k][f[k - 1]]
  BY <1>6
<1> DEFINE h == [k \in 0 .. m |-> IF k = m THEN g[m][f[m - 1]] ELSE f[k]]
<1>8. m \in 1 .. n /\ g[m][f[m - 1]] \in A
  BY <1>3, <1>5, <1>7
<1>9. h \in [0 .. m -> A]
  BY <1>7, <1>8
<1>10. h[0] = a
  BY <1>3, <1>5, <1>7
<1>11. \A k \in 1 .. m : h[k] = g[k][h[k - 1]]
  <2> SUFFICES ASSUME NEW k \in 1 .. m PROVE h[k] = g[k][h[k - 1]]
    OBVIOUS
  <2>1. k - 1 \in 0 .. m /\ k - 1 # m /\ h[k - 1] = f[k - 1]
    BY <1>8
  <2>2. CASE k = m
    BY <2>1, <2>2
  <2>3. CASE k # m
    <3>1. k \in 1 .. m - 1 /\ h[k] = f[k]
      BY <1>8, <2>3
    <3> QED BY <1>7, <2>1, <3>1
  <2> QED BY <2>2, <2>3
<1>12. Chain(m)
  <2> HIDE DEF h
  <2> QED BY <1>9, <1>10, <1>11
<1> QED BY <1>3, <1>12

(* Of a finite set in an order, f giving what comes before each element,   *)
(* one element comes after any number of them.                             *)
LEMMA PlacesAreTaken ==
  ASSUME NEW S, IsFiniteSet(S), NEW f, \A x \in S : f[x] \subseteq S /\ x \notin f[x],
         \A x, y \in S : x # y => (x \in f[y] /\ f[x] \subseteq f[y]) \/ (y \in f[x] /\ f[y] \subseteq f[x])
  PROVE  /\ \A k \in 1 .. Cardinality(S) : \E x \in S : Cardinality(f[x]) = k - 1
         /\ \A x \in S : Cardinality(f[x]) + 1 \in 1 .. Cardinality(S)
         /\ \A x, y \in S : Cardinality(f[x]) = Cardinality(f[y]) => x = y
<1> DEFINE n == Cardinality(S)
           T == 0 .. n - 1
           g == [x \in S |-> Cardinality(f[x])]
<1>1. n \in Nat /\ \A x \in S : IsFiniteSet(f[x]) /\ Cardinality(f[x]) \in Nat
  BY FS_CardinalityType, FS_Subset
<1>2. IsFiniteSet(T) /\ Cardinality(T) = n
  <2> HIDE DEF n
  <2>1. 0 \in Int /\ n - 1 \in Int
    BY <1>1
  <2>2. IsFiniteSet(T) /\ Cardinality(T) = IF 0 > n - 1 THEN 0 ELSE n - 1 - 0 + 1
    BY <2>1, FS_Interval
  <2> QED BY <1>1, <2>2
<1>3. \A x \in S : g[x] \in T
  <2> SUFFICES ASSUME NEW x \in S PROVE Cardinality(f[x]) \in T
    OBVIOUS
  <2>1. Cardinality(f[x]) <= n /\ (Cardinality(f[x]) = n => f[x] = S)
    BY FS_Subset
  <2>2. Cardinality(f[x]) # n
    BY <2>1
  <2> HIDE DEF n
  <2> QED BY <1>1, <2>1, <2>2
<1>4. \A x, y \in S : x # y => Cardinality(f[x]) # Cardinality(f[y])
  <2>1. ASSUME NEW x \in S, NEW y \in S, x \in f[y], f[x] \subseteq f[y] PROVE Cardinality(f[x]) # Cardinality(f[y])
    <3>1. Cardinality(f[x]) = Cardinality(f[y]) => f[x] = f[y]
      BY <1>1, <2>1, FS_Subset
    <3> QED BY <2>1, <3>1
  <2> QED BY <2>1
<1>5. g \in Injection(S, T)
  <2>1. \A x, y \in S : g[x] = g[y] => x = y
    BY <1>4
  <2>2. g \in [S -> T]
    <3> HIDE DEF T
    <3> QED BY <1>3
  <2> HIDE DEF g, T
  <2> QED BY <2>1, <2>2 DEF Injection, IsInjective
<1>6. g \in Surjection(S, T)
  <2> HIDE DEF g, T
  <2> QED BY <1>2, <1>5, FS_Injection
<1>7. \A y \in T : \E x \in S : g[x] = y
  <2> HIDE DEF g, T
  <2> QED BY <1>6 DEF Surjection
<1>8. \A k \in 1 .. n : k - 1 \in T
  BY <1>1
<1>9. \A x \in S : Cardinality(f[x]) + 1 \in 1 .. n
  <2> SUFFICES ASSUME NEW x \in S PROVE Cardinality(f[x]) + 1 \in 1 .. n
    OBVIOUS
  <2>1. Cardinality(f[x]) \in T
    BY <1>3
  <2> HIDE DEF n
  <2> QED BY <1>1, <2>1
<1> QED BY <1>4, <1>7, <1>8, <1>9

(* The least and the greatest of two, and the greatest of a finite set.    *)
LEMMA MinOfTwo == \A a, b \in Nat : Min({a, b}) = IF a <= b THEN a ELSE b
<1> SUFFICES ASSUME NEW a \in Nat, NEW b \in Nat PROVE Min({a, b}) = IF a <= b THEN a ELSE b
  OBVIOUS
<1>1. Min({a, b}) \in {a, b} /\ \A n \in {a, b} : Min({a, b}) <= n
  <2>1. {a, b} \in SUBSET Nat /\ {a, b} # {}
    OBVIOUS
  <2> QED BY <2>1, LeastOfSome
<1> HIDE DEF Min
<1> QED BY <1>1

LEMMA MaxOfTwo == \A a, b \in Nat : Max({a, b}) = IF a >= b THEN a ELSE b
<1> SUFFICES ASSUME NEW a \in Nat, NEW b \in Nat PROVE Max({a, b}) = IF a >= b THEN a ELSE b
  OBVIOUS
<1>1. Max({a, b}) \in {a, b} /\ \A n \in {a, b} : n <= Max({a, b})
  <2>1. {a, b} \in SUBSET (0 .. a + b) /\ {a, b} # {} /\ a + b \in Nat
    OBVIOUS
  <2> QED BY <2>1, GreatestOfSome
<1> HIDE DEF Max
<1> QED BY <1>1

LEMMA LatestExists ==
  ASSUME NEW S, IsFiniteSet(S), S \subseteq Nat, S # {}
  PROVE  \E n \in S : \A m \in S : m <= n
<1> DEFINE F == {T \in SUBSET S : T # {} /\ ~\E n \in T : \A m \in T : m <= n}
<1>1. SUFFICES ASSUME F # {} PROVE FALSE
  BY DEF F
<1>1a. F \in SUBSET (SUBSET S)
  OBVIOUS
<1>1b. \E T \in F : \A s \in F : s \subseteq T => s = T
  <2> HIDE DEF F
  <2> QED BY ONLY <1>1, <1>1a, IsFiniteSet(S), SmallestSet
<1>2. PICK T \in F : \A s \in F : s \subseteq T => s = T
  BY <1>1b
<1>3. PICK x \in T : TRUE
  BY <1>2
<1>4. T \ {x} \notin F
  <2> HIDE DEF F
  <2> QED BY <1>2, <1>3
<1>5. CASE T \ {x} = {}
  <2>1. \A m \in T : m <= x
    BY <1>2, <1>3, <1>5
  <2> QED BY <1>2, <1>3, <2>1
<1>6. CASE T \ {x} # {}
  <2>1. PICK n \in T \ {x} : \A m \in T \ {x} : m <= n
    BY <1>2, <1>4, <1>6
  <2>2. x \in Nat /\ n \in Nat /\ n \in T /\ \A m \in T : m \in Nat
    BY <1>2, <1>3, <2>1
  <2>3. CASE x <= n
    <3>1. \A m \in T : m <= n
      BY <2>1, <2>2, <2>3
    <3> QED BY <1>2, <2>2, <3>1
  <2>4. CASE n <= x
    <3>1. \A m \in T : m <= x
      BY <2>1, <2>2, <2>4
    <3> QED BY <1>2, <1>3, <3>1
  <2> QED BY <2>2, <2>3, <2>4
<1> QED BY <1>5, <1>6
================================================================================
