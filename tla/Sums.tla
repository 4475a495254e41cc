-------------------------------- MODULE Sums --------------------------------
(***************************************************************************)
(* Facts about products, quotients and SumFunctionOnSet of the community   *)
(* module Functions, which the prices of the faucet and the rollups of the *)
(* metrics history are written with, and the two principles of induction   *)
(* that the facts about sums rest on.  The induction theorems of the       *)
(* library take a predicate, which the provers cannot instantiate; here a  *)
(* set stands for it.                                                      *)
(***************************************************************************)
EXTENDS FiniteSetTheorems, TLAPS

\* A product of naturals is one.
LEMMA ProductNat == ASSUME NEW a \in Nat, NEW b \in Nat PROVE a * b \in Nat
  OBVIOUS

\* A product of positive numbers is one.
LEMMA ProductPositive ==
  ASSUME NEW a \in Nat \ {0}, NEW b \in Nat \ {0} PROVE a * b \in Nat \ {0}
  OBVIOUS

\* A factor keeps an order.
LEMMA TimesKeeps ==
  ASSUME NEW a \in Int, NEW b \in Int, NEW k \in Nat, a <= b PROVE a * k <= b * k
  OBVIOUS

\* A positive factor can be dropped.
LEMMA TimesDrops ==
  ASSUME NEW a \in Int, NEW b \in Int, NEW k \in Nat \ {0}, a * k <= b * k PROVE a <= b
  OBVIOUS

\* Division by a positive number.
LEMMA DivBounds ==
  ASSUME NEW a \in Nat, NEW b \in Nat \ {0}
  PROVE  a \div b \in Nat /\ b * (a \div b) <= a /\ a < b * (a \div b) + b
  OBVIOUS

\* Division keeps an order.
LEMMA DivMonotone ==
  ASSUME NEW a \in Nat, NEW b \in Nat, NEW k \in Nat \ {0}, a <= b
  PROVE  a \div k <= b \div k
<1> DEFINE x == a \div k
           y == b \div k
<1>1. x \in Nat /\ y \in Nat /\ k * x <= a /\ b < k * y + k
  BY DivBounds
<1> HIDE DEF x, y
<1>2. k * x < k * (y + 1)
  BY <1>1
<1>3. CASE x <= y
  BY <1>3 DEF x, y
<1>4. CASE x >= y + 1
  <2>1. (y + 1) * k <= x * k
    BY <1>1, <1>4, TimesKeeps
  <2> QED
    BY <1>1, <1>2, <2>1
<1> QED
  BY <1>1, <1>3, <1>4

\* The quotient is the only number between these bounds.
LEMMA DivUnique ==
  ASSUME NEW a \in Nat, NEW k \in Nat \ {0}, NEW q \in Int,
         k * q <= a, a < k * q + k
  PROVE  q = a \div k
<1> DEFINE x == a \div k
<1>1. x \in Nat /\ k * x <= a /\ a < k * x + k
  BY DivBounds
<1> HIDE DEF x
<1>2. k * (x + 1) = k * x + k /\ k * (q + 1) = k * q + k
  BY <1>1
<1>3. CASE q <= x - 1
  <2>1. (q + 1) * k <= x * k
    BY <1>1, <1>3, TimesKeeps
  <2> QED
    BY <1>1, <1>2, <2>1
<1>4. CASE x <= q - 1
  <2>1. (x + 1) * k <= q * k
    BY <1>1, <1>4, TimesKeeps
  <2> QED
    BY <1>1, <1>2, <2>1
<1>5. CASE q = x
  BY <1>5 DEF x
<1> QED
  BY <1>1, <1>3, <1>4, <1>5

\* A set of naturals with 0 and with the successor of each of its elements has them all.
LEMMA NatSetInduction ==
  ASSUME NEW T, 0 \in T, \A n \in Nat : n \in T => n + 1 \in T
  PROVE  Nat \subseteq T
<1> SUFFICES ASSUME Nat \ T # {} PROVE FALSE
  OBVIOUS
<1>1. PICK m \in Nat \ T : \A y \in Nat \ T : ~(<<y, m>> \in OpToRel(<, Nat))
  BY WFMin, NatLessThanWellFounded
<1>2. m # 0 /\ m - 1 \in Nat /\ m - 1 \notin T
  OBVIOUS
<1>3. <<m - 1, m>> \in OpToRel(<, Nat)
  BY <1>2 DEF OpToRel
<1> QED
  BY <1>1, <1>2, <1>3

\* A set of subsets of a finite set that contains U as soon as it contains the proper
\* subsets of U contains them all.
LEMMA SubsetInduction ==
  ASSUME NEW S, IsFiniteSet(S), NEW T,
         \A U \in SUBSET S : (\A V \in SUBSET U : V # U => V \in T) => U \in T
  PROVE  SUBSET S \subseteq T
<1>1. IsWellFoundedOn(StrictSubsetOrdering(S), SUBSET S)
  <2>1. FiniteSubsetsOf(S) = SUBSET S
    BY FS_FiniteSubsetsOfFinite
  <2> QED
    BY <2>1, FS_StrictSubsetOrderingWellFounded
<1> DEFINE Bad == (SUBSET S) \ T
<1> SUFFICES ASSUME Bad # {} PROVE FALSE
  OBVIOUS
<1>2. PICK U \in Bad : \A V \in Bad : ~(<<V, U>> \in StrictSubsetOrdering(S))
  <2>1. Bad \subseteq SUBSET S
    OBVIOUS
  <2> HIDE DEF Bad
  <2> QED
    BY <1>1, <2>1, WFMin
<1>3. \A V \in SUBSET U : V # U => V \in T
  BY <1>2 DEF StrictSubsetOrdering
<1> QED
  BY <1>2, <1>3

-----------------------------------------------------------------------------
(* What SumFunctionOnSet computes.                                         *)

\* The next element a fold takes.
Pick(s) == CHOOSE x \in s : TRUE

\* it is the recursive function of a fold that adds f up over subsets of S.
Adds(it, f, S) == it = [s \in S |-> IF s = {} THEN 0 ELSE f[Pick(s)] + it[s \ {Pick(s)}]]

LEMMA SumIsFold ==
  ASSUME NEW f, NEW S
  PROVE  SumFunctionOnSet(f, S) = (CHOOSE it : Adds(it, f, SUBSET S))[S]
  BY DEF SumFunctionOnSet, FoldFunctionOnSet, MapThenFoldSet, Adds, Pick

\* Such a function exists: it can be extended from the subsets of n elements to those of
\* n + 1.
LEMMA AddsExists ==
  ASSUME NEW f, NEW S, IsFiniteSet(S)
  PROVE  \E it : Adds(it, f, SUBSET S)
<1> DEFINE Small(n) == {s \in SUBSET S : Cardinality(s) <= n}
           T == {n \in Nat : \E it : Adds(it, f, Small(n))}
<1>1. 0 \in T
  <2>1. Small(0) = {{}}
    BY FS_EmptySet, FS_Subset, FS_CardinalityType
  <2>2. Adds([s \in Small(0) |-> 0], f, Small(0))
    BY <2>1 DEF Adds
  <2> QED
    BY <2>2
<1>2. ASSUME NEW n \in Nat, n \in T PROVE n + 1 \in T
  <2>1. PICK g : Adds(g, f, Small(n))
    BY <1>2
  <2> DEFINE h == [s \in Small(n + 1) |->
                     IF s = {} THEN 0 ELSE f[Pick(s)] + g[s \ {Pick(s)}]]
  <2>2. ASSUME NEW s \in Small(n + 1), s # {} PROVE s \ {Pick(s)} \in Small(n)
    <3>1. Pick(s) \in s
      BY <2>2 DEF Pick
    <3>2. IsFiniteSet(s) /\ Cardinality(s) \in Nat
      BY FS_Subset, FS_CardinalityType
    <3>3. Cardinality(s \ {Pick(s)}) = Cardinality(s) - 1
      BY <3>1, <3>2, FS_RemoveElement
    <3> QED
      BY <3>2, <3>3
  <2>3. ASSUME NEW s \in Small(n) PROVE s \in Small(n + 1) /\ h[s] = g[s]
    <3>1. Cardinality(s) \in Nat
      BY FS_Subset, FS_CardinalityType
    <3>2. s \in Small(n + 1)
      BY <3>1
    <3> QED
      BY <2>1, <3>2 DEF Adds
  <2>4. \A s \in Small(n + 1) :
          h[s] = IF s = {} THEN 0 ELSE f[Pick(s)] + h[s \ {Pick(s)}]
    BY <2>2, <2>3
  <2>5. Adds(h, f, Small(n + 1))
    BY <2>4 DEF Adds
  <2>6. \E it : Adds(it, f, Small(n + 1))
    <3> HIDE DEF h
    <3> QED
      BY <2>5
  <2> HIDE DEF Small
  <2> QED
    BY <2>6
<1>3. Cardinality(S) \in T
  <2>1. Nat \subseteq T
    <3> HIDE DEF T
    <3> QED
      BY <1>1, <1>2, NatSetInduction
  <2> QED
    BY <2>1, FS_CardinalityType
<1>4. Small(Cardinality(S)) = SUBSET S
  BY FS_Subset
<1> QED
  BY <1>3, <1>4

\* Nothing adds up to nothing.
LEMMA SumEmpty == ASSUME NEW f PROVE SumFunctionOnSet(f, {}) = 0
<1>1. PICK it : Adds(it, f, SUBSET {})
  BY AddsExists, FS_EmptySet
<1>2. Adds(CHOOSE i : Adds(i, f, SUBSET {}), f, SUBSET {})
  BY <1>1
<1> DEFINE g == CHOOSE i : Adds(i, f, SUBSET {})
<1>3. g[{}] = 0
  BY <1>2 DEF Adds
<1> QED
  BY <1>3, SumIsFold

\* The element the fold takes first can be taken out of the sum.
LEMMA SumPick ==
  ASSUME NEW f, NEW S, IsFiniteSet(S), S # {}
  PROVE  SumFunctionOnSet(f, S) = f[Pick(S)] + SumFunctionOnSet(f, S \ {Pick(S)})
<1> DEFINE U == S \ {Pick(S)}
<1>1. IsFiniteSet(U)
  BY FS_Subset
<1>2. PICK g : Adds(g, f, SUBSET S) /\ g = CHOOSE i : Adds(i, f, SUBSET S)
  BY AddsExists
<1>3. PICK h : Adds(h, f, SUBSET U) /\ h = CHOOSE i : Adds(i, f, SUBSET U)
  BY <1>1, AddsExists
<1>4. SumFunctionOnSet(f, S) = g[S] /\ SumFunctionOnSet(f, U) = h[U]
  BY <1>2, <1>3, SumIsFold
<1>5. g[S] = f[Pick(S)] + g[U]
  BY <1>2 DEF Adds
<1> DEFINE T == {s \in SUBSET U : g[s] = h[s]}
<1>6. ASSUME NEW s \in SUBSET U, \A v \in SUBSET s : v # s => v \in T PROVE s \in T
  <2>1. CASE s = {}
    BY <1>2, <1>3, <2>1 DEF Adds
  <2>2. CASE s # {}
    <3>1. Pick(s) \in s
      BY <2>2 DEF Pick
    <3>2. s \ {Pick(s)} \in T
      BY <1>6, <3>1
    <3>3. s \in SUBSET S
      OBVIOUS
    <3>4. Adds(g, f, SUBSET S) /\ Adds(h, f, SUBSET U)
      BY <1>2, <1>3
    <3>5. g[s] = f[Pick(s)] + g[s \ {Pick(s)}]
      BY <2>2, <3>3, <3>4 DEF Adds
    <3>6. h[s] = f[Pick(s)] + h[s \ {Pick(s)}]
      BY <2>2, <3>4 DEF Adds
    <3> QED
      BY <3>2, <3>5, <3>6
  <2> QED
    BY <2>1, <2>2
<1>7. SUBSET U \subseteq T
  <2> HIDE DEF T, U
  <2> QED
    BY <1>1, <1>6, SubsetInduction
<1> QED
  BY <1>4, <1>5, <1>7

\* And so can any other, of a sum of integers.
LEMMA SumTakesOut ==
  ASSUME NEW f, NEW S, IsFiniteSet(S), \A s \in S : f[s] \in Int
  PROVE  /\ SumFunctionOnSet(f, S) \in Int
         /\ \A x \in S : SumFunctionOnSet(f, S) = f[x] + SumFunctionOnSet(f, S \ {x})
<1> DEFINE T == {U \in SUBSET S :
                   /\ SumFunctionOnSet(f, U) \in Int
                   /\ \A x \in U : SumFunctionOnSet(f, U)
                                     = f[x] + SumFunctionOnSet(f, U \ {x})}
<1>1. ASSUME NEW U \in SUBSET S, \A V \in SUBSET U : V # U => V \in T PROVE U \in T
  <2>1. CASE U = {}
    BY <2>1, SumEmpty
  <2>2. CASE U # {}
    <3> DEFINE c == Pick(U)
    <3>1. c \in U
      BY <2>2 DEF Pick
    <3> HIDE DEF c
    <3>2. IsFiniteSet(U)
      BY FS_Subset
    <3>3. SumFunctionOnSet(f, U) = f[c] + SumFunctionOnSet(f, U \ {c})
      BY <2>2, <3>2, SumPick DEF c
    <3>4. U \ {c} \in T
      BY <1>1, <3>1
    <3>5. SumFunctionOnSet(f, U) \in Int
      BY <3>1, <3>3, <3>4
    <3>6. ASSUME NEW x \in U
          PROVE  SumFunctionOnSet(f, U) = f[x] + SumFunctionOnSet(f, U \ {x})
      <4>1. CASE x = c
        BY <3>3, <4>1
      <4>2. CASE x # c
        <5>1. SumFunctionOnSet(f, U \ {c}) = f[x] + SumFunctionOnSet(f, (U \ {c}) \ {x})
          BY <3>4, <4>2
        <5>2. U \ {x} \in T
          BY <1>1
        <5>3. SumFunctionOnSet(f, U \ {x}) = f[c] + SumFunctionOnSet(f, (U \ {x}) \ {c})
          BY <3>1, <4>2, <5>2
        <5>4. (U \ {x}) \ {c} = (U \ {c}) \ {x}
          OBVIOUS
        <5>5. (U \ {c}) \ {x} \in T
          BY <1>1, <3>1
        <5>6. f[x] \in Int /\ f[c] \in Int /\ SumFunctionOnSet(f, (U \ {c}) \ {x}) \in Int
          BY <3>1, <5>5
        <5> DEFINE rest == SumFunctionOnSet(f, (U \ {c}) \ {x})
        <5>7. SumFunctionOnSet(f, U) = f[c] + (f[x] + rest)
          BY <3>3, <5>1
        <5>8. SumFunctionOnSet(f, U \ {x}) = f[c] + rest
          BY <5>3, <5>4
        <5> HIDE DEF rest
        <5> QED
          BY <5>6, <5>7, <5>8 DEF rest
      <4> QED
        BY <4>1, <4>2
    <3> QED
      BY <3>5, <3>6
  <2> QED
    BY <2>1, <2>2
<1>2. SUBSET S \subseteq T
  <2> HIDE DEF T
  <2> QED
    BY <1>1, SubsetInduction
<1> QED
  BY <1>2

\* Functions that agree have the same sum.
LEMMA SumSame ==
  ASSUME NEW f, NEW g, NEW S, IsFiniteSet(S), \A s \in S : f[s] = g[s]
  PROVE  SumFunctionOnSet(f, S) = SumFunctionOnSet(g, S)
<1> DEFINE T == {U \in SUBSET S : SumFunctionOnSet(f, U) = SumFunctionOnSet(g, U)}
<1>1. ASSUME NEW U \in SUBSET S, \A V \in SUBSET U : V # U => V \in T PROVE U \in T
  <2>1. CASE U = {}
    BY <2>1, SumEmpty
  <2>2. CASE U # {}
    <3>1. Pick(U) \in U
      BY <2>2 DEF Pick
    <3>2. IsFiniteSet(U)
      BY FS_Subset
    <3>3. U \ {Pick(U)} \in T
      BY <1>1, <3>1
    <3>4. SumFunctionOnSet(f, U) = f[Pick(U)] + SumFunctionOnSet(f, U \ {Pick(U)})
      BY <2>2, <3>2, SumPick
    <3>5. SumFunctionOnSet(g, U) = g[Pick(U)] + SumFunctionOnSet(g, U \ {Pick(U)})
      BY <2>2, <3>2, SumPick
    <3> QED
      BY <3>1, <3>3, <3>4, <3>5
  <2> QED
    BY <2>1, <2>2
<1>2. SUBSET S \subseteq T
  <2> HIDE DEF T
  <2> QED
    BY <1>1, SubsetInduction
<1> QED
  BY <1>2

\* A larger function has a larger sum.
LEMMA SumMonotone ==
  ASSUME NEW f, NEW g, NEW S, IsFiniteSet(S),
         \A s \in S : f[s] \in Int /\ g[s] \in Int /\ f[s] <= g[s]
  PROVE  SumFunctionOnSet(f, S) <= SumFunctionOnSet(g, S)
<1> DEFINE T == {U \in SUBSET S : SumFunctionOnSet(f, U) <= SumFunctionOnSet(g, U)}
<1>1. ASSUME NEW U \in SUBSET S, \A V \in SUBSET U : V # U => V \in T PROVE U \in T
  <2>1. CASE U = {}
    BY <2>1, SumEmpty
  <2>2. CASE U # {}
    <3>1. PICK x \in U : TRUE
      BY <2>2
    <3>2. IsFiniteSet(U) /\ IsFiniteSet(U \ {x})
      BY FS_Subset, FS_RemoveElement
    <3>3. SumFunctionOnSet(f, U \ {x}) <= SumFunctionOnSet(g, U \ {x})
      BY <1>1
    <3>4. SumFunctionOnSet(f, U) = f[x] + SumFunctionOnSet(f, U \ {x})
      BY <3>2, SumTakesOut
    <3>5. SumFunctionOnSet(g, U) = g[x] + SumFunctionOnSet(g, U \ {x})
      BY <3>2, SumTakesOut
    <3>6. SumFunctionOnSet(f, U \ {x}) \in Int /\ SumFunctionOnSet(g, U \ {x}) \in Int
      BY <3>2, SumTakesOut
    <3>7. f[x] \in Int /\ g[x] \in Int /\ f[x] <= g[x]
      OBVIOUS
    <3>8. SumFunctionOnSet(f, U) <= SumFunctionOnSet(g, U)
      BY <3>3, <3>4, <3>5, <3>6, <3>7
    <3> QED
      BY <3>8
  <2> QED
    BY <2>1, <2>2
<1>2. SUBSET S \subseteq T
  <2> HIDE DEF T
  <2> QED
    BY <1>1, SubsetInduction
<1> QED
  BY <1>2

\* Ones add up to their number.
LEMMA SumOfOnes ==
  ASSUME NEW S, IsFiniteSet(S)
  PROVE  SumFunctionOnSet([s \in S |-> 1], S) = Cardinality(S)
<1> DEFINE one == [s \in S |-> 1]
           T == {U \in SUBSET S : SumFunctionOnSet(one, U) = Cardinality(U)}
<1>1. ASSUME NEW U \in SUBSET S, \A V \in SUBSET U : V # U => V \in T PROVE U \in T
  <2>1. CASE U = {}
    BY <2>1, SumEmpty, FS_EmptySet
  <2>2. CASE U # {}
    <3>1. PICK x \in U : TRUE
      BY <2>2
    <3>2. IsFiniteSet(U) /\ Cardinality(U) \in Nat
      BY FS_Subset, FS_CardinalityType
    <3>3. SumFunctionOnSet(one, U \ {x}) = Cardinality(U \ {x})
      BY <1>1
    <3>4. Cardinality(U \ {x}) = Cardinality(U) - 1
      BY <3>2, FS_RemoveElement
    <3>5. one[x] = 1 /\ \A s \in U : one[s] \in Int
      OBVIOUS
    <3>6. SumFunctionOnSet(one, U) = one[x] + SumFunctionOnSet(one, U \ {x})
      <4> HIDE DEF one
      <4> QED
        BY <3>2, <3>5, SumTakesOut
    <3>7. SumFunctionOnSet(one, U) = Cardinality(U)
      <4> HIDE DEF one
      <4> QED
        BY <3>2, <3>3, <3>4, <3>5, <3>6
    <3> QED
      BY <3>7
  <2> QED
    BY <2>1, <2>2
<1>2. SUBSET S \subseteq T
  <2> HIDE DEF T
  <2> QED
    BY <1>1, SubsetInduction
<1> QED
  BY <1>2

\* A sum is the sum of a part and the sum of the rest.
LEMMA SumSplits ==
  ASSUME NEW f, NEW S, IsFiniteSet(S), NEW A \in SUBSET S, \A s \in S : f[s] \in Int
  PROVE  SumFunctionOnSet(f, S) = SumFunctionOnSet(f, A) + SumFunctionOnSet(f, S \ A)
<1> DEFINE T == {U \in SUBSET A : SumFunctionOnSet(f, S)
                                    = SumFunctionOnSet(f, U) + SumFunctionOnSet(f, S \ U)}
<1>0. IsFiniteSet(A)
  BY FS_Subset
<1>1. ASSUME NEW U \in SUBSET A, \A V \in SUBSET U : V # U => V \in T PROVE U \in T
  <2>1. CASE U = {}
    <3>1. S \ U = S /\ SumFunctionOnSet(f, S) \in Int
      BY <2>1, SumTakesOut
    <3> QED
      BY <2>1, <3>1, SumEmpty
  <2>2. CASE U # {}
    <3>1. PICK x \in U : TRUE
      BY <2>2
    <3> DEFINE V == U \ {x}
    <3>2. V \in T
      BY <1>1
    <3>3. IsFiniteSet(U) /\ IsFiniteSet(V) /\ IsFiniteSet(S \ V) /\ IsFiniteSet(S \ U)
      BY FS_Subset
    <3>4. (S \ V) \ {x} = S \ U /\ x \in S \ V
      OBVIOUS
    <3>5. SumFunctionOnSet(f, U) = f[x] + SumFunctionOnSet(f, V)
      BY <3>3, SumTakesOut
    <3>6. SumFunctionOnSet(f, S \ V) = f[x] + SumFunctionOnSet(f, S \ U)
      BY <3>3, <3>4, SumTakesOut
    <3>7. SumFunctionOnSet(f, V) \in Int /\ SumFunctionOnSet(f, S \ U) \in Int
      BY <3>3, SumTakesOut
    <3>8. SumFunctionOnSet(f, S) = SumFunctionOnSet(f, V) + SumFunctionOnSet(f, S \ V)
      BY <3>2
    <3>9. SumFunctionOnSet(f, S) = SumFunctionOnSet(f, U) + SumFunctionOnSet(f, S \ U)
      <4>1. f[x] \in Int
        OBVIOUS
      <4> HIDE DEF V
      <4> QED
        BY <3>5, <3>6, <3>7, <3>8, <4>1
    <3> QED
      BY <3>9
  <2> QED
    BY <2>1, <2>2
<1>2. SUBSET A \subseteq T
  <2> HIDE DEF T
  <2> QED
    BY <1>0, <1>1, SubsetInduction
<1> QED
  BY <1>2

\* A sum of naturals is a natural, and no smaller than the sum of a part.
LEMMA SumNat ==
  ASSUME NEW f, NEW S, IsFiniteSet(S), \A s \in S : f[s] \in Nat
  PROVE  /\ SumFunctionOnSet(f, S) \in Nat
         /\ \A A \in SUBSET S : SumFunctionOnSet(f, A) <= SumFunctionOnSet(f, S)
<1> DEFINE zero == [s \in S |-> 0]
<1>1. ASSUME NEW A \in SUBSET S PROVE SumFunctionOnSet(f, A) \in Nat
  <2> DEFINE T == {U \in SUBSET A : SumFunctionOnSet(f, U) \in Nat}
  <2>1. ASSUME NEW U \in SUBSET A, \A V \in SUBSET U : V # U => V \in T PROVE U \in T
    <3>1. CASE U = {}
      BY <3>1, SumEmpty
    <3>2. CASE U # {}
      <4>1. Pick(U) \in U
        BY <3>2 DEF Pick
      <4>2. IsFiniteSet(U)
        BY FS_Subset
      <4>3. U \ {Pick(U)} \in T
        BY <2>1, <4>1
      <4>4. SumFunctionOnSet(f, U) = f[Pick(U)] + SumFunctionOnSet(f, U \ {Pick(U)})
        BY <3>2, <4>2, SumPick
      <4> QED
        BY <4>1, <4>3, <4>4
    <3> QED
      BY <3>1, <3>2
  <2>2. SUBSET A \subseteq T
    <3>1. IsFiniteSet(A)
      BY FS_Subset
    <3> HIDE DEF T
    <3> QED
      BY <2>1, <3>1, SubsetInduction
  <2> QED
    BY <2>2
<1>2. ASSUME NEW A \in SUBSET S PROVE SumFunctionOnSet(f, A) <= SumFunctionOnSet(f, S)
  <2>1. SumFunctionOnSet(f, A) \in Nat /\ SumFunctionOnSet(f, S \ A) \in Nat
    BY <1>1
  <2>2. SumFunctionOnSet(f, S) = SumFunctionOnSet(f, A) + SumFunctionOnSet(f, S \ A)
    BY SumSplits
  <2> QED
    BY <2>1, <2>2
<1> QED
  BY <1>1, <1>2

\* What each b of B takes at most from a part of S that it shares with no other adds up to
\* no more than S has.
LEMMA SumOfParts ==
  ASSUME NEW f, NEW B, IsFiniteSet(B), NEW w, NEW S, IsFiniteSet(S), NEW Part,
         \A s \in S : w[s] \in Nat,
         \A b \in B : /\ f[b] \in Int
                      /\ Part[b] \in SUBSET S
                      /\ f[b] <= SumFunctionOnSet(w, Part[b]),
         \A b, c \in B : b # c => Part[b] \cap Part[c] = {}
  PROVE  SumFunctionOnSet(f, B) <= SumFunctionOnSet(w, S)
<1> DEFINE Fits(U, Q) == SumFunctionOnSet(f, U) <= SumFunctionOnSet(w, Q)
           T == {U \in SUBSET B :
                   \A Q \in SUBSET S : (\A b \in U : Part[b] \subseteq Q) => Fits(U, Q)}
<1>1. ASSUME NEW U \in SUBSET B, \A V \in SUBSET U : V # U => V \in T PROVE U \in T
  <2> SUFFICES ASSUME NEW Q \in SUBSET S, \A b \in U : Part[b] \subseteq Q
               PROVE  Fits(U, Q)
    OBVIOUS
  <2>1. IsFiniteSet(U) /\ IsFiniteSet(Q)
    BY FS_Subset
  <2>2. CASE U = {}
    <3>1. SumFunctionOnSet(f, U) = 0
      BY <2>2, SumEmpty
    <3>2. SumFunctionOnSet(w, Q) \in Nat
      BY <2>1, SumNat
    <3> QED
      BY <3>1, <3>2
  <2>3. CASE U # {}
    <3>1. PICK b \in U : TRUE
      BY <2>3
    <3> DEFINE P == Part[b]
    <3>2. SumFunctionOnSet(f, U) = f[b] + SumFunctionOnSet(f, U \ {b})
      BY <2>1, SumTakesOut
    <3>3. P \in SUBSET Q /\ \A s \in Q : w[s] \in Int
      OBVIOUS
    <3>4. SumFunctionOnSet(w, Q) = SumFunctionOnSet(w, P) + SumFunctionOnSet(w, Q \ P)
      <4> HIDE DEF P
      <4> QED
        BY <2>1, <3>3, SumSplits
    <3>5. U \ {b} \in T
      BY <1>1
    <3>6. \A c \in U \ {b} : Part[c] \subseteq Q \ P
      OBVIOUS
    <3>7. Fits(U \ {b}, Q \ P)
      <4>1. Q \ P \in SUBSET S
        OBVIOUS
      <4> HIDE DEF P, Fits
      <4> QED
        BY <3>5, <3>6, <4>1
    <3>8. f[b] <= SumFunctionOnSet(w, P) /\ f[b] \in Int
      OBVIOUS
    <3>9. SumFunctionOnSet(f, U \ {b}) \in Int
      BY <2>1, FS_RemoveElement, SumTakesOut
    <3>10. SumFunctionOnSet(w, P) \in Int
      <4>1. IsFiniteSet(P) /\ \A s \in P : w[s] \in Int
        BY <2>1, <3>3, FS_Subset
      <4> HIDE DEF P
      <4> QED
        BY <4>1, SumTakesOut
    <3>11. SumFunctionOnSet(w, Q \ P) \in Int
      <4>1. IsFiniteSet(Q \ P) /\ \A s \in Q \ P : w[s] \in Int
        BY <2>1, <3>3, FS_Subset
      <4> HIDE DEF P
      <4> QED
        BY <4>1, SumTakesOut
    <3> QED
      <4> HIDE DEF P
      <4> QED
        BY <3>2, <3>4, <3>7, <3>8, <3>9, <3>10, <3>11
  <2> QED
    BY <2>2, <2>3
<1>2. SUBSET B \subseteq T
  <2> HIDE DEF T
  <2> QED
    BY <1>1, SubsetInduction
<1> QED
  BY <1>2
=============================================================================
