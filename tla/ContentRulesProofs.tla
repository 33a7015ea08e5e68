--------------------------- MODULE ContentRulesProofs ---------------------------
(***************************************************************************)
(* Proofs about ContentRules: what the functions without state promise,    *)
(* for every problem the tables let through.                               *)
(***************************************************************************)
EXTENDS ContentRules, FiniteSetTheorems, SequenceTheorems, TLAPS

(* Every set of naturals that is not empty has a least element: the order  *)
(* of the naturals is well-founded.                                        *)
LEMMA LeastNat ==
  ASSUME NEW T \in SUBSET Nat, T # {}
  PROVE  \E n \in T : \A m \in T : n <= m
  <1> DEFINE R == OpToRel(<, Nat)
  <1>1. IsWellFoundedOn(R, Nat)
    BY NatLessThanWellFounded
  <1>2. \A m, n \in Nat : m < n => <<m, n>> \in R
    BY DEF OpToRel
  <1> HIDE DEF R
  <1>3. PICK n \in T : \A m \in T : ~(<<m, n>> \in R)
    BY <1>1, WFMin
  <1>4. \A m \in T : ~(m < n)
    BY <1>2, <1>3
  <1> QED BY <1>4

(* Induction over a set of naturals.                                       *)
LEMMA NatSetInduction ==
  ASSUME NEW T, 0 \in T, \A n \in Nat : n \in T => n + 1 \in T
  PROVE  Nat \subseteq T
  <1> SUFFICES ASSUME Nat \ T # {} PROVE FALSE
    OBVIOUS
  <1>1. PICK n \in Nat \ T : \A m \in Nat \ T : n <= m
    BY LeastNat
  <1>2. n # 0 /\ n - 1 \in Nat /\ n - 1 < n
    BY <1>1
  <1>3. n - 1 \in T
    BY <1>1, <1>2
  <1> QED BY <1>1, <1>2, <1>3

(* Taking an element out of a finite set leaves one less.                  *)
LEMMA OneLess ==
  ASSUME NEW S, IsFiniteSet(S), NEW x \in S
  PROVE  /\ IsFiniteSet(S \ {x})
         /\ Cardinality(S) \in Nat /\ Cardinality(S \ {x}) \in Nat
         /\ Cardinality(S) = Cardinality(S \ {x}) + 1
  <1>1. /\ IsFiniteSet(S \ {x})
        /\ Cardinality(S \ {x}) = IF x \in S THEN Cardinality(S) - 1 ELSE Cardinality(S)
    BY FS_RemoveElement
  <1>2. Cardinality(S) \in Nat /\ Cardinality(S \ {x}) \in Nat
    BY <1>1, FS_CardinalityType
  <1> QED BY <1>1, <1>2

(* A finite set has a greatest element in every total preorder.            *)
LEMMA GreatestIn ==
  ASSUME NEW S, IsFiniteSet(S), S # {}, NEW R,
         \A x, y \in S : <<x, y>> \in R \/ <<y, x>> \in R,
         \A x, y, z \in S : <<x, y>> \in R /\ <<y, z>> \in R => <<x, z>> \in R
  PROVE  \E x \in S : \A y \in S : <<x, y>> \in R
  <1> DEFINE Has(U) == \E x \in U : \A y \in U : <<x, y>> \in R
             T == {k \in Nat : \A U \in SUBSET S :
                     IsFiniteSet(U) /\ Cardinality(U) = k /\ U # {} => Has(U)}
  <1>1. 0 \in T
    BY FS_EmptySet
  <1>2. ASSUME NEW k \in Nat, k \in T PROVE k + 1 \in T
    <2> SUFFICES ASSUME NEW U \in SUBSET S, IsFiniteSet(U), Cardinality(U) = k + 1, U # {}
                 PROVE  Has(U)
      OBVIOUS
    <2>1. PICK u : u \in U
      OBVIOUS
    <2>2. IsFiniteSet(U \ {u}) /\ Cardinality(U \ {u}) = k
      <3> HIDE DEF T
      <3>1. /\ IsFiniteSet(U \ {u}) /\ Cardinality(U \ {u}) \in Nat
            /\ Cardinality(U) = Cardinality(U \ {u}) + 1
        BY <2>1, OneLess
      <3> QED BY <3>1
    <2>3. CASE U \ {u} = {}
      <3>1. \A y \in U : y = u
        BY <2>3
      <3>2. <<u, u>> \in R
        BY <2>1
      <3> QED BY <2>1, <3>1, <3>2
    <2>4. CASE U \ {u} # {}
      <3>1. PICK x \in U \ {u} : \A y \in U \ {u} : <<x, y>> \in R
        BY <1>2, <2>2, <2>4
      <3>2. CASE <<x, u>> \in R
        BY <3>1, <3>2
      <3>3. CASE <<u, x>> \in R
        <4>1. <<u, u>> \in R
          BY <2>1
        <4>2. \A y \in U : <<u, y>> \in R
          BY <2>1, <3>1, <3>3, <4>1
        <4> QED BY <2>1, <4>2
      <3> QED BY <2>1, <3>1, <3>2, <3>3
    <2> QED BY <2>3, <2>4
  <1>3. Nat \subseteq T
    <2> HIDE DEF T
    <2> QED BY <1>1, <1>2, NatSetInduction
  <1>4. Cardinality(S) \in T
    BY <1>3, FS_CardinalityType
  <1> QED BY <1>4

(* A finite set of numbers has a greatest one and a least one.             *)
LEMMA MaxIs ==
  ASSUME NEW S \in SUBSET Int, IsFiniteSet(S), S # {}
  PROVE  /\ Max(S) \in S /\ \A y \in S : Max(S) >= y
         /\ Min(S) \in S /\ \A y \in S : Min(S) <= y
  <1> DEFINE G == {p \in Int \X Int : p[1] >= p[2]}
             L == {p \in Int \X Int : p[1] <= p[2]}
  <1>0. \A x, y \in Int : (<<x, y>> \in G <=> x >= y) /\ (<<x, y>> \in L <=> x <= y)
    OBVIOUS
  <1>i. \A x \in S : x \in Int
    OBVIOUS
  <1> HIDE DEF G, L
  <1>1. \E x \in S : \A y \in S : <<x, y>> \in G
    <2>1. \A x, y \in S : <<x, y>> \in G \/ <<y, x>> \in G
      <3> SUFFICES ASSUME NEW x \in S, NEW y \in S PROVE x >= y \/ y >= x
        BY <1>0, <1>i
      <3> QED BY <1>i
    <2>2. \A x, y, z \in S : <<x, y>> \in G /\ <<y, z>> \in G => <<x, z>> \in G
      <3> SUFFICES ASSUME NEW x \in S, NEW y \in S, NEW z \in S, x >= y, y >= z PROVE x >= z
        BY <1>0, <1>i
      <3> QED BY <1>i
    <2> QED BY <2>1, <2>2, GreatestIn
  <1>2. \E x \in S : \A y \in S : <<x, y>> \in L
    <2>1. \A x, y \in S : <<x, y>> \in L \/ <<y, x>> \in L
      <3> SUFFICES ASSUME NEW x \in S, NEW y \in S PROVE x <= y \/ y <= x
        BY <1>0, <1>i
      <3> QED BY <1>i
    <2>2. \A x, y, z \in S : <<x, y>> \in L /\ <<y, z>> \in L => <<x, z>> \in L
      <3> SUFFICES ASSUME NEW x \in S, NEW y \in S, NEW z \in S, x <= y, y <= z PROVE x <= z
        BY <1>0, <1>i
      <3> QED BY <1>i
    <2> QED BY <2>1, <2>2, GreatestIn
  <1>3. \E x \in S : \A y \in S : x >= y
    BY <1>0, <1>1
  <1>4. \E x \in S : \A y \in S : x =< y
    BY <1>0, <1>2
  <1> QED BY <1>3, <1>4 DEF Max, Min

(* A finite set can be listed in every strict total order.                 *)
StrictOrder(R, S) ==
  /\ \A x, y \in S : x # y => <<x, y>> \in R \/ <<y, x>> \in R
  /\ \A x, y, z \in S : <<x, y>> \in R /\ <<y, z>> \in R => <<x, z>> \in R
  /\ \A x \in S : ~(<<x, x>> \in R)
ListedIn(list, S, R) ==
  /\ list \in [1..Cardinality(S) -> S]
  /\ \A i, k \in DOMAIN list : i < k => <<list[i], list[k]>> \in R

(* A list in that order exists for the CHOOSE of Arranged to find.          *)
LEMMA CanBeArranged ==
  ASSUME NEW S, IsFiniteSet(S), NEW R, StrictOrder(R, S)
  PROVE  \E list : ListedIn(list, S, R)
  <1> USE DEF StrictOrder
  <1> DEFINE Sorted(list) == \A i, k \in DOMAIN list : i < k => <<list[i], list[k]>> \in R
             T == {k \in Nat : \A U \in SUBSET S : IsFiniteSet(U) /\ Cardinality(U) = k =>
                     \E list \in [1..k -> U] : Sorted(list)}
  <1>1. 0 \in T
    <2> SUFFICES ASSUME NEW U \in SUBSET S, IsFiniteSet(U), Cardinality(U) = 0
                 PROVE  \E list \in [1..0 -> U] : Sorted(list)
      OBVIOUS
    <2> DEFINE none == [i \in 1..0 |-> 0]
    <2>1. none \in [1..0 -> U] /\ Sorted(none)
      OBVIOUS
    <2> HIDE DEF none, Sorted
    <2> QED BY <2>1
  <1>2. ASSUME NEW k \in Nat, k \in T PROVE k + 1 \in T
    <2> SUFFICES ASSUME NEW U \in SUBSET S, IsFiniteSet(U), Cardinality(U) = k + 1
                 PROVE  \E list \in [1..(k + 1) -> U] : Sorted(list)
      OBVIOUS
    <2>1. U # {}
      BY FS_EmptySet
    <2>2. PICK m \in U : \A n \in U : n # m => <<n, m>> \in R
      <3> DEFINE Q == {p \in S \X S : p[1] = p[2] \/ <<p[2], p[1]>> \in R}
      <3>1. \A x, y \in S : <<x, y>> \in Q <=> x = y \/ <<y, x>> \in R
        OBVIOUS
      <3> HIDE DEF Q, T
      <3>2. \A x, y \in U : <<x, y>> \in Q \/ <<y, x>> \in Q
        BY <3>1
      <3>3. \A x, y, z \in U : <<x, y>> \in Q /\ <<y, z>> \in Q => <<x, z>> \in Q
        BY <3>1
      <3>4. \E x \in U : \A y \in U : <<x, y>> \in Q
        BY <2>1, <3>2, <3>3, GreatestIn
      <3> QED BY <3>1, <3>4
    <2>3. IsFiniteSet(U \ {m}) /\ Cardinality(U \ {m}) = k
      <3> HIDE DEF T
      <3>1. /\ IsFiniteSet(U \ {m}) /\ Cardinality(U \ {m}) \in Nat
            /\ Cardinality(U) = Cardinality(U \ {m}) + 1
        BY <2>2, OneLess
      <3> QED BY <3>1
    <2>4. PICK rest \in [1..k -> U \ {m}] : Sorted(rest)
      BY <1>2, <2>3
    <2> DEFINE list == [i \in 1..(k + 1) |-> IF i = k + 1 THEN m ELSE rest[i]]
    <2>5. \A i \in 1..(k + 1) : i # k + 1 => i \in 1..k /\ list[i] = rest[i] /\ list[i] \in U \ {m}
      OBVIOUS
    <2>6. list \in [1..(k + 1) -> U]
      BY <2>5
    <2>7. ASSUME NEW i \in 1..(k + 1), NEW j \in 1..(k + 1), i < j
          PROVE  <<list[i], list[j]>> \in R
      <3>1. i # k + 1 /\ list[i] = rest[i] /\ list[i] \in U \ {m} /\ i \in 1..k
        BY <2>5, <2>7
      <3>2. CASE j = k + 1
        <4>1. list[j] = m
          BY <3>2
        <4> HIDE DEF list
        <4> QED BY <2>2, <3>1, <4>1
      <3>3. CASE j # k + 1
        <4>1. list[j] = rest[j] /\ j \in 1..k
          BY <2>5, <3>3
        <4> HIDE DEF list
        <4> QED BY <2>4, <2>7, <3>1, <4>1
      <3> QED BY <3>2, <3>3
    <2>8. Sorted(list)
      BY <2>7
    <2> HIDE DEF list
    <2> QED BY <2>6, <2>8
  <1>3. Nat \subseteq T
    <2> HIDE DEF T
    <2> QED BY <1>1, <1>2, NatSetInduction
  <1>4. Cardinality(S) \in T
    BY <1>3, FS_CardinalityType
  <1> QED BY <1>4 DEF ListedIn

(* A list of a set in a strict order has each of its elements.             *)
LEMMA ArrangedHasAll ==
  ASSUME NEW S, IsFiniteSet(S), NEW R, StrictOrder(R, S), NEW list, ListedIn(list, S, R)
  PROVE  /\ Cardinality(S) \in Nat
         /\ \A x \in S : \E i \in 1..Cardinality(S) : list[i] = x
         /\ \A i, k \in 1..Cardinality(S) : list[i] = list[k] => i = k
  <1> USE DEF StrictOrder, ListedIn
  <1> DEFINE n == Cardinality(S)
  <1>1. n \in Nat
    BY FS_CardinalityType
  <1> HIDE DEF n
  <1>3. \A i, k \in 1..n : list[i] = list[k] => i = k
    <2> SUFFICES ASSUME NEW i \in 1..n, NEW k \in 1..n, list[i] = list[k] PROVE i = k
      OBVIOUS
    <2>1. list[i] \in S /\ list[k] \in S
      BY DEF n
    <2>2. ~(i < k) /\ ~(k < i)
      BY <2>1 DEF n
    <2> QED BY <1>1, <2>2
  <1>4. list \in Injection(1..n, S)
    BY <1>3 DEF Injection, IsInjective, n
  <1>5. IsFiniteSet(1..n) /\ Cardinality(1..n) = n
    BY <1>1, FS_Interval
  <1>6. list \in Surjection(1..n, S)
    BY <1>4, <1>5, FS_Injection DEF n
  <1> QED BY <1>1, <1>3, <1>6 DEF Surjection, n

(* Recursion over the subsets of a finite set that takes one element away  *)
(* at a time defines a function.                                           *)
Recursive(f, D, b, c, B) ==
  \A s \in SUBSET D : f[s] = IF s = {} THEN b ELSE B[<<s, f[s \ {c[s]}]>>]

(* There is a function with that recursion.                                 *)
LEMMA SubsetRecursion ==
  ASSUME NEW D, IsFiniteSet(D), NEW V, NEW b \in V, NEW c,
         NEW B \in [(SUBSET D) \X V -> V],
         \A s \in SUBSET D : s # {} => c[s] \in s
  PROVE  \E f \in [SUBSET D -> V] : Recursive(f, D, b, c, B)
  <1> DEFINE Body(f, s) == IF s = {} THEN b ELSE B[<<s, f[s \ {c[s]}]>>]
             Upto(k, f) == \A s \in SUBSET D : Cardinality(s) <= k => f[s] = Body(f, s)
             T == {k \in Nat : \E f \in [SUBSET D -> V] : Upto(k, f)}
  <1>0. \A s \in SUBSET D : Cardinality(s) \in Nat /\ (Cardinality(s) = 0 <=> s = {})
    BY FS_Subset, FS_CardinalityType, FS_EmptySet
  <1>t. \A f \in [SUBSET D -> V] : \A s \in SUBSET D : Body(f, s) \in V
    <2> SUFFICES ASSUME NEW f \in [SUBSET D -> V], NEW s \in SUBSET D, s # {} PROVE Body(f, s) \in V
      OBVIOUS
    <2>1. f[s \ {c[s]}] \in V
      OBVIOUS
    <2>2. <<s, f[s \ {c[s]}]>> \in (SUBSET D) \X V
      BY <2>1
    <2> QED BY <2>2
  <1>1. 0 \in T
    <2> DEFINE f == [s \in SUBSET D |-> b]
    <2>1. f \in [SUBSET D -> V] /\ Upto(0, f)
      BY <1>0
    <2> HIDE DEF f, Upto
    <2> QED BY <2>1
  <1>2. ASSUME NEW k \in Nat, k \in T PROVE k + 1 \in T
    <2>1. PICK f \in [SUBSET D -> V] : Upto(k, f)
      BY <1>2
    <2> DEFINE g == [s \in SUBSET D |-> Body(f, s)]
    <2>2. g \in [SUBSET D -> V]
      BY <1>t
    <2>3. \A s \in SUBSET D : Cardinality(s) <= k => g[s] = f[s]
      BY <2>1
    <2>4. ASSUME NEW s \in SUBSET D, Cardinality(s) <= k + 1 PROVE g[s] = Body(g, s)
      <3>1. CASE s = {}
        BY <3>1
      <3>2. CASE s # {}
        <4>1. c[s] \in s /\ IsFiniteSet(s)
          BY <3>2, FS_Subset
        <4>2. Cardinality(s \ {c[s]}) \in Nat /\ Cardinality(s) = Cardinality(s \ {c[s]}) + 1
          <5> HIDE DEF T, g
          <5> QED BY <4>1, OneLess
        <4>3. Cardinality(s \ {c[s]}) <= k
          BY <2>4, <4>2
        <4>4. g[s \ {c[s]}] = f[s \ {c[s]}]
          BY <2>3, <4>3
        <4>5. Body(g, s) = Body(f, s)
          BY <4>4
        <4> QED BY <4>5
      <3> QED BY <3>1, <3>2
    <2>5. Upto(k + 1, g)
      BY <2>4
    <2> HIDE DEF g, Upto
    <2> QED BY <2>2, <2>5
  <1>3. Nat \subseteq T
    <2> HIDE DEF T
    <2> QED BY <1>1, <1>2, NatSetInduction
  <1>4. PICK f \in [SUBSET D -> V] : Upto(Cardinality(D), f)
    BY <1>3, FS_CardinalityType
  <1>5. \A s \in SUBSET D : Cardinality(s) <= Cardinality(D)
    BY FS_Subset
  <1> QED BY <1>4, <1>5 DEF Recursive

(* The instances count as this module does.                                 *)
LEMMA SameSize == \A S : Cards!Cardinality(S) = Cardinality(S)
  BY DEF Cards!Cardinality, Cardinality

(* What follows for scores, whatever they are: a score is unique when no    *)
(* other is within the tolerance of it.                                     *)
LEMMA UniqueIs ==
  ASSUME NEW n \in Nat, NEW scores \in [1..n -> Int], NEW i \in 1..n
  PROVE  Cards!ScoreIsUnique(scores, scores[i])
           <=> \A k \in (1..n) \ {i} : ~Cards!Near(scores[k], scores[i])
  <1> DEFINE near == {k \in 1..n : Cards!Near(scores[k], scores[i])}
  <1>1. i \in near
    <2>1. scores[i] \in Int
      OBVIOUS
    <2> QED BY <2>1 DEF Cards!Near, Cards!Tolerance
  <1>2. IsFiniteSet(near)
    BY FS_Interval, FS_Subset
  <1>3. Cards!ScoreIsUnique(scores, scores[i]) <=> Cardinality(near) = 1
    <2>1. DOMAIN scores = 1..n
      OBVIOUS
    <2>2. near = {k \in DOMAIN scores : Cards!Near(scores[k], scores[i])}
      BY <2>1
    <2>3. Cards!ScoreIsUnique(scores, scores[i])
            <=> Cardinality({k \in DOMAIN scores : Cards!Near(scores[k], scores[i])}) = 1
      BY SameSize DEF Cards!ScoreIsUnique
    <2> HIDE DEF near
    <2> QED BY <2>2, <2>3
  <1>4. near = {i} <=> \A k \in (1..n) \ {i} : ~Cards!Near(scores[k], scores[i])
    BY <1>1
  <1> HIDE DEF near
  <1>5. Cardinality(near) = 1 <=> \E x : near = {x}
    BY <1>2, FS_Singleton
  <1>6. (\E x : near = {x}) <=> near = {i}
    BY <1>1
  <1> QED BY <1>3, <1>4, <1>5, <1>6

(* The extremes of the scores are scores.                                   *)
LEMMA ExtremesAre ==
  ASSUME NEW n \in Nat \ {0}, NEW scores \in [1..n -> Int]
  PROVE  /\ \E b \in 1..n : scores[b] = Cards!Max(Cards!ToSet(scores))
         /\ \A k \in 1..n : scores[k] <= Cards!Max(Cards!ToSet(scores))
         /\ \E b \in 1..n : scores[b] = Cards!Min(Cards!ToSet(scores))
         /\ \A k \in 1..n : scores[k] >= Cards!Min(Cards!ToSet(scores))
  <1> DEFINE S == {scores[k] : k \in 1..n}
  <1>1. S \in SUBSET Int /\ S # {}
    BY 1 \in 1..n
  <1>2. IsFiniteSet(S)
    <2>1. scores \in Surjection(1..n, S)
      BY DEF Surjection
    <2> QED BY <2>1, FS_Interval, FS_Surjection
  <1>3. Cards!ToSet(scores) = S
    BY DEF Cards!ToSet
  <1>4. Cards!Max(S) = Max(S) /\ Cards!Min(S) = Min(S)
    BY DEF Cards!Max, Cards!Min, Max, Min
  <1>5. /\ Max(S) \in S /\ \A y \in S : Max(S) >= y
        /\ Min(S) \in S /\ \A y \in S : Min(S) <= y
    BY <1>1, <1>2, MaxIs
  <1>6. (\E b \in 1..n : scores[b] = Max(S)) /\ (\E b \in 1..n : scores[b] = Min(S))
    BY <1>5
  <1>7. \A k \in 1..n : scores[k] \in S /\ scores[k] \in Int
    OBVIOUS
  <1>8. Max(S) \in Int /\ Min(S) \in Int
    BY <1>1, <1>5
  <1> HIDE DEF S
  <1>9. \A k \in 1..n : scores[k] <= Max(S) /\ scores[k] >= Min(S)
    BY <1>5, <1>7, <1>8
  <1> QED BY <1>3, <1>4, <1>6, <1>9

(* The verdict on a score is what comparing it with every other says.       *)
LEMMA VerdictIs ==
  ASSUME NEW n \in Nat, NEW scores \in [1..n -> Int], NEW i \in 1..n
  PROVE  LET verdict == Cards!Verdict(scores, i)
             clear(j, k) == scores[j] - scores[k] > 1
             others == (1..n) \ {i}
             tied == \E k \in others : ~clear(i, k) /\ ~clear(k, i)
             best == \A k \in others : clear(i, k)
             worst == \A k \in others : clear(k, i)
         IN IF scores[i] = 0 THEN verdict = "insufficient"
            ELSE /\ verdict = "tied" <=> tied
                 /\ verdict = "top" <=> best
                 /\ verdict = "underperforming" <=> worst /\ ~best
  <1> DEFINE max == Cards!Max(Cards!ToSet(scores))
             min == Cards!Min(Cards!ToSet(scores))
             clear(j, k) == scores[j] - scores[k] > 1
             others == (1..n) \ {i}
             best == \A k \in others : clear(i, k)
             worst == \A k \in others : clear(k, i)
             top == i = Cards!BestPosition(scores)
             bottom == i = Cards!WorstPosition(scores)
  <1>0. /\ \A k \in 1..n : scores[k] \in Int
        /\ n \in Nat \ {0} /\ DOMAIN scores = 1..n /\ i \in Nat \ {0}
    OBVIOUS
  <1>1. \A j, k \in 1..n : Cards!Near(scores[k], scores[j]) <=> ~clear(j, k) /\ ~clear(k, j)
    <2> SUFFICES ASSUME NEW j \in 1..n, NEW k \in 1..n
                 PROVE  Cards!Near(scores[k], scores[j]) <=> ~clear(j, k) /\ ~clear(k, j)
      OBVIOUS
    <2>1. scores[j] \in Int /\ scores[k] \in Int
      OBVIOUS
    <2> QED BY <2>1 DEF Cards!Near, Cards!Tolerance
  <1>c. \A j, k \in 1..n :
          /\ clear(j, k) => scores[j] # scores[k]
          /\ scores[j] <= scores[k] => ~clear(j, k)
    BY <1>0
  <1> HIDE DEF clear
  <1>2. \A j \in 1..n : Cards!ScoreIsUnique(scores, scores[j])
           <=> \A k \in (1..n) \ {j} : clear(j, k) \/ clear(k, j)
    <2> TAKE j \in 1..n
    <2>1. Cards!ScoreIsUnique(scores, scores[j])
            <=> \A k \in (1..n) \ {j} : ~Cards!Near(scores[k], scores[j])
      BY UniqueIs
    <2> QED BY <1>1, <2>1
  <1>3. top <=> best
    <2>1. /\ \E b \in 1..n : scores[b] = max
          /\ \A k \in 1..n : scores[k] <= max
      BY <1>0, ExtremesAre
    <2> HIDE DEF max
    <2>2. PICK b \in 1..n : scores[b] = max
      BY <2>1
    <2>4. \A k \in 1..n : ~clear(k, b)
      BY <1>c, <2>1, <2>2
    <2>3. best => i = b
      BY <2>4
    <2>5. CASE Cards!ScoreIsUnique(scores, max)
      <3>1. \A k \in (1..n) \ {b} : clear(b, k)
        BY <1>2, <2>2, <2>4, <2>5
      <3>2. \A k \in 1..n : scores[k] = max <=> k = b
        BY <1>c, <2>2, <3>1
      <3>3. (CHOOSE k \in 1..n : scores[k] = max) = b
        BY <3>2
      <3>4. Cards!BestPosition(scores) = b
        BY <1>0, <2>5, <3>3 DEF Cards!BestPosition, max
      <3> QED BY <2>3, <3>1, <3>4
    <2>6. CASE ~Cards!ScoreIsUnique(scores, max)
      <3>1. Cards!BestPosition(scores) = 0
        BY <2>6 DEF Cards!BestPosition, max
      <3>2. \E k \in (1..n) \ {b} : ~clear(b, k)
        BY <1>2, <2>2, <2>6
      <3> QED BY <1>0, <2>3, <3>1, <3>2
    <2> QED BY <2>5, <2>6
  <1>4. bottom <=> worst
    <2>1. /\ \E b \in 1..n : scores[b] = min
          /\ \A k \in 1..n : scores[k] >= min
      BY <1>0, ExtremesAre
    <2> HIDE DEF min
    <2>2. PICK b \in 1..n : scores[b] = min
      BY <2>1
    <2>4. \A k \in 1..n : ~clear(b, k)
      BY <1>c, <2>1, <2>2
    <2>3. worst => i = b
      BY <2>4
    <2>5. CASE Cards!ScoreIsUnique(scores, min)
      <3>1. \A k \in (1..n) \ {b} : clear(k, b)
        BY <1>2, <2>2, <2>4, <2>5
      <3>2. \A k \in 1..n : scores[k] = min <=> k = b
        BY <1>c, <2>2, <3>1
      <3>3. (CHOOSE k \in 1..n : scores[k] = min) = b
        BY <3>2
      <3>4. Cards!WorstPosition(scores) = b
        BY <1>0, <2>5, <3>3 DEF Cards!WorstPosition, min
      <3> QED BY <2>3, <3>1, <3>4
    <2>6. CASE ~Cards!ScoreIsUnique(scores, min)
      <3>1. Cards!WorstPosition(scores) = 0
        BY <2>6 DEF Cards!WorstPosition, min
      <3>2. \E k \in (1..n) \ {b} : ~clear(k, b)
        BY <1>2, <2>2, <2>6
      <3> QED BY <1>0, <2>3, <3>1, <3>2
    <2> QED BY <2>5, <2>6
  <1> HIDE DEF top, bottom
  <1>5. Cards!Verdict(scores, i) =
          IF scores[i] = 0 THEN "insufficient"
          ELSE IF ~Cards!ScoreIsUnique(scores, scores[i]) THEN "tied"
          ELSE IF top THEN "top" ELSE IF bottom THEN "underperforming" ELSE "middle"
    BY DEF Cards!Verdict, top, bottom
  <1>6. /\ Cards!ScoreIsUnique(scores, scores[i])
             <=> \A k \in others : clear(i, k) \/ clear(k, i)
        /\ best => Cards!ScoreIsUnique(scores, scores[i])
        /\ worst => Cards!ScoreIsUnique(scores, scores[i])
    BY <1>2
  <1> DEFINE verdict == Cards!Verdict(scores, i)
  <1>7. (\E k \in others : ~clear(i, k) /\ ~clear(k, i))
           <=> ~Cards!ScoreIsUnique(scores, scores[i])
    BY <1>6
  <1> DEFINE tied == \E k \in others : ~clear(i, k) /\ ~clear(k, i)
  <1> HIDE DEF best, worst, tied
  <1>8. IF scores[i] = 0 THEN verdict = "insufficient"
        ELSE /\ verdict = "tied" <=> tied
             /\ verdict = "top" <=> best
             /\ verdict = "underperforming" <=> worst /\ ~best
    BY <1>3, <1>4, <1>5, <1>6, <1>7 DEF tied
  <1> QED BY <1>8 DEF best, worst, tied, clear

(* _unique_ids keeps the first mention of each id, in the order of mention. *)
First(ids, n) == n \in DOMAIN ids /\ \A m \in 1..(n - 1) : ids[m] # ids[n]

(* "unique" is what is left of the first n ids.                             *)
Thinned(ids, n, unique) ==
  /\ unique \in Seq(Nat)
  /\ \A x \in Nat : (\E i \in DOMAIN unique : unique[i] = x) <=> (\E m \in 1..n : ids[m] = x)
  /\ \A i, k \in DOMAIN unique : i < k =>
       \E l, m \in 1..n : /\ First(ids, l) /\ First(ids, m) /\ l < m
                          /\ ids[l] = unique[i] /\ ids[m] = unique[k]

(* Every id of a list has a first place in it.                              *)
LEMMA FirstMention ==
  ASSUME NEW ids \in Seq(Nat), NEW n \in 1..Len(ids)
  PROVE  \E m \in 1..n : ids[m] = ids[n] /\ First(ids, m)
  <1> DEFINE M == {m \in 1..n : ids[m] = ids[n]}
  <1>1. M \in SUBSET Nat /\ n \in M
    OBVIOUS
  <1>2. PICK m \in M : \A l \in M : m <= l
    BY <1>1, LeastNat
  <1>3. m \in 1..n /\ ids[m] = ids[n] /\ m \in DOMAIN ids
    BY <1>2
  <1>4. \A l \in 1..(m - 1) : ids[l] # ids[m]
    <2> SUFFICES ASSUME NEW l \in 1..(m - 1), ids[l] = ids[m] PROVE FALSE
      OBVIOUS
    <2>1. l \in 1..n /\ ~(m <= l)
      BY <1>3
    <2>2. l \in M
      BY <1>3, <2>1
    <2> QED BY <1>2, <2>1, <2>2
  <1> QED BY <1>3, <1>4 DEF First

(* A list thinned of one more id that it repeats.                           *)
LEMMA ThinnedStep ==
  ASSUME NEW ids \in Seq(Nat), NEW n \in Nat, n + 1 \in 1..Len(ids), NEW unique, Thinned(ids, n, unique)
  PROVE  Thinned(ids, n + 1, IF ids[n + 1] \in Cards!ToSet(unique) THEN unique
                             ELSE Append(unique, ids[n + 1]))
  <1> DEFINE x == ids[n + 1]
             longer == Append(unique, x)
  <1>1. /\ x \in Nat /\ unique \in Seq(Nat) /\ Len(unique) \in Nat
        /\ DOMAIN unique = 1..Len(unique)
        /\ \A m \in 1..(n + 1) : m \in 1..n \/ m = n + 1
        /\ 1..n \subseteq 1..(n + 1) /\ n + 1 \in 1..(n + 1)
    BY DEF Thinned
  <1>2. x \in Cards!ToSet(unique) <=> \E m \in 1..n : ids[m] = x
    BY <1>1 DEF Thinned, Cards!ToSet
  <1>3. CASE x \in Cards!ToSet(unique)
    <2>1. \A y \in Nat : (\E m \in 1..(n + 1) : ids[m] = y) <=> (\E m \in 1..n : ids[m] = y)
      BY <1>1, <1>2, <1>3
    <2>2. ASSUME NEW i \in DOMAIN unique, NEW k \in DOMAIN unique, i < k
          PROVE  \E l, m \in 1..(n + 1) : /\ First(ids, l) /\ First(ids, m) /\ l < m
                                          /\ ids[l] = unique[i] /\ ids[m] = unique[k]
      <3>1. PICK l \in 1..n, m \in 1..n : /\ First(ids, l) /\ First(ids, m) /\ l < m
                                           /\ ids[l] = unique[i] /\ ids[m] = unique[k]
        BY <2>2 DEF Thinned
      <3> QED BY <1>1, <3>1
    <2>3. Thinned(ids, n + 1, unique)
      BY <1>1, <2>1, <2>2 DEF Thinned
    <2> QED BY <1>3, <2>3
  <1>4. CASE x \notin Cards!ToSet(unique)
    <2>1. /\ longer \in Seq(Nat) /\ DOMAIN longer = 1..(Len(unique) + 1)
          /\ longer[Len(unique) + 1] = x
          /\ \A i \in 1..Len(unique) : longer[i] = unique[i]
          /\ \A i \in 1..(Len(unique) + 1) : i \in 1..Len(unique) \/ i = Len(unique) + 1
          /\ 1..Len(unique) \subseteq 1..(Len(unique) + 1)
          /\ Len(unique) + 1 \in 1..(Len(unique) + 1)
      BY <1>1
    <2> HIDE DEF longer
    <2>2. First(ids, n + 1)
      <3>1. n + 1 \in DOMAIN ids /\ n + 1 - 1 = n
        OBVIOUS
      <3> QED BY <1>2, <1>4, <3>1 DEF First
    <2>3. ASSUME NEW y \in Nat
          PROVE  (\E i \in DOMAIN longer : longer[i] = y) <=> (\E m \in 1..(n + 1) : ids[m] = y)
      <3>1. (\E i \in DOMAIN longer : longer[i] = y)
               <=> (\E i \in 1..Len(unique) : unique[i] = y) \/ y = x
        BY <2>1
      <3>2. (\E m \in 1..(n + 1) : ids[m] = y) <=> (\E m \in 1..n : ids[m] = y) \/ y = x
        BY <1>1
      <3>3. (\E i \in 1..Len(unique) : unique[i] = y) <=> (\E m \in 1..n : ids[m] = y)
        BY <1>1 DEF Thinned
      <3> HIDE DEF x
      <3> QED BY <3>1, <3>2, <3>3
    <2>4. ASSUME NEW i \in DOMAIN longer, NEW k \in DOMAIN longer, i < k
          PROVE  \E l, m \in 1..(n + 1) : /\ First(ids, l) /\ First(ids, m) /\ l < m
                                          /\ ids[l] = longer[i] /\ ids[m] = longer[k]
      <3>0. i \in 1..(Len(unique) + 1) /\ k \in 1..(Len(unique) + 1)
        BY <2>1
      <3>1. i \in 1..Len(unique) /\ longer[i] = unique[i]
        <4>1. i # Len(unique) + 1
          BY <1>1, <2>4, <3>0
        <4> QED BY <2>1, <3>0, <4>1
      <3>2. CASE k = Len(unique) + 1
        <4>1. unique[i] \in Nat
          BY <1>1, <3>1
        <4>2. PICK p \in 1..n : ids[p] = unique[i]
          BY <1>1, <3>1, <4>1 DEF Thinned
        <4>3. PICK l \in 1..p : ids[l] = ids[p] /\ First(ids, l)
          <5>1. p \in 1..Len(ids)
            OBVIOUS
          <5> QED BY <5>1, FirstMention
        <4>4. l \in 1..(n + 1) /\ l < n + 1 /\ ids[l] = longer[i]
          BY <3>1, <4>2, <4>3
        <4> QED BY <1>1, <2>1, <2>2, <3>2, <4>3, <4>4
      <3>3. CASE k # Len(unique) + 1
        <4>1. k \in 1..Len(unique) /\ longer[k] = unique[k]
          BY <2>1, <3>0, <3>3
        <4>2. PICK l \in 1..n, m \in 1..n : /\ First(ids, l) /\ First(ids, m) /\ l < m
                                /\ ids[l] = unique[i] /\ ids[m] = unique[k]
          <5>1. i \in DOMAIN unique /\ k \in DOMAIN unique
            BY <1>1, <3>1, <4>1
          <5> QED BY <2>4, <5>1 DEF Thinned
        <4> QED BY <1>1, <3>1, <4>1, <4>2
      <3> QED BY <3>2, <3>3
    <2>5. Thinned(ids, n + 1, longer)
      BY <2>1, <2>3, <2>4 DEF Thinned
    <2> QED BY <1>4, <2>5 DEF longer
  <1> QED BY <1>3, <1>4

(* _unique_ids keeps the first mention of each id, in order.                *)
LEMMA UniqueIdsAre ==
  ASSUME NEW ids \in Seq(Nat)
  PROVE  Thinned(ids, Len(ids), Cards!UniqueIds(ids))
  <1> DEFINE D == DOMAIN ids
             Add(u, id) == IF id \in Cards!ToSet(u) THEN u ELSE Append(u, id)
             Step(f, s) == IF s = {} THEN <<>> ELSE Add(f[s \ {Cards!Max(s)}], ids[Cards!Max(s)])
             iter == CHOOSE f : f = [s \in SUBSET D |-> Step(f, s)]
  <1>0. D = 1..Len(ids) /\ Len(ids) \in Nat /\ IsFiniteSet(D) /\ D \in SUBSET Int
    BY FS_Interval
  <1>1. \A s \in SUBSET D : s # {} => Cards!Max(s) \in s /\ \A k \in s : Cards!Max(s) >= k
    <2> SUFFICES ASSUME NEW s \in SUBSET D, s # {}
                 PROVE  Cards!Max(s) \in s /\ \A k \in s : Cards!Max(s) >= k
      OBVIOUS
    <2>1. s \in SUBSET Int /\ IsFiniteSet(s)
      BY <1>0, FS_Subset
    <2>2. Max(s) \in s /\ \A k \in s : Max(s) >= k
      BY <2>1, MaxIs
    <2> QED BY <2>2 DEF Cards!Max, Max
  <1>2. Cards!UniqueIds(ids) = iter[D]
    BY DEF Cards!UniqueIds, Cards!FoldLeft, Cards!MapThenFoldSet
  <1>3. \E f : f = [s \in SUBSET D |-> Step(f, s)]
    <2> DEFINE B == [q \in (SUBSET D) \X Seq(Nat) |-> IF q[1] = {} THEN <<>> ELSE Add(q[2], ids[Cards!Max(q[1])])]
               c == [s \in SUBSET D |-> Cards!Max(s)]
    <2>1. B \in [(SUBSET D) \X Seq(Nat) -> Seq(Nat)]
      <3> SUFFICES ASSUME NEW s \in SUBSET D, s # {}, NEW u \in Seq(Nat)
                   PROVE  Add(u, ids[Cards!Max(s)]) \in Seq(Nat)
        OBVIOUS
      <3>1. ids[Cards!Max(s)] \in Nat
        BY <1>1
      <3> QED BY <3>1
    <2>2. \A s \in SUBSET D : s # {} => c[s] \in s
      BY <1>1
    <2>3. <<>> \in Seq(Nat)
      OBVIOUS
    <2>4. \A s \in SUBSET D, u \in Seq(Nat) :
            s # {} => B[<<s, u>>] = Add(u, ids[Cards!Max(s)]) /\ c[s] = Cards!Max(s)
      OBVIOUS
    <2> HIDE DEF B, c, D, Add
    <2> DEFINE V == Seq(Nat)
               none == <<>>
    <2>f. IsFiniteSet(D)
      BY <1>0
    <2>a. B \in [(SUBSET D) \X V -> V] /\ none \in V
      BY <2>1, <2>3
    <2> HIDE DEF V, none
    <2>b. \E f \in [SUBSET D -> V] :
            Recursive(f, D, none, c, B)
      BY <2>f, <2>a, <2>2, SubsetRecursion
    <2>5. PICK f \in [SUBSET D -> Seq(Nat)] :
            \A s \in SUBSET D : f[s] = IF s = {} THEN <<>> ELSE B[<<s, f[s \ {c[s]}]>>]
      BY <2>b DEF V, none, Recursive
    <2>6. \A s \in SUBSET D : f[s] = Step(f, s)
      <3> SUFFICES ASSUME NEW s \in SUBSET D, s # {} PROVE f[s] = Step(f, s)
        BY <2>5
      <3>1. c[s] = Cards!Max(s) /\ f[s \ {Cards!Max(s)}] \in Seq(Nat)
        BY <2>4
      <3> QED BY <2>4, <2>5, <3>1
    <2>7. f = [s \in SUBSET D |-> Step(f, s)]
      BY <2>6
    <2> QED BY <2>7
  <1>4. iter = [s \in SUBSET D |-> Step(iter, s)]
    BY <1>3
  <1>5. \A s \in SUBSET D : iter[s] = Step(iter, s)
    <2> HIDE DEF iter
    <2> QED BY <1>4
  <1> HIDE DEF iter
  <1> DEFINE T == {n \in Nat : n <= Len(ids) => Thinned(ids, n, iter[1..n])}
  <1>6. 0 \in T
    <2>1. iter[1..0] = <<>>
      <3>1. 1..0 = {} /\ {} \in SUBSET D
        OBVIOUS
      <3> HIDE DEF D
      <3> QED BY <1>5, <3>1
    <2>2. Thinned(ids, 0, <<>>)
      BY DEF Thinned
    <2> QED BY <2>1, <2>2
  <1>7. ASSUME NEW n \in Nat, n \in T PROVE n + 1 \in T
    <2> SUFFICES ASSUME n + 1 <= Len(ids) PROVE Thinned(ids, n + 1, iter[1..(n + 1)])
      OBVIOUS
    <2>1. n + 1 \in 1..Len(ids) /\ n <= Len(ids)
      BY <1>0
    <2>0. 1..(n + 1) \in SUBSET D
      <3> HIDE DEF D
      <3>1. 1..(n + 1) \subseteq 1..Len(ids)
        BY <1>0, <2>1
      <3> QED BY <1>0, <3>1
    <2>2. /\ 1..(n + 1) # {}
          /\ 1..n = (1..(n + 1)) \ {n + 1} /\ n + 1 \in 1..(n + 1)
          /\ \A k \in 1..(n + 1) : k >= n + 1 => k = n + 1
      <3> HIDE DEF T, D
      <3>1. n + 1 \in 1..(n + 1) /\ \A k \in 1..(n + 1) : k >= n + 1 => k = n + 1
        OBVIOUS
      <3>2. \A k : k \in 1..n <=> k \in 1..(n + 1) /\ k # n + 1
        OBVIOUS
      <3> QED BY <3>1, <3>2
    <2>3. Cards!Max(1..(n + 1)) = n + 1
      BY <1>1, <2>0, <2>2
    <2>4. iter[1..(n + 1)] = Add(iter[1..n], ids[n + 1])
      BY <1>5, <2>0, <2>2, <2>3
    <2>5. Thinned(ids, n, iter[1..n])
      BY <1>7, <2>1
    <2>6. Thinned(ids, n + 1, Add(iter[1..n], ids[n + 1]))
      BY <2>1, <2>5, ThinnedStep
    <2> QED BY <2>4, <2>6
  <1>8. Len(ids) \in T
    <2> HIDE DEF T
    <2> QED BY <1>0, <1>6, <1>7, NatSetInduction
  <1> QED BY <1>0, <1>2, <1>8

(* What AskCards answers.                                                   *)
CardsAnswer(p) ==
  IF Cards!Refused(p.exports, p.campaign, p.ids) THEN "refused"
  ELSE Cards!BuildRecommendationCards(p.exports, p.snapshots, p.campaign, p.ids)
Own(p) == {e \in p.exports : e.campaign = p.campaign}
OwnIds(p) == {e.id : e \in Own(p)}
Wanted(p) == IF p.ids = <<>> THEN OwnIds(p) ELSE ToSet(p.ids)
Order(p) == IF p.ids = <<>> THEN Cards!Arranged(OwnIds(p), <) ELSE Cards!UniqueIds(p.ids)

(* An export is wanted before another: it is older, or mentioned first.     *)
Before(p, a, b) ==
  IF p.ids = <<>> THEN a < b
  ELSE \E l, m \in DOMAIN p.ids : /\ First(p.ids, l) /\ First(p.ids, m) /\ l < m
                                  /\ p.ids[l] = a /\ p.ids[m] = b

(* The exports of a campaign have finitely many ids.                        *)
LEMMA OwnIdsFinite ==
  ASSUME NEW p \in CardProblems
  PROVE  IsFiniteSet(OwnIds(p)) /\ OwnIds(p) \in SUBSET Nat
  <1> DEFINE f == [e \in Own(p) |-> e.id]
  <1>1. IsFiniteSet(Own(p))
    BY CardsAssumption, FS_Subset DEF Own
  <1>2. f \in Surjection(Own(p), OwnIds(p))
    BY DEF Surjection, OwnIds
  <1>3. IsFiniteSet(OwnIds(p))
    BY <1>1, <1>2, FS_Surjection
  <1>4. OwnIds(p) \in SUBSET Nat
    BY CardsAssumption DEF OwnIds, Own
  <1> QED BY <1>3, <1>4

(* The cards are of the exports that are wanted, each once and in order.    *)
LEMMA OrderIs ==
  ASSUME NEW p \in CardProblems, Wanted(p) \subseteq OwnIds(p)
  PROVE  \E n \in Nat :
           /\ Order(p) \in [1..n -> OwnIds(p)]
           /\ \A x : x \in Wanted(p) <=> \E i \in 1..n : Order(p)[i] = x
           /\ \A i, k \in 1..n : i < k => Before(p, Order(p)[i], Order(p)[k])
  <1> DEFINE S == OwnIds(p)
             order == Order(p)
             n == Cardinality(S)
  <1>1. IsFiniteSet(S) /\ S \in SUBSET Nat /\ n \in Nat
    BY OwnIdsFinite, FS_CardinalityType
  <1>2. CASE p.ids = <<>>
    <2> DEFINE R == {q \in Nat \X Nat : q[1] < q[2]}
    <2>1. \A x, y \in Nat : <<x, y>> \in R <=> x < y
      OBVIOUS
    <2>i. \A x \in S : x \in Nat
      BY <1>1
    <2> HIDE DEF R, S, n
    <2>2. \A x, y \in S : x # y => <<x, y>> \in R \/ <<y, x>> \in R
      <3> SUFFICES ASSUME NEW x \in S, NEW y \in S, x # y PROVE x < y \/ y < x
        BY <2>1, <2>i
      <3> QED BY <2>i
    <2>3. \A x, y, z \in S : <<x, y>> \in R /\ <<y, z>> \in R => <<x, z>> \in R
      <3> SUFFICES ASSUME NEW x \in S, NEW y \in S, NEW z \in S, x < y, y < z PROVE x < z
        BY <2>1, <2>i
      <3> QED BY <2>i
    <2>4. \A x \in S : ~(<<x, x>> \in R)
      BY <2>1, <2>i
    <2>s. StrictOrder(R, S)
      BY <2>2, <2>3, <2>4 DEF StrictOrder
    <2>5. PICK list : ListedIn(list, S, R)
      BY <1>1, <2>s, CanBeArranged
    <2>6. list \in [1..n -> S] /\ \A i, k \in DOMAIN list : i < k => list[i] < list[k]
      BY <2>1, <2>5, <2>i DEF ListedIn, n
    <2>7. /\ Cards!Arranged(S, <) \in [1..n -> S]
          /\ \A i, k \in DOMAIN Cards!Arranged(S, <) :
               i < k => Cards!Arranged(S, <)[i] < Cards!Arranged(S, <)[k]
      BY <2>6, SameSize DEF Cards!Arranged, n
    <2>8. order = Cards!Arranged(S, <)
      BY <1>2 DEF Order, S
    <2> HIDE DEF order
    <2>9. /\ order \in [1..Cardinality(S) -> S] /\ DOMAIN order = 1..n
          /\ \A i, k \in DOMAIN order : i < k => order[i] < order[k]
      BY <2>7, <2>8 DEF n
    <2>10. ListedIn(order, S, R)
      BY <2>1, <2>9, <2>i DEF ListedIn
    <2>11. \A x \in S : \E i \in 1..Cardinality(S) : order[i] = x
      BY <1>1, <2>s, <2>10, ArrangedHasAll
    <2>12. Wanted(p) = S
      BY <1>2 DEF Wanted, S
    <2>13. \A i, k \in 1..n : i < k => Before(p, order[i], order[k])
      BY <1>2, <2>9 DEF Before
    <2>14. \A x : x \in Wanted(p) <=> \E i \in 1..n : order[i] = x
      BY <2>9, <2>11, <2>12 DEF n
    <2> QED BY <1>1, <2>9, <2>13, <2>14 DEF order, S, n
  <1>3. CASE p.ids # <<>>
    <2> DEFINE len == Len(order)
    <2>1. p.ids \in Seq(Nat) /\ order = Cards!UniqueIds(p.ids)
      BY <1>3, CardsAssumption DEF Order
    <2>2. Thinned(p.ids, Len(p.ids), order)
      BY <2>1, UniqueIdsAre
    <2> HIDE DEF order
    <2>3. /\ order \in Seq(Nat) /\ len \in Nat /\ DOMAIN order = 1..len
          /\ DOMAIN p.ids = 1..Len(p.ids)
          /\ \A m \in DOMAIN p.ids : p.ids[m] \in Nat
      BY <2>1, <2>2 DEF Thinned
    <2>4. \A x : x \in Wanted(p) <=> \E m \in DOMAIN p.ids : p.ids[m] = x
      BY <1>3 DEF Wanted, ToSet
    <2>5. \A x : x \in Wanted(p) <=> \E i \in 1..len : order[i] = x
      <3>1. \A x \in Nat : (\E i \in 1..len : order[i] = x) <=> (\E m \in DOMAIN p.ids : p.ids[m] = x)
        BY <2>2, <2>3 DEF Thinned
      <3>2. \A i \in 1..len : order[i] \in Nat
        BY <2>3
      <3> QED BY <2>3, <2>4, <3>1, <3>2
    <2>6. order \in [1..len -> OwnIds(p)]
      <3>1. \A i \in 1..len : order[i] \in OwnIds(p)
        BY <2>5
      <3>2. order = [i \in 1..len |-> order[i]]
        BY <2>3
      <3> QED BY <3>1, <3>2
    <2>7. ASSUME NEW i \in 1..len, NEW k \in 1..len, i < k
          PROVE  Before(p, order[i], order[k])
      <3>1. i \in DOMAIN order /\ k \in DOMAIN order
        BY <2>3
      <3>2. \E l, m \in 1..Len(p.ids) : /\ First(p.ids, l) /\ First(p.ids, m) /\ l < m
                                        /\ p.ids[l] = order[i] /\ p.ids[m] = order[k]
        BY <2>2, <2>7, <3>1 DEF Thinned
      <3> QED BY <1>3, <2>3, <3>2 DEF Before
    <2> QED BY <2>3, <2>5, <2>6, <2>7 DEF order
  <1> QED BY <1>2, <1>3

(* The first row of a query that orders by time and id is a latest one.     *)
LEMMA LatestIs ==
  ASSUME NEW p \in CardProblems, NEW e \in Own(p)
  PROVE  LET m == Cards!LatestMetrics(p.snapshots, p.campaign, e)
             own == {s \in p.snapshots : s.export = e.id}
         IN /\ IF own = {} THEN m = None
               ELSE m \in own /\ \A s \in own : s.at <= m.at
            /\ Cards!MetricScore(m) \in Int
  <1> DEFINE m == Cards!LatestMetrics(p.snapshots, p.campaign, e)
             own == {s \in p.snapshots : s.export = e.id}
  <1>1. /\ IsFiniteSet(p.snapshots)
        /\ \A s \in p.snapshots : s.id \in Int /\ s.at \in Int /\ {s.watch, s.full} \subseteq Numbers
        /\ \A s \in p.snapshots : s.export = e.id => s.campaign = p.campaign
    BY CardsAssumption DEF Own
  <1>2. {s \in p.snapshots : s.campaign = p.campaign /\ s.export = e.id} = own
    BY <1>1
  <1>3. m = IF own = {} THEN None ELSE CHOOSE s \in own : \A t \in own : Cards!Later(s, t)
    <2> DEFINE of == {s \in p.snapshots : s.campaign = p.campaign /\ s.export = e.id}
    <2>1. m = IF of = {} THEN None ELSE CHOOSE s \in of : \A t \in of : Cards!Later(s, t)
      BY DEF Cards!LatestMetrics
    <2>2. of = own
      BY <1>2
    <2> HIDE DEF of, own, m
    <2> QED BY <2>1, <2>2
  <1>4. CASE own = {}
    <2>1. m = None
      BY <1>3, <1>4
    <2> HIDE DEF m, own
    <2> QED BY <1>4, <2>1 DEF Cards!MetricScore, m, own
  <1>5. CASE own # {}
    <2> DEFINE R == {q \in own \X own : Cards!Later(q[1], q[2])}
    <2>1. \A s, t \in own : <<s, t>> \in R <=> Cards!Later(s, t)
      OBVIOUS
    <2>2. IsFiniteSet(own) /\ \A s \in own : s.id \in Int /\ s.at \in Int
      BY <1>1, FS_Subset
    <2> HIDE DEF own, R, m
    <2>3. \A s, t \in own : <<s, t>> \in R \/ <<t, s>> \in R
      <3> SUFFICES ASSUME NEW s \in own, NEW t \in own PROVE Cards!Later(s, t) \/ Cards!Later(t, s)
        BY <2>1
      <3>1. s.id \in Int /\ s.at \in Int /\ t.id \in Int /\ t.at \in Int
        BY <2>2
      <3> QED BY <3>1 DEF Cards!Later
    <2>4. \A s, t, u \in own : <<s, t>> \in R /\ <<t, u>> \in R => <<s, u>> \in R
      <3> SUFFICES ASSUME NEW s \in own, NEW t \in own, NEW u \in own,
                          Cards!Later(s, t), Cards!Later(t, u)
                   PROVE  Cards!Later(s, u)
        BY <2>1
      <3>1. s.id \in Int /\ s.at \in Int /\ t.id \in Int /\ t.at \in Int /\ u.id \in Int /\ u.at \in Int
        BY <2>2
      <3> QED BY <3>1 DEF Cards!Later
    <2>5. \E s \in own : \A t \in own : <<s, t>> \in R
      BY <1>5, <2>2, <2>3, <2>4, GreatestIn
    <2>6. \E s \in own : \A t \in own : Cards!Later(s, t)
      BY <2>1, <2>5
    <2>7. m \in own /\ \A t \in own : Cards!Later(m, t)
      BY <1>3, <1>5, <2>6
    <2>8. \A t \in own : t.at <= m.at
      <3> SUFFICES ASSUME NEW t \in own PROVE t.at <= m.at
        OBVIOUS
      <3>1. t.at \in Int /\ m.at \in Int /\ Cards!Later(m, t)
        BY <2>2, <2>7
      <3> QED BY <3>1 DEF Cards!Later
    <2>9. Cards!MetricScore(m) \in Int
      <3>1. m \in p.snapshots
        BY <2>7 DEF own
      <3>2. m.watch \in Numbers /\ m.full \in Numbers
        BY <1>1, <3>1
      <3>3. Cards!OrZero(m.watch) \in Int /\ Cards!OrZero(m.full) \in Int
        BY <3>2 DEF Cards!OrZero, Numbers
      <3> QED BY <3>3 DEF Cards!MetricScore
    <2> QED BY <1>5, <2>7, <2>8, <2>9 DEF m, own
  <1> QED BY <1>4, <1>5

(* The exports of the cards.                                                *)
LEMMA ChosenIs ==
  ASSUME NEW p \in CardProblems, NEW n \in Nat, Order(p) \in [1..n -> OwnIds(p)]
  PROVE  LET chosen == Cards!Chosen(p.exports, p.campaign, p.ids)
         IN /\ chosen \in [1..n -> Own(p)]
            /\ \A i \in 1..n : chosen[i].id = Order(p)[i]
  <1> DEFINE chosen == Cards!Chosen(p.exports, p.campaign, p.ids)
             byId(id) == CHOOSE e \in Own(p) : e.id = id
  <1>1. chosen = [i \in DOMAIN Order(p) |-> byId(Order(p)[i])]
    BY DEF Cards!Chosen, Order, Own, OwnIds
  <1>2. \A id \in OwnIds(p) : byId(id) \in Own(p) /\ byId(id).id = id
    BY DEF OwnIds
  <1> HIDE DEF chosen, byId
  <1>3. DOMAIN Order(p) = 1..n /\ \A i \in 1..n : Order(p)[i] \in OwnIds(p)
    OBVIOUS
  <1> QED BY <1>1, <1>2, <1>3 DEF chosen

(* A request is refused for an id that is not of the campaign.              *)
LEMMA RefusedIs ==
  ASSUME NEW p \in CardProblems
  PROVE  Cards!Refused(p.exports, p.campaign, p.ids) <=> ~(Wanted(p) \subseteq OwnIds(p))
  <1>1. Cards!Refused(p.exports, p.campaign, p.ids)
          <=> \E i \in DOMAIN p.ids : p.ids[i] \notin OwnIds(p)
    BY DEF Cards!Refused, OwnIds, Own
  <1>2. CASE p.ids = <<>>
    BY <1>1, <1>2 DEF Wanted
  <1>3. CASE p.ids # <<>>
    BY <1>1, <1>3 DEF Wanted, ToSet
  <1> QED BY <1>2, <1>3

(* The first mention of an id has a place of its own.                       *)
LEMMA FirstIs ==
  ASSUME NEW ids \in Seq(Nat), NEW l, First(ids, l)
  PROVE  l = CHOOSE n \in DOMAIN ids : ids[n] = ids[l] /\ \A m \in 1..(n - 1) : ids[m] # ids[l]
  <1>1. /\ l \in DOMAIN ids /\ \A m \in 1..(l - 1) : ids[m] # ids[l]
        /\ DOMAIN ids \in SUBSET Nat /\ \A n \in DOMAIN ids : n > 0
    BY DEF First
  <1>2. ASSUME NEW n \in DOMAIN ids, ids[n] = ids[l], \A m \in 1..(n - 1) : ids[m] # ids[l]
        PROVE  n = l
    <2>1. n \in Nat /\ l \in Nat /\ n > 0 /\ l > 0
      BY <1>1
    <2>2. ~(n < l)
      <3>1. n < l => n \in 1..(l - 1)
        BY <2>1
      <3> QED BY <1>1, <1>2, <3>1
    <2>3. ~(l < n)
      <3>1. l < n => l \in 1..(n - 1)
        BY <2>1
      <3> QED BY <1>2, <3>1
    <2> QED BY <2>1, <2>2, <2>3
  <1> QED BY <1>1, <1>2

(* What is computed for a problem is what CardsRight promises.              *)
LEMMA CardsAreRight ==
  ASSUME kind = "cards", problem \in CardProblems, answer = CardsAnswer(problem)
  PROVE  CardsRight
  <1> DEFINE p == problem
             own == {e \in problem.exports : e.campaign = problem.campaign}
             wanted == IF problem.ids = <<>> THEN {e.id : e \in own} ELSE ToSet(problem.ids)
             Right == /\ {answer[i].export : i \in DOMAIN answer} = wanted
                      /\ OncePerExport
                      /\ \A i \in DOMAIN answer : VerdictHolds(i) /\ JudgedByLatest(answer[i])
                      /\ \A i \in DOMAIN answer, e \in own :
                           e.id = answer[i].export => TextRespected(answer[i], e)
  <1>1. own = Own(p) /\ {e.id : e \in own} = OwnIds(p) /\ wanted = Wanted(p)
    BY DEF Own, OwnIds, Wanted
  <1>2. Cards!Refused(p.exports, p.campaign, p.ids) <=> ~(Wanted(p) \subseteq OwnIds(p))
    BY RefusedIs
  <1>3. CASE ~(Wanted(p) \subseteq OwnIds(p))
    <2>1. answer = "refused"
      BY <1>2, <1>3 DEF CardsAnswer
    <2> HIDE DEF p, own, wanted
    <2>2. ~(wanted \subseteq {e.id : e \in own})
      BY <1>1, <1>3
    <2> QED BY <2>1, <2>2 DEF CardsRight, own, wanted
  <1>4. CASE Wanted(p) \subseteq OwnIds(p)
    <2>1. PICK n \in Nat :
            /\ Order(p) \in [1..n -> OwnIds(p)]
            /\ \A x : x \in Wanted(p) <=> \E i \in 1..n : Order(p)[i] = x
            /\ \A i, k \in 1..n : i < k => Before(p, Order(p)[i], Order(p)[k])
      BY <1>4, OrderIs
    <2> DEFINE chosen == Cards!Chosen(p.exports, p.campaign, p.ids)
               metrics == [i \in 1..n |-> Cards!LatestMetrics(p.snapshots, p.campaign, chosen[i])]
               scores == [i \in 1..n |-> Cards!MetricScore(metrics[i])]
    <2>2. /\ chosen \in [1..n -> Own(p)] /\ DOMAIN chosen = 1..n
          /\ \A i \in 1..n : chosen[i] \in Own(p)
          /\ \A i \in 1..n : chosen[i].id = Order(p)[i]
      <3> HIDE DEF chosen, p
      <3>1. chosen \in [1..n -> Own(p)] /\ \A i \in 1..n : chosen[i].id = Order(p)[i]
        BY <2>1, ChosenIs DEF chosen, p
      <3> QED BY <3>1
    <2>3. answer = [i \in 1..n |-> Cards!Card(chosen[i], metrics[i], Cards!Verdict(scores, i))]
      <3>1. answer = Cards!BuildRecommendationCards(p.exports, p.snapshots, p.campaign, p.ids)
        BY <1>2, <1>4 DEF CardsAnswer
      <3> HIDE DEF p
      <3> QED BY <2>2, <3>1 DEF Cards!BuildRecommendationCards
    <2> HIDE DEF chosen, metrics, scores
    <2>4. /\ DOMAIN answer = 1..n
          /\ \A i \in 1..n :
               LET text == Cards!TextMetadata(chosen[i])
                   verdict == Cards!Verdict(scores, i)
               IN /\ answer[i].export = Order(p)[i]
                  /\ answer[i].metrics = metrics[i]
                  /\ answer[i].verdict = verdict
                  /\ answer[i].confidence = Cards!Confidence(metrics[i], text)
                  /\ answer[i].hook = Cards!SuggestHook(text, verdict = "top")
                  /\ answer[i].text = text
      BY <2>2, <2>3 DEF Cards!Card
    <2>5. /\ scores \in [1..n -> Int]
          /\ \A i \in 1..n :
               LET all == {s \in problem.snapshots : s.export = Order(p)[i]}
               IN IF all = {} THEN metrics[i] = None
                  ELSE metrics[i] \in all /\ \A s \in all : s.at <= metrics[i].at
          /\ \A i \in 1..n : scores[i] = Score(answer[i])
      <3>1. ASSUME NEW i \in 1..n
            PROVE  /\ Cards!MetricScore(metrics[i]) \in Int
                   /\ LET all == {s \in problem.snapshots : s.export = Order(p)[i]}
                      IN IF all = {} THEN metrics[i] = None
                         ELSE metrics[i] \in all /\ \A s \in all : s.at <= metrics[i].at
        <4>1. metrics[i] = Cards!LatestMetrics(p.snapshots, p.campaign, chosen[i])
          BY DEF metrics
        <4>2. chosen[i] \in Own(p) /\ chosen[i].id = Order(p)[i]
          BY <2>2
        <4> QED BY <4>1, <4>2, LatestIs
      <3>2. \A i \in 1..n : scores[i] = Cards!MetricScore(metrics[i])
        BY DEF scores
      <3>3. scores \in [1..n -> Int]
        BY <3>1 DEF scores
      <3> QED BY <2>4, <3>1, <3>2, <3>3 DEF Score
    <2>6. {answer[i].export : i \in DOMAIN answer} = wanted
      <3>1. \A x : x \in {answer[i].export : i \in DOMAIN answer} <=> \E i \in 1..n : Order(p)[i] = x
        BY <2>4
      <3> HIDE DEF wanted, p
      <3> QED BY <1>1, <2>1, <3>1
    <2>7. OncePerExport
      <3> SUFFICES ASSUME NEW i \in 1..n, NEW k \in 1..n, i < k
                   PROVE  LET position(id) == CHOOSE m \in DOMAIN problem.ids :
                                problem.ids[m] = id /\ \A l \in 1..(m - 1) : problem.ids[l] # id
                          IN IF problem.ids = <<>> THEN answer[i].export < answer[k].export
                             ELSE position(answer[i].export) < position(answer[k].export)
        BY <2>4 DEF OncePerExport
      <3>1. Before(p, answer[i].export, answer[k].export)
        BY <2>1, <2>4
      <3>2. CASE problem.ids = <<>>
        BY <3>1, <3>2 DEF Before
      <3>3. CASE problem.ids # <<>>
        <4>1. PICK l, m \in DOMAIN p.ids :
                /\ First(p.ids, l) /\ First(p.ids, m) /\ l < m
                /\ p.ids[l] = answer[i].export /\ p.ids[m] = answer[k].export
          BY <3>1, <3>3 DEF Before
        <4>2. p.ids \in Seq(Nat)
          BY CardsAssumption
        <4>3. /\ l = CHOOSE x \in DOMAIN p.ids : p.ids[x] = p.ids[l] /\ \A y \in 1..(x - 1) : p.ids[y] # p.ids[l]
              /\ m = CHOOSE x \in DOMAIN p.ids : p.ids[x] = p.ids[m] /\ \A y \in 1..(x - 1) : p.ids[y] # p.ids[m]
          BY <4>1, <4>2, FirstIs
        <4> QED BY <3>3, <4>1, <4>3
      <3> QED BY <3>2, <3>3
    <2>8. ASSUME NEW i \in 1..n PROVE VerdictHolds(i)
      <3> DEFINE verdict == Cards!Verdict(scores, i)
                 clear(j, k) == scores[j] - scores[k] > 1
      <3>1. IF scores[i] = 0 THEN verdict = "insufficient"
            ELSE /\ verdict = "tied" <=> \E k \in (1..n) \ {i} : ~clear(i, k) /\ ~clear(k, i)
                 /\ verdict = "top" <=> \A k \in (1..n) \ {i} : clear(i, k)
                 /\ verdict = "underperforming"
                      <=> (\A k \in (1..n) \ {i} : clear(k, i)) /\ ~(\A k \in (1..n) \ {i} : clear(i, k))
        BY <2>5, VerdictIs
      <3>2. \A j, k \in 1..n : Clear(j, k) <=> clear(j, k)
        BY <2>5 DEF Clear, Cards!Tolerance
      <3>3. verdict = answer[i].verdict /\ scores[i] = Score(answer[i]) /\ Others(i) = (1..n) \ {i}
        BY <2>4, <2>5 DEF Others
      <3> HIDE DEF verdict, clear
      <3> QED BY <3>1, <3>2, <3>3 DEF VerdictHolds
    <2>9. ASSUME NEW i \in 1..n PROVE JudgedByLatest(answer[i])
      <3>1. answer[i].metrics = metrics[i] /\ answer[i].export = Order(p)[i]
        BY <2>4
      <3> QED BY <2>5, <3>1 DEF JudgedByLatest
    <2>10. ASSUME NEW i \in 1..n, NEW e \in own, e.id = answer[i].export
           PROVE  TextRespected(answer[i], e)
      <3>1. e = chosen[i]
        <4>1. e.id = chosen[i].id
          BY <2>2, <2>4, <2>10
        <4> QED BY <2>2, <4>1, CardsAssumption DEF Own
      <3>2. e.noText \in BOOLEAN /\ e.beats \in BOOLEAN /\ e.sceneBeats \in BOOLEAN
        BY CardsAssumption
      <3>3. /\ answer[i].text = Cards!TextMetadata(e)
            /\ answer[i].hook = Cards!SuggestHook(Cards!TextMetadata(e), Cards!Verdict(scores, i) = "top")
            /\ answer[i].confidence = Cards!Confidence(metrics[i], Cards!TextMetadata(e))
        BY <2>4, <3>1
      <3> DEFINE text == Cards!TextMetadata(e)
      <3>4. /\ text.noText = e.noText
            /\ text.beats = (e.beats \/ (~e.noText /\ e.sceneBeats))
            /\ text.warned = ~(e.beats \/ e.noText \/ e.sceneBeats)
        BY DEF Cards!TextMetadata
      <3>5. answer[i].hook = IF text.noText THEN "visual action" ELSE answer[i].hook
        BY <3>3 DEF Cards!SuggestHook
      <3>6. answer[i].confidence = "high" => ~text.warned
        BY <3>3, <3>4 DEF Cards!Confidence
      <3>7. answer[i].text = text
        BY <3>3
      <3> HIDE DEF text
      <3>8. e.noText => answer[i].hook = "visual action" /\ (answer[i].text.beats <=> e.beats)
        BY <3>2, <3>4, <3>5, <3>7
      <3>9. answer[i].text.warned <=> ~(e.noText \/ e.beats \/ e.sceneBeats)
        BY <3>2, <3>4, <3>7
      <3> QED BY <3>6, <3>7, <3>8, <3>9 DEF TextRespected
    <2>11. Right
      BY <2>4, <2>6, <2>7, <2>8, <2>9, <2>10
    <2>12. wanted \subseteq {e.id : e \in own}
      <3> HIDE DEF own, wanted, p
      <3> QED BY <1>1, <1>4
    <2> HIDE DEF Right
    <2> QED BY <2>11, <2>12 DEF CardsRight, Right
  <1> QED BY <1>3, <1>4

(* A problem stays, and what is answered is what was computed of it.        *)
CardsInv ==
  kind = "cards" => /\ problem \in CardProblems
                    /\ answer # None => answer = CardsAnswer(problem)

(* Nothing is answered yet.                                                 *)
LEMMA CardsInitially == Init => CardsInv
  BY DEF Init, CardsInv

(* Only AskCards answers for cards.                                         *)
LEMMA CardsStay == CardsInv /\ [Next]_vars => CardsInv'
  <1> SUFFICES ASSUME CardsInv, [Next]_vars PROVE CardsInv'
    OBVIOUS
  <1> USE DEF Ask
  <1>1. CASE AskCards
    <2>1. kind' = kind /\ problem' = problem /\ kind = "cards" /\ answer' = CardsAnswer(problem)
      BY <1>1 DEF AskCards, CardsAnswer
    <2> QED BY <2>1 DEF CardsInv
  <1>2. CASE AskWorkflow \/ AskTurn \/ AskAdvice \/ AskParse \/ AskTools
    <2>1. kind' = kind /\ kind # "cards"
      BY <1>2 DEF AskWorkflow, AskTurn, AskAdvice, AskParse, AskTools
    <2> QED BY <2>1 DEF CardsInv
  <1>3. CASE UNCHANGED vars
    BY <1>3 DEF vars, CardsInv
  <1> QED BY <1>1, <1>2, <1>3 DEF Next

(* For every campaign: its cards are of the exports that were asked for,    *)
(* once each and in that order, each judged by its export's latest          *)
(* snapshot, with the verdict that comparing the scores in pairs gives.     *)
THEOREM CardsRightAlways == Spec => []CardsRight
  <1>1. CardsInv => CardsRight
    <2>1. CASE Solved("cards")
      <3>1. CardsInv => kind = "cards" /\ problem \in CardProblems /\ answer = CardsAnswer(problem)
        BY <2>1 DEF CardsInv, Solved
      <3> QED BY <3>1, CardsAreRight
    <2>2. CASE ~Solved("cards")
      BY <2>2 DEF CardsRight
    <2> QED BY <2>1, <2>2
  <1> QED BY <1>1, CardsInitially, CardsStay, PTL DEF Spec

(* Recursion along the numbers up to n.                                     *)
Unrolled(f, n, b, B) == f[0] = b /\ \A i \in 1..n : f[i] = B[<<i, f[i - 1]>>]

(* Such a function exists.                                                  *)
LEMMA LineRecursion ==
  ASSUME NEW n \in Nat, NEW V, NEW b \in V, NEW B \in [(1..n) \X V -> V]
  PROVE  \E f \in [0..n -> V] : Unrolled(f, n, b, B)
  <1> DEFINE Has(k) == \E f \in [0..k -> V] : Unrolled(f, k, b, B)
             T == {k \in Nat : k <= n => Has(k)}
  <1>1. 0 \in T
    <2> DEFINE f == [i \in 0..0 |-> b]
    <2>1. f \in [0..0 -> V] /\ f[0] = b /\ 1..0 = {}
      OBVIOUS
    <2>2. Unrolled(f, 0, b, B)
      <3> HIDE DEF f
      <3> QED BY <2>1 DEF Unrolled
    <2> QED BY <2>1, <2>2
  <1>2. ASSUME NEW k \in Nat, k \in T PROVE k + 1 \in T
    <2> SUFFICES ASSUME k + 1 <= n PROVE Has(k + 1)
      OBVIOUS
    <2>1. PICK f \in [0..k -> V] : Unrolled(f, k, b, B)
      BY <1>2
    <2> DEFINE g == [i \in 0..(k + 1) |-> IF i = k + 1 THEN B[<<k + 1, f[k]>>] ELSE f[i]]
    <2>2. B[<<k + 1, f[k]>>] \in V
      <3>1. k + 1 \in 1..n /\ f[k] \in V
        OBVIOUS
      <3> QED BY <3>1
    <2>3. g \in [0..(k + 1) -> V]
      <3> SUFFICES ASSUME NEW i \in 0..(k + 1), i # k + 1 PROVE f[i] \in V
        BY <2>2
      <3>1. i \in 0..k
        OBVIOUS
      <3> QED BY <3>1
    <2>4. /\ g[0] = f[0] /\ g[k + 1] = B[<<k + 1, f[k]>>]
          /\ \A i \in 1..k : g[i] = f[i] /\ g[i - 1] = f[i - 1]
          /\ g[k + 1 - 1] = f[k]
      OBVIOUS
    <2> HIDE DEF g
    <2>5. \A i \in 1..(k + 1) : i \in 1..k \/ i = k + 1
      OBVIOUS
    <2>6. Unrolled(g, k + 1, b, B)
      BY <2>1, <2>4, <2>5 DEF Unrolled
    <2> QED BY <2>3, <2>6
  <1> HIDE DEF T
  <1>3. n \in T
    BY <1>1, <1>2, NatSetInduction
  <1> QED BY <1>3 DEF T

(* What the concatenation of sequences is: step by step.                    *)
Concatenates(f, seqs) ==
  f[0] = <<>> /\ \A i \in 1..Len(seqs) : f[i] = f[i - 1] \o seqs[i]

(* FlattenSeq is the last of these concatenations.                          *)
LEMMA FlattenIs ==
  ASSUME NEW V, NEW seqs \in Seq(Seq(V))
  PROVE  \E f \in [0..Len(seqs) -> Seq(V)] :
           Concatenates(f, seqs) /\ FlattenSeq(seqs) = f[Len(seqs)]
  <1> DEFINE n == Len(seqs)
             S == Seq(V)
             B == [q \in (1..n) \X S |-> q[2] \o seqs[q[1]]]
             none == <<>>
             Step(f, i) == IF i = 1 THEN seqs[i] ELSE f[i - 1] \o seqs[i]
             flatten == CHOOSE f : f = [i \in 1..n |-> Step(f, i)]
  <1>1. n \in Nat /\ none \in S /\ \A i \in 1..n : seqs[i] \in S
    OBVIOUS
  <1>2. B \in [(1..n) \X S -> S] /\ \A i \in 1..n, v \in S : B[<<i, v>>] = v \o seqs[i]
    <2>1. \A i \in 1..n, v \in S : v \o seqs[i] \in S
      BY <1>1
    <2> QED BY <2>1
  <1> HIDE DEF B, S, none
  <1>3. PICK f \in [0..n -> S] : Unrolled(f, n, none, B)
    BY <1>1, <1>2, LineRecursion
  <1>4. f[0] = none /\ \A i \in 1..n : f[i] = f[i - 1] \o seqs[i] /\ f[i - 1] \in S
    <2>1. \A i \in 1..n : i - 1 \in 0..n
      BY <1>1
    <2> QED BY <1>2, <1>3, <2>1 DEF Unrolled
  <1>5. Concatenates(f, seqs)
    BY <1>4 DEF Concatenates, none
  <1>6. CASE n = 0
    <2>1. seqs = <<>>
      BY <1>6
    <2>2. FlattenSeq(seqs) = <<>>
      BY <2>1, <1>6 DEF FlattenSeq
    <2> QED BY <1>4, <1>5, <1>6, <2>2 DEF none, S
  <1>7. CASE n # 0
    <2>1. FlattenSeq(seqs) = flatten[n]
      BY <1>7 DEF FlattenSeq
    <2> DEFINE g == [i \in 1..n |-> f[i]]
    <2>2. f[1] = seqs[1]
      <3>1. 1 \in 1..n /\ 1 - 1 = 0
        BY <1>1, <1>7
      <3>2. f[1] = <<>> \o seqs[1] /\ seqs[1] \in Seq(V)
        BY <1>1, <1>4, <3>1 DEF none, S
      <3> QED BY <3>2
    <2>3. \A i \in 1..n : g[i] = Step(g, i)
      <3> SUFFICES ASSUME NEW i \in 1..n, i # 1 PROVE f[i] = g[i - 1] \o seqs[i]
        BY <2>2
      <3>1. i - 1 \in 1..n
        BY <1>1
      <3> QED BY <1>4, <3>1
    <2>4. g = [i \in 1..n |-> Step(g, i)]
      BY <2>3
    <2>5. flatten = [i \in 1..n |-> Step(flatten, i)]
      <3> HIDE DEF g
      <3> QED BY <2>4
    <2> HIDE DEF flatten
    <2>6. \A i \in 1..n : flatten[i] = Step(flatten, i)
      BY <2>5
    <2> DEFINE T == {k \in Nat : k + 1 <= n => flatten[k + 1] = f[k + 1]}
    <2>7. 0 \in T
      BY <1>1, <2>2, <2>6
    <2>8. ASSUME NEW k \in Nat, k \in T PROVE k + 1 \in T
      <3> SUFFICES ASSUME k + 1 + 1 <= n PROVE flatten[k + 1 + 1] = f[k + 1 + 1]
        OBVIOUS
      <3>1. k + 1 + 1 \in 1..n /\ k + 1 + 1 # 1 /\ k + 1 + 1 - 1 = k + 1 /\ k + 1 <= n
        BY <1>1
      <3>2. flatten[k + 1] = f[k + 1]
        BY <2>8, <3>1
      <3> DEFINE j == k + 1 + 1
      <3>3. j \in 1..n /\ j # 1 /\ j - 1 = k + 1
        BY <3>1
      <3> HIDE DEF j
      <3>4. f[j] = f[j - 1] \o seqs[j] /\ flatten[j] = flatten[j - 1] \o seqs[j]
        BY <1>4, <2>6, <3>3
      <3>5. flatten[j] = f[j]
        BY <3>2, <3>3, <3>4
      <3> QED BY <3>5 DEF j
    <2>9. n - 1 \in Nat /\ n - 1 + 1 = n
      BY <1>1, <1>7
    <2>10. n - 1 \in T
      <3> HIDE DEF T
      <3> QED BY <2>7, <2>8, <2>9, NatSetInduction
    <2>11. flatten[n] = f[n]
      BY <2>9, <2>10
    <2> QED BY <1>5, <2>1, <2>11 DEF S
  <1> QED BY <1>6, <1>7

(* Whether a sequence has an element.                                       *)
Among(s, x) == \E j \in DOMAIN s : s[j] = x

LEMMA ConcatHas ==
  ASSUME NEW V, NEW s \in Seq(V), NEW t \in Seq(V), NEW x
  PROVE  Among(s \o t, x) <=> Among(s, x) \/ Among(t, x)
  <1> USE DEF Among
  <1>1. /\ DOMAIN (s \o t) = 1..(Len(s) + Len(t)) /\ DOMAIN s = 1..Len(s) /\ DOMAIN t = 1..Len(t)
        /\ Len(s) \in Nat /\ Len(t) \in Nat
        /\ \A j \in 1..(Len(s) + Len(t)) :
             (s \o t)[j] = IF j <= Len(s) THEN s[j] ELSE t[j - Len(s)]
    OBVIOUS
  <1> DEFINE u == s \o t
  <1> HIDE DEF u
  <1>2. ASSUME NEW j \in 1..(Len(s) + Len(t)), u[j] = x PROVE Among(s, x) \/ Among(t, x)
    <2>1. CASE j <= Len(s)
      <3>1. j \in 1..Len(s) /\ s[j] = x
        BY <1>1, <1>2, <2>1 DEF u
      <3> QED BY <1>1, <3>1
    <2>2. CASE ~(j <= Len(s))
      <3>1. j - Len(s) \in 1..Len(t) /\ t[j - Len(s)] = x
        BY <1>1, <1>2, <2>2 DEF u
      <3> QED BY <1>1, <3>1
    <2> QED BY <2>1, <2>2
  <1>3. ASSUME NEW j \in 1..Len(s), s[j] = x PROVE Among(u, x)
    <2>1. j \in 1..(Len(s) + Len(t)) /\ u[j] = x
      BY <1>1, <1>3 DEF u
    <2> QED BY <1>1, <2>1 DEF u
  <1>4. ASSUME NEW j \in 1..Len(t), t[j] = x PROVE Among(u, x)
    <2>1. j + Len(s) \in 1..(Len(s) + Len(t)) /\ ~(j + Len(s) <= Len(s)) /\ j + Len(s) - Len(s) = j
      BY <1>1
    <2>2. u[j + Len(s)] = x
      BY <1>1, <1>4, <2>1 DEF u
    <2> QED BY <1>1, <2>1, <2>2 DEF u
  <1> QED BY <1>1, <1>2, <1>3, <1>4 DEF u

(* What the concatenation has are the elements of the sequences.            *)
LEMMA FlattenHas ==
  ASSUME NEW V, NEW seqs \in Seq(Seq(V))
  PROVE  /\ FlattenSeq(seqs) \in Seq(V)
         /\ \A x : (\E j \in DOMAIN FlattenSeq(seqs) : FlattenSeq(seqs)[j] = x)
                     <=> \E i \in DOMAIN seqs : \E m \in DOMAIN seqs[i] : seqs[i][m] = x
  <1> DEFINE n == Len(seqs)
             Upto(k, x) == \E i \in 1..k : Among(seqs[i], x)
  <1>1. PICK f \in [0..n -> Seq(V)] : Concatenates(f, seqs) /\ FlattenSeq(seqs) = f[n]
    BY FlattenIs
  <1>2. n \in Nat /\ DOMAIN seqs = 1..n /\ \A i \in 1..n : seqs[i] \in Seq(V)
    OBVIOUS
  <1>3. ASSUME NEW s \in Seq(V), NEW t \in Seq(V), NEW x
        PROVE  Among(s \o t, x) <=> Among(s, x) \/ Among(t, x)
    BY ConcatHas
  <1> DEFINE T == {k \in Nat : k <= n => \A x : Among(f[k], x) <=> Upto(k, x)}
  <1>4. 0 \in T
    <2>1. f[0] = <<>> /\ 1..0 = {} /\ DOMAIN <<>> = {}
      BY <1>1 DEF Concatenates
    <2> QED BY <2>1 DEF Among
  <1>5. ASSUME NEW k \in Nat, k \in T PROVE k + 1 \in T
    <2> SUFFICES ASSUME k + 1 <= n, NEW x PROVE Among(f[k + 1], x) <=> Upto(k + 1, x)
      OBVIOUS
    <2>1. k \in 0..n /\ k + 1 \in 1..n /\ k + 1 - 1 = k /\ k <= n
      BY <1>2
    <2>2. f[k + 1] = f[k] \o seqs[k + 1] /\ f[k] \in Seq(V) /\ seqs[k + 1] \in Seq(V)
      <3>1. \A i \in 1..n : f[i] = f[i - 1] \o seqs[i]
        BY <1>1 DEF Concatenates
      <3> HIDE DEF n
      <3> DEFINE j == k + 1
      <3>4. j \in 1..n /\ j - 1 = k
        BY <2>1
      <3> HIDE DEF j
      <3>5. f[j] = f[k] \o seqs[j]
        BY <3>1, <3>4
      <3>2. f[k + 1] = f[k] \o seqs[k + 1]
        BY <3>5 DEF j
      <3>3. f[k] \in Seq(V) /\ seqs[k + 1] \in Seq(V)
        BY <1>2, <2>1
      <3> QED BY <2>1, <3>2, <3>3
    <2>3. Among(f[k + 1], x) <=> Among(f[k], x) \/ Among(seqs[k + 1], x)
      BY <1>3, <2>2
    <2>4. Among(f[k], x) <=> Upto(k, x)
      BY <1>5, <2>1
    <2>5. \A i : i \in 1..(k + 1) <=> i \in 1..k \/ i = k + 1
      OBVIOUS
    <2> QED BY <2>3, <2>4, <2>5
  <1>6. n \in T
    <2> HIDE DEF T
    <2> QED BY <1>2, <1>4, <1>5, NatSetInduction
  <1>7. f[n] \in Seq(V)
    BY <1>2
  <1> HIDE DEF n
  <1>8. \A x : Among(FlattenSeq(seqs), x) <=> Upto(n, x)
    BY <1>1, <1>2, <1>6
  <1> QED BY <1>1, <1>2, <1>7, <1>8 DEF Among

(* The lines with which a message can begin, and what is a message: its     *)
(* first line is one of them and no other is.                               *)
Word ==
  STRING \cup {"system:", "user:", "-", "none supplied.", "Project rules:", "Project rules: none supplied.",
               "Experiment objective:", "Compact runtime context:", "Global safety:", "Factory Agent:",
               "profile=", "mode=", "native_tool_calling", "structured_json_proposals", "advisor_only"}
Line == Seq(Word)
Lines == Seq(Line) \ {<<>>}
Headed(line) == line # <<>> /\ Head(line) \in {"system:", "user:"}
Calm(text) == text \in Seq(Line) /\ text # <<>> /\ \A j \in 2..Len(text) : ~Headed(text[j])
Block(text) == Calm(text) /\ Headed(text[1])

(* The provers do not know of a literal that it is a string: Word is STRING. *)
LEMMA WordingsAreLines ==
  ASSUME NEW text \in Wordings
  PROVE  text \in Lines
  <1>1. text \in Seq(Seq(STRING)) /\ text # <<>>
    BY DEF Wordings
  <1>2. \A line \in Seq(STRING) : line \in Line
    <2> TAKE line \in Seq(STRING)
    <2>1. line \in [1..Len(line) -> STRING] /\ Len(line) \in Nat
      BY LenProperties
    <2>2. line \in [1..Len(line) -> Word]
      BY <2>1 DEF Word
    <2> QED BY <2>1, <2>2 DEF Line
  <1>3. text \in [1..Len(text) -> Seq(STRING)] /\ Len(text) \in Nat
    BY <1>1, LenProperties
  <1>4. text \in [1..Len(text) -> Line]
    BY <1>2, <1>3
  <1> HIDE DEF Line
  <1>5. text \in Seq(Line)
    BY <1>3, <1>4
  <1> QED BY <1>1, <1>5 DEF Lines

(* Where a message begins can be told from what follows.                    *)
LEMMA BlocksAlign ==
  ASSUME NEW A \in Seq(Line), NEW B \in Seq(Line), NEW M, NEW N, Block(M), Block(N),
         A \o M = B \o N
  PROVE  ~(Len(A) < Len(B))
  <1>0. /\ M \in Seq(Line) /\ N \in Seq(Line) /\ N # <<>>
        /\ Headed(N[1]) /\ \A j \in 2..Len(M) : ~Headed(M[j])
    BY DEF Block, Calm
  <1> SUFFICES ASSUME Len(A) < Len(B) PROVE FALSE
    OBVIOUS
  <1>1. /\ Len(A) \in Nat /\ Len(B) \in Nat /\ Len(M) \in Nat /\ Len(N) \in Nat /\ Len(N) >= 1
        /\ Len(A \o M) = Len(A) + Len(M) /\ Len(B \o N) = Len(B) + Len(N)
    BY <1>0
  <1>2. Len(A) + Len(M) = Len(B) + Len(N)
    BY <1>1
  <1> DEFINE p == Len(B) + 1
  <1>3. /\ p \in 1..(Len(B) + Len(N)) /\ p \in 1..(Len(A) + Len(M))
        /\ ~(p <= Len(B)) /\ ~(p <= Len(A)) /\ p - Len(B) = 1 /\ p - Len(A) \in 2..Len(M)
    BY <1>1, <1>2
  <1> HIDE DEF p
  <1>4. (B \o N)[p] = N[1]
    <2>1. \A i \in 1..(Len(B) + Len(N)) : (B \o N)[i] = IF i <= Len(B) THEN B[i] ELSE N[i - Len(B)]
      BY <1>0, ConcatProperties
    <2> QED BY <1>3, <2>1
  <1>5. (A \o M)[p] = M[p - Len(A)]
    <2>1. \A i \in 1..(Len(A) + Len(M)) : (A \o M)[i] = IF i <= Len(A) THEN A[i] ELSE M[i - Len(A)]
      BY <1>0, ConcatProperties
    <2> QED BY <1>3, <2>1
  <1> QED BY <1>0, <1>3, <1>4, <1>5

(* So equal sequences that end in a block end in the same one.              *)
LEMMA BlockCut ==
  ASSUME NEW A \in Seq(Line), NEW B \in Seq(Line), NEW M, NEW N, Block(M), Block(N),
         A \o M = B \o N
  PROVE  A = B /\ M = N
  <1>0. M \in Seq(Line) /\ N \in Seq(Line)
    BY DEF Block, Calm
  <1>1. ~(Len(A) < Len(B)) /\ ~(Len(B) < Len(A))
    BY BlocksAlign
  <1>2. Len(A) = Len(B) /\ Len(A) \in Nat
    BY <1>1, LenProperties
  <1>3. \A i \in 1..Len(A) : A[i] = B[i]
    <2> TAKE i \in 1..Len(A)
    <2>1. i \in 1..(Len(A) + Len(M)) /\ i \in 1..(Len(B) + Len(N)) /\ i <= Len(A) /\ i <= Len(B)
      BY <1>0, <1>2, LenProperties
    <2>2. (A \o M)[i] = A[i] /\ (B \o N)[i] = B[i]
      BY <1>0, <2>1, ConcatProperties
    <2> QED BY <2>2
  <1>4. A = B
    BY <1>2, <1>3, SeqEqual
  <1>5. A \o M = A \o N
    BY <1>4
  <1> QED BY <1>0, <1>4, <1>5, ConcatSimplifications

(* A title keeps the text.                                                  *)
LEMMA TitledIs ==
  ASSUME NEW title \in Word, NEW text \in Lines
  PROVE  LET t == Runtime!Titled(title, text)
         IN /\ t \in Lines /\ Len(t) = Len(text)
            /\ t[1] = <<title>> \o text[1] /\ t[1] # <<>> /\ Head(t[1]) = title
            /\ \A j \in 2..Len(text) : t[j] = text[j]
  <1> DEFINE t == Runtime!Titled(title, text)
             first == <<title>> \o Head(text)
  <1>1. text \in Seq(Line) /\ text # <<>>
    BY DEF Lines
  <1>2. /\ Head(text) \in Line /\ Tail(text) \in Seq(Line) /\ Len(Tail(text)) = Len(text) - 1
        /\ \A i \in 1..Len(Tail(text)) : Tail(text)[i] = text[i + 1]
        /\ Head(text) = text[1] /\ Len(text) \in Nat /\ Len(text) >= 1
    BY <1>1, HeadTailProperties
  <1>3. first \in Line /\ first # <<>> /\ Head(first) = title
    <2>1. Head(text) \in Seq(Word) /\ <<title>> \in Seq(Word) /\ Len(<<title>>) = 1 /\ <<title>>[1] = title
      <3>1. <<title>> \in Seq(Word) /\ Len(<<title>>) = 1 /\ <<title>>[1] = title
        OBVIOUS
      <3> QED BY <1>2, <3>1 DEF Line
    <2>2. /\ first \in Seq(Word) /\ Len(first) = 1 + Len(Head(text))
          /\ \A i \in 1..(1 + Len(Head(text))) : first[i] = IF i <= 1 THEN <<title>>[i] ELSE Head(text)[i - 1]
      BY <2>1, ConcatProperties
    <2>3. Len(Head(text)) \in Nat /\ 1 \in 1..(1 + Len(Head(text)))
      BY <2>1
    <2> HIDE DEF first
    <2>4. first[1] = title
      BY <2>1, <2>2, <2>3
    <2>5. Len(first) # 0
      BY <2>2, <2>3
    <2>6. first # <<>>
      BY <2>5
    <2>7. Head(first) = first[1]
      BY <2>2, <2>6
    <2> QED BY <2>2, <2>4, <2>6, <2>7 DEF Line
  <1> HIDE DEF first
  <1>4. t = <<first>> \o Tail(text)
    BY DEF Runtime!Titled, first
  <1>5. /\ t \in Seq(Line) /\ Len(t) = 1 + Len(Tail(text))
        /\ \A i \in 1..(1 + Len(Tail(text))) : t[i] = IF i <= 1 THEN <<first>>[i] ELSE Tail(text)[i - 1]
    <2>1. <<first>> \in Seq(Line) /\ Len(<<first>>) = 1
      BY <1>3
    <2> QED BY <1>2, <1>4, <2>1, ConcatProperties
  <1> HIDE DEF t
  <1>6. Len(t) = Len(text) /\ t # <<>>
    BY <1>2, <1>5
  <1>7. t[1] = first
    BY <1>2, <1>5
  <1>8. ASSUME NEW j \in 2..Len(text) PROVE t[j] = text[j]
    <2>1. j \in 1..(1 + Len(Tail(text))) /\ ~(j <= 1) /\ j - 1 \in 1..Len(Tail(text)) /\ j - 1 + 1 = j
      BY <1>2
    <2>2. t[j] = Tail(text)[j - 1]
      BY <1>5, <2>1
    <2>3. Tail(text)[j - 1] = text[j - 1 + 1]
      BY <1>2, <2>1
    <2> QED BY <2>1, <2>2, <2>3
  <1>9. t \in Lines
    BY <1>5, <1>6 DEF Lines
  <1> QED BY <1>2, <1>3, <1>6, <1>7, <1>8, <1>9 DEF t, first

(* A title can be taken off again.                                          *)
LEMMA TitledSame ==
  ASSUME NEW title \in Word, NEW a \in Lines, NEW b \in Lines,
         Runtime!Titled(title, a) = Runtime!Titled(title, b)
  PROVE  a = b
  <1>1. a \in Seq(Line) /\ b \in Seq(Line) /\ Len(a) \in Nat /\ Len(a) >= 1 /\ Len(b) \in Nat /\ Len(b) >= 1
    BY DEF Lines
  <1> DEFINE t == Runtime!Titled(title, a)
  <1>2. /\ Len(t) = Len(a) /\ t[1] = <<title>> \o a[1] /\ \A j \in 2..Len(a) : t[j] = a[j]
        /\ Len(t) = Len(b) /\ t[1] = <<title>> \o b[1] /\ \A j \in 2..Len(b) : t[j] = b[j]
    <2>1. t = Runtime!Titled(title, b)
      OBVIOUS
    <2>2. Len(t) = Len(a) /\ t[1] = <<title>> \o a[1] /\ \A j \in 2..Len(a) : t[j] = a[j]
      BY TitledIs
    <2> HIDE DEF t
    <2>3. Len(t) = Len(b) /\ t[1] = <<title>> \o b[1] /\ \A j \in 2..Len(b) : t[j] = b[j]
      BY <2>1, TitledIs
    <2> QED BY <2>2, <2>3
  <1> HIDE DEF t
  <1>3. a[1] = b[1]
    <2>1. a[1] \in Seq(Word) /\ b[1] \in Seq(Word) /\ <<title>> \in Seq(Word)
      <3>1. a[1] \in Line /\ b[1] \in Line
        BY <1>1
      <3>2. <<title>> \in Seq(Word)
        OBVIOUS
      <3> QED BY <3>1, <3>2 DEF Line
    <2>2. <<title>> \o a[1] = <<title>> \o b[1]
      BY <1>2
    <2> QED BY <2>1, <2>2, ConcatSimplifications
  <1>4. \A i \in 1..Len(a) : a[i] = b[i]
    <2>1. \A i \in 1..Len(a) : i = 1 \/ i \in 2..Len(a)
      BY <1>1
    <2> QED BY <1>2, <1>3, <2>1
  <1> QED BY <1>1, <1>2, <1>4, SeqEqual

(* A title makes a message of a text, or leaves it calm.                    *)
LEMMA TitledBlock ==
  ASSUME NEW title \in Word, NEW text \in Lines, Calm(text)
  PROVE  /\ Calm(Runtime!Titled(title, text))
         /\ title \in {"system:", "user:"} => Block(Runtime!Titled(title, text))
  <1> DEFINE t == Runtime!Titled(title, text)
  <1>1. /\ t \in Lines /\ Len(t) = Len(text)
        /\ t[1] # <<>> /\ Head(t[1]) = title
        /\ \A j \in 2..Len(text) : t[j] = text[j]
    BY TitledIs
  <1> HIDE DEF t
  <1>2. t \in Seq(Line) /\ t # <<>>
    BY <1>1 DEF Lines
  <1>3. Calm(t)
    BY <1>1, <1>2 DEF Calm
  <1> QED BY <1>1, <1>3 DEF Block, Headed, t

(* The runtime's FlattenSeq is that of the community modules.               *)
LEMMA SameFlat == \A s : Runtime!FlattenSeq(s) = FlattenSeq(s)
  BY DEF Runtime!FlattenSeq, FlattenSeq

(* A line is a calm text.                                                   *)
LEMMA OneLine ==
  ASSUME NEW line \in Line, line # <<>>
  PROVE  Calm(<<line>>) /\ <<line>> \in Lines
  <1>1. <<line>> \in Seq(Line) /\ <<line>> # <<>> /\ Len(<<line>>) = 1
    OBVIOUS
  <1>2. 2..1 = {}
    OBVIOUS
  <1> QED BY <1>1, <1>2 DEF Calm, Lines

(* A text that is optional stays calm under its title.                      *)
LEMMA SuppliedCalm ==
  ASSUME NEW title \in Word, NEW text, text # None => Calm(text)
  PROVE  Calm(Runtime!Supplied(title, text)) /\ Runtime!Supplied(title, text) \in Lines
  <1>1. CASE text = None
    <2> DEFINE line == <<title, "none supplied.">>
    <2>1. line \in Line /\ line # <<>>
      <3> DEFINE none == "none supplied."
      <3>1. none \in Word
        BY DEF Word
      <3> HIDE DEF none
      <3>2. <<title, none>> \in Seq(Word) /\ <<title, none>> # <<>>
        BY <3>1
      <3> QED BY <3>2 DEF Line, none
    <2>2. Runtime!Supplied(title, text) = <<line>>
      BY <1>1 DEF Runtime!Supplied
    <2> HIDE DEF line
    <2> QED BY <2>1, <2>2, OneLine
  <1>2. CASE text # None
    <2>1. text \in Lines /\ Calm(text)
      BY <1>2 DEF Calm, Lines
    <2>2. Runtime!Supplied(title, text) = Runtime!Titled(title, text)
      BY <1>2 DEF Runtime!Supplied
    <2> QED BY <2>1, <2>2, TitledIs, TitledBlock
  <1> QED BY <1>1, <1>2

(* The rules are listed in one calm text.                                   *)
LEMMA RulesCalm ==
  ASSUME NEW rules \in Seq(Lines), \A i \in DOMAIN rules : Calm(rules[i])
  PROVE  Calm(Runtime!ProjectRules(rules)) /\ Runtime!ProjectRules(rules) \in Lines
  <1> DEFINE dash == "-"
             titled == [i \in DOMAIN rules |-> Runtime!Titled(dash, rules[i])]
             flat == FlattenSeq(titled)
             word == "Project rules:"
             words == "Project rules: none supplied."
             title == <<word>>
             none == <<words>>
  <1>0. /\ dash \in Word /\ title \in Line /\ title # <<>> /\ none \in Line /\ none # <<>>
        /\ dash \notin {"system:", "user:"}
    <2>1. dash \in Word /\ word \in Word /\ words \in Word /\ dash \notin {"system:", "user:"}
      BY DEF Word
    <2> HIDE DEF dash, word, words
    <2>2. <<word>> \in Seq(Word) /\ <<word>> # <<>> /\ <<words>> \in Seq(Word) /\ <<words>> # <<>>
      BY <2>1
    <2> QED BY <2>1, <2>2 DEF Line
  <1>1. Runtime!ProjectRules(rules) = IF rules = <<>> THEN <<none>> ELSE <<title>> \o flat
    BY SameFlat DEF Runtime!ProjectRules
  <1> HIDE DEF dash, word, words, title, none
  <1>2. /\ DOMAIN rules = 1..Len(rules) /\ Len(rules) \in Nat
        /\ \A i \in DOMAIN rules : rules[i] \in Lines
    OBVIOUS
  <1>3. \A i \in DOMAIN rules :
          LET t == Runtime!Titled(dash, rules[i])
          IN t \in Seq(Line) /\ ~Headed(t[1]) /\ Calm(t)
    <2> TAKE i \in DOMAIN rules
    <2> DEFINE t == Runtime!Titled(dash, rules[i])
    <2>1. t \in Lines /\ t[1] # <<>> /\ Head(t[1]) = dash
      BY <1>0, <1>2, TitledIs
    <2>2. Calm(t)
      BY <1>0, <1>2, TitledBlock
    <2> HIDE DEF t
    <2>3. ~Headed(t[1]) /\ t \in Seq(Line)
      BY <1>0, <2>1, <2>2 DEF Headed, Calm
    <2> QED BY <2>2, <2>3 DEF t
  <1>4. titled \in Seq(Seq(Line)) /\ DOMAIN titled = DOMAIN rules
    <2>1. titled \in [1..Len(rules) -> Seq(Line)]
      BY <1>2, <1>3
    <2> QED BY <1>2, <2>1
  <1>5. /\ flat \in Seq(Line)
        /\ \A j \in DOMAIN flat : \E i \in DOMAIN titled : \E m \in DOMAIN titled[i] : titled[i][m] = flat[j]
    <2> HIDE DEF titled
    <2>1. /\ FlattenSeq(titled) \in Seq(Line)
          /\ \A x : (\E j \in DOMAIN FlattenSeq(titled) : FlattenSeq(titled)[j] = x)
                      <=> \E i \in DOMAIN titled : \E m \in DOMAIN titled[i] : titled[i][m] = x
      BY <1>4, FlattenHas
    <2> QED BY <2>1
  <1>6. \A j \in DOMAIN flat : ~Headed(flat[j])
    <2> TAKE j \in DOMAIN flat
    <2>1. PICK i \in DOMAIN rules : \E m \in DOMAIN titled[i] : titled[i][m] = flat[j]
      BY <1>4, <1>5
    <2> DEFINE t == Runtime!Titled(dash, rules[i])
    <2>2. PICK m \in DOMAIN t : t[m] = flat[j]
      BY <2>1
    <2>3. t \in Seq(Line) /\ ~Headed(t[1]) /\ \A l \in 2..Len(t) : ~Headed(t[l])
      BY <1>3 DEF Calm
    <2> HIDE DEF t, flat
    <2>4. m = 1 \/ m \in 2..Len(t)
      BY <2>3
    <2> QED BY <2>2, <2>3, <2>4
  <1> HIDE DEF titled, flat
  <1>7. CASE rules = <<>>
    BY <1>0, <1>1, <1>7, OneLine
  <1>8. CASE rules # <<>>
    <2> DEFINE text == <<title>> \o flat
    <2>1. <<title>> \in Seq(Line) /\ Len(<<title>>) = 1
      BY <1>0
    <2>2. /\ text \in Seq(Line) /\ Len(text) = 1 + Len(flat)
          /\ \A i \in 1..(1 + Len(flat)) : text[i] = IF i <= 1 THEN <<title>>[i] ELSE flat[i - 1]
      BY <1>5, <2>1, ConcatProperties
    <2>3. Len(flat) \in Nat /\ DOMAIN flat = 1..Len(flat)
      BY <1>5
    <2> HIDE DEF text
    <2>4. \A j \in 2..Len(text) : ~Headed(text[j])
      <3> TAKE j \in 2..Len(text)
      <3>1. j \in 1..(1 + Len(flat)) /\ ~(j <= 1) /\ j - 1 \in DOMAIN flat
        BY <2>2, <2>3
      <3>2. text[j] = flat[j - 1]
        BY <2>2, <3>1
      <3> QED BY <1>6, <3>1, <3>2
    <2>5. text # <<>>
      BY <2>2, <2>3
    <2>6. Calm(text) /\ text \in Lines
      BY <2>2, <2>4, <2>5 DEF Calm, Lines
    <2> QED BY <1>1, <1>8, <2>6 DEF text
  <1> QED BY <1>7, <1>8

(* What is not feigned is calm.                                             *)
LEMMA UnfeignedCalm ==
  ASSUME NEW prompt \in PromptAssemblyInputs, Unfeigned(prompt)
  PROVE  /\ \A i \in DOMAIN prompt.rules : Calm(prompt.rules[i])
         /\ prompt.objective # None => Calm(prompt.objective)
         /\ prompt.context # None => Calm(prompt.context)
         /\ Calm(prompt.user)
  <1> DEFINE texts == ToSet(prompt.rules) \cup {prompt.objective, prompt.context, prompt.user}
  <1>1. ASSUME NEW text \in texts, text \in Wordings PROVE Calm(text)
    <2>1. text # None
      BY <1>1, TurnsAssumption
    <2>2. \A i \in DOMAIN text : text[i] # <<>> => Head(text[i]) \notin {"system:", "user:"}
      BY <1>1, <2>1 DEF Unfeigned
    <2>3. text \in Seq(Line) /\ text # <<>>
      BY <1>1, WordingsAreLines DEF Lines
    <2>4. \A j \in 2..Len(text) : j \in DOMAIN text
      BY <2>3
    <2> QED BY <2>2, <2>3, <2>4 DEF Calm, Headed
  <1>2. /\ prompt.rules \in Seq(Wordings) /\ prompt.user \in Wordings
        /\ prompt.objective # None => prompt.objective \in Wordings
        /\ prompt.context # None => prompt.context \in Wordings
    BY DEF PromptAssemblyInputs
  <1>3. \A i \in DOMAIN prompt.rules : prompt.rules[i] \in texts /\ prompt.rules[i] \in Wordings
    BY <1>2 DEF ToSet
  <1> QED BY <1>1, <1>2, <1>3

(* The texts that the messages of a prompt get.                             *)
Rules(prompt) == Runtime!ProjectRules(prompt.rules)
Objective(prompt) == Runtime!Supplied("Experiment objective:", prompt.objective)
Context(prompt) == Runtime!Supplied("Compact runtime context:", prompt.context)

(* The four texts that vary are calm when nobody imitates a message.        *)
LEMMA PromptTexts ==
  ASSUME NEW prompt \in PromptAssemblyInputs, Unfeigned(prompt)
  PROVE  /\ Calm(Rules(prompt)) /\ Rules(prompt) \in Lines
         /\ Calm(Objective(prompt)) /\ Objective(prompt) \in Lines
         /\ Calm(Context(prompt)) /\ Context(prompt) \in Lines
         /\ Calm(prompt.user) /\ prompt.user \in Lines
  <1>1. /\ \A i \in DOMAIN prompt.rules : Calm(prompt.rules[i])
        /\ prompt.objective # None => Calm(prompt.objective)
        /\ prompt.context # None => Calm(prompt.context)
        /\ Calm(prompt.user)
    BY UnfeignedCalm
  <1>2. prompt.rules \in Seq(Lines) /\ prompt.user \in Lines
    <2>1. prompt.rules \in Seq(Wordings) /\ prompt.user \in Wordings
      BY DEF PromptAssemblyInputs
    <2>2. Len(prompt.rules) \in Nat /\ prompt.rules \in [1..Len(prompt.rules) -> Wordings]
      BY <2>1, LenProperties
    <2>3. prompt.rules \in [1..Len(prompt.rules) -> Lines]
      BY <2>2, WordingsAreLines
    <2>4. prompt.rules \in Seq(Lines)
      BY <2>2, <2>3
    <2> QED BY <2>1, <2>4, WordingsAreLines
  <1>3. Calm(Rules(prompt)) /\ Rules(prompt) \in Lines
    BY <1>1, <1>2, RulesCalm DEF Rules
  <1> DEFINE objective == "Experiment objective:"
             context == "Compact runtime context:"
  <1>4. objective \in Word /\ context \in Word
    BY DEF Word
  <1>5. Objective(prompt) = Runtime!Supplied(objective, prompt.objective)
        /\ Context(prompt) = Runtime!Supplied(context, prompt.context)
    BY DEF Objective, Context
  <1> HIDE DEF objective, context
  <1>6. Calm(Objective(prompt)) /\ Objective(prompt) \in Lines
    BY <1>1, <1>4, <1>5, SuppliedCalm
  <1>7. Calm(Context(prompt)) /\ Context(prompt) \in Lines
    BY <1>1, <1>4, <1>5, SuppliedCalm
  <1> QED BY <1>1, <1>2, <1>3, <1>6, <1>7

(* The messages of a prompt: the last one alone is the person's.            *)
LEMMA MessagesAre ==
  ASSUME NEW prompt, NEW profile
  PROVE  LET m == Runtime!Assemble(prompt, profile)
         IN /\ DOMAIN m = 1..7 /\ Len(m) = 7
            /\ m[1] = [role |-> "system:", text |-> <<<<"Global safety:">>>>]
            /\ m[2] = [role |-> "system:", text |-> <<<<"Factory Agent:">>>>]
            /\ m[3] = [role |-> "system:", text |-> <<<<profile>>>>]
            /\ m[4] = [role |-> "system:", text |-> Rules(prompt)]
            /\ m[5] = [role |-> "system:", text |-> Objective(prompt)]
            /\ m[6] = [role |-> "system:", text |-> Context(prompt)]
            /\ m[7] = [role |-> "user:", text |-> prompt.user]
  BY DEF Runtime!Assemble, Rules, Objective, Context

(* What the fingerprint concatenates.                                       *)
Titles(m) == [i \in DOMAIN m |-> Runtime!Titled(m[i].role, m[i].text)]

(* The last four of seven, which are the ones that vary, are blocks.        *)
LEMMA TitlesAre ==
  ASSUME NEW prompt \in PromptAssemblyInputs, Unfeigned(prompt), NEW profile \in Word
  PROVE  LET t == Titles(Runtime!Assemble(prompt, profile))
             system == "system:"
             user == "user:"
         IN /\ t \in Seq(Seq(Line)) /\ Len(t) = 7
            /\ t[4] = Runtime!Titled(system, Rules(prompt)) /\ Block(t[4])
            /\ t[5] = Runtime!Titled(system, Objective(prompt)) /\ Block(t[5])
            /\ t[6] = Runtime!Titled(system, Context(prompt)) /\ Block(t[6])
            /\ t[7] = Runtime!Titled(user, prompt.user) /\ Block(t[7])
  <1> DEFINE m == Runtime!Assemble(prompt, profile)
             t == Titles(m)
             system == "system:"
             user == "user:"
             safety == "Global safety:"
             agent == "Factory Agent:"
  <1>1. /\ system \in Word /\ user \in Word /\ safety \in Word /\ agent \in Word
        /\ system \in {"system:", "user:"} /\ user \in {"system:", "user:"}
    BY DEF Word
  <1>2. /\ DOMAIN m = 1..7
        /\ m[1].role = system /\ m[1].text = <<<<safety>>>>
        /\ m[2].role = system /\ m[2].text = <<<<agent>>>>
        /\ m[3].role = system /\ m[3].text = <<<<profile>>>>
        /\ m[4].role = system /\ m[4].text = Rules(prompt)
        /\ m[5].role = system /\ m[5].text = Objective(prompt)
        /\ m[6].role = system /\ m[6].text = Context(prompt)
        /\ m[7].role = user /\ m[7].text = prompt.user
    <2>1. /\ DOMAIN m = 1..7
          /\ m[1] = [role |-> system, text |-> <<<<safety>>>>]
          /\ m[2] = [role |-> system, text |-> <<<<agent>>>>]
          /\ m[3] = [role |-> system, text |-> <<<<profile>>>>]
          /\ m[4] = [role |-> system, text |-> Rules(prompt)]
          /\ m[5] = [role |-> system, text |-> Objective(prompt)]
          /\ m[6] = [role |-> system, text |-> Context(prompt)]
          /\ m[7] = [role |-> user, text |-> prompt.user]
      BY MessagesAre
    <2> HIDE DEF m, system, user, safety, agent
    <2> QED BY <2>1
  <1> HIDE DEF system, user, safety, agent, m
  <1>3. /\ DOMAIN t = 1..7
        /\ t[1] = Runtime!Titled(system, <<<<safety>>>>)
        /\ t[2] = Runtime!Titled(system, <<<<agent>>>>)
        /\ t[3] = Runtime!Titled(system, <<<<profile>>>>)
        /\ t[4] = Runtime!Titled(system, Rules(prompt))
        /\ t[5] = Runtime!Titled(system, Objective(prompt))
        /\ t[6] = Runtime!Titled(system, Context(prompt))
        /\ t[7] = Runtime!Titled(user, prompt.user)
    BY <1>2 DEF Titles
  <1>t. t = [i \in 1..7 |-> t[i]]
    BY <1>2 DEF Titles
  <1> HIDE DEF t
  <1>4. \A word \in Word : <<<<word>>>> \in Lines
    <2> TAKE word \in Word
    <2>1. <<word>> \in Seq(Word) /\ <<word>> # <<>>
      OBVIOUS
    <2>2. <<word>> \in Line
      BY <2>1 DEF Line
    <2> QED BY <2>1, <2>2, OneLine
  <1>5. ASSUME NEW title \in Word, NEW text \in Lines PROVE Runtime!Titled(title, text) \in Seq(Line)
    BY TitledIs DEF Lines
  <1>6. /\ Calm(Rules(prompt)) /\ Rules(prompt) \in Lines
        /\ Calm(Objective(prompt)) /\ Objective(prompt) \in Lines
        /\ Calm(Context(prompt)) /\ Context(prompt) \in Lines
        /\ Calm(prompt.user) /\ prompt.user \in Lines
    BY PromptTexts
  <1>7. /\ t[1] \in Seq(Line) /\ t[2] \in Seq(Line) /\ t[3] \in Seq(Line) /\ t[4] \in Seq(Line)
        /\ t[5] \in Seq(Line) /\ t[6] \in Seq(Line) /\ t[7] \in Seq(Line)
    BY <1>1, <1>3, <1>4, <1>5, <1>6
  <1>8. t \in Seq(Seq(Line)) /\ Len(t) = 7
    <2> DEFINE S == Seq(Line)
    <2>1. \A i \in 1..7 : i \in {1, 2, 3, 4, 5, 6, 7}
      OBVIOUS
    <2> HIDE DEF S
    <2>2. t \in [1..7 -> S]
      BY <1>3, <1>7, <1>t, <2>1 DEF S
    <2> DEFINE n == 7
    <2>n. n \in Nat /\ t \in [1..n -> S]
      BY <2>2
    <2> HIDE DEF n
    <2>3. t \in Seq(S) /\ Len(t) = n
      BY <2>n
    <2> QED BY <2>3 DEF S, n
  <1>9. Block(t[4]) /\ Block(t[5]) /\ Block(t[6]) /\ Block(t[7])
    BY <1>1, <1>3, <1>6, TitledBlock
  <1> QED BY <1>3, <1>8, <1>9 DEF t, m, system, user

(* A tuple of seven is a function over 1..7.                                *)
LEMMA SevenAreSeq ==
  ASSUME NEW a, NEW b, NEW c, NEW d, NEW e, NEW f, NEW g
  PROVE  <<a, b, c, d, e, f, g>> = [i \in 1..7 |-> <<a, b, c, d, e, f, g>>[i]]
  <1> DEFINE S == {a, b, c, d, e, f, g}
             m == <<a, b, c, d, e, f, g>>
  <1>1. a \in S /\ b \in S /\ c \in S /\ d \in S /\ e \in S /\ f \in S /\ g \in S
    OBVIOUS
  <1> HIDE DEF S
  <1>2. m \in Seq(S) /\ Len(m) = 7
    BY <1>1
  <1> HIDE DEF m
  <1>3. m \in [1..7 -> S]
    BY <1>2, LenProperties
  <1>4. m = [i \in 1..7 |-> m[i]]
    BY <1>3
  <1> QED BY <1>4 DEF m

(* So are the messages of a prompt.                                         *)
LEMMA AssembleIsSeq ==
  ASSUME NEW prompt, NEW profile
  PROVE  Runtime!Assemble(prompt, profile) = [i \in 1..7 |-> Runtime!Assemble(prompt, profile)[i]]
  BY SevenAreSeq, Zenon DEF Runtime!Assemble

(* BlockCut, as FingerprintTells cites it.                                  *)
Cut(A, M, B, N) ==
  A \in Seq(Line) /\ B \in Seq(Line) /\ Block(M) /\ Block(N) /\ A \o M = B \o N

LEMMA CutHere ==
  ASSUME NEW A, NEW B, NEW M, NEW N, Cut(A, M, B, N)
  PROVE  A = B /\ M = N
  <1>1. A \in Seq(Line) /\ B \in Seq(Line) /\ Block(M) /\ Block(N) /\ A \o M = B \o N
    BY DEF Cut
  <1> QED BY <1>1, BlockCut

(* Two prompts that feign no message and have one fingerprint are one.      *)
LEMMA FingerprintTells ==
  ASSUME NEW p \in PromptAssemblyInputs, Unfeigned(p),
         NEW q \in PromptAssemblyInputs, Unfeigned(q),
         NEW profile \in Word, NEW mode \in Word,
         Runtime!Fingerprint(Runtime!Assemble(p, profile), profile, mode)
           = Runtime!Fingerprint(Runtime!Assemble(q, profile), profile, mode)
  PROVE  Runtime!Assemble(p, profile) = Runtime!Assemble(q, profile)
  <1> DEFINE m == Runtime!Assemble(p, profile)
             l == Runtime!Assemble(q, profile)
             t == Titles(m)
             u == Titles(l)
             system == "system:"
             user == "user:"
             asProfile == "profile="
             asMode == "mode="
             header == <<<<asProfile, profile>>, <<asMode, mode>>>>
  <1>1. /\ t \in Seq(Seq(Line)) /\ Len(t) = 7
        /\ t[4] = Runtime!Titled(system, Rules(p)) /\ Block(t[4])
        /\ t[5] = Runtime!Titled(system, Objective(p)) /\ Block(t[5])
        /\ t[6] = Runtime!Titled(system, Context(p)) /\ Block(t[6])
        /\ t[7] = Runtime!Titled(user, p.user) /\ Block(t[7])
    BY TitlesAre
  <1>2. /\ u \in Seq(Seq(Line)) /\ Len(u) = 7
        /\ u[4] = Runtime!Titled(system, Rules(q)) /\ Block(u[4])
        /\ u[5] = Runtime!Titled(system, Objective(q)) /\ Block(u[5])
        /\ u[6] = Runtime!Titled(system, Context(q)) /\ Block(u[6])
        /\ u[7] = Runtime!Titled(user, q.user) /\ Block(u[7])
    BY TitlesAre
  <1>3. header \o FlattenSeq(t) = header \o FlattenSeq(u)
    <2>1. /\ Runtime!Fingerprint(m, profile, mode) = header \o FlattenSeq(t)
          /\ Runtime!Fingerprint(l, profile, mode) = header \o FlattenSeq(u)
      BY SameFlat DEF Runtime!Fingerprint, Titles
    <2> HIDE DEF t, u, header
    <2> QED BY <2>1
  <1>w. asProfile \in Word /\ asMode \in Word /\ system \in Word /\ user \in Word
    BY DEF Word
  <1>m. /\ m[4] = [role |-> system, text |-> Rules(p)] /\ m[5] = [role |-> system, text |-> Objective(p)]
        /\ m[6] = [role |-> system, text |-> Context(p)] /\ m[7] = [role |-> user, text |-> p.user]
        /\ l[4] = [role |-> system, text |-> Rules(q)] /\ l[5] = [role |-> system, text |-> Objective(q)]
        /\ l[6] = [role |-> system, text |-> Context(q)] /\ l[7] = [role |-> user, text |-> q.user]
        /\ m[1] = l[1] /\ m[2] = l[2] /\ m[3] = l[3]
    <2> DEFINE safety == "Global safety:"
               agent == "Factory Agent:"
    <2>1. /\ m[1] = [role |-> system, text |-> <<<<safety>>>>]
          /\ m[2] = [role |-> system, text |-> <<<<agent>>>>]
          /\ m[3] = [role |-> system, text |-> <<<<profile>>>>]
          /\ m[4] = [role |-> system, text |-> Rules(p)] /\ m[5] = [role |-> system, text |-> Objective(p)]
          /\ m[6] = [role |-> system, text |-> Context(p)] /\ m[7] = [role |-> user, text |-> p.user]
      BY MessagesAre
    <2>2. /\ l[1] = [role |-> system, text |-> <<<<safety>>>>]
          /\ l[2] = [role |-> system, text |-> <<<<agent>>>>]
          /\ l[3] = [role |-> system, text |-> <<<<profile>>>>]
          /\ l[4] = [role |-> system, text |-> Rules(q)] /\ l[5] = [role |-> system, text |-> Objective(q)]
          /\ l[6] = [role |-> system, text |-> Context(q)] /\ l[7] = [role |-> user, text |-> q.user]
      BY MessagesAre
    <2> HIDE DEF m, l, safety, agent, system, user
    <2> QED BY <2>1, <2>2
  <1>f. m \in [1..7 -> {m[i] : i \in 1..7}] /\ l \in [1..7 -> {l[i] : i \in 1..7}]
    <2>1. m = [i \in 1..7 |-> m[i]]
      BY AssembleIsSeq
    <2>2. l = [i \in 1..7 |-> l[i]]
      BY AssembleIsSeq
    <2> HIDE DEF m, l
    <2> QED BY <2>1, <2>2
  <1> HIDE DEF m, l, t, u, system, user, asProfile, asMode
  <1>4. header \in Seq(Line)
    <2>1. <<asProfile, profile>> \in Seq(Word) /\ <<asMode, mode>> \in Seq(Word)
      BY <1>w
    <2>2. <<asProfile, profile>> \in Line /\ <<asMode, mode>> \in Line
      BY <2>1 DEF Line
    <2> QED BY <2>2
  <1> HIDE DEF header
  <1>5. FlattenSeq(t) = FlattenSeq(u)
    <2>1. FlattenSeq(t) \in Seq(Line) /\ FlattenSeq(u) \in Seq(Line)
      BY <1>1, <1>2, FlattenHas
    <2> QED BY <1>3, <1>4, <2>1, ConcatSimplifications
  <1>6. PICK f \in [0..Len(t) -> Seq(Line)] : Concatenates(f, t) /\ FlattenSeq(t) = f[Len(t)]
    BY <1>1, FlattenIs
  <1>7. PICK g \in [0..Len(u) -> Seq(Line)] : Concatenates(g, u) /\ FlattenSeq(u) = g[Len(u)]
    BY <1>2, FlattenIs
  <1>8. /\ f[3] \in Seq(Line) /\ f[4] \in Seq(Line) /\ f[5] \in Seq(Line) /\ f[6] \in Seq(Line)
        /\ g[3] \in Seq(Line) /\ g[4] \in Seq(Line) /\ g[5] \in Seq(Line) /\ g[6] \in Seq(Line)
    BY <1>1, <1>2, <1>6, <1>7
  <1>9. /\ f[4] = f[3] \o t[4] /\ f[5] = f[4] \o t[5] /\ f[6] = f[5] \o t[6] /\ f[7] = f[6] \o t[7]
        /\ g[4] = g[3] \o u[4] /\ g[5] = g[4] \o u[5] /\ g[6] = g[5] \o u[6] /\ g[7] = g[6] \o u[7]
    <2>1. /\ \A i \in 1..7 : f[i] = f[i - 1] \o t[i]
          /\ \A i \in 1..7 : g[i] = g[i - 1] \o u[i]
      BY <1>1, <1>2, <1>6, <1>7 DEF Concatenates
    <2>2. /\ 4 \in 1..7 /\ 5 \in 1..7 /\ 6 \in 1..7 /\ 7 \in 1..7
          /\ 4 - 1 = 3 /\ 5 - 1 = 4 /\ 6 - 1 = 5 /\ 7 - 1 = 6
      OBVIOUS
    <2>3. /\ f[4] = f[4 - 1] \o t[4] /\ f[5] = f[5 - 1] \o t[5]
          /\ f[6] = f[6 - 1] \o t[6] /\ f[7] = f[7 - 1] \o t[7]
      BY <2>1, <2>2, Zenon
    <2>4. /\ g[4] = g[4 - 1] \o u[4] /\ g[5] = g[5 - 1] \o u[5]
          /\ g[6] = g[6 - 1] \o u[6] /\ g[7] = g[7 - 1] \o u[7]
      BY <2>1, <2>2, Zenon
    <2> QED BY <2>2, <2>3, <2>4
  <1>10. f[6] = g[6] /\ t[7] = u[7]
    <2>1. f[6] \o t[7] = g[6] \o u[7]
      BY <1>1, <1>2, <1>5, <1>6, <1>7, <1>9
    <2>2. Cut(f[6], t[7], g[6], u[7])
      BY <1>1, <1>2, <1>8, <2>1 DEF Cut
    <2> QED BY <2>2, CutHere
  <1>11. f[5] = g[5] /\ t[6] = u[6]
    <2>1. f[5] \o t[6] = g[5] \o u[6]
      BY <1>9, <1>10
    <2>2. Cut(f[5], t[6], g[5], u[6])
      BY <1>1, <1>2, <1>8, <2>1 DEF Cut
    <2> QED BY <2>2, CutHere
  <1>12. f[4] = g[4] /\ t[5] = u[5]
    <2>1. f[4] \o t[5] = g[4] \o u[5]
      BY <1>9, <1>11
    <2>2. Cut(f[4], t[5], g[4], u[5])
      BY <1>1, <1>2, <1>8, <2>1 DEF Cut
    <2> QED BY <2>2, CutHere
  <1>13. t[4] = u[4]
    <2>1. f[3] \o t[4] = g[3] \o u[4]
      BY <1>9, <1>12
    <2>2. Cut(f[3], t[4], g[3], u[4])
      BY <1>1, <1>2, <1>8, <2>1 DEF Cut
    <2> QED BY <2>2, CutHere
  <1>14. Rules(p) = Rules(q) /\ Objective(p) = Objective(q) /\ Context(p) = Context(q) /\ p.user = q.user
    <2>1. /\ Rules(p) \in Lines /\ Objective(p) \in Lines /\ Context(p) \in Lines /\ p.user \in Lines
          /\ Rules(q) \in Lines /\ Objective(q) \in Lines /\ Context(q) \in Lines /\ q.user \in Lines
      BY PromptTexts
    <2>2. /\ Runtime!Titled(system, Rules(p)) = Runtime!Titled(system, Rules(q))
          /\ Runtime!Titled(system, Objective(p)) = Runtime!Titled(system, Objective(q))
          /\ Runtime!Titled(system, Context(p)) = Runtime!Titled(system, Context(q))
          /\ Runtime!Titled(user, p.user) = Runtime!Titled(user, q.user)
      BY <1>1, <1>2, <1>10, <1>11, <1>12, <1>13
    <2>3. Rules(p) = Rules(q)
      BY <1>w, <2>1, <2>2, TitledSame
    <2>4. Objective(p) = Objective(q)
      BY <1>w, <2>1, <2>2, TitledSame
    <2>5. Context(p) = Context(q)
      BY <1>w, <2>1, <2>2, TitledSame
    <2>6. p.user = q.user
      BY <1>w, <2>1, <2>2, TitledSame
    <2> QED BY <2>3, <2>4, <2>5, <2>6
  <1>15. \A i \in 1..7 : m[i] = l[i]
    <2>1. m[4] = l[4] /\ m[5] = l[5] /\ m[6] = l[6] /\ m[7] = l[7]
      BY <1>m, <1>14
    <2>2. \A i \in 1..7 : i \in {1, 2, 3, 4, 5, 6, 7}
      OBVIOUS
    <2> QED BY <1>m, <2>1, <2>2
  <1>16. m = l
    BY <1>f, <1>15
  <1> QED BY <1>16 DEF m, l

(* The larger and the smaller of two numbers.                               *)
LEMMA LargerIs ==
  ASSUME NEW a \in Int, NEW b \in Int
  PROVE  /\ Runtime!Max({a, b}) = (IF a >= b THEN a ELSE b)
         /\ Runtime!Min({a, b}) = (IF a >= b THEN b ELSE a)
         /\ Max({a, b}) = (IF a >= b THEN a ELSE b)
  <1>1. \E x \in {a, b} : \A y \in {a, b} : x >= y
    OBVIOUS
  <1>2. \E x \in {a, b} : \A y \in {a, b} : x =< y
    OBVIOUS
  <1>3. /\ Runtime!Max({a, b}) \in {a, b} /\ \A y \in {a, b} : Runtime!Max({a, b}) >= y
        /\ Max({a, b}) \in {a, b} /\ \A y \in {a, b} : Max({a, b}) >= y
    BY <1>1 DEF Runtime!Max, Max
  <1>4. Runtime!Min({a, b}) \in {a, b} /\ \A y \in {a, b} : Runtime!Min({a, b}) =< y
    BY <1>2 DEF Runtime!Min
  <1> DEFINE x == Runtime!Max({a, b})
             y == Runtime!Min({a, b})
             z == Max({a, b})
  <1>5. /\ x \in {a, b} /\ x >= a /\ x >= b
        /\ z \in {a, b} /\ z >= a /\ z >= b
        /\ y \in {a, b} /\ y <= a /\ y <= b
    BY <1>3, <1>4
  <1> HIDE DEF x, y, z
  <1>6. /\ x = (IF a >= b THEN a ELSE b)
        /\ y = (IF a >= b THEN b ELSE a)
        /\ z = (IF a >= b THEN a ELSE b)
    BY <1>5
  <1> QED BY <1>6 DEF x, y, z

(* The least of a set of naturals, as the runtime computes it.              *)
LEMMA LeastOf ==
  ASSUME NEW S \in SUBSET Nat, S # {}
  PROVE  Runtime!Min(S) \in S /\ \A y \in S : Runtime!Min(S) <= y
  <1>1. \E x \in S : \A y \in S : x =< y
    BY LeastNat
  <1> QED BY <1>1 DEF Runtime!Min

(* The waits: the base and then each time the multiple of the one before.   *)
Grows(g, n, b, m) == g[0] = b /\ \A k \in 1..n : g[k] = g[k - 1] * m

(* A multiple is no less.                                                   *)
LEMMA TimesAtLeastOne ==
  ASSUME NEW v \in Nat, NEW m \in Nat, m >= 1
  PROVE  v * m \in Nat /\ v * m >= v
  OBVIOUS

Base(settings) == Runtime!Max({0, settings.base})
Multiplier(settings) == Runtime!Max({1, settings.multiplier})
Cap(settings) == Runtime!Max({0, settings.cap})

(* The settings, as they are used.                                          *)
LEMMA SettingsAre ==
  ASSUME NEW settings \in AppSettings
  PROVE  /\ Base(settings) \in Nat /\ Multiplier(settings) \in Nat /\ Multiplier(settings) >= 1
         /\ Cap(settings) \in Nat /\ Cap(settings) = Max({0, settings.cap})
         /\ Runtime!MaxRetries(settings) = (IF settings.retries < 0 THEN 0 ELSE settings.retries)
         /\ Max({0, settings.retries}) = Runtime!MaxRetries(settings)
         /\ Runtime!MaxRetries(settings) \in Nat
  <1>1. /\ settings.base \in Int /\ settings.multiplier \in Int /\ settings.cap \in Int
        /\ settings.retries \in Int
    BY DEF AppSettings
  <1>2. Base(settings) = IF 0 >= settings.base THEN 0 ELSE settings.base
    BY <1>1, LargerIs DEF Base
  <1>3. Multiplier(settings) = IF 1 >= settings.multiplier THEN 1 ELSE settings.multiplier
    BY <1>1, LargerIs DEF Multiplier
  <1>4. /\ Cap(settings) = IF 0 >= settings.cap THEN 0 ELSE settings.cap
        /\ Max({0, settings.cap}) = IF 0 >= settings.cap THEN 0 ELSE settings.cap
    BY <1>1, LargerIs DEF Cap
  <1>5. /\ Runtime!MaxRetries(settings) = IF 0 >= settings.retries THEN 0 ELSE settings.retries
        /\ Max({0, settings.retries}) = IF 0 >= settings.retries THEN 0 ELSE settings.retries
    BY <1>1, LargerIs DEF Runtime!MaxRetries
  <1> QED BY <1>1, <1>2, <1>3, <1>4, <1>5

(* The recursion of Backoff is this one.                                    *)
LEMMA BackoffIs ==
  ASSUME NEW settings \in AppSettings, NEW n \in Nat
  PROVE  \E g \in [0..n -> Nat] :
           /\ Grows(g, n, Base(settings), Multiplier(settings))
           /\ Runtime!Backoff(settings, n) = Runtime!Min({g[n], Cap(settings)})
  <1> DEFINE b == Base(settings)
             m == Multiplier(settings)
             B == [q \in (1..n) \X Nat |-> q[2] * m]
             Step(f, k) == IF k = 0 THEN b ELSE f[k - 1] * m
             growth == CHOOSE f : f = [k \in 0..n |-> Step(f, k)]
  <1>1. b \in Nat /\ m \in Nat /\ m >= 1
    BY SettingsAre
  <1>2. Runtime!Backoff(settings, n) = Runtime!Min({growth[n], Cap(settings)})
    BY DEF Runtime!Backoff, Base, Multiplier, Cap
  <1> HIDE DEF b, m
  <1>3. B \in [(1..n) \X Nat -> Nat] /\ \A i \in 1..n, v \in Nat : B[<<i, v>>] = v * m
    <2>1. \A v \in Nat : v * m \in Nat
      BY <1>1, TimesAtLeastOne
    <2> QED BY <2>1
  <1> HIDE DEF B
  <1>4. PICK f \in [0..n -> Nat] : Unrolled(f, n, b, B)
    BY <1>1, <1>3, LineRecursion
  <1>5. f[0] = b /\ \A i \in 1..n : f[i] = f[i - 1] * m
    <2>1. \A i \in 1..n : i - 1 \in 0..n
      OBVIOUS
    <2> QED BY <1>3, <1>4, <2>1 DEF Unrolled
  <1>6. f = [k \in 0..n |-> Step(f, k)]
    <2>1. \A k \in 0..n : k = 0 \/ k \in 1..n
      OBVIOUS
    <2>2. \A k \in 0..n : f[k] = Step(f, k)
      BY <1>5, <2>1
    <2> QED BY <2>2
  <1>7. growth = [k \in 0..n |-> Step(growth, k)]
    BY <1>6
  <1> HIDE DEF growth
  <1>8. growth[0] = b /\ \A k \in 1..n : growth[k] = growth[k - 1] * m
    <2>1. \A k \in 0..n : growth[k] = Step(growth, k)
      BY <1>7
    <2>2. 0 \in 0..n /\ \A k \in 1..n : k \in 0..n /\ k # 0
      OBVIOUS
    <2> QED BY <2>1, <2>2
  <1> DEFINE T == {k \in Nat : k <= n => growth[k] = f[k]}
  <1>9. 0 \in T
    BY <1>5, <1>8
  <1>10. ASSUME NEW k \in Nat, k \in T PROVE k + 1 \in T
    <2> SUFFICES ASSUME k + 1 <= n PROVE growth[k + 1] = f[k + 1]
      OBVIOUS
    <2>1. growth[k] = f[k]
      BY <1>10
    <2> DEFINE j == k + 1
    <2>2. j \in 1..n /\ j - 1 = k
      OBVIOUS
    <2> HIDE DEF j
    <2>3. growth[j] = growth[j - 1] * m /\ f[j] = f[j - 1] * m
      BY <1>5, <1>8, <2>2
    <2>4. growth[j] = f[j]
      BY <2>1, <2>2, <2>3
    <2> QED BY <2>4 DEF j
  <1>11. n \in T
    <2> HIDE DEF T
    <2> QED BY <1>9, <1>10, NatSetInduction
  <1>12. growth[n] = f[n]
    BY <1>11
  <1>13. Grows(f, n, b, m)
    BY <1>5 DEF Grows
  <1> QED BY <1>2, <1>12, <1>13 DEF b, m

(* And no other.                                                            *)
LEMMA GrowAlike ==
  ASSUME NEW b, NEW m, NEW n \in Nat, NEW f, NEW g, Grows(f, n, b, m), Grows(g, n, b, m)
  PROVE  f[n] = g[n]
  <1> DEFINE T == {k \in Nat : k <= n => f[k] = g[k]}
  <1>1. 0 \in T
    BY DEF Grows
  <1>2. ASSUME NEW k \in Nat, k \in T PROVE k + 1 \in T
    <2> SUFFICES ASSUME k + 1 <= n PROVE f[k + 1] = g[k + 1]
      OBVIOUS
    <2>1. f[k] = g[k]
      BY <1>2
    <2> DEFINE j == k + 1
    <2>2. j \in 1..n /\ j - 1 = k
      OBVIOUS
    <2> HIDE DEF j
    <2>3. f[j] = f[j - 1] * m /\ g[j] = g[j - 1] * m
      BY <2>2 DEF Grows
    <2>4. f[j] = g[j]
      BY <2>1, <2>2, <2>3
    <2> QED BY <2>4 DEF j
  <1>3. n \in T
    <2> HIDE DEF T
    <2> QED BY <1>1, <1>2, NatSetInduction
  <1> QED BY <1>3

(* A wait is within the cap, and the next one is no shorter.                *)
LEMMA WaitsGrow ==
  ASSUME NEW settings \in AppSettings, NEW n \in Nat
  PROVE  /\ Runtime!Backoff(settings, n) \in 0..Max({0, settings.cap})
         /\ Runtime!Backoff(settings, n) <= Runtime!Backoff(settings, n + 1)
  <1> DEFINE b == Base(settings)
             m == Multiplier(settings)
             c == Cap(settings)
             now == Runtime!Backoff(settings, n)
             next == Runtime!Backoff(settings, n + 1)
  <1>0. b \in Nat /\ m \in Nat /\ m >= 1 /\ c \in Nat /\ c = Max({0, settings.cap})
    BY SettingsAre
  <1>1. PICK f \in [0..n -> Nat] : Grows(f, n, b, m) /\ now = Runtime!Min({f[n], c})
    BY BackoffIs
  <1>2. n + 1 \in Nat
    OBVIOUS
  <1>3. PICK g \in [0..(n + 1) -> Nat] : Grows(g, n + 1, b, m) /\ next = Runtime!Min({g[n + 1], c})
    BY <1>2, BackoffIs
  <1> HIDE DEF b, m, c, now, next
  <1>4. Grows(g, n, b, m)
    <2>1. \A k \in 1..n : k \in 1..(n + 1)
      OBVIOUS
    <2> QED BY <1>3, <2>1 DEF Grows
  <1>5. f[n] = g[n]
    BY <1>1, <1>4, GrowAlike
  <1> DEFINE j == n + 1
  <1>6. j \in 1..j /\ j - 1 = n /\ j \in 0..j /\ n \in 0..n
    OBVIOUS
  <1>7. Grows(g, j, b, m) /\ next = Runtime!Min({g[j], c}) /\ g \in [0..j -> Nat]
    BY <1>3
  <1> HIDE DEF j
  <1>8. g[j] = g[n] * m
    <2>1. g[j] = g[j - 1] * m
      BY <1>6, <1>7 DEF Grows
    <2> QED BY <1>6, <2>1
  <1>9. f[n] \in Nat /\ g[j] \in Nat
    BY <1>1, <1>6, <1>7
  <1>10. f[n] <= g[j]
    <2> DEFINE x == f[n]
    <2>1. x \in Nat /\ g[j] = x * m
      BY <1>5, <1>8, <1>9
    <2> HIDE DEF x
    <2>2. x <= g[j]
      BY <1>0, <2>1, TimesAtLeastOne
    <2> QED BY <2>2 DEF x
  <1>11. /\ now = (IF f[n] >= c THEN c ELSE f[n])
         /\ next = (IF g[j] >= c THEN c ELSE g[j])
    <2> DEFINE x == f[n]
               y == g[j]
    <2>1. x \in Int /\ y \in Int /\ c \in Int /\ now = Runtime!Min({x, c}) /\ next = Runtime!Min({y, c})
      BY <1>0, <1>1, <1>7, <1>9
    <2> HIDE DEF x, y
    <2>2. now = (IF x >= c THEN c ELSE x)
      BY <2>1, LargerIs
    <2>3. next = (IF y >= c THEN c ELSE y)
      BY <2>1, LargerIs
    <2> QED BY <2>2, <2>3 DEF x, y
  <1>12. now \in 0..c /\ now <= next
    BY <1>0, <1>9, <1>10, <1>11
  <1> QED BY <1>0, <1>12 DEF now, next, c

(* An attempt after which no other is made.                                 *)
LEMMA LastIs ==
  ASSUME NEW settings \in AppSettings, NEW outcomes
  PROVE  LET n == Runtime!MaxRetries(settings)
             last == Runtime!LastAttempt(settings, outcomes)
         IN /\ n \in Nat /\ last \in 0..n
            /\ \A k \in 0..(last - 1) : outcomes[k] = "timeout"
            /\ outcomes[last] = "timeout" => last = n
  <1> DEFINE n == Runtime!MaxRetries(settings)
             late == "timeout"
             S == {k \in 0..n : ~Runtime!Retries(settings, outcomes[k], k)}
             last == Runtime!LastAttempt(settings, outcomes)
  <1>1. n \in Nat
    BY SettingsAre
  <1>2. \A k \in 0..n : Runtime!Retries(settings, outcomes[k], k) <=> outcomes[k] = late /\ k < n
    BY DEF Runtime!Retries
  <1>3. last = Runtime!Min(S)
    BY DEF Runtime!LastAttempt
  <1> HIDE DEF n, late, last
  <1>4. n \in S /\ S \in SUBSET Nat
    BY <1>1, <1>2
  <1>5. last \in S /\ \A y \in S : last <= y
    <2> HIDE DEF S
    <2> QED BY <1>3, <1>4, LeastOf
  <1>6. last \in 0..n /\ ~(outcomes[last] = late /\ last < n)
    BY <1>2, <1>5
  <1>7. ASSUME NEW k \in 0..(last - 1) PROVE outcomes[k] = late
    <2>1. k \in 0..n /\ ~(last <= k)
      BY <1>1, <1>6
    <2>2. k \notin S
      BY <1>5, <2>1
    <2> QED BY <1>2, <2>1, <2>2
  <1>8. outcomes[last] = late => last = n
    BY <1>1, <1>6
  <1> QED BY <1>1, <1>6, <1>7, <1>8 DEF n, late, last

(* How an attempt ends, by what the network does.                           *)
Outcome(settings, event) == Runtime!Transport(settings, event)

(* The transport tells late replies, replies and malformed ones apart.      *)
LEMMA OutcomeIs ==
  ASSUME NEW settings \in AppSettings, NEW event \in NetworkEvents
  PROVE  /\ ~settings.base_url => Outcome(settings, event) = "provider error"
         /\ settings.base_url =>
              /\ Outcome(settings, event) = "timeout" <=> event = "read timeout"
              /\ Outcome(settings, event) = "reply" <=> event = "reply"
              /\ Outcome(settings, event) = "malformed" <=> event = "malformed"
  <1>1. settings.base_url \in BOOLEAN
    BY DEF AppSettings
  <1>2. CASE ~settings.base_url
    BY <1>2 DEF Outcome, Runtime!Transport
  <1>3. CASE settings.base_url
    <2>1. CASE event = "read timeout"
      BY <1>3, <2>1 DEF Outcome, Runtime!Transport
    <2>2. CASE event \in {"connect timeout", "http error", "no object"}
      BY <1>3, <2>2 DEF Outcome, Runtime!Transport
    <2>3. CASE event = "no JSON"
      BY <1>3, <2>3 DEF Outcome, Runtime!Transport
    <2>4. CASE event \in {"reply", "malformed"}
      BY <1>3, <2>4 DEF Outcome, Runtime!Transport
    <2> QED BY <2>1, <2>2, <2>3, <2>4 DEF NetworkEvents
  <1> QED BY <1>1, <1>2, <1>3

(* The code that a turn gets from how its last attempt ended.               *)
EndOf(end) ==
  LET ends == [reply |-> "response", malformed |-> "raw error", timeout |-> "LLMProviderTimeout"]
  IN IF end \in DOMAIN ends THEN ends[end] ELSE "LLMProviderError"
CodeOf(end) ==
  LET codes == [response |-> "answered", LLMProviderTimeout |-> "provider_timeout",
                LLMProviderError |-> "provider_unavailable"]
  IN IF end \in DOMAIN codes THEN codes[end] ELSE "raw error"

(* Every end has its code.                                                  *)
LEMMA CodeIs ==
  ASSUME NEW end
  PROVE  CodeOf(EndOf(end)) =
           IF end = "reply" THEN "answered"
           ELSE IF end = "malformed" THEN "raw error"
           ELSE IF end = "timeout" THEN "provider_timeout"
           ELSE "provider_unavailable"
  <1>1. EndOf(end) = IF end = "reply" THEN "response"
                     ELSE IF end = "malformed" THEN "raw error"
                     ELSE IF end = "timeout" THEN "LLMProviderTimeout"
                     ELSE "LLMProviderError"
    <2> DEFINE ends == [reply |-> "response", malformed |-> "raw error", timeout |-> "LLMProviderTimeout"]
    <2>1. EndOf(end) = IF end \in DOMAIN ends THEN ends[end] ELSE "LLMProviderError"
      BY DEF EndOf
    <2>2. /\ DOMAIN ends = {"reply", "malformed", "timeout"}
          /\ ends["reply"] = "response" /\ ends["malformed"] = "raw error"
          /\ ends["timeout"] = "LLMProviderTimeout"
      OBVIOUS
    <2> HIDE DEF ends
    <2>3. CASE end \in {"reply", "malformed", "timeout"}
      BY <2>1, <2>2, <2>3
    <2>4. CASE end \notin {"reply", "malformed", "timeout"}
      BY <2>1, <2>2, <2>4
    <2> QED BY <2>3, <2>4
  <1>2. /\ CodeOf("response") = "answered" /\ CodeOf("raw error") = "raw error"
        /\ CodeOf("LLMProviderTimeout") = "provider_timeout"
        /\ CodeOf("LLMProviderError") = "provider_unavailable"
    BY DEF CodeOf
  <1> QED BY <1>1, <1>2

(* What a turn with a known profile is made of.                             *)
Outcomes(settings, network) == [k \in DOMAIN network |-> Outcome(settings, network[k])]
LastOf(settings, network) == Runtime!LastAttempt(settings, Outcomes(settings, network))
Offered(settings, class) ==
  IF Runtime!ResponseMode(settings) = "native_tool_calling" THEN Runtime!ToolSpecs(class) ELSE {}

MadeOf(turn, settings, class, profile, prompt, network) ==
  LET last == LastOf(settings, network)
      mode == Runtime!ResponseMode(settings)
  IN /\ profile \notin Profiles => turn.calls = 0 /\ turn.code = "raw error"
     /\ profile \in Profiles =>
          /\ turn.code = CodeOf(EndOf(Outcomes(settings, network)[last]))
          /\ turn.mode = mode
          /\ turn.calls = last + 1
          /\ turn.slept = [k \in 1..last |-> Runtime!Backoff(settings, k - 1)]
          /\ turn.messages = Runtime!Assemble(prompt, profile)
          /\ turn.sent = (IF settings.tools THEN Offered(settings, class) ELSE {})
          /\ turn.offered = Offered(settings, class)
          /\ turn.fingerprint = Runtime!Fingerprint(Runtime!Assemble(prompt, profile), profile, mode)

(* It is what Respond computes.                                             *)
LEMMA RespondIs ==
  ASSUME NEW settings, NEW class, NEW profile, NEW prompt, NEW network
  PROVE  MadeOf(Runtime!Respond(settings, class, profile, prompt, network),
                settings, class, profile, prompt, network)
  <1> DEFINE outcomes == Outcomes(settings, network)
             offered == Offered(settings, class)
             response == Runtime!CreateResponse(settings, offered, outcomes)
             last == LastOf(settings, network)
             mode == Runtime!ResponseMode(settings)
             messages == Runtime!Assemble(prompt, profile)
             fingerprint == Runtime!Fingerprint(messages, profile, mode)
             known == [code |-> CodeOf(response.end), mode |-> mode, calls |-> response.calls,
                       slept |-> response.slept, messages |-> messages, sent |-> response.sent,
                       offered |-> offered, fingerprint |-> fingerprint]
             turn == Runtime!Respond(settings, class, profile, prompt, network)
  <1>1. response = [end |-> EndOf(outcomes[last]), calls |-> last + 1,
                    slept |-> [k \in 1..last |-> Runtime!Backoff(settings, k - 1)],
                    sent |-> IF settings.tools THEN offered ELSE {}]
    BY DEF Runtime!CreateResponse, LastOf, EndOf, Runtime!NoTools
  <1>2. profile \in Profiles => turn = known
    BY DEF Runtime!Respond, CodeOf, Outcomes, Outcome, Offered, Runtime!NoTools
  <1>3. profile \notin Profiles => turn.calls = 0 /\ turn.code = "raw error"
    BY DEF Runtime!Respond
  <1> HIDE DEF response, turn, outcomes, offered, last, mode, messages, fingerprint
  <1>4. profile \in Profiles =>
          /\ turn.code = CodeOf(response.end) /\ turn.mode = mode /\ turn.calls = response.calls
          /\ turn.slept = response.slept /\ turn.messages = messages /\ turn.sent = response.sent
          /\ turn.offered = offered /\ turn.fingerprint = fingerprint
    BY <1>2
  <1>5. /\ response.end = EndOf(outcomes[last]) /\ response.calls = last + 1
        /\ response.slept = [k \in 1..last |-> Runtime!Backoff(settings, k - 1)]
        /\ response.sent = IF settings.tools THEN offered ELSE {}
    BY <1>1
  <1> QED BY <1>3, <1>4, <1>5
          DEF MadeOf, turn, outcomes, offered, last, mode, messages, fingerprint

(* The tools that are offered are sent, and may run without an approval.    *)
LEMMA OfferedIs ==
  ASSUME NEW settings \in AppSettings, NEW class
  PROVE  LET offered == Offered(settings, class)
         IN /\ offered = (IF settings.tools THEN offered ELSE {})
            /\ offered # {} => settings.tools /\ Runtime!ResponseMode(settings) = "native_tool_calling"
            /\ \A t \in offered : class[t] = "read_only"
  <1>1. settings.tools \in BOOLEAN /\ settings.structured \in BOOLEAN
    BY DEF AppSettings
  <1>2. CASE settings.tools
    <2>1. Runtime!ResponseMode(settings) = "native_tool_calling"
      BY <1>2 DEF Runtime!ResponseMode
    <2> QED BY <1>2, <2>1 DEF Offered, Runtime!ToolSpecs
  <1>3. CASE ~settings.tools
    <2>1. Runtime!ResponseMode(settings) # "native_tool_calling"
      <3>1. CASE settings.structured
        BY <1>3, <3>1 DEF Runtime!ResponseMode
      <3>2. CASE ~settings.structured
        BY <1>3, <3>2 DEF Runtime!ResponseMode
      <3> QED BY <3>1, <3>2
    <2> QED BY <2>1 DEF Offered
  <1> QED BY <1>1, <1>2, <1>3

(* The mode is a word, so the fingerprint begins with a line.               *)
LEMMA ModeIsWord ==
  ASSUME NEW settings
  PROVE  Runtime!ResponseMode(settings) \in Word
  <1>1. CASE settings.tools
    BY <1>1 DEF Runtime!ResponseMode, Word
  <1>2. CASE ~settings.tools /\ settings.structured
    BY <1>2 DEF Runtime!ResponseMode, Word
  <1>3. CASE ~settings.tools /\ ~settings.structured
    BY <1>3 DEF Runtime!ResponseMode, Word
  <1> QED BY <1>1, <1>2, <1>3

(* A turn that tells its prompt so is as PromptTold says.                   *)
LEMMA PromptIsTold ==
  ASSUME NEW turn, NEW other, NEW profile \in Word, NEW mode \in Word,
         problem.prompt \in PromptAssemblyInputs, problem.other \in PromptAssemblyInputs,
         turn.messages = Runtime!Assemble(problem.prompt, profile),
         other.messages = Runtime!Assemble(problem.other, profile),
         turn.fingerprint = Runtime!Fingerprint(turn.messages, profile, mode),
         other.fingerprint = Runtime!Fingerprint(other.messages, profile, mode)
  PROVE  PromptTold(turn, other)
  <1> DEFINE m == Runtime!Assemble(problem.prompt, profile)
             system == "system:"
             user == "user:"
  <1>0. system # user
    OBVIOUS
  <1>1. /\ DOMAIN m = 1..7 /\ Len(m) = 7
        /\ m[1].role = system /\ m[2].role = system /\ m[3].role = system
        /\ m[4].role = system /\ m[5].role = system /\ m[6].role = system
        /\ m[7].role = user /\ m[7].text = problem.prompt.user
    <2> DEFINE safety == "Global safety:"
               agent == "Factory Agent:"
    <2>1. /\ DOMAIN m = 1..7 /\ Len(m) = 7
          /\ m[1] = [role |-> system, text |-> <<<<safety>>>>]
          /\ m[2] = [role |-> system, text |-> <<<<agent>>>>]
          /\ m[3] = [role |-> system, text |-> <<<<profile>>>>]
          /\ m[4] = [role |-> system, text |-> Rules(problem.prompt)]
          /\ m[5] = [role |-> system, text |-> Objective(problem.prompt)]
          /\ m[6] = [role |-> system, text |-> Context(problem.prompt)]
          /\ m[7] = [role |-> user, text |-> problem.prompt.user]
      BY MessagesAre
    <2> HIDE DEF m, system, user, safety, agent
    <2> QED BY <2>1
  <1>2. Unfeigned(problem.prompt) /\ Unfeigned(problem.other) /\ turn.fingerprint = other.fingerprint
          => turn.messages = other.messages
    <2> SUFFICES ASSUME Unfeigned(problem.prompt), Unfeigned(problem.other),
                        turn.fingerprint = other.fingerprint
                 PROVE  turn.messages = other.messages
      OBVIOUS
    <2> DEFINE p == problem.prompt
               q == problem.other
    <2>1. p \in PromptAssemblyInputs /\ q \in PromptAssemblyInputs /\ Unfeigned(p) /\ Unfeigned(q)
      OBVIOUS
    <2>2. Runtime!Fingerprint(Runtime!Assemble(p, profile), profile, mode)
            = Runtime!Fingerprint(Runtime!Assemble(q, profile), profile, mode)
      OBVIOUS
    <2>3. turn.messages = Runtime!Assemble(p, profile) /\ other.messages = Runtime!Assemble(q, profile)
      OBVIOUS
    <2> HIDE DEF p, q
    <2>4. Runtime!Assemble(p, profile) = Runtime!Assemble(q, profile)
      BY <2>1, <2>2, FingerprintTells
    <2> QED BY <2>3, <2>4
  <1>3. turn.messages = m
    OBVIOUS
  <1> HIDE DEF m, system, user
  <1>4. Last(turn.messages).text = problem.prompt.user
    BY <1>1, <1>3 DEF Last
  <1>5. \A i \in DOMAIN turn.messages : turn.messages[i].role = user <=> i = Len(turn.messages)
    <2>1. \A i \in 1..7 : i \in {1, 2, 3, 4, 5, 6, 7}
      OBVIOUS
    <2>2. \A i \in 1..7 : m[i].role = user <=> i = 7
      BY <1>0, <1>1, <2>1
    <2> QED BY <1>1, <1>3, <2>2
  <1> QED BY <1>2, <1>4, <1>5 DEF PromptTold, user

(* How a turn with a known profile ends.                                    *)
LEMMA TurnEnds ==
  ASSUME NEW settings \in AppSettings, NEW network,
         \A k \in 0..Max({0, settings.retries}) : k \in DOMAIN network /\ network[k] \in NetworkEvents
  PROVE  LET last == LastOf(settings, network)
             end == network[last]
             code == CodeOf(EndOf(Outcomes(settings, network)[last]))
             retries == IF settings.retries < 0 THEN 0 ELSE settings.retries
         IN /\ last \in 0..retries
            /\ settings.base_url =>
                 /\ \A k \in 0..(last - 1) : network[k] = "read timeout"
                 /\ end = "read timeout" => last = retries
                 /\ code = IF end = "reply" THEN "answered"
                           ELSE IF end = "read timeout" THEN "provider_timeout"
                           ELSE IF end = "malformed" THEN "raw error"
                           ELSE "provider_unavailable"
            /\ ~settings.base_url => last = 0 /\ code = "provider_unavailable"
  <1> DEFINE n == Runtime!MaxRetries(settings)
             last == LastOf(settings, network)
             outcomes == Outcomes(settings, network)
             end == network[last]
             code == CodeOf(EndOf(outcomes[last]))
  <1>0. /\ n = (IF settings.retries < 0 THEN 0 ELSE settings.retries)
        /\ n = Max({0, settings.retries}) /\ n \in Nat
    BY SettingsAre
  <1>1. /\ last \in 0..n
        /\ \A k \in 0..(last - 1) : outcomes[k] = "timeout"
        /\ outcomes[last] = "timeout" => last = n
    BY LastIs DEF LastOf
  <1>2. \A k \in 0..n : k \in DOMAIN network /\ network[k] \in NetworkEvents
    BY <1>0
  <1>3. \A k \in 0..n : outcomes[k] = Outcome(settings, network[k])
    BY <1>2 DEF Outcomes
  <1>4. \A k \in 0..n :
          /\ ~settings.base_url => outcomes[k] = "provider error"
          /\ settings.base_url =>
               /\ outcomes[k] = "timeout" <=> network[k] = "read timeout"
               /\ outcomes[k] = "reply" <=> network[k] = "reply"
               /\ outcomes[k] = "malformed" <=> network[k] = "malformed"
    <2> HIDE DEF outcomes, n
    <2> QED BY <1>2, <1>3, OutcomeIs
  <1>5. code = IF outcomes[last] = "reply" THEN "answered"
               ELSE IF outcomes[last] = "malformed" THEN "raw error"
               ELSE IF outcomes[last] = "timeout" THEN "provider_timeout"
               ELSE "provider_unavailable"
    BY CodeIs
  <1> HIDE DEF n, last, outcomes, code
  <1>6. \A k \in 0..(last - 1) : k \in 0..n
    BY <1>0, <1>1
  <1>7. CASE settings.base_url
    <2>1. \A k \in 0..(last - 1) : network[k] = "read timeout"
      BY <1>1, <1>4, <1>6, <1>7
    <2>2. end = "read timeout" => last = n
      BY <1>1, <1>4, <1>7
    <2>3. /\ outcomes[last] = "timeout" <=> end = "read timeout"
          /\ outcomes[last] = "reply" <=> end = "reply"
          /\ outcomes[last] = "malformed" <=> end = "malformed"
      BY <1>1, <1>4, <1>7
    <2> HIDE DEF end
    <2>4. code = IF end = "reply" THEN "answered"
                 ELSE IF end = "read timeout" THEN "provider_timeout"
                 ELSE IF end = "malformed" THEN "raw error"
                 ELSE "provider_unavailable"
      <3>1. CASE end = "reply"
        BY <1>5, <2>3, <3>1
      <3>2. CASE end = "read timeout"
        BY <1>5, <2>3, <3>2
      <3>3. CASE end = "malformed"
        BY <1>5, <2>3, <3>3
      <3>4. CASE end # "reply" /\ end # "read timeout" /\ end # "malformed"
        BY <1>5, <2>3, <3>4
      <3> QED BY <3>1, <3>2, <3>3, <3>4
    <2> QED BY <1>0, <1>1, <1>7, <2>1, <2>2, <2>4 DEF last, code, end, outcomes
  <1>8. CASE ~settings.base_url
    <2>1. outcomes[last] = "provider error"
      BY <1>1, <1>4, <1>8
    <2>2. code = "provider_unavailable"
      BY <1>5, <2>1
    <2>3. last = 0
      <3> SUFFICES ASSUME last # 0 PROVE FALSE
        OBVIOUS
      <3>1. 0 \in 0..(last - 1) /\ 0 \in 0..n
        BY <1>0, <1>1
      <3> QED BY <1>1, <1>4, <1>8, <3>1
    <2> QED BY <1>0, <1>1, <1>8, <2>2, <2>3 DEF last, code, outcomes
  <1> QED BY <1>7, <1>8

(* The waits between the attempts.                                          *)
LEMMA WaitsAre ==
  ASSUME NEW settings \in AppSettings, NEW last \in Nat, NEW slept,
         slept = [k \in 1..last |-> Runtime!Backoff(settings, k - 1)]
  PROVE  /\ Len(slept) = last
         /\ \A k \in DOMAIN slept :
              /\ slept[k] \in 0..Max({0, settings.cap})
              /\ k > 1 => slept[k - 1] <= slept[k]
  <1>1. Len(slept) = last /\ DOMAIN slept = 1..last
    OBVIOUS
  <1> SUFFICES ASSUME NEW k \in 1..last
               PROVE  /\ slept[k] \in 0..Max({0, settings.cap})
                      /\ k > 1 => slept[k - 1] <= slept[k]
    BY <1>1
  <1>2. k - 1 \in Nat /\ slept[k] = Runtime!Backoff(settings, k - 1)
    OBVIOUS
  <1>3. slept[k] \in 0..Max({0, settings.cap})
    BY <1>2, WaitsGrow
  <1>4. ASSUME k > 1 PROVE slept[k - 1] <= slept[k]
    <2> DEFINE j == k - 2
    <2>1. j \in Nat /\ j + 1 = k - 1 /\ slept[k - 1] = Runtime!Backoff(settings, j)
      BY <1>4
    <2> HIDE DEF j
    <2>2. Runtime!Backoff(settings, j) <= Runtime!Backoff(settings, j + 1)
      BY <2>1, WaitsGrow
    <2> QED BY <1>2, <2>1, <2>2
  <1> QED BY <1>3, <1>4

(* What AskTurn answers.                                                    *)
TurnAnswer(p) ==
  LET turn(prompt) == Runtime!Respond(p.settings, p.class, p.profile, prompt, p.network)
  IN [turn |-> turn(p.prompt), other |-> turn(p.other)]

(* What is computed for a problem is what TurnAnswered promises.            *)
LEMMA TurnsAreAnswered ==
  ASSUME problem \in TurnProblems, answer = TurnAnswer(problem)
  PROVE  TurnAnswered
  <1> DEFINE s == problem.settings
             class == problem.class
             profile == problem.profile
             w == problem.network
             turn == answer.turn
             other == answer.other
             last == LastOf(s, w)
             mode == Runtime!ResponseMode(s)
             end == w[last]
             n == IF s.retries < 0 THEN 0 ELSE s.retries
             code == CodeOf(EndOf(Outcomes(s, w)[last]))
  <1>1. /\ s \in AppSettings
        /\ problem.prompt \in PromptAssemblyInputs /\ problem.other \in PromptAssemblyInputs
        /\ \A k \in 0..Max({0, s.retries}) : k \in DOMAIN w /\ w[k] \in NetworkEvents
    BY TurnsAssumption
  <1>2. /\ turn = Runtime!Respond(s, class, profile, problem.prompt, w)
        /\ other = Runtime!Respond(s, class, profile, problem.other, w)
    BY DEF TurnAnswer
  <1> HIDE DEF turn, other
  <1>m. /\ MadeOf(turn, s, class, profile, problem.prompt, w)
        /\ MadeOf(other, s, class, profile, problem.other, w)
    <2>1. MadeOf(turn, s, class, profile, problem.prompt, w)
      BY <1>2, RespondIs
    <2>2. MadeOf(other, s, class, profile, problem.other, w)
      BY <1>2, RespondIs
    <2> QED BY <2>1, <2>2
  <1>3. CASE profile \notin Profiles
    <2>1. turn.calls = 0 /\ turn.code # "answered"
      BY <1>3, <1>m DEF MadeOf
    <2> QED BY <1>3, <2>1 DEF TurnAnswered, turn
  <1>4. CASE profile \in Profiles
    <2>1. /\ turn.code = code
          /\ turn.mode = mode
          /\ turn.calls = last + 1
          /\ turn.slept = [k \in 1..last |-> Runtime!Backoff(s, k - 1)]
          /\ turn.messages = Runtime!Assemble(problem.prompt, profile)
          /\ turn.sent = (IF s.tools THEN Offered(s, class) ELSE {})
          /\ turn.offered = Offered(s, class)
          /\ turn.fingerprint = Runtime!Fingerprint(Runtime!Assemble(problem.prompt, profile), profile, mode)
      BY <1>4, <1>m DEF MadeOf
    <2>2. /\ other.messages = Runtime!Assemble(problem.other, profile)
          /\ other.fingerprint = Runtime!Fingerprint(Runtime!Assemble(problem.other, profile), profile, mode)
      BY <1>4, <1>m DEF MadeOf
    <2>3. profile \in Word /\ mode \in Word
      <3>1. profile \in STRING
        BY <1>4, TurnsAssumption
      <3> QED BY <3>1, ModeIsWord DEF Word
    <2>4. PromptTold(turn, other)
      <3> HIDE DEF s, class, profile, w, mode
      <3> QED BY <1>1, <2>1, <2>2, <2>3, PromptIsTold
    <2>5. /\ last \in 0..n
          /\ s.base_url =>
               /\ \A k \in 0..(last - 1) : w[k] = "read timeout"
               /\ end = "read timeout" => last = n
               /\ code = IF end = "reply" THEN "answered"
                         ELSE IF end = "read timeout" THEN "provider_timeout"
                         ELSE IF end = "malformed" THEN "raw error"
                         ELSE "provider_unavailable"
          /\ ~s.base_url => last = 0 /\ code = "provider_unavailable"
      <3> HIDE DEF s, w
      <3> QED BY <1>1, TurnEnds
    <2>6. /\ s.base_url \in BOOLEAN /\ s.retries \in Int /\ n \in Nat /\ last \in Nat
      <3> HIDE DEF s, last
      <3>1. s.base_url \in BOOLEAN /\ s.retries \in Int
        BY <1>1 DEF AppSettings
      <3>2. n \in Nat
        BY <3>1
      <3> HIDE DEF n
      <3>3. last \in 0..n
        BY <2>5
      <3> QED BY <3>1, <3>2, <3>3
    <2>7. /\ Len(turn.slept) = last
          /\ \A k \in DOMAIN turn.slept :
               /\ turn.slept[k] \in 0..Max({0, s.cap})
               /\ k > 1 => turn.slept[k - 1] <= turn.slept[k]
      <3> HIDE DEF s, last
      <3> QED BY <1>1, <2>1, <2>6, WaitsAre
    <2>8. /\ turn.offered = turn.sent
          /\ turn.sent # {} => s.tools /\ turn.mode = "native_tool_calling"
          /\ \A t \in turn.sent : class[t] = "read_only"
      <3> DEFINE offered == Offered(s, class)
      <3> HIDE DEF s, class, mode
      <3>1. /\ offered = (IF s.tools THEN offered ELSE {})
            /\ offered # {} => s.tools /\ mode = "native_tool_calling"
            /\ \A t \in offered : class[t] = "read_only"
        BY <1>1, OfferedIs DEF mode
      <3> HIDE DEF offered
      <3>2. turn.mode = mode /\ turn.sent = (IF s.tools THEN offered ELSE {}) /\ turn.offered = offered
        BY <2>1 DEF offered
      <3> QED BY <3>1, <3>2
    <2> HIDE DEF last, code, mode, turn, other
    <2>9. turn.calls = last + 1 /\ turn.code = code
      BY <2>1
    <2>10. /\ turn.calls - 1 = last /\ turn.calls - 2 = last - 1 /\ turn.calls >= 1
           /\ turn.calls \in 1..(n + 1) /\ (n + 1 = IF s.retries < 0 THEN 1 ELSE s.retries + 1)
      <3>1. last \in 0..n /\ turn.calls = last + 1
        BY <2>5, <2>9
      <3>2. n + 1 = IF s.retries < 0 THEN 1 ELSE s.retries + 1
        BY <2>6
      <3> HIDE DEF n
      <3> QED BY <2>6, <3>1, <3>2
    <2> DEFINE allowed == IF s.retries < 0 THEN 1 ELSE s.retries + 1
               tried == {w[k] : k \in 0..(turn.calls - 2)}
               final == w[turn.calls - 1]
    <2>11. final = end
      BY <2>10
    <2>12. IF s.base_url THEN /\ turn.calls \in 1..allowed /\ tried \subseteq {"read timeout"}
                              /\ final = "read timeout" => turn.calls = allowed
           ELSE turn.calls = 1 /\ turn.code = "provider_unavailable"
      <3>1. CASE s.base_url
        <4>1. \A k \in 0..(turn.calls - 2) : w[k] = "read timeout"
          BY <2>5, <2>10, <3>1
        <4>2. tried \subseteq {"read timeout"}
          BY <4>1
        <4>3. final = "read timeout" => turn.calls = allowed
          BY <2>5, <2>9, <2>10, <2>11, <3>1
        <4> QED BY <2>10, <3>1, <4>2, <4>3
      <3>2. CASE ~s.base_url
        <4>1. last = 0 /\ code = "provider_unavailable"
          BY <2>5, <3>2
        <4> QED BY <2>9, <3>2, <4>1
      <3> QED BY <3>1, <3>2
    <2>13. /\ turn.code = "answered" => final = "reply"
           /\ s.base_url /\ final # "malformed" =>
                turn.code = CASE final = "reply" -> "answered"
                              [] final = "read timeout" -> "provider_timeout"
                              [] OTHER -> "provider_unavailable"
      <3>0. CASE ~s.base_url
        BY <2>5, <2>9, <3>0
      <3> SUFFICES ASSUME s.base_url
                   PROVE  /\ turn.code = "answered" => final = "reply"
                          /\ final # "malformed" =>
                               turn.code = CASE final = "reply" -> "answered"
                                             [] final = "read timeout" -> "provider_timeout"
                                             [] OTHER -> "provider_unavailable"
        BY <2>6, <3>0
      <3>1. code = IF final = "reply" THEN "answered"
                   ELSE IF final = "read timeout" THEN "provider_timeout"
                   ELSE IF final = "malformed" THEN "raw error"
                   ELSE "provider_unavailable"
        BY <2>5, <2>11
      <3> HIDE DEF final, end, s
      <3>2. CASE final = "reply"
        BY <2>9, <3>1, <3>2
      <3>3. CASE final = "read timeout"
        BY <2>9, <3>1, <3>3
      <3>4. CASE final = "malformed"
        BY <2>9, <3>1, <3>4
      <3>5. CASE final # "reply" /\ final # "read timeout" /\ final # "malformed"
        BY <2>9, <3>1, <3>5
      <3> QED BY <3>2, <3>3, <3>4, <3>5
    <2>14. \A t \in turn.sent : problem.class[t] = "read_only"
      BY <2>8
    <2> DEFINE Ended ==
                 /\ turn.code = "answered" => final = "reply"
                 /\ s.base_url /\ final # "malformed" =>
                      turn.code = CASE final = "reply" -> "answered"
                                    [] final = "read timeout" -> "provider_timeout"
                                    [] OTHER -> "provider_unavailable"
               Waited ==
                 \A k \in DOMAIN turn.slept :
                   /\ turn.slept[k] \in 0..Max({0, s.cap})
                   /\ k > 1 => turn.slept[k - 1] <= turn.slept[k]
               Tried ==
                 IF s.base_url THEN /\ turn.calls \in 1..allowed /\ tried \subseteq {"read timeout"}
                                    /\ final = "read timeout" => turn.calls = allowed
                 ELSE turn.calls = 1 /\ turn.code = "provider_unavailable"
               Sent ==
                 /\ turn.offered = turn.sent
                 /\ turn.sent # {} => s.tools /\ turn.mode = "native_tool_calling"
                 /\ \A t \in turn.sent : class[t] = "read_only"
    <2>15. Ended /\ Waited /\ Tried /\ Sent /\ Len(turn.slept) = turn.calls - 1
      BY <2>7, <2>8, <2>10, <2>12, <2>13
    <2>16. (PromptTold(turn, other) /\ Tried /\ Len(turn.slept) = turn.calls - 1 /\ Waited /\ Ended /\ Sent)
             => TurnAnswered
      BY Zenon DEF TurnAnswered, turn, other
    <2> HIDE DEF Ended, Waited, Tried, Sent
    <2> QED BY <2>4, <2>15, <2>16
  <1> QED BY <1>3, <1>4

(* A problem stays, and what is answered is what was computed of it.        *)
TurnInv ==
  kind = "turn" => /\ problem \in TurnProblems
                   /\ answer # None => answer = TurnAnswer(problem)

(* Nothing is answered yet.                                                 *)
LEMMA TurnInitially == Init => TurnInv
  BY DEF Init, TurnInv

(* Only AskTurn answers for turns.                                          *)
LEMMA TurnStays == TurnInv /\ [Next]_vars => TurnInv'
  <1> SUFFICES ASSUME TurnInv, [Next]_vars PROVE TurnInv'
    OBVIOUS
  <1> USE DEF Ask
  <1>1. CASE AskTurn
    <2>1. kind' = kind /\ problem' = problem /\ kind = "turn" /\ answer' = TurnAnswer(problem)
      BY <1>1 DEF AskTurn, TurnAnswer
    <2> QED BY <2>1 DEF TurnInv
  <1>2. CASE AskCards \/ AskWorkflow \/ AskAdvice \/ AskParse \/ AskTools
    <2>1. kind' = kind /\ kind # "turn"
      BY <1>2 DEF AskCards, AskWorkflow, AskAdvice, AskParse, AskTools
    <2> QED BY <2>1 DEF TurnInv
  <1>3. CASE UNCHANGED vars
    BY <1>3 DEF vars, TurnInv
  <1> QED BY <1>1, <1>2, <1>3 DEF Next

(* For all settings, prompts and network events: only a late reply is asked *)
(* for again, no more often than the settings say and with waits that grow   *)
(* within their cap; every error has its code; what is offered is what is    *)
(* sent and may run without an approval; and the prompt is told in order,    *)
(* its fingerprint its own.                                                  *)
THEOREM TurnAnsweredAlways == Spec => []TurnAnswered
  <1>1. TurnInv => TurnAnswered
    <2>1. CASE Solved("turn")
      <3>1. TurnInv => problem \in TurnProblems /\ answer = TurnAnswer(problem)
        BY <2>1 DEF TurnInv, Solved
      <3> QED BY <3>1, TurnsAreAnswered
    <2>2. CASE ~Solved("turn")
      BY <2>2 DEF TurnAnswered
    <2> QED BY <2>1, <2>2
  <1> QED BY <1>1, TurnInitially, TurnStays, PTL DEF Spec


(* The advice's operators are those of the community modules.               *)
LEMMA SameAdvice ==
  /\ \A S : Advice!Min(S) = Min(S)
  /\ \A s : Advice!FlattenSeq(s) = FlattenSeq(s)
  BY DEF Advice!Min, Min, Advice!FlattenSeq, FlattenSeq

(* A score is a number, or there is none.                                   *)
LEMMA ScoreIs ==
  ASSUME NEW v, \A n \in RetentionNames : v.metrics[n] \in Numbers
  PROVE  Known(v) \in Numbers
  <1> DEFINE names == <<"retention_rate", "first_2s_retention", "first_two_second_retention">>
             known == {i \in DOMAIN names : v.metrics[names[i]] # None}
             least == Min(known)
  <1>1. Known(v) = IF known = {} THEN None ELSE v.metrics[names[Advice!Min(known)]]
    BY DEF Known, Advice!RankScore, Advice!FirstMetric
  <1>2. DOMAIN names = 1..3 /\ \A i \in 1..3 : names[i] \in RetentionNames
    BY DEF RetentionNames
  <1> HIDE DEF names
  <1>3. CASE known = {}
    BY <1>1, <1>3 DEF Numbers
  <1>4. CASE known # {}
    <2>1. known \in SUBSET Int /\ IsFiniteSet(known)
      <3> DEFINE n == 3
      <3>1. known \subseteq 1..n /\ n \in Int
        BY <1>2
      <3> HIDE DEF known, n
      <3>2. IsFiniteSet(1..n)
        BY <3>1, FS_Interval
      <3>3. IsFiniteSet(known)
        BY <3>1, <3>2, FS_Subset
      <3>4. \A i \in 1..n : i \in Int
        BY <3>1
      <3> QED BY <3>1, <3>3, <3>4
    <2>2. least \in known
      <3> HIDE DEF known
      <3> QED BY <1>4, <2>1, MaxIs
    <2>3. names[least] \in RetentionNames
      BY <1>2, <2>2
    <2>4. Known(v) = v.metrics[names[least]]
      <3> HIDE DEF known
      <3> QED BY <1>1, <1>4, SameAdvice
    <2> HIDE DEF least
    <2> QED BY <2>3, <2>4
  <1> QED BY <1>3, <1>4

(* The scored variants in descending order of their scores.                 *)
LEMMA RankIs ==
  ASSUME NEW v, NEW n \in Nat, DOMAIN v = 1..n, \A i \in 1..n : Known(v[i]) \in Numbers, None \notin Int
  PROVE  \E k \in Nat :
           /\ Advice!Ranked(v) \in [1..k -> Advice!Scored(v)]
           /\ \A x \in Advice!Scored(v) : \E i \in 1..k : Advice!Ranked(v)[i] = x
           /\ \A i, j \in 1..k :
                i < j => Known(v[Advice!Ranked(v)[i]]) >= Known(v[Advice!Ranked(v)[j]])
  <1> DEFINE S == Advice!Scored(v)
             rank == Advice!Ranked(v)
             k == Cardinality(S)
             score == [i \in S |-> Known(v[i])]
             Ahead(i, j) == score[i] > score[j] \/ (score[i] = score[j] /\ i < j)
             R == {q \in S \X S : Ahead(q[1], q[2])}
  <1>1. /\ S \subseteq 1..n /\ IsFiniteSet(S)
        /\ \A i \in S : i \in Int /\ score[i] \in Int /\ score[i] = Known(v[i])
    <2>1. S = {i \in 1..n : Known(v[i]) # None}
      BY DEF Advice!Scored, Known
    <2>2. IsFiniteSet(1..n)
      BY FS_Interval
    <2> HIDE DEF S
    <2>3. S \subseteq 1..n
      BY <2>1
    <2>4. IsFiniteSet(S)
      BY <2>2, <2>3, FS_Subset
    <2>5. \A i \in S : i \in Int /\ score[i] \in Int /\ score[i] = Known(v[i])
      BY <2>1 DEF Numbers
    <2> QED BY <2>3, <2>4, <2>5
  <1>2. rank = CHOOSE list \in [1..k -> S] : \A i, j \in DOMAIN list : i < j => Ahead(list[i], list[j])
    <2> DEFINE P(list) == \A i, j \in DOMAIN list : i < j =>
                            \/ Advice!RankScore(v[list[i]].metrics) > Advice!RankScore(v[list[j]].metrics)
                            \/ (/\ Advice!RankScore(v[list[i]].metrics) = Advice!RankScore(v[list[j]].metrics)
                                /\ list[i] < list[j])
               Q(list) == \A i, j \in DOMAIN list : i < j => Ahead(list[i], list[j])
    <2>1. rank = CHOOSE list \in [1..Advice!Cardinality(S) -> S] : P(list)
      BY DEF Advice!Ranked, Advice!Arranged
    <2>2. Advice!Cardinality(S) = k
      BY DEF Advice!Cardinality, Cardinality
    <2>3. \A list \in [1..k -> S] : P(list) <=> Q(list)
      BY <1>1 DEF Known
    <2> HIDE DEF P, Q, S, k, rank
    <2>4. rank = CHOOSE list \in [1..k -> S] : P(list)
      BY <2>1, <2>2
    <2>5. rank = CHOOSE list \in [1..k -> S] : Q(list)
      BY <2>3, <2>4
    <2> QED BY <2>5 DEF Q
  <1>3. \A i, j \in S : <<i, j>> \in R <=> Ahead(i, j)
    OBVIOUS
  <1> HIDE DEF S, rank, score, R
  <1>4. StrictOrder(R, S)
    <2>1. \A i, j \in S : i # j => <<i, j>> \in R \/ <<j, i>> \in R
      <3> SUFFICES ASSUME NEW i \in S, NEW j \in S, i # j PROVE Ahead(i, j) \/ Ahead(j, i)
        BY <1>3
      <3>1. i \in Int /\ j \in Int /\ score[i] \in Int /\ score[j] \in Int
        BY <1>1
      <3> QED BY <3>1
    <2>2. \A i, j, m \in S : <<i, j>> \in R /\ <<j, m>> \in R => <<i, m>> \in R
      <3> SUFFICES ASSUME NEW i \in S, NEW j \in S, NEW m \in S, Ahead(i, j), Ahead(j, m)
                   PROVE  Ahead(i, m)
        BY <1>3
      <3>1. /\ i \in Int /\ j \in Int /\ m \in Int
            /\ score[i] \in Int /\ score[j] \in Int /\ score[m] \in Int
        BY <1>1
      <3> QED BY <3>1
    <2>3. \A i \in S : ~(<<i, i>> \in R)
      <3> SUFFICES ASSUME NEW i \in S PROVE ~Ahead(i, i)
        BY <1>3
      <3>1. i \in Int /\ score[i] \in Int
        BY <1>1
      <3> QED BY <3>1
    <2> QED BY <2>1, <2>2, <2>3 DEF StrictOrder
  <1>5. PICK list : ListedIn(list, S, R)
    BY <1>1, <1>4, CanBeArranged
  <1>6. list \in [1..k -> S] /\ \A i, j \in DOMAIN list : i < j => Ahead(list[i], list[j])
    <2>1. list \in [1..k -> S] /\ \A i, j \in DOMAIN list : i < j => <<list[i], list[j]>> \in R
      BY <1>5 DEF ListedIn
    <2> HIDE DEF k
    <2> QED BY <1>3, <2>1
  <1>7. rank \in [1..k -> S] /\ \A i, j \in DOMAIN rank : i < j => Ahead(rank[i], rank[j])
    <2> DEFINE Q(l) == \A i, j \in DOMAIN l : i < j => Ahead(l[i], l[j])
    <2> HIDE DEF k
    <2>1. list \in [1..k -> S] /\ Q(list)
      BY <1>6
    <2>2. rank = CHOOSE l \in [1..k -> S] : Q(l)
      BY <1>2
    <2> HIDE DEF Q
    <2>3. rank \in [1..k -> S] /\ Q(rank)
      BY <2>1, <2>2
    <2> QED BY <2>3 DEF Q
  <1>8. ListedIn(rank, S, R)
    <2> HIDE DEF k
    <2>1. \A i, j \in DOMAIN rank : i < j => <<rank[i], rank[j]>> \in R
      BY <1>3, <1>7
    <2> QED BY <1>7, <2>1 DEF ListedIn, k
  <1>9. k \in Nat /\ \A x \in S : \E i \in 1..k : rank[i] = x
    BY <1>1, <1>4, <1>8, ArrangedHasAll
  <1> HIDE DEF k
  <1>10. \A i, j \in 1..k : i < j => Known(v[rank[i]]) >= Known(v[rank[j]])
    <2> SUFFICES ASSUME NEW i \in 1..k, NEW j \in 1..k, i < j
                 PROVE  Known(v[rank[i]]) >= Known(v[rank[j]])
      OBVIOUS
    <2>1. rank[i] \in S /\ rank[j] \in S /\ Ahead(rank[i], rank[j])
      BY <1>7
    <2>2. /\ score[rank[i]] \in Int /\ score[rank[j]] \in Int
          /\ score[rank[i]] = Known(v[rank[i]]) /\ score[rank[j]] = Known(v[rank[j]])
      BY <1>1, <2>1
    <2> QED BY <2>1, <2>2
  <1> QED BY <1>7, <1>9, <1>10 DEF S, rank

(* The first text of a video, for the validator and for the advice.         *)
Late(start) == start = None \/ start > Advice!HookDeadline

LEMMA FirstTextIs ==
  ASSUME NEW beats \in TextBeats, None \notin Int
  PROVE  /\ Late(Advice!FirstTextStart(beats)) <=> LacksHook(Advice!ValidateTextBeats(beats, FALSE))
         /\ ~Late(Advice!FirstTextStart(beats)) =>
              \E k \in DOMAIN beats : beats[k].start <= Advice!HookDeadline
  <1> DEFINE start == Advice!FirstTextStart(beats)
             issues == Advice!ValidateTextBeats(beats, FALSE)
  <1>1. CASE beats = <<>>
    <2>1. start = None
      BY <1>1 DEF Advice!FirstTextStart
    <2>2. issues = {[code |-> "NO_TEXT_BEATS", beat |-> 0]}
      BY <1>1 DEF Advice!ValidateTextBeats, Advice!BeatIssue
    <2> HIDE DEF start, issues
    <2>3. LacksHook(issues)
      BY <2>2 DEF LacksHook
    <2>4. Late(start)
      BY <2>1 DEF Late
    <2> QED BY <2>3, <2>4 DEF start, issues
  <1>2. CASE beats # <<>>
    <2> DEFINE n == Len(beats)
               S == {beats[i].start : i \in DOMAIN beats}
               others == UNION {Advice!BeatIssues(beats, i) : i \in DOMAIN beats}
               missing == [code |-> "NO_HOOK_TEXT", beat |-> 0]
    <2>1. /\ n \in Nat /\ n >= 1 /\ DOMAIN beats = 1..n
          /\ \A i \in 1..n : beats[i].start \in Int
      <3> DEFINE Beat == [start : Int, end : Int, inside : BOOLEAN]
      <3>1. beats \in Seq(Beat) /\ \A b \in Beat : b.start \in Int
        BY DEF TextBeats
      <3> HIDE DEF Beat
      <3> QED BY <1>2, <3>1
    <2>2. start = Min(S)
      <3>1. start = Advice!Min(S)
        BY <1>2 DEF Advice!FirstTextStart
      <3> HIDE DEF start, S
      <3> QED BY <3>1, SameAdvice
    <2>3. IsFiniteSet(S) /\ S # {} /\ S \in SUBSET Int
      <3> DEFINE f == [i \in 1..n |-> beats[i].start]
      <3>1. f \in Surjection(1..n, S)
        BY <2>1 DEF Surjection
      <3>2. IsFiniteSet(1..n)
        BY <2>1, FS_Interval
      <3>3. IsFiniteSet(S)
        <4> HIDE DEF f, S, n
        <4> QED BY <3>1, <3>2, FS_Surjection
      <3> QED BY <2>1, <3>3
    <2>4. start \in S /\ \A x \in S : start <= x
      <3> HIDE DEF S, start
      <3> QED BY <2>2, <2>3, MaxIs
    <2>5. Late(start) <=> ~Advice!HasHook(beats)
      <3> HIDE DEF start, n
      <3>1. PICK k \in 1..n : start = beats[k].start
        BY <2>1, <2>4
      <3>2. \A i \in 1..n : start <= beats[i].start
        BY <2>1, <2>4
      <3>3. start \in Int /\ start # None
        BY <2>1, <3>1
      <3>4. Advice!HasHook(beats) <=> start <= 3
        <4>1. Advice!HasHook(beats) <=> \E i \in 1..n : beats[i].start <= 3
          BY <2>1 DEF Advice!HasHook, Advice!HookDeadline
        <4>2. ASSUME NEW i \in 1..n, beats[i].start <= 3 PROVE start <= 3
          <5>1. beats[i].start \in Int /\ start <= beats[i].start
            BY <2>1, <3>2
          <5> QED BY <3>3, <4>2, <5>1
        <4> QED BY <3>1, <4>1, <4>2
      <3> QED BY <3>3, <3>4 DEF Late, Advice!HookDeadline
    <2>6. issues = (IF Advice!HasHook(beats) THEN {} ELSE {missing}) \cup others
      BY <1>2 DEF Advice!ValidateTextBeats, Advice!BeatIssue
    <2>7. \A x \in others : x.code \in {"INVALID_TEXT_BEAT_TIME", "TEXT_OUTSIDE_SAFE_AREA"}
      <3> SUFFICES ASSUME NEW i \in DOMAIN beats, NEW x \in Advice!BeatIssues(beats, i)
                   PROVE  x.code \in {"INVALID_TEXT_BEAT_TIME", "TEXT_OUTSIDE_SAFE_AREA"}
        OBVIOUS
      <3> QED BY DEF Advice!BeatIssues, Advice!BeatIssue
    <2>8. missing.code = "NO_HOOK_TEXT"
      OBVIOUS
    <2> HIDE DEF start, issues, others, missing
    <2>9. LacksHook(issues) <=> ~Advice!HasHook(beats)
      BY <2>6, <2>7, <2>8 DEF LacksHook
    <2>10. ~Late(start) => \E k \in DOMAIN beats : beats[k].start <= Advice!HookDeadline
      BY <2>5 DEF Advice!HasHook
    <2> QED BY <2>5, <2>9, <2>10 DEF start, issues
  <1> QED BY <1>1, <1>2

(* What can be advised for one variant, and for several.                    *)
Cut1(id) == [kind |-> "cut a clearer hook", artifacts |-> <<id>>]
Hook1(id) == [kind |-> "add hook text", artifacts |-> <<id>>]
Promote(b, c) == [kind |-> "promote", artifacts |-> <<b, c>>]
Control(id) == [kind |-> "publish as control", artifacts |-> <<id>>]

LEMMA KindsDiffer ==
  ASSUME NEW a, NEW b, NEW c, NEW d, NEW e
  PROVE  /\ Cut1(a).kind = "cut a clearer hook" /\ Hook1(b).kind = "add hook text"
         /\ Promote(c, d).kind = "promote" /\ Control(e).kind = "publish as control"
         /\ Hook1(b).artifacts = <<b>> /\ Promote(c, d).artifacts = <<c, d>>
         /\ Cut1(a) # Hook1(b) /\ (Hook1(a) = Hook1(b) => a = b)
  BY DEF Cut1, Hook1, Promote, Control

(* The four, whichever the variants.                                        *)
LEMMA KindsAre ==
  \A a, b : /\ Cut1(a).kind = "cut a clearer hook"
            /\ Hook1(a).kind = "add hook text" /\ Hook1(a).artifacts = <<a>>
            /\ Promote(a, b).kind = "promote" /\ Promote(a, b).artifacts = <<a, b>>
            /\ Control(a).kind = "publish as control"
  BY DEF Cut1, Hook1, Promote, Control

(* An edit names what is to be done and to which variant.                   *)
LEMMA EditsDiffer == \A a, b : Cut1(a) # Hook1(b) /\ (Hook1(a) = Hook1(b) => a = b)
  BY KindsDiffer

(* A hook is advised exactly when the first text is late.                   *)
LateText(variant) == Late(Advice!FirstTextStart(variant.beats))
Recommended(list, variant) ==
  /\ list \in Seq({Cut1(variant.id), Hook1(variant.id)})
  /\ Among(list, Hook1(variant.id)) <=> LateText(variant)

(* What one variant is advised: at most the two edits, and the hook rightly.*)
LEMMA RecommendationsAre ==
  ASSUME NEW variant
  PROVE  Recommended(Advice!RecommendationsFor(variant), variant)
  <1> DEFINE cut == Cut1(variant.id)
             hook == Hook1(variant.id)
             V == {cut, hook}
             late == LateText(variant)
             retention == Advice!RetentionSignal(variant.metrics)
             low == retention # None /\ retention < Advice!RetentionFloor
             a == IF low THEN <<cut>> ELSE <<>>
             b == IF late THEN <<hook>> ELSE <<>>
             list == Advice!RecommendationsFor(variant)
  <1>1. list = a \o b
    BY DEF Advice!RecommendationsFor, Cut1, Hook1, LateText, Late
  <1>2. cut # hook
    BY KindsDiffer
  <1> HIDE DEF cut, hook, late, low, list
  <1>3. a \in Seq(V) /\ b \in Seq(V)
    <2>1. <<cut>> \in Seq(V) /\ <<hook>> \in Seq(V) /\ <<>> \in Seq(V)
      OBVIOUS
    <2> QED BY <2>1
  <1>4. ~Among(a, hook)
    <2>1. CASE low
      <3>1. a = <<cut>> /\ DOMAIN <<cut>> = {1} /\ <<cut>>[1] = cut
        BY <2>1
      <3> QED BY <1>2, <3>1 DEF Among
    <2>2. CASE ~low
      <3>1. a = <<>> /\ DOMAIN a = {}
        BY <2>2
      <3> QED BY <3>1 DEF Among
    <2> QED BY <2>1, <2>2
  <1>5. Among(b, hook) <=> late
    <2>1. CASE late
      <3>1. b = <<hook>> /\ DOMAIN <<hook>> = {1} /\ <<hook>>[1] = hook
        BY <2>1
      <3> QED BY <2>1, <3>1 DEF Among
    <2>2. CASE ~late
      <3>1. b = <<>> /\ DOMAIN b = {}
        BY <2>2
      <3> QED BY <2>2, <3>1 DEF Among
    <2> QED BY <2>1, <2>2
  <1> HIDE DEF a, b
  <1>6. list \in Seq(V) /\ (Among(list, hook) <=> late)
    <2> HIDE DEF V
    <2>1. a \o b \in Seq(V)
      BY <1>3
    <2>2. Among(a \o b, hook) <=> Among(a, hook) \/ Among(b, hook)
      BY <1>3, ConcatHas
    <2> QED BY <1>1, <1>4, <1>5, <2>1, <2>2
  <1> QED BY <1>6 DEF Recommended, list, hook, cut, late

(* What recommendations for all variants together hold.                     *)
Ids(v) == {v[i].id : i \in DOMAIN v}
AllFor(v) == Advice!FlattenSeq([i \in DOMAIN v |-> Advice!RecommendationsFor(v[i])])
Edits(v) == {Cut1(x) : x \in Ids(v)} \cup {Hook1(x) : x \in Ids(v)}

(* One after the other, what the variants are advised.                      *)
LEMMA AllForIs ==
  ASSUME NEW v, NEW n \in Nat, DOMAIN v = 1..n
  PROVE  /\ AllFor(v) \in Seq(Edits(v))
         /\ \A x \in Ids(v) : Among(AllFor(v), Hook1(x))
                                <=> \E i \in 1..n : v[i].id = x /\ LateText(v[i])
  <1> DEFINE V == Edits(v)
             recs == [i \in 1..n |-> Advice!RecommendationsFor(v[i])]
  <1>1. ASSUME NEW i \in 1..n
        PROVE  /\ recs[i] \in Seq(V)
               /\ \A x \in Ids(v) : Among(recs[i], Hook1(x)) <=> v[i].id = x /\ LateText(v[i])
    <2> DEFINE list == Advice!RecommendationsFor(v[i])
               W == {Cut1(v[i].id), Hook1(v[i].id)}
    <2>1. list \in Seq(W) /\ (Among(list, Hook1(v[i].id)) <=> LateText(v[i]))
      BY RecommendationsAre DEF Recommended
    <2>2. W \subseteq V
      <3>1. v[i].id \in Ids(v)
        BY DEF Ids
      <3> QED BY <3>1 DEF Edits
    <2>3. list \in Seq(V)
      <3> HIDE DEF list, W, V
      <3>1. list \in [1..Len(list) -> W] /\ Len(list) \in Nat
        BY <2>1, LenProperties
      <3>2. list \in [1..Len(list) -> V]
        BY <2>2, <3>1
      <3> QED BY <3>1, <3>2
    <2>4. ASSUME NEW x \in Ids(v), Among(list, Hook1(x)) PROVE v[i].id = x
      <3>1. Hook1(x) \in W
        <4> HIDE DEF list, W
        <4>1. PICK j \in DOMAIN list : list[j] = Hook1(x)
          BY <2>4 DEF Among
        <4>2. list[j] \in W
          BY <2>1, <4>1
        <4> QED BY <4>1, <4>2
      <3>2. Hook1(x) = Hook1(v[i].id)
        BY <3>1, EditsDiffer
      <3> QED BY <3>2, EditsDiffer
    <2>5. recs[i] = list
      OBVIOUS
    <2> HIDE DEF list, recs, V
    <2> QED BY <2>1, <2>3, <2>4, <2>5
  <1>2. recs \in Seq(Seq(V)) /\ DOMAIN recs = 1..n
    <2> DEFINE S == Seq(V)
    <2>1. recs \in [1..n -> S]
      BY <1>1
    <2> HIDE DEF S, recs
    <2>2. recs \in Seq(S) /\ DOMAIN recs = 1..n
      BY <2>1
    <2> QED BY <2>2 DEF S
  <1>3. AllFor(v) = FlattenSeq(recs)
    BY SameAdvice DEF AllFor
  <1> HIDE DEF recs, V
  <1>4. /\ FlattenSeq(recs) \in Seq(V)
        /\ \A x : Among(FlattenSeq(recs), x) <=> \E i \in 1..n : Among(recs[i], x)
    <2>1. /\ FlattenSeq(recs) \in Seq(V)
          /\ \A x : (\E j \in DOMAIN FlattenSeq(recs) : FlattenSeq(recs)[j] = x)
                      <=> \E i \in DOMAIN recs : \E m \in DOMAIN recs[i] : recs[i][m] = x
      BY <1>2, FlattenHas
    <2> QED BY <1>2, <2>1 DEF Among
  <1> QED BY <1>1, <1>3, <1>4 DEF V

(* The variant to promote is scored as high as any, the other as low as any. *)
Best(v, b, c) ==
  /\ v[b].id # v[c].id
  /\ \A i \in DOMAIN v :
       Known(v[i]) # None => Known(v[c]) <= Known(v[i]) /\ Known(v[i]) <= Known(v[b])
Won(list, v) ==
  \/ list = <<>>
  \/ \E b, c \in DOMAIN v : list = <<Promote(v[b].id, v[c].id)>> /\ Best(v, b, c)

(* One variant is promoted over another, of the best and the worst score, or*)
(* nothing is said of any.                                                  *)
LEMMA WinnerIs ==
  ASSUME NEW v, NEW n \in Nat, DOMAIN v = 1..n, \A i \in 1..n : Known(v[i]) \in Numbers, None \notin Int
  PROVE  Won(Advice!RankRetentionWinner(v), v)
  <1> DEFINE S == Advice!Scored(v)
             rank == Advice!Ranked(v)
             winner == v[rank[1]].id
             loser == v[Advice!Last(rank)].id
             list == Advice!RankRetentionWinner(v)
  <1>1. list = IF Len(rank) < 2 \/ winner = loser THEN <<>> ELSE <<Promote(winner, loser)>>
    BY DEF Advice!RankRetentionWinner, Promote
  <1>2. PICK k \in Nat :
           /\ rank \in [1..k -> S]
           /\ \A x \in S : \E i \in 1..k : rank[i] = x
           /\ \A i, j \in 1..k : i < j => Known(v[rank[i]]) >= Known(v[rank[j]])
    BY RankIs
  <1>3. Len(rank) = k
    BY <1>2
  <1>4. S = {i \in 1..n : Known(v[i]) # None}
    BY DEF Advice!Scored, Known
  <1>5. Advice!Last(rank) = rank[k]
    BY <1>3 DEF Advice!Last
  <1> HIDE DEF S, rank, list
  <1>6. CASE k < 2 \/ winner = loser
    <2>1. list = <<>>
      BY <1>1, <1>3, <1>6
    <2> QED BY <2>1 DEF Won, list
  <1>7. CASE ~(k < 2) /\ winner # loser
    <2> DEFINE b == rank[1]
               c == rank[k]
    <2>1. list = <<Promote(v[b].id, v[c].id)>> /\ v[b].id # v[c].id
      BY <1>1, <1>3, <1>5, <1>7
    <2>2. b \in S /\ c \in S /\ 1 \in 1..k /\ k \in 1..k
      BY <1>2, <1>7
    <2>3. b \in DOMAIN v /\ c \in DOMAIN v
      BY <1>4, <2>2
    <2>4. ASSUME NEW i \in DOMAIN v, Known(v[i]) # None
          PROVE  Known(v[c]) <= Known(v[i]) /\ Known(v[i]) <= Known(v[b])
      <3>1. i \in S
        BY <1>4, <2>4
      <3>2. PICK j \in 1..k : rank[j] = i
        BY <1>2, <3>1
      <3>3. Known(v[i]) \in Int /\ Known(v[b]) \in Int /\ Known(v[c]) \in Int
        BY <1>4, <2>2, <3>1 DEF Numbers
      <3>4. j = 1 \/ Known(v[b]) >= Known(v[i])
        <4>1. j = 1 \/ 1 < j
          OBVIOUS
        <4> QED BY <1>2, <2>2, <3>2, <4>1
      <3>5. j = k \/ Known(v[i]) >= Known(v[c])
        <4>1. j = k \/ j < k
          OBVIOUS
        <4> QED BY <1>2, <2>2, <3>2, <4>1
      <3> HIDE DEF b, c
      <3>6. (j = 1 => i = b) /\ (j = k => i = c)
        BY <3>2 DEF b, c
      <3> QED BY <3>3, <3>4, <3>5, <3>6
    <2>5. Best(v, b, c)
      BY <2>1, <2>4 DEF Best
    <2> QED BY <2>1, <2>3, <2>5 DEF Won, list
  <1> QED BY <1>6, <1>7

(* What recommend_next_edit advises.                                        *)
Advises(all, v) ==
  /\ \A i \in DOMAIN v :
       (\E a \in DOMAIN all : all[a].kind = "add hook text" /\ all[a].artifacts = <<v[i].id>>)
         <=> \E k \in DOMAIN v : v[k].id = v[i].id /\ LateText(v[k])
  /\ \A a \in DOMAIN all : all[a].kind = "promote" =>
       \E b, c \in DOMAIN v : all[a].artifacts = <<v[b].id, v[c].id>> /\ Best(v, b, c)
  /\ (\E a \in DOMAIN all : all[a].kind = "publish as control") =>
       Len(all) = 1 /\ \A i \in DOMAIN v : ~LateText(v[i])

(* The edits first, then the winner; as it is, if there is neither.         *)
LEMMA AdviceIs ==
  ASSUME NEW v, NEW n \in Nat, DOMAIN v = 1..n, \A i \in 1..n : Known(v[i]) \in Numbers, None \notin Int
  PROVE  Advises(Advice!RecommendNextEdit(v), v)
  <1> DEFINE flat == AllFor(v)
             win == Advice!RankRetentionWinner(v)
             both == flat \o win
             control == Control(v[1].id)
             all == Advice!RecommendNextEdit(v)
             P == UNION {{Promote(v[b].id, v[c].id) : b \in 1..n} : c \in 1..n}
             U == Edits(v) \cup P
  <1>1. all = IF both = <<>> THEN <<control>> ELSE both
    BY DEF Advice!RecommendNextEdit, AllFor, Control
  <1>2. /\ flat \in Seq(Edits(v))
        /\ \A x \in Ids(v) : Among(flat, Hook1(x)) <=> \E i \in 1..n : v[i].id = x /\ LateText(v[i])
    BY AllForIs
  <1>3. Won(win, v)
    BY WinnerIs
  <1>k. /\ \A x \in Edits(v) : x.kind \in {"cut a clearer hook", "add hook text"}
        /\ \A x \in P : x.kind = "promote"
        /\ \A x \in Edits(v) : x.kind = "add hook text" => \E y \in Ids(v) : x = Hook1(y)
        /\ \A y \in Ids(v) : Hook1(y).kind = "add hook text" /\ Hook1(y).artifacts = <<y>>
        /\ control.kind = "publish as control"
    <2>1. \A x \in P : x.kind = "promote"
      <3> SUFFICES ASSUME NEW b \in 1..n, NEW c \in 1..n
                   PROVE  Promote(v[b].id, v[c].id).kind = "promote"
        OBVIOUS
      <3> QED BY KindsAre, Zenon
    <2>2. /\ \A x \in Edits(v) : \E y \in Ids(v) : x = Cut1(y) \/ x = Hook1(y)
          /\ control.kind = "publish as control"
      BY KindsAre DEF Edits
    <2>3. ASSUME NEW x \in Edits(v)
          PROVE  /\ x.kind \in {"cut a clearer hook", "add hook text"}
                 /\ x.kind = "add hook text" => \E y \in Ids(v) : x = Hook1(y)
      <3>1. PICK y \in Ids(v) : x = Cut1(y) \/ x = Hook1(y)
        BY <2>2
      <3> QED BY <3>1, KindsAre
    <2>4. \A y \in Ids(v) : Hook1(y).kind = "add hook text" /\ Hook1(y).artifacts = <<y>>
      BY KindsAre, Zenon
    <2> HIDE DEF P, control
    <2> QED BY <2>1, <2>2, <2>3, <2>4
  <1>4. \A i \in 1..n : v[i].id \in Ids(v)
    BY DEF Ids
  <1> HIDE DEF flat, win, both, control, all, P
  <1>5. win \in Seq(P) /\ \A x : Among(win, x) => \E b, c \in 1..n : x = Promote(v[b].id, v[c].id) /\ Best(v, b, c)
    <2>1. CASE win = <<>>
      <3>1. <<>> \in Seq(P) /\ DOMAIN <<>> = {}
        OBVIOUS
      <3> QED BY <2>1, <3>1 DEF Among
    <2>2. CASE \E b, c \in DOMAIN v : win = <<Promote(v[b].id, v[c].id)>> /\ Best(v, b, c)
      <3>1. PICK b \in 1..n, c \in 1..n : win = <<Promote(v[b].id, v[c].id)>> /\ Best(v, b, c)
        BY <2>2
      <3> DEFINE one == Promote(v[b].id, v[c].id)
      <3>2. one \in P
        BY DEF P
      <3>4. one = Promote(v[b].id, v[c].id)
        OBVIOUS
      <3> HIDE DEF one
      <3>3. <<one>> \in Seq(P) /\ DOMAIN <<one>> = {1} /\ <<one>>[1] = one
        BY <3>2
      <3>5. \A x : Among(win, x) => x = one
        BY <3>1, <3>3, <3>4 DEF Among
      <3> QED BY <3>1, <3>3, <3>4, <3>5
    <2> QED BY <1>3, <2>1, <2>2 DEF Won
  <1>6. flat \in Seq(U) /\ win \in Seq(U)
    <2> DEFINE E == Edits(v)
    <2>1. E \subseteq U /\ P \subseteq U
      OBVIOUS
    <2>2. /\ flat \in [1..Len(flat) -> E] /\ Len(flat) \in Nat
          /\ win \in [1..Len(win) -> P] /\ Len(win) \in Nat
      BY <1>2, <1>5, LenProperties
    <2> HIDE DEF E, U
    <2>3. flat \in [1..Len(flat) -> U] /\ win \in [1..Len(win) -> U]
      BY <2>1, <2>2
    <2> QED BY <2>2, <2>3
  <1>7. /\ both \in Seq(U) /\ \A x : Among(both, x) <=> Among(flat, x) \/ Among(win, x)
        /\ both = <<>> => flat = <<>>
    <2> HIDE DEF U
    <2>1. flat \o win \in Seq(U) /\ Len(flat \o win) = Len(flat) + Len(win)
          /\ Len(flat) \in Nat /\ Len(win) \in Nat
      BY <1>6, ConcatProperties, LenProperties
    <2>2. ASSUME NEW x PROVE Among(flat \o win, x) <=> Among(flat, x) \/ Among(win, x)
      BY <1>6, ConcatHas
    <2>3. flat \o win = <<>> => flat = <<>>
      <3> SUFFICES ASSUME flat \o win = <<>> PROVE flat = <<>>
        OBVIOUS
      <3>1. Len(flat) = 0
        BY <2>1
      <3> QED BY <1>6, <3>1, EmptySeq
    <2> QED BY <2>1, <2>2, <2>3 DEF both
  <1>8. CASE both = <<>>
    <2>1. all = <<control>> /\ Len(<<control>>) = 1 /\ DOMAIN <<control>> = {1} /\ <<control>>[1] = control
      BY <1>1, <1>8
    <2>2. \A a \in DOMAIN all : all[a].kind = "publish as control"
      BY <1>k, <2>1
    <2>3. \A x : ~Among(flat, x)
      <3>1. flat = <<>> /\ DOMAIN <<>> = {}
        BY <1>7, <1>8
      <3> QED BY <3>1 DEF Among
    <2>4. \A i \in 1..n : ~LateText(v[i])
      BY <1>2, <1>4, <2>3
    <2>5. Len(all) = 1
      BY <2>1
    <2> QED BY <2>2, <2>4, <2>5 DEF Advises, all
  <1>9. CASE both # <<>>
    <2>1. all = both
      BY <1>1, <1>9
    <2>2. ASSUME NEW a \in DOMAIN all
          PROVE  Among(flat, all[a]) \/ Among(win, all[a])
      <3>1. Among(both, all[a])
        BY <2>1 DEF Among
      <3> QED BY <1>7, <3>1
    <2>3. \A x : Among(flat, x) => x \in Edits(v)
      <3> SUFFICES ASSUME NEW j \in DOMAIN flat PROVE flat[j] \in Edits(v)
        BY DEF Among
      <3> DEFINE E == Edits(v)
      <3> HIDE DEF E
      <3>1. flat \in Seq(E)
        BY <1>2 DEF E
      <3>2. flat[j] \in E
        BY <3>1
      <3> QED BY <3>2 DEF E
    <2>4. \A x : Among(win, x) => x \in P
      <3> SUFFICES ASSUME NEW j \in DOMAIN win PROVE win[j] \in P
        BY DEF Among
      <3> QED BY <1>5
    <2>5. ASSUME NEW i \in 1..n, NEW a \in DOMAIN all,
                 all[a].kind = "add hook text", all[a].artifacts = <<v[i].id>>
          PROVE  \E k \in 1..n : v[k].id = v[i].id /\ LateText(v[k])
      <3>1. all[a] \notin P
        BY <1>k, <2>5
      <3>2. Among(flat, all[a]) /\ all[a] \in Edits(v)
        BY <2>2, <2>3, <2>4, <3>1
      <3>3. PICK y \in Ids(v) : all[a] = Hook1(y)
        BY <1>k, <2>5, <3>2
      <3>4. <<y>> = <<v[i].id>>
        BY <1>k, <2>5, <3>3
      <3>5. y = v[i].id
        BY <3>4
      <3> QED BY <1>2, <3>2, <3>3, <3>5
    <2>6. ASSUME NEW i \in 1..n, \E k \in 1..n : v[k].id = v[i].id /\ LateText(v[k])
          PROVE  \E a \in DOMAIN all : all[a].kind = "add hook text" /\ all[a].artifacts = <<v[i].id>>
      <3>1. Among(all, Hook1(v[i].id))
        BY <1>2, <1>4, <1>7, <2>1, <2>6
      <3>2. PICK a \in DOMAIN all : all[a] = Hook1(v[i].id)
        BY <3>1 DEF Among
      <3> QED BY <1>4, <1>k, <3>2
    <2>7. ASSUME NEW a \in DOMAIN all, all[a].kind = "promote"
          PROVE  \E b, c \in 1..n : all[a].artifacts = <<v[b].id, v[c].id>> /\ Best(v, b, c)
      <3>1. all[a] \notin Edits(v)
        BY <1>k, <2>7
      <3>2. Among(win, all[a])
        BY <2>2, <2>3, <3>1
      <3>3. PICK b \in 1..n, c \in 1..n : all[a] = Promote(v[b].id, v[c].id) /\ Best(v, b, c)
        BY <1>5, <3>2
      <3>4. Promote(v[b].id, v[c].id).artifacts = <<v[b].id, v[c].id>>
        BY KindsAre
      <3> QED BY <3>3, <3>4
    <2>8. \A a \in DOMAIN all : all[a].kind # "publish as control"
      <3> SUFFICES ASSUME NEW a \in DOMAIN all PROVE all[a].kind # "publish as control"
        OBVIOUS
      <3>1. all[a] \in Edits(v) \/ all[a] \in P
        BY <2>2, <2>3, <2>4
      <3> QED BY <1>k, <3>1
    <2> QED BY <2>5, <2>6, <2>7, <2>8 DEF Advises, all
  <1> QED BY <1>8, <1>9

(* The largest variant is the first of the largest.                         *)
LEMMA LargestIs ==
  ASSUME NEW v, NEW n \in Nat, n >= 1, DOMAIN v = 1..n, \A i \in 1..n : v[i].size \in Nat
  PROVE  \E i \in 1..n :
           /\ Advice!CompareVariants(v).largest = v[i].id
           /\ \A k \in 1..n : v[k].size <= v[i].size /\ (k < i => v[k].size < v[i].size)
  <1> DEFINE S == {v[i].size : i \in 1..n}
             L == {i \in 1..n : \A k \in 1..n : v[i].size >= v[k].size}
             i == Min(L)
  <1>1. IsFiniteSet(S) /\ S # {} /\ S \in SUBSET Int
    <2> DEFINE f == [j \in 1..n |-> v[j].size]
    <2>1. f \in Surjection(1..n, S)
      BY DEF Surjection
    <2>2. IsFiniteSet(1..n)
      BY FS_Interval
    <2>3. IsFiniteSet(S)
      <3> HIDE DEF f, S
      <3> QED BY <2>1, <2>2, FS_Surjection
    <2>4. 1 \in 1..n
      OBVIOUS
    <2> QED BY <2>3, <2>4
  <1>2. \E x \in S : \A y \in S : x >= y
    <2> HIDE DEF S
    <2> QED BY <1>1, MaxIs
  <1>3. L # {} /\ IsFiniteSet(L) /\ L \in SUBSET Int
    <2>1. PICK m \in 1..n : \A y \in S : v[m].size >= y
      BY <1>2
    <2>2. \A k \in 1..n : v[m].size >= v[k].size
      BY <2>1
    <2>3. IsFiniteSet(1..n)
      BY FS_Interval
    <2>4. L \subseteq 1..n /\ m \in L
      BY <2>2
    <2> HIDE DEF L
    <2>5. IsFiniteSet(L)
      BY <2>3, <2>4, FS_Subset
    <2> QED BY <2>4, <2>5
  <1>4. i \in L /\ \A k \in L : i <= k
    <2> HIDE DEF L
    <2> QED BY <1>3, MaxIs
  <1>5. Advice!CompareVariants(v).largest = v[i].id
    <2>1. Advice!CompareVariants(v).largest = v[Advice!Min(L)].id
      BY DEF Advice!CompareVariants
    <2> HIDE DEF L
    <2> QED BY <2>1, SameAdvice
  <1> HIDE DEF i
  <1>6. i \in 1..n /\ \A k \in 1..n : v[k].size <= v[i].size
    BY <1>4
  <1>7. ASSUME NEW k \in 1..n, k < i PROVE v[k].size < v[i].size
    <2>1. k \notin L
      <3> HIDE DEF L
      <3>1. k \in Int /\ i \in Int
        BY <1>6
      <3> QED BY <1>4, <1>7, <3>1
    <2>2. PICK m \in 1..n : ~(v[k].size >= v[m].size)
      BY <2>1
    <2>3. v[k].size \in Nat /\ v[m].size \in Nat /\ v[i].size \in Nat /\ v[m].size <= v[i].size
      BY <1>6
    <2> QED BY <2>2, <2>3
  <1> QED BY <1>5, <1>6, <1>7

(* What AskAdvice answers.                                                  *)
Resolved(p) == [i \in DOMAIN p.ids |-> Advice!Resolve(p.library, p.ids[i])]
AdviceAnswer(p) ==
  IF ~Advice!Resolvable(p.library, p.ids) THEN [refused |-> TRUE]
  ELSE [refused |-> FALSE,
        issues |-> [i \in DOMAIN Resolved(p) |-> Advice!ValidateTextBeats(Resolved(p)[i].beats, p.noText)],
        advice |-> Advice!RecommendNextEdit(Resolved(p)),
        compared |-> Advice!CompareVariants(Resolved(p))]

(* Where every id is known, the variants are those of the storage.          *)
LEMMA ResolvedAre ==
  ASSUME NEW p \in AdviceProblems
  PROVE  /\ Advice!Resolvable(p.library, p.ids) <=> \A i \in DOMAIN p.ids : \E a \in p.library : a.id = p.ids[i]
         /\ Advice!Resolvable(p.library, p.ids) =>
              \E n \in Nat :
                /\ n >= 1 /\ DOMAIN Resolved(p) = 1..n /\ DOMAIN p.ids = 1..n
                /\ \A i \in 1..n : /\ Resolved(p)[i] \in p.library /\ Resolved(p)[i].id = p.ids[i]
                                   /\ Known(Resolved(p)[i]) \in Numbers
                                   /\ Resolved(p)[i].beats \in TextBeats /\ Resolved(p)[i].size \in Nat
                /\ \A i, k \in 1..n : Resolved(p)[i].id = Resolved(p)[k].id => Resolved(p)[i] = Resolved(p)[k]
  <1> DEFINE library == p.library
             ids == p.ids
             v == Resolved(p)
             known == Advice!Resolvable(library, ids)
             n == Len(ids)
  <1>1. /\ ids \in Seq(STRING) /\ ids # <<>>
        /\ \A a \in library : /\ a.beats \in TextBeats /\ a.size \in Nat
                              /\ \A m \in RetentionNames : a.metrics[m] \in Numbers
        /\ \A a, b \in library : a.id = b.id => a = b
    BY AdviceAssumption
  <1>2. n \in Nat /\ n >= 1 /\ DOMAIN ids = 1..n
    BY <1>1
  <1>3. known <=> \A i \in 1..n : \E a \in library : a.id = ids[i]
    BY <1>2 DEF Advice!Resolvable, Advice!ToSet
  <1>4. v = [i \in 1..n |-> CHOOSE a \in library : a.id = ids[i]]
    BY <1>2 DEF Resolved, Advice!Resolve
  <1> HIDE DEF library, ids, v, known, n
  <1>5. ASSUME known PROVE \A i \in 1..n : v[i] \in library /\ v[i].id = ids[i]
    <2> SUFFICES ASSUME NEW i \in 1..n PROVE v[i] \in library /\ v[i].id = ids[i]
      OBVIOUS
    <2>1. v[i] = CHOOSE a \in library : a.id = ids[i]
      BY <1>4
    <2>2. \E a \in library : a.id = ids[i]
      BY <1>3, <1>5
    <2> QED BY <2>1, <2>2
  <1>6. ASSUME known
        PROVE  /\ \A i \in 1..n : Known(v[i]) \in Numbers /\ v[i].beats \in TextBeats /\ v[i].size \in Nat
               /\ \A i, k \in 1..n : v[i].id = v[k].id => v[i] = v[k]
    <2>1. ASSUME NEW i \in 1..n PROVE Known(v[i]) \in Numbers
      <3>1. \A m \in RetentionNames : v[i].metrics[m] \in Numbers
        BY <1>1, <1>5, <1>6
      <3> QED BY <3>1, ScoreIs
    <2> QED BY <1>1, <1>5, <1>6, <2>1
  <1>7. DOMAIN v = 1..n
    BY <1>4
  <1>8. known <=> \A i \in DOMAIN ids : \E a \in library : a.id = ids[i]
    BY <1>2, <1>3
  <1>9. known => \E m \in Nat :
                /\ m >= 1 /\ DOMAIN v = 1..m /\ DOMAIN ids = 1..m
                /\ \A i \in 1..m : /\ v[i] \in library /\ v[i].id = ids[i]
                                   /\ Known(v[i]) \in Numbers
                                   /\ v[i].beats \in TextBeats /\ v[i].size \in Nat
                /\ \A i, k \in 1..m : v[i].id = v[k].id => v[i] = v[k]
    BY <1>2, <1>5, <1>6, <1>7
  <1> QED BY <1>8, <1>9 DEF library, ids, v, known

(* The answer to any problem is as promised.                                *)
LEMMA AdviceDoesAgree ==
  ASSUME problem \in AdviceProblems, answer = AdviceAnswer(problem)
  PROVE  AdviceAgrees
  <1> DEFINE library == problem.library
             ids == problem.ids
             known == Advice!Resolvable(library, ids)
             w == Resolved(problem)
             v == [i \in DOMAIN ids |-> CHOOSE a \in library : a.id = ids[i]]
             missing == \E i \in DOMAIN ids : \A a \in library : a.id # ids[i]
  <1>1. known <=> ~missing
    BY ResolvedAre
  <1>2. v = w
    BY DEF Resolved, Advice!Resolve
  <1>3. CASE ~known
    <2>1. answer = [refused |-> TRUE]
      BY <1>3 DEF AdviceAnswer
    <2>2. answer.refused = TRUE
      BY <2>1
    <2>3. missing
      BY <1>1, <1>3
    <2> QED BY <2>2, <2>3 DEF AdviceAgrees
  <1>4. CASE known
    <2> DEFINE issues == [i \in DOMAIN w |-> Advice!ValidateTextBeats(w[i].beats, problem.noText)]
               all == Advice!RecommendNextEdit(w)
               compared == Advice!CompareVariants(w)
    <2>1. answer = [refused |-> FALSE, issues |-> issues, advice |-> all, compared |-> compared]
      BY <1>4 DEF AdviceAnswer
    <2> HIDE DEF issues, all, compared
    <2>2. answer.refused = FALSE /\ answer.issues = issues /\ answer.advice = all /\ answer.compared = compared
      BY <2>1
    <2>3. PICK n \in Nat :
                /\ n >= 1 /\ DOMAIN w = 1..n /\ DOMAIN ids = 1..n
                /\ \A i \in 1..n : /\ w[i] \in library /\ w[i].id = ids[i]
                                   /\ Known(w[i]) \in Numbers
                                   /\ w[i].beats \in TextBeats /\ w[i].size \in Nat
                /\ \A i, k \in 1..n : w[i].id = w[k].id => w[i] = w[k]
      BY <1>4, ResolvedAre
    <2>4. None \notin Int /\ problem.noText \in BOOLEAN
      BY AdviceAssumption
    <2> HIDE DEF w
    <2>5. Advises(all, w)
      <3> HIDE DEF library, ids
      <3>1. \A i \in 1..n : Known(w[i]) \in Numbers
        BY <2>3
      <3> QED BY <2>3, <2>4, <3>1, AdviceIs DEF all
    <2>6. PICK big \in 1..n :
           /\ compared.largest = w[big].id
           /\ \A k \in 1..n : w[k].size <= w[big].size /\ (k < big => w[k].size < w[big].size)
      <3> HIDE DEF library, ids
      <3>1. \A i \in 1..n : w[i].size \in Nat
        BY <2>3
      <3> QED BY <2>3, <3>1, LargestIs DEF compared
    <2>7. ASSUME NEW i \in 1..n
          PROVE  /\ LateText(w[i]) <=> LacksHook(Advice!ValidateTextBeats(w[i].beats, FALSE))
                 /\ ~LateText(w[i]) => \E k \in DOMAIN w[i].beats : w[i].beats[k].start <= Advice!HookDeadline
      <3> DEFINE beats == w[i].beats
      <3>1. beats \in TextBeats
        BY <2>3
      <3> HIDE DEF beats
      <3>2. /\ Late(Advice!FirstTextStart(beats)) <=> LacksHook(Advice!ValidateTextBeats(beats, FALSE))
            /\ ~Late(Advice!FirstTextStart(beats)) =>
                 \E k \in DOMAIN beats : beats[k].start <= Advice!HookDeadline
        BY <2>4, <3>1, FirstTextIs
      <3> QED BY <3>2 DEF LateText, beats
    <2>8. ASSUME ~problem.noText, NEW i \in 1..n
          PROVE  LacksHook(answer.issues[i])
                   <=> \E a \in DOMAIN all : all[a].kind = "add hook text" /\ all[a].artifacts = <<w[i].id>>
      <3>1. answer.issues[i] = Advice!ValidateTextBeats(w[i].beats, FALSE)
        <4>1. problem.noText = FALSE
          BY <2>4, <2>8
        <4> QED BY <2>2, <2>3, <4>1 DEF issues
      <3>2. LateText(w[i]) <=> \E k \in DOMAIN w : w[k].id = w[i].id /\ LateText(w[k])
        BY <2>3
      <3>3. LacksHook(answer.issues[i]) <=> LateText(w[i])
        BY <2>7, <3>1
      <3> QED BY <2>3, <2>5, <3>2, <3>3 DEF Advises
    <2>9. ~missing /\ ~answer.refused
      BY <1>1, <1>4, <2>2
    <2>10. ~problem.noText =>
             \A i \in DOMAIN w :
               LacksHook(answer.issues[i])
                 <=> \E a \in Advised("add hook text") : answer.advice[a].artifacts = <<w[i].id>>
      BY <2>2, <2>3, <2>8 DEF Advised
    <2>11. \A a \in Advised("promote") :
             \E b, c \in DOMAIN w :
               /\ answer.advice[a].artifacts = <<w[b].id, w[c].id>> /\ w[b].id # w[c].id
               /\ \A i \in DOMAIN w :
                    Known(w[i]) # None => Known(w[c]) <= Known(w[i]) /\ Known(w[i]) <= Known(w[b])
      <3> SUFFICES ASSUME NEW a \in DOMAIN all, all[a].kind = "promote"
                   PROVE  \E b, c \in DOMAIN w :
                            /\ all[a].artifacts = <<w[b].id, w[c].id>> /\ w[b].id # w[c].id
                            /\ \A i \in DOMAIN w :
                                 Known(w[i]) # None => Known(w[c]) <= Known(w[i]) /\ Known(w[i]) <= Known(w[b])
        BY <2>2 DEF Advised
      <3>1. PICK b \in DOMAIN w, c \in DOMAIN w : all[a].artifacts = <<w[b].id, w[c].id>> /\ Best(w, b, c)
        BY <2>5 DEF Advises
      <3> QED BY <3>1 DEF Best
    <2>12. Advised("publish as control") # {} =>
             /\ Len(answer.advice) = 1
             /\ \A i \in DOMAIN w :
                  \E k \in DOMAIN w[i].beats : w[i].beats[k].start <= Advice!HookDeadline
      <3> SUFFICES ASSUME NEW a \in DOMAIN all, all[a].kind = "publish as control"
                   PROVE  /\ Len(all) = 1
                          /\ \A i \in 1..n : \E k \in DOMAIN w[i].beats : w[i].beats[k].start <= Advice!HookDeadline
        BY <2>2, <2>3 DEF Advised
      <3>1. Len(all) = 1 /\ \A i \in DOMAIN w : ~LateText(w[i])
        BY <2>5 DEF Advises
      <3> QED BY <2>3, <2>7, <3>1
    <2>13. \E i \in DOMAIN w :
             /\ answer.compared.largest = w[i].id
             /\ \A k \in DOMAIN w : w[k].size <= w[i].size /\ (k < i => w[k].size < w[i].size)
      BY <2>2, <2>3, <2>6
    <2> HIDE DEF v
    <2>14. v = w
      BY <1>2
    <2> DEFINE Agreed(u) ==
           /\ ~problem.noText =>
                \A i \in DOMAIN u :
                  LacksHook(answer.issues[i])
                    <=> \E a \in Advised("add hook text") : answer.advice[a].artifacts = <<u[i].id>>
           /\ \A a \in Advised("promote") :
                \E b, c \in DOMAIN u :
                  /\ answer.advice[a].artifacts = <<u[b].id, u[c].id>> /\ u[b].id # u[c].id
                  /\ \A i \in DOMAIN u :
                       Known(u[i]) # None => Known(u[c]) <= Known(u[i]) /\ Known(u[i]) <= Known(u[b])
           /\ Advised("publish as control") # {} =>
                /\ Len(answer.advice) = 1
                /\ \A i \in DOMAIN u :
                     \E k \in DOMAIN u[i].beats : u[i].beats[k].start <= Advice!HookDeadline
           /\ \E i \in DOMAIN u :
                /\ answer.compared.largest = u[i].id
                /\ \A k \in DOMAIN u : u[k].size <= u[i].size /\ (k < i => u[k].size < u[i].size)
    <2>15. Agreed(w)
      BY <2>10, <2>11, <2>12, <2>13
    <2>16. Agreed(v) /\ ~missing /\ ~answer.refused => AdviceAgrees
      BY Zenon DEF AdviceAgrees, v
    <2> HIDE DEF Agreed, missing
    <2> QED BY <2>9, <2>14, <2>15, <2>16
  <1> QED BY <1>3, <1>4

(* A problem stays, and what is answered is what was computed of it.        *)
AdviceInv ==
  kind = "advice" => /\ problem \in AdviceProblems
                     /\ answer # None => answer = AdviceAnswer(problem)

(* Nothing is answered yet.                                                 *)
LEMMA AdviceInitially == Init => AdviceInv
  BY DEF Init, AdviceInv

(* Only AskAdvice answers for advice.                                       *)
LEMMA AdviceStays == AdviceInv /\ [Next]_vars => AdviceInv'
  <1> SUFFICES ASSUME AdviceInv, [Next]_vars PROVE AdviceInv'
    OBVIOUS
  <1> USE DEF Ask
  <1>1. CASE AskAdvice
    <2>1. kind' = kind /\ problem' = problem /\ kind = "advice" /\ answer' = AdviceAnswer(problem)
      BY <1>1 DEF AskAdvice, AdviceAnswer, Resolved
    <2> QED BY <2>1 DEF AdviceInv
  <1>2. CASE AskCards \/ AskWorkflow \/ AskTurn \/ AskParse \/ AskTools
    <2>1. kind' = kind /\ kind # "advice"
      BY <1>2 DEF AskCards, AskWorkflow, AskTurn, AskParse, AskTools
    <2> QED BY <2>1 DEF AdviceInv
  <1>3. CASE UNCHANGED vars
    BY <1>3 DEF vars, AdviceInv
  <1> QED BY <1>1, <1>2, <1>3 DEF Next

(* For any storage and any list of ids: the validator and the advice agree  *)
(* on the first text of a video; what is promoted scores as well as any, and *)
(* what is archived no better; a variant is published as it is only when     *)
(* nothing is said against any; only unknown ids are refused; and the        *)
(* largest variant is the first of the largest.                              *)
THEOREM AdviceAgreesAlways == Spec => []AdviceAgrees
  <1>1. AdviceInv => AdviceAgrees
    <2>1. CASE Solved("advice")
      <3>1. AdviceInv => problem \in AdviceProblems /\ answer = AdviceAnswer(problem)
        BY <2>1 DEF AdviceInv, Solved
      <3> QED BY <3>1, AdviceDoesAgree
    <2>2. CASE ~Solved("advice")
      BY <2>2 DEF AdviceAgrees
    <2> QED BY <2>1, <2>2
  <1> QED BY <1>1, AdviceInitially, AdviceStays, PTL DEF Spec

===============================================================================
