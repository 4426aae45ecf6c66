--------------------------- MODULE CacheListsProofs ---------------------------
(***************************************************************************)
(* Lemmas about sums of weights and about lists, for the proofs about the   *)
(* caches, the rate limiter and the configuration.                          *)
(*                                                                          *)
(* MapThenSumSet is defined by recursion over sets.  Its solution is unique *)
(* because there is no set of least size on which two solutions differ      *)
(* (TotalIsUnits); everything else about sums is counting.  So is PartAt:   *)
(* an element goes to its rank among those that stay.                       *)
(***************************************************************************)
EXTENDS CacheLists, FiniteSetTheorems, SequenceTheorems, WellFoundedInduction, TLAPS

\* A set of natural numbers that is not empty has a least element.
LEMMA Least ==
  ASSUME NEW T, T \subseteq Nat, T # {}
  PROVE  \E x \in T : \A y \in T : x <= y
  <1> DEFINE R == OpToRel(<, Nat)
  <1>1. IsWellFoundedOn(R, Nat)
    BY NatLessThanWellFounded
  <1>2. \A i, j \in Nat : i < j => <<i, j>> \in R
    BY DEF OpToRel
  <1> HIDE DEF R
  <1>3. PICK x \in T : \A y \in T : ~(<<y, x>> \in R)
    BY <1>1, WFMin
  <1>4. ASSUME NEW y \in T PROVE x <= y
    <2>1. x \in Nat /\ y \in Nat /\ ~(y < x)
      BY <1>2, <1>3
    <2> QED BY <2>1
  <1> QED BY <1>4

\* A bounded one has a greatest.
LEMMA Greatest ==
  ASSUME NEW n \in Nat, NEW T, T \subseteq 0 .. n, T # {}
  PROVE  \E x \in T : \A y \in T : y <= x
  <1> DEFINE U == {n - x : x \in T}
  <1>1. U \subseteq Nat /\ U # {}
    <2>1. \A x \in T : n - x \in Nat
      OBVIOUS
    <2> QED BY <2>1
  <1>2. PICK u \in U : \A v \in U : u <= v
    BY <1>1, Least
  <1>3. PICK x \in T : u = n - x
    OBVIOUS
  <1>4. ASSUME NEW y \in T PROVE y <= x
    <2>1. n - y \in U /\ x \in 0 .. n /\ y \in 0 .. n
      OBVIOUS
    <2>2. n - x <= n - y
      BY <1>2, <1>3, <2>1
    <2> QED BY <2>1, <2>2
  <1> QED BY <1>4

-----------------------------------------------------------------------------
(* Sums.  A sum of natural numbers is the size of a set that has, for every   *)
(* key, as many elements as the key weighs.                                  *)

Units(weight, ks) == UNION {{k} \X (1 .. weight[k]) : k \in ks}

\* Units are pairs.
LEMMA UnitsArePairs ==
  ASSUME NEW weight, NEW ks
  PROVE  \A u : u \in Units(weight, ks) <=>
                  \E k \in ks : \E i \in 1 .. weight[k] : u = <<k, i>>
  BY DEF Units

\* A finite set has finitely many units.
LEMMA UnitsFinite ==
  ASSUME NEW ks, IsFiniteSet(ks), NEW weight, \A k \in ks : weight[k] \in Nat
  PROVE  IsFiniteSet(Units(weight, ks)) /\ Cardinality(Units(weight, ks)) \in Nat
  <1> DEFINE f == [k \in ks |-> {k} \X (1 .. weight[k])]
             T == {{k} \X (1 .. weight[k]) : k \in ks}
  <1>1. f \in Surjection(ks, T)
    BY DEF Surjection
  <1>2. IsFiniteSet(T)
    BY <1>1, FS_Surjection
  <1>3. ASSUME NEW k \in ks PROVE IsFiniteSet({k} \X (1 .. weight[k]))
    <2>1. IsFiniteSet({k})
      BY FS_Singleton
    <2>2. 1 \in Int /\ weight[k] \in Int
      OBVIOUS
    <2>3. IsFiniteSet(1 .. weight[k])
      BY <2>2, FS_Interval
    <2> QED BY <2>1, <2>3, FS_Product
  <1>4. IsFiniteSet(UNION T)
    BY <1>2, <1>3, FS_UNION
  <1>5. IsFiniteSet(Units(weight, ks))
    BY <1>4 DEF Units
  <1> QED BY <1>5, FS_CardinalityType

\* One key has as many units as it weighs.
LEMMA UnitsOfOne ==
  ASSUME NEW k, NEW weight, weight[k] \in Nat
  PROVE  Cardinality(Units(weight, {k})) = weight[k]
  <1>1. Units(weight, {k}) = {k} \X (1 .. weight[k])
    BY DEF Units
  <1>2. IsFiniteSet({k}) /\ Cardinality({k}) = 1
    BY FS_Singleton
  <1>3. IsFiniteSet(1 .. weight[k]) /\ Cardinality(1 .. weight[k]) = weight[k]
    BY FS_Interval, SMTT(40)
  <1>4. Cardinality({k} \X (1 .. weight[k])) = Cardinality({k}) * Cardinality(1 .. weight[k])
    BY <1>2, <1>3, FS_Product
  <1>5. 1 * weight[k] = weight[k]
    OBVIOUS
  <1> QED BY <1>1, <1>2, <1>3, <1>4, <1>5

\* Disjoint sets of keys have disjoint units.
LEMMA UnitsOfUnion ==
  ASSUME NEW S, NEW T, IsFiniteSet(S), IsFiniteSet(T), S \cap T = {},
         NEW weight, \A k \in S \cup T : weight[k] \in Nat
  PROVE  Cardinality(Units(weight, S \cup T)) =
           Cardinality(Units(weight, S)) + Cardinality(Units(weight, T))
  <1>1. Units(weight, S \cup T) = Units(weight, S) \cup Units(weight, T)
    BY UnitsArePairs
  <1>2. Units(weight, S) \cap Units(weight, T) = {}
    BY UnitsArePairs
  <1>3. /\ IsFiniteSet(Units(weight, S)) /\ Cardinality(Units(weight, S)) \in Nat
        /\ IsFiniteSet(Units(weight, T)) /\ Cardinality(Units(weight, T)) \in Nat
    BY UnitsFinite
  <1>4. Cardinality(Units(weight, S) \cap Units(weight, T)) = 0
    BY <1>2, FS_EmptySet
  <1>5. Cardinality(Units(weight, S) \cup Units(weight, T)) =
          Cardinality(Units(weight, S)) + Cardinality(Units(weight, T)) - 0
    BY <1>3, <1>4, FS_Union
  <1>6. \A a, b \in Nat : a + b - 0 = a + b
    OBVIOUS
  <1> QED BY <1>1, <1>3, <1>5, <1>6

\* The recursion that MapThenSumSet goes through has one solution.
LEMMA TotalIsUnits ==
  ASSUME NEW S, IsFiniteSet(S), NEW weight, \A k \in S : weight[k] \in Nat
  PROVE  Total(weight, S) = Cardinality(Units(weight, S))
  <1> DEFINE Sol(f) == f = [s \in SUBSET S |->
                              IF s = {} THEN 0
                              ELSE weight[CHOOSE x \in s : TRUE]
                                     + f[s \ {CHOOSE x \in s : TRUE}]]
             g == [s \in SUBSET S |-> Cardinality(Units(weight, s))]
             it == CHOOSE f : Sol(f)
  <1>1. Total(weight, S) = it[S]
    BY Zenon DEF Total, MapThenSumSet, MapThenFoldSet
  <1>2. ASSUME NEW s \in SUBSET S
        PROVE  /\ s = {} => g[s] = 0
               /\ \A x \in s : g[s] = weight[x] + g[s \ {x}]
    <2>1. Units(weight, {}) = {}
      BY DEF Units
    <2>2. ASSUME NEW x \in s PROVE g[s] = weight[x] + g[s \ {x}]
      <3>1. IsFiniteSet({x}) /\ IsFiniteSet(s \ {x}) /\ s = {x} \cup (s \ {x})
        BY FS_Singleton, FS_Subset
      <3>2. Cardinality(Units(weight, {x} \cup (s \ {x}))) =
              Cardinality(Units(weight, {x})) + Cardinality(Units(weight, s \ {x}))
        BY <3>1, UnitsOfUnion
      <3>3. Cardinality(Units(weight, {x})) = weight[x]
        BY UnitsOfOne
      <3> QED BY <3>1, <3>2, <3>3
    <2> QED BY <2>1, <2>2, FS_EmptySet
  <1> HIDE DEF g
  <1>3. Sol(g)
    <2>1. ASSUME NEW s \in SUBSET S, s # {}
          PROVE  g[s] = weight[CHOOSE x \in s : TRUE] + g[s \ {CHOOSE x \in s : TRUE}]
      <3>1. (CHOOSE x \in s : TRUE) \in s
        BY <2>1
      <3> QED BY <1>2, <3>1
    <2>2. g = [s \in SUBSET S |-> g[s]]
      BY DEF g
    <2> QED BY <1>2, <2>1, <2>2
  <1>4. Sol(it)
    BY <1>3
  <1> HIDE DEF it
  <1>5. ASSUME NEW s0 \in SUBSET S, it[s0] # g[s0] PROVE FALSE
    <2> DEFINE W == {Cardinality(s) : s \in {t \in SUBSET S : it[t] # g[t]}}
    <2>1. \A s \in SUBSET S : IsFiniteSet(s) /\ Cardinality(s) \in Nat
      BY FS_Subset, FS_CardinalityType
    <2>2. W \subseteq Nat /\ W # {}
      BY <1>5, <2>1
    <2>3. PICK n \in W : \A m \in W : n <= m
      BY <2>2, Least
    <2>4. PICK s \in SUBSET S : it[s] # g[s] /\ n = Cardinality(s)
      BY <2>3
    <2>5. CASE s = {}
      BY <1>2, <1>4, <2>4, <2>5
    <2>6. CASE s # {}
      <3>1. PICK x : x = CHOOSE y \in s : TRUE
        OBVIOUS
      <3>2. x \in s
        BY <2>6, <3>1
      <3>3. s \ {x} \in SUBSET S /\ Cardinality(s \ {x}) = Cardinality(s) - 1
        BY <2>1, <3>2, FS_RemoveElement
      <3>4. it[s \ {x}] = g[s \ {x}]
        <4>1. SUFFICES ASSUME it[s \ {x}] # g[s \ {x}] PROVE FALSE
          OBVIOUS
        <4>2. Cardinality(s \ {x}) \in W
          BY <3>3, <4>1
        <4>3. n <= Cardinality(s) - 1 /\ Cardinality(s) \in Nat
          BY <2>1, <2>3, <3>3, <4>2
        <4> QED BY <2>4, <4>3
      <3>5. it[s] = weight[x] + it[s \ {x}]
        BY <1>4, <2>6, <3>1
      <3>6. g[s] = weight[x] + g[s \ {x}]
        BY <1>2, <3>2
      <3> QED BY <2>4, <3>4, <3>5, <3>6
    <2> QED BY <2>5, <2>6
  <1>6. it[S] = g[S]
    BY <1>5
  <1> QED BY <1>1, <1>6 DEF g

-----------------------------------------------------------------------------
(* What the caches use of sums.                                              *)

\* The sum of natural numbers is one.
LEMMA TotalNat ==
  ASSUME NEW S, IsFiniteSet(S), NEW weight, \A k \in S : weight[k] \in Nat
  PROVE  Total(weight, S) \in Nat
  BY TotalIsUnits, UnitsFinite

\* Nothing weighs nothing.
LEMMA TotalEmpty ==
  ASSUME NEW weight PROVE Total(weight, {}) = 0
  <1>1. Units(weight, {}) = {}
    BY DEF Units
  <1>2. IsFiniteSet({}) /\ Cardinality({}) = 0
    BY FS_EmptySet
  <1> QED BY <1>1, <1>2, TotalIsUnits

\* One key weighs its weight.
LEMMA TotalOne ==
  ASSUME NEW k, NEW weight, weight[k] \in Nat
  PROVE  Total(weight, {k}) = weight[k]
  <1>1. IsFiniteSet({k})
    BY FS_Singleton
  <1> QED BY <1>1, TotalIsUnits, UnitsOfOne

\* Sums of disjoint sets add up.
LEMMA TotalUnion ==
  ASSUME NEW S, NEW T, IsFiniteSet(S), IsFiniteSet(T), S \cap T = {},
         NEW weight, \A k \in S \cup T : weight[k] \in Nat
  PROVE  Total(weight, S \cup T) = Total(weight, S) + Total(weight, T)
  <1>1. IsFiniteSet(S \cup T)
    BY FS_Union
  <1> QED BY <1>1, TotalIsUnits, UnitsOfUnion

\* What is taken out of a set is taken off its sum.
LEMMA TotalDifference ==
  ASSUME NEW S, IsFiniteSet(S), NEW T, NEW weight, \A k \in S : weight[k] \in Nat
  PROVE  /\ Total(weight, S \ T) = Total(weight, S) - Total(weight, T \cap S)
         /\ Total(weight, S \ T) <= Total(weight, S)
  <1>1. /\ IsFiniteSet(S \ T) /\ IsFiniteSet(T \cap S)
        /\ S = (S \ T) \cup (T \cap S) /\ (S \ T) \cap (T \cap S) = {}
    BY FS_Subset
  <1>2. Total(weight, S) = Total(weight, S \ T) + Total(weight, T \cap S)
    BY <1>1, TotalUnion
  <1>3. Total(weight, S \ T) \in Nat /\ Total(weight, T \cap S) \in Nat
    BY <1>1, TotalNat
  <1> QED BY <1>2, <1>3

\* A part weighs no more than the whole.
LEMMA TotalMonotone ==
  ASSUME NEW S, IsFiniteSet(S), NEW T \in SUBSET S, NEW weight, \A k \in S : weight[k] \in Nat
  PROVE  Total(weight, T) <= Total(weight, S)
  <1>1. T = S \ (S \ T)
    OBVIOUS
  <1>2. Total(weight, S \ (S \ T)) <= Total(weight, S)
    BY TotalDifference
  <1> QED BY <1>1, <1>2

\* Only the weights of the set count.
LEMMA TotalAgrees ==
  ASSUME NEW S, IsFiniteSet(S), NEW weight, NEW other,
         \A k \in S : weight[k] \in Nat /\ other[k] = weight[k]
  PROVE  Total(other, S) = Total(weight, S)
  <1>1. Units(other, S) = Units(weight, S)
    BY DEF Units
  <1>2. \A k \in S : other[k] \in Nat
    OBVIOUS
  <1> QED BY <1>1, <1>2, TotalIsUnits

\* One weight is replaced, or a new one is added.
LEMMA TotalReplace ==
  ASSUME NEW S, IsFiniteSet(S), NEW weight, \A k \in S : weight[k] \in Nat,
         NEW e, NEW other, other[e] \in Nat, \A k \in S \ {e} : other[k] = weight[k]
  PROVE  Total(other, S \cup {e}) =
           Total(weight, S) - (IF e \in S THEN weight[e] ELSE 0) + other[e]
  <1> DEFINE R == S \ {e}
  <1>1. /\ IsFiniteSet(R) /\ IsFiniteSet({e}) /\ S \cup {e} = R \cup {e} /\ R \cap {e} = {}
        /\ \A k \in R : weight[k] \in Nat /\ other[k] = weight[k]
        /\ \A k \in R \cup {e} : other[k] \in Nat
    BY FS_Subset, FS_Singleton
  <1>2. Total(other, R \cup {e}) = Total(other, R) + Total(other, {e})
    BY <1>1, TotalUnion
  <1>3. Total(other, {e}) = other[e]
    BY TotalOne
  <1>4. Total(other, R) = Total(weight, R)
    BY <1>1, TotalAgrees
  <1>5. Total(weight, R) = Total(weight, S) - Total(weight, {e} \cap S)
    BY TotalDifference
  <1>6. Total(weight, {e} \cap S) = IF e \in S THEN weight[e] ELSE 0
    <2>1. CASE e \in S
      <3>1. {e} \cap S = {e} /\ weight[e] \in Nat
        BY <2>1
      <3> QED BY <2>1, <3>1, TotalOne
    <2>2. CASE e \notin S
      <3>1. {e} \cap S = {}
        BY <2>2
      <3> QED BY <2>2, <3>1, TotalEmpty
    <2> QED BY <2>1, <2>2
  <1> HIDE DEF R
  <1> QED BY <1>1, <1>2, <1>3, <1>4, <1>5, <1>6

\* A key that joins adds its weight.
LEMMA TotalAdd ==
  ASSUME NEW S, IsFiniteSet(S), NEW weight, \A k \in S : weight[k] \in Nat,
         NEW e, e \notin S, NEW other, other[e] \in Nat, \A k \in S : other[k] = weight[k]
  PROVE  Total(other, S \cup {e}) = Total(weight, S) + other[e]
  <1>1. Total(other, S \cup {e}) =
          Total(weight, S) - (IF e \in S THEN weight[e] ELSE 0) + other[e]
    BY TotalReplace
  <1>2. Total(weight, S) \in Nat
    BY TotalNat
  <1> QED BY <1>1, <1>2

-----------------------------------------------------------------------------
(* Lists.                                                                    *)

Rank(K, i) == Cardinality({j \in K : j <= i})

\* The elements of a finite set of numbers have the ranks from 1 on, in their order.
LEMMA Ranks ==
  ASSUME NEW n \in Nat, NEW K \in SUBSET (1 .. n)
  PROVE  /\ IsFiniteSet(K) /\ Cardinality(K) \in Nat
         /\ \A i \in K : Rank(K, i) \in 1 .. Cardinality(K)
         /\ \A i, j \in K : i < j => Rank(K, i) < Rank(K, j)
         /\ \A m \in 1 .. Cardinality(K) : \E i \in K : Rank(K, i) = m
  <1>1. IsFiniteSet(K) /\ Cardinality(K) \in Nat
    <2>1. IsFiniteSet(1 .. n)
      BY FS_Interval
    <2> QED BY <2>1, FS_Subset, FS_CardinalityType
  <1> DEFINE Upto(i) == {j \in K : j <= i}
  <1>2. \A i \in K : IsFiniteSet(Upto(i)) /\ Cardinality(Upto(i)) \in Nat
    BY <1>1, FS_Subset, FS_CardinalityType
  <1>3. ASSUME NEW i \in K PROVE Rank(K, i) \in 1 .. Cardinality(K)
    <2>1. Cardinality(Upto(i)) <= Cardinality(K)
      BY <1>1, FS_Subset
    <2>2. i \in Upto(i)
      OBVIOUS
    <2>3. Cardinality(Upto(i)) # 0
      BY <1>2, <2>2, FS_EmptySet
    <2> QED BY <1>1, <1>2, <2>1, <2>3 DEF Rank
  <1>4. ASSUME NEW i \in K, NEW j \in K, i < j PROVE Rank(K, i) < Rank(K, j)
    <2>1. i \in Int /\ j \in Int /\ \A l \in K : l \in Int
      OBVIOUS
    <2>2. \A l \in K : l <= i => l <= j
      BY <1>4, <2>1
    <2>3. j <= j /\ ~(j <= i)
      BY <1>4, <2>1
    <2>4. Upto(i) \in SUBSET Upto(j) /\ j \in Upto(j) /\ j \notin Upto(i)
      BY <2>2, <2>3
    <2>5. Cardinality(Upto(i)) <= Cardinality(Upto(j))
      BY <1>2, <2>4, FS_Subset
    <2>6. Cardinality(Upto(i)) # Cardinality(Upto(j))
      BY <1>2, <2>4, FS_Subset
    <2> QED BY <1>2, <2>5, <2>6 DEF Rank
  <1> DEFINE f == [i \in K |-> Rank(K, i)]
  <1>5. f \in Injection(K, 1 .. Cardinality(K))
    <2>1. f \in [K -> 1 .. Cardinality(K)]
      BY <1>3
    <2>2. ASSUME NEW i \in K, NEW j \in K, f[i] = f[j] PROVE i = j
      <3>1. i \in Int /\ j \in Int
        OBVIOUS
      <3>2. ~(i < j) /\ ~(j < i)
        BY <1>3, <1>4, <2>2
      <3> QED BY <3>1, <3>2
    <2> QED BY <2>1, <2>2 DEF Injection, IsInjective
  <1>6. IsFiniteSet(1 .. Cardinality(K)) /\ Cardinality(1 .. Cardinality(K)) = Cardinality(K)
    BY <1>1, FS_Interval, SMTT(30)
  <1>7. f \in Surjection(K, 1 .. Cardinality(K))
    BY <1>5, <1>6, FS_Injection
  <1>8. \A m \in 1 .. Cardinality(K) : \E i \in K : Rank(K, i) = m
    BY <1>7 DEF Surjection
  <1> QED BY <1>1, <1>3, <1>4, <1>8

\* A part of a list keeps the order: there is a place in the list for every place in the
\* part, the same that were chosen, and in the same order.
LEMMA PartPlaces ==
  ASSUME NEW S, NEW list \in Seq(S), NEW places \in SUBSET (DOMAIN list)
  PROVE  /\ PartAt(list, places) \in Seq(S)
         /\ \E place \in [DOMAIN PartAt(list, places) -> DOMAIN list] :
              /\ \A n \in DOMAIN PartAt(list, places) :
                   PartAt(list, places)[n] = list[place[n]] /\ place[n] \in places
              /\ \A i \in places : \E n \in DOMAIN PartAt(list, places) : place[n] = i
              /\ \A m, n \in DOMAIN PartAt(list, places) : m < n => place[m] < place[n]
  <1> DEFINE N == Cardinality(places)
             place == [n \in 1 .. N |-> CHOOSE i \in places : Rank(places, i) = n]
             new == [n \in 1 .. N |-> list[place[n]]]
  <1>1. Len(list) \in Nat /\ DOMAIN list = 1 .. Len(list) /\ \A i \in DOMAIN list : list[i] \in S
    BY LenProperties
  <1>2. /\ N \in Nat
        /\ \A i \in places : Rank(places, i) \in 1 .. N
        /\ \A i, j \in places : i < j => Rank(places, i) < Rank(places, j)
        /\ \A n \in 1 .. N : \E i \in places : Rank(places, i) = n
    BY <1>1, Ranks
  <1>3. \A n \in 1 .. N : place[n] \in places /\ Rank(places, place[n]) = n
    BY <1>2
  <1>4. PartAt(list, places) = new
    BY DEF PartAt, Rank
  <1> HIDE DEF place, N
  <1>5. \A i \in places : i \in DOMAIN list /\ i \in Nat
    BY <1>1
  <1>6. DOMAIN new = 1 .. N /\ \A n \in 1 .. N : new[n] = list[place[n]]
    OBVIOUS
  <1>7. new \in Seq(S)
    BY <1>1, <1>2, <1>3, <1>5
  <1>8. place \in [DOMAIN new -> DOMAIN list]
    BY <1>3, <1>5, <1>6 DEF place
  <1>9. ASSUME NEW i \in places PROVE \E n \in 1 .. N : place[n] = i
    <2>1. Rank(places, i) \in 1 .. N
      BY <1>2
    <2>2. place[Rank(places, i)] \in places /\ Rank(places, place[Rank(places, i)]) = Rank(places, i)
      BY <1>3, <2>1
    <2>3. place[Rank(places, i)] = i
      <3>1. \A m \in 1 .. N : ~(m < m)
        OBVIOUS
      <3>2. ~(place[Rank(places, i)] < i) /\ ~(i < place[Rank(places, i)])
        BY <1>2, <2>1, <2>2, <3>1
      <3>3. place[Rank(places, i)] \in Nat /\ i \in Nat
        BY <1>5, <2>2
      <3> QED BY <3>2, <3>3
    <2> QED BY <2>1, <2>3
  <1>10. ASSUME NEW m \in 1 .. N, NEW n \in 1 .. N, m < n PROVE place[m] < place[n]
    <2>1. /\ place[m] \in places /\ place[n] \in places /\ place[m] \in Nat /\ place[n] \in Nat
          /\ Rank(places, place[m]) = m /\ Rank(places, place[n]) = n
      BY <1>3, <1>5
    <2>2. m \in Nat /\ n \in Nat
      OBVIOUS
    <2>3. place[m] # place[n] /\ ~(place[n] < place[m])
      BY <1>2, <1>10, <2>1, <2>2
    <2> QED BY <2>1, <2>3
  <1> HIDE DEF new
  <1> QED BY <1>3, <1>4, <1>5, <1>6, <1>7, <1>8, <1>9, <1>10

\* Those that stay, too.
LEMMA WithoutPlaces ==
  ASSUME NEW S, NEW list \in Seq(S), NEW gone
  PROVE  /\ Without(list, gone) \in Seq(S)
         /\ \E place \in [DOMAIN Without(list, gone) -> DOMAIN list] :
              /\ \A n \in DOMAIN Without(list, gone) :
                   /\ Without(list, gone)[n] = list[place[n]]
                   /\ list[place[n]] \notin gone
              /\ \A i \in DOMAIN list : list[i] \notin gone =>
                   \E n \in DOMAIN Without(list, gone) : place[n] = i
              /\ \A m, n \in DOMAIN Without(list, gone) : m < n => place[m] < place[n]
  <1> DEFINE stay == {i \in DOMAIN list : list[i] \notin gone}
             new == PartAt(list, stay)
  <1>1. Without(list, gone) = new
    BY DEF Without
  <1>2. stay \in SUBSET (DOMAIN list)
    OBVIOUS
  <1> HIDE DEF stay
  <1>3. new \in Seq(S)
    BY <1>2, PartPlaces
  <1>4. PICK place \in [DOMAIN new -> DOMAIN list] :
          /\ \A n \in DOMAIN new : new[n] = list[place[n]] /\ place[n] \in stay
          /\ \A i \in stay : \E n \in DOMAIN new : place[n] = i
          /\ \A m, n \in DOMAIN new : m < n => place[m] < place[n]
    BY <1>2, PartPlaces, SMTT(60)
  <1>5. /\ \A n \in DOMAIN new : list[place[n]] \notin gone
        /\ \A i \in DOMAIN list : list[i] \notin gone => \E n \in DOMAIN new : place[n] = i
    BY <1>4 DEF stay
  <1> HIDE DEF new
  <1> QED BY <1>1, <1>3, <1>4, <1>5

\* What is left of a list, and that nothing is doubled.
LEMMA WithoutElements ==
  ASSUME NEW S, NEW list \in Seq(S), NEW gone
  PROVE  /\ Without(list, gone) \in Seq(S)
         /\ ToSet(Without(list, gone)) = ToSet(list) \ gone
         /\ IsInjective(list) => IsInjective(Without(list, gone))
  <1> DEFINE new == Without(list, gone)
  <1>1. new \in Seq(S)
    BY WithoutPlaces
  <1>2. PICK place \in [DOMAIN new -> DOMAIN list] :
          /\ \A n \in DOMAIN new : new[n] = list[place[n]] /\ list[place[n]] \notin gone
          /\ \A i \in DOMAIN list : list[i] \notin gone => \E n \in DOMAIN new : place[n] = i
          /\ \A m, n \in DOMAIN new : m < n => place[m] < place[n]
    BY WithoutPlaces, SMTT(60)
  <1> HIDE DEF new
  <1>3. ToSet(new) = ToSet(list) \ gone
    <2>1. ASSUME NEW x \in ToSet(new) PROVE x \in ToSet(list) \ gone
      BY <1>2, <2>1 DEF ToSet
    <2>2. ASSUME NEW x \in ToSet(list), x \notin gone PROVE x \in ToSet(new)
      <3>1. PICK i \in DOMAIN list : list[i] = x
        BY DEF ToSet
      <3>2. PICK n \in DOMAIN new : place[n] = i
        BY <1>2, <2>2, <3>1
      <3> QED BY <1>2, <3>1, <3>2 DEF ToSet
    <2> QED BY <2>1, <2>2
  <1>4. ASSUME IsInjective(list), NEW m \in DOMAIN new, NEW n \in DOMAIN new, new[m] = new[n]
        PROVE  m = n
    <2>1. place[m] = place[n]
      BY <1>2, <1>4 DEF IsInjective
    <2>2. DOMAIN new \subseteq Nat /\ DOMAIN list \subseteq Nat
      BY <1>1, LenProperties
    <2>3. ~(m < n) /\ ~(n < m)
      BY <1>2, <2>1, <2>2
    <2> QED BY <2>2, <2>3
  <1>5. IsInjective(list) => IsInjective(new)
    BY <1>4 DEF IsInjective
  <1> QED BY <1>1, <1>3, <1>5 DEF new

\* A list without repetition has as many places as elements.
LEMMA ListLength ==
  ASSUME NEW S, NEW list \in Seq(S), IsInjective(list)
  PROVE  /\ IsFiniteSet(ToSet(list)) /\ ToSet(list) \subseteq S
         /\ Len(list) \in Nat /\ Cardinality(ToSet(list)) = Len(list)
  <1>1. Len(list) \in Nat /\ DOMAIN list = 1 .. Len(list) /\ list \in [1 .. Len(list) -> S]
    BY LenProperties
  <1>2. list \in Surjection(1 .. Len(list), ToSet(list))
    BY <1>1 DEF Surjection, ToSet
  <1>3. list \in Injection(1 .. Len(list), ToSet(list))
    BY <1>1, <1>2 DEF Injection, Surjection, IsInjective
  <1>4. IsFiniteSet(1 .. Len(list)) /\ Cardinality(1 .. Len(list)) = Len(list)
    BY <1>1, FS_Interval, SMTT(30)
  <1>5. IsFiniteSet(ToSet(list)) /\ Cardinality(ToSet(list)) = Cardinality(1 .. Len(list))
    BY <1>2, <1>3, <1>4, FS_Surjection
  <1> QED BY <1>1, <1>4, <1>5 DEF ToSet

\* A new element joins a list at its front.
LEMMA JoinsFront ==
  ASSUME NEW S, NEW list \in Seq(S), NEW e \in S, e \notin ToSet(list), IsInjective(list)
  PROVE  /\ <<e>> \o list \in Seq(S) /\ IsInjective(<<e>> \o list)
         /\ ToSet(<<e>> \o list) = ToSet(list) \cup {e}
         /\ Len(<<e>> \o list) = Len(list) + 1
  <1> DEFINE new == <<e>> \o list
  <1>1. Len(list) \in Nat /\ DOMAIN list = 1 .. Len(list)
    BY LenProperties
  <1>2. /\ new \in Seq(S) /\ Len(new) = Len(list) + 1 /\ DOMAIN new = 1 .. Len(list) + 1
        /\ new[1] = e /\ \A i \in 2 .. Len(list) + 1 : new[i] = list[i - 1]
    OBVIOUS
  <1> HIDE DEF new
  <1>3. ASSUME NEW i \in DOMAIN list PROVE i + 1 \in DOMAIN new /\ new[i + 1] = list[i]
    BY <1>1, <1>2
  <1>4. ASSUME NEW i \in DOMAIN new, i # 1
        PROVE  i - 1 \in DOMAIN list /\ new[i] = list[i - 1]
    BY <1>1, <1>2, <1>4
  <1>5. ToSet(new) = ToSet(list) \cup {e}
    BY <1>1, <1>2, <1>3, <1>4 DEF ToSet
  <1>6. ASSUME NEW i \in DOMAIN new, NEW j \in DOMAIN new, new[i] = new[j] PROVE i = j
    <2>1. CASE i = 1 \/ j = 1
      BY <1>2, <1>4, <1>6, <2>1 DEF ToSet
    <2>2. CASE i # 1 /\ j # 1
      <3>1. i - 1 \in DOMAIN list /\ j - 1 \in DOMAIN list /\ list[i - 1] = list[j - 1]
        BY <1>4, <1>6, <2>2
      <3>2. i - 1 = j - 1
        BY <3>1 DEF IsInjective
      <3> QED BY <1>1, <1>2, <3>2
    <2> QED BY <2>1, <2>2
  <1> QED BY <1>2, <1>5, <1>6 DEF new, IsInjective

\* A new element joins a list at its end.
LEMMA JoinsEnd ==
  ASSUME NEW S, NEW list \in Seq(S), NEW e \in S, e \notin ToSet(list), IsInjective(list)
  PROVE  /\ Append(list, e) \in Seq(S) /\ IsInjective(Append(list, e))
         /\ ToSet(Append(list, e)) = ToSet(list) \cup {e}
         /\ Len(Append(list, e)) = Len(list) + 1
  <1> DEFINE new == Append(list, e)
  <1>1. Len(list) \in Nat /\ DOMAIN list = 1 .. Len(list)
    BY LenProperties
  <1>2. /\ new \in Seq(S) /\ Len(new) = Len(list) + 1 /\ DOMAIN new = 1 .. Len(list) + 1
        /\ new[Len(list) + 1] = e /\ \A i \in 1 .. Len(list) : new[i] = list[i]
    BY AppendProperties, LenProperties
  <1> HIDE DEF new
  <1>3. ToSet(new) = ToSet(list) \cup {e}
    BY <1>1, <1>2 DEF ToSet
  <1>4. \A i \in DOMAIN new : i = Len(list) + 1 \/ i \in DOMAIN list
    BY <1>1, <1>2
  <1>5. ASSUME NEW i \in DOMAIN new, NEW j \in DOMAIN new, new[i] = new[j] PROVE i = j
    BY <1>1, <1>2, <1>4, <1>5 DEF ToSet, IsInjective
  <1> QED BY <1>2, <1>3, <1>5 DEF new, IsInjective

\* The elements of a part of a list.
LEMMA PartElements ==
  ASSUME NEW S, NEW list \in Seq(S), NEW a \in 1 .. Len(list) + 1, NEW b \in 0 .. Len(list)
  PROVE  ToSet(SubSeq(list, a, b)) = {list[i] : i \in a .. b}
  <1>1. Len(list) \in Nat /\ DOMAIN list = 1 .. Len(list) /\ \A i \in a .. b : list[i] \in S
    BY LenProperties
  <1>2. CASE a <= b
    <2>1. /\ DOMAIN SubSeq(list, a, b) = 1 .. b - a + 1
          /\ \A i \in 1 .. b - a + 1 : SubSeq(list, a, b)[i] = list[a + i - 1]
      BY <1>1, <1>2, SubSeqProperties, LenProperties
    <2>2. \A i \in a .. b : i - a + 1 \in 1 .. b - a + 1 /\ a + (i - a + 1) - 1 = i
      BY <1>1
    <2>3. \A i \in 1 .. b - a + 1 : a + i - 1 \in a .. b
      BY <1>1
    <2>4. ASSUME NEW i \in a .. b PROVE \E j \in 1 .. b - a + 1 : SubSeq(list, a, b)[j] = list[i]
      <3>1. SubSeq(list, a, b)[i - a + 1] = list[i]
        BY <2>1, <2>2
      <3> QED BY <2>2, <3>1
    <2> DEFINE part == SubSeq(list, a, b)
    <2>5. ASSUME NEW x \in ToSet(part) PROVE x \in {list[i] : i \in a .. b}
      <3>1. PICK j \in 1 .. b - a + 1 : x = part[j]
        BY <2>1, <2>5 DEF ToSet
      <3> QED BY <2>1, <2>3, <3>1
    <2>6. ASSUME NEW i \in a .. b PROVE list[i] \in ToSet(part)
      <3>1. \E j \in DOMAIN part : part[j] = list[i]
        BY <2>1, <2>4
      <3> QED BY <3>1 DEF ToSet
    <2> QED BY <2>5, <2>6
  <1>3. CASE b < a
    <2>1. SubSeq(list, a, b) = <<>> /\ a .. b = {}
      BY <1>1, <1>3, SubSeqEmpty
    <2> QED BY <2>1 DEF ToSet
  <1> QED BY <1>1, <1>2, <1>3

\* The greater of two numbers.
LEMMA MaxOfTwo ==
  ASSUME NEW a \in Int, NEW b \in Int
  PROVE  /\ Max({a, b}) = IF a >= b THEN a ELSE b
         /\ Max({a, b}) \in Int
  <1>1. CASE a >= b
    <2>1. \A x \in {a, b} : (\A y \in {a, b} : x >= y) <=> x = a
      BY <1>1
    <2> QED BY <1>1, <2>1 DEF Max
  <1>2. CASE ~(a >= b)
    <2>1. \A x \in {a, b} : (\A y \in {a, b} : x >= y) <=> x = b
      BY <1>2
    <2> QED BY <1>2, <2>1 DEF Max
  <1> QED BY <1>1, <1>2

\* The smaller of two numbers.
LEMMA MinOfTwo ==
  ASSUME NEW a \in Int, NEW b \in Int
  PROVE  /\ Min({a, b}) = IF a <= b THEN a ELSE b
         /\ Min({a, b}) \in Int
  <1>1. CASE a <= b
    <2>1. \A x \in {a, b} : (\A y \in {a, b} : x <= y) <=> x = a
      BY <1>1
    <2> QED BY <1>1, <2>1 DEF Min
  <1>2. CASE ~(a <= b)
    <2>1. \A x \in {a, b} : (\A y \in {a, b} : x <= y) <=> x = b
      BY <1>2
    <2> QED BY <1>2, <2>1 DEF Min
  <1> QED BY <1>1, <1>2

\* The greatest element of a bounded set of numbers, as Max finds it.
LEMMA GreatestIsMax ==
  ASSUME NEW n \in Nat, NEW T, T \subseteq 0 .. n, T # {}
  PROVE  Max(T) \in T /\ \A y \in T : y <= Max(T)
  <1>1. PICK x \in T : \A y \in T : y <= x
    BY Greatest
  <1>2. \A y \in T : x >= y
    BY <1>1
  <1>3. Max(T) \in T /\ \A y \in T : Max(T) >= y
    BY <1>1, <1>2 DEF Max
  <1> QED BY <1>3

\* The elements of a list from place a to place b.
Stretch(list, a, b) == {list[i] : i \in a .. b}

\* A list without repetition cut in two after n elements.
LEMMA CutInTwo ==
  ASSUME NEW S, NEW list \in Seq(S), IsInjective(list), NEW n \in 0 .. Len(list)
  PROVE  /\ ToSet(SubSeq(list, 1, n)) = Stretch(list, 1, n)
         /\ ToSet(SubSeq(list, n + 1, Len(list))) = Stretch(list, n + 1, Len(list))
         /\ ToSet(list) \ Stretch(list, n + 1, Len(list)) = Stretch(list, 1, n)
         /\ ToSet(list) \ Stretch(list, 1, n) = Stretch(list, n + 1, Len(list))
         /\ IsFiniteSet(Stretch(list, 1, n)) /\ Cardinality(Stretch(list, 1, n)) = n
         /\ IsFiniteSet(Stretch(list, n + 1, Len(list)))
         /\ Cardinality(Stretch(list, n + 1, Len(list))) = Len(list) - n
  <1> DEFINE front == {list[i] : i \in 1 .. n}
             rest == {list[i] : i \in n + 1 .. Len(list)}
  <1>1. Len(list) \in Nat /\ DOMAIN list = 1 .. Len(list) /\ ToSet(list) = {list[i] : i \in 1 .. Len(list)}
    BY LenProperties DEF ToSet
  <1>2. ToSet(SubSeq(list, 1, n)) = front
    <2>1. 1 \in 1 .. Len(list) + 1 /\ n \in 0 .. Len(list)
      BY <1>1
    <2> QED BY <2>1, PartElements
  <1>3. ToSet(SubSeq(list, n + 1, Len(list))) = rest
    <2>1. n + 1 \in 1 .. Len(list) + 1 /\ Len(list) \in 0 .. Len(list)
      BY <1>1
    <2> QED BY <2>1, PartElements
  <1>4. ToSet(list) = front \cup rest /\ front \cap rest = {}
    <2>1. \A i \in 1 .. Len(list) : i \in 1 .. n \/ i \in n + 1 .. Len(list)
      BY <1>1
    <2>2. \A i \in 1 .. n : i \in 1 .. Len(list)
      BY <1>1
    <2>3. \A i \in n + 1 .. Len(list) : i \in 1 .. Len(list)
      BY <1>1
    <2>4. \A i \in 1 .. n, j \in n + 1 .. Len(list) : i # j
      BY <1>1
    <2>5. \A i, j \in 1 .. Len(list) : list[i] = list[j] => i = j
      BY <1>1 DEF IsInjective
    <2>6. ToSet(list) = front \cup rest
      BY <1>1, <2>1, <2>2, <2>3
    <2>7. ASSUME NEW i \in 1 .. n, NEW j \in n + 1 .. Len(list) PROVE list[i] # list[j]
      BY <2>2, <2>3, <2>4, <2>5
    <2> QED BY <2>6, <2>7
  <1>5. IsFiniteSet(ToSet(list)) /\ Cardinality(ToSet(list)) = Len(list)
    BY ListLength
  <1>6. IsFiniteSet(front) /\ IsFiniteSet(rest)
    BY <1>4, <1>5, FS_Subset
  <1>7. Cardinality(front) = n
    <2> DEFINE f == [i \in 1 .. n |-> list[i]]
    <2>1. IsFiniteSet(1 .. n) /\ Cardinality(1 .. n) = n
      BY FS_Interval, SMTT(30)
    <2>2. f \in Surjection(1 .. n, front)
      BY DEF Surjection
    <2>3. \A i, j \in 1 .. n : f[i] = f[j] => i = j
      BY <1>1 DEF IsInjective
    <2> HIDE DEF f, front
    <2>4. f \in Injection(1 .. n, front)
      BY <2>2, <2>3 DEF Injection, IsInjective, Surjection
    <2>5. Cardinality(front) = Cardinality(1 .. n)
      BY <2>1, <2>2, <2>4, FS_Surjection
    <2> QED BY <2>1, <2>5
  <1>8. Cardinality(front) + Cardinality(rest) = Len(list)
    <2> HIDE DEF front, rest
    <2>1. Cardinality(front \cup rest) =
            Cardinality(front) + Cardinality(rest) - Cardinality(front \cap rest)
      BY <1>6, FS_Union
    <2>2. Cardinality(front \cap rest) = 0
      BY <1>4, FS_EmptySet
    <2>3. Cardinality(front) \in Nat /\ Cardinality(rest) \in Nat
      BY <1>6, FS_CardinalityType
    <2> QED BY <1>4, <1>5, <2>1, <2>2, <2>3
  <1>9. Cardinality(rest) \in Nat
    BY <1>6, FS_CardinalityType
  <1> HIDE DEF front, rest
  <1>10. /\ ToSet(list) \ rest = front /\ ToSet(list) \ front = rest
        /\ Cardinality(rest) = Len(list) - n
    BY <1>1, <1>4, <1>7, <1>8, <1>9
  <1>11. front = Stretch(list, 1, n) /\ rest = Stretch(list, n + 1, Len(list))
    BY DEF front, rest, Stretch
  <1> QED BY <1>2, <1>3, <1>6, <1>7, <1>10, <1>11

\* One element stands before another in a list.
Before(list, x, y) == \E i, j \in DOMAIN list : i < j /\ list[i] = x /\ list[j] = y

\* What Without leaves stands as it stood.
LEMMA WithoutOrder ==
  ASSUME NEW S, NEW list \in Seq(S), NEW gone, NEW x, NEW y, Before(Without(list, gone), x, y)
  PROVE  Before(list, x, y)
  <1> DEFINE new == Without(list, gone)
  <1>1. PICK place \in [DOMAIN new -> DOMAIN list] :
          /\ \A n \in DOMAIN new : new[n] = list[place[n]]
          /\ \A m, n \in DOMAIN new : m < n => place[m] < place[n]
    BY WithoutPlaces
  <1>2. PICK m, n \in DOMAIN new : m < n /\ new[m] = x /\ new[n] = y
    BY DEF Before
  <1> HIDE DEF new
  <1>3. place[m] \in DOMAIN list /\ place[n] \in DOMAIN list
    BY <1>1, <1>2
  <1>4. place[m] < place[n] /\ list[place[m]] = x /\ list[place[n]] = y
    BY <1>1, <1>2
  <1> QED BY <1>3, <1>4 DEF Before

\* So does what is behind a new first element.
LEMMA FrontOrder ==
  ASSUME NEW S, NEW list \in Seq(S), NEW e \in S, NEW x, NEW y,
         Before(<<e>> \o list, x, y), x # e
  PROVE  Before(list, x, y)
  <1> DEFINE new == <<e>> \o list
  <1>1. Len(list) \in Nat /\ DOMAIN list = 1 .. Len(list)
    BY LenProperties
  <1>2. /\ Len(new) = Len(list) + 1 /\ DOMAIN new = 1 .. Len(list) + 1
        /\ \A n \in 1 .. Len(list) + 1 : new[n] = IF n = 1 THEN e ELSE list[n - 1]
    BY <1>1
  <1>3. PICK m, n \in DOMAIN new : m < n /\ new[m] = x /\ new[n] = y
    BY DEF Before
  <1> HIDE DEF new
  <1>4. m \in 1 .. Len(list) + 1 /\ n \in 1 .. Len(list) + 1 /\ m # 1 /\ n # 1
    BY <1>1, <1>2, <1>3
  <1>5. m - 1 \in DOMAIN list /\ n - 1 \in DOMAIN list /\ m - 1 < n - 1
    BY <1>1, <1>3, <1>4
  <1>6. list[m - 1] = x /\ list[n - 1] = y
    BY <1>2, <1>3, <1>4
  <1> QED BY <1>5, <1>6 DEF Before

=============================================================================
