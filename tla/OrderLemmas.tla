------------------------------ MODULE OrderLemmas ------------------------------
(***************************************************************************)
(* Least and greatest numbers, induction, and sequences one after the      *)
(* other: what the proofs about lines, arguments and entries share.        *)
(***************************************************************************)
EXTENDS Integers, Places, FiniteSetsExt, FiniteSetTheorems, WellFoundedInduction, TLAPS

\* A set of natural numbers has a least element.
LEMMA LeastExists ==
  ASSUME NEW S, S \subseteq Nat, S # {}
  PROVE  \E x \in S : \A y \in S : x <= y
  <1>1. PICK x \in S : \A y \in S : <<y, x>> \notin OpToRel(<, Nat)
    BY NatLessThanWellFounded, WFMin
  <1>2. \A y \in S : ~(y < x)
    BY <1>1 DEF OpToRel
  <1>3. QED
    BY <1>2

\* Induction, for a property given as the set of the numbers that have it.
LEMMA Induction ==
  ASSUME NEW S, 0 \in S, \A n \in Nat : n \in S => n + 1 \in S
  PROVE  Nat \subseteq S
  <1> SUFFICES ASSUME Nat \ S # {} PROVE FALSE
    OBVIOUS
  <1>1. PICK x \in Nat \ S : \A y \in Nat \ S : x <= y
    BY LeastExists
  <1>2. x # 0 /\ x - 1 \in Nat /\ x - 1 \notin Nat \ S
    BY <1>1
  <1>3. QED
    BY <1>1, <1>2

\* A bounded set of natural numbers has a greatest element.
LEMMA GreatestExists ==
  ASSUME NEW n \in Nat, NEW S, S \subseteq 0..n, S # {}
  PROVE  \E x \in S : \A y \in S : y <= x
  <1> DEFINE R == {n - x : x \in S}
  <1>1. PICK x0 \in S : TRUE
    OBVIOUS
  <1>2. R \subseteq Nat
    OBVIOUS
  <1>3. n - x0 \in R
    OBVIOUS
  <1>4. PICK r \in R : \A q \in R : r <= q
    <2> HIDE DEF R
    <2> QED
      BY <1>2, <1>3, LeastExists
  <1>5. PICK x \in S : r = n - x
    OBVIOUS
  <1>6. \A y \in S : n - x <= n - y
    BY <1>4, <1>5
  <1>7. QED
    BY <1>6

\* Min and Max of the community modules.
LEMMA MinIs ==
  ASSUME NEW S, S \subseteq Int, NEW m \in S, \A y \in S : m <= y
  PROVE  Min(S) = m
  <1>1. \A x \in S : (\A y \in S : x <= y) => x = m
    OBVIOUS
  <1>2. QED
    BY <1>1 DEF Min

LEMMA MaxIs ==
  ASSUME NEW S, S \subseteq Int, NEW m \in S, \A y \in S : y <= m
  PROVE  Max(S) = m
  <1>1. \A x \in S : (\A y \in S : x >= y) => x = m
    OBVIOUS
  <1>2. QED
    BY <1>1 DEF Max

LEMMA MinLeast ==
  ASSUME NEW S, S \subseteq Nat, S # {}
  PROVE  Min(S) \in S /\ \A y \in S : Min(S) <= y
  BY LeastExists DEF Min

LEMMA MaxGreatest ==
  ASSUME NEW n \in Nat, NEW S, S \subseteq 0..n, S # {}
  PROVE  Max(S) \in S /\ \A y \in S : y <= Max(S)
  <1>1. PICK x \in S : \A y \in S : x >= y
    BY GreatestExists
  <1>2. QED
    BY <1>1 DEF Max

\* Two sequences, one after the other.
LEMMA Joined ==
  ASSUME NEW T, NEW s \in Seq(T), NEW t \in Seq(T), NEW n \in Nat, Len(s) = n
  PROVE  /\ s \o t \in Seq(T) /\ Len(s \o t) = n + Len(t)
         /\ \A i \in 1..n : (s \o t)[i] = s[i]
         /\ \A i \in 1..Len(t) : (s \o t)[n + i] = t[i]
  OBVIOUS

LEMMA JoinedEmpty ==
  ASSUME NEW T, NEW s \in Seq(T), NEW t \in Seq(T), s \o t = << >>
  PROVE  s = << >> /\ t = << >>
  <1> DEFINE n == Len(s)
  <1>1. n \in Nat /\ Len(t) \in Nat
    OBVIOUS
  <1>2. Len(s \o t) = n + Len(t)
    BY <1>1, Joined
  <1>3. Len(s \o t) = 0
    OBVIOUS
  <1>4. Len(s) = 0 /\ Len(t) = 0
    BY <1>1, <1>2, <1>3
  <1>5. QED
    BY <1>4

\* Two sequences with the same elements.
LEMMA SameElements ==
  ASSUME NEW T, NEW s \in Seq(T), NEW t \in Seq(T), Len(s) = Len(t),
         \A i \in 1..Len(s) : s[i] = t[i]
  PROVE  s = t
  OBVIOUS

\* In a strict total order of n things, each of the numbers below n is how
\* many come before exactly one of them.
LEMMA Ranks ==
  ASSUME NEW n \in Nat, NEW R,
         \A i \in 1..n : <<i, i>> \notin R,
         \A i, j, k \in 1..n : <<i, j>> \in R /\ <<j, k>> \in R => <<i, k>> \in R,
         \A i, j \in 1..n : i # j => <<i, j>> \in R \/ <<j, i>> \in R
  PROVE  LET Before(i) == {j \in 1..n : <<j, i>> \in R} IN
         /\ \A i \in 1..n : Cardinality(Before(i)) \in 0..(n - 1)
         /\ \A i, j \in 1..n :
              <<i, j>> \in R => Cardinality(Before(i)) < Cardinality(Before(j))
         /\ \A k \in 1..n : \E i \in 1..n : Cardinality(Before(i)) = k - 1
  <1> DEFINE Before(i) == {j \in 1..n : <<j, i>> \in R}
             rank == [i \in 1..n |-> Cardinality(Before(i)) + 1]
  <1>1. IsFiniteSet(1..n) /\ Cardinality(1..n) = n
    BY FS_Interval
  <1>2. ASSUME NEW i \in 1..n
        PROVE  /\ IsFiniteSet(Before(i)) /\ Cardinality(Before(i)) \in Nat
               /\ Cardinality(Before(i)) < n
    <2>1. Before(i) \in SUBSET (1..n) /\ Before(i) # 1..n
      BY <1>2
    <2> HIDE DEF Before
    <2>2. IsFiniteSet(Before(i)) /\ Cardinality(Before(i)) <= n /\ Cardinality(Before(i)) # n
      BY <1>1, <2>1, FS_Subset
    <2>3. QED
      BY <2>2, FS_CardinalityType
  <1>3. ASSUME NEW i \in 1..n, NEW j \in 1..n, <<i, j>> \in R
        PROVE  Cardinality(Before(i)) < Cardinality(Before(j))
    <2>1. Before(i) \in SUBSET Before(j) /\ Before(i) # Before(j)
      BY <1>3
    <2> HIDE DEF Before
    <2>2. Cardinality(Before(i)) <= Cardinality(Before(j))
          /\ Cardinality(Before(i)) # Cardinality(Before(j))
      BY <1>2, <2>1, FS_Subset
    <2>3. QED
      BY <1>2, <2>2
  <1>4. rank \in [1..n -> 1..n]
    <2> HIDE DEF Before
    <2>1. \A i \in 1..n : Cardinality(Before(i)) + 1 \in 1..n
      BY <1>2
    <2>2. QED
      BY <2>1
  <1>5. \A i, j \in 1..n : i # j => rank[i] # rank[j]
    <2> SUFFICES ASSUME NEW i \in 1..n, NEW j \in 1..n, i # j PROVE rank[i] # rank[j]
      OBVIOUS
    <2>1. Cardinality(Before(i)) # Cardinality(Before(j))
      <3>1. <<i, j>> \in R \/ <<j, i>> \in R
        OBVIOUS
      <3>2. Cardinality(Before(i)) < Cardinality(Before(j))
            \/ Cardinality(Before(j)) < Cardinality(Before(i))
        BY <1>3, <3>1
      <3> HIDE DEF Before
      <3>3. QED
        BY <1>2, <3>2
    <2> HIDE DEF Before
    <2>2. QED
      BY <1>2, <2>1
  <1> HIDE DEF Before
  <1>6. rank \in Injection(1..n, 1..n)
    <2> HIDE DEF rank
    <2> QED
      BY <1>4, <1>5 DEF Injection, IsInjective
  <1>7. rank \in Surjection(1..n, 1..n)
    <2> HIDE DEF rank
    <2> QED
      BY <1>1, <1>6, FS_Injection
  <1>8. ASSUME NEW k \in 1..n
        PROVE  \E i \in 1..n : Cardinality(Before(i)) = k - 1
    <2>1. PICK i \in 1..n : rank[i] = k
      <3> HIDE DEF rank
      <3> QED
        BY <1>7 DEF Surjection
    <2>2. Cardinality(Before(i)) + 1 = k /\ Cardinality(Before(i)) \in Nat
      BY <1>2, <2>1
    <2>3. QED
      BY <2>2
  <1>9. \A i \in 1..n : Cardinality(Before(i)) \in 0..(n - 1)
    BY <1>2
  <1>10. /\ \A i, j \in 1..n :
               <<i, j>> \in R => Cardinality(Before(i)) < Cardinality(Before(j))
         /\ \A k \in 1..n : \E i \in 1..n : Cardinality(Before(i)) = k - 1
    BY <1>3, <1>8
  <1>11. QED
    BY <1>9, <1>10, Zenon DEF Before

-----------------------------------------------------------------------------
(* What AtPlaces picks out of a sequence.                                  *)

\* One more place.
Pick(s, D, picked, i) == IF i \in D THEN Append(picked, s[i]) ELSE picked

\* The fold over sets of places, unfolded.
Picks(s, D, n, g) ==
  g = [S \in SUBSET (1..n) |-> IF S = {} THEN << >> ELSE Pick(s, D, g[S \ {Max(S)}], Max(S))]

LEMMA PickUnfolds ==
  ASSUME NEW s, NEW D, NEW N \in Nat
  PROVE  \E g : Picks(s, D, N, g)
  <1> DEFINE P == {n \in Nat : \E g : Picks(s, D, n, g)}
  <1>1. 0 \in P
    <2> DEFINE g == [S \in SUBSET (1..0) |-> << >>]
    <2>1. \A S \in SUBSET (1..0) : S = {}
      OBVIOUS
    <2>2. Picks(s, D, 0, g)
      BY <2>1 DEF Picks
    <2>3. QED
      BY <2>2
  <1>2. ASSUME NEW n \in Nat, n \in P PROVE n + 1 \in P
    <2>1. PICK g : Picks(s, D, n, g)
      BY <1>2
    <2> DEFINE h == [S \in SUBSET (1..n + 1) |->
                       IF n + 1 \in S THEN Pick(s, D, g[S \ {n + 1}], n + 1) ELSE g[S]]
    <2>2. ASSUME NEW S \in SUBSET (1..n + 1)
          PROVE  h[S] = IF S = {} THEN << >> ELSE Pick(s, D, h[S \ {Max(S)}], Max(S))
      <3>1. CASE n + 1 \in S
        <4>1. S # {} /\ \A y \in S : y <= n + 1
          BY <3>1
        <4>2. S \subseteq Int /\ n + 1 \in S
          BY <3>1
        <4>3. Max(S) = n + 1
          BY <4>1, <4>2, MaxIs
        <4>4. S \ {n + 1} \in SUBSET (1..n + 1) /\ n + 1 \notin S \ {n + 1}
          OBVIOUS
        <4>5. h[S \ {n + 1}] = g[S \ {n + 1}]
          BY <4>4
        <4>6. QED
          BY <3>1, <4>1, <4>3, <4>5
      <3>2. CASE n + 1 \notin S
        <4>1. S \in SUBSET (1..n)
          BY <3>2
        <4>2. h[S] = g[S]
          BY <3>2
        <4>3. g[S] = IF S = {} THEN << >> ELSE Pick(s, D, g[S \ {Max(S)}], Max(S))
          BY <2>1, <4>1 DEF Picks
        <4>4. h[S \ {Max(S)}] = g[S \ {Max(S)}]
          <5>1. S \ {Max(S)} \in SUBSET (1..n + 1) /\ n + 1 \notin S \ {Max(S)}
            BY <3>2
          <5>2. QED
            BY <5>1
        <4>5. QED
          BY <4>2, <4>3, <4>4
      <3>3. QED
        BY <3>1, <3>2
    <2>3. Picks(s, D, n + 1, h)
      <3>1. h = [S \in SUBSET (1..n + 1) |-> h[S]]
        OBVIOUS
      <3> HIDE DEF h
      <3>2. QED
        BY <2>2, <3>1 DEF Picks
    <2> HIDE DEF h
    <2>4. n + 1 \in Nat
      OBVIOUS
    <2>5. QED
      BY <2>3, <2>4
  <1>3. N \in P
    <2> HIDE DEF P
    <2>1. QED
      BY <1>1, <1>2, Induction
  <1>4. QED
    BY <1>3

\* The first n places without the n-th.
LEMMA Initial ==
  ASSUME NEW N \in Nat, NEW n \in 1..N
  PROVE  1..n \in SUBSET (1..N) /\ 1..n # {} /\ (1..n) \ {n} = 1..(n - 1) /\ Max(1..n) = n
  <1>1. \A i \in 1..n : i \in 1..N
    OBVIOUS
  <1>2. n \in 1..n /\ 1..n \subseteq Int /\ \A y \in 1..n : y <= n
    OBVIOUS
  <1>3. \A i : i \in 1..(n - 1) <=> i \in 1..n /\ i # n
    OBVIOUS
  <1>4. QED
    BY <1>1, <1>2, <1>3, MaxIs

\* What is picked from the first places, place by place.
Gathers(s, D, N, acc) ==
  /\ acc[0] = << >> /\ acc[N] = AtPlaces(s, D)
  /\ \A n \in 1..N : acc[n] = Pick(s, D, acc[n - 1], n)

\* The loop of AtPlaces, step by step.
LEMMA PlacesFold ==
  ASSUME NEW s, NEW D, NEW N \in Nat, DOMAIN s = 1..N
  PROVE  \E acc : Gathers(s, D, N, acc)
  <1> DEFINE Eq(g) == Picks(s, D, N, g)
             it == CHOOSE g : Eq(g)
             Raw(g) == g = [S \in SUBSET (1..N) |->
                       IF S = {} THEN << >> ELSE Pick(s, D, g[S \ {Max(S)}], [i \in 1..N |-> i][Max(S)])]
  <1>1. Eq(it)
    <2>1. \E g : Eq(g)
      BY PickUnfolds
    <2>2. QED
      BY <2>1
  <1>2. AtPlaces(s, D) = it[1..N]
    <2>1. \A S \in SUBSET (1..N) : S # {} => [i \in 1..N |-> i][Max(S)] = Max(S)
      <3> SUFFICES ASSUME NEW S \in SUBSET (1..N), S # {} PROVE Max(S) \in 1..N
        OBVIOUS
      <3>1. S \subseteq 0..N
        OBVIOUS
      <3>2. QED
        BY <3>1, MaxGreatest
    <2>2. ASSUME NEW g
          PROVE  [S \in SUBSET (1..N) |->
                       IF S = {} THEN << >> ELSE Pick(s, D, g[S \ {Max(S)}], [i \in 1..N |-> i][Max(S)])]
                 = [S \in SUBSET (1..N) |->
                       IF S = {} THEN << >> ELSE Pick(s, D, g[S \ {Max(S)}], Max(S))]
      BY <2>1
    <2>3. \A g : Raw(g) <=> Eq(g)
      BY <2>2 DEF Picks
    <2>4. AtPlaces(s, D) = (CHOOSE g : Raw(g))[1..N]
      BY DEF AtPlaces, FoldLeft, MapThenFoldSet, Pick
    <2> HIDE DEF Raw, Eq
    <2>5. (CHOOSE g : Raw(g)) = it
      BY <2>3
    <2>6. QED
      BY <2>4, <2>5
  <1> HIDE DEF it
  <1> DEFINE acc == [n \in 0..N |-> it[1..n]]
  <1>3. \A S \in SUBSET (1..N) :
          it[S] = IF S = {} THEN << >> ELSE Pick(s, D, it[S \ {Max(S)}], Max(S))
    BY <1>1 DEF Picks
  <1>4. acc[0] = << >>
    <2>1. 1..0 = {} /\ {} \in SUBSET (1..N)
      OBVIOUS
    <2>2. acc[0] = it[{}]
      BY <2>1
    <2>3. QED
      BY <1>3, <2>1, <2>2
  <1>5. acc[N] = AtPlaces(s, D)
    BY <1>2
  <1>6. ASSUME NEW n \in 1..N PROVE acc[n] = Pick(s, D, acc[n - 1], n)
    <2>1. acc[n] = it[1..n] /\ acc[n - 1] = it[1..(n - 1)]
      OBVIOUS
    <2>2. 1..n \in SUBSET (1..N) /\ 1..n # {} /\ (1..n) \ {n} = 1..(n - 1) /\ Max(1..n) = n
      BY Initial
    <2> HIDE DEF acc
    <2>3. QED
      BY <1>3, <2>1, <2>2
  <1> HIDE DEF acc
  <1>7. QED
    BY <1>4, <1>5, <1>6 DEF Gathers

\* The k-th element picked from the first n places of s is from place at[k].
Picked(s, T, D, r, n, at) ==
  /\ r \in Seq(T) /\ at \in [1..Len(r) -> 1..n]
  /\ \A k \in 1..Len(r) : at[k] \in D /\ r[k] = s[at[k]]
  /\ \A k, l \in 1..Len(r) : k < l => at[k] < at[l]
  /\ \A i \in 1..n : i \in D => \E k \in 1..Len(r) : at[k] = i

\* One more place, which is picked or not.
LEMMA PickOne ==
  ASSUME NEW T, NEW s \in Seq(T), NEW D, NEW r, NEW n \in Nat, NEW at, Picked(s, T, D, r, n, at),
         n + 1 \in 1..Len(s)
  PROVE  \E new : Picked(s, T, D, Pick(s, D, r, n + 1), n + 1, new)
  <1> DEFINE m == Len(r)
  <1>1. /\ r \in Seq(T) /\ m \in Nat /\ at \in [1..m -> 1..n]
        /\ \A k \in 1..m : at[k] \in D /\ r[k] = s[at[k]] /\ at[k] \in 1..n
        /\ \A k, l \in 1..m : k < l => at[k] < at[l]
        /\ \A i \in 1..n : i \in D => \E k \in 1..m : at[k] = i
    BY DEF Picked
  <1>2. s[n + 1] \in T
    OBVIOUS
  <1>3. CASE n + 1 \notin D
    <2>1. Pick(s, D, r, n + 1) = r
      BY <1>3 DEF Pick
    <2>2. at \in [1..m -> 1..n + 1]
      BY <1>1
    <2>3. \A i \in 1..n + 1 : i \in D => i \in 1..n
      BY <1>3
    <2>4. Picked(s, T, D, r, n + 1, at)
      BY <1>1, <2>2, <2>3 DEF Picked
    <2>5. QED
      BY <2>1, <2>4
  <1>4. CASE n + 1 \in D
    <2> DEFINE new == [k \in 1..m + 1 |-> IF k <= m THEN at[k] ELSE n + 1]
               e == Append(r, s[n + 1])
    <2>1. Pick(s, D, r, n + 1) = e
      BY <1>4 DEF Pick
    <2>2. e \in Seq(T) /\ Len(e) = m + 1 /\ e[m + 1] = s[n + 1] /\ \A k \in 1..m : e[k] = r[k]
      BY <1>1, <1>2
    <2>3. /\ new \in [1..m + 1 -> 1..n + 1] /\ new[m + 1] = n + 1
          /\ \A k \in 1..m : new[k] = at[k] /\ new[k] \in 1..n
      BY <1>1
    <2>4. \A k \in 1..m + 1 : k \in 1..m \/ k = m + 1
      BY <1>1
    <2> HIDE DEF new, e, m
    <2>5. \A k \in 1..m + 1 : new[k] \in D /\ e[k] = s[new[k]]
      BY <1>1, <1>4, <2>2, <2>3, <2>4
    <2>6. ASSUME NEW k \in 1..m + 1, NEW l \in 1..m + 1, k < l PROVE new[k] < new[l]
      <3>1. k \in 1..m /\ new[k] = at[k] /\ new[k] \in 1..n
        BY <1>1, <2>3, <2>6
      <3>2. CASE l \in 1..m
        BY <1>1, <2>3, <2>6, <3>1, <3>2
      <3>3. CASE l = m + 1
        BY <2>3, <3>1, <3>3
      <3>4. QED
        BY <2>4, <3>2, <3>3
    <2>7. ASSUME NEW i \in 1..n + 1, i \in D PROVE \E k \in 1..m + 1 : new[k] = i
      <3>1. CASE i = n + 1
        BY <1>1, <2>3, <3>1
      <3>2. CASE i # n + 1
        <4>1. i \in 1..n
          BY <3>2
        <4>2. PICK k \in 1..m : at[k] = i
          BY <1>1, <2>7, <4>1
        <4>3. k \in 1..m + 1
          BY <1>1
        <4>4. QED
          BY <2>3, <4>2, <4>3
      <3>3. QED
        BY <3>1, <3>2
    <2>8. Picked(s, T, D, e, n + 1, new)
      BY <2>2, <2>3, <2>5, <2>6, <2>7 DEF Picked
    <2>9. QED
      BY <2>1, <2>8
  <1>5. QED
    BY <1>3, <1>4

\* What AtPlaces picks: the elements at the places D, each of them, in order.
LEMMA AtPlacesAre ==
  ASSUME NEW T, NEW s \in Seq(T), NEW D
  PROVE  \E at : Picked(s, T, D, AtPlaces(s, D), Len(s), at)
  <1> DEFINE N == Len(s)
  <1>1. N \in Nat /\ DOMAIN s = 1..N
    OBVIOUS
  <1> HIDE DEF N
  <1>2. PICK acc : Gathers(s, D, N, acc)
    BY <1>1, PlacesFold
  <1> DEFINE P == {n \in Nat : n <= N => \E at : Picked(s, T, D, acc[n], n, at)}
  <1>3. 0 \in P
    <2> DEFINE at == [k \in 1..0 |-> 0]
    <2>1. Picked(s, T, D, << >>, 0, at)
      BY DEF Picked
    <2>2. QED
      BY <1>2, <2>1 DEF Gathers
  <1>4. ASSUME NEW n \in Nat, n \in P PROVE n + 1 \in P
    <2>1. SUFFICES ASSUME n + 1 <= N
                   PROVE  \E at : Picked(s, T, D, acc[n + 1], n + 1, at)
      OBVIOUS
    <2>2. PICK at : Picked(s, T, D, acc[n], n, at)
      BY <1>1, <1>4, <2>1
    <2>3. n + 1 \in 1..N /\ (n + 1) - 1 = n
      BY <1>1, <2>1
    <2>4. acc[n + 1] = Pick(s, D, acc[n], n + 1)
      BY <1>2, <2>3 DEF Gathers
    <2>5. n + 1 \in 1..Len(s)
      BY <2>3 DEF N
    <2>6. QED
      BY <2>2, <2>4, <2>5, PickOne
  <1>5. N \in P
    <2> HIDE DEF P
    <2>1. QED
      BY <1>1, <1>3, <1>4, Induction
  <1>6. QED
    BY <1>1, <1>2, <1>5 DEF N, Gathers

-----------------------------------------------------------------------------
(* Any fold over a sequence: the recursive function in it exists, if the   *)
(* steps of the fold stay in a set, and then it stays in that set.         *)

\* The fold over sets of places, for the step F.
FoldUnfolded(g, base, F, N) ==
  g = [S \in SUBSET (1..N) |-> IF S = {} THEN base ELSE F[<<g[S \ {Max(S)}], Max(S)>>]]

FoldUnfolds(St, base, F, N) == \E g \in [SUBSET (1..N) -> St] : FoldUnfolded(g, base, F, N)

LEMMA FoldExists ==
  ASSUME NEW St, NEW base \in St, NEW N \in Nat, NEW F \in [St \X (1..N) -> St]
  PROVE  FoldUnfolds(St, base, F, N)
  <1> DEFINE P == {n \in Nat : n <= N => FoldUnfolds(St, base, F, n)}
  <1>1. 0 \in P
    <2> DEFINE g == [S \in SUBSET (1..0) |-> base]
    <2>1. \A S \in SUBSET (1..0) : S = {}
      OBVIOUS
    <2>2. FoldUnfolded(g, base, F, 0)
      BY <2>1 DEF FoldUnfolded
    <2>3. g \in [SUBSET (1..0) -> St]
      OBVIOUS
    <2> HIDE DEF g
    <2>4. QED
      BY <2>2, <2>3 DEF FoldUnfolds
  <1>2. ASSUME NEW n \in Nat, n \in P PROVE n + 1 \in P
    <2> SUFFICES ASSUME n + 1 <= N PROVE FoldUnfolds(St, base, F, n + 1)
      OBVIOUS
    <2>0. FoldUnfolds(St, base, F, n)
      BY <1>2
    <2>1. PICK g \in [SUBSET (1..n) -> St] : FoldUnfolded(g, base, F, n)
      BY <2>0 DEF FoldUnfolds
    <2> DEFINE h == [S \in SUBSET (1..n + 1) |->
                       IF n + 1 \in S THEN F[<<g[S \ {n + 1}], n + 1>>] ELSE g[S]]
    <2>2. ASSUME NEW S \in SUBSET (1..n + 1)
          PROVE  /\ h[S] = IF S = {} THEN base ELSE F[<<h[S \ {Max(S)}], Max(S)>>]
                 /\ h[S] \in St
      <3>1. CASE n + 1 \in S
        <4>1. S # {} /\ \A y \in S : y <= n + 1
          BY <3>1
        <4>2. S \subseteq Int /\ n + 1 \in S
          BY <3>1
        <4>3. Max(S) = n + 1
          BY <4>1, <4>2, MaxIs
        <4>4. S \ {n + 1} \in SUBSET (1..n + 1) /\ n + 1 \notin S \ {n + 1}
          OBVIOUS
        <4>5. h[S \ {n + 1}] = g[S \ {n + 1}]
          BY <4>4
        <4>6. S \ {n + 1} \in SUBSET (1..n)
          OBVIOUS
        <4>7. g[S \ {n + 1}] \in St /\ n + 1 \in 1..N
          BY <4>6
        <4>8. F[<<g[S \ {n + 1}], n + 1>>] \in St
          BY <4>7
        <4>9. h[S] = F[<<g[S \ {n + 1}], n + 1>>]
          BY <3>1
        <4>10. QED
          BY <4>1, <4>3, <4>5, <4>8, <4>9
      <3>2. CASE n + 1 \notin S
        <4>1. S \in SUBSET (1..n)
          BY <3>2
        <4>2. h[S] = g[S] /\ g[S] \in St
          BY <3>2, <4>1
        <4>3. g[S] = IF S = {} THEN base ELSE F[<<g[S \ {Max(S)}], Max(S)>>]
          BY <2>1, <4>1 DEF FoldUnfolded
        <4>4. h[S \ {Max(S)}] = g[S \ {Max(S)}]
          <5>1. S \ {Max(S)} \in SUBSET (1..n + 1) /\ n + 1 \notin S \ {Max(S)}
            BY <3>2
          <5>2. QED
            BY <5>1
        <4>5. QED
          BY <4>2, <4>3, <4>4
      <3>3. QED
        BY <3>1, <3>2
    <2>3. h = [S \in SUBSET (1..n + 1) |-> h[S]]
      OBVIOUS
    <2> HIDE DEF h
    <2>4. FoldUnfolded(h, base, F, n + 1)
      BY <2>2, <2>3 DEF FoldUnfolded
    <2>5. h \in [SUBSET (1..n + 1) -> St]
      BY <2>2, <2>3
    <2>6. QED
      BY <2>4, <2>5 DEF FoldUnfolds
  <1>3. N \in P
    <2> HIDE DEF P
    <2>1. QED
      BY <1>1, <1>2, Induction
  <1>4. QED
    BY <1>3

\* The greatest of some places is one of them.
LEMMA LastPlace ==
  ASSUME NEW N \in Nat, NEW S \in SUBSET (1..N), S # {}
  PROVE  Max(S) \in 1..N /\ S \ {Max(S)} \in SUBSET (1..N)
  <1>1. S \subseteq 0..N
    OBVIOUS
  <1>2. QED
    BY <1>1, MaxGreatest

\* A loop goes through the states T, from base to end, by the steps F.
Loop(T, St, base, F, N, end) ==
  /\ T \in [0..N -> St] /\ T[0] = base /\ T[N] = end
  /\ \A k \in 1..N : T[k] = F[<<T[k - 1], k>>]

\* What a fold over sets of places does, as long as it stays in St.
FoldsIn(it, St, base, F, N) ==
  /\ it[{}] = base
  /\ \A S \in SUBSET (1..N) :
       S # {} /\ it[S \ {Max(S)}] \in St => it[S] = F[<<it[S \ {Max(S)}], Max(S)>>]

\* A fold is a loop over the places, from the first to the last.
LEMMA FoldLoops ==
  ASSUME NEW St, NEW base \in St, NEW N \in Nat, NEW F \in [St \X (1..N) -> St], NEW it,
         FoldsIn(it, St, base, F, N)
  PROVE  \E T : Loop(T, St, base, F, N, it[1..N])
  <1> DEFINE T == [k \in 0..N |-> it[1..k]]
             P == {n \in Nat : n <= N => T[n] \in St}
  <1>1. 1..0 = {}
    OBVIOUS
  <1>2. T[0] = base
    BY <1>1 DEF FoldsIn
  <1>3. ASSUME NEW n \in Nat, n + 1 <= N, T[n] \in St
        PROVE  T[n + 1] = F[<<T[n], n + 1>>] /\ T[n + 1] \in St
    <2>1. PICK m : m = n + 1
      OBVIOUS
    <2>2. m \in 1..N /\ m - 1 = n /\ n \in 0..N /\ m \in 0..N
      BY <1>3, <2>1
    <2>3. 1..m \in SUBSET (1..N) /\ 1..m # {} /\ (1..m) \ {m} = 1..(m - 1) /\ Max(1..m) = m
      BY <2>2, Initial
    <2>4. T[n] = it[1..n] /\ T[m] = it[1..m]
      BY <2>2
    <2> HIDE DEF T
    <2>5. it[1..m] = F[<<it[1..n], m>>]
      BY <1>3, <2>2, <2>3, <2>4 DEF FoldsIn
    <2>6. <<T[n], m>> \in St \X (1..N)
      BY <1>3, <2>2
    <2>7. QED
      BY <2>1, <2>4, <2>5, <2>6
  <1> HIDE DEF T
  <1>4. 0 \in P
    BY <1>2
  <1>5. \A n \in Nat : n \in P => n + 1 \in P
    <2> SUFFICES ASSUME NEW n \in Nat, n \in P, n + 1 <= N PROVE T[n + 1] \in St
      OBVIOUS
    <2>1. n <= N
      OBVIOUS
    <2>2. T[n] \in St
      BY <2>1
    <2>3. QED
      BY <1>3, <2>2
  <1>6. \A n \in 0..N : T[n] \in St
    <2> SUFFICES ASSUME NEW n \in 0..N PROVE n \in P
      OBVIOUS
    <2> HIDE DEF P
    <2>1. QED
      BY <1>4, <1>5, Induction
  <1>7. \A k \in 1..N : T[k] = F[<<T[k - 1], k>>]
    <2> SUFFICES ASSUME NEW k \in 1..N PROVE T[k] = F[<<T[k - 1], k>>]
      OBVIOUS
    <2>1. PICK n : n = k - 1
      OBVIOUS
    <2>2. n \in Nat /\ n + 1 = k /\ n + 1 <= N /\ n \in 0..N
      BY <2>1
    <2>3. QED
      BY <1>3, <1>6, <2>1, <2>2
  <1>8. T \in [0..N -> St] /\ T[N] = it[1..N]
    BY <1>6 DEF T
  <1>9. QED
    BY <1>2, <1>7, <1>8 DEF Loop

\* Three sequences in a row.
LEMMA Associates ==
  ASSUME NEW T, NEW r \in Seq(T), NEW s \in Seq(T), NEW t \in Seq(T)
  PROVE  (r \o s) \o t = r \o (s \o t)
  <1>1. r \o s \in Seq(T) /\ s \o t \in Seq(T) /\ (r \o s) \o t \in Seq(T) /\ r \o (s \o t) \in Seq(T)
    OBVIOUS
  <1>2. Len((r \o s) \o t) = Len(r \o (s \o t))
    OBVIOUS
  <1>3. \A i \in 1..Len((r \o s) \o t) : ((r \o s) \o t)[i] = (r \o (s \o t))[i]
    OBVIOUS
  <1>4. QED
    BY <1>1, <1>2, <1>3, SameElements

\* The joins of the first sequences of a list, one by one.
Joins(acc, A, seqs) ==
  /\ acc \in [0..Len(seqs) -> Seq(A)]
  /\ acc[0] = << >> /\ acc[Len(seqs)] = FlattenSeq(seqs)
  /\ \A i \in 1..Len(seqs) : acc[i] = acc[i - 1] \o seqs[i]

\* FlattenSeq joins them.
LEMMA Flattens ==
  ASSUME NEW A, NEW seqs \in Seq(Seq(A))
  PROVE  \E acc : Joins(acc, A, seqs)
  <1> DEFINE N == Len(seqs)
             St == Seq(A)
             F == [p \in St \X (1..N) |-> p[1] \o seqs[p[2]]]
             Raw(f) == f = [i \in 1..N |-> IF i = 1 THEN seqs[i] ELSE f[i - 1] \o seqs[i]]
             it == CHOOSE f : Raw(f)
  <1>1. N \in Nat /\ \A i \in 1..N : seqs[i] \in Seq(A)
    OBVIOUS
  <1>2. << >> \in St
    OBVIOUS
  <1>3. \A s \in St, i \in 1..N : F[<<s, i>>] = s \o seqs[i]
    OBVIOUS
  <1>4. F \in [St \X (1..N) -> St]
    BY <1>1
  <1> HIDE DEF N, F, St
  <1>5. PICK T, end : Loop(T, St, << >>, F, N, end)
    <2>1. FoldUnfolds(St, << >>, F, N)
      BY <1>1, <1>2, <1>4, FoldExists
    <2>2. PICK g \in [SUBSET (1..N) -> St] : FoldUnfolded(g, << >>, F, N)
      BY <2>1 DEF FoldUnfolds
    <2>3. FoldsIn(g, St, << >>, F, N)
      BY <2>2 DEF FoldUnfolded, FoldsIn
    <2>4. QED
      BY <1>1, <1>2, <1>4, <2>3, FoldLoops
  <1>6. ASSUME NEW i \in 1..N PROVE T[i] = T[i - 1] \o seqs[i] /\ T[i - 1] \in St /\ T[i] \in St
    <2>1. i - 1 \in 0..N /\ i \in 0..N
      BY <1>1
    <2>2. T[i - 1] \in St /\ T[i] \in St /\ T[i] = F[<<T[i - 1], i>>]
      BY <1>5, <2>1 DEF Loop
    <2>3. QED
      BY <1>3, <2>2
  <1>7. 1 \in 1..N => T[1] = seqs[1]
    <2> SUFFICES ASSUME 1 \in 1..N PROVE T[1] = seqs[1]
      OBVIOUS
    <2>1. T[1] = T[1 - 1] \o seqs[1]
      BY <1>6
    <2>2. T[0] = << >> /\ seqs[1] \in Seq(A)
      BY <1>1, <1>5 DEF Loop
    <2>3. 1 - 1 = 0
      OBVIOUS
    <2>4. << >> \o seqs[1] = seqs[1]
      BY <2>2
    <2>5. QED
      BY <2>1, <2>2, <2>3, <2>4
  <1>8. Raw([i \in 1..N |-> T[i]])
    <2> DEFINE f == [i \in 1..N |-> T[i]]
    <2>1. ASSUME NEW i \in 1..N PROVE f[i] = IF i = 1 THEN seqs[i] ELSE f[i - 1] \o seqs[i]
      <3>1. i # 1 => i - 1 \in 1..N
        BY <1>1
      <3>2. QED
        BY <1>6, <1>7, <3>1
    <2>2. QED
      BY <2>1
  <1>9. Raw(it)
    BY <1>8
  <1>10. FlattenSeq(seqs) = IF N = 0 THEN seqs ELSE it[N]
    BY DEF FlattenSeq, N
  <1> HIDE DEF it
  <1> DEFINE P == {n \in Nat : n + 1 <= N => it[n + 1] = T[n + 1]}
  <1>11. 0 \in P
    <2> SUFFICES ASSUME 1 <= N PROVE it[1] = T[1]
      OBVIOUS
    <2>1. 1 \in 1..N
      BY <1>1
    <2>2. it[1] = seqs[1]
      BY <1>9, <2>1
    <2>3. QED
      BY <1>7, <2>1, <2>2
  <1>12. \A n \in Nat : n \in P => n + 1 \in P
    <2> SUFFICES ASSUME NEW n \in Nat, n \in P, (n + 1) + 1 <= N PROVE it[(n + 1) + 1] = T[(n + 1) + 1]
      OBVIOUS
    <2>1. PICK m : m = (n + 1) + 1
      OBVIOUS
    <2>2. m \in 1..N /\ m # 1 /\ m - 1 = n + 1 /\ n + 1 <= N
      BY <1>1, <2>1
    <2>3. it[m] = it[m - 1] \o seqs[m]
      BY <1>9, <2>2
    <2>4. it[n + 1] = T[n + 1]
      BY <2>2
    <2>5. T[m] = T[m - 1] \o seqs[m]
      BY <1>6, <2>2
    <2>6. QED
      BY <2>1, <2>2, <2>3, <2>4, <2>5
  <1>13. \A n \in Nat : n \in P
    <2> HIDE DEF P
    <2>1. QED
      BY <1>11, <1>12, Induction
  <1>14. T[N] = FlattenSeq(seqs)
    <2>1. CASE N = 0
      <3>1. T[0] = << >> /\ seqs = << >>
        BY <1>5, <2>1 DEF Loop, N
      <3>2. QED
        BY <1>10, <2>1, <3>1
    <2>2. CASE N # 0
      <3>1. PICK n : n = N - 1
        OBVIOUS
      <3>2. n \in Nat /\ n + 1 = N
        BY <1>1, <2>2, <3>1
      <3>3. it[N] = T[N]
        BY <1>13, <3>2
      <3>4. QED
        BY <1>10, <2>2, <3>3
    <2>3. QED
      BY <2>1, <2>2
  <1>15. Joins(T, A, seqs)
    BY <1>5, <1>6, <1>14 DEF Joins, Loop, N, St
  <1>16. QED
    BY <1>15
=============================================================================
