-------------------------------- MODULE Ranks --------------------------------
(***************************************************************************)
(* Finitely many elements in a strict total order, a set of pairs: putting *)
(* each at the place that its rank gives, the number of those ahead of it, *)
(* sorts them.  This is what the sorted maps of Sidedefs and Blockmap rest *)
(* on, which are given by the ranks.  Then what the proofs need to know of *)
(* numbers, suffixes and sums.                                             *)
(***************************************************************************)
EXTENDS Integers, SequencesExt, FiniteSetTheorems, WellFoundedInduction, TLAPS

TotalOrder(S, R) ==
  /\ \A a \in S : <<a, a>> \notin R
  /\ \A a, b, c \in S : <<a, b>> \in R /\ <<b, c>> \in R => <<a, c>> \in R
  /\ \A a, b \in S : a # b => <<a, b>> \in R \/ <<b, a>> \in R

Ahead(S, R, e) == {f \in S : <<f, e>> \in R}

ByRank(S, R, m) ==
  /\ m \in [1 .. Cardinality(S) -> S]
  /\ \A k \in 1 .. Cardinality(S) : Cardinality(Ahead(S, R, m[k])) = k - 1

\* One element is ahead of another just if it has the lower rank.
LEMMA RankIsStrict ==
  ASSUME NEW S, IsFiniteSet(S), NEW R, TotalOrder(S, R), NEW a \in S, NEW b \in S
  PROVE  /\ Cardinality(Ahead(S, R, a)) \in 0 .. Cardinality(S) - 1
         /\ <<a, b>> \in R
              <=> Cardinality(Ahead(S, R, a)) < Cardinality(Ahead(S, R, b))
<1>1. ASSUME NEW c \in S
      PROVE  /\ IsFiniteSet(Ahead(S, R, c))
             /\ Cardinality(Ahead(S, R, c)) \in Nat
             /\ Cardinality(Ahead(S, R, c)) < Cardinality(S)
  <2>1. Ahead(S, R, c) \in SUBSET S /\ c \notin Ahead(S, R, c)
    BY DEF Ahead, TotalOrder
  <2>2. Cardinality(S) \in Nat
    BY FS_CardinalityType
  <2>3. /\ IsFiniteSet(Ahead(S, R, c))
        /\ Cardinality(Ahead(S, R, c)) <= Cardinality(S)
        /\ Cardinality(S) = Cardinality(Ahead(S, R, c)) => S = Ahead(S, R, c)
    BY <2>1, FS_Subset
  <2> QED
    BY <2>1, <2>2, <2>3, FS_CardinalityType
<1>2. ASSUME NEW c \in S, NEW d \in S, <<c, d>> \in R
      PROVE  Cardinality(Ahead(S, R, c)) < Cardinality(Ahead(S, R, d))
  <2>1. Ahead(S, R, c) \in SUBSET Ahead(S, R, d)
    BY <1>2 DEF Ahead, TotalOrder
  <2>2. c \in Ahead(S, R, d) /\ c \notin Ahead(S, R, c)
    BY <1>2 DEF Ahead, TotalOrder
  <2>3. /\ Cardinality(Ahead(S, R, c)) <= Cardinality(Ahead(S, R, d))
        /\ Cardinality(Ahead(S, R, d)) = Cardinality(Ahead(S, R, c))
             => Ahead(S, R, d) = Ahead(S, R, c)
    BY <1>1, <2>1, FS_Subset
  <2> QED
    BY <1>1, <2>2, <2>3
<1>3. CASE <<a, b>> \in R
  BY <1>1, <1>2, <1>3, FS_CardinalityType
<1>4. CASE <<b, a>> \in R
  <2>1. <<a, b>> \notin R
    BY <1>4 DEF TotalOrder
  <2> QED
    BY <1>1, <1>2, <1>4, <2>1, FS_CardinalityType
<1>5. CASE a = b
  BY <1>1, <1>5, FS_CardinalityType DEF TotalOrder
<1> QED
  BY <1>3, <1>4, <1>5 DEF TotalOrder

\* Every rank is that of an element, or two would have the same.
LEMMA EveryRankIsTaken ==
  ASSUME NEW S, IsFiniteSet(S), NEW R, TotalOrder(S, R),
         NEW k \in 1 .. Cardinality(S)
  PROVE  \E e \in S : Cardinality(Ahead(S, R, e)) = k - 1
<1> SUFFICES ASSUME \A e \in S : Cardinality(Ahead(S, R, e)) # k - 1
             PROVE  FALSE
  OBVIOUS
<1> DEFINE n == Cardinality(S)
           Ranks == (0 .. n - 1) \ {k - 1}
           rank == [e \in S |-> Cardinality(Ahead(S, R, e))]
<1>1. n \in Nat
  BY FS_CardinalityType
<1>2. rank \in [S -> Ranks]
  <2>1. \A e \in S : Cardinality(Ahead(S, R, e)) \in 0 .. n - 1
    BY RankIsStrict
  <2> QED
    BY <2>1
<1>3. IsFiniteSet(0 .. n - 1) /\ Cardinality(0 .. n - 1) = n
  <2> HIDE DEF n
  <2>1. n - 1 \in Int /\ 0 \in Int
    BY <1>1
  <2>2. IsFiniteSet(0 .. n - 1)
        /\ Cardinality(0 .. n - 1) = IF 0 > n - 1 THEN 0 ELSE n - 1 - 0 + 1
    BY <2>1, FS_Interval
  <2> QED
    BY <1>1, <2>2
<1>4. k - 1 \in 0 .. n - 1
  BY <1>1
<1>5. IsFiniteSet(Ranks) /\ Cardinality(Ranks) = n - 1
  <2> HIDE DEF n
  <2> QED
    BY <1>3, <1>4, FS_RemoveElement
<1>6. Cardinality(Ranks) < Cardinality(S)
  BY <1>1, <1>5
<1>7. \E a, b \in S : a # b /\ rank[a] = rank[b]
  <2> HIDE DEF Ranks, rank
  <2> QED
    BY <1>2, <1>5, <1>6, FS_PigeonHole
<1>8. PICK a \in S, b \in S : a # b /\ rank[a] = rank[b]
  BY <1>7
<1>9. <<a, b>> \in R \/ <<b, a>> \in R
  BY <1>8 DEF TotalOrder
<1>10. rank[a] \in Nat /\ rank[b] \in Nat
  BY <1>1, <1>2
<1>11. rank[a] < rank[b] \/ rank[b] < rank[a]
  BY <1>9, RankIsStrict
<1> QED
  BY <1>8, <1>10, <1>11

\* The elements at the places of their ranks: there are all, in order.
LEMMA RanksSort ==
  ASSUME NEW S, IsFiniteSet(S), NEW R, TotalOrder(S, R), NEW m, ByRank(S, R, m)
  PROVE  /\ \A j, k \in 1 .. Cardinality(S) : j < k => <<m[j], m[k]>> \in R
         /\ \A j, k \in 1 .. Cardinality(S) : m[j] = m[k] => j = k
         /\ \A e \in S : \E k \in 1 .. Cardinality(S) : m[k] = e
<1> DEFINE n == Cardinality(S)
<1>1. n \in Nat
  BY FS_CardinalityType
<1>2. ASSUME NEW k \in 1 .. n
      PROVE  m[k] \in S /\ Cardinality(Ahead(S, R, m[k])) = k - 1
  BY DEF ByRank
<1> HIDE DEF n
<1>3. ASSUME NEW j \in 1 .. n, NEW k \in 1 .. n, j < k
      PROVE  <<m[j], m[k]>> \in R
  <2>1. Cardinality(Ahead(S, R, m[j])) < Cardinality(Ahead(S, R, m[k]))
    BY <1>1, <1>2, <1>3
  <2> QED
    BY <1>2, <2>1, RankIsStrict
<1>4. ASSUME NEW j \in 1 .. n, NEW k \in 1 .. n, m[j] = m[k]
      PROVE  j = k
  BY <1>1, <1>2, <1>4
<1>5. ASSUME NEW e \in S
      PROVE  \E k \in 1 .. n : m[k] = e
  <2> DEFINE r == Cardinality(Ahead(S, R, e))
  <2>1. r \in 0 .. n - 1
    BY RankIsStrict DEF n
  <2>2. PICK k \in 1 .. n : r = k - 1
    <3> HIDE DEF r
    <3>1. r + 1 \in 1 .. n /\ r = (r + 1) - 1
      BY <1>1, <2>1
    <3> QED
      BY <3>1
  <2>3. m[k] \in S /\ Cardinality(Ahead(S, R, m[k])) = r
    BY <1>2, <2>2
  <2>4. ~(r < r)
    BY <1>1, <2>1
  <2>5. <<m[k], e>> \notin R /\ <<e, m[k]>> \notin R
    BY <2>3, <2>4, RankIsStrict
  <2>6. m[k] = e
    BY <2>3, <2>5 DEF TotalOrder
  <2> QED
    BY <2>6
<1> QED
  BY <1>3, <1>4, <1>5 DEF n

-----------------------------------------------------------------------------
(* Numbers and sequences *)

\* A set of numbers that is not empty has a least one.
LEMMA LeastNumber ==
  ASSUME NEW S, S \subseteq Nat, S # {}
  PROVE  \E m \in S : \A n \in S : m <= n
<1> DEFINE R == OpToRel(<, Nat)
<1>1. PICK m \in S : \A n \in S : ~(<<n, m>> \in R)
  <2>1. IsWellFoundedOn(R, Nat)
    BY NatLessThanWellFounded
  <2> HIDE DEF R
  <2> QED
    BY <2>1, WFMin
<1>2. \A n \in S : ~(n < m)
  BY <1>1 DEF OpToRel
<1> QED
  BY <1>2

\* What holds at some number if it does at all greater ones holds everywhere,
\* once it holds far up.
LEMMA Downwards ==
  ASSUME NEW S, NEW N \in Nat,
         \A k \in Nat : k >= N => k \in S,
         \A k \in Nat : k < N /\ (\A j \in Nat : j > k => j \in S) => k \in S
  PROVE  \A k \in Nat : k \in S
<1> SUFFICES ASSUME NEW k0 \in Nat, k0 \notin S PROVE FALSE
  OBVIOUS
<1> DEFINE T == {m \in Nat : m <= N /\ N - m \notin S}
<1>1. N - k0 \in T
  <2>1. k0 < N
    OBVIOUS
  <2>2. N - k0 \in Nat /\ N - k0 <= N /\ N - (N - k0) = k0
    BY <2>1
  <2> QED
    BY <2>2
<1>2. T \subseteq Nat /\ T # {}
  BY <1>1
<1>3. PICK m \in T : \A n \in T : m <= n
  BY <1>2, LeastNumber
<1>4. N - m \in Nat /\ N - m < N
  <2>1. m \in Nat /\ m <= N /\ N - m \notin S
    BY <1>3
  <2>2. N - m \in Nat
    BY <2>1
  <2> QED
    BY <2>1, <2>2
<1>5. ASSUME NEW j \in Nat, j > N - m PROVE j \in S
  <2>1. CASE j >= N
    BY <2>1
  <2>2. CASE j < N
    <3>1. N - j \in Nat /\ N - j <= N /\ N - (N - j) = j /\ N - j < m
      BY <1>3, <1>4, <1>5, <2>2
    <3>2. N - j \notin T
      BY <1>3, <3>1
    <3> QED
      BY <3>1, <3>2
  <2> QED
    BY <2>1, <2>2
<1> QED
  BY <1>3, <1>4, <1>5
\* What IsSuffix compares.
LEMMA SuffixIs ==
  ASSUME NEW V, NEW s \in Seq(V), NEW t \in Seq(V)
  PROVE  IsSuffix(s, t) <=>
           /\ Len(s) <= Len(t)
           /\ \A i \in 1 .. Len(s) : s[i] = t[Len(t) - Len(s) + i]
<1> PICK m \in Nat, n \in Nat : m = Len(s) /\ n = Len(t)
  OBVIOUS
<1> PICK p, q : p = Reverse(s) /\ q = Reverse(t)
  OBVIOUS
<1>1. m \in Nat /\ n \in Nat
  OBVIOUS
<1>2. p = [i \in 1 .. m |-> s[m - i + 1]] /\ q = [i \in 1 .. n |-> t[n - i + 1]]
  BY DEF Reverse
<1>3. p \in Seq(V) /\ Len(p) = m /\ q \in Seq(V) /\ Len(q) = n
  BY <1>1, <1>2
<1>4. /\ \A i \in 1 .. m : p[i] = s[m - i + 1]
      /\ \A i \in 1 .. n : q[i] = t[n - i + 1]
  BY <1>2
<1>5. IsSuffix(s, t) <=> m <= n /\ SubSeq(p, 1, m) = SubSeq(q, 1, m)
  BY <1>3 DEF IsSuffix, IsPrefix
<1>6. ASSUME m <= n
      PROVE  SubSeq(p, 1, m) = SubSeq(q, 1, m) <=> \A i \in 1 .. m : p[i] = q[i]
  <2>1. /\ SubSeq(p, 1, m) = [i \in 1 .. m |-> p[i]]
        /\ SubSeq(q, 1, m) = [i \in 1 .. m |-> q[i]]
    BY <1>1, <1>3, <1>6
  <2> QED
    BY <2>1
<1>7. ASSUME m <= n
      PROVE  (\A i \in 1 .. m : p[i] = q[i]) <=> \A i \in 1 .. m : s[i] = t[n - m + i]
  <2>1. ASSUME \A i \in 1 .. m : p[i] = q[i], NEW i \in 1 .. m
        PROVE  s[i] = t[n - m + i]
    <3>0. m - i + 1 \in 1 .. m
      BY <1>1
    <3>1. PICK j \in 1 .. m : j = m - i + 1
      BY <3>0
    <3>2. p[j] = s[m - j + 1] /\ q[j] = t[n - j + 1]
      BY <1>1, <1>4, <1>7
    <3>3. m - j + 1 = i /\ n - j + 1 = n - m + i
      BY <1>1, <3>1
    <3> QED
      BY <2>1, <3>2, <3>3
  <2>2. ASSUME \A i \in 1 .. m : s[i] = t[n - m + i], NEW i \in 1 .. m
        PROVE  p[i] = q[i]
    <3>0. m - i + 1 \in 1 .. m
      BY <1>1
    <3>1. PICK j \in 1 .. m : j = m - i + 1
      BY <3>0
    <3>2. p[i] = s[j] /\ q[i] = t[n - i + 1]
      BY <1>1, <1>4, <1>7, <3>1
    <3>3. n - i + 1 = n - m + j
      BY <1>1, <3>1
    <3> QED
      BY <2>2, <3>2, <3>3
  <2> QED
    BY <2>1, <2>2
<1>8. IsSuffix(s, t) <=> (m <= n /\ \A i \in 1 .. m : s[i] = t[n - m + i])
  BY <1>5, <1>6, <1>7
<1> QED
  BY <1>8

-----------------------------------------------------------------------------
(* Sums *)

\* What holds at the first number, and at the next one if it does at a number,
\* holds at all of them.
LEMMA Upwards ==
  ASSUME NEW S, NEW n \in Nat, 0 \in S, \A k \in 1 .. n : k - 1 \in S => k \in S
  PROVE  \A k \in 0 .. n : k \in S
<1> SUFFICES ASSUME NEW j \in 0 .. n, j \notin S PROVE FALSE
  OBVIOUS
<1> DEFINE T == {k \in 0 .. n : k \notin S}
<1>1. T \subseteq Nat /\ T # {}
  OBVIOUS
<1>2. PICK k \in T : \A i \in T : k <= i
  BY <1>1, LeastNumber
<1>3. k \in 1 .. n /\ k - 1 \in 0 .. n /\ ~(k <= k - 1)
  OBVIOUS
<1>4. k - 1 \in S
  BY <1>2, <1>3
<1> QED
  BY <1>3, <1>4

\* The sums u of the first numbers of v.
Sums(u, v, n) ==
  /\ u \in [0 .. n -> Int] /\ u[0] = 0
  /\ \A k \in 1 .. n : u[k] = u[k - 1] + v[k]

\* There are such sums, and a function that is given by a recursion on the number
\* before gives them.
LEMMA SumsExist ==
  ASSUME NEW n \in Nat, NEW v, \A k \in 1 .. n : v[k] \in Int
  PROVE  \E u : u = [k \in 0 .. n |-> IF k = 0 THEN 0 ELSE u[k - 1] + v[k]]
<1> DEFINE Right(u, m) ==
             /\ u \in [0 .. n -> Int] /\ u[0] = 0
             /\ \A k \in 1 .. m : u[k] = u[k - 1] + v[k]
           S == {m \in 0 .. n : \E u : Right(u, m)}
<1>1. 0 \in S
  <2> DEFINE u == [k \in 0 .. n |-> 0]
  <2>1. u \in [0 .. n -> Int] /\ u[0] = 0
    OBVIOUS
  <2> HIDE DEF u
  <2>2. 0 \in 0 .. n /\ 1 .. 0 = {}
    OBVIOUS
  <2>3. Right(u, 0)
    BY <2>1, <2>2
  <2> QED
    BY <2>2, <2>3
<1>2. ASSUME NEW m \in 1 .. n, m - 1 \in S PROVE m \in S
  <2>1. PICK u : Right(u, m - 1)
    BY <1>2
  <2> DEFINE w == [u EXCEPT ![m] = u[m - 1] + v[m]]
  <2>2. u[m - 1] + v[m] \in Int
    <3>1. m - 1 \in 0 .. n
      OBVIOUS
    <3> QED
      BY <2>1, <3>1
  <2>3. /\ w \in [0 .. n -> Int] /\ w[m] = u[m - 1] + v[m]
        /\ \A k \in 0 .. n : k # m => w[k] = u[k]
    BY <2>1, <2>2
  <2> HIDE DEF w
  <2>4. ASSUME NEW k \in 1 .. m PROVE w[k] = w[k - 1] + v[k]
    <3>1. k - 1 \in 0 .. n /\ k - 1 # m /\ k \in 0 .. n
      OBVIOUS
    <3>2. w[k - 1] = u[k - 1]
      BY <2>3, <3>1
    <3>3. CASE k = m
      BY <2>3, <3>2, <3>3
    <3>4. CASE k # m
      <4>1. k \in 1 .. m - 1
        BY <3>4
      <4> QED
        BY <2>1, <2>3, <3>1, <3>2, <3>4, <4>1
    <3> QED
      BY <3>3, <3>4
  <2>5. w[0] = 0
    BY <2>1, <2>3
  <2>6. Right(w, m)
    BY <2>3, <2>4, <2>5
  <2> HIDE DEF Right
  <2>7. \E x : Right(x, m)
    BY <2>6, Zenon
  <2>8. m \in 0 .. n
    OBVIOUS
  <2> QED
    BY <2>7, <2>8
<1> HIDE DEF S
<1>3. n \in S
  BY <1>1, <1>2, Upwards
<1> USE DEF S
<1>4. PICK u : Right(u, n)
  BY <1>3
<1>5. ASSUME NEW k \in 0 .. n PROVE u[k] = IF k = 0 THEN 0 ELSE u[k - 1] + v[k]
  BY <1>4
<1>6. u = [k \in 0 .. n |-> u[k]]
  BY <1>4
<1>7. u = [k \in 0 .. n |-> IF k = 0 THEN 0 ELSE u[k - 1] + v[k]]
  BY <1>5, <1>6
<1> QED
  BY <1>7

LEMMA SumsOf ==
  ASSUME NEW n \in Nat, NEW v, \A k \in 1 .. n : v[k] \in Int, NEW u,
         u = [k \in 0 .. n |-> IF k = 0 THEN 0 ELSE u[k - 1] + v[k]]
  PROVE  Sums(u, v, n)
<1> DEFINE S == {k \in 0 .. n : u[k] \in Int}
<1>0. u = [k \in 0 .. n |-> u[k]]
  OBVIOUS
<1>1. u[0] = 0 /\ \A k \in 1 .. n : u[k] = u[k - 1] + v[k]
  <2>1. \A k \in 0 .. n : u[k] = IF k = 0 THEN 0 ELSE u[k - 1] + v[k]
    OBVIOUS
  <2>2. 0 \in 0 .. n /\ \A k \in 1 .. n : k \in 0 .. n /\ k # 0
    OBVIOUS
  <2> QED
    BY <2>1, <2>2
<1>2. 0 \in S
  BY <1>1
<1>3. ASSUME NEW k \in 1 .. n, k - 1 \in S PROVE k \in S
  BY <1>1, <1>3
<1> HIDE DEF S
<1>4. \A k \in 0 .. n : k \in S
  BY <1>2, <1>3, Upwards
<1>5. \A k \in 0 .. n : u[k] \in Int
  BY <1>4 DEF S
<1>6. u \in [0 .. n -> Int]
  BY <1>0, <1>5
<1> QED
  BY <1>1, <1>6 DEF Sums

\* Numbers that are sums of two have the sum of their sums.
LEMMA SumsAdd ==
  ASSUME NEW n \in Nat, NEW u, NEW a, Sums(u, a, n), NEW v, NEW b, Sums(v, b, n),
         NEW w, NEW c, Sums(w, c, n),
         \A k \in 1 .. n : a[k] \in Int /\ b[k] \in Int /\ c[k] = a[k] + b[k]
  PROVE  w[n] = u[n] + v[n]
<1> DEFINE S == {k \in 0 .. n : w[k] = u[k] + v[k]}
<1>1. 0 \in S
  BY DEF Sums
<1>2. ASSUME NEW k \in 1 .. n, k - 1 \in S PROVE k \in S
  <2>1. /\ u[k] = u[k - 1] + a[k] /\ v[k] = v[k - 1] + b[k] /\ w[k] = w[k - 1] + c[k]
        /\ w[k - 1] = u[k - 1] + v[k - 1] /\ k - 1 \in 0 .. n
    BY <1>2 DEF Sums
  <2>2. u[k - 1] \in Int /\ v[k - 1] \in Int
    BY <2>1 DEF Sums
  <2>3. w[k] = u[k] + v[k]
    BY <2>1, <2>2
  <2> QED
    BY <2>3
<1> HIDE DEF S
<1>3. n \in S
  BY <1>1, <1>2, Upwards
<1> QED
  BY <1>3 DEF S

SumIs(x, v, n) == \E u : Sums(u, v, n) /\ u[n] = x

LEMMA SumsAddUp ==
  ASSUME NEW n \in Nat, NEW a, NEW b, NEW c, NEW x, NEW y, NEW z,
         SumIs(x, a, n), SumIs(y, b, n), SumIs(z, c, n),
         \A k \in 1 .. n : a[k] \in Int /\ b[k] \in Int /\ c[k] = a[k] + b[k]
  PROVE  z = x + y
<1>1. PICK u : Sums(u, a, n) /\ u[n] = x
  BY DEF SumIs
<1>2. PICK v : Sums(v, b, n) /\ v[n] = y
  BY DEF SumIs
<1>3. PICK w : Sums(w, c, n) /\ w[n] = z
  BY DEF SumIs
<1>4. w[n] = u[n] + v[n]
  BY <1>1, <1>2, <1>3, SumsAdd
<1> QED
  BY <1>1, <1>2, <1>3, <1>4

\* If all but one are naught the sum is that one.
LEMMA SumsOne ==
  ASSUME NEW n \in Nat, NEW u, NEW v, Sums(u, v, n),
         NEW j \in 1 .. n, v[j] \in Int, \A k \in 1 .. n : k # j => v[k] = 0
  PROVE  u[n] = v[j]
<1> DEFINE S == {k \in 0 .. n : u[k] = IF k < j THEN 0 ELSE v[j]}
<1>1. 0 \in S
  BY DEF Sums
<1>2. ASSUME NEW k \in 1 .. n, k - 1 \in S PROVE k \in S
  <2>1. /\ u[k] = u[k - 1] + v[k] /\ u[k - 1] = IF k - 1 < j THEN 0 ELSE v[j]
    BY <1>2 DEF Sums
  <2>2. u[k] = IF k < j THEN 0 ELSE v[j]
    BY <2>1
  <2> QED
    BY <2>2
<1> HIDE DEF S
<1>3. n \in S
  BY <1>1, <1>2, Upwards
<1> QED
  BY <1>3 DEF S
=============================================================================
