--------------------------- MODULE BlockmapProofs ---------------------------
(***************************************************************************)
(* Stacking and unstacking keep the list of each block, for any blockmap,  *)
(* width of words and sequence of runs, as long as the lists have ends and *)
(* offsets can reach them.                                                 *)
(***************************************************************************)
EXTENDS Blockmap, Ranks

\* A list: it ends with the only sentinel it has.
IsList(l) ==
  /\ l \in Seq(Word) /\ Len(l) >= 1
  /\ l[Len(l)] = Sentinel
  /\ \A i \in 1 .. Len(l) - 1 : l[i] # Sentinel

\* A list is found at an offset.
Lies(e, o, l) ==
  /\ o + Len(l) <= Len(e)
  /\ \A i \in 1 .. Len(l) : e[o + i] = l[i]

-----------------------------------------------------------------------------
(* Words, lists and suffixes *)

LEMMA Words ==
  /\ Half \in Nat /\ Half > 3
  /\ Sentinel \in Word /\ Sentinel = 2 * Half - 1
  /\ \A w \in Word : w \in Nat /\ w < 2 * Half
  /\ \A n \in Nat : n % (2 * Half) \in Word
  /\ \A n \in Nat : n < 2 * Half => n \in Word /\ n % (2 * Half) = n
<1>1. Half \in Nat /\ Half > 3
  BY HalfAssumption
<1>2. ASSUME NEW p \in Nat, p > 0, NEW n \in Nat
      PROVE  n % p \in 0 .. p - 1 /\ (n < p => n % p = n)
  BY <1>2
<1>3. 2 * Half \in Nat /\ 2 * Half > 0
  BY <1>1
<1>4. \A n \in Nat :
        n % (2 * Half) \in 0 .. 2 * Half - 1
        /\ (n < 2 * Half => n % (2 * Half) = n)
  BY <1>2, <1>3
<1> QED
  BY <1>1, <1>4 DEF Word, Sentinel

LEMMA Product ==
  ASSUME NEW a \in Nat, NEW b \in Nat
  PROVE  a * b \in Nat
OBVIOUS

LEMMA BlocksCounted ==
  ASSUME NEW e \in Seq(Word), Len(e) >= 4
  PROVE  NumBlocks(e) \in Nat
<1>1. e[3] \in Word /\ e[4] \in Word
  OBVIOUS
<1>2. e[3] \in Nat /\ e[4] \in Nat
  BY <1>1, Words
<1> QED
  BY <1>2, Product DEF NumBlocks

LEMMA OffsetsAreWords ==
  ASSUME NEW e \in Seq(Word), IsValidBlockmap(e)
  PROVE  /\ NumBlocks(e) \in Nat /\ Len(e) \in Nat
         /\ \A b \in 1 .. NumBlocks(e) : OffsetOf(e, b) \in Word /\ OffsetOf(e, b) \in Nat
<1>1. NumBlocks(e) \in Nat /\ Len(e) >= NumBlocks(e) + 4 /\ Len(e) \in Nat
  BY BlocksCounted DEF IsValidBlockmap
<1>2. ASSUME NEW b \in 1 .. NumBlocks(e)
      PROVE  OffsetOf(e, b) \in Word
  <2>1. 4 + b \in 1 .. Len(e)
    BY <1>1
  <2> QED
    BY <2>1 DEF OffsetOf
<1> QED
  BY <1>1, <1>2, Words

LEMMA Finite ==
  ASSUME NEW a \in Nat, NEW b \in Nat, NEW S, S \subseteq a .. b
  PROVE  IsFiniteSet(S)
<1>1. IsFiniteSet(a .. b)
  BY FS_Interval
<1> QED
  BY <1>1, FS_Subset

\* What is read at an offset is a list, if there is an end.
LEMMA ListFound ==
  ASSUME NEW e \in Seq(Word), NEW o \in Nat,
         \E k \in o + 1 .. Len(e) : e[k] = Sentinel
  PROVE  IsList(ListAt(e, o)) /\ Lies(e, o, ListAt(e, o))
<1> DEFINE Ends(k) == e[k] = Sentinel /\ \A j \in o + 1 .. k - 1 : e[j] # Sentinel
           S == {k \in o + 1 .. Len(e) : e[k] = Sentinel}
<1>1. Len(e) \in Nat
  OBVIOUS
<1>2. \E k \in o + 1 .. Len(e) : Ends(k)
  <2>1. S \subseteq o + 1 .. Len(e) /\ S # {} /\ S \subseteq Nat /\ o + 1 \in Nat
    BY <1>1
  <2>2. IsFiniteSet(S)
    BY <1>1, <2>1, Finite
  <2>3. PICK k \in S : \A n \in S : k <= n
    BY <2>1, <2>2, LeastNumber
  <2>4. \A j \in o + 1 .. k - 1 : e[j] # Sentinel
    BY <1>1, <2>3
  <2> QED
    BY <2>3, <2>4
<1>3. PICK end : end = CHOOSE k \in o + 1 .. Len(e) : Ends(k)
  OBVIOUS
<1>4. end \in o + 1 .. Len(e) /\ Ends(end)
  BY <1>2, <1>3
<1>5. ListAt(e, o) = SubSeq(e, o + 1, end)
  BY <1>3 DEF ListAt
<1>6. PICK l : l = ListAt(e, o)
  OBVIOUS
<1>7. /\ l \in Seq(Word) /\ Len(l) = end - o
      /\ \A i \in 1 .. Len(l) : l[i] = e[o + i]
  BY <1>1, <1>4, <1>5, <1>6
<1>8. Len(l) \in Nat /\ Len(l) >= 1 /\ o + Len(l) = end
  BY <1>1, <1>4, <1>7
<1>9. l[Len(l)] = Sentinel
  BY <1>4, <1>7, <1>8
<1>10. ASSUME NEW i \in 1 .. Len(l) - 1 PROVE l[i] # Sentinel
  <2>1. i \in 1 .. Len(l) /\ o + i \in o + 1 .. end - 1
    BY <1>1, <1>4, <1>8
  <2>2. l[i] = e[o + i]
    BY <1>7, <2>1
  <2> QED
    BY <1>4, <2>1, <2>2
<1> QED
  BY <1>1, <1>4, <1>6, <1>7, <1>8, <1>9, <1>10 DEF IsList, Lies

\* A list that lies at an offset is what is read there.
LEMMA ListThere ==
  ASSUME NEW e \in Seq(Word), NEW o \in Nat, NEW l, IsList(l), Lies(e, o, l)
  PROVE  ListAt(e, o) = l
<1>1. l \in Seq(Word) /\ Len(l) \in Nat /\ Len(l) >= 1 /\ Len(e) \in Nat
  BY DEF IsList
<1>2. o + Len(l) \in o + 1 .. Len(e) /\ e[o + Len(l)] = Sentinel
  BY <1>1 DEF IsList, Lies
<1>3. PICK m : m = ListAt(e, o)
  OBVIOUS
<1>4. IsList(m) /\ Lies(e, o, m)
  BY <1>2, <1>3, ListFound
<1>5. m \in Seq(Word) /\ Len(m) \in Nat /\ Len(m) >= 1
  BY <1>4 DEF IsList
<1>6. Len(m) = Len(l)
  <2>1. CASE Len(m) < Len(l)
    <3>1. Len(m) \in 1 .. Len(l) - 1 /\ Len(m) \in 1 .. Len(m) /\ Len(m) \in 1 .. Len(l)
      BY <1>1, <1>5, <2>1
    <3> QED
      BY <1>4, <3>1 DEF IsList, Lies
  <2>2. CASE Len(l) < Len(m)
    <3>1. Len(l) \in 1 .. Len(m) - 1 /\ Len(l) \in 1 .. Len(m) /\ Len(l) \in 1 .. Len(l)
      BY <1>1, <1>5, <2>2
    <3> QED
      BY <1>4, <3>1 DEF IsList, Lies
  <2> QED
    BY <1>1, <1>5, <2>1, <2>2
<1>7. \A i \in 1 .. Len(l) : m[i] = l[i]
  BY <1>4, <1>6 DEF Lies
<1> QED
  BY <1>1, <1>3, <1>5, <1>6, <1>7

LEMMA SuffixMeans ==
  ASSUME NEW s \in Seq(Word), NEW t \in Seq(Word)
  PROVE  IsSuffix(s, t) <=>
           /\ Len(s) <= Len(t)
           /\ \A i \in 1 .. Len(s) : s[i] = t[Len(t) - Len(s) + i]
BY SuffixIs

LEMMA SuffixOfSuffix ==
  ASSUME NEW s \in Seq(Word), NEW t \in Seq(Word), NEW u \in Seq(Word),
         IsSuffix(s, t), IsSuffix(t, u)
  PROVE  IsSuffix(s, u)
<1>1. Len(s) \in Nat /\ Len(t) \in Nat /\ Len(u) \in Nat
  OBVIOUS
<1>2. /\ Len(s) <= Len(t) /\ Len(t) <= Len(u)
      /\ \A i \in 1 .. Len(s) : s[i] = t[Len(t) - Len(s) + i]
      /\ \A i \in 1 .. Len(t) : t[i] = u[Len(u) - Len(t) + i]
  BY SuffixMeans
<1>3. ASSUME NEW i \in 1 .. Len(s)
      PROVE  s[i] = u[Len(u) - Len(s) + i]
  <2>1. PICK j : j = Len(t) - Len(s) + i
    OBVIOUS
  <2>2. j \in 1 .. Len(t) /\ Len(u) - Len(t) + j = Len(u) - Len(s) + i
    BY <1>1, <1>2, <2>1
  <2>3. s[i] = t[j] /\ t[j] = u[Len(u) - Len(t) + j]
    BY <1>2, <2>1, <2>2
  <2> QED
    BY <2>2, <2>3
<1> QED
  BY <1>1, <1>2, <1>3, SuffixMeans

-----------------------------------------------------------------------------
(* The sorted map *)

LEMMA BlockOrder ==
  ASSUME NEW list \in Seq(Seq(Word))
  PROVE  TotalOrder(1 .. Len(list),
                    {p \in (1 .. Len(list)) \X (1 .. Len(list)) :
                       Precedes(list, p[1], p[2])})
<1> DEFINE S == 1 .. Len(list)
           R == {p \in S \X S : Precedes(list, p[1], p[2])}
<1>1. \A i \in S : Len(list[i]) \in Nat /\ i \in Nat
  <2>1. \A i \in S : list[i] \in Seq(Word)
    OBVIOUS
  <2> QED
    BY <2>1
<1>2. \A i, j \in S : <<i, j>> \in R <=> Precedes(list, i, j)
  OBVIOUS
<1>3. \A a \in S : ~Precedes(list, a, a)
  BY <1>1 DEF Precedes
<1>4. \A a, b, c \in S :
        Precedes(list, a, b) /\ Precedes(list, b, c) => Precedes(list, a, c)
  BY <1>1 DEF Precedes
<1>5. \A a, b \in S : a # b => Precedes(list, a, b) \/ Precedes(list, b, a)
  BY <1>1 DEF Precedes
<1> HIDE DEF S, R
<1>6. TotalOrder(S, R)
  BY <1>2, <1>3, <1>4, <1>5 DEF TotalOrder
<1> QED
  BY <1>6 DEF S, R

\* A map: it leads to each of n elements once.
IsMap(m, n) ==
  /\ m \in [1 .. n -> 1 .. n]
  /\ \A j, k \in 1 .. n : m[j] = m[k] => j = k
  /\ \A b \in 1 .. n : \E k \in 1 .. n : m[k] = b

LEMMA SortedMapIsMap ==
  ASSUME NEW list \in Seq(Seq(Word))
  PROVE  IsMap(SortedMap(list), Len(list))
<1> DEFINE n == Len(list)
           S == 1 .. n
           R == {p \in S \X S : Precedes(list, p[1], p[2])}
<1>1. n \in Nat /\ DOMAIN list = S
  OBVIOUS
<1>2. IsFiniteSet(S) /\ Cardinality(S) = n
  <2> HIDE DEF n
  <2>1. 1 \in Int /\ n \in Int
    BY <1>1
  <2>2. IsFiniteSet(1 .. n)
        /\ Cardinality(1 .. n) = IF 1 > n THEN 0 ELSE n - 1 + 1
    BY <2>1, FS_Interval
  <2> QED
    BY <1>1, <2>2
<1>3. TotalOrder(S, R)
  BY BlockOrder
<1>4. \A e \in S : Ahead(S, R, e) = {j \in S : Precedes(list, j, e)}
  BY DEF Ahead
<1>5. PICK m : m = SortedMap(list)
  OBVIOUS
<1>6. m = [k \in S |-> CHOOSE i \in S :
             Cardinality({j \in S : Precedes(list, j, i)}) = k - 1]
  BY <1>1, <1>5 DEF SortedMap
<1> HIDE DEF n, R
<1>7. ASSUME NEW k \in S
      PROVE  m[k] \in S /\ Cardinality(Ahead(S, R, m[k])) = k - 1
  <2>1. \E i \in S : Cardinality(Ahead(S, R, i)) = k - 1
    BY <1>2, <1>3, EveryRankIsTaken
  <2>2. \E i \in S : Cardinality({j \in S : Precedes(list, j, i)}) = k - 1
    BY <1>4, <2>1
  <2>3. m[k] = CHOOSE i \in S :
                 Cardinality({j \in S : Precedes(list, j, i)}) = k - 1
    BY <1>6
  <2>4. m[k] \in S /\ Cardinality({j \in S : Precedes(list, j, m[k])}) = k - 1
    BY <2>2, <2>3
  <2> QED
    BY <1>4, <2>4
<1>8. m \in [S -> S]
  BY <1>6, <1>7
<1>9. ByRank(S, R, m)
  BY <1>2, <1>7, <1>8 DEF ByRank
<1>10. /\ \A j, k \in S : m[j] = m[k] => j = k
       /\ \A b \in S : \E k \in S : m[k] = b
  <2> HIDE DEF S
  <2>1. /\ \A j, k \in 1 .. Cardinality(S) : m[j] = m[k] => j = k
        /\ \A b \in S : \E k \in 1 .. Cardinality(S) : m[k] = b
    BY <1>2, <1>3, <1>9, RanksSort
  <2>2. 1 .. Cardinality(S) = S
    BY <1>2 DEF S
  <2> QED
    BY <2>1, <2>2
<1> QED
  BY <1>5, <1>8, <1>10 DEF IsMap, n

\* Moving the first element to the end makes another map.
LEMMA LargestLastIsMap ==
  ASSUME NEW n \in Nat, NEW m, IsMap(m, n)
  PROVE  IsMap(LargestLast(m), n)
<1>1. m \in Seq(1 .. n) /\ Len(m) = n
  BY SMTT(60) DEF IsMap
<1>2. CASE n = 0
  BY <1>1, <1>2 DEF LargestLast
<1>3. CASE n # 0
  <2>1. m # <<>> /\ m[1] \in 1 .. n /\ Head(m) = m[1]
    BY <1>1, <1>3
  <2>2. PICK l : l = LargestLast(m)
    OBVIOUS
  <2>3. PICK t : t = Tail(m)
    OBVIOUS
  <2>4. t \in Seq(1 .. n) /\ Len(t) = n - 1 /\ \A k \in 1 .. n - 1 : t[k] = m[k + 1]
    BY <1>1, <1>3, <2>1, <2>3
  <2>5. l = Append(t, m[1])
    BY <2>1, <2>2, <2>3 DEF LargestLast
  <2>6. l \in Seq(1 .. n) /\ Len(l) = n /\ l[n] = m[1]
        /\ \A k \in 1 .. n - 1 : l[k] = m[k + 1]
    BY <1>3, <2>1, <2>4, <2>5
  <2>7. l \in [1 .. n -> 1 .. n]
    BY <2>6
  <2>8. ASSUME NEW j \in 1 .. n, NEW k \in 1 .. n, l[j] = l[k]
        PROVE  j = k
    <3>1. /\ 1 \in 1 .. n
          /\ \A i \in 1 .. n : i # n => i \in 1 .. n - 1 /\ i + 1 \in 1 .. n /\ i + 1 # 1
      BY <1>3
    <3>2. \A x, y \in 1 .. n : m[x] = m[y] => x = y
      BY DEF IsMap
    <3>3. CASE j = n /\ k # n
      BY <2>6, <2>8, <3>1, <3>2, <3>3
    <3>4. CASE j # n /\ k = n
      BY <2>6, <2>8, <3>1, <3>2, <3>4
    <3>5. CASE j # n /\ k # n
      <4>1. m[j + 1] = m[k + 1]
        BY <2>6, <2>8, <3>1, <3>5
      <4>2. j + 1 = k + 1
        BY <3>1, <3>2, <3>5, <4>1
      <4> QED
        BY <4>2
    <3> QED
      BY <3>3, <3>4, <3>5
  <2>9. ASSUME NEW b \in 1 .. n
        PROVE  \E k \in 1 .. n : l[k] = b
    <3>1. PICK i \in 1 .. n : m[i] = b
      BY DEF IsMap
    <3>2. CASE i = 1
      BY <1>3, <2>6, <3>1, <3>2
    <3>3. CASE i # 1
      <4>1. i - 1 \in 1 .. n - 1 /\ i - 1 \in 1 .. n /\ (i - 1) + 1 = i
        BY <3>3
      <4>2. l[i - 1] = b
        BY <2>6, <3>1, <4>1
      <4> QED
        BY <4>1, <4>2
    <3> QED
      BY <3>2, <3>3
  <2> QED
    BY <2>2, <2>7, <2>8, <2>9 DEF IsMap
<1> QED
  BY <1>2, <1>3

-----------------------------------------------------------------------------
(* Placing the blocks *)

\* The offset of the k-th block of the map, and the words of its list there.
PlaceOf(k) == OffsetOf(result, map[k])
ListOf(k) == blocks[map[k]]
SpanOf(k) == PlaceOf(k) + 1 .. PlaceOf(k) + Len(ListOf(k))

\* The block whose list the k-th one is found in.
First(k) == CHOOSE j \in Earlier(k) : \A i \in Earlier(k) : j <= i

\* The run has not refused the lump, and has all blocks to place.
Begun ==
  /\ IsValidBlockmap(lump) /\ HasEnds(lump)
  /\ cmd.op = "stack" => ~IsOverflowedBlockmap(lump)
  /\ blocks = MakeBlocklist(lump)
  /\ IsMap(map, Len(blocks))
  /\ Len(result) >= 4 + Len(blocks)
  /\ \A i \in 1 .. 4 : result[i] = lump[i]

\* The k-th block has its list where it was appended, or the offset that was
\* computed for it from the first one whose list ends with it.
Appended(k) ==
  /\ PlaceOf(k) >= 4 + Len(blocks) /\ PlaceOf(k) <= BlockmapLimit
  /\ Lies(result, PlaceOf(k), ListOf(k))
Settled(k) ==
  /\ PlaceOf(k) < Len(result)
  /\ IF Earlier(k) = {} THEN Appended(k)
     ELSE PlaceOf(k) = SharedOffset(map[k], map[First(k)])

Placed(n) ==
  /\ \A k \in 1 .. n : Settled(k)
  /\ n > 0 => result[Len(result)] = Sentinel

\* When unstacking each word behind the table belongs to the list of one block.
Apart(n) ==
  cmd.op = "unstack" =>
    \A i \in 5 + Len(blocks) .. Len(result) :
      \E k \in 1 .. n : i \in SpanOf(k) /\ \A j \in 1 .. n : i \in SpanOf(j) => j = k

LEMMA BlocksAreLists ==
  ASSUME NEW e \in Seq(Word), IsValidBlockmap(e), HasEnds(e)
  PROVE  /\ MakeBlocklist(e) \in Seq(Seq(Word))
         /\ Len(MakeBlocklist(e)) = NumBlocks(e)
         /\ \A b \in 1 .. NumBlocks(e) : IsList(MakeBlocklist(e)[b])
         /\ \A b \in 1 .. NumBlocks(e) : MakeBlocklist(e)[b] = ListAt(e, OffsetOf(e, b))
<1>1. NumBlocks(e) \in Nat /\ \A b \in 1 .. NumBlocks(e) : OffsetOf(e, b) \in Nat
  BY OffsetsAreWords
<1>2. ASSUME NEW b \in 1 .. NumBlocks(e)
      PROVE  IsList(ListAt(e, OffsetOf(e, b)))
  BY <1>1, ListFound DEF HasEnds
<1>3. \A b \in 1 .. NumBlocks(e) : ListAt(e, OffsetOf(e, b)) \in Seq(Word)
  BY <1>2 DEF IsList
<1>4. PICK n \in Nat : n = NumBlocks(e)
  BY <1>1
<1>5. MakeBlocklist(e) \in [1 .. n -> Seq(Word)]
  BY <1>3, <1>4 DEF MakeBlocklist
<1>6. MakeBlocklist(e) \in Seq(Seq(Word)) /\ Len(MakeBlocklist(e)) = n
  BY <1>5
<1>7. \A b \in 1 .. n : MakeBlocklist(e)[b] = ListAt(e, OffsetOf(e, b))
  BY <1>4 DEF MakeBlocklist
<1> QED
  BY <1>2, <1>4, <1>6, <1>7

LEMMA Beginnings ==
  ASSUME TypeOK, Begun
  PROVE  /\ NumBlocks(lump) = Len(blocks) /\ Len(blocks) \in Nat
         /\ DOMAIN map = 1 .. Len(blocks) /\ Len(map) = Len(blocks)
         /\ \A k \in 1 .. Len(blocks) : map[k] \in 1 .. Len(blocks)
         /\ \A b \in 1 .. Len(blocks) : IsList(blocks[b]) /\ blocks[b] \in Seq(Word)
                                        /\ Len(blocks[b]) \in Nat /\ Len(blocks[b]) >= 1
         /\ \A b \in 1 .. Len(blocks) : blocks[b] = ListAt(lump, OffsetOf(lump, b))
         /\ \A b \in 1 .. Len(blocks) : OffsetOf(result, b) \in Word
         /\ \A k \in 1 .. Len(blocks) : PlaceOf(k) \in Word /\ PlaceOf(k) \in Nat
         /\ Len(result) \in Nat /\ Len(result) >= 4 + Len(blocks)
<1>1. lump \in Seq(Word) /\ IsValidBlockmap(lump) /\ HasEnds(lump)
      /\ blocks = MakeBlocklist(lump) /\ result \in Seq(Word)
      /\ IsMap(map, Len(blocks)) /\ Len(result) >= 4 + Len(blocks)
  BY DEF TypeOK, Begun
<1>2. /\ Len(blocks) = NumBlocks(lump)
      /\ \A b \in 1 .. NumBlocks(lump) : IsList(blocks[b])
      /\ \A b \in 1 .. NumBlocks(lump) : blocks[b] = ListAt(lump, OffsetOf(lump, b))
  BY <1>1, BlocksAreLists
<1>3. NumBlocks(lump) \in Nat
  BY <1>1, OffsetsAreWords
<1>4. PICK n \in Nat : n = Len(blocks)
  BY <1>2, <1>3
<1>5. /\ DOMAIN map = 1 .. n /\ Len(map) = n
      /\ \A k \in 1 .. n : map[k] \in 1 .. n
  <2>1. map \in [1 .. n -> 1 .. n]
    BY <1>1, <1>4 DEF IsMap
  <2> QED
    BY <2>1
<1>6. \A b \in 1 .. n : blocks[b] \in Seq(Word) /\ Len(blocks[b]) \in Nat
                        /\ Len(blocks[b]) >= 1
  BY <1>2, <1>4 DEF IsList
<1>7. \A b \in 1 .. n : OffsetOf(result, b) \in Word
  <2>1. \A b \in 1 .. n : 4 + b \in 1 .. Len(result)
    BY <1>1, <1>4
  <2> QED
    BY <1>1, <2>1 DEF OffsetOf
<1>8. \A k \in 1 .. n : PlaceOf(k) \in Word /\ PlaceOf(k) \in Nat
  BY <1>5, <1>7, Words DEF PlaceOf
<1>9. Len(result) \in Nat
  BY <1>1
<1> QED
  BY <1>1, <1>2, <1>3, <1>4, <1>5, <1>6, <1>7, <1>8, <1>9

LEMMA ListsPlaced ==
  ASSUME TypeOK, Begun, NEW k \in 1 .. Len(blocks)
  PROVE  /\ map[k] \in 1 .. Len(blocks) /\ map[k] \in Nat
         /\ IsList(ListOf(k)) /\ ListOf(k) \in Seq(Word)
         /\ Len(ListOf(k)) \in Nat /\ Len(ListOf(k)) >= 1
<1>1. PICK b \in 1 .. Len(blocks) : b = map[k]
  BY Beginnings
<1>2. IsList(blocks[b]) /\ blocks[b] \in Seq(Word)
      /\ Len(blocks[b]) \in Nat /\ Len(blocks[b]) >= 1
  BY Beginnings
<1>3. b \in Nat
  BY Beginnings
<1> QED
  BY <1>1, <1>2, <1>3 DEF ListOf

LEMMA JointWords ==
  ASSUME NEW s \in Seq(Word), NEW t \in Seq(Word), NEW u, u = s \o t
  PROVE  /\ u \in Seq(Word) /\ Len(u) = Len(s) + Len(t)
         /\ \A i \in 1 .. Len(s) : u[i] = s[i]
         /\ \A i \in 1 .. Len(t) : u[Len(s) + i] = t[i]
OBVIOUS

LEMMA OneWord ==
  ASSUME NEW s \in Seq(Word), NEW m \in 1 .. Len(s), NEW w \in Word,
         NEW t, t = [s EXCEPT ![m] = w]
  PROVE  /\ t \in Seq(Word) /\ Len(t) = Len(s) /\ t[m] = w
         /\ \A i \in 1 .. Len(s) : i # m => t[i] = s[i]
OBVIOUS

\* The block in which another is found was appended.
LEMMA FirstWasAppended ==
  ASSUME TypeOK, Begun, NEW k \in 1 .. Len(blocks), Earlier(k) # {}
  PROVE  /\ cmd.op = "stack"
         /\ First(k) \in Earlier(k) /\ First(k) \in 1 .. k - 1
         /\ \A j \in Earlier(k) : First(k) <= j
         /\ Earlier(First(k)) = {}
         /\ Len(ListOf(k)) <= Len(ListOf(First(k)))
         /\ \A i \in 1 .. Len(ListOf(k)) :
              ListOf(k)[i] = ListOf(First(k))[Len(ListOf(First(k))) - Len(ListOf(k)) + i]
<1>1. cmd.op = "stack"
  BY DEF Earlier
<1>2. \A j \in 1 .. Len(blocks) :
        Earlier(j) = {i \in 1 .. j - 1 : IsSuffix(ListOf(j), ListOf(i))}
  BY <1>1 DEF Earlier, Matches, ListOf
<1>3. Len(blocks) \in Nat /\ \A j \in 1 .. Len(blocks) : ListOf(j) \in Seq(Word)
  BY Beginnings DEF ListOf
<1>4. \E j \in Earlier(k) : \A i \in Earlier(k) : j <= i
  <2>1. Earlier(k) \subseteq 1 .. k /\ Earlier(k) \subseteq Nat
    BY <1>2, <1>3
  <2>2. IsFiniteSet(Earlier(k))
    <3>1. 1 \in Nat /\ k \in Nat
      BY <1>3
    <3> QED
      BY <2>1, <3>1, Finite
  <2> QED
    BY <2>1, <2>2, LeastNumber
<1>5. First(k) \in Earlier(k) /\ \A i \in Earlier(k) : First(k) <= i
  BY <1>4 DEF First
<1>6. PICK f \in Earlier(k) : f = First(k)
  BY <1>5
<1>7. f \in 1 .. k - 1 /\ f \in 1 .. Len(blocks) /\ IsSuffix(ListOf(k), ListOf(f))
  BY <1>2, <1>3
<1>8. /\ ListOf(k) \in Seq(Word) /\ ListOf(f) \in Seq(Word)
      /\ Len(ListOf(k)) \in Nat /\ Len(ListOf(f)) \in Nat
  BY <1>3, <1>7
<1>9. /\ Len(ListOf(k)) <= Len(ListOf(f))
      /\ \A i \in 1 .. Len(ListOf(k)) :
           ListOf(k)[i] = ListOf(f)[Len(ListOf(f)) - Len(ListOf(k)) + i]
  BY <1>7, <1>8, SuffixMeans
<1>10. Earlier(f) = {}
  <2> SUFFICES ASSUME NEW i \in Earlier(f) PROVE FALSE
    OBVIOUS
  <2>1. i \in 1 .. f - 1 /\ IsSuffix(ListOf(f), ListOf(i)) /\ i \in 1 .. Len(blocks)
    BY <1>2, <1>3, <1>7
  <2>2. ListOf(i) \in Seq(Word)
    BY <1>3, <2>1
  <2>3. IsSuffix(ListOf(k), ListOf(i))
    BY <1>7, <1>8, <2>1, <2>2, SuffixOfSuffix
  <2>4. i \in Earlier(k)
    BY <1>2, <1>3, <1>7, <2>1, <2>3
  <2> QED
    BY <1>5, <1>6, <1>7, <2>1, <2>4
<1> QED
  BY <1>1, <1>5, <1>6, <1>7, <1>9, <1>10

\* What is left as it was when the offset of the k-th block is filled in, and
\* perhaps a list appended.
Extended(k) ==
  /\ UNCHANGED <<lump, cmd, blocks, map>>
  /\ result' \in Seq(Word) /\ Len(result') >= Len(result)
  /\ \A i \in 1 .. Len(result) : i # 4 + map[k] => result'[i] = result[i]

LEMMA OthersStay ==
  ASSUME TypeOK, Begun, NEW k \in 1 .. Len(blocks), Extended(k)
  PROVE  /\ Begun'
         /\ \A j : Earlier(j)' = Earlier(j) /\ First(j)' = First(j)
                   /\ ListOf(j)' = ListOf(j)
         /\ \A j \in 1 .. Len(blocks) : j # k => PlaceOf(j)' = PlaceOf(j)
         /\ BlockmapLimit' = BlockmapLimit
         /\ \A o \in Nat, b \in 1 .. Len(blocks) :
              o >= 4 + Len(blocks) /\ Lies(result, o, blocks[b])
                => Lies(result', o, blocks[b])
<1>1. UNCHANGED <<lump, cmd, blocks, map>>
  BY DEF Extended
<1>2. /\ Len(blocks) \in Nat
      /\ \A j \in 1 .. Len(blocks) : map[j] \in 1 .. Len(blocks)
      /\ Len(result) \in Nat /\ Len(result) >= 4 + Len(blocks)
      /\ \A b \in 1 .. Len(blocks) : Len(blocks[b]) \in Nat
  BY Beginnings
<1>3. PICK n \in Nat, m \in Nat : n = Len(result) /\ m = 4 + map[k]
  BY <1>2
<1>4. /\ m \in 5 .. 4 + Len(blocks)
      /\ Len(result') \in Nat /\ Len(result') >= n
      /\ \A i \in 1 .. n : i # m => result'[i] = result[i]
  <2>1. m \in 5 .. 4 + Len(blocks)
    BY <1>2, <1>3
  <2>2. Len(result') \in Nat
    BY DEF Extended
  <2> QED
    BY <1>3, <2>1, <2>2 DEF Extended
<1>5. Begun'
  <2>1. Len(result') >= 4 + Len(blocks)
    BY <1>2, <1>3, <1>4
  <2>2. \A i \in 1 .. 4 : result'[i] = lump[i]
    <3>1. \A i \in 1 .. 4 : i \in 1 .. n /\ i # m
      BY <1>2, <1>3, <1>4
    <3>2. \A i \in 1 .. 4 : result[i] = lump[i]
      BY DEF Begun
    <3> QED
      BY <1>4, <3>1, <3>2
  <2> QED
    BY <1>1, <2>1, <2>2 DEF Begun
<1>6. \A j : Earlier(j)' = Earlier(j)
  BY <1>1 DEF Earlier, Matches
<1>7. \A j : First(j)' = First(j)
  BY <1>6 DEF First
<1>8. \A j : ListOf(j)' = ListOf(j)
  BY <1>1 DEF ListOf
<1>9. BlockmapLimit' = BlockmapLimit
  BY <1>1 DEF BlockmapLimit
<1>10. ASSUME NEW j \in 1 .. Len(blocks), j # k
       PROVE  PlaceOf(j)' = PlaceOf(j)
  <2>1. map[j] # map[k]
    BY <1>10 DEF Begun, IsMap
  <2>2. 4 + map[j] \in 1 .. n /\ 4 + map[j] # m
    BY <1>2, <1>3, <2>1, SMTT(60)
  <2> QED
    BY <1>1, <1>4, <2>2 DEF PlaceOf, OffsetOf
<1>11. ASSUME NEW o \in Nat, NEW b \in 1 .. Len(blocks), o >= 4 + Len(blocks),
              Lies(result, o, blocks[b])
       PROVE  Lies(result', o, blocks[b])
  <2>1. PICK c \in Nat : c = Len(blocks[b])
    BY <1>2
  <2>2. o + c <= n /\ \A i \in 1 .. c : result[o + i] = blocks[b][i]
    BY <1>3, <1>11, <2>1 DEF Lies
  <2>3. \A i \in 1 .. c : o + i \in 1 .. n /\ o + i # m
    BY <1>2, <1>4, <1>11, <2>2
  <2>4. \A i \in 1 .. c : result'[o + i] = blocks[b][i]
    BY <1>4, <2>2, <2>3
  <2>5. o + c <= Len(result')
    BY <1>4, <2>2
  <2> QED
    BY <2>1, <2>4, <2>5 DEF Lies
<1> QED
  BY <1>5, <1>6, <1>7, <1>8, <1>9, <1>10, <1>11

LEMMA SettledStay ==
  ASSUME TypeOK, Begun, NEW k \in 1 .. Len(blocks), Extended(k),
         NEW j \in 1 .. k - 1, Settled(j)
  PROVE  Settled(j)'
<1>1. /\ j \in 1 .. Len(blocks) /\ j # k /\ Len(blocks) \in Nat /\ k \in Nat
  <2>1. Len(blocks) \in Nat
    BY Beginnings
  <2> QED
    BY <2>1
<1>2. /\ Earlier(j)' = Earlier(j) /\ First(j)' = First(j) /\ ListOf(j)' = ListOf(j)
      /\ PlaceOf(j)' = PlaceOf(j) /\ BlockmapLimit' = BlockmapLimit
      /\ UNCHANGED <<blocks, map>>
  BY <1>1, OthersStay DEF Extended
<1>3. PlaceOf(j) \in Nat /\ map[j] \in 1 .. Len(blocks)
  BY <1>1, Beginnings
<1>4. PlaceOf(j)' < Len(result')
  <2>1. PlaceOf(j) < Len(result) /\ Len(result) \in Nat
    BY Beginnings DEF Settled
  <2>2. Len(result') \in Nat /\ Len(result') >= Len(result)
    BY DEF Extended
  <2> QED
    BY <1>2, <1>3, <2>1, <2>2
<1>5. CASE Earlier(j) = {}
  <2>1. PlaceOf(j) >= 4 + Len(blocks) /\ PlaceOf(j) <= BlockmapLimit
        /\ Lies(result, PlaceOf(j), ListOf(j))
    BY <1>5 DEF Settled, Appended
  <2>2. Lies(result', PlaceOf(j), ListOf(j))
    BY <1>3, <2>1, OthersStay DEF ListOf
  <2> QED
    BY <1>2, <1>4, <1>5, <2>1, <2>2 DEF Settled, Appended
<1>6. CASE Earlier(j) # {}
  <2>1. First(j) \in 1 .. j - 1
    BY <1>1, <1>6, FirstWasAppended
  <2>2. First(j) \in 1 .. Len(blocks) /\ First(j) # k
    BY <1>1, <2>1
  <2>3. PlaceOf(First(j))' = PlaceOf(First(j))
    <3>1. PICK f \in 1 .. Len(blocks) : f = First(j)
      BY <2>2
    <3>2. PlaceOf(f)' = PlaceOf(f)
      BY <2>2, <3>1, OthersStay
    <3> QED
      BY <1>2, <3>1, <3>2 DEF PlaceOf
  <2>4. SharedOffset(map[j], map[First(j)])' = SharedOffset(map[j], map[First(j)])
    BY <1>2, <2>3 DEF SharedOffset, PlaceOf
  <2>5. PlaceOf(j) = SharedOffset(map[j], map[First(j)])
    BY <1>6 DEF Settled
  <2> QED
    BY <1>2, <1>4, <1>6, <2>4, <2>5 DEF Settled
<1> QED
  BY <1>5, <1>6

\* A block whose list is found gets an offset in the table.
LEMMA SharedIsPlaced ==
  ASSUME TypeOK, Begun, NEW k \in 1 .. Len(blocks), Earlier(k) # {}, Placed(k - 1),
         UNCHANGED <<lump, cmd, blocks, map>>,
         result' = [result EXCEPT
                      ![4 + map[k]] = SharedOffset(map[k], map[First(k)])]
  PROVE  Extended(k) /\ Placed(k)' /\ Apart(k)'
<1>1. /\ Len(blocks) \in Nat /\ k \in Nat
      /\ \A j \in 1 .. Len(blocks) : map[j] \in 1 .. Len(blocks)
      /\ \A j \in 1 .. Len(blocks) : PlaceOf(j) \in Word /\ PlaceOf(j) \in Nat
      /\ Len(result) \in Nat /\ Len(result) >= 4 + Len(blocks)
      /\ \A j \in 1 .. Len(blocks) : Len(ListOf(j)) \in Nat /\ Len(ListOf(j)) >= 1
  <2>1. \A j \in 1 .. Len(blocks) : Len(ListOf(j)) \in Nat /\ Len(ListOf(j)) >= 1
    BY ListsPlaced
  <2>2. Len(blocks) \in Nat /\ Len(result) \in Nat /\ Len(result) >= 4 + Len(blocks)
    BY Beginnings
  <2>3. \A j \in 1 .. Len(blocks) : map[j] \in 1 .. Len(blocks)
    BY ListsPlaced
  <2>4. \A j \in 1 .. Len(blocks) : PlaceOf(j) \in Word /\ PlaceOf(j) \in Nat
    BY Beginnings
  <2>5. k \in Nat
    BY <2>2
  <2> QED
    BY <2>1, <2>2, <2>3, <2>4, <2>5
<1>2. PICK f \in 1 .. k - 1 : f = First(k)
  BY FirstWasAppended
<1>3. /\ cmd.op = "stack" /\ Earlier(f) = {} /\ f \in 1 .. Len(blocks)
      /\ Len(ListOf(k)) <= Len(ListOf(f))
  BY <1>1, <1>2, FirstWasAppended, SMTT(60)
<1>4. /\ PlaceOf(f) >= 4 + Len(blocks)
      /\ PlaceOf(f) + Len(ListOf(f)) <= Len(result)
      /\ result[Len(result)] = Sentinel
  <2>1. f \in 1 .. k - 1 /\ k - 1 > 0
    BY <1>1
  <2>2. Settled(f) /\ result[Len(result)] = Sentinel
    BY <2>1 DEF Placed
  <2>3. Appended(f)
    BY <1>3, <2>2 DEF Settled
  <2> QED
    BY <2>2, <2>3 DEF Appended, Lies
<1>5. PICK x \in Nat : x = PlaceOf(f) + Len(ListOf(f)) - Len(ListOf(k))
  BY <1>1, <1>3
<1>6. x < Len(result)
  BY <1>1, <1>3, <1>4, <1>5
<1>7. PICK w \in Word : w = SharedOffset(map[k], map[First(k)])
  BY <1>2, <1>5, Words DEF SharedOffset, PlaceOf, ListOf
<1>8. w \in Nat /\ w < Len(result) /\ w = x % (2 * Half)
  <2>1. w = x % (2 * Half)
    BY <1>2, <1>5, <1>7 DEF SharedOffset, PlaceOf, ListOf
  <2>2. w \in Nat /\ w < 2 * Half /\ Half \in Nat
    BY Words
  <2>3. CASE x < 2 * Half
    BY <1>6, <2>1, <2>2, <2>3, Words
  <2>4. CASE ~(x < 2 * Half)
    BY <1>1, <1>6, <2>1, <2>2, <2>4
  <2> QED
    BY <2>3, <2>4
<1>9. PICK m \in 5 .. 4 + Len(blocks) : m = 4 + map[k]
  BY <1>1
<1>10. /\ result' = [result EXCEPT ![m] = w]
       /\ result \in Seq(Word) /\ m \in 1 .. Len(result) /\ m < Len(result)
  <2>1. result \in Seq(Word)
    BY DEF TypeOK
  <2>2. m < Len(result)
    BY <1>1, <1>3, <1>4
  <2> QED
    BY <1>1, <1>7, <1>9, <2>1, <2>2, SMTT(60)
<1>11. /\ result' \in Seq(Word) /\ Len(result') = Len(result) /\ result'[m] = w
       /\ \A i \in 1 .. Len(result) : i # m => result'[i] = result[i]
  <2>1. PICK e : e = [result EXCEPT ![m] = w]
    OBVIOUS
  <2>2. /\ e \in Seq(Word) /\ Len(e) = Len(result) /\ e[m] = w
        /\ \A i \in 1 .. Len(result) : i # m => e[i] = result[i]
    BY <1>10, <2>1, OneWord
  <2> QED
    BY <1>10, <2>1, <2>2
<1>12. Extended(k)
  BY <1>1, <1>9, <1>11 DEF Extended
<1>13. /\ Earlier(k)' = Earlier(k) /\ First(k)' = First(k)
       /\ PlaceOf(f)' = PlaceOf(f)
  BY <1>1, <1>2, <1>3, <1>12, OthersStay
<1>14. PlaceOf(k)' = w
  BY <1>9, <1>11 DEF PlaceOf, OffsetOf
<1>15. SharedOffset(map[k], map[First(k)])' = w
  <2>1. OffsetOf(result', map[f]) = OffsetOf(result, map[f])
    BY <1>13 DEF PlaceOf
  <2> QED
    BY <1>2, <1>7, <1>13, <2>1 DEF SharedOffset
<1>16. Settled(k)'
  BY <1>8, <1>11, <1>13, <1>14, <1>15 DEF Settled
<1>17. \A j \in 1 .. k : Settled(j)'
  <2>1. \A j \in 1 .. k - 1 : Settled(j)'
    BY <1>12, SettledStay DEF Placed
  <2>2. \A j \in 1 .. k : j \in 1 .. k - 1 \/ j = k
    BY <1>1
  <2> QED
    BY <1>16, <2>1, <2>2
<1>18. result'[Len(result')] = Sentinel
  BY <1>1, <1>4, <1>10, <1>11
<1> QED
  BY <1>3, <1>12, <1>17, <1>18 DEF Placed, Apart

\* A list that is appended lies where the lump ended.
LEMMA AppendedIsPlaced ==
  ASSUME TypeOK, Begun, NEW k \in 1 .. Len(blocks), Earlier(k) = {}, Placed(k - 1),
         Apart(k - 1), ~PastLimit,
         UNCHANGED <<lump, cmd, blocks, map>>,
         result' = [result EXCEPT ![4 + map[k]] = Len(result) % (2 * Half)]
                     \o blocks[map[k]]
  PROVE  Extended(k) /\ Placed(k)' /\ Apart(k)'
<1>1. /\ Len(blocks) \in Nat /\ k \in Nat
      /\ \A j \in 1 .. Len(blocks) : PlaceOf(j) \in Word /\ PlaceOf(j) \in Nat
      /\ \A j \in 1 .. Len(blocks) : Len(ListOf(j)) \in Nat /\ Len(ListOf(j)) >= 1
  <2>1. \A j \in 1 .. Len(blocks) : Len(ListOf(j)) \in Nat /\ Len(ListOf(j)) >= 1
    BY ListsPlaced
  <2>2. Len(blocks) \in Nat
    BY Beginnings
  <2> QED
    BY <2>1, <2>2, Beginnings
<1>2. PICK n \in Nat : n = Len(result)
  BY Beginnings
<1>3. n >= 4 + Len(blocks) /\ result \in Seq(Word)
  BY <1>2, Beginnings DEF TypeOK
<1>4. n <= BlockmapLimit /\ n < 2 * Half /\ n \in Word
  <2>1. BlockmapLimit \in Nat /\ BlockmapLimit < 2 * Half
    <3>1. Half \in Nat /\ Half > 3 /\ Sentinel = 2 * Half - 1
      BY Words
    <3> QED
      BY <3>1 DEF BlockmapLimit, EXTENDED_MAX_BLOCKMAP_OFFSET,
         VANILLA_MAX_BLOCKMAP_OFFSET
  <2>2. n <= BlockmapLimit
    BY <1>2, <2>1 DEF PastLimit
  <2>3. n < 2 * Half
    BY <2>1, <2>2, Words
  <2> QED
    BY <2>2, <2>3, Words
<1>5. PICK l \in Seq(Word) : l = ListOf(k)
  BY ListsPlaced
<1>6. PICK c \in Nat : c = Len(l) /\ c >= 1
  BY <1>1, <1>5
<1>7. PICK m \in 5 .. 4 + Len(blocks) : m = 4 + map[k]
  <2>1. map[k] \in 1 .. Len(blocks)
    BY ListsPlaced
  <2>2. 4 + map[k] \in 5 .. 4 + Len(blocks)
    BY <1>1, <2>1, SMTT(60)
  <2> QED
    BY <2>2
<1>8. PICK e : e = [result EXCEPT ![m] = n]
  OBVIOUS
<1>9. /\ e \in Seq(Word) /\ Len(e) = n /\ e[m] = n /\ m \in 1 .. n
      /\ \A i \in 1 .. n : i # m => e[i] = result[i]
  <2>1. m \in 1 .. Len(result)
    BY <1>1, <1>2, <1>3
  <2> QED
    BY <1>2, <1>3, <1>4, <1>8, <2>1, OneWord
<1>10. result' = e \o l
  BY <1>2, <1>4, <1>5, <1>7, <1>8, Words DEF ListOf
<1>11. /\ result' \in Seq(Word) /\ Len(result') = n + c
       /\ \A i \in 1 .. n : result'[i] = e[i]
       /\ \A i \in 1 .. c : result'[n + i] = l[i]
  <2>1. PICK u : u = e \o l
    OBVIOUS
  <2>2. /\ u \in Seq(Word) /\ Len(u) = Len(e) + Len(l)
        /\ \A i \in 1 .. Len(e) : u[i] = e[i]
        /\ \A i \in 1 .. Len(l) : u[Len(e) + i] = l[i]
    <3>1. e \in Seq(Word) /\ l \in Seq(Word)
      BY <1>9
    <3> QED
      BY <2>1, <3>1, JointWords
  <2> QED
    BY <1>6, <1>9, <1>10, <2>1, <2>2
<1>12. /\ \A i \in 1 .. n : i # m => result'[i] = result[i]
       /\ result'[m] = n
  BY <1>9, <1>11
<1>13. Extended(k)
  BY <1>2, <1>6, <1>7, <1>11, <1>12, SMTT(60) DEF Extended
<1>14. /\ Earlier(k)' = Earlier(k) /\ ListOf(k)' = l
       /\ BlockmapLimit' = BlockmapLimit /\ Len(blocks)' = Len(blocks)
  BY <1>5, <1>13, OthersStay
<1>15. PlaceOf(k)' = n
  BY <1>7, <1>12 DEF PlaceOf, OffsetOf
<1>16. Settled(k)'
  <2>1. Lies(result', n, l)
    <3>1. n + Len(l) <= Len(result')
      BY <1>6, <1>11
    <3>2. \A i \in 1 .. Len(l) : result'[n + i] = l[i]
      BY <1>6, <1>11
    <3> QED
      BY <3>1, <3>2 DEF Lies
  <2>2. n < Len(result')
    BY <1>6, <1>11
  <2>3. n >= 4 + Len(blocks') /\ n <= BlockmapLimit'
    BY <1>3, <1>4, <1>14
  <2>4. Appended(k)'
    BY <1>14, <1>15, <2>1, <2>3 DEF Appended
  <2> QED
    BY <1>14, <1>15, <2>2, <2>4 DEF Settled
<1>17. \A j \in 1 .. k : Settled(j)'
  <2>1. \A j \in 1 .. k - 1 : Settled(j)'
    BY <1>13, SettledStay DEF Placed
  <2>2. \A j \in 1 .. k : j \in 1 .. k - 1 \/ j = k
    BY <1>1
  <2> QED
    BY <1>16, <2>1, <2>2
<1>18. result'[Len(result')] = Sentinel
  <2>1. l[c] = Sentinel
    BY <1>5, <1>6, ListsPlaced DEF IsList
  <2>2. c \in 1 .. c
    BY <1>6
  <2>3. result'[n + c] = l[c]
    BY <1>11, <2>2
  <2> QED
    BY <1>11, <2>1, <2>3
<1>19. Apart(k)'
  <2> SUFFICES ASSUME cmd.op = "unstack", NEW i \in 5 + Len(blocks) .. n + c
               PROVE  \E j \in 1 .. k : i \in SpanOf(j)'
                        /\ \A h \in 1 .. k : i \in SpanOf(h)' => h = j
    BY <1>11, <1>14 DEF Apart
  <2>1. \A j \in 1 .. k - 1 : j \in 1 .. Len(blocks) /\ j # k
    BY <1>1
  <2>2. \A j \in 1 .. k - 1 : SpanOf(j)' = SpanOf(j)
    <3>1. \A j \in 1 .. k - 1 : PlaceOf(j)' = PlaceOf(j) /\ ListOf(j)' = ListOf(j)
      BY <1>13, <2>1, OthersStay
    <3> QED
      BY <3>1 DEF SpanOf
  <2>3. SpanOf(k)' = n + 1 .. n + c
    BY <1>6, <1>14, <1>15 DEF SpanOf
  <2>4. \A j \in 1 .. k - 1 : \A h \in SpanOf(j) : h <= n
    <3> SUFFICES ASSUME NEW j \in 1 .. k - 1, NEW h \in SpanOf(j) PROVE h <= n
      OBVIOUS
    <3>1. Earlier(j) = {}
      BY DEF Earlier
    <3>2. PlaceOf(j) + Len(ListOf(j)) <= n
      BY <1>2, <3>1 DEF Placed, Settled, Appended, Lies
    <3>3. PICK p \in Nat, q \in Nat : p = PlaceOf(j) /\ q = Len(ListOf(j))
      BY <1>1, <2>1
    <3>4. h \in p + 1 .. p + q
      BY <3>3 DEF SpanOf
    <3> QED
      BY <3>2, <3>3, <3>4, SMTT(60)
  <2>5. \A j \in 1 .. k : j \in 1 .. k - 1 \/ j = k
    BY <1>1
  <2>6. CASE i <= n
    <3>1. i \in 5 + Len(blocks) .. Len(result)
      BY <1>1, <1>2, <2>6
    <3>2. PICK j \in 1 .. k - 1 :
            i \in SpanOf(j) /\ \A h \in 1 .. k - 1 : i \in SpanOf(h) => h = j
      BY <3>1 DEF Apart
    <3>3. i \notin SpanOf(k)'
      BY <2>3, <2>6, <1>6
    <3>4. j \in 1 .. k
      BY <1>1
    <3> QED
      BY <2>2, <2>5, <3>2, <3>3, <3>4, SMTT(60)
  <2>7. CASE ~(i <= n)
    <3>1. i \in SpanOf(k)'
      BY <1>1, <1>6, <2>3, <2>7
    <3>2. \A h \in 1 .. k - 1 : i \notin SpanOf(h)'
      BY <2>2, <2>4, <2>7
    <3>3. k \in 1 .. k
      BY <1>1
    <3> QED
      BY <2>5, <3>1, <3>2, <3>3
  <2> QED
    BY <2>6, <2>7
<1> QED
  BY <1>13, <1>17, <1>18, <1>19 DEF Placed

-----------------------------------------------------------------------------
(* What has been rebuilt *)

LEMMA HeaderKept ==
  ASSUME TypeOK, Begun
  PROVE  /\ NumBlocks(result) = Len(blocks) /\ IsValidBlockmap(result)
         /\ result \in Seq(Word)
<1>1. result[3] = lump[3] /\ result[4] = lump[4]
  BY DEF Begun
<1>2. NumBlocks(result) = Len(blocks)
  BY <1>1, Beginnings DEF NumBlocks
<1>3. Len(result) \in Nat /\ Len(result) >= 4 + Len(blocks) /\ Len(blocks) \in Nat
  BY Beginnings
<1>4. result \in Seq(Word)
  BY DEF TypeOK
<1> QED
  BY <1>2, <1>3, <1>4 DEF IsValidBlockmap

LEMMA EveryBlockHasPlace ==
  ASSUME TypeOK, Begun, NEW b \in 1 .. Len(blocks)
  PROVE  \E k \in 1 .. Len(blocks) :
           map[k] = b /\ PlaceOf(k) = OffsetOf(result, b) /\ ListOf(k) = blocks[b]
<1>1. PICK k \in 1 .. Len(blocks) : map[k] = b
  BY DEF Begun, IsMap
<1> QED
  BY <1>1 DEF PlaceOf, ListOf

LEMMA LiesIsRead ==
  ASSUME TypeOK, Begun, NEW k \in 1 .. Len(blocks), Lies(result, PlaceOf(k), ListOf(k))
  PROVE  ListAt(result, PlaceOf(k)) = ListOf(k)
<1>1. PlaceOf(k) \in Nat
  BY Beginnings
<1>2. IsList(ListOf(k)) /\ result \in Seq(Word)
  BY ListsPlaced DEF TypeOK
<1> QED
  BY <1>1, <1>2, ListThere

\* Whatever became of the offsets, each leads to an end: that of the lump.
LEMMA RebuiltHasEnds ==
  ASSUME TypeOK, Begun, Placed(Len(blocks))
  PROVE  HasEnds(result)
<1> SUFFICES ASSUME NEW b \in 1 .. Len(blocks)
             PROVE  \E k \in OffsetOf(result, b) + 1 .. Len(result) : result[k] = Sentinel
  BY HeaderKept DEF HasEnds
<1>1. PICK k \in 1 .. Len(blocks) : PlaceOf(k) = OffsetOf(result, b)
  BY EveryBlockHasPlace
<1>2. PlaceOf(k) < Len(result) /\ PlaceOf(k) \in Nat /\ Len(result) \in Nat
      /\ Len(blocks) \in Nat
  BY Beginnings DEF Placed, Settled
<1>3. result[Len(result)] = Sentinel
  BY <1>2 DEF Placed
<1>4. Len(result) \in OffsetOf(result, b) + 1 .. Len(result)
  BY <1>1, <1>2
<1> QED
  BY <1>3, <1>4

Unstacked(e) ==
  /\ ~IsStacked(e)
  /\ \A i \in NumBlocks(e) + 5 .. Len(e) :
       Cardinality({b \in 1 .. NumBlocks(e) :
         i \in OffsetOf(e, b) + 1 .. OffsetOf(e, b) + Len(ListAt(e, OffsetOf(e, b)))}) = 1

LEMMA RebuiltIsUnstacked ==
  ASSUME TypeOK, Begun, Placed(Len(blocks)), Apart(Len(blocks)), cmd.op = "unstack"
  PROVE  Unstacked(result)
<1>1. PICK n \in Nat : n = Len(blocks)
  BY Beginnings
<1>2. NumBlocks(result) = n /\ Len(result) \in Nat /\ Len(result) >= 4 + n
  BY <1>1, HeaderKept, Beginnings
<1>3. ASSUME NEW k \in 1 .. n
      PROVE  /\ PlaceOf(k) \in Nat /\ PlaceOf(k) >= 4 + n
             /\ Len(ListOf(k)) \in Nat /\ Len(ListOf(k)) >= 1
             /\ PlaceOf(k) + Len(ListOf(k)) <= Len(result)
             /\ ListAt(result, PlaceOf(k)) = ListOf(k)
  <2>1. Earlier(k) = {}
    BY DEF Earlier
  <2>2. Settled(k)
    BY <1>1 DEF Placed
  <2>3. PlaceOf(k) >= 4 + n /\ Lies(result, PlaceOf(k), ListOf(k))
    BY <1>1, <2>1, <2>2 DEF Settled, Appended
  <2>4. ListAt(result, PlaceOf(k)) = ListOf(k)
    BY <1>1, <2>3, LiesIsRead
  <2>5. PlaceOf(k) \in Nat
    BY <1>1, Beginnings
  <2>6. Len(ListOf(k)) \in Nat /\ Len(ListOf(k)) >= 1
    BY <1>1, ListsPlaced
  <2> QED
    BY <2>3, <2>4, <2>5, <2>6 DEF Lies
<1>4. ASSUME NEW i \in 5 + n .. Len(result)
      PROVE  \E k \in 1 .. n : i \in SpanOf(k) /\ \A j \in 1 .. n : i \in SpanOf(j) => j = k
  BY <1>1, <1>4 DEF Apart
<1>5. \A k \in 1 .. n : map[k] \in 1 .. n
  BY <1>1, ListsPlaced
<1>6. ~IsStacked(result)
  <2> SUFFICES ASSUME NEW a \in 1 .. n, NEW b \in 1 .. n, a # b,
                      OffsetOf(result, a) = OffsetOf(result, b)
               PROVE  FALSE
    BY <1>2 DEF IsStacked
  <2>1. PICK j \in 1 .. n : map[j] = a /\ PlaceOf(j) = OffsetOf(result, a)
    BY <1>1, EveryBlockHasPlace
  <2>2. PICK k \in 1 .. n : map[k] = b /\ PlaceOf(k) = OffsetOf(result, b)
    BY <1>1, EveryBlockHasPlace
  <2>3. PICK o \in Nat : o = PlaceOf(j)
    BY <1>3
  <2>4. o = PlaceOf(k)
    BY <2>1, <2>2, <2>3
  <2>5. o + 1 \in SpanOf(j) /\ o + 1 \in SpanOf(k) /\ o + 1 \in 5 + n .. Len(result)
    <3>1. PICK p \in Nat, q \in Nat :
            p = Len(ListOf(j)) /\ q = Len(ListOf(k)) /\ p >= 1 /\ q >= 1
      BY <1>3
    <3>2. o >= 4 + n /\ o + p <= Len(result)
      BY <1>3, <2>3, <3>1
    <3>3. SpanOf(j) = o + 1 .. o + p /\ SpanOf(k) = o + 1 .. o + q
      BY <2>3, <2>4, <3>1 DEF SpanOf
    <3> QED
      BY <1>2, <3>1, <3>2, <3>3
  <2>6. j = k
    BY <1>4, <2>5
  <2> QED
    BY <2>1, <2>2, <2>6
<1>7. ASSUME NEW i \in 5 + n .. Len(result)
      PROVE  Cardinality({b \in 1 .. n :
               i \in OffsetOf(result, b) + 1 ..
                     OffsetOf(result, b) + Len(ListAt(result, OffsetOf(result, b)))}) = 1
  <2>1. PICK k \in 1 .. n : i \in SpanOf(k) /\ \A j \in 1 .. n : i \in SpanOf(j) => j = k
    BY <1>4, <1>7
  <2>2. ASSUME NEW b \in 1 .. n
        PROVE  (i \in OffsetOf(result, b) + 1 ..
                      OffsetOf(result, b) + Len(ListAt(result, OffsetOf(result, b))))
                 <=> b = map[k]
    <3>1. PICK j \in 1 .. n : map[j] = b /\ PlaceOf(j) = OffsetOf(result, b)
      BY <1>1, EveryBlockHasPlace
    <3>2. OffsetOf(result, b) + 1 ..
            OffsetOf(result, b) + Len(ListAt(result, OffsetOf(result, b))) = SpanOf(j)
      BY <1>3, <3>1 DEF SpanOf
    <3>3. i \in SpanOf(j) <=> j = k
      BY <2>1
    <3>4. j = k <=> b = map[k]
      BY <1>1, <3>1 DEF Begun, IsMap
    <3> QED
      BY <3>2, <3>3, <3>4
  <2>3. {b \in 1 .. n :
           i \in OffsetOf(result, b) + 1 ..
                 OffsetOf(result, b) + Len(ListAt(result, OffsetOf(result, b)))}
          = {map[k]}
    BY <1>5, <2>2
  <2> QED
    BY <2>3, FS_Singleton
<1>8. \A i \in NumBlocks(result) + 5 .. Len(result) : i \in 5 + n .. Len(result)
  BY <1>2
<1> QED
  BY <1>2, <1>6, <1>7, <1>8 DEF Unstacked

-----------------------------------------------------------------------------
(* The invariant *)

\* The lump as it was when the run began.
was == trail[Len(trail)]

OnDisk == Len(trail) = Len(past) + 1 /\ lump = was

Sound == IsValidBlockmap(lump) => HasEnds(lump)

Placing ==
  pc = "place" =>
    /\ Begun /\ at \in 1 .. Len(blocks) + 1
    /\ Placed(at - 1) /\ Apart(at - 1)

GivenUp == pc = "finish" => result = <<>>

\* Every block has been placed.
Rebuilt == Begun /\ Placed(Len(blocks)) /\ Apart(Len(blocks)) /\ success

Outcome ==
  pc = "write" =>
    \/ Rebuilt
    \/ result = lump /\ (success /\ IsValidBlockmap(lump) => cmd.op = "stack")

BlockmapInv ==
  /\ TypeOK /\ OnDisk /\ Sound
  /\ Placing /\ GivenUp /\ Outcome
  /\ FullyUnstacked

LEMMA WhileRunning == pc' # "idle" => FullyUnstacked'
BY DEF FullyUnstacked, Ended

LEMMA InitInv == ASSUME EndsFound PROVE Init => BlockmapInv
<1> SUFFICES ASSUME Init PROVE BlockmapInv
  OBVIOUS
<1>1. PICK l \in Lumps : lump = l.elements
  BY DEF Init
<1>2. lump \in Seq(Word)
  BY <1>1, LumpsAssumption
<1>3. TypeOK
  <2>1. cmd \in Commands
    BY CommandsAssumption DEF Init
  <2>2. /\ blocks = <<>> /\ map = <<>> /\ at = 1 /\ result = <<>> /\ success = TRUE
        /\ past = <<>> /\ trail = <<lump>> /\ pc = "idle"
    BY DEF Init
  <2>3. map \in [1 .. Len(blocks) -> 1 .. Len(blocks)]
    BY <2>2
  <2> QED
    BY <1>2, <2>1, <2>2, <2>3 DEF TypeOK
<1>4. OnDisk /\ Sound
  BY <1>1 DEF Init, OnDisk, was, Sound, EndsFound
<1>5. Placing /\ GivenUp /\ Outcome
  BY DEF Init, Placing, GivenUp, Outcome
<1>6. FullyUnstacked
  BY DEF Init, FullyUnstacked, Ended
<1> QED
  BY <1>3, <1>4, <1>5, <1>6 DEF BlockmapInv

LEMMA SameOnDisk ==
  ASSUME OnDisk, Sound, UNCHANGED <<lump, past, trail>>
  PROVE  OnDisk' /\ Sound'
BY DEF OnDisk, was, Sound, HasEnds

LEMMA StartKeeps ==
  ASSUME BlockmapInv, NEW c \in Commands, Start(c) PROVE BlockmapInv'
<1>1. /\ pc' = "check" /\ cmd' = c
      /\ UNCHANGED <<lump, blocks, map, at, result, success, lists, past, trail>>
  BY DEF Start, Goto, history
<1>2. TypeOK'
  BY <1>1 DEF BlockmapInv, TypeOK
<1> QED
  BY <1>1, <1>2, SameOnDisk, WhileRunning
     DEF BlockmapInv, Placing, GivenUp, Outcome

\* The lump is written as it is.
LEMMA KeepKeeps ==
  ASSUME BlockmapInv, NEW returns \in BOOLEAN, Keep(returns),
         UNCHANGED <<lump, cmd, blocks, map, at, lists, past, trail>>,
         returns /\ IsValidBlockmap(lump) => cmd.op = "stack"
  PROVE  BlockmapInv'
<1>1. pc' = "write" /\ result' = lump /\ success' = returns
  BY DEF Keep, Goto
<1>2. TypeOK'
  BY <1>1 DEF BlockmapInv, TypeOK
<1> QED
  BY <1>1, <1>2, SameOnDisk, WhileRunning
     DEF BlockmapInv, Placing, GivenUp, Outcome

LEMMA CheckKeeps == ASSUME BlockmapInv, Check PROVE BlockmapInv'
<1>1. pc = "check" /\ UNCHANGED <<lump, cmd, lists, past, trail>>
  BY DEF Check, history
<1>2. CASE ~IsValidBlockmap(lump) /\ Keep(TRUE) /\ UNCHANGED <<blocks, map, at>>
  BY <1>1, <1>2, KeepKeeps
<1>3. CASE cmd.op = "stack" /\ Keep(FALSE) /\ UNCHANGED <<blocks, map, at>>
  BY <1>1, <1>3, KeepKeeps
<1>4. CASE /\ IsValidBlockmap(lump)
           /\ cmd.op = "stack" => ~IsOverflowedBlockmap(lump)
           /\ blocks' = MakeBlocklist(lump)
           /\ map' = LargestLast(SortedMap(MakeBlocklist(lump)))
           /\ at' = 1
           /\ result' = SubSeq(lump, 1, 4) \o [b \in 1 .. NumBlocks(lump) |-> 0]
           /\ Goto("place") /\ UNCHANGED success
  <2>1. /\ lump \in Seq(Word) /\ HasEnds(lump)
    BY <1>4 DEF BlockmapInv, TypeOK, Sound
  <2>2. PICK n \in Nat : n = NumBlocks(lump)
    BY <1>4, <2>1, OffsetsAreWords
  <2>3. PICK bl \in Seq(Seq(Word)) : bl = MakeBlocklist(lump) /\ Len(bl) = n
    BY <1>4, <2>1, <2>2, BlocksAreLists
  <2>4. IsMap(map', n) /\ blocks' = bl /\ Len(blocks') = n
    BY <1>4, <2>3, SortedMapIsMap, LargestLastIsMap
  <2>5. /\ result' \in Seq(Word) /\ Len(result') = 4 + n
        /\ \A i \in 1 .. 4 : result'[i] = lump[i]
    <3>1. PICK h : h = SubSeq(lump, 1, 4)
      OBVIOUS
    <3>2. Len(lump) >= 4 /\ Len(lump) \in Nat
      BY <1>4, <2>1 DEF IsValidBlockmap
    <3>3. h \in Seq(Word) /\ Len(h) = 4 /\ \A i \in 1 .. 4 : h[i] = lump[i]
      BY <2>1, <3>1, <3>2
    <3>4. PICK z : z = [b \in 1 .. n |-> 0]
      OBVIOUS
    <3>5. 0 \in Word
      BY Words
    <3>6. z \in Seq(Word) /\ Len(z) = n
      BY <2>2, <3>4, <3>5
    <3>7. PICK u : u = h \o z
      OBVIOUS
    <3>8. /\ u \in Seq(Word) /\ Len(u) = Len(h) + Len(z)
          /\ \A i \in 1 .. Len(h) : u[i] = h[i]
      <4>1. h \in Seq(Word) /\ z \in Seq(Word)
        BY <3>3, <3>6
      <4> QED
        BY <3>7, <4>1, JointWords
    <3>9. result' = u
      BY <1>4, <2>2, <3>1, <3>4, <3>7
    <3> QED
      BY <3>3, <3>6, <3>8, <3>9
  <2>6. TypeOK'
    <3>1. map' \in [1 .. Len(blocks') -> 1 .. Len(blocks')]
      BY <2>4 DEF IsMap
    <3>2. TypeOK
      BY DEF BlockmapInv
    <3>3. lump' \in Seq(Word) /\ cmd' \in Commands /\ past' \in Seq(Commands)
          /\ trail' \in Seq(Seq(Word)) /\ success' \in BOOLEAN
      BY <1>1, <1>4, <3>2 DEF TypeOK
    <3>4. blocks' \in Seq(Seq(Word)) /\ at' \in Nat \ {0} /\ pc' = "place"
      BY <1>4, <2>4 DEF Goto
    <3> QED
      BY <2>5, <3>1, <3>3, <3>4 DEF TypeOK
  <2>7. Begun'
    <3>1. HasEnds(lump)'
      BY <1>1, <2>1 DEF HasEnds
    <3>2. Len(result') >= 4 + Len(blocks')
      BY <2>4, <2>5
    <3> QED
      BY <1>1, <1>4, <2>4, <2>5, <3>1, <3>2 DEF Begun
  <2>8. Placed(at - 1)' /\ Apart(at - 1)'
    <3>1. PICK z : z = 0
      OBVIOUS
    <3>2. at' - 1 = z /\ 1 .. z = {}
      BY <1>4, <3>1
    <3>3. 5 + Len(blocks') .. Len(result') = {}
      BY <2>4, <2>5
    <3> QED
      BY <3>1, <3>2, <3>3 DEF Placed, Apart
  <2>9. pc' = "place" /\ at' \in 1 .. Len(blocks') + 1
    BY <1>4, <2>4 DEF Goto
  <2> QED
    BY <1>1, <2>6, <2>7, <2>8, <2>9, SameOnDisk, WhileRunning
       DEF BlockmapInv, Placing, GivenUp, Outcome
<1> QED
  BY <1>2, <1>3, <1>4 DEF Check

LEMMA PlaceBlockKeeps == ASSUME BlockmapInv, PlaceBlock PROVE BlockmapInv'
<1>1. /\ pc = "place" /\ at \in DOMAIN map
      /\ UNCHANGED <<lump, cmd, blocks, map, success, lists, past, trail>>
      /\ TypeOK /\ OnDisk /\ Sound
  BY DEF PlaceBlock, history, BlockmapInv
<1>2. Begun /\ Placed(at - 1) /\ Apart(at - 1)
  BY <1>1 DEF BlockmapInv, Placing
<1>3. Len(blocks) \in Nat /\ DOMAIN map = 1 .. Len(blocks)
  BY <1>1, <1>2, Beginnings
<1>4. PICK k \in 1 .. Len(blocks) : k = at
  BY <1>1, <1>3
<1>5. Placed(k - 1) /\ Apart(k - 1)
  BY <1>2, <1>4
<1>6. ASSUME Extended(k), Placed(k)', Apart(k)', at' = at + 1, UNCHANGED pc
      PROVE  BlockmapInv'
  <2>1. result' \in Seq(Word)
    BY <1>6 DEF Extended
  <2>2. at' - 1 = k /\ at' \in 1 .. Len(blocks) + 1 /\ at' \in Nat \ {0}
    BY <1>3, <1>4, <1>6
  <2>3. TypeOK'
    BY <1>1, <1>6, <2>1, <2>2 DEF TypeOK
  <2>4. Begun'
    BY <1>1, <1>2, <1>6, OthersStay
  <2>5. Placed(at - 1)' /\ Apart(at - 1)'
    BY <1>6, <2>2 DEF Placed, Apart
  <2>6. Placing'
    BY <1>1, <2>2, <2>4, <2>5 DEF Placing
  <2> QED
    BY <1>1, <1>6, <2>3, <2>6, SameOnDisk, WhileRunning
       DEF BlockmapInv, GivenUp, Outcome
<1>7. CASE /\ Earlier(at) # {}
           /\ LET first == CHOOSE j \in Earlier(at) : \A i \in Earlier(at) : j <= i
              IN result' = [result EXCEPT
                              ![4 + map[at]] = SharedOffset(map[at], map[first])]
           /\ at' = at + 1 /\ UNCHANGED pc
  <2>1. result' = [result EXCEPT
                     ![4 + map[k]] = SharedOffset(map[k], map[First(k)])]
    BY <1>4, <1>7 DEF First
  <2>2. Extended(k) /\ Placed(k)' /\ Apart(k)'
    BY <1>1, <1>2, <1>4, <1>5, <1>7, <2>1, SharedIsPlaced
  <2> QED
    BY <1>6, <1>7, <2>2
<1>8. CASE result' = <<>> /\ Goto("finish") /\ UNCHANGED at
  <2>1. TypeOK'
    BY <1>1, <1>8 DEF TypeOK, Goto
  <2> QED
    BY <1>1, <1>8, <2>1, SameOnDisk, WhileRunning
       DEF BlockmapInv, Placing, GivenUp, Outcome, Goto
<1>9. CASE /\ Earlier(at) = {} /\ ~PastLimit
           /\ result' = [result EXCEPT ![4 + map[at]] = Len(result) % (2 * Half)]
                          \o blocks[map[at]]
           /\ at' = at + 1 /\ UNCHANGED pc
  <2>1. Extended(k) /\ Placed(k)' /\ Apart(k)'
    BY <1>1, <1>2, <1>4, <1>5, <1>9, AppendedIsPlaced
  <2> QED
    BY <1>6, <1>9, <2>1
<1> QED
  BY <1>7, <1>8, <1>9 DEF PlaceBlock

LEMMA PlacesStay ==
  ASSUME UNCHANGED <<lump, cmd, blocks, map, result>>, NEW n,
         Begun, Placed(n), Apart(n)
  PROVE  Begun' /\ Placed(n)' /\ Apart(n)'
<1>1. \A k : /\ Earlier(k)' = Earlier(k) /\ First(k)' = First(k)
             /\ PlaceOf(k)' = PlaceOf(k) /\ ListOf(k)' = ListOf(k)
             /\ SpanOf(k)' = SpanOf(k)
  BY DEF Earlier, Matches, First, PlaceOf, OffsetOf, ListOf, SpanOf
<1>2. \A k : Settled(k) => Settled(k)'
  BY <1>1 DEF Settled, Appended, Lies, SharedOffset, OffsetOf, BlockmapLimit
<1>3. Begun'
  BY DEF Begun, HasEnds
<1> QED
  BY <1>1, <1>2, <1>3 DEF Placed, Apart

LEMMA RebuiltStays ==
  ASSUME UNCHANGED <<lump, cmd, blocks, map, result>>, success',
         Begun, Placed(Len(blocks)), Apart(Len(blocks))
  PROVE  Rebuilt'
<1>1. PICK n : n = Len(blocks)
  OBVIOUS
<1>2. Begun' /\ Placed(n)' /\ Apart(n)'
  BY <1>1, PlacesStay
<1>3. Len(blocks') = n
  BY <1>1
<1> QED
  BY <1>2, <1>3 DEF Rebuilt, Placed, Apart

LEMMA FinishKeeps == ASSUME BlockmapInv, Finish PROVE BlockmapInv'
<1>1. UNCHANGED <<lump, cmd, blocks, map, at, lists, past, trail>>
  <2>1. UNCHANGED <<lump, cmd, blocks, map, at>> /\ UNCHANGED history
    BY DEF Finish
  <2>2. UNCHANGED <<lists, past, trail>>
    BY <2>1 DEF history
  <2> QED
    BY <2>1, <2>2
<1>0. pc = "finish" \/ (pc = "place" /\ at = Len(map) + 1)
  BY DEF Finish
<1>2. CASE Keep(FALSE)
  BY <1>1, <1>2, KeepKeeps
<1>3. CASE Worse /\ Keep(TRUE)
  BY <1>1, <1>3, KeepKeeps DEF Worse
<1>4. CASE result # <<>> /\ success' = TRUE /\ Goto("write") /\ UNCHANGED result
  <2>1. pc = "place" /\ at = Len(map) + 1
    BY <1>0, <1>4 DEF BlockmapInv, GivenUp
  <2>2. TypeOK /\ Begun /\ Placed(at - 1) /\ Apart(at - 1)
    BY <2>1 DEF BlockmapInv, Placing
  <2>3. at - 1 = Len(blocks) /\ Len(blocks) \in Nat
    BY <2>1, <2>2, Beginnings
  <2>4. /\ Placed(Len(blocks)) /\ Apart(Len(blocks))
    BY <2>2, <2>3
  <2>6. Rebuilt' /\ pc' = "write"
    BY <1>1, <1>4, <2>2, <2>4, RebuiltStays DEF Goto
  <2>7. TypeOK'
    BY <1>1, <1>4, <2>2, <2>6 DEF TypeOK
  <2> QED
    BY <1>1, <2>6, <2>7, SameOnDisk, WhileRunning
       DEF BlockmapInv, Placing, GivenUp, Outcome
<1> QED
  BY <1>2, <1>3, <1>4 DEF Finish

LEMMA UnstackedIs ==
  FullyUnstacked <=> (Ended("unstack") => Unstacked(lump))
BY DEF FullyUnstacked, Unstacked

LEMMA WriteKeeps == ASSUME BlockmapInv, Write PROVE BlockmapInv'
<1>1. /\ pc = "write" /\ pc' = "idle" /\ lump' = result
      /\ past' = Append(past, cmd) /\ trail' = Append(trail, result)
      /\ UNCHANGED <<cmd, blocks, map, at, result, success, lists>>
      /\ TypeOK /\ OnDisk /\ Sound /\ Outcome
  BY DEF Write, Goto, local, BlockmapInv
<1>2. /\ past \in Seq(Commands) /\ trail \in Seq(Seq(Word)) /\ cmd \in Commands
      /\ result \in Seq(Word)
  BY <1>1 DEF TypeOK
<1>3. /\ past' \in Seq(Commands) /\ trail' \in Seq(Seq(Word))
      /\ Len(past') = Len(past) + 1 /\ Len(trail') = Len(trail) + 1
      /\ trail'[Len(trail')] = result /\ past'[Len(past')] = cmd
      /\ Len(past) \in Nat /\ Len(trail) \in Nat
  BY <1>1, <1>2
<1>4. TypeOK'
  BY <1>1, <1>2, <1>3 DEF TypeOK
<1>5. OnDisk'
  BY <1>1, <1>3 DEF OnDisk, was
<1>6. Sound'
  <2>1. Rebuilt => HasEnds(result)
    BY <1>1, RebuiltHasEnds DEF Rebuilt
  <2>2. result = lump /\ IsValidBlockmap(result) => HasEnds(result)
    BY <1>1 DEF Sound
  <2>3. IsValidBlockmap(result) => HasEnds(result)
    BY <1>1, <2>1, <2>2 DEF Outcome
  <2> QED
    BY <1>1, <2>3 DEF Sound, HasEnds
<1>7. FullyUnstacked'
  <2>1. SUFFICES ASSUME Ended("unstack")' PROVE Unstacked(result)
    BY <1>1, UnstackedIs DEF Unstacked, FullyUnstacked
  <2>2. success /\ IsValidBlockmap(result) /\ cmd.op = "unstack"
    BY <1>1, <1>3, <2>1 DEF Ended, Last
  <2>3. Rebuilt
    BY <1>1, <2>2 DEF Outcome
  <2> QED
    BY <1>1, <2>2, <2>3, RebuiltIsUnstacked DEF Rebuilt
<1> QED
  BY <1>1, <1>4, <1>5, <1>6, <1>7 DEF BlockmapInv, Placing, GivenUp, Outcome

LEMMA NextKeeps == BlockmapInv /\ [Next]_vars => BlockmapInv'
<1> SUFFICES ASSUME BlockmapInv, [Next]_vars PROVE BlockmapInv'
  OBVIOUS
<1>1. CASE UNCHANGED vars
  <2>1. /\ UNCHANGED <<lump, pc, cmd, blocks, map, at, result, success>>
        /\ UNCHANGED <<lists, past, trail>>
    BY <1>1 DEF vars, local, history
  <2>2. TypeOK' /\ OnDisk' /\ Sound' /\ GivenUp' /\ FullyUnstacked'
    BY <2>1 DEF BlockmapInv, TypeOK, OnDisk, Sound, was, GivenUp, HasEnds,
       FullyUnstacked, Ended, Last
  <2>5. Placing'
    <3>1. PICK n : n = at - 1
      OBVIOUS
    <3> QED
      BY <2>1, <3>1, PlacesStay DEF BlockmapInv, Placing
  <2>6. Outcome'
    BY <2>1, RebuiltStays DEF BlockmapInv, Outcome, Rebuilt
  <2> QED
    BY <2>2, <2>5, <2>6 DEF BlockmapInv
<1> QED
  BY <1>1, StartKeeps, CheckKeeps, PlaceBlockKeeps, FinishKeeps, WriteKeeps
     DEF Next, Done

-----------------------------------------------------------------------------
(* The theorems *)

\* The invariant, with the sorted map and each list placed so far: the whole
\* of what B_Stack() and B_Unstack() do to a lump, in run after run.
THEOREM BlockmapInvariance == ASSUME EndsFound PROVE Spec => []BlockmapInv
<1>1. Init => BlockmapInv
  BY InitInv
<1>2. BlockmapInv /\ [Next]_vars => BlockmapInv'
  BY NextKeeps
<1> QED
  BY <1>1, <1>2, PTL DEF Spec

\* Everything stays of its type: no offset or line is more than a word.
THEOREM BlockmapTypeOK == ASSUME EndsFound PROVE Spec => []TypeOK
<1>1. BlockmapInv => TypeOK
  BY DEF BlockmapInv
<1> QED
  BY <1>1, BlockmapInvariance, PTL

\* Unstacking gives each block a list of its own, with nothing between the
\* lists and nothing after them, whatever runs came before.
THEOREM BlocksUnstacked == ASSUME EndsFound PROVE Spec => []FullyUnstacked
<1>1. BlockmapInv => FullyUnstacked
  BY DEF BlockmapInv
<1> QED
  BY <1>1, BlockmapInvariance, PTL

-----------------------------------------------------------------------------
(* Lists that are found where they should be *)

\* Where the list of the k-th block ends the one it is found in, before that
\* is made a word.
SharedAt(k) == PlaceOf(First(k)) + Len(ListOf(First(k))) - Len(ListOf(k))

\* An offset can reach each list that is found in another.  The program only
\* looks at where a list that it appends begins.
SharedFits ==
  pc = "place" /\ at \in DOMAIN map /\ Earlier(at) # {} => SharedAt(at) < 2 * Half

\* Each of the first n blocks of the map has its own list at its offset.
Lying(n) ==
  \A k \in 1 .. n :
    PlaceOf(k) >= 4 + Len(blocks) /\ Lies(result, PlaceOf(k), ListOf(k))

LEMMA OneMoreLies ==
  ASSUME TypeOK, Begun, NEW k \in 1 .. Len(blocks), Extended(k), Lying(k - 1),
         PlaceOf(k)' >= 4 + Len(blocks'), Lies(result', PlaceOf(k)', ListOf(k)')
  PROVE  Lying(k)'
<1>1. Len(blocks) \in Nat /\ k \in Nat
  BY Beginnings
<1>2. ASSUME NEW j \in 1 .. k - 1
      PROVE  /\ PlaceOf(j)' >= 4 + Len(blocks')
             /\ Lies(result', PlaceOf(j)', ListOf(j)')
  <2>1. j \in 1 .. Len(blocks) /\ j # k
    BY <1>1
  <2>2. PlaceOf(j)' = PlaceOf(j) /\ ListOf(j)' = ListOf(j) /\ blocks' = blocks
    BY <2>1, OthersStay DEF Extended
  <2>3. PICK b \in 1 .. Len(blocks) : b = map[j]
    BY <2>1, Beginnings
  <2>4. PICK o \in Nat : o = PlaceOf(j)
    BY <2>1, Beginnings
  <2>5. o >= 4 + Len(blocks) /\ Lies(result, o, blocks[b])
    BY <2>3, <2>4 DEF Lying, ListOf
  <2>6. Lies(result', o, blocks[b])
    BY <2>5, OthersStay
  <2> QED
    BY <2>2, <2>3, <2>4, <2>5, <2>6 DEF ListOf
<1>3. \A j \in 1 .. k : j \in 1 .. k - 1 \/ j = k
  BY <1>1
<1> QED
  BY <1>2, <1>3 DEF Lying

\* The end of the first list is the list that was looked for.
LEMMA SharedLies ==
  ASSUME TypeOK, Begun, NEW k \in 1 .. Len(blocks), Earlier(k) # {}, Placed(k - 1),
         SharedAt(k) < 2 * Half,
         UNCHANGED <<lump, cmd, blocks, map>>,
         result' = [result EXCEPT
                      ![4 + map[k]] = SharedOffset(map[k], map[First(k)])]
  PROVE  /\ PlaceOf(k)' = SharedAt(k) /\ PlaceOf(k)' >= 4 + Len(blocks')
         /\ Lies(result', PlaceOf(k)', ListOf(k)')
<1>1. Extended(k) /\ Placed(k)'
  BY SharedIsPlaced
<1>2. Len(blocks) \in Nat /\ k \in Nat
  BY Beginnings
<1>3. PICK f \in 1 .. k - 1 : f = First(k)
  BY FirstWasAppended
<1>4. /\ f \in 1 .. Len(blocks) /\ f # k /\ Earlier(f) = {}
      /\ Len(ListOf(k)) <= Len(ListOf(f))
      /\ \A i \in 1 .. Len(ListOf(k)) :
           ListOf(k)[i] = ListOf(f)[Len(ListOf(f)) - Len(ListOf(k)) + i]
  BY <1>2, <1>3, FirstWasAppended, SMTT(60)
<1>5. PICK p \in Nat, m \in Nat, n \in Nat :
        p = PlaceOf(f) /\ m = Len(ListOf(f)) /\ n = Len(ListOf(k))
  BY <1>4, Beginnings, ListsPlaced
<1>6. p >= 4 + Len(blocks) /\ Lies(result, p, ListOf(f))
  BY <1>3, <1>4, <1>5 DEF Placed, Settled, Appended
<1>7. PICK b \in 1 .. Len(blocks) : b = map[f]
  BY <1>4, Beginnings
<1>8. Lies(result', p, ListOf(f))
  BY <1>1, <1>6, <1>7, OthersStay DEF ListOf
<1>9. PICK x \in Nat : x = p + m - n
  BY <1>4, <1>5
<1>10. x = SharedAt(k) /\ x < 2 * Half /\ x >= p
  BY <1>3, <1>4, <1>5, <1>9 DEF SharedAt
<1>11. /\ Earlier(k)' = Earlier(k) /\ First(k)' = First(k) /\ ListOf(k)' = ListOf(k)
       /\ PlaceOf(f)' = PlaceOf(f) /\ UNCHANGED <<blocks, map>>
  BY <1>1, <1>4, OthersStay DEF Extended
<1>12. PlaceOf(k)' = x
  <2>1. k \in 1 .. k
    BY <1>2
  <2>2. PlaceOf(k)' = SharedOffset(map[k], map[First(k)])'
    BY <1>1, <1>11, <2>1 DEF Placed, Settled
  <2>3. OffsetOf(result', map[f]) = p
    BY <1>5, <1>11 DEF PlaceOf
  <2>4. SharedOffset(map[k], map[First(k)])' = (p + m - n) % (2 * Half)
    BY <1>3, <1>5, <1>11, <2>3 DEF SharedOffset, ListOf
  <2> QED
    BY <1>9, <1>10, <2>2, <2>4, Words
<1>13. Lies(result', x, ListOf(k))
  <2>1. p + m <= Len(result') /\ \A i \in 1 .. m : result'[p + i] = ListOf(f)[i]
    BY <1>5, <1>8 DEF Lies
  <2>2. x + n <= Len(result')
    BY <1>9, <2>1
  <2>3. ASSUME NEW i \in 1 .. n PROVE result'[x + i] = ListOf(k)[i]
    <3>1. PICK h \in 1 .. m : h = m - n + i
      <4>1. n <= m /\ m \in Nat /\ n \in Nat /\ i \in 1 .. n
        BY <1>4, <1>5
      <4>2. m - n + i \in 1 .. m
        BY <4>1
      <4> QED
        BY <4>2
    <3>2. p + h = x + i
      BY <1>9, <3>1
    <3>3. result'[p + h] = ListOf(f)[h] /\ ListOf(k)[i] = ListOf(f)[h]
      BY <1>4, <1>5, <2>1, <3>1
    <3> QED
      BY <3>2, <3>3
  <2> QED
    BY <1>5, <2>2, <2>3 DEF Lies
<1> QED
  BY <1>6, <1>10, <1>11, <1>12, <1>13

LEMMA AppendedLies ==
  ASSUME TypeOK, Begun, NEW k \in 1 .. Len(blocks), Earlier(k) = {}, Placed(k - 1),
         Apart(k - 1), ~PastLimit,
         UNCHANGED <<lump, cmd, blocks, map>>,
         result' = [result EXCEPT ![4 + map[k]] = Len(result) % (2 * Half)]
                     \o blocks[map[k]]
  PROVE  /\ PlaceOf(k)' >= 4 + Len(blocks') /\ PlaceOf(k)' <= BlockmapLimit'
         /\ Lies(result', PlaceOf(k)', ListOf(k)')
<1>1. Extended(k) /\ Placed(k)'
  BY AppendedIsPlaced
<1>2. k \in 1 .. k
  BY Beginnings
<1>3. Earlier(k)' = {}
  BY <1>1, OthersStay
<1> QED
  BY <1>1, <1>2, <1>3 DEF Placed, Settled, Appended

LEMMA RebuiltLists ==
  ASSUME TypeOK, Begun, Lying(Len(blocks))
  PROVE  /\ MakeBlocklist(result) = MakeBlocklist(lump)
         /\ \A b \in 1 .. Len(blocks) :
              ListAt(result, OffsetOf(result, b)) = blocks[b]
<1>1. PICK n \in Nat : n = Len(blocks)
  BY Beginnings
<1>2. NumBlocks(result) = n /\ NumBlocks(lump) = n
  BY <1>1, HeaderKept, Beginnings
<1>3. ASSUME NEW b \in 1 .. n
      PROVE  /\ ListAt(result, OffsetOf(result, b)) = blocks[b]
             /\ ListAt(lump, OffsetOf(lump, b)) = blocks[b]
  <2>1. PICK k \in 1 .. Len(blocks) :
          map[k] = b /\ PlaceOf(k) = OffsetOf(result, b) /\ ListOf(k) = blocks[b]
    BY <1>1, EveryBlockHasPlace
  <2>2. Lies(result, PlaceOf(k), ListOf(k))
    BY DEF Lying
  <2>3. ListAt(result, PlaceOf(k)) = ListOf(k)
    BY <2>2, LiesIsRead
  <2>4. blocks[b] = ListAt(lump, OffsetOf(lump, b))
    BY <1>1, Beginnings
  <2> QED
    BY <2>1, <2>3, <2>4
<1>4. MakeBlocklist(result) = MakeBlocklist(lump)
  BY <1>2, <1>3 DEF MakeBlocklist
<1> QED
  BY <1>1, <1>3, <1>4

\* Blocks with the same list get the same offset, from whichever block is
\* the first one their list is found in.
LEMMA SameListSamePlace ==
  ASSUME TypeOK, Begun, Placed(Len(blocks)), cmd.op = "stack",
         NEW j \in 1 .. Len(blocks), NEW k \in 1 .. Len(blocks), j < k,
         ListOf(j) = ListOf(k)
  PROVE  PlaceOf(j) = PlaceOf(k)
<1>1. \A h \in 1 .. Len(blocks) :
        Earlier(h) = {i \in 1 .. h - 1 : IsSuffix(ListOf(h), ListOf(i))}
  BY DEF Earlier, Matches, ListOf
<1>2. Len(blocks) \in Nat /\ \A h \in 1 .. Len(blocks) : ListOf(h) \in Seq(Word)
  BY Beginnings DEF ListOf
<1>3. PICK l \in Seq(Word), n \in Nat : l = ListOf(k) /\ l = ListOf(j) /\ n = Len(l)
  <2>1. ListOf(k) \in Seq(Word)
    BY <1>2
  <2>2. Len(ListOf(k)) \in Nat
    BY <2>1
  <2> QED
    BY <2>1, <2>2
<1>4. IsSuffix(l, l)
  BY <1>3, SuffixMeans
<1>5. j \in Earlier(k)
  BY <1>1, <1>2, <1>3, <1>4
<1>6. Earlier(j) = {i \in Earlier(k) : i < j}
  BY <1>1, <1>2, <1>3
<1>7. /\ First(k) \in Earlier(k) /\ First(k) \in 1 .. k - 1
      /\ \A i \in Earlier(k) : First(k) <= i
  BY <1>5, FirstWasAppended
<1>8. PICK f \in 1 .. Len(blocks) : f = First(k)
  BY <1>2, <1>7
<1>9. PlaceOf(k) = SharedOffset(map[k], map[First(k)])
  BY <1>5 DEF Placed, Settled
<1>10. CASE Earlier(j) = {}
  <2>1. f = j
    BY <1>5, <1>6, <1>7, <1>8, <1>10
  <2>2. PICK p \in Word : p = PlaceOf(j)
    BY Beginnings
  <2>3. SharedOffset(map[k], map[First(k)]) = (p + n - n) % (2 * Half)
    BY <1>3, <1>8, <2>1, <2>2 DEF SharedOffset, PlaceOf, ListOf
  <2>4. p \in Nat /\ p < 2 * Half /\ p + n - n = p
    <3>1. p \in Nat /\ p < 2 * Half
      BY Words
    <3>2. p + n - n = p
      BY <3>1
    <3> QED
      BY <3>1, <3>2
  <2>5. (p + n - n) % (2 * Half) = p
    BY <2>4, Words
  <2> QED
    BY <1>9, <2>2, <2>3, <2>5
<1>11. CASE Earlier(j) # {}
  <2>1. First(j) \in Earlier(j) /\ \A i \in Earlier(j) : First(j) <= i
    BY <1>11, FirstWasAppended
  <2>2. First(j) = First(k)
    <3>1. First(j) \in Earlier(k) /\ First(j) < j
      BY <1>6, <2>1
    <3>2. First(j) \in Nat /\ First(k) \in Nat /\ j \in Nat
      BY <1>2, <1>6, <1>7, <1>11, FirstWasAppended
    <3>3. First(k) <= First(j)
      BY <1>7, <3>1
    <3>4. First(k) \in Earlier(j)
      BY <1>6, <1>7, <3>1, <3>2, <3>3
    <3>5. First(j) <= First(k)
      BY <2>1, <3>4
    <3> QED
      BY <3>2, <3>3, <3>5
  <2>3. PlaceOf(j) = SharedOffset(map[j], map[First(j)])
    BY <1>11 DEF Placed, Settled
  <2>4. SharedOffset(map[j], map[First(j)]) = SharedOffset(map[k], map[First(k)])
    <3>1. Len(blocks[map[j]]) = Len(blocks[map[k]])
      BY <1>3 DEF ListOf
    <3> QED
      BY <2>2, <3>1 DEF SharedOffset
  <2> QED
    BY <1>9, <2>3, <2>4
<1> QED
  BY <1>10, <1>11

Stacked(e) ==
  \A a, b \in 1 .. NumBlocks(e) :
    ListAt(e, OffsetOf(e, a)) = ListAt(e, OffsetOf(e, b))
      => OffsetOf(e, a) = OffsetOf(e, b)

LEMMA RebuiltIsStacked ==
  ASSUME TypeOK, Begun, Placed(Len(blocks)), Lying(Len(blocks)), cmd.op = "stack"
  PROVE  Stacked(result)
<1> SUFFICES ASSUME NEW a \in 1 .. Len(blocks), NEW b \in 1 .. Len(blocks),
                    blocks[a] = blocks[b]
             PROVE  OffsetOf(result, a) = OffsetOf(result, b)
  BY HeaderKept, RebuiltLists DEF Stacked
<1>1. PICK j \in 1 .. Len(blocks) :
        map[j] = a /\ PlaceOf(j) = OffsetOf(result, a) /\ ListOf(j) = blocks[a]
  BY EveryBlockHasPlace
<1>2. PICK k \in 1 .. Len(blocks) :
        map[k] = b /\ PlaceOf(k) = OffsetOf(result, b) /\ ListOf(k) = blocks[b]
  BY EveryBlockHasPlace
<1>3. ListOf(j) = ListOf(k)
  BY <1>1, <1>2
<1>4. j < k \/ j = k \/ k < j
  BY Beginnings
<1>5. PlaceOf(j) = PlaceOf(k)
  BY <1>3, <1>4, SameListSamePlace
<1> QED
  BY <1>1, <1>2, <1>5

Lain == pc = "place" => Lying(at - 1)

\* The lump is rewritten with its lists or not at all.
Whole == pc = "write" => result = lump \/ (Rebuilt /\ Lying(Len(blocks)))

StackInv == Lain /\ Whole /\ FullyStacked

LEMMA StackedIs ==
  FullyStacked <=> (Ended("stack") => lump = trail[Len(trail) - 1] \/ Stacked(lump))
BY DEF FullyStacked, Stacked

LEMMA LiesStill ==
  ASSUME UNCHANGED <<cmd, blocks, map, result>>, NEW n, Lying(n)
  PROVE  Lying(n)'
<1>1. \A k : PlaceOf(k)' = PlaceOf(k) /\ ListOf(k)' = ListOf(k)
  BY DEF PlaceOf, OffsetOf, ListOf
<1> QED
  BY <1>1 DEF Lying, Lies

LEMMA PlaceLies ==
  ASSUME BlockmapInv, SharedFits, Lain, PlaceBlock
  PROVE  Lain'
<1>1. /\ pc = "place" /\ at \in DOMAIN map
      /\ UNCHANGED <<lump, cmd, blocks, map, success>>
      /\ TypeOK /\ Begun /\ Placed(at - 1) /\ Apart(at - 1) /\ Lying(at - 1)
  BY DEF PlaceBlock, BlockmapInv, Placing, Lain
<1>2. Len(blocks) \in Nat /\ DOMAIN map = 1 .. Len(blocks)
  BY <1>1, Beginnings
<1>3. PICK k \in 1 .. Len(blocks) : k = at
  BY <1>1, <1>2
<1>4. Placed(k - 1) /\ Apart(k - 1) /\ Lying(k - 1)
  BY <1>1, <1>3
<1>5. ASSUME Lying(k)', at' = at + 1 PROVE Lain'
  <2>1. at' - 1 = k
    BY <1>2, <1>3, <1>5
  <2> QED
    BY <1>5, <2>1 DEF Lain, Lying
<1>6. CASE /\ Earlier(at) # {}
           /\ LET first == CHOOSE j \in Earlier(at) : \A i \in Earlier(at) : j <= i
              IN result' = [result EXCEPT
                              ![4 + map[at]] = SharedOffset(map[at], map[first])]
           /\ at' = at + 1
  <2>1. result' = [result EXCEPT
                     ![4 + map[k]] = SharedOffset(map[k], map[First(k)])]
    BY <1>3, <1>6 DEF First
  <2>2. SharedAt(k) < 2 * Half /\ Earlier(k) # {}
    BY <1>1, <1>3, <1>6 DEF SharedFits
  <2>3. Extended(k)
    BY <1>1, <1>4, <2>1, <2>2, SharedIsPlaced
  <2>4. PlaceOf(k)' >= 4 + Len(blocks') /\ Lies(result', PlaceOf(k)', ListOf(k)')
    BY <1>1, <1>4, <2>1, <2>2, SharedLies
  <2>5. Lying(k)'
    BY <1>1, <1>4, <2>3, <2>4, OneMoreLies
  <2> QED
    BY <1>5, <1>6, <2>5
<1>7. CASE pc' = "finish"
  BY <1>7 DEF Lain
<1>8. CASE /\ Earlier(at) = {} /\ ~PastLimit
           /\ result' = [result EXCEPT ![4 + map[at]] = Len(result) % (2 * Half)]
                          \o blocks[map[at]]
           /\ at' = at + 1
  <2>1. Extended(k)
    BY <1>1, <1>3, <1>4, <1>8, AppendedIsPlaced
  <2>2. PlaceOf(k)' >= 4 + Len(blocks') /\ Lies(result', PlaceOf(k)', ListOf(k)')
    BY <1>1, <1>3, <1>4, <1>8, AppendedLies
  <2>3. Lying(k)'
    BY <1>1, <1>4, <2>1, <2>2, OneMoreLies
  <2> QED
    BY <1>5, <1>8, <2>3
<1> QED
  BY <1>6, <1>7, <1>8 DEF PlaceBlock, Goto

LEMMA StackedNext ==
  ASSUME BlockmapInv, SharedFits, StackInv, [Next]_vars
  PROVE  StackInv'
<1>1. CASE UNCHANGED vars
  <2>1. /\ UNCHANGED <<lump, pc, cmd, blocks, map, at, result, success>>
        /\ UNCHANGED <<lists, past, trail>>
    BY <1>1 DEF vars, local, history
  <2>2. Lain'
    <3>1. PICK n : n = at - 1
      OBVIOUS
    <3> QED
      BY <2>1, <3>1, LiesStill DEF StackInv, Lain
  <2>3. Whole'
    <3>1. PICK n : n = Len(blocks)
      OBVIOUS
    <3> QED
      BY <2>1, <3>1, LiesStill, RebuiltStays DEF StackInv, Whole, Rebuilt
  <2>4. FullyStacked'
    BY <2>1 DEF StackInv, FullyStacked, Ended, Last
  <2> QED
    BY <2>2, <2>3, <2>4 DEF StackInv
<1>2. pc' # "idle" => FullyStacked'
  BY DEF FullyStacked, Ended
<1>3. ASSUME NEW c \in Commands, Start(c) PROVE StackInv'
  BY <1>2, <1>3 DEF Start, Goto, StackInv, Lain, Whole
<1>4. CASE Check
  <2>1. CASE pc' = "write" /\ result' = lump /\ UNCHANGED lump
    BY <1>2, <2>1 DEF StackInv, Lain, Whole
  <2>2. CASE pc' = "place" /\ at' = 1
    <3>1. at' - 1 = 0 /\ 1 .. 0 = {}
      BY <2>2
    <3>2. Lain'
      BY <3>1 DEF Lain, Lying
    <3> QED
      BY <1>2, <2>2, <3>2 DEF StackInv, Whole
  <2> QED
    BY <1>4, <2>1, <2>2 DEF Check, Keep, Goto
<1>5. CASE PlaceBlock
  <2>1. Lain'
    BY <1>5, PlaceLies DEF StackInv
  <2>2. pc' \in {"place", "finish"}
    BY <1>5 DEF PlaceBlock, Goto
  <2> QED
    BY <1>2, <2>1, <2>2 DEF StackInv, Whole
<1>6. CASE Finish
  <2>1. pc' = "write" /\ UNCHANGED <<lump, cmd, blocks, map, at>>
    BY <1>6 DEF Finish, Keep, Goto
  <2>2. CASE result' = lump
    BY <1>2, <2>1, <2>2 DEF StackInv, Lain, Whole
  <2>3. CASE result # <<>> /\ success' = TRUE /\ UNCHANGED result
    <3>1. pc = "place" /\ at = Len(map) + 1
      BY <1>6, <2>3 DEF Finish, BlockmapInv, GivenUp
    <3>2. TypeOK /\ Begun /\ Placed(at - 1) /\ Apart(at - 1) /\ Lying(at - 1)
      BY <3>1 DEF BlockmapInv, Placing, StackInv, Lain
    <3>3. at - 1 = Len(blocks) /\ Len(blocks) \in Nat
      BY <3>1, <3>2, Beginnings
    <3>4. PICK n : n = Len(blocks)
      OBVIOUS
    <3>5. Lying(n)' /\ Len(blocks)' = n
      BY <2>1, <2>3, <3>2, <3>3, <3>4, LiesStill
    <3>6. Rebuilt'
      BY <2>1, <2>3, <3>2, <3>3, RebuiltStays
    <3>7. Whole'
      BY <3>5, <3>6 DEF Whole, Lying
    <3> QED
      BY <1>2, <2>1, <3>7 DEF StackInv, Lain
  <2> QED
    BY <1>6, <2>2, <2>3 DEF Finish, Keep
<1>7. CASE Write
  <2>1. /\ pc = "write" /\ pc' = "idle" /\ lump' = result
        /\ past' = Append(past, cmd) /\ trail' = Append(trail, result)
        /\ UNCHANGED <<cmd, success>>
        /\ TypeOK /\ OnDisk
    BY <1>7 DEF Write, Goto, local, BlockmapInv
  <2>2. past \in Seq(Commands) /\ trail \in Seq(Seq(Word)) /\ cmd \in Commands
    BY <2>1 DEF TypeOK
  <2>3. /\ Len(trail') - 1 = Len(trail) /\ past'[Len(past')] = cmd
        /\ Len(trail) \in 1 .. Len(trail) /\ Len(trail) \in Nat
    BY <2>1, <2>2 DEF OnDisk
  <2>4. trail'[Len(trail') - 1] = lump
    BY <2>1, <2>2, <2>3 DEF OnDisk, was
  <2>5. ASSUME Ended("stack")', lump' # lump PROVE Stacked(lump')
    <3>1. cmd.op = "stack"
      BY <2>1, <2>3, <2>5 DEF Ended, Last
    <3>2. Rebuilt /\ Lying(Len(blocks))
      BY <2>1, <2>5 DEF StackInv, Whole
    <3> QED
      BY <2>1, <3>1, <3>2, RebuiltIsStacked DEF Rebuilt
  <2>6. FullyStacked'
    BY <2>4, <2>5 DEF FullyStacked, Stacked
  <2> QED
    BY <2>1, <2>6 DEF StackInv, Lain, Whole
<1> QED
  BY <1>1, <1>3, <1>4, <1>5, <1>6, <1>7 DEF Next, Done

LEMMA StackedFirst == Init => StackInv
BY DEF Init, StackInv, Lain, Whole, FullyStacked, Ended

\* While offsets can reach what is shared, every list that has been placed is
\* at its block's offset, and a lump is written with all of them or as it was.
THEOREM StackInvariance ==
  ASSUME EndsFound PROVE Spec /\ []SharedFits => []StackInv
<1>1. Init => StackInv
  BY StackedFirst
<1>2. BlockmapInv /\ SharedFits /\ StackInv /\ [Next]_vars => StackInv'
  BY StackedNext
<1> QED
  BY <1>1, <1>2, BlockmapInvariance, PTL DEF Spec

\* Stacking is complete: after it, blocks with the same list share it, unless
\* the lump was left as it was.
THEOREM BlocksStacked ==
  ASSUME EndsFound PROVE Spec /\ []SharedFits => []FullyStacked
<1>1. StackInv => FullyStacked
  BY DEF StackInv
<1> QED
  BY <1>1, StackInvariance, PTL

-----------------------------------------------------------------------------
(* The lists the node builder meant *)

ListsMeant ==
  IsValidBlockmap(trail[1]) /\ ~IsOverflowedBlockmap(trail[1])
    => MakeBlocklist(trail[1]) = lists

\* KeepsLists, and while the program runs too.
StillMeant ==
  \/ lump = trail[1]
  \/ MakeBlocklist(lump) = lists
  \/ /\ IsOverflowedBlockmap(trail[1])
     /\ \E i \in DOMAIN past : past[i].op = "unstack"

MeantInv == ListsMeant /\ StillMeant

LEMMA MeantFirst == ASSUME Meant PROVE Init => MeantInv
<1> SUFFICES ASSUME Init PROVE MeantInv
  OBVIOUS
<1>1. PICK l \in Lumps : lump = l.elements /\ lists = l.lists
  BY DEF Init
<1>2. trail[1] = lump
  BY DEF Init
<1> QED
  BY <1>1, <1>2 DEF Meant, MeantInv, ListsMeant, StillMeant

LEMMA MeantNext ==
  ASSUME BlockmapInv, StackInv, MeantInv, [Next]_vars
  PROVE  MeantInv'
<1>1. CASE UNCHANGED <<lump, lists, past, trail>>
  BY <1>1 DEF MeantInv, ListsMeant, StillMeant
<1>2. CASE Write
  <2>1. /\ pc = "write" /\ lump' = result
        /\ past' = Append(past, cmd) /\ trail' = Append(trail, result)
        /\ UNCHANGED lists /\ TypeOK /\ OnDisk
    BY <1>2 DEF Write, BlockmapInv
  <2>2. past \in Seq(Commands) /\ trail \in Seq(Seq(Word)) /\ cmd \in Commands
        /\ result \in Seq(Word)
    BY <2>1 DEF TypeOK
  <2>3. /\ trail'[1] = trail[1] /\ Len(past') \in DOMAIN past'
        /\ past'[Len(past')] = cmd
        /\ \A i \in DOMAIN past : i \in DOMAIN past' /\ past'[i] = past[i]
    BY <2>1, <2>2 DEF OnDisk
  <2>4. CASE result = lump
    BY <2>1, <2>3, <2>4 DEF MeantInv, ListsMeant, StillMeant
  <2>5. CASE Rebuilt /\ Lying(Len(blocks))
    <3>1. MakeBlocklist(result) = MakeBlocklist(lump)
      BY <2>1, <2>5, RebuiltLists DEF Rebuilt
    <3>2. /\ IsValidBlockmap(lump)
          /\ cmd.op = "stack" => ~IsOverflowedBlockmap(lump)
      BY <2>5 DEF Rebuilt, Begun
    <3>3. cmd.op = "stack" \/ cmd.op = "unstack"
      BY <2>2, CommandsAssumption
    <3>4. StillMeant'
      BY <2>1, <2>3, <3>1, <3>2, <3>3 DEF MeantInv, ListsMeant, StillMeant
    <3> QED
      BY <2>1, <2>3, <3>4 DEF MeantInv, ListsMeant
  <2> QED
    BY <2>1, <2>4, <2>5 DEF StackInv, Whole
<1>3. Next => Write \/ UNCHANGED <<lump, lists, past, trail>>
  <2>1. UNCHANGED history => UNCHANGED <<lists, past, trail>>
    BY DEF history
  <2>2. UNCHANGED vars => UNCHANGED <<lump, lists, past, trail>>
    BY <2>1 DEF vars
  <2> QED
    BY <2>1, <2>2 DEF Next, Start, Check, PlaceBlock, Finish, Done
<1>4. UNCHANGED vars => UNCHANGED <<lump, lists, past, trail>>
  BY DEF vars, history
<1> QED
  BY <1>1, <1>2, <1>3, <1>4

\* Every block keeps the list of lines the node builder meant it to have,
\* through any sequence of runs, as long as offsets can reach what is shared.
THEOREM BlockListsKept ==
  ASSUME EndsFound, Meant PROVE Spec /\ []SharedFits => []KeepsLists
<1>1. Init => MeantInv
  BY MeantFirst
<1>2. BlockmapInv /\ StackInv /\ MeantInv /\ [Next]_vars => MeantInv'
  BY MeantNext
<1>3. MeantInv => KeepsLists
  BY DEF MeantInv, StillMeant, KeepsLists
<1> QED
  BY <1>1, <1>2, <1>3, BlockmapInvariance, StackInvariance, PTL DEF Spec

-----------------------------------------------------------------------------
(* Signed offsets *)

\* Without -extblocks, signed offsets can reach what is shared.
SharedSigned ==
  pc = "place" /\ at \in DOMAIN map /\ Earlier(at) # {} /\ ~cmd.extblocks
    => SharedAt(at) <= VANILLA_MAX_BLOCKMAP_OFFSET

Near(n) ==
  ~cmd.extblocks => \A k \in 1 .. n : PlaceOf(k) <= VANILLA_MAX_BLOCKMAP_OFFSET

Signed(e) == \A o \in Offsets(e) : o <= VANILLA_MAX_BLOCKMAP_OFFSET

\* The lump that is written is the one there was, or has near offsets.
NearInv ==
  /\ pc = "place" => Near(at - 1)
  /\ pc = "write" => result = lump \/ (Rebuilt /\ Near(Len(blocks)))
  /\ IsValidBlockmap(lump) /\ (\A i \in DOMAIN past : ~past[i].extblocks)
       => (Signed(trail[1]) => Signed(lump))

LEMMA SharedIsNear ==
  ASSUME TypeOK, Begun, NEW k \in 1 .. Len(blocks), Earlier(k) # {}, Placed(k - 1),
         SharedAt(k) <= VANILLA_MAX_BLOCKMAP_OFFSET,
         UNCHANGED <<lump, cmd, blocks, map>>,
         result' = [result EXCEPT
                      ![4 + map[k]] = SharedOffset(map[k], map[First(k)])]
  PROVE  PlaceOf(k)' <= VANILLA_MAX_BLOCKMAP_OFFSET
<1>1. SharedAt(k) < 2 * Half
  <2>1. PICK f \in 1 .. k - 1 : f = First(k)
    BY FirstWasAppended
  <2>2. f \in 1 .. Len(blocks)
    BY Beginnings
  <2>3. PICK p \in Nat, m \in Nat, n \in Nat :
          p = PlaceOf(f) /\ m = Len(ListOf(f)) /\ n = Len(ListOf(k))
    BY <2>2, Beginnings, ListsPlaced
  <2>4. SharedAt(k) = p + m - n
    BY <2>1, <2>3 DEF SharedAt
  <2>5. Half \in Nat /\ Half > 3 /\ p + m - n <= Half - 1
    BY <2>4, Words DEF VANILLA_MAX_BLOCKMAP_OFFSET
  <2>6. p + m - n < 2 * Half
    BY <2>5
  <2> QED
    BY <2>4, <2>6
<1>2. PlaceOf(k)' = SharedAt(k)
  BY <1>1, SharedLies
<1> QED
  BY <1>2

LEMMA OneMoreNear ==
  ASSUME TypeOK, Begun, NEW k \in 1 .. Len(blocks), Extended(k), Near(k - 1),
         ~cmd.extblocks => PlaceOf(k)' <= VANILLA_MAX_BLOCKMAP_OFFSET
  PROVE  Near(k)'
<1>1. Len(blocks) \in Nat /\ k \in Nat /\ cmd' = cmd
  BY Beginnings DEF Extended
<1>2. \A j \in 1 .. k - 1 : PlaceOf(j)' = PlaceOf(j)
  <2>1. \A j \in 1 .. k - 1 : j \in 1 .. Len(blocks) /\ j # k
    BY <1>1
  <2> QED
    BY <2>1, OthersStay
<1>3. \A j \in 1 .. k : j \in 1 .. k - 1 \/ j = k
  BY <1>1
<1> QED
  BY <1>1, <1>2, <1>3 DEF Near, VANILLA_MAX_BLOCKMAP_OFFSET

LEMMA NearStill ==
  ASSUME UNCHANGED <<cmd, map, result>>, NEW n, Near(n)
  PROVE  Near(n)'
<1>1. \A k : PlaceOf(k)' = PlaceOf(k)
  BY DEF PlaceOf, OffsetOf
<1> QED
  BY <1>1 DEF Near, VANILLA_MAX_BLOCKMAP_OFFSET

LEMMA PlaceNear ==
  ASSUME BlockmapInv, SharedSigned, pc = "place" => Near(at - 1), PlaceBlock
  PROVE  pc' = "place" => Near(at - 1)'
<1>1. /\ pc = "place" /\ at \in DOMAIN map
      /\ UNCHANGED <<lump, cmd, blocks, map, success>>
      /\ TypeOK /\ Begun /\ Placed(at - 1) /\ Apart(at - 1) /\ Near(at - 1)
  BY DEF PlaceBlock, BlockmapInv, Placing
<1>2. Len(blocks) \in Nat /\ DOMAIN map = 1 .. Len(blocks)
  BY <1>1, Beginnings
<1>3. PICK k \in 1 .. Len(blocks) : k = at
  BY <1>1, <1>2
<1>4. Placed(k - 1) /\ Apart(k - 1) /\ Near(k - 1)
  BY <1>1, <1>3
<1>5. ASSUME Near(k)', at' = at + 1 PROVE Near(at - 1)'
  <2>1. at' - 1 = k
    BY <1>2, <1>3, <1>5
  <2> QED
    BY <1>5, <2>1 DEF Near
<1>6. CASE /\ Earlier(at) # {}
           /\ LET first == CHOOSE j \in Earlier(at) : \A i \in Earlier(at) : j <= i
              IN result' = [result EXCEPT
                              ![4 + map[at]] = SharedOffset(map[at], map[first])]
           /\ at' = at + 1
  <2>1. result' = [result EXCEPT
                     ![4 + map[k]] = SharedOffset(map[k], map[First(k)])]
    BY <1>3, <1>6 DEF First
  <2>2. Earlier(k) # {} /\ (~cmd.extblocks => SharedAt(k) <= VANILLA_MAX_BLOCKMAP_OFFSET)
    BY <1>1, <1>3, <1>6 DEF SharedSigned
  <2>3. Extended(k)
    BY <1>1, <1>4, <2>1, <2>2, SharedIsPlaced
  <2>4. ~cmd.extblocks => PlaceOf(k)' <= VANILLA_MAX_BLOCKMAP_OFFSET
    BY <1>1, <1>4, <2>1, <2>2, SharedIsNear
  <2>5. Near(k)'
    BY <1>1, <1>4, <2>3, <2>4, OneMoreNear
  <2> QED
    BY <1>5, <1>6, <2>5
<1>7. CASE pc' = "finish"
  BY <1>7
<1>8. CASE /\ Earlier(at) = {} /\ ~PastLimit
           /\ result' = [result EXCEPT ![4 + map[at]] = Len(result) % (2 * Half)]
                          \o blocks[map[at]]
           /\ at' = at + 1
  <2>1. Extended(k)
    BY <1>1, <1>3, <1>4, <1>8, AppendedIsPlaced
  <2>2. PlaceOf(k)' <= BlockmapLimit'
    BY <1>1, <1>3, <1>4, <1>8, AppendedLies
  <2>3. ~cmd.extblocks => PlaceOf(k)' <= VANILLA_MAX_BLOCKMAP_OFFSET
    BY <1>1, <2>2 DEF BlockmapLimit, VANILLA_MAX_BLOCKMAP_OFFSET
  <2>4. Near(k)'
    BY <1>1, <1>4, <2>1, <2>3, OneMoreNear
  <2> QED
    BY <1>5, <1>8, <2>4
<1> QED
  BY <1>6, <1>7, <1>8 DEF PlaceBlock, Goto

LEMMA RebuiltIsSigned ==
  ASSUME TypeOK, Rebuilt, Near(Len(blocks)), ~cmd.extblocks
  PROVE  Signed(result)
<1> SUFFICES ASSUME NEW b \in 1 .. Len(blocks)
             PROVE  OffsetOf(result, b) <= VANILLA_MAX_BLOCKMAP_OFFSET
  BY HeaderKept DEF Signed, Offsets, Rebuilt
<1>1. PICK k \in 1 .. Len(blocks) : PlaceOf(k) = OffsetOf(result, b)
  BY EveryBlockHasPlace DEF Rebuilt
<1> QED
  BY <1>1 DEF Near

LEMMA NearNext ==
  ASSUME BlockmapInv, SharedSigned, NearInv, [Next]_vars
  PROVE  NearInv'
<1> DEFINE Limited == \A i \in DOMAIN past : ~past[i].extblocks
           Holds == IsValidBlockmap(lump) /\ Limited => (Signed(trail[1]) => Signed(lump))
<1>1. UNCHANGED <<lump, past, trail>> => Holds'
  BY DEF NearInv, Signed, VANILLA_MAX_BLOCKMAP_OFFSET
<1>2. CASE UNCHANGED vars
  <2>1. /\ UNCHANGED <<lump, pc, cmd, blocks, map, at, result, success>>
        /\ UNCHANGED <<past, trail>>
    BY <1>2 DEF vars, local, history
  <2>2. pc' = "place" => Near(at - 1)'
    <3>1. PICK n : n = at - 1
      OBVIOUS
    <3> QED
      BY <2>1, <3>1, NearStill DEF NearInv
  <2>3. pc' = "write" => result' = lump' \/ (Rebuilt' /\ Near(Len(blocks))')
    <3>1. PICK n : n = Len(blocks)
      OBVIOUS
    <3> QED
      BY <2>1, <3>1, NearStill, RebuiltStays DEF NearInv, Rebuilt
  <2> QED
    BY <1>1, <2>1, <2>2, <2>3 DEF NearInv
<1>3. ASSUME NEW c \in Commands, Start(c) PROVE NearInv'
  BY <1>1, <1>3 DEF Start, Goto, NearInv, history
<1>4. CASE Check
  <2>1. UNCHANGED <<lump, past, trail>>
    BY <1>4 DEF Check, history
  <2>2. CASE pc' = "write" /\ result' = lump
    BY <1>1, <2>1, <2>2 DEF NearInv
  <2>3. CASE pc' = "place" /\ at' = 1
    <3>1. at' - 1 = 0 /\ 1 .. 0 = {}
      BY <2>3
    <3>2. Near(at - 1)'
      BY <3>1 DEF Near
    <3> QED
      BY <1>1, <2>1, <2>3, <3>2 DEF NearInv
  <2> QED
    BY <1>4, <2>2, <2>3 DEF Check, Keep, Goto
<1>5. CASE PlaceBlock
  <2>1. pc' = "place" => Near(at - 1)'
    BY <1>5, PlaceNear DEF NearInv
  <2>2. pc' \in {"place", "finish"} /\ UNCHANGED <<lump, past, trail>>
    BY <1>5 DEF PlaceBlock, Goto, BlockmapInv, history
  <2> QED
    BY <1>1, <2>1, <2>2 DEF NearInv
<1>6. CASE Finish
  <2>1. pc' = "write" /\ UNCHANGED <<lump, cmd, blocks, map, at>>
    BY <1>6 DEF Finish, Keep, Goto
  <2>2. UNCHANGED <<lump, past, trail>>
    BY <1>6, <2>1 DEF Finish, history
  <2>3. CASE result' = lump
    BY <1>1, <2>1, <2>2, <2>3 DEF NearInv
  <2>4. CASE result # <<>> /\ success' = TRUE /\ UNCHANGED result
    <3>1. pc = "place" /\ at = Len(map) + 1
      BY <1>6, <2>4 DEF Finish, BlockmapInv, GivenUp
    <3>2. TypeOK /\ Begun /\ Placed(at - 1) /\ Apart(at - 1) /\ Near(at - 1)
      BY <3>1 DEF BlockmapInv, Placing, NearInv
    <3>3. at - 1 = Len(blocks) /\ Len(blocks) \in Nat
      BY <3>1, <3>2, Beginnings
    <3>4. PICK n : n = Len(blocks)
      OBVIOUS
    <3>5. Near(n)' /\ Len(blocks)' = n
      BY <2>1, <2>4, <3>2, <3>3, <3>4, NearStill
    <3>6. Rebuilt'
      BY <2>1, <2>4, <3>2, <3>3, RebuiltStays
    <3>7. Near(Len(blocks))'
      BY <3>5 DEF Near
    <3> QED
      BY <1>1, <2>1, <2>2, <3>6, <3>7 DEF NearInv
  <2> QED
    BY <1>6, <2>3, <2>4 DEF Finish, Keep
<1>7. CASE Write
  <2>1. /\ pc = "write" /\ pc' = "idle" /\ lump' = result
        /\ past' = Append(past, cmd) /\ trail' = Append(trail, result)
        /\ TypeOK /\ OnDisk
    BY <1>7 DEF Write, Goto, BlockmapInv
  <2>2. past \in Seq(Commands) /\ trail \in Seq(Seq(Word)) /\ cmd \in Commands
        /\ result \in Seq(Word)
    BY <2>1 DEF TypeOK
  <2>3. /\ trail'[1] = trail[1] /\ Len(past') \in DOMAIN past'
        /\ past'[Len(past')] = cmd
        /\ \A i \in DOMAIN past : i \in DOMAIN past' /\ past'[i] = past[i]
    BY <2>1, <2>2 DEF OnDisk
  <2>4. ASSUME Limited', IsValidBlockmap(lump'), Signed(trail[1])
        PROVE  Signed(result)
    <3>1. ~cmd.extblocks /\ Limited
      BY <2>3, <2>4
    <3>2. CASE result = lump
      BY <2>1, <2>4, <3>1, <3>2 DEF NearInv
    <3>3. CASE Rebuilt /\ Near(Len(blocks))
      BY <2>1, <3>1, <3>3, RebuiltIsSigned
    <3> QED
      BY <2>1, <3>2, <3>3 DEF NearInv
  <2>5. Holds'
    BY <2>1, <2>3, <2>4 DEF Signed, VANILLA_MAX_BLOCKMAP_OFFSET
  <2> QED
    BY <2>1, <2>5 DEF NearInv
<1> QED
  BY <1>2, <1>3, <1>4, <1>5, <1>6, <1>7 DEF Next, Done

LEMMA NearFirst == Init => NearInv
<1> SUFFICES ASSUME Init PROVE NearInv
  OBVIOUS
<1>1. pc = "idle" /\ trail[1] = lump
  BY DEF Init
<1> QED
  BY <1>1 DEF NearInv

\* Without -extblocks no blockmap that an engine with signed offsets could read
\* is made one that it cannot, as long as what is shared stays in its reach.
THEOREM VanillaKept ==
  ASSUME EndsFound PROVE Spec /\ []SharedSigned => []VanillaStaysVanilla
<1>1. Init => NearInv
  BY NearFirst
<1>2. BlockmapInv /\ SharedSigned /\ NearInv /\ [Next]_vars => NearInv'
  BY NearNext
<1>3. NearInv => VanillaStaysVanilla
  BY DEF NearInv, VanillaStaysVanilla, Signed
<1> QED
  BY <1>1, <1>2, <1>3, BlockmapInvariance, PTL DEF Spec

-----------------------------------------------------------------------------
(* What a run makes of a lump *)

\* Of lists that are laid out one after the other, E[k] is where the k-th one
\* ends.  The next one begins where the last one does, or at N.
Behind(E, N, k, o) ==
  /\ N <= o
  /\ \A j \in 1 .. k - 1 : E[j] <= o
  /\ o = N \/ \E j \in 1 .. k - 1 : E[j] = o

\* Each list of size S[k] is behind the earlier ones, or ends where the first one
\* does that H[k], the earlier ones that end with it, has.
Chained(E, S, H, N, K) ==
  \A k \in 1 .. K :
    IF H[k] = {} THEN Behind(E, N, k, E[k] - S[k])
    ELSE \E f \in H[k] : (\A j \in H[k] : f <= j) /\ E[k] = E[f]

LEMMA BehindOnce ==
  ASSUME NEW n \in Nat, NEW E \in [1 .. n -> Nat], NEW F \in [1 .. n -> Nat],
         NEW N \in Nat, NEW k \in 1 .. n + 1, \A j \in 1 .. k - 1 : E[j] = F[j],
         NEW o \in Int, NEW p \in Int, Behind(E, N, k, o), Behind(F, N, k, p)
  PROVE  o = p
<1>1. \A j \in 1 .. k - 1 : E[j] \in Int /\ F[j] = E[j]
  OBVIOUS
<1>2. o <= p
  BY <1>1 DEF Behind
<1>3. p <= o
  BY <1>1 DEF Behind
<1> QED
  BY <1>2, <1>3

SameEnds(E, F, K) == \A k \in 1 .. K : E[k] = F[k]

\* There is one way to lay them out.
LEMMA ChainOnce ==
  ASSUME NEW n \in Nat, NEW E \in [1 .. n -> Nat], NEW F \in [1 .. n -> Nat],
         NEW S \in [1 .. n -> Nat], NEW H, NEW N \in Nat, NEW K \in 0 .. n,
         Chained(E, S, H, N, K), Chained(F, S, H, N, K),
         \A k \in 1 .. n : H[k] \subseteq 1 .. k - 1
  PROVE  SameEnds(E, F, K)
<1> DEFINE Bad == {k \in 1 .. K : E[k] # F[k]}
<1> SUFFICES ASSUME Bad # {} PROVE FALSE
  BY DEF SameEnds
<1>1. PICK k \in Bad : \A j \in Bad : k <= j
  <2>1. Bad \subseteq Nat
    OBVIOUS
  <2> QED
    BY <2>1, LeastNumber
<1>2. /\ k \in 1 .. K /\ k \in 1 .. n /\ k \in 1 .. n + 1 /\ E[k] # F[k]
      /\ \A j \in 1 .. k - 1 : j \in 1 .. K /\ j \in 1 .. n /\ ~(k <= j)
  OBVIOUS
<1>3. \A j \in 1 .. k - 1 : E[j] = F[j]
  <2> SUFFICES ASSUME NEW j \in 1 .. k - 1, E[j] # F[j] PROVE FALSE
    OBVIOUS
  <2>1. j \in Bad
    BY <1>2
  <2> HIDE DEF Bad
  <2> QED
    BY <1>1, <1>2, <2>1
<1> HIDE DEF Bad
<1>4. E[k] \in Nat /\ F[k] \in Nat /\ S[k] \in Nat
  BY <1>2
<1>5. CASE H[k] = {}
  <2>1. Behind(E, N, k, E[k] - S[k]) /\ Behind(F, N, k, F[k] - S[k])
    BY <1>2, <1>5 DEF Chained
  <2>2. E[k] - S[k] \in Int /\ F[k] - S[k] \in Int
    BY <1>4
  <2>3. E[k] - S[k] = F[k] - S[k]
    <3>1. PICK o \in Int : o = E[k] - S[k]
      BY <2>2
    <3>2. PICK p \in Int : p = F[k] - S[k]
      BY <2>2
    <3>3. Behind(E, N, k, o) /\ Behind(F, N, k, p)
      BY <2>1, <3>1, <3>2
    <3>4. k \in 1 .. n + 1
      BY <1>2
    <3> HIDE DEF Bad
    <3>5. o = p
      BY <1>3, <3>3, <3>4, BehindOnce
    <3> QED
      BY <3>1, <3>2, <3>5
  <2> QED
    BY <1>2, <1>4, <2>3
<1>6. CASE H[k] # {}
  <2>1. PICK f \in H[k] : (\A j \in H[k] : f <= j) /\ E[k] = E[f]
    BY <1>2, <1>6 DEF Chained
  <2>2. PICK g \in H[k] : (\A j \in H[k] : g <= j) /\ F[k] = F[g]
    BY <1>2, <1>6 DEF Chained
  <2>3. f \in 1 .. k - 1 /\ g \in 1 .. k - 1
    BY <1>2
  <2>4. f = g
    <3>1. f <= g /\ g <= f
      BY <2>1, <2>2
    <3>2. f \in Int /\ g \in Int
      BY <2>3
    <3> QED
      BY <3>1, <3>2
  <2> QED
    BY <1>2, <1>3, <2>1, <2>2, <2>3, <2>4
<1> QED
  BY <1>5, <1>6

\* To share lists makes nothing longer.
LEMMA ChainShorter ==
  ASSUME NEW n \in Nat, NEW E \in [1 .. n -> Nat], NEW F \in [1 .. n -> Nat],
         NEW S \in [1 .. n -> Nat], NEW H, \A k \in 1 .. n : H[k] \subseteq 1 .. k - 1,
         NEW G, \A k \in 1 .. n : G[k] = {},
         NEW N \in Nat, NEW K \in 0 .. n, Chained(E, S, H, N, K), Chained(F, S, G, N, K)
  PROVE  \A k \in 1 .. K : E[k] <= F[k]
<1> DEFINE Bad == {k \in 1 .. K : ~(E[k] <= F[k])}
<1> SUFFICES ASSUME Bad # {} PROVE FALSE
  OBVIOUS
<1>1. PICK k \in Bad : \A j \in Bad : k <= j
  <2>1. Bad \subseteq Nat
    OBVIOUS
  <2> QED
    BY <2>1, LeastNumber
<1>2. /\ k \in 1 .. K /\ k \in 1 .. n /\ ~(E[k] <= F[k])
      /\ \A j \in 1 .. k - 1 : j \in 1 .. K /\ j \in 1 .. n /\ ~(k <= j)
  OBVIOUS
<1>3. \A j \in 1 .. k - 1 : E[j] <= F[j]
  <2> SUFFICES ASSUME NEW j \in 1 .. k - 1, ~(E[j] <= F[j]) PROVE FALSE
    OBVIOUS
  <2>1. j \in Bad
    BY <1>2
  <2> HIDE DEF Bad
  <2> QED
    BY <1>1, <1>2, <2>1
<1> HIDE DEF Bad
<1>4. /\ E[k] \in Nat /\ F[k] \in Nat /\ S[k] \in Nat
      /\ \A j \in 1 .. k - 1 : E[j] \in Nat /\ F[j] \in Nat
  BY <1>2
<1>5. Behind(F, N, k, F[k] - S[k])
  BY <1>2 DEF Chained
<1>6. N <= F[k] - S[k] /\ \A j \in 1 .. k - 1 : F[j] <= F[k] - S[k]
  BY <1>5 DEF Behind
<1>7. CASE H[k] = {}
  <2>1. Behind(E, N, k, E[k] - S[k])
    BY <1>2, <1>7 DEF Chained
  <2>2. E[k] - S[k] <= F[k] - S[k]
    <3>1. CASE E[k] - S[k] = N
      BY <1>6, <3>1
    <3>2. ASSUME NEW j \in 1 .. k - 1, E[j] = E[k] - S[k]
          PROVE  E[k] - S[k] <= F[k] - S[k]
      <4>1. E[j] <= F[j] /\ F[j] <= F[k] - S[k] /\ E[j] \in Nat /\ F[j] \in Nat
        BY <1>3, <1>4, <1>6
      <4>2. PICK a \in Nat, b \in Nat, d \in Int : a = E[j] /\ b = F[j] /\ d = F[k] - S[k]
        BY <1>4, <4>1, SMTT(60)
      <4>3. a <= d
        BY <4>1, <4>2, SMTT(60)
      <4> QED
        BY <3>2, <4>2, <4>3
    <3> QED
      BY <2>1, <3>1, <3>2 DEF Behind
  <2> QED
    BY <1>2, <1>4, <2>2
<1>8. CASE H[k] # {}
  <2>1. PICK f \in H[k] : E[k] = E[f]
    BY <1>2, <1>8 DEF Chained
  <2>2. f \in 1 .. k - 1
    BY <1>2
  <2>3. E[f] <= F[f] /\ F[f] <= F[k] - S[k] /\ E[f] \in Nat /\ F[f] \in Nat
    BY <1>3, <1>4, <1>6, <2>2
  <2>4. PICK a \in Nat, b \in Nat, c \in Nat, s \in Nat :
          a = E[f] /\ b = F[f] /\ c = F[k] /\ s = S[k]
    BY <1>4, <2>3
  <2>5. a <= c
    BY <2>3, <2>4, SMTT(60)
  <2> QED
    BY <1>2, <2>1, <2>4, <2>5
<1> QED
  BY <1>7, <1>8

\* The order in which the blocks are placed, and then by this order: where their
\* lists end in e, how long they are, and in which earlier ones they are found.
Order(bl) == LargestLast(SortedMap(bl))
EndsOf(e, bl) ==
  [k \in 1 .. Len(bl) |-> OffsetOf(e, Order(bl)[k]) + Len(bl[Order(bl)[k]])]
SizesOf(bl) == [k \in 1 .. Len(bl) |-> Len(bl[Order(bl)[k]])]
HostsOf(op, bl) ==
  [k \in 1 .. Len(bl) |->
     IF op = "stack"
     THEN {j \in 1 .. k - 1 : Matches(bl[Order(bl)[k]], bl[Order(bl)[j]])}
     ELSE {}]

LimitOf(c) ==
  IF c.extblocks THEN EXTENDED_MAX_BLOCKMAP_OFFSET ELSE VANILLA_MAX_BLOCKMAP_OFFSET

\* The first K blocks are where a run with the command c puts them, and behind
\* the table there is nothing else.
LaidTo(c, e, bl, K) ==
  /\ Chained(EndsOf(e, bl), SizesOf(bl), HostsOf(c.op, bl), 4 + Len(bl), K)
  /\ Behind(EndsOf(e, bl), 4 + Len(bl), K + 1, Len(e))
  /\ \A k \in 1 .. K :
       HostsOf(c.op, bl)[k] = {} => OffsetOf(e, Order(bl)[k]) <= LimitOf(c)
  /\ \A i \in 5 + Len(bl) .. Len(e) :
       \E k \in 1 .. K : i \in OffsetOf(e, Order(bl)[k]) + 1 .. EndsOf(e, bl)[k]

Laid(c, e) ==
  /\ e \in Seq(Word) /\ IsValidBlockmap(e) /\ HasEnds(e)
  /\ LaidTo(c, e, MakeBlocklist(e), NumBlocks(e))

\* Two lumps of the same header and lists.
Alike(d, e) ==
  /\ IsValidBlockmap(d) /\ IsValidBlockmap(e)
  /\ \A i \in 1 .. 4 : d[i] = e[i]
  /\ MakeBlocklist(d) = MakeBlocklist(e)

\* The lists of a lump, their number, and their order, ends, sizes and hosts.
Layout(c, e, bl, n, m, E, S, H) ==
  /\ bl = MakeBlocklist(e) /\ n = NumBlocks(e) /\ m = Order(bl)
  /\ E = EndsOf(e, bl) /\ S = SizesOf(bl) /\ H = HostsOf(c.op, bl)

LEMMA HasLayout ==
  ASSUME NEW c, NEW e
  PROVE  \E bl, n, m, E, S, H : Layout(c, e, bl, n, m, E, S, H)
<1>1. Layout(c, e, MakeBlocklist(e), NumBlocks(e), Order(MakeBlocklist(e)),
             EndsOf(e, MakeBlocklist(e)), SizesOf(MakeBlocklist(e)),
             HostsOf(c.op, MakeBlocklist(e)))
  BY DEF Layout
<1> QED
  BY <1>1

\* Lumps with the same lists have the same order, sizes and hosts.
LEMMA LayoutsAlike ==
  ASSUME NEW c, NEW u, NEW d, NEW e, Alike(d, e),
         NEW bl, NEW n, NEW m, NEW D, NEW S, NEW H,
         Layout(c, d, bl, n, m, D, S, H)
  PROVE  \E E, G : /\ Layout(u, e, bl, n, m, E, S, G)
                   /\ c.op = u.op => G = H
<1>1. bl = MakeBlocklist(e) /\ n = NumBlocks(e)
  BY DEF Alike, Layout, NumBlocks
<1>2. Layout(u, e, bl, n, m, EndsOf(e, bl), S, HostsOf(u.op, bl))
  BY <1>1 DEF Layout
<1>3. c.op = u.op => HostsOf(u.op, bl) = H
  BY DEF Layout
<1> QED
  BY <1>2, <1>3

\* What there is to know of a laid lump.
LEMMA LaidMeans ==
  ASSUME NEW c \in [op : {"stack", "unstack"}, extblocks : BOOLEAN], NEW e, Laid(c, e),
         NEW bl, NEW n, NEW m, NEW E, NEW S, NEW H, Layout(c, e, bl, n, m, E, S, H)
  PROVE  /\ e \in Seq(Word) /\ n \in Nat /\ Len(e) \in Nat /\ Len(e) >= 4 + n
         /\ bl \in Seq(Seq(Word)) /\ Len(bl) = n /\ IsMap(m, n)
         /\ E \in [1 .. n -> Nat] /\ S \in [1 .. n -> Nat]
         /\ \A k \in 1 .. n : H[k] \subseteq 1 .. k - 1
         /\ \A k \in 1 .. n :
              /\ m[k] \in 1 .. n /\ OffsetOf(e, m[k]) \in Nat
              /\ IsList(bl[m[k]]) /\ S[k] = Len(bl[m[k]])
              /\ E[k] = OffsetOf(e, m[k]) + S[k]
              /\ Lies(e, OffsetOf(e, m[k]), bl[m[k]])
         /\ LaidTo(c, e, bl, n)
<1>1. e \in Seq(Word) /\ IsValidBlockmap(e) /\ HasEnds(e) /\ LaidTo(c, e, bl, n)
  BY DEF Laid, Layout
<1>2. /\ n \in Nat /\ Len(e) \in Nat
      /\ \A b \in 1 .. n : OffsetOf(e, b) \in Nat
  BY <1>1, OffsetsAreWords DEF Layout
<1>3. Len(e) >= 4 + n
  BY <1>1, <1>2 DEF IsValidBlockmap, Layout
<1>4. /\ bl \in Seq(Seq(Word)) /\ Len(bl) = n
      /\ \A b \in 1 .. n : IsList(bl[b]) /\ bl[b] = ListAt(e, OffsetOf(e, b))
  BY <1>1, BlocksAreLists DEF Layout
<1>5. IsMap(m, n)
  BY <1>2, <1>4, SortedMapIsMap, LargestLastIsMap DEF Order, Layout
<1>6. \A k \in 1 .. n : m[k] \in 1 .. n
  BY <1>5 DEF IsMap
<1>7. \A b \in 1 .. n : Len(bl[b]) \in Nat
  BY <1>4 DEF IsList
<1>8. ASSUME NEW b \in 1 .. n PROVE Lies(e, OffsetOf(e, b), bl[b])
  <2>1. PICK o \in Nat : o = OffsetOf(e, b)
    BY <1>2
  <2>2. \E k \in o + 1 .. Len(e) : e[k] = Sentinel
    BY <1>1, <2>1 DEF HasEnds, Layout
  <2> QED
    BY <1>1, <1>4, <2>1, <2>2, ListFound
<1>9. ASSUME NEW k \in 1 .. n
      PROVE  /\ m[k] \in 1 .. n
             /\ OffsetOf(e, m[k]) \in Nat
             /\ IsList(bl[m[k]]) /\ S[k] = Len(bl[m[k]])
             /\ E[k] = OffsetOf(e, m[k]) + S[k]
             /\ Lies(e, OffsetOf(e, m[k]), bl[m[k]])
             /\ S[k] \in Nat
  <2>1. PICK b \in 1 .. n : b = m[k]
    BY <1>6
  <2>2. IsList(bl[b]) /\ OffsetOf(e, b) \in Nat /\ Lies(e, OffsetOf(e, b), bl[b])
        /\ Len(bl[b]) \in Nat
    BY <1>2, <1>4, <1>7, <1>8
  <2>3. S[k] = Len(bl[b])
    BY <1>4, <2>1 DEF SizesOf, Layout
  <2>4. E[k] = OffsetOf(e, b) + Len(bl[b])
    BY <1>4, <2>1 DEF EndsOf, Layout
  <2> QED
    BY <2>1, <2>2, <2>3, <2>4
<1>10. E \in [1 .. n -> Nat]
  <2>1. ASSUME NEW k \in 1 .. n PROVE E[k] \in Nat
    <3>1. PICK o \in Nat, s \in Nat : o = OffsetOf(e, m[k]) /\ s = S[k]
      BY <1>9
    <3> QED
      BY <1>9, <3>1
  <2>2. DOMAIN E = 1 .. n /\ E = [k \in 1 .. n |-> E[k]]
    BY <1>4 DEF EndsOf, Layout
  <2> QED
    BY <2>1, <2>2
<1>11. S \in [1 .. n -> Nat]
  <2>1. S = [k \in 1 .. n |-> S[k]]
    BY <1>4 DEF SizesOf, Layout
  <2> QED
    BY <1>9, <2>1
<1>12. \A k \in 1 .. n : H[k] \subseteq 1 .. k - 1
  <2> SUFFICES ASSUME NEW k \in 1 .. n PROVE H[k] \subseteq 1 .. k - 1
    OBVIOUS
  <2>1. H[k] =
          IF c.op = "stack"
          THEN {j \in 1 .. k - 1 : Matches(bl[m[k]], bl[m[j]])}
          ELSE {}
    BY <1>4 DEF HostsOf, Layout
  <2> QED
    BY <2>1
<1> QED
  BY <1>1, <1>2, <1>3, <1>4, <1>5, <1>9, <1>10, <1>11, <1>12

\* The lists and the header determine how a lump is laid out, and every word of
\* it is in the header, the table or a list.
LEMMA LaidOnce ==
  ASSUME NEW c \in [op : {"stack", "unstack"}, extblocks : BOOLEAN],
         NEW d, NEW e, Laid(c, d), Laid(c, e), Alike(d, e)
  PROVE  d = e
<1>1. PICK bl, n, m, D, S, H : Layout(c, d, bl, n, m, D, S, H)
  BY HasLayout
<1>2. PICK E, G : Layout(c, e, bl, n, m, E, S, G) /\ G = H
  BY <1>1, LayoutsAlike
<1>3. Layout(c, e, bl, n, m, E, S, H)
  BY <1>2
<1>4. bl = MakeBlocklist(d) /\ m = Order(bl) /\ n = NumBlocks(d)
  BY <1>1 DEF Layout
<1>5. D = EndsOf(d, bl) /\ E = EndsOf(e, bl) /\ S = SizesOf(bl) /\ H = HostsOf(c.op, bl)
  BY <1>1, <1>3 DEF Layout
<1>6. /\ d \in Seq(Word) /\ n \in Nat /\ Len(d) \in Nat /\ Len(d) >= 4 + n
      /\ Len(bl) = n /\ IsMap(m, n)
      /\ D \in [1 .. n -> Nat] /\ S \in [1 .. n -> Nat]
      /\ \A k \in 1 .. n : H[k] \subseteq 1 .. k - 1
      /\ \A k \in 1 .. n :
           /\ m[k] \in 1 .. n /\ OffsetOf(d, m[k]) \in Nat
           /\ S[k] = Len(bl[m[k]]) /\ D[k] = OffsetOf(d, m[k]) + S[k]
           /\ Lies(d, OffsetOf(d, m[k]), bl[m[k]])
      /\ LaidTo(c, d, bl, n)
  BY <1>1, LaidMeans
<1>7. /\ e \in Seq(Word) /\ Len(e) \in Nat /\ Len(e) >= 4 + n
      /\ E \in [1 .. n -> Nat]
      /\ \A k \in 1 .. n :
           /\ m[k] \in 1 .. n /\ OffsetOf(e, m[k]) \in Nat
           /\ IsList(bl[m[k]]) /\ S[k] = Len(bl[m[k]])
           /\ E[k] = OffsetOf(e, m[k]) + S[k]
           /\ Lies(e, OffsetOf(e, m[k]), bl[m[k]])
      /\ LaidTo(c, e, bl, n)
  BY <1>3, LaidMeans
<1>8. \A k \in 1 .. n : D[k] = E[k]
  <2>1. PICK N \in Nat : N = 4 + n
    BY <1>6
  <2>2. Chained(D, S, H, 4 + n, n) /\ Chained(E, S, H, 4 + n, n)
    BY <1>5, <1>6, <1>7 DEF LaidTo
  <2>3. Chained(D, S, H, N, n) /\ Chained(E, S, H, N, n) /\ n \in 0 .. n
    BY <1>6, <2>1, <2>2
  <2>4. /\ D \in [1 .. n -> Nat] /\ E \in [1 .. n -> Nat] /\ S \in [1 .. n -> Nat]
        /\ n \in Nat /\ \A k \in 1 .. n : H[k] \subseteq 1 .. k - 1
    BY <1>6, <1>7
  <2>5. Chained(D, S, H, N, n)
    BY <2>3
  <2>6. Chained(E, S, H, N, n)
    BY <2>3
  <2>7. PICK K \in 0 .. n : K = n
    BY <2>4
  <2>8. Chained(D, S, H, N, K) /\ Chained(E, S, H, N, K)
    BY <2>5, <2>6, <2>7
  <2>9. SameEnds(D, E, K)
    BY <2>1, <2>4, <2>7, <2>8, ChainOnce
  <2> QED
    BY <2>7, <2>9 DEF SameEnds
<1>9. \A k \in 1 .. n : OffsetOf(d, m[k]) = OffsetOf(e, m[k])
  <2> SUFFICES ASSUME NEW k \in 1 .. n PROVE OffsetOf(d, m[k]) = OffsetOf(e, m[k])
    OBVIOUS
  <2>1. PICK o \in Nat, p \in Nat, s \in Nat :
          o = OffsetOf(d, m[k]) /\ p = OffsetOf(e, m[k]) /\ s = S[k]
    BY <1>6, <1>7
  <2>2. D[k] = o + s /\ E[k] = p + s /\ D[k] = E[k]
    BY <1>6, <1>7, <1>8, <2>1
  <2> QED
    BY <2>1, <2>2
<1>10. Len(d) = Len(e)
  <2>1. Behind(D, 4 + n, n + 1, Len(d)) /\ Behind(E, 4 + n, n + 1, Len(e))
    BY <1>5, <1>6, <1>7 DEF LaidTo
  <2>2. 4 + n \in Nat /\ n + 1 \in 1 .. n + 1
    BY <1>6
  <2>3. \A j \in 1 .. (n + 1) - 1 : D[j] = E[j]
    BY <1>6, <1>8
  <2>4. PICK o \in Int, p \in Int : o = Len(d) /\ p = Len(e)
    BY <1>6, <1>7
  <2>5. PICK k \in 1 .. n + 1 : k = n + 1
    BY <2>2
  <2>6. PICK N \in Nat : N = 4 + n
    BY <2>2
  <2>7. o = p
    <3>1. Behind(D, N, k, o) /\ Behind(E, N, k, p) /\ \A j \in 1 .. k - 1 : D[j] = E[j]
      BY <2>1, <2>3, <2>4, <2>5, <2>6
    <3> QED
      BY <1>6, <1>7, <3>1, BehindOnce, ZenonT(60)
  <2> QED
    BY <2>4, <2>7
<1>11. ASSUME NEW i \in 1 .. Len(d) PROVE d[i] = e[i]
  <2>1. CASE i \in 1 .. 4
    BY <2>1 DEF Alike
  <2>2. CASE i \in 5 .. 4 + n
    <3>1. PICK b \in 1 .. n : i = 4 + b
      <4>1. i - 4 \in 1 .. n /\ i = 4 + (i - 4)
        BY <1>6, <2>2
      <4> QED
        BY <4>1
    <3>2. PICK k \in 1 .. n : m[k] = b
      BY <1>6 DEF IsMap
    <3> QED
      BY <1>9, <3>1, <3>2 DEF OffsetOf
  <2>3. CASE i \in 5 + n .. Len(d)
    <3>1. PICK k \in 1 .. n : i \in OffsetOf(d, m[k]) + 1 .. D[k]
      BY <1>4, <1>5, <1>6, <2>3 DEF LaidTo
    <3>2. PICK o \in Nat, s \in Nat : o = OffsetOf(d, m[k]) /\ s = S[k]
      BY <1>6
    <3>3. PICK l : l = bl[m[k]]
      OBVIOUS
    <3>4. Lies(d, o, l) /\ Lies(e, o, l) /\ Len(l) = s /\ i \in o + 1 .. o + s
      BY <1>6, <1>7, <1>9, <3>1, <3>2, <3>3
    <3>5. PICK h \in 1 .. s : i = o + h
      <4>1. i - o \in 1 .. s /\ i = o + (i - o)
        BY <3>2, <3>4
      <4> QED
        BY <4>1
    <3> QED
      BY <3>4, <3>5 DEF Lies
  <2>4. i \in 1 .. 4 \/ i \in 5 .. 4 + n \/ i \in 5 + n .. Len(d)
    BY <1>6
  <2> QED
    BY <2>1, <2>2, <2>3, <2>4
<1>12. d \in [1 .. Len(d) -> Word] /\ e \in [1 .. Len(d) -> Word]
  BY <1>6, <1>7, <1>10
<1> QED
  BY <1>11, <1>12

\* Only its last list can reach beyond the limit in a lump that was unstacked,
\* so it is not taken for an overflowed one.
LEMMA UnstackedFits ==
  ASSUME NEW c \in [op : {"stack", "unstack"}, extblocks : BOOLEAN],
         c.op = "unstack", NEW e, Laid(c, e)
  PROVE  ~IsOverflowedBlockmap(e)
<1> SUFFICES ASSUME IsOverflowedBlockmap(e) PROVE FALSE
  OBVIOUS
<1>1. PICK bl, n, m, E, S, H : Layout(c, e, bl, n, m, E, S, H)
  BY HasLayout
<1>2. /\ bl = MakeBlocklist(e) /\ n = NumBlocks(e) /\ m = Order(bl)
      /\ E = EndsOf(e, bl) /\ S = SizesOf(bl) /\ H = HostsOf(c.op, bl)
  BY <1>1 DEF Layout
<1>3. /\ e \in Seq(Word) /\ n \in Nat /\ Len(e) \in Nat /\ Len(e) >= 4 + n
      /\ Len(bl) = n /\ IsMap(m, n)
      /\ E \in [1 .. n -> Nat] /\ S \in [1 .. n -> Nat]
      /\ \A k \in 1 .. n :
           /\ m[k] \in 1 .. n /\ OffsetOf(e, m[k]) \in Nat
           /\ IsList(bl[m[k]]) /\ S[k] = Len(bl[m[k]])
           /\ E[k] = OffsetOf(e, m[k]) + S[k]
           /\ Lies(e, OffsetOf(e, m[k]), bl[m[k]])
      /\ LaidTo(c, e, bl, n)
  BY <1>1, LaidMeans
<1>4. PICK L : L = EXTENDED_MAX_BLOCKMAP_OFFSET
  OBVIOUS
<1>5. /\ L \in Nat /\ L >= 6 /\ Sentinel = L + 1 /\ LimitOf(c) \in Nat /\ LimitOf(c) <= L
  <2>1. Half \in Nat /\ Half > 3 /\ Sentinel = 2 * Half - 1
    BY Words
  <2> QED
    BY <1>4, <2>1 DEF LimitOf, EXTENDED_MAX_BLOCKMAP_OFFSET, VANILLA_MAX_BLOCKMAP_OFFSET
<1>6. \A k \in 1 .. n : H[k] = {}
  BY <1>2, <1>3 DEF HostsOf
<1>7. ASSUME NEW k \in 1 .. n
      PROVE  /\ Behind(E, 4 + n, k, E[k] - S[k]) /\ OffsetOf(e, m[k]) = E[k] - S[k]
             /\ OffsetOf(e, m[k]) <= L
             /\ S[k] \in Nat /\ S[k] >= 1 /\ E[k] \in Nat
  <2>1. Chained(E, S, H, 4 + n, n)
    BY <1>2, <1>3 DEF LaidTo
  <2>2. Behind(E, 4 + n, k, E[k] - S[k])
    BY <1>6, <2>1 DEF Chained
  <2>3. PICK o \in Nat, s \in Nat : o = OffsetOf(e, m[k]) /\ s = S[k]
    BY <1>3
  <2>4. s >= 1 /\ E[k] = o + s
    BY <1>3, <2>3 DEF IsList
  <2>5. o <= LimitOf(c)
    BY <1>1, <1>2, <1>3, <1>6, <2>3 DEF LaidTo
  <2> QED
    BY <1>5, <2>2, <2>3, <2>4, <2>5
<1>8. ASSUME NEW j \in 1 .. n, NEW k \in 1 .. n, j < k PROVE E[j] <= E[k] - S[k]
  <2>1. j \in 1 .. k - 1
    BY <1>8
  <2> QED
    BY <1>7, <2>1 DEF Behind
\* Each end of a list beyond the limit is the same.
<1>9. ASSUME NEW i \in L + 1 .. Len(e), e[i] = Sentinel
      PROVE  \E k \in 1 .. n : i = E[k]
  <2>1. i \in 5 + n .. Len(e)
    <3>1. CASE i \in 5 .. 4 + n
      <4>1. PICK b \in 1 .. n : i = 4 + b
        <5>1. i - 4 \in 1 .. n /\ i = 4 + (i - 4)
          BY <1>3, <3>1
        <5> QED
          BY <5>1
      <4>2. PICK k \in 1 .. n : m[k] = b
        BY <1>3 DEF IsMap
      <4>3. e[i] = OffsetOf(e, m[k])
        BY <4>1, <4>2 DEF OffsetOf
      <4>4. OffsetOf(e, m[k]) <= L /\ OffsetOf(e, m[k]) \in Nat
        BY <1>3, <1>7
      <4> QED
        BY <1>5, <1>9, <4>3, <4>4
    <3> QED
      BY <1>3, <1>5, <3>1
  <2>2. PICK k \in 1 .. n : i \in OffsetOf(e, m[k]) + 1 .. E[k]
    BY <1>1, <1>2, <1>3, <2>1 DEF LaidTo
  <2>3. PICK o \in Nat, s \in Nat, l \in {bl[m[k]]} : o = OffsetOf(e, m[k]) /\ s = S[k]
    BY <1>3
  <2>4. IsList(l) /\ Len(l) = s /\ Lies(e, o, l) /\ E[k] = o + s /\ i \in o + 1 .. o + s
    BY <1>3, <2>2, <2>3
  <2>5. PICK h \in 1 .. s : i = o + h
    <3>1. i - o \in 1 .. s /\ i = o + (i - o)
      BY <2>3, <2>4
    <3> QED
      BY <3>1
  <2>6. l[h] = Sentinel
    BY <1>9, <2>4, <2>5 DEF Lies
  <2>7. h = s
    <3>1. h \in 1 .. s - 1 \/ h = s
      BY <2>3
    <3> QED
      BY <2>4, <2>6, <3>1 DEF IsList
  <2> QED
    BY <2>4, <2>5, <2>7
<1>10. ASSUME NEW i \in L + 1 .. Len(e), NEW j \in L + 1 .. Len(e),
              e[i] = Sentinel, e[j] = Sentinel
       PROVE  i = j
  <2>1. PICK a \in 1 .. n : i = E[a]
    BY <1>9, <1>10
  <2>2. PICK b \in 1 .. n : j = E[b]
    BY <1>9, <1>10
  <2>3. ASSUME NEW p \in 1 .. n, NEW q \in 1 .. n, p < q, E[p] >= L + 1 PROVE FALSE
    <3>1. E[p] <= E[q] - S[q]
      BY <1>8, <2>3
    <3>2. E[q] - S[q] <= L /\ E[q] \in Nat /\ S[q] \in Nat /\ E[p] \in Nat
      BY <1>3, <1>7
    <3> QED
      BY <1>5, <2>3, <3>1, <3>2, SMTT(60)
  <2>4. E[a] >= L + 1 /\ E[b] >= L + 1
    BY <1>3, <1>5, <2>1, <2>2
  <2>5. ~(a < b) /\ ~(b < a)
    BY <2>3, <2>4
  <2>6. a = b
    BY <2>5
  <2> QED
    BY <2>1, <2>2, <2>6
<1>11. PICK T : T = {i \in L + 1 .. Len(e) : e[i] = Sentinel}
  OBVIOUS
<1>12. Cardinality(T) <= 1
  <2>1. CASE T = {}
    BY <2>1, FS_EmptySet
  <2>2. ASSUME NEW i \in T PROVE Cardinality(T) <= 1
    <3>1. T = {i}
      BY <1>10, <1>11, <2>2
    <3>2. Cardinality({i}) = 1
      BY FS_Singleton
    <3> QED
      BY <3>1, <3>2
  <2> QED
    BY <2>1, <2>2
<1>13. ~(Cardinality(T) > 1)
  <2>1. IsFiniteSet(L + 1 .. Len(e))
    <3>1. PICK a \in Nat : a = L + 1
      BY <1>5
    <3> QED
      BY <1>3, <3>1, Finite
  <2>2. Cardinality(T) \in Nat
    BY <1>11, <2>1, FS_Subset, FS_CardinalityType
  <2> QED
    BY <1>12, <2>2
<1>14. e[Len(e)] = Sentinel
  <2>1. Len(e) >= L
    BY <1>4 DEF IsOverflowedBlockmap
  <2>2. Behind(E, 4 + n, n + 1, Len(e))
    BY <1>2, <1>3 DEF LaidTo
  <2>3. n # 0
    <3> SUFFICES ASSUME n = 0 PROVE FALSE
      OBVIOUS
    <3>1. Len(e) = 4
      BY <1>3, <2>2 DEF Behind
    <3> QED
      BY <1>5, <2>1, <3>1
  <2>4. 1 \in 1 .. n /\ 1 \in 1 .. (n + 1) - 1
    BY <1>3, <2>3
  <2>5. Len(e) # 4 + n
    <3>1. Behind(E, 4 + n, 1, E[1] - S[1]) /\ S[1] \in Nat /\ S[1] >= 1 /\ E[1] \in Nat
      BY <1>7, <2>4
    <3>2. 4 + n <= E[1] - S[1] /\ E[1] <= Len(e)
      BY <2>2, <2>4, <3>1 DEF Behind
    <3> QED
      BY <1>3, <3>1, <3>2
  <2>6. PICK k \in 1 .. n : E[k] = Len(e)
    <3>1. \E j \in 1 .. (n + 1) - 1 : E[j] = Len(e)
      BY <2>2, <2>5 DEF Behind
    <3>2. (n + 1) - 1 = n
      BY <1>3
    <3> QED
      BY <3>1, <3>2
  <2>7. PICK o \in Nat, s \in Nat, l \in {bl[m[k]]} : o = OffsetOf(e, m[k]) /\ s = S[k]
    BY <1>3
  <2>8. IsList(l) /\ Len(l) = s /\ Lies(e, o, l) /\ Len(e) = o + s /\ s >= 1
    BY <1>3, <1>7, <2>6, <2>7
  <2>9. s \in 1 .. s
    BY <2>7, <2>8
  <2> QED
    BY <2>8, <2>9 DEF Lies, IsList
<1> QED
  BY <1>4, <1>11, <1>13, <1>14 DEF IsOverflowedBlockmap

\* A lump that was unstacked is no shorter than the same one stacked.
LEMMA UnstackedIsLonger ==
  ASSUME NEW c \in [op : {"stack", "unstack"}, extblocks : BOOLEAN],
         NEW u \in [op : {"stack", "unstack"}, extblocks : BOOLEAN],
         u.op = "unstack", NEW d, NEW e, Laid(c, d), Laid(u, e), Alike(d, e)
  PROVE  Len(d) <= Len(e)
<1>1. PICK bl, n, m, D, S, H : Layout(c, d, bl, n, m, D, S, H)
  BY HasLayout
<1>2. PICK E, G : Layout(u, e, bl, n, m, E, S, G)
  BY <1>1, LayoutsAlike
<1>3. bl = MakeBlocklist(d) /\ m = Order(bl) /\ n = NumBlocks(d)
  BY <1>1 DEF Layout
<1>4. /\ D = EndsOf(d, bl) /\ E = EndsOf(e, bl) /\ S = SizesOf(bl)
      /\ H = HostsOf(c.op, bl) /\ G = HostsOf(u.op, bl)
  BY <1>1, <1>2 DEF Layout
<1>5. /\ n \in Nat /\ Len(d) \in Nat /\ Len(bl) = n
      /\ D \in [1 .. n -> Nat] /\ S \in [1 .. n -> Nat]
      /\ \A k \in 1 .. n : H[k] \subseteq 1 .. k - 1
      /\ LaidTo(c, d, bl, n)
  BY <1>1, LaidMeans
<1>6. /\ Len(e) \in Nat /\ E \in [1 .. n -> Nat] /\ LaidTo(u, e, bl, n)
  BY <1>2, LaidMeans
<1>7. \A k \in 1 .. n : G[k] = {}
  BY <1>4, <1>5 DEF HostsOf
<1>8. PICK N \in Nat : N = 4 + n
  BY <1>5
<1>9. \A k \in 1 .. n : D[k] <= E[k]
  <2>1. Chained(D, S, H, N, n) /\ Chained(E, S, G, N, n) /\ n \in 0 .. n
    BY <1>4, <1>5, <1>6, <1>8 DEF LaidTo
  <2> QED
    BY <1>5, <1>6, <1>7, <2>1, ChainShorter
<1>10. (n + 1) - 1 = n
  BY <1>5
<1>11. /\ Len(d) = N \/ \E j \in 1 .. n : D[j] = Len(d)
       /\ N <= Len(e) /\ \A j \in 1 .. n : E[j] <= Len(e)
  BY <1>4, <1>5, <1>6, <1>8, <1>10 DEF LaidTo, Behind
<1>12. ASSUME NEW j \in 1 .. n, D[j] = Len(d) PROVE Len(d) <= Len(e)
  <2>1. D[j] \in Nat /\ E[j] \in Nat
    BY <1>5, <1>6
  <2> QED
    BY <1>6, <1>9, <1>11, <1>12, <2>1
<1> QED
  BY <1>11, <1>12

\* The same of the lump that is being made.
EndAt(k) == PlaceOf(k) + Len(ListOf(k))

\* Where the next list goes, behind the first n.
BehindAll(n, o) ==
  /\ 4 + Len(blocks) <= o
  /\ \A j \in 1 .. n : EndAt(j) <= o
  /\ o = 4 + Len(blocks) \/ \E j \in 1 .. n : EndAt(j) = o

Arranges(k) ==
  IF Earlier(k) = {} THEN BehindAll(k - 1, PlaceOf(k)) /\ PlaceOf(k) <= BlockmapLimit
  ELSE EndAt(k) = EndAt(First(k))

Arranged(n) ==
  /\ \A k \in 1 .. n : Arranges(k)
  /\ BehindAll(n, Len(result))
  /\ \A i \in 5 + Len(blocks) .. Len(result) : \E k \in 1 .. n : i \in SpanOf(k)

LEMMA ArrangedStill ==
  ASSUME UNCHANGED <<cmd, blocks, map, result>>, NEW n, Arranged(n)
  PROVE  Arranged(n)'
<1>1. \A k : /\ Earlier(k)' = Earlier(k) /\ First(k)' = First(k)
             /\ PlaceOf(k)' = PlaceOf(k) /\ ListOf(k)' = ListOf(k)
             /\ SpanOf(k)' = SpanOf(k)
  BY DEF Earlier, Matches, First, PlaceOf, OffsetOf, ListOf, SpanOf
<1>2. \A k : EndAt(k)' = EndAt(k)
  BY <1>1 DEF EndAt
<1>3. \A k : EndAt(First(k))' = EndAt(First(k))
  BY <1>1 DEF EndAt, PlaceOf, ListOf
<1>4. \A m, o : BehindAll(m, o) => BehindAll(m, o)'
  BY <1>2 DEF BehindAll
<1>5. ASSUME NEW k \in 1 .. n PROVE Arranges(k)'
  <2>1. Arranges(k) /\ BlockmapLimit' = BlockmapLimit
    BY DEF Arranged, BlockmapLimit
  <2>2. CASE Earlier(k) = {}
    <3>1. PICK p : p = PlaceOf(k)
      OBVIOUS
    <3>2. BehindAll(k - 1, p) /\ p <= BlockmapLimit
      BY <2>1, <2>2, <3>1 DEF Arranges
    <3>3. BehindAll(k - 1, p)' /\ PlaceOf(k)' = p
      BY <1>1, <1>4, <3>1, <3>2
    <3> QED
      BY <1>1, <2>1, <2>2, <3>2, <3>3 DEF Arranges, BehindAll
  <2>3. CASE Earlier(k) # {}
    BY <1>1, <1>2, <1>3, <2>1, <2>3 DEF Arranges
  <2> QED
    BY <2>2, <2>3
<1>6. BehindAll(n, Len(result))'
  <2>1. PICK o : o = Len(result)
    OBVIOUS
  <2>2. BehindAll(n, o)' /\ Len(result)' = o
    BY <1>4, <2>1 DEF Arranged
  <2> QED
    BY <2>2 DEF BehindAll
<1>7. (\A i \in 5 + Len(blocks) .. Len(result) : \E k \in 1 .. n : i \in SpanOf(k))'
  BY <1>1 DEF Arranged
<1> QED
  BY <1>5, <1>6, <1>7 DEF Arranged

LEMMA EndsAreNumbers ==
  ASSUME TypeOK, Begun, NEW k \in 1 .. Len(blocks)
  PROVE  PlaceOf(k) \in Nat /\ Len(ListOf(k)) \in Nat /\ EndAt(k) \in Nat
<1>1. PICK p \in Nat, s \in Nat : p = PlaceOf(k) /\ s = Len(ListOf(k))
  BY Beginnings, ListsPlaced
<1> QED
  BY <1>1 DEF EndAt

\* To place one more changes nothing for those before it.
LEMMA EarlierStay ==
  ASSUME TypeOK, Begun, NEW k \in 1 .. Len(blocks), Extended(k), Arranged(k - 1)
  PROVE  /\ \A j \in 1 .. k - 1 : EndAt(j)' = EndAt(j) /\ SpanOf(j)' = SpanOf(j)
         /\ \A n \in 0 .. k - 1 : \A o : BehindAll(n, o) => BehindAll(n, o)'
         /\ \A j \in 1 .. k - 1 : Arranges(j)'
<1>1. Len(blocks) \in Nat /\ k \in Nat /\ UNCHANGED <<cmd, blocks, map>>
  BY Beginnings DEF Extended
<1>2. ASSUME NEW j \in 1 .. k - 1
      PROVE  /\ PlaceOf(j)' = PlaceOf(j) /\ ListOf(j)' = ListOf(j)
             /\ EndAt(j)' = EndAt(j) /\ SpanOf(j)' = SpanOf(j)
  <2>1. j \in 1 .. Len(blocks) /\ j # k
    BY <1>1
  <2>2. PlaceOf(j)' = PlaceOf(j) /\ ListOf(j)' = ListOf(j)
    BY <2>1, OthersStay
  <2> QED
    BY <2>2 DEF EndAt, SpanOf
<1>3. ASSUME NEW n \in 0 .. k - 1, NEW o, BehindAll(n, o)
      PROVE  BehindAll(n, o)'
  <2>1. \A j \in 1 .. n : EndAt(j)' = EndAt(j)
    <3>1. \A j \in 1 .. n : j \in 1 .. k - 1
      BY <1>1
    <3> QED
      BY <1>2, <3>1
  <2> QED
    BY <1>1, <1>3, <2>1 DEF BehindAll
<1>4. ASSUME NEW j \in 1 .. k - 1 PROVE Arranges(j)'
  <2>1. Arranges(j) /\ j \in 1 .. Len(blocks) /\ j - 1 \in 0 .. k - 1
    BY <1>1 DEF Arranged
  <2>2. Earlier(j)' = Earlier(j) /\ First(j)' = First(j) /\ BlockmapLimit' = BlockmapLimit
    BY OthersStay
  <2>3. CASE Earlier(j) = {}
    <3>1. PICK p : p = PlaceOf(j)
      OBVIOUS
    <3>2. BehindAll(j - 1, p) /\ p <= BlockmapLimit
      BY <2>1, <2>3, <3>1 DEF Arranges
    <3>3. BehindAll(j - 1, p)' /\ PlaceOf(j)' = p
      BY <1>2, <1>3, <2>1, <3>1, <3>2
    <3> QED
      BY <2>2, <2>3, <3>2, <3>3 DEF Arranges, BehindAll
  <2>4. CASE Earlier(j) # {}
    <3>1. PICK f \in 1 .. j - 1 : f = First(j)
      BY <2>1, <2>4, FirstWasAppended
    <3>2. f \in 1 .. k - 1
      BY <1>1
    <3>3. EndAt(j) = EndAt(f)
      BY <2>1, <2>4, <3>1 DEF Arranges
    <3>4. EndAt(j)' = EndAt(f)'
      BY <1>2, <3>2, <3>3
    <3>5. EndAt(First(j))' = EndAt(f)'
      BY <2>2, <3>1 DEF EndAt, PlaceOf, ListOf
    <3> QED
      BY <2>2, <2>4, <3>4, <3>5 DEF Arranges
  <2> QED
    BY <2>3, <2>4
<1> QED
  BY <1>2, <1>3, <1>4

LEMMA SharedIsArranged ==
  ASSUME TypeOK, Begun, NEW k \in 1 .. Len(blocks), Earlier(k) # {}, Placed(k - 1),
         SharedAt(k) < 2 * Half, Arranged(k - 1),
         UNCHANGED <<lump, cmd, blocks, map>>,
         result' = [result EXCEPT
                      ![4 + map[k]] = SharedOffset(map[k], map[First(k)])]
  PROVE  Arranged(k)'
<1>1. Extended(k) /\ PlaceOf(k)' = SharedAt(k)
  BY SharedIsPlaced, SharedLies
<1>2. Len(blocks) \in Nat /\ k \in Nat /\ Len(result) \in Nat
  BY Beginnings
<1>3. Len(result') = Len(result)
  BY DEF TypeOK
<1>4. PICK f \in 1 .. k - 1 : f = First(k)
  BY FirstWasAppended
<1>5. f \in 1 .. Len(blocks)
  BY <1>2
<1>6. /\ Earlier(k)' = Earlier(k) /\ First(k)' = First(k) /\ ListOf(k)' = ListOf(k)
      /\ EndAt(f)' = EndAt(f)
  BY <1>1, <1>4, EarlierStay, OthersStay
<1>7. PICK p \in Nat, s \in Nat, t \in Nat :
        p = PlaceOf(f) /\ s = Len(ListOf(f)) /\ t = Len(ListOf(k))
  BY <1>5, EndsAreNumbers
<1>8. EndAt(k)' = EndAt(f)'
  <2>1. EndAt(f) = p + s
    BY <1>7 DEF EndAt
  <2>2. PlaceOf(k)' = p + s - t
    BY <1>1, <1>4, <1>7 DEF SharedAt
  <2>3. EndAt(k)' = (p + s - t) + t
    BY <1>6, <1>7, <2>2 DEF EndAt
  <2>4. (p + s - t) + t = p + s
    BY <1>7, SMTT(60)
  <2>5. EndAt(f)' = p + s
    BY <1>6, <2>1
  <2> QED
    BY <2>3, <2>4, <2>5
<1>9. Arranges(k)'
  <2>1. EndAt(First(k))' = EndAt(f)'
    BY <1>4, <1>6 DEF EndAt, PlaceOf, ListOf
  <2> QED
    BY <1>6, <1>8, <2>1 DEF Arranges
<1>10. \A j \in 1 .. k : j \in 1 .. k - 1 \/ j = k
  BY <1>2
<1>11. \A j \in 1 .. k - 1 : j \in 1 .. k
  BY <1>2
<1>12. \A j \in 1 .. k : Arranges(j)'
  BY <1>1, <1>9, <1>10, EarlierStay
<1>13. BehindAll(k, Len(result))'
  <2>1. PICK o : o = Len(result)
    OBVIOUS
  <2>2. BehindAll(k - 1, o) /\ k - 1 \in 0 .. k - 1
    BY <1>2, <2>1 DEF Arranged
  <2>3. BehindAll(k - 1, o)'
    BY <1>1, <2>2, EarlierStay
  <2>4. EndAt(k)' <= o
    BY <1>4, <1>8, <2>3 DEF BehindAll
  <2>5. \A j \in 1 .. k : EndAt(j)' <= o
    BY <1>10, <2>3, <2>4 DEF BehindAll
  <2> QED
    BY <1>3, <1>11, <2>1, <2>3, <2>5 DEF BehindAll
<1>14. (\A i \in 5 + Len(blocks) .. Len(result) : \E j \in 1 .. k : i \in SpanOf(j))'
  <2> SUFFICES ASSUME NEW i \in 5 + Len(blocks) .. Len(result)
               PROVE  \E j \in 1 .. k : i \in SpanOf(j)'
    BY <1>3
  <2>1. PICK j \in 1 .. k - 1 : i \in SpanOf(j)
    BY DEF Arranged
  <2> QED
    BY <1>1, <1>11, <2>1, EarlierStay
<1> QED
  BY <1>12, <1>13, <1>14 DEF Arranged

LEMMA AppendedGoesLast ==
  ASSUME TypeOK, Begun, NEW k \in 1 .. Len(blocks), ~PastLimit,
         result' = [result EXCEPT ![4 + map[k]] = Len(result) % (2 * Half)]
                     \o blocks[map[k]],
         UNCHANGED <<blocks, map>>
  PROVE  Len(result') = Len(result) + Len(ListOf(k)) /\ PlaceOf(k)' = Len(result)
<1>1. PICK n \in Nat : n = Len(result)
  BY Beginnings
<1>2. n < 2 * Half /\ n \in Word /\ n % (2 * Half) = n
  <2>1. BlockmapLimit \in Nat /\ BlockmapLimit < 2 * Half
    <3>1. Half \in Nat /\ Half > 3 /\ Sentinel = 2 * Half - 1
      BY Words
    <3> QED
      BY <3>1 DEF BlockmapLimit, EXTENDED_MAX_BLOCKMAP_OFFSET,
         VANILLA_MAX_BLOCKMAP_OFFSET
  <2>2. n < 2 * Half
    BY <1>1, <2>1, Words DEF PastLimit
  <2> QED
    BY <2>2, Words
<1>3. PICK l \in Seq(Word) : l = ListOf(k)
  BY ListsPlaced
<1>4. PICK m \in Nat : m = 4 + map[k] /\ m \in 1 .. n
  <2>1. map[k] \in 1 .. Len(blocks)
    BY ListsPlaced
  <2>2. Len(blocks) \in Nat /\ n >= 4 + Len(blocks)
    BY <1>1, Beginnings
  <2> QED
    BY <2>1, <2>2
<1>5. PICK e : e = [result EXCEPT ![m] = n]
  OBVIOUS
<1>6. e \in Seq(Word) /\ Len(e) = n /\ e[m] = n
  <2>1. m \in 1 .. Len(result) /\ result \in Seq(Word)
    BY <1>1, <1>4 DEF TypeOK
  <2> QED
    BY <1>1, <1>2, <1>5, <2>1, OneWord
<1>7. result' = e \o l
  BY <1>1, <1>2, <1>3, <1>4, <1>5 DEF ListOf
<1>8. PICK u : u = e \o l
  OBVIOUS
<1>9. Len(u) = Len(e) + Len(l) /\ \A i \in 1 .. Len(e) : u[i] = e[i]
  <2>1. e \in Seq(Word) /\ l \in Seq(Word)
    BY <1>6
  <2> QED
    BY <1>8, <2>1, JointWords
<1>10. Len(result') = n + Len(l) /\ result'[m] = n
  BY <1>4, <1>6, <1>7, <1>8, <1>9
<1> QED
  BY <1>1, <1>3, <1>4, <1>10 DEF PlaceOf, OffsetOf

LEMMA AppendedIsArranged ==
  ASSUME TypeOK, Begun, NEW k \in 1 .. Len(blocks), Earlier(k) = {}, Placed(k - 1),
         Apart(k - 1), ~PastLimit, Arranged(k - 1),
         UNCHANGED <<lump, cmd, blocks, map>>,
         result' = [result EXCEPT ![4 + map[k]] = Len(result) % (2 * Half)]
                     \o blocks[map[k]]
  PROVE  Arranged(k)'
<1>1. Extended(k) /\ PlaceOf(k)' <= BlockmapLimit'
  BY AppendedIsPlaced, AppendedLies
<1>2. Len(blocks) \in Nat /\ k \in Nat /\ Len(result) \in Nat
      /\ Len(result) >= 4 + Len(blocks)
  BY Beginnings
<1>3. PICK n \in Nat, s \in Nat : n = Len(result) /\ s = Len(ListOf(k))
  BY <1>2, EndsAreNumbers
<1>4. Len(result') = n + s /\ PlaceOf(k)' = n
  BY <1>3, AppendedGoesLast
<1>5. Earlier(k)' = {} /\ ListOf(k)' = ListOf(k)
  BY <1>1, OthersStay
<1>6. EndAt(k)' = n + s /\ SpanOf(k)' = n + 1 .. n + s
  BY <1>3, <1>4, <1>5 DEF EndAt, SpanOf
<1>7. \A j \in 1 .. k : j \in 1 .. k - 1 \/ j = k
  BY <1>2
<1>8. k \in 1 .. k /\ \A j \in 1 .. k - 1 : j \in 1 .. k
  BY <1>2
<1>9. BehindAll(k - 1, n) /\ BehindAll(k - 1, n)'
  <2>1. BehindAll(k - 1, n) /\ k - 1 \in 0 .. k - 1
    BY <1>2, <1>3 DEF Arranged
  <2> QED
    BY <1>1, <2>1, EarlierStay
<1>10. Arranges(k)'
  BY <1>1, <1>4, <1>5, <1>9 DEF Arranges, BehindAll
<1>11. \A j \in 1 .. k : Arranges(j)'
  BY <1>1, <1>7, <1>10, EarlierStay
<1>12. BehindAll(k, Len(result))'
  <2>1. ASSUME NEW j \in 1 .. k - 1 PROVE EndAt(j)' <= n + s
    <3>1. EndAt(j)' <= n /\ EndAt(j)' = EndAt(j)
      BY <1>1, <1>9, EarlierStay DEF BehindAll
    <3>2. j \in 1 .. Len(blocks)
      BY <1>2
    <3>3. EndAt(j) \in Nat
      BY <3>2, EndsAreNumbers
    <3> QED
      BY <3>1, <3>3
  <2>2. \A j \in 1 .. k : EndAt(j)' <= n + s
    BY <1>3, <1>6, <1>7, <2>1
  <2>3. 4 + Len(blocks') <= n + s
    BY <1>1, <1>2, <1>3 DEF Extended
  <2> QED
    BY <1>4, <1>6, <1>8, <2>2, <2>3 DEF BehindAll
<1>13. (\A i \in 5 + Len(blocks) .. Len(result) : \E j \in 1 .. k : i \in SpanOf(j))'
  <2> SUFFICES ASSUME NEW i \in 5 + Len(blocks) .. n + s
               PROVE  \E j \in 1 .. k : i \in SpanOf(j)'
    BY <1>4
  <2>1. CASE i <= n
    <3>1. i \in 5 + Len(blocks) .. Len(result)
      BY <1>2, <1>3, <2>1
    <3>2. PICK j \in 1 .. k - 1 : i \in SpanOf(j)
      BY <3>1 DEF Arranged
    <3> QED
      BY <1>1, <1>8, <3>2, EarlierStay
  <2>2. CASE ~(i <= n)
    <3>1. i \in n + 1 .. n + s
      BY <1>2, <1>3, <2>2
    <3> QED
      BY <1>6, <1>8, <3>1
  <2> QED
    BY <2>1, <2>2
<1> QED
  BY <1>11, <1>12, <1>13 DEF Arranged

\* What has been arranged is laid out.
LEMMA LaidSoFar ==
  ASSUME TypeOK, Begun, map = Order(blocks), NEW K \in 0 .. Len(blocks), Arranged(K)
  PROVE  LaidTo(cmd, result, blocks, K)
<1>1. PICK n \in Nat : n = Len(blocks)
  BY Beginnings
<1>2. PICK E, S, H : /\ E = EndsOf(result, blocks) /\ S = SizesOf(blocks)
                     /\ H = HostsOf(cmd.op, blocks)
  OBVIOUS
<1>3. ASSUME NEW k \in 1 .. n
      PROVE  /\ E[k] = EndAt(k) /\ S[k] = Len(ListOf(k)) /\ H[k] = Earlier(k)
             /\ E[k] - S[k] = PlaceOf(k)
             /\ PlaceOf(k) \in Nat /\ Len(ListOf(k)) \in Nat
  <2>1. E[k] = EndAt(k)
    BY <1>1, <1>2 DEF EndsOf, EndAt, PlaceOf, ListOf
  <2>2. S[k] = Len(ListOf(k))
    BY <1>1, <1>2 DEF SizesOf, ListOf
  <2>3. H[k] = Earlier(k)
    BY <1>1, <1>2 DEF HostsOf, Earlier
  <2>4. PICK p \in Nat, s \in Nat : p = PlaceOf(k) /\ s = Len(ListOf(k))
    BY <1>1, EndsAreNumbers
  <2>5. E[k] - S[k] = (p + s) - s
    BY <2>1, <2>2, <2>4 DEF EndAt
  <2> QED
    BY <2>1, <2>2, <2>3, <2>4, <2>5
<1>4. \A k \in 1 .. K : k \in 1 .. n /\ \A j \in 1 .. k - 1 : j \in 1 .. n
  BY <1>1
<1>5. \A k \in 1 .. K + 1 : \A o : BehindAll(k - 1, o) => Behind(E, 4 + n, k, o)
  <2> SUFFICES ASSUME NEW k \in 1 .. K + 1, NEW o, BehindAll(k - 1, o)
               PROVE  Behind(E, 4 + n, k, o)
    OBVIOUS
  <2>1. \A j \in 1 .. k - 1 : j \in 1 .. n
    BY <1>1
  <2>2. \A j \in 1 .. k - 1 : E[j] = EndAt(j)
    BY <1>3, <2>1
  <2> QED
    BY <1>1, <2>2 DEF BehindAll, Behind
<1>6. Chained(E, S, H, 4 + n, K)
  <2> SUFFICES ASSUME NEW k \in 1 .. K
               PROVE  IF H[k] = {} THEN Behind(E, 4 + n, k, E[k] - S[k])
                      ELSE \E f \in H[k] : (\A j \in H[k] : f <= j) /\ E[k] = E[f]
    BY DEF Chained
  <2>1. Arranges(k) /\ k \in 1 .. n /\ k \in 1 .. K + 1
    BY <1>1, <1>4 DEF Arranged
  <2>2. CASE Earlier(k) = {}
    <3>1. BehindAll(k - 1, PlaceOf(k))
      BY <2>1, <2>2 DEF Arranges
    <3>2. Behind(E, 4 + n, k, PlaceOf(k))
      BY <1>5, <2>1, <3>1
    <3> QED
      BY <1>3, <2>1, <2>2, <3>2
  <2>3. CASE Earlier(k) # {}
    <3>1. PICK f : f = First(k)
      OBVIOUS
    <3>2. f \in Earlier(k) /\ f \in 1 .. k - 1 /\ \A j \in Earlier(k) : f <= j
      BY <1>1, <2>1, <2>3, <3>1, FirstWasAppended
    <3>3. f \in 1 .. n
      BY <1>4, <3>2
    <3>4. EndAt(k) = EndAt(f)
      BY <2>1, <2>3, <3>1 DEF Arranges
    <3> QED
      BY <1>3, <2>1, <2>3, <3>2, <3>3, <3>4
  <2> QED
    BY <2>2, <2>3, <1>3, <2>1
<1>7. Behind(E, 4 + n, K + 1, Len(result))
  <2>1. (K + 1) - 1 = K /\ K + 1 \in 1 .. K + 1
    BY <1>1
  <2>2. PICK k \in 1 .. K + 1 : k = K + 1 /\ k - 1 = K
    BY <2>1
  <2>3. BehindAll(k - 1, Len(result))
    BY <2>2 DEF Arranged
  <2> QED
    BY <1>5, <2>2, <2>3
<1>8. \A k \in 1 .. K : H[k] = {} => OffsetOf(result, Order(blocks)[k]) <= LimitOf(cmd)
  <2> SUFFICES ASSUME NEW k \in 1 .. K, H[k] = {}
               PROVE  OffsetOf(result, map[k]) <= BlockmapLimit
    BY DEF LimitOf, BlockmapLimit
  <2>1. Arranges(k) /\ Earlier(k) = {}
    BY <1>3, <1>4 DEF Arranged
  <2> QED
    BY <2>1 DEF Arranges, PlaceOf
<1>9. \A i \in 5 + n .. Len(result) :
        \E k \in 1 .. K : i \in OffsetOf(result, Order(blocks)[k]) + 1 .. E[k]
  <2> SUFFICES ASSUME NEW i \in 5 + n .. Len(result)
               PROVE  \E k \in 1 .. K : i \in OffsetOf(result, map[k]) + 1 .. E[k]
    OBVIOUS
  <2>1. PICK k \in 1 .. K : i \in SpanOf(k)
    BY <1>1 DEF Arranged
  <2>2. E[k] = EndAt(k)
    BY <1>3, <1>4
  <2> QED
    BY <2>1, <2>2 DEF SpanOf, EndAt, PlaceOf
<1> QED
  BY <1>1, <1>2, <1>6, <1>7, <1>8, <1>9 DEF LaidTo

LEMMA RebuiltIsLaid ==
  ASSUME TypeOK, Begun, Placed(Len(blocks)), Lying(Len(blocks)),
         map = Order(blocks), Arranged(Len(blocks))
  PROVE  Laid(cmd, result) /\ Alike(lump, result)
<1>1. PICK n \in Nat : n = Len(blocks)
  BY Beginnings
<1>2. LaidTo(cmd, result, blocks, n)
  <2>1. n \in 0 .. Len(blocks)
    BY <1>1
  <2> QED
    BY <1>1, <2>1, LaidSoFar
<1>3. NumBlocks(result) = n /\ IsValidBlockmap(result) /\ result \in Seq(Word)
  BY <1>1, HeaderKept
<1>4. blocks = MakeBlocklist(lump) /\ MakeBlocklist(result) = MakeBlocklist(lump)
      /\ IsValidBlockmap(lump) /\ \A i \in 1 .. 4 : lump[i] = result[i]
  BY RebuiltLists DEF Begun
<1>5. HasEnds(result)
  BY RebuiltHasEnds
<1> QED
  BY <1>2, <1>3, <1>4, <1>5 DEF Laid, Alike

\* What a run makes of the lump l is laid out as it should be, with the lists of
\* l, and when stacking is not longer.  If there is no such lump then l is kept.
Better(c, l, r) ==
  Laid(c, r) /\ Alike(l, r) /\ (c.op = "stack" => Len(r) <= Len(l))

Refused(c, l) == ~IsValidBlockmap(l) \/ (c.op = "stack" /\ IsOverflowedBlockmap(l))

Ran(c, l, n) ==
  \/ n = l /\ (Refused(c, l) \/ \A r : ~Better(c, l, r))
  \/ ~Refused(c, l) /\ Better(c, l, n)

Request == [op : {"stack", "unstack"}, extblocks : BOOLEAN]

LEMMA AlikeBoth ==
  ASSUME NEW d, NEW e, NEW f, Alike(d, e), Alike(d, f)
  PROVE  Alike(e, f) /\ Alike(e, d)
BY DEF Alike

\* A run leaves what it would make.
LEMMA RanAgain ==
  ASSUME NEW c \in Request, NEW l, NEW n, NEW m, Ran(c, l, n), Ran(c, n, m)
  PROVE  m = n
<1>1. CASE n = l /\ (Refused(c, l) \/ \A r : ~Better(c, l, r))
  BY <1>1 DEF Ran
<1>2. CASE Better(c, l, n) /\ Better(c, n, m)
  <2>1. Laid(c, n) /\ Laid(c, m) /\ Alike(n, m)
    BY <1>2 DEF Better
  <2> QED
    BY <2>1, LaidOnce DEF Request
<1> QED
  BY <1>1, <1>2 DEF Ran

\* To stack what was stacked and then unstacked makes it what it was.
LEMMA RanRound ==
  ASSUME NEW c \in Request, c.op = "stack", NEW u \in Request, u.op = "unstack",
         NEW l, NEW s, NEW t, NEW m, Ran(c, l, s), Ran(u, s, t), Ran(c, t, m), s # l
  PROVE  m = s
<1>1. Laid(c, s) /\ Alike(l, s)
  BY DEF Ran, Better
<1>2. CASE t = s
  BY <1>2, RanAgain
<1>3. CASE Better(u, s, t)
  <2>1. Laid(u, t) /\ Alike(s, t)
    BY <1>3 DEF Better
  <2>2. ~Refused(c, t)
    <3>1. ~IsOverflowedBlockmap(t)
      BY <2>1, UnstackedFits DEF Request
    <3> QED
      BY <2>1, <3>1 DEF Refused, Alike
  <2>3. Better(c, t, s)
    <3>1. Len(s) <= Len(t)
      BY <1>1, <2>1, UnstackedIsLonger DEF Request
    <3>2. Alike(t, s)
      BY <2>1 DEF Alike
    <3> QED
      BY <1>1, <3>1, <3>2 DEF Better
  <2>4. Better(c, t, m)
    BY <2>2, <2>3 DEF Ran
  <2>5. Laid(c, m) /\ Alike(t, m)
    BY <2>4 DEF Better
  <2>6. Alike(s, m)
    BY <2>1, <2>5 DEF Alike
  <2> QED
    BY <1>1, <2>5, <2>6, LaidOnce DEF Request
<1> QED
  BY <1>2, <1>3 DEF Ran

Arranging == pc = "place" => map = Order(blocks) /\ Arranged(at - 1)
NoBetter ==
  pc = "finish" => ~Refused(cmd, lump) /\ \A r : ~Better(cmd, lump, r)
Running == pc = "write" => Ran(cmd, lump, result)
HaveRun == \A i \in 1 .. Len(past) : Ran(past[i], trail[i], trail[i + 1])

RunInv == Arranging /\ NoBetter /\ Running /\ HaveRun

LEMMA Requests == cmd \in Commands => cmd \in Request
BY CommandsAssumption DEF Request

\* A list that cannot be appended has no place in any lump.
LEMMA NoRoom ==
  ASSUME TypeOK, Begun, map = Order(blocks), NEW k \in 1 .. Len(blocks),
         Arranged(k - 1), Earlier(k) = {}, PastLimit,
         NEW r, Laid(cmd, r), Alike(lump, r)
  PROVE  FALSE
<1>1. PICK bl, n, m, R, S, H : Layout(cmd, r, bl, n, m, R, S, H)
  BY HasLayout
<1>2. /\ bl = MakeBlocklist(r) /\ n = NumBlocks(r) /\ m = Order(bl)
      /\ S = SizesOf(bl) /\ H = HostsOf(cmd.op, bl) /\ R = EndsOf(r, bl)
  BY <1>1 DEF Layout
<1>3. bl = blocks /\ m = map
  BY <1>2 DEF Alike, Begun
<1>4. cmd \in [op : {"stack", "unstack"}, extblocks : BOOLEAN]
  BY Requests DEF TypeOK, Request
<1>5. /\ n \in Nat /\ Len(bl) = n /\ R \in [1 .. n -> Nat] /\ S \in [1 .. n -> Nat]
      /\ \A j \in 1 .. n : H[j] \subseteq 1 .. j - 1
      /\ \A j \in 1 .. n :
           /\ m[j] \in 1 .. n /\ OffsetOf(r, m[j]) \in Nat
           /\ R[j] = OffsetOf(r, m[j]) + S[j]
      /\ LaidTo(cmd, r, bl, n)
  BY <1>1, <1>4, LaidMeans
<1>6. k \in 1 .. n /\ k - 1 \in 0 .. n
  BY <1>3, <1>5
<1>7. PICK E : E = EndsOf(result, bl)
  OBVIOUS
<1>8. E \in [1 .. n -> Nat]
  <2>1. ASSUME NEW j \in 1 .. n PROVE E[j] \in Nat
    <3>1. E[j] = EndAt(j)
      BY <1>2, <1>3, <1>5, <1>7 DEF EndsOf, EndAt, PlaceOf, ListOf
    <3> QED
      BY <1>3, <1>5, <3>1, EndsAreNumbers
  <2>2. E = [j \in 1 .. n |-> E[j]]
    BY <1>5, <1>7 DEF EndsOf
  <2> QED
    BY <2>1, <2>2
<1>9. PICK K \in 0 .. n : K = k - 1
  BY <1>6
<1>10. PICK N \in Nat : N = 4 + n
  BY <1>5
<1>11. LaidTo(cmd, result, bl, K)
  BY <1>3, <1>5, <1>9, LaidSoFar
<1>12. Chained(E, S, H, N, K)
  BY <1>2, <1>5, <1>7, <1>10, <1>11 DEF LaidTo
<1>13. Chained(R, S, H, N, n)
  BY <1>2, <1>5, <1>10 DEF LaidTo
<1>14. Chained(R, S, H, N, K)
  <2>1. \A j \in 1 .. K : j \in 1 .. n
    BY <1>5
  <2> QED
    BY <1>13, <2>1 DEF Chained
<1>15. SameEnds(E, R, K)
  BY <1>5, <1>8, <1>12, <1>14, ChainOnce
<1>16. PICK p \in Int, o \in Int : p = Len(result) /\ o = OffsetOf(r, m[k])
  BY <1>5, <1>6 DEF TypeOK
<1>17. Behind(E, N, k, p)
  <2>1. Behind(E, 4 + Len(bl), K + 1, Len(result))
    BY <1>7, <1>11 DEF LaidTo
  <2>2. K + 1 = k
    BY <1>5, <1>6, <1>9
  <2> QED
    BY <1>5, <1>10, <1>16, <2>1, <2>2
<1>18. H[k] = {}
  BY <1>2, <1>3, <1>5, <1>6 DEF HostsOf, Earlier
<1>19. Behind(R, N, k, o)
  <2>1. Behind(R, N, k, R[k] - S[k])
    BY <1>6, <1>13, <1>18 DEF Chained
  <2>2. PICK s \in Nat : s = S[k]
    BY <1>5, <1>6
  <2>3. R[k] = o + s
    BY <1>5, <1>6, <1>16, <2>2
  <2>4. R[k] - S[k] = o
    BY <2>2, <2>3
  <2> QED
    BY <2>1, <2>4
<1>20. o = p
  <2>1. k \in 1 .. n + 1 /\ \A j \in 1 .. k - 1 : E[j] = R[j]
    BY <1>5, <1>6, <1>9, <1>15 DEF SameEnds
  <2>2. n \in Nat /\ R \in [1 .. n -> Nat]
    BY <1>5
  <2>3. p = o
    BY <1>8, <1>17, <1>19, <2>1, <2>2, BehindOnce
  <2> QED
    BY <2>3
<1>21. o <= LimitOf(cmd)
  BY <1>2, <1>5, <1>6, <1>16, <1>18 DEF LaidTo
<1>22. p > LimitOf(cmd)
  BY <1>16 DEF PastLimit, LimitOf, BlockmapLimit
<1>23. LimitOf(cmd) \in Int
  BY Words DEF LimitOf, EXTENDED_MAX_BLOCKMAP_OFFSET, VANILLA_MAX_BLOCKMAP_OFFSET
<1> QED
  BY <1>16, <1>20, <1>21, <1>22, <1>23

LEMMA RunFirst == Init => RunInv
BY DEF Init, RunInv, Arranging, NoBetter, Running, HaveRun

LEMMA HeaderAndTable ==
  ASSUME NEW e \in Seq(Word), Len(e) >= 4, NEW n \in Nat,
         NEW u, u = SubSeq(e, 1, 4) \o [b \in 1 .. n |-> 0]
  PROVE  Len(u) = 4 + n
<1>1. PICK h : h = SubSeq(e, 1, 4)
  OBVIOUS
<1>2. PICK z : z = [b \in 1 .. n |-> 0]
  OBVIOUS
<1>3. h \in Seq(Word) /\ Len(h) = 4
  BY <1>1
<1>4. 0 \in Word
  BY Words
<1>5. z \in Seq(Word) /\ Len(z) = n
  BY <1>2, <1>4
<1>6. u = h \o z
  BY <1>1, <1>2
<1>7. Len(u) = Len(h) + Len(z)
  BY <1>3, <1>5, <1>6, JointWords
<1> QED
  BY <1>3, <1>5, <1>7

LEMMA CheckArranges == ASSUME BlockmapInv, Check PROVE Arranging' /\ NoBetter' /\ Running'
<1>1. pc = "check" /\ UNCHANGED <<lump, cmd>>
  BY DEF Check
<1>2. CASE /\ Keep(TRUE) \/ Keep(FALSE)
           /\ Refused(cmd, lump)
  <2>1. pc' = "write" /\ result' = lump
    BY <1>2 DEF Keep, Goto
  <2>2. Ran(cmd, lump, lump)
    BY <1>2 DEF Ran
  <2>3. Ran(cmd, lump, result)'
    BY <1>1, <2>1, <2>2
  <2> QED
    BY <2>1, <2>3 DEF Arranging, NoBetter, Running
<1>3. CASE /\ IsValidBlockmap(lump)
           /\ blocks' = MakeBlocklist(lump)
           /\ map' = LargestLast(SortedMap(MakeBlocklist(lump)))
           /\ at' = 1
           /\ result' = SubSeq(lump, 1, 4) \o [b \in 1 .. NumBlocks(lump) |-> 0]
           /\ Goto("place")
  <2>1. BlockmapInv' /\ pc' = "place"
    BY <1>3, CheckKeeps DEF Goto
  <2>2. lump \in Seq(Word) /\ HasEnds(lump)
    BY <1>3 DEF BlockmapInv, TypeOK, Sound
  <2>3. PICK n \in Nat : n = NumBlocks(lump)
    BY <1>3, <2>2, OffsetsAreWords
  <2>4. Len(blocks') = n
    BY <1>3, <2>2, <2>3, BlocksAreLists
  <2>5. Len(result') = 4 + n
    BY <1>3, <2>2, <2>3, HeaderAndTable DEF IsValidBlockmap
  <2>6. PICK z : z = 0
    OBVIOUS
  <2>7. 1 .. z = {} /\ 5 + Len(blocks') .. Len(result') = {} /\ at' - 1 = z
    BY <1>3, <2>3, <2>4, <2>5, <2>6
  <2>8. BehindAll(z, Len(result))'
    BY <2>3, <2>4, <2>5, <2>7 DEF BehindAll
  <2>9. Arranged(z)'
    BY <2>7, <2>8 DEF Arranged
  <2>10. Arranged(at - 1)'
    BY <2>7, <2>9 DEF Arranged, BehindAll
  <2>11. map' = Order(blocks)'
    BY <1>3 DEF Order
  <2> QED
    BY <2>1, <2>10, <2>11 DEF Arranging, NoBetter, Running
<1> QED
  BY <1>2, <1>3 DEF Check, Refused

LEMMA PlaceArranges ==
  ASSUME BlockmapInv, SharedFits, Arranging, PlaceBlock
  PROVE  Arranging' /\ NoBetter' /\ Running'
<1>1. /\ pc = "place" /\ at \in DOMAIN map
      /\ UNCHANGED <<lump, cmd, blocks, map, success>>
      /\ TypeOK /\ Begun /\ Placed(at - 1) /\ Apart(at - 1)
      /\ map = Order(blocks) /\ Arranged(at - 1)
  BY DEF PlaceBlock, BlockmapInv, Placing, Arranging
<1>2. Len(blocks) \in Nat /\ DOMAIN map = 1 .. Len(blocks)
  BY <1>1, Beginnings
<1>3. PICK k \in 1 .. Len(blocks) : k = at
  BY <1>1, <1>2
<1>4. Placed(k - 1) /\ Apart(k - 1) /\ Arranged(k - 1)
  BY <1>1, <1>3
<1>5. ASSUME Arranged(k)', at' = at + 1, pc' = "place"
      PROVE  Arranging' /\ NoBetter' /\ Running'
  <2>1. at' - 1 = k
    BY <1>2, <1>3, <1>5
  <2>2. Arranged(at - 1)'
    BY <1>5, <2>1 DEF Arranged, BehindAll
  <2>3. map' = Order(blocks)'
    BY <1>1
  <2> QED
    BY <1>5, <2>2, <2>3 DEF Arranging, NoBetter, Running
<1>6. CASE /\ Earlier(at) # {}
           /\ LET first == CHOOSE j \in Earlier(at) : \A i \in Earlier(at) : j <= i
              IN result' = [result EXCEPT
                              ![4 + map[at]] = SharedOffset(map[at], map[first])]
           /\ at' = at + 1 /\ pc' = "place"
  <2>1. result' = [result EXCEPT
                     ![4 + map[k]] = SharedOffset(map[k], map[First(k)])]
    BY <1>3, <1>6 DEF First
  <2>2. SharedAt(k) < 2 * Half /\ Earlier(k) # {}
    BY <1>1, <1>3, <1>6 DEF SharedFits
  <2>3. Arranged(k)'
    BY <1>1, <1>4, <2>1, <2>2, SharedIsArranged
  <2> QED
    BY <1>5, <1>6, <2>3
<1>7. CASE Earlier(at) = {} /\ PastLimit /\ pc' = "finish"
  <2>1. Earlier(k) = {}
    BY <1>3, <1>7
  <2>2. \A r : ~Better(cmd, lump, r)
    BY <1>1, <1>4, <1>7, <2>1, NoRoom DEF Better
  <2>3. ~Refused(cmd, lump)
    BY <1>1 DEF Begun, Refused
  <2>4. (~Refused(cmd, lump) /\ \A r : ~Better(cmd, lump, r))'
    BY <1>1, <2>2, <2>3
  <2> QED
    BY <1>7, <2>4 DEF Arranging, NoBetter, Running
<1>8. CASE /\ Earlier(at) = {} /\ ~PastLimit
           /\ result' = [result EXCEPT ![4 + map[at]] = Len(result) % (2 * Half)]
                          \o blocks[map[at]]
           /\ at' = at + 1 /\ pc' = "place"
  <2>1. Earlier(k) = {}
    BY <1>3, <1>8
  <2>2. result' = [result EXCEPT ![4 + map[k]] = Len(result) % (2 * Half)]
                    \o blocks[map[k]]
    BY <1>3, <1>8
  <2>3. Arranged(k)'
    BY <1>1, <1>4, <1>8, <2>1, <2>2, AppendedIsArranged
  <2> QED
    BY <1>5, <1>8, <2>3
<1> QED
  BY <1>1, <1>6, <1>7, <1>8 DEF PlaceBlock, Goto

LEMMA FinishRuns ==
  ASSUME BlockmapInv, StackInv, RunInv, Finish
  PROVE  Arranging' /\ NoBetter' /\ Running'
<1>1. UNCHANGED <<lump, cmd, blocks, map, at>> /\ pc' = "write"
  BY DEF Finish, Keep, Goto
<1>2. ASSUME Ran(cmd, lump, result') PROVE Arranging' /\ NoBetter' /\ Running'
  <2>1. Ran(cmd, lump, result)'
    BY <1>1, <1>2
  <2> QED
    BY <1>1, <2>1 DEF Arranging, NoBetter, Running
<1>3. CASE pc = "finish"
  <2>1. result = <<>>
    BY <1>3 DEF BlockmapInv, GivenUp
  <2>2. result' = lump
    BY <2>1 DEF Finish, Keep
  <2>3. Ran(cmd, lump, lump)
    BY <1>3 DEF RunInv, NoBetter, Ran
  <2> QED
    BY <1>2, <2>2, <2>3
<1>4. CASE pc = "place" /\ at = Len(map) + 1
  <2>1. /\ TypeOK /\ Begun /\ Placed(at - 1) /\ Apart(at - 1) /\ Lying(at - 1)
        /\ map = Order(blocks) /\ Arranged(at - 1)
    BY <1>4 DEF BlockmapInv, Placing, StackInv, Lain, RunInv, Arranging
  <2>2. at - 1 = Len(blocks) /\ Len(blocks) \in Nat
    BY <1>4, <2>1, Beginnings
  <2>3. Placed(Len(blocks)) /\ Lying(Len(blocks)) /\ Arranged(Len(blocks))
    BY <2>1, <2>2
  <2>4. Laid(cmd, result) /\ Alike(lump, result)
    BY <2>1, <2>3, RebuiltIsLaid
  <2>5. ~Refused(cmd, lump)
    BY <2>1 DEF Begun, Refused
  <2>6. Len(result) \in Nat /\ Len(result) >= 4 + Len(blocks) /\ Len(lump) \in Nat
    BY <2>1, Beginnings DEF TypeOK
  <2>7. result # <<>>
    BY <2>2, <2>6
  <2>8. CASE Worse /\ result' = lump
    <3>1. ASSUME NEW r, Better(cmd, lump, r) PROVE FALSE
      <4>1. Laid(cmd, r) /\ Alike(lump, r)
        BY <3>1 DEF Better
      <4>2. cmd \in [op : {"stack", "unstack"}, extblocks : BOOLEAN]
        BY <2>1, Requests DEF TypeOK, Request
      <4>3. r = result
        <5>1. PICK n : n = result
          OBVIOUS
        <5>2. Laid(cmd, n) /\ Alike(r, n)
          BY <2>4, <4>1, <5>1, AlikeBoth
        <5> QED
          BY <4>1, <4>2, <5>1, <5>2, LaidOnce
      <4> QED
        BY <2>6, <2>8, <3>1, <4>3 DEF Worse, Better
    <3>2. Ran(cmd, lump, lump)
      BY <3>1 DEF Ran
    <3> QED
      BY <1>2, <2>8, <3>2
  <2>9. CASE ~Worse /\ UNCHANGED result
    <3>1. cmd.op = "stack" => Len(result) <= Len(lump)
      BY <2>6, <2>9 DEF Worse
    <3>2. Ran(cmd, lump, result)
      BY <2>4, <2>5, <3>1 DEF Ran, Better
    <3> QED
      BY <1>2, <2>9, <3>2
  <2> QED
    BY <2>7, <2>8, <2>9 DEF Finish, Keep
<1> QED
  BY <1>3, <1>4 DEF Finish

LEMMA WriteRan == ASSUME BlockmapInv, RunInv, Write PROVE HaveRun'
<1>1. /\ pc = "write" /\ past' = Append(past, cmd) /\ trail' = Append(trail, result)
      /\ TypeOK /\ OnDisk
  BY DEF Write, BlockmapInv
<1>2. /\ past \in Seq(Commands) /\ trail \in Seq(Seq(Word)) /\ cmd \in Commands
      /\ result \in Seq(Word)
  BY <1>1 DEF TypeOK
<1>3. PICK n \in Nat : n = Len(past)
  BY <1>2
<1>4. Len(trail) = n + 1 /\ trail[n + 1] = lump
  BY <1>1, <1>3 DEF OnDisk, was
<1>5. /\ Len(past') = n + 1 /\ past'[n + 1] = cmd
      /\ \A i \in 1 .. n : past'[i] = past[i]
  BY <1>1, <1>2, <1>3
<1>6. /\ trail'[n + 2] = result
      /\ \A i \in 1 .. n + 1 : trail'[i] = trail[i]
  BY <1>1, <1>2, <1>3, <1>4
<1>7. ASSUME NEW i \in 1 .. n + 1 PROVE Ran(past'[i], trail'[i], trail'[i + 1])
  <2>1. CASE i = n + 1
    <3>1. past'[i] = cmd /\ trail'[i] = lump /\ trail'[i + 1] = result
      <4>1. n + 1 \in 1 .. n + 1 /\ (n + 1) + 1 = n + 2
        BY <1>3
      <4> QED
        BY <1>4, <1>5, <1>6, <2>1, <4>1
    <3>2. Ran(cmd, lump, result)
      BY <1>1 DEF RunInv, Running
    <3> QED
      BY <3>1, <3>2
  <2>2. CASE i # n + 1
    <3>1. i \in 1 .. n /\ i \in 1 .. n + 1 /\ i + 1 \in 1 .. n + 1
      BY <1>3, <2>2
    <3>2. past'[i] = past[i] /\ trail'[i] = trail[i] /\ trail'[i + 1] = trail[i + 1]
      BY <1>5, <1>6, <3>1
    <3>3. Ran(past[i], trail[i], trail[i + 1])
      BY <1>3, <3>1 DEF RunInv, HaveRun
    <3> QED
      BY <3>2, <3>3
  <2> QED
    BY <2>1, <2>2
<1> QED
  BY <1>5, <1>7 DEF HaveRun

LEMMA RunNext ==
  ASSUME BlockmapInv, SharedFits, StackInv, RunInv, [Next]_vars
  PROVE  RunInv'
<1>1. CASE UNCHANGED vars
  <2>1. UNCHANGED <<lump, pc, cmd, blocks, map, at, result, past, trail>>
    BY <1>1 DEF vars, local, history
  <2>2. Arranging'
    <3>1. PICK n : n = at - 1
      OBVIOUS
    <3>2. pc = "place" => Arranged(n)' /\ map = Order(blocks)
      BY <2>1, <3>1, ArrangedStill DEF RunInv, Arranging
    <3>3. pc' = "place" => map' = Order(blocks)'
      BY <2>1, <3>2
    <3>4. at' - 1 = n
      BY <2>1, <3>1
    <3> QED
      BY <2>1, <3>2, <3>3, <3>4 DEF Arranging, Arranged, BehindAll
  <2>3. NoBetter' /\ Running' /\ HaveRun'
    BY <2>1 DEF RunInv, NoBetter, Running, HaveRun
  <2> QED
    BY <2>2, <2>3 DEF RunInv
<1>2. ASSUME UNCHANGED <<past, trail>> PROVE HaveRun'
  BY <1>2 DEF RunInv, HaveRun
<1>3. ASSUME NEW c \in Commands, Start(c) PROVE RunInv'
  <2>1. pc' = "check" /\ UNCHANGED <<past, trail>>
    BY <1>3 DEF Start, Goto, history
  <2> QED
    BY <1>2, <2>1 DEF RunInv, Arranging, NoBetter, Running
<1>4. CASE Check
  <2>1. UNCHANGED <<past, trail>>
    BY <1>4 DEF Check, history
  <2> QED
    BY <1>2, <1>4, <2>1, CheckArranges DEF RunInv
<1>5. CASE PlaceBlock
  <2>1. UNCHANGED <<past, trail>>
    BY <1>5 DEF PlaceBlock, history
  <2> QED
    BY <1>2, <1>5, <2>1, PlaceArranges DEF RunInv
<1>6. CASE Finish
  <2>1. UNCHANGED <<past, trail>>
    BY <1>6 DEF Finish, history
  <2> QED
    BY <1>2, <1>6, <2>1, FinishRuns DEF RunInv
<1>7. CASE Write
  <2>1. pc' = "idle"
    BY <1>7 DEF Write, Goto
  <2> QED
    BY <1>7, <2>1, WriteRan DEF RunInv, Arranging, NoBetter, Running
<1> QED
  BY <1>1, <1>3, <1>4, <1>5, <1>6, <1>7 DEF Next, Done

LEMMA RunsRepeat == ASSUME TypeOK, HaveRun PROVE Repeatable
<1>1. PICK n \in Nat : n = Len(past)
  BY DEF TypeOK
<1>2. \A i \in 1 .. n : past[i] \in Request
  <2>1. \A i \in 1 .. n : past[i] \in Commands
    BY <1>1 DEF TypeOK
  <2> QED
    BY <2>1, CommandsAssumption DEF Request
<1>3. ASSUME NEW i \in 2 .. n, past[i] = past[i - 1]
      PROVE  trail[i + 1] = trail[i]
  <2>1. PICK j \in 1 .. n : j = i - 1 /\ j + 1 = i
    <3>1. i - 1 \in 1 .. n /\ (i - 1) + 1 = i
      BY <1>1
    <3> QED
      BY <3>1
  <2>2. i \in 1 .. n
    BY <1>1
  <2>3. Ran(past[j], trail[j], trail[i])
    BY <1>1, <2>1 DEF HaveRun
  <2>4. Ran(past[j], trail[i], trail[i + 1])
    BY <1>1, <1>3, <2>1, <2>2 DEF HaveRun
  <2> QED
    BY <1>2, <2>1, <2>3, <2>4, RanAgain
<1>4. ASSUME NEW i \in 3 .. n, past[i] = past[i - 2], past[i].op = "stack",
             past[i - 1] = [past[i] EXCEPT !.op = "unstack"],
             trail[i - 1] # trail[i - 2]
      PROVE  trail[i + 1] = trail[i - 1]
  <2>1. PICK j \in 1 .. n : j = i - 1 /\ j + 1 = i
    <3>1. i - 1 \in 1 .. n /\ (i - 1) + 1 = i
      BY <1>1
    <3> QED
      BY <3>1
  <2>2. PICK h \in 1 .. n : h = i - 2 /\ h + 1 = j
    <3>1. i - 2 \in 1 .. n /\ (i - 2) + 1 = i - 1
      BY <1>1
    <3> QED
      BY <2>1, <3>1
  <2>3. i \in 1 .. n
    BY <1>1
  <2>4. PICK c \in Request : c = past[i]
    BY <1>2, <2>3
  <2>5. PICK u \in Request : u = past[j]
    BY <1>2
  <2>6. c.op = "stack" /\ u.op = "unstack"
    BY <1>4, <2>1, <2>4, <2>5 DEF Request
  <2>7. /\ Ran(past[h], trail[h], trail[h + 1]) /\ Ran(past[j], trail[j], trail[j + 1])
        /\ Ran(past[i], trail[i], trail[i + 1])
    BY <1>1, <2>3 DEF HaveRun
  <2>8. /\ Ran(c, trail[h], trail[j]) /\ Ran(u, trail[j], trail[i])
        /\ Ran(c, trail[i], trail[i + 1])
    BY <1>4, <2>1, <2>2, <2>4, <2>5, <2>7
  <2>9. trail[j] # trail[h]
    BY <1>4, <2>1, <2>2
  <2>10. trail[i + 1] = trail[j]
    BY <2>6, <2>8, <2>9, RanRound
  <2> QED
    BY <2>1, <2>10
<1>5. \A i \in 2 .. Len(past) : past[i] = past[i - 1] => trail[i + 1] = trail[i]
  BY <1>1, <1>3
<1>6. \A i \in 3 .. Len(past) :
        /\ past[i] = past[i - 2] /\ past[i].op = "stack"
        /\ past[i - 1] = [past[i] EXCEPT !.op = "unstack"]
        => trail[i + 1] = trail[i - 1] \/ trail[i - 1] = trail[i - 2]
  BY <1>1, <1>4
<1> QED
  BY <1>5, <1>6 DEF Repeatable

\* A run makes of a lump the only one that has the same lists, laid out in the
\* order of the sorted map, or leaves it if there is none.  So the same command
\* again changes nothing, and stacking undoes what unstacking did to a lump that
\* was stacked.
THEOREM BlocksRepeatable ==
  ASSUME EndsFound PROVE Spec /\ []SharedFits => []Repeatable
<1>1. Init => RunInv
  BY RunFirst
<1>2. BlockmapInv /\ SharedFits /\ StackInv /\ RunInv /\ [Next]_vars => RunInv'
  BY RunNext
<1>3. BlockmapInv /\ RunInv => Repeatable
  BY RunsRepeat DEF BlockmapInv, RunInv
<1> QED
  BY <1>1, <1>2, <1>3, BlockmapInvariance, StackInvariance, PTL DEF Spec

-----------------------------------------------------------------------------
(* Lists that are not the ends of others *)

StaysUnnested == IsValidBlockmap(lump) => Unnested(MakeBlocklist(lump))

\* Then a list is found only where the same one was appended.
LEMMA UnnestedFits ==
  ASSUME BlockmapInv, StaysUnnested
  PROVE  SharedFits /\ SharedSigned
<1> SUFFICES ASSUME pc = "place", at \in DOMAIN map, Earlier(at) # {}
             PROVE  /\ SharedAt(at) < 2 * Half
                    /\ ~cmd.extblocks => SharedAt(at) <= VANILLA_MAX_BLOCKMAP_OFFSET
  BY DEF SharedFits, SharedSigned
<1>1. TypeOK /\ Begun /\ Placed(at - 1)
  BY DEF BlockmapInv, Placing
<1>2. Len(blocks) \in Nat /\ DOMAIN map = 1 .. Len(blocks)
  BY <1>1, Beginnings
<1>3. PICK k \in 1 .. Len(blocks) : k = at
  BY <1>2
<1>4. PICK f \in 1 .. k - 1 :
        /\ f = First(k) /\ f \in Earlier(k) /\ Earlier(f) = {}
  BY <1>1, <1>3, FirstWasAppended
<1>5. f \in 1 .. Len(blocks) /\ f \in 1 .. at - 1
  BY <1>2, <1>3
<1>6. Appended(f)
  BY <1>1, <1>4, <1>5 DEF Placed, Settled
<1>7. ListOf(k) = ListOf(f)
  <2>1. IsSuffix(blocks[map[k]], blocks[map[f]])
    BY <1>4 DEF Earlier, Matches
  <2>2. map[k] \in DOMAIN blocks /\ map[f] \in DOMAIN blocks
    BY <1>1, <1>5, Beginnings
  <2>3. Unnested(blocks)
    BY <1>1 DEF StaysUnnested, Begun
  <2> QED
    BY <2>1, <2>2, <2>3 DEF Unnested, ListOf
<1>8. PICK p \in Nat, n \in Nat : p = PlaceOf(f) /\ n = Len(ListOf(f))
  BY <1>1, <1>5, Beginnings, ListsPlaced
<1>9. SharedAt(at) = p
  <2>1. SharedAt(at) = p + n - n
    BY <1>3, <1>4, <1>7, <1>8 DEF SharedAt
  <2> QED
    BY <2>1
<1>10. p <= BlockmapLimit
  BY <1>6, <1>8 DEF Appended
<1>11. Half \in Nat /\ Half > 3 /\ Sentinel = 2 * Half - 1
  BY Words
<1>12. p < 2 * Half
  BY <1>10, <1>11 DEF BlockmapLimit, EXTENDED_MAX_BLOCKMAP_OFFSET,
     VANILLA_MAX_BLOCKMAP_OFFSET
<1> QED
  BY <1>9, <1>10, <1>12 DEF BlockmapLimit

LEMMA UnnestedNext ==
  ASSUME BlockmapInv, StackInv, StaysUnnested, [Next]_vars
  PROVE  StaysUnnested'
<1>1. CASE UNCHANGED lump
  BY <1>1 DEF StaysUnnested
<1>2. CASE Write
  <2>1. pc = "write" /\ lump' = result /\ TypeOK
    BY <1>2 DEF Write, BlockmapInv
  <2>2. CASE Rebuilt /\ Lying(Len(blocks))
    <3>1. MakeBlocklist(result) = MakeBlocklist(lump) /\ IsValidBlockmap(lump)
      BY <2>1, <2>2, RebuiltLists DEF Rebuilt, Begun
    <3> QED
      BY <2>1, <3>1 DEF StaysUnnested
  <2> QED
    BY <2>1, <2>2 DEF StackInv, Whole, StaysUnnested
<1> QED
  BY <1>1, <1>2 DEF Next, Start, Check, PlaceBlock, Finish, Done, vars

\* If no list of the blockmap is the end of a longer one, offsets can always
\* reach what is shared.
THEOREM OffsetsReach ==
  ASSUME EndsFound, NoneNested
  PROVE  Spec => [](SharedFits /\ SharedSigned)
<1>1. Init => StackInv /\ StaysUnnested
  <2>1. Init => StaysUnnested
    BY DEF Init, NoneNested, StaysUnnested
  <2> QED
    BY <2>1, StackedFirst
<1>2. BlockmapInv /\ StackInv /\ StaysUnnested /\ [Next]_vars
        => StackInv' /\ StaysUnnested'
  BY UnnestedFits, StackedNext, UnnestedNext
<1>3. BlockmapInv /\ StaysUnnested => SharedFits /\ SharedSigned
  BY UnnestedFits
<1> QED
  BY <1>1, <1>2, <1>3, BlockmapInvariance, PTL DEF Spec

\* For such a blockmap everything holds without a word on offsets: it keeps its
\* lists, stacking is complete and repeatable, and vanilla engines can go on
\* reading it.
THEOREM UnnestedKept ==
  ASSUME EndsFound, Meant, NoneNested
  PROVE  Spec => [](KeepsLists /\ FullyStacked /\ Repeatable /\ VanillaStaysVanilla)
BY OffsetsReach, BlockListsKept, BlocksStacked, BlocksRepeatable, VanillaKept, PTL
=============================================================================
