----------------------------- MODULE SortProofs -----------------------------
(***************************************************************************)
(* MakeSortedMap() sorts: for any number of elements and any keys.         *)
(***************************************************************************)
EXTENDS Sort, Ranks

\* The array with the pivot back at the end, where the call took it from.
Whole ==
  IF step = "partition"
  THEN [elements EXCEPT ![calls[1].last] = pivot]
  ELSE elements

\* The calls are for parts of the array, each to the right of those that are
\* to return sooner.
CallsApart ==
  /\ \A k \in 1 .. Len(calls) :
       /\ 1 <= calls[k].first /\ calls[k].last <= Len(key)
       /\ calls[k].first <= calls[k].last + 1
  /\ \A j, k \in 1 .. Len(calls) : j < k => calls[j].last < calls[k].first

\* Up to "small" the elements precede the pivot, from there to "scan" not.
Partitioned ==
  step = "partition" =>
    /\ calls # <<>>
    /\ calls[1].first <= small /\ small <= scan /\ scan <= calls[1].last
    /\ pivot \in Element
    /\ \A p \in calls[1].first .. small - 1 : Before(elements[p], pivot)
    /\ \A p \in small .. scan - 1 : ~Before(elements[p], pivot)

\* No element is there twice.
Distinct == \A i, j \in Element : Whole[i] = Whole[j] => i = j

\* Two elements are in order unless a call that is yet to return has both.
Apart ==
  \A i, j \in Element : i < j =>
    \/ Before(Whole[i], Whole[j])
    \/ \E k \in 1 .. Len(calls) : calls[k].first <= i /\ j <= calls[k].last

SortInv == SortTypeOK /\ CallsApart /\ Partitioned /\ Distinct /\ Apart

\* What the order of two elements rests on: it is transitive, and total.
LEMMA BeforeIsTotalOrder ==
  ASSUME key \in Seq(Int)
  PROVE  /\ \A a, b, c \in Element : Before(a, b) /\ Before(b, c) => Before(a, c)
         /\ \A a, b \in Element : a # b => Before(a, b) \/ Before(b, a)
         /\ \A a \in Element : ~Before(a, a)
BY DEF Before, Element

\* The whole array holds elements only.
LEMMA WholeTyped ==
  ASSUME SortTypeOK, CallsApart, Partitioned
  PROVE  Whole \in [Element -> Element]
BY DEF SortTypeOK, CallsApart, Partitioned, Whole, Element, Call

\* Exchanging two elements of the part of one call keeps the order of all that
\* no call has together.
LEMMA ExchangeApart ==
  ASSUME Apart, CallsApart, SortTypeOK,
         NEW k \in 1 .. Len(calls),
         NEW p \in Element, NEW q \in Element,
         calls[k].first <= p, p <= calls[k].last,
         calls[k].first <= q, q <= calls[k].last,
         NEW i \in Element, NEW j \in Element, i < j,
         ~ \E l \in 1 .. Len(calls) :
             calls[l].first <= i /\ j <= calls[l].last,
         Whole \in [Element -> Element]
  PROVE  Before([Whole EXCEPT ![p] = Whole[q], ![q] = Whole[p]][i],
                [Whole EXCEPT ![p] = Whole[q], ![q] = Whole[p]][j])
<1> DEFINE At(e) == IF e = p THEN q ELSE IF e = q THEN p ELSE e
           swapped == [Whole EXCEPT ![p] = Whole[q], ![q] = Whole[p]]
<1>1. swapped[i] = Whole[At(i)] /\ swapped[j] = Whole[At(j)]
  OBVIOUS
<1>2. At(i) \in Element /\ At(j) \in Element
  OBVIOUS
<1>3. /\ calls[k].first \in Nat /\ calls[k].last \in Nat
      /\ \A l \in 1 .. Len(calls) :
           calls[l].first \in Nat /\ calls[l].last \in Nat
  <2>1. \A l \in 1 .. Len(calls) : calls[l] \in Call
    BY DEF SortTypeOK
  <2> QED
    BY <2>1 DEF Call
<1>4. At(i) < At(j)
  BY <1>3, SMTT(60) DEF Element
<1>5. ~ \E l \in 1 .. Len(calls) :
          calls[l].first <= At(i) /\ At(j) <= calls[l].last
  <2> SUFFICES ASSUME NEW l \in 1 .. Len(calls),
                      calls[l].first <= At(i), At(j) <= calls[l].last
               PROVE  FALSE
    OBVIOUS
  <2>1. CASE l = k
    BY <1>3, <2>1 DEF Element
  <2>2. CASE l < k
    <3>1. calls[l].last < calls[k].first
      BY <2>2 DEF CallsApart
    <3> QED
      BY <1>3, <3>1 DEF Element
  <2>3. CASE k < l
    <3>1. calls[k].last < calls[l].first
      BY <2>3 DEF CallsApart
    <3> QED
      BY <1>3, <3>1, SMTT(60) DEF Element
  <2> QED
    BY <2>1, <2>2, <2>3
<1> QED
  BY <1>1, <1>2, <1>4, <1>5 DEF Apart

\* At first no call has begun, and one is for the whole array.
LEMMA SortInitInv == SortInit => SortInv
<1> SUFFICES ASSUME SortInit PROVE SortInv
  OBVIOUS
<1> USE DEF SortInit
<1>1. SortTypeOK
  BY DEF SortTypeOK, Element, Call
<1>2. CallsApart /\ Partitioned /\ Distinct /\ Apart
  BY DEF CallsApart, Partitioned, Distinct, Apart, Whole, Element
<1> QED
  BY <1>1, <1>2 DEF SortInv

\* A call that has nothing to sort returns.
LEMMA ReturnKeeps == SortInv /\ Return => SortInv'
<1> SUFFICES ASSUME SortInv, Return PROVE SortInv'
  OBVIOUS
<1> USE DEF SortInv, Return
<1>1. /\ calls' \in Seq(Call) /\ Len(calls') = Len(calls) - 1
      /\ \A k \in 1 .. Len(calls') : calls'[k] = calls[k + 1]
      /\ calls \in Seq(Call) /\ Len(calls) > 0 /\ Head(calls) = calls[1]
  BY DEF SortTypeOK
<1>2. SortTypeOK'
  BY <1>1 DEF SortTypeOK, Element
<1>3. CallsApart'
  BY <1>1, SMTT(60) DEF CallsApart, SortTypeOK
<1>4. Partitioned'
  BY DEF Partitioned
<1>5. Whole' = Whole
  BY DEF Whole
<1>6. Distinct'
  BY <1>5 DEF Distinct, Element
<1>7. Apart'
  <2> SUFFICES ASSUME NEW i \in Element, NEW j \in Element, i < j,
                      ~Before(Whole[i], Whole[j])
               PROVE  \E k \in 1 .. Len(calls') :
                        calls'[k].first <= i /\ j <= calls'[k].last
    BY <1>5 DEF Apart, Element, Before
  <2>1. PICK k \in 1 .. Len(calls) : calls[k].first <= i /\ j <= calls[k].last
    BY DEF Apart
  <2>2. calls[1] \in Call /\ i \in Nat /\ j \in Nat
    BY <1>1 DEF Element, SortTypeOK
  <2>3. k # 1
    BY <1>1, <2>1, <2>2 DEF CallSize, Call
  <2>4. k - 1 \in 1 .. Len(calls') /\ calls'[k - 1] = calls[k]
    BY <1>1, <2>3
  <2> QED
    BY <2>1, <2>4
<1> QED
  BY <1>2, <1>3, <1>4, <1>6, <1>7

\* A call takes its pivot out of the array: the whole array has two elements of
\* the call's part exchanged.
LEMMA ChooseKeeps == SortInv /\ ChoosePivot => SortInv'
<1> SUFFICES ASSUME SortInv, ChoosePivot PROVE SortInv'
  OBVIOUS
<1> DEFINE c == calls[1]
           m == Middle(c)
<1> USE DEF SortInv
<1>1. /\ calls # <<>> /\ step = "call" /\ CallSize(c) > 1
      /\ pivot' = elements[m]
      /\ elements' = [elements EXCEPT ![m] = elements[c.last]]
      /\ scan' = c.first /\ small' = c.first
      /\ step' = "partition" /\ UNCHANGED <<key, calls>>
  <2>1. calls # <<>> => Head(calls) = calls[1]
    BY DEF SortTypeOK
  <2> QED
    BY <2>1 DEF ChoosePivot
<1>2. /\ c \in Call /\ 1 \in 1 .. Len(calls)
      /\ 1 <= c.first /\ c.last <= Len(key) /\ Len(key) \in Nat
      /\ c.first <= c.last + 1
  BY <1>1 DEF SortTypeOK, CallsApart
<1>3. /\ m \in Nat /\ c.last \in Nat /\ c.first \in Nat
      /\ c.first <= m /\ m <= c.last /\ c.first < c.last
      /\ m \in Element /\ c.last \in Element
  BY <1>1, <1>2, SMTT(60) DEF Call, Middle, CallSize, Element
<1>4. Element' = Element /\ elements \in [Element -> Element]
  BY <1>1 DEF Element, SortTypeOK
<1>5. Whole = elements
  BY <1>1 DEF Whole
<1>6. Whole' = [elements EXCEPT ![m] = elements[c.last], ![c.last] = elements[m]]
  BY <1>1, <1>3, <1>4 DEF Whole
<1>7. SortTypeOK'
  <2>1. elements' \in [Element -> Element] /\ pivot' \in Nat
    BY <1>1, <1>3, <1>4 DEF Element
  <2> QED
    BY <1>1, <1>3, <1>4, <2>1 DEF SortTypeOK
<1>8. CallsApart'
  BY <1>1 DEF CallsApart
<1>9. Partitioned'
  <2>1. pivot' \in Element'
    BY <1>1, <1>3, <1>4
  <2> QED
    BY <1>1, <1>3, <2>1 DEF Partitioned
<1>10. Distinct'
  <2> SUFFICES ASSUME NEW i \in Element, NEW j \in Element, Whole'[i] = Whole'[j]
               PROVE  i = j
    BY <1>4 DEF Distinct
  <2> QED
    BY <1>3, <1>4, <1>5, <1>6 DEF Distinct
<1>11. Apart'
  <2> SUFFICES ASSUME NEW i \in Element, NEW j \in Element, i < j,
                      ~ \E k \in 1 .. Len(calls) :
                          calls[k].first <= i /\ j <= calls[k].last
               PROVE  Before(Whole'[i], Whole'[j])
    BY <1>1, <1>4 DEF Apart, Before
  <2>1. /\ Whole \in [Element -> Element]
        /\ Whole' = [Whole EXCEPT ![m] = Whole[c.last], ![c.last] = Whole[m]]
    BY <1>4, <1>5, <1>6
  <2>2. Before([Whole EXCEPT ![m] = Whole[c.last], ![c.last] = Whole[m]][i],
               [Whole EXCEPT ![m] = Whole[c.last], ![c.last] = Whole[m]][j])
    <3>1. c.last \in Element /\ m \in Element
      BY <1>3
    <3>2. calls[1].first <= c.last /\ c.last <= calls[1].last
      BY <1>3
    <3>3. calls[1].first <= m /\ m <= calls[1].last /\ 1 \in 1 .. Len(calls)
      BY <1>2, <1>3
    <3> HIDE DEF m, c
    <3> QED
      BY <2>1, <3>1, <3>2, <3>3, ExchangeApart, ZenonT(60) DEF SortInv
  <2> QED
    BY <2>1, <2>2
<1> QED
  BY <1>7, <1>8, <1>9, <1>10, <1>11

\* One turn of the loop exchanges two elements of the part, or none.
LEMMA PartitionKeeps == SortInv /\ Partition => SortInv'
<1> SUFFICES ASSUME SortInv, Partition PROVE SortInv'
  OBVIOUS
<1> USE DEF SortInv
<1>1. /\ step = "partition" /\ calls # <<>> /\ Head(calls) = calls[1]
      /\ scan < calls[1].last /\ scan' = scan + 1
      /\ UNCHANGED <<key, calls, step, pivot>>
  <2>1. calls # <<>> => Head(calls) = calls[1]
    BY DEF SortTypeOK
  <2> QED
    BY <2>1 DEF Partition, Partitioned
<1>2. /\ calls[1] \in Call /\ 1 \in 1 .. Len(calls)
      /\ 1 <= calls[1].first /\ calls[1].last <= Len(key) /\ Len(key) \in Nat
  BY <1>1 DEF SortTypeOK, CallsApart
<1>3. /\ calls[1].first \in Nat /\ calls[1].last \in Nat
      /\ scan \in Nat /\ small \in Nat
      /\ calls[1].first <= small /\ small <= scan
      /\ scan \in Element /\ small \in Element /\ calls[1].last \in Element
      /\ scan # calls[1].last /\ small # calls[1].last
  <2>1. calls[1].first \in Nat /\ calls[1].last \in Nat
    BY <1>2 DEF Call
  <2>2. scan \in Nat /\ small \in Nat
    BY DEF SortTypeOK
  <2>3. calls[1].first <= small /\ small <= scan
    BY <1>1 DEF Partitioned
  <2> QED
    BY <1>1, <1>2, <2>1, <2>2, <2>3 DEF Element
<1>4. Element' = Element /\ elements \in [Element -> Element]
  BY <1>1 DEF Element, SortTypeOK
<1>5. Whole = [elements EXCEPT ![calls[1].last] = pivot] /\ pivot \in Element
  BY <1>1 DEF Whole, Partitioned
<1>6. Whole' = [elements' EXCEPT ![calls[1].last] = pivot]
  BY <1>1 DEF Whole
<1>7. CallsApart'
  BY <1>1 DEF CallsApart
<1>8. CASE Before(elements[scan], pivot)
  <2>1. /\ elements' = [elements EXCEPT ![scan] = elements[small],
                                        ![small] = elements[scan]]
        /\ small' = small + 1
    BY <1>8 DEF Partition
  <2>2. SortTypeOK'
    BY <1>1, <1>3, <1>4, <2>1 DEF SortTypeOK
  <2>3. Partitioned'
    <3>0. /\ \A p \in calls[1].first .. small - 1 : Before(elements[p], pivot)
          /\ \A p \in small .. scan - 1 : ~Before(elements[p], pivot)
      BY <1>1 DEF Partitioned
    <3>1. \A p \in calls[1].first .. small : Before(elements'[p], pivot)
      <4> SUFFICES ASSUME NEW p \in calls[1].first .. small
                   PROVE  Before(elements'[p], pivot)
        OBVIOUS
      <4>1. p \in Element
        BY <1>2, <1>3 DEF Element
      <4>2. CASE p = small
        <5>1. elements'[p] = elements[scan]
          BY <1>3, <1>4, <2>1, <4>2
        <5> QED
          BY <1>8, <5>1
      <4>3. CASE p # small
        <5>1. elements'[p] = elements[p] /\ p \in calls[1].first .. small - 1
          BY <1>3, <1>4, <2>1, <4>1, <4>3
        <5> QED
          BY <3>0, <5>1
      <4> QED
        BY <4>2, <4>3
    <3>2. \A p \in small + 1 .. scan : ~Before(elements'[p], pivot)
      <4> SUFFICES ASSUME NEW p \in small + 1 .. scan
                   PROVE  ~Before(elements'[p], pivot)
        OBVIOUS
      <4>1. p \in Element
        BY <1>2, <1>3 DEF Element
      <4>2. CASE p = scan
        <5>1. elements'[p] = elements[small] /\ small \in small .. scan - 1
          BY <1>3, <1>4, <2>1, <4>2
        <5> QED
          BY <3>0, <5>1
      <4>3. CASE p # scan
        <5>1. elements'[p] = elements[p] /\ p \in small .. scan - 1
          BY <1>3, <1>4, <2>1, <4>1, <4>3
        <5> QED
          BY <3>0, <5>1
      <4> QED
        BY <4>2, <4>3
    <3>3. \A a, b : Before(a, b)' <=> Before(a, b)
      BY <1>1 DEF Before
    <3>4. /\ small' - 1 = small /\ scan' - 1 = scan
          /\ calls[1].first <= small' /\ small' <= scan' /\ scan' <= calls[1].last
      BY <1>1, <1>3, <2>1
    <3>5. /\ \A p \in calls'[1].first .. small' - 1 : Before(elements'[p], pivot')
          /\ \A p \in small' .. scan' - 1 : ~Before(elements'[p], pivot')
      BY <1>1, <2>1, <3>1, <3>2, <3>4
    <3> QED
      BY <1>1, <1>4, <1>5, <3>3, <3>4, <3>5 DEF Partitioned, Before
  <2>4. /\ Whole \in [Element -> Element]
        /\ Whole' = [Whole EXCEPT ![scan] = Whole[small], ![small] = Whole[scan]]
    BY <1>3, <1>4, <1>5, <1>6, <2>1
  <2>5. Distinct'
    <3> SUFFICES ASSUME NEW i \in Element, NEW j \in Element, Whole'[i] = Whole'[j]
                 PROVE  i = j
      BY <1>4 DEF Distinct
    <3> QED
      BY <1>3, <2>4 DEF Distinct
  <2>6. Apart'
    <3> SUFFICES ASSUME NEW i \in Element, NEW j \in Element, i < j,
                        ~ \E k \in 1 .. Len(calls) :
                            calls[k].first <= i /\ j <= calls[k].last
                 PROVE  Before(Whole'[i], Whole'[j])
      BY <1>1, <1>4 DEF Apart, Before
    <3>1. scan <= calls[1].last /\ calls[1].first <= scan /\ small <= calls[1].last
      BY <1>1, <1>3
    <3> QED
      BY <1>2, <1>3, <2>4, <3>1, ExchangeApart, ZenonT(60)
  <2> QED
    BY <1>7, <2>2, <2>3, <2>5, <2>6
<1>9. CASE ~Before(elements[scan], pivot)
  <2>1. elements' = elements /\ small' = small
    BY <1>9 DEF Partition
  <2>2. SortTypeOK'
    BY <1>1, <1>3, <1>4, <2>1 DEF SortTypeOK
  <2>3. Partitioned'
    BY <1>1, <1>3, <1>4, <1>5, <1>9, <2>1 DEF Partitioned, Before
  <2>4. Whole' = Whole
    BY <1>5, <1>6, <2>1
  <2>5. Distinct' /\ Apart'
    BY <1>1, <1>4, <2>4 DEF Distinct, Apart, Before
  <2> QED
    BY <1>7, <2>2, <2>3, <2>5
<1> QED
  BY <1>8, <1>9

\* The pivot divides the part in two, and all that is left of it precedes all
\* that is right of it.
LEMMA PlaceKeeps == SortInv /\ PlacePivot => SortInv'
<1> SUFFICES ASSUME SortInv, PlacePivot PROVE SortInv'
  OBVIOUS
<1> USE DEF SortInv
<1> DEFINE left == [first |-> calls[1].first, last |-> small - 1,
                    depth |-> calls[1].depth + 1]
           right == [first |-> small + 1, last |-> calls[1].last,
                     depth |-> calls[1].depth + 1]
<1>1. /\ step = "partition" /\ calls # <<>> /\ scan = calls[1].last
      /\ elements' = [elements EXCEPT ![calls[1].last] = elements[small],
                                      ![small] = pivot]
      /\ calls' = <<left, right>> \o Tail(calls)
      /\ step' = "call" /\ UNCHANGED <<key, pivot, scan, small>>
  <2>1. calls # <<>> => Head(calls) = calls[1]
    BY DEF SortTypeOK
  <2> QED
    BY <2>1 DEF PlacePivot, Partitioned, SecondPart
<1>2. /\ calls[1] \in Call /\ 1 \in 1 .. Len(calls)
      /\ 1 <= calls[1].first /\ calls[1].last <= Len(key) /\ Len(key) \in Nat
  BY <1>1 DEF SortTypeOK, CallsApart
<1>3. /\ calls[1].first \in Nat /\ calls[1].last \in Nat
      /\ small \in Nat /\ calls[1].first <= small /\ small <= calls[1].last
      /\ small \in Element /\ calls[1].last \in Element
  <2>1. calls[1].first \in Nat /\ calls[1].last \in Nat
    BY <1>2 DEF Call
  <2>2. small \in Nat
    BY DEF SortTypeOK
  <2>3. calls[1].first <= small /\ small <= calls[1].last
    BY <1>1 DEF Partitioned
  <2> QED
    BY <1>1, <1>2, <2>1, <2>2, <2>3 DEF Element
<1>4. Element' = Element /\ elements \in [Element -> Element]
  BY <1>1 DEF Element, SortTypeOK
<1>5. Whole = [elements EXCEPT ![calls[1].last] = pivot] /\ pivot \in Element
  BY <1>1 DEF Whole, Partitioned
<1>6. /\ Whole \in [Element -> Element] /\ Whole' = elements'
      /\ elements' = [Whole EXCEPT ![calls[1].last] = Whole[small],
                                  ![small] = Whole[calls[1].last]]
  BY <1>1, <1>3, <1>4, <1>5 DEF Whole
<1>7. left \in Call /\ right \in Call
  <2>1. calls[1].depth \in Nat
    BY <1>2 DEF Call
  <2>2. calls[1].depth + 1 \in Nat /\ small - 1 \in Nat /\ small + 1 \in Nat
    BY <1>3, <2>1, <1>2
  <2> QED
    BY <1>2, <1>3, <2>1, <2>2 DEF Call
<1> HIDE DEF left, right
<1>8. /\ calls' \in Seq(Call) /\ Len(calls') = Len(calls) + 1
      /\ calls'[1] = left /\ calls'[2] = right
      /\ \A k \in 3 .. Len(calls') :
           calls'[k] = calls[k - 1] /\ k - 1 \in 2 .. Len(calls)
  <2>1. calls \in Seq(Call) /\ Tail(calls) \in Seq(Call)
        /\ Len(Tail(calls)) = Len(calls) - 1
        /\ \A k \in 1 .. Len(calls) - 1 : Tail(calls)[k] = calls[k + 1]
    BY <1>1 DEF SortTypeOK
  <2>2. <<left, right>> \in Seq(Call) /\ Len(<<left, right>>) = 2
    BY <1>7
  <2> QED
    BY <1>1, <2>1, <2>2
<1>9. SortTypeOK'
  <2>1. elements' \in [Element -> Element]
    BY <1>1, <1>3, <1>4, <1>5
  <2> QED
    BY <1>1, <1>3, <1>4, <1>8, <2>1 DEF SortTypeOK
<1>10. CallsApart'
  <2>1. /\ left.first = calls[1].first /\ left.last = small - 1
        /\ right.first = small + 1 /\ right.last = calls[1].last
    BY DEF left, right
  <2>2. \A k \in 1 .. Len(calls) :
          /\ calls[k].first \in Nat /\ calls[k].last \in Nat
          /\ 1 <= calls[k].first /\ calls[k].last <= Len(key)
          /\ calls[k].first <= calls[k].last + 1
          /\ k > 1 => calls[1].last < calls[k].first
    <3>1. \A k \in 1 .. Len(calls) : calls[k] \in Call
      BY DEF SortTypeOK
    <3> QED
      BY <1>2, <3>1 DEF CallsApart, Call
  <2>3. \A k \in 1 .. Len(calls') :
          /\ 1 <= calls'[k].first /\ calls'[k].last <= Len(key)
          /\ calls'[k].first <= calls'[k].last + 1
    <3> SUFFICES ASSUME NEW k \in 1 .. Len(calls')
                 PROVE  /\ 1 <= calls'[k].first /\ calls'[k].last <= Len(key)
                        /\ calls'[k].first <= calls'[k].last + 1
      OBVIOUS
    <3>1. CASE k <= 2
      <4>1. calls'[k] = left \/ calls'[k] = right
        BY <1>8, <3>1
      <4> QED
        BY <1>2, <1>3, <2>1, <4>1, SMTT(60)
    <3>2. CASE k > 2
      <4>1. calls'[k] = calls[k - 1] /\ k - 1 \in 1 .. Len(calls)
        BY <1>8, <3>2
      <4> QED
        BY <2>2, <4>1
    <3> QED
      BY <3>1, <3>2
  <2>4. ASSUME NEW j \in 1 .. Len(calls'), NEW k \in 1 .. Len(calls'), j < k
        PROVE  calls'[j].last < calls'[k].first
    <3>1. CASE j = 1 /\ k = 2
      BY <1>3, <1>8, <2>1, <3>1
    <3>2. CASE j <= 2 /\ k > 2
      <4>1. /\ calls'[k] = calls[k - 1] /\ k - 1 \in 1 .. Len(calls)
            /\ calls[1].last < calls[k - 1].first
        BY <1>8, <2>2, <3>2
      <4>2. calls'[j].last <= calls[1].last
        BY <1>3, <1>8, <2>1, <3>2
      <4>3. calls'[j].last \in Int
        BY <1>3, <1>8, <2>1, <3>2
      <4> QED
        BY <1>3, <2>2, <4>1, <4>2, <4>3, SMTT(60)
    <3>3. CASE j > 2
      <4>1. /\ calls'[k] = calls[k - 1] /\ k - 1 \in 1 .. Len(calls)
            /\ calls'[j] = calls[j - 1] /\ j - 1 \in 1 .. Len(calls)
        BY <1>8, <2>4, <3>3
      <4> QED
        BY <2>4, <4>1 DEF CallsApart
    <3> QED
      BY <2>4, <3>1, <3>2, <3>3
  <2> QED
    BY <1>1, <2>3, <2>4 DEF CallsApart
<1>11. Partitioned'
  BY <1>1 DEF Partitioned
<1>12. Distinct'
  <2> SUFFICES ASSUME NEW i \in Element, NEW j \in Element, Whole'[i] = Whole'[j]
               PROVE  i = j
    BY <1>4 DEF Distinct
  <2> QED
    BY <1>3, <1>6 DEF Distinct
<1>13. Apart'
  <2> SUFFICES ASSUME NEW i \in Element, NEW j \in Element, i < j,
                      ~Before(Whole'[i], Whole'[j])
               PROVE  \E k \in 1 .. Len(calls') :
                        calls'[k].first <= i /\ j <= calls'[k].last
    BY <1>1, <1>4 DEF Apart, Before
  <2>1. PICK k \in 1 .. Len(calls) : calls[k].first <= i /\ j <= calls[k].last
    <3>1. calls[1].first <= calls[1].last /\ calls[1].last <= calls[1].last
      BY <1>3
    <3> QED
      BY <1>2, <1>3, <1>6, <3>1, ExchangeApart, ZenonT(60)
  <2>2. CASE k > 1
    <3>1. k + 1 \in 1 .. Len(calls') /\ calls'[k + 1] = calls[k]
      BY <1>8, <2>2
    <3> QED
      BY <2>1, <3>1
  <2>3. CASE k = 1
    <3>1. \A p \in Element : calls[1].first <= p /\ p < small => Before(Whole'[p], pivot)
      BY <1>1, <1>3, <1>4, <1>6, <1>5 DEF Partitioned, Element
    <3>2. \A p \in Element : small < p /\ p <= calls[1].last => Before(pivot, Whole'[p])
      <4> SUFFICES ASSUME NEW p \in Element, small < p, p <= calls[1].last
                   PROVE  Before(pivot, Whole'[p])
        OBVIOUS
      <4>1. ~Before(Whole'[p], pivot)
        <5>1. \A q \in small .. calls[1].last - 1 : ~Before(elements[q], pivot)
          BY <1>1 DEF Partitioned
        <5>2. CASE p = calls[1].last
          <6>1. Whole'[p] = elements[small] /\ small \in small .. calls[1].last - 1
            BY <1>1, <1>3, <1>4, <1>6, <5>2 DEF Element
          <6> QED
            BY <5>1, <6>1
        <5>3. CASE p # calls[1].last
          <6>1. Whole'[p] = elements[p] /\ p \in small .. calls[1].last - 1
            BY <1>1, <1>3, <1>4, <1>6, <5>3 DEF Element
          <6> QED
            BY <5>1, <6>1
        <5> QED
          BY <5>2, <5>3
      <4>2. Whole'[small] = pivot /\ Whole'[p] \in Element
        BY <1>3, <1>5, <1>6
      <4>3. Whole'[p] # pivot
        BY <1>3, <1>4, <1>12, <4>2 DEF Distinct, Element
      <4> QED
        BY <1>5, <4>1, <4>2, <4>3, BeforeIsTotalOrder DEF SortTypeOK
    <3>3. Whole'[small] = pivot
      BY <1>3, <1>5, <1>6
    <3>4. j < small \/ small < i
      <4>1. CASE i < small /\ small < j
        <5>1. Before(Whole'[i], pivot) /\ Before(pivot, Whole'[j])
          BY <2>1, <2>3, <3>1, <3>2, <4>1
        <5>2. Whole'[i] \in Element /\ Whole'[j] \in Element
          BY <1>6, <1>3
        <5> QED
          BY <1>5, <5>1, <5>2, BeforeIsTotalOrder DEF SortTypeOK
      <4>2. CASE i = small
        BY <2>1, <2>3, <3>2, <3>3, <4>2
      <4>3. CASE j = small
        BY <2>1, <2>3, <3>1, <3>3, <4>3
      <4> QED
        BY <1>3, <4>1, <4>2, <4>3 DEF Element
    <3>5. 1 \in 1 .. Len(calls') /\ 2 \in 1 .. Len(calls')
      BY <1>2, <1>8
    <3>6. CASE j < small
      BY <1>3, <1>8, <2>1, <2>3, <3>5, <3>6, SMTT(60) DEF left, Element
    <3>7. CASE small < i
      BY <1>3, <1>8, <2>1, <2>3, <3>5, <3>7, SMTT(60) DEF right, Element
    <3> QED
      BY <3>4, <3>6, <3>7
  <2> QED
    BY <2>2, <2>3
<1> QED
  BY <1>9, <1>10, <1>11, <1>12, <1>13

\* Wherever the keys come from, the map starts in their order.
LEMMA SortStarts ==
  ASSUME NEW keys \in Seq(Int), SortInv, MakeSortedMap(keys)
  PROVE  SortInv'
<1> USE DEF MakeSortedMap
<1>1. SortTypeOK'
  BY DEF SortInv, SortTypeOK, Element, Call
<1>2. CallsApart' /\ Partitioned' /\ Distinct' /\ Apart'
  BY DEF CallsApart, Partitioned, Distinct, Apart, Whole, Element
<1> QED
  BY <1>1, <1>2 DEF SortInv

LEMMA SortStepKeeps == SortInv /\ [SortStep]_sortvars => SortInv'
<1>1. SortInv /\ UNCHANGED sortvars => SortInv'
  BY DEF SortInv, SortTypeOK, CallsApart, Partitioned, Distinct, Apart, Whole,
         sortvars, Before, Element, Call
<1> QED
  BY <1>1, ReturnKeeps, ChooseKeeps, PartitionKeeps, PlaceKeeps DEF SortStep

\* The sorted map has no element twice.
LEMMA SortedOnce ==
  ASSUME SortInv, Sorted, NEW i \in Element, NEW j \in Element, i # j
  PROVE  elements[i] \in Element /\ elements[i] # elements[j]
<1>1. calls = <<>> /\ step = "call"
  BY DEF Sorted, SortInv, Partitioned, SortTypeOK
<1> QED
  BY <1>1 DEF SortInv, Distinct, Whole, SortTypeOK

\* What the steps of the sort keep, up to any point of it.
THEOREM SortInvariance == SortSpec => []SortInv
BY SortInitInv, SortStepKeeps, PTL DEF SortSpec

\* When the sort ends the elements ascend (sort.c:67).  They are as many as
\* the array has places, and no two are the same because none precedes
\* itself, so each is there once.
THEOREM SortIsAscending == SortSpec => []Ascending
<1>1. SortInv => Ascending
  <2> SUFFICES ASSUME SortInv, Sorted, NEW i \in Element, NEW j \in Element, i < j
               PROVE  Before(elements[i], elements[j])
    BY DEF Ascending
  <2>1. calls = <<>> /\ step = "call"
    BY DEF Sorted, SortInv, Partitioned, SortTypeOK
  <2> QED
    BY <2>1 DEF SortInv, Apart, Whole
<1> QED
  BY <1>1, SortInvariance, PTL

\* What the sort makes is the array whose k-th element has k - 1 before it: the
\* places before the k-th are as many as the elements that precede it.
LEMMA AscendingIsSorted == ASSUME SortInv, Sorted, Ascending PROVE elements = SortedMap
<1> DEFINE Preceding(e) == {f \in Element : Before(f, e)}
<1>1. /\ elements \in [Element -> Element] /\ Len(key) \in Nat
      /\ IsFiniteSet(Element) /\ Element = 1 .. Len(key) /\ key \in Seq(Int)
  <2>1. elements \in [Element -> Element] /\ key \in Seq(Int)
    BY DEF SortInv, SortTypeOK
  <2> QED
    BY <2>1, FS_Interval DEF Element
<1>2. \A i, j \in Element : i # j => elements[i] # elements[j]
  BY SortedOnce
<1>3. \A e \in Element : \E i \in Element : elements[i] = e
  <2>1. elements \in Injection(Element, Element)
    BY <1>1, <1>2 DEF Injection, IsInjective
  <2>2. elements \in Surjection(Element, Element)
    BY <1>1, <2>1, FS_Injection
  <2> QED
    BY <2>2 DEF Surjection
<1>4. \A i, j \in Element : Before(elements[i], elements[j]) <=> i < j
  <2> SUFFICES ASSUME NEW i \in Element, NEW j \in Element
               PROVE  Before(elements[i], elements[j]) <=> i < j
    OBVIOUS
  <2>1. elements[i] \in Element /\ elements[j] \in Element
    BY <1>1
  <2>2. ~(Before(elements[i], elements[j]) /\ Before(elements[j], elements[i]))
    BY <1>1, <2>1, BeforeIsTotalOrder
  <2>3. i < j => Before(elements[i], elements[j])
    BY DEF Ascending
  <2>4. j < i => Before(elements[j], elements[i])
    BY DEF Ascending
  <2>5. i = j => ~Before(elements[i], elements[j])
    BY <2>2
  <2> QED
    BY <1>1, <2>2, <2>3, <2>4, <2>5
<1>5. ASSUME NEW k \in Element PROVE Cardinality(Preceding(elements[k])) = k - 1
  <2> DEFINE front == [i \in 1 .. k - 1 |-> elements[i]]
  <2>1. k - 1 \in Nat /\ \A i \in 1 .. k - 1 : i \in Element /\ i < k
    BY <1>1
  <2>2. front \in [1 .. k - 1 -> Preceding(elements[k])]
    BY <1>1, <1>4, <2>1
  <2>3. \A i, j \in 1 .. k - 1 : front[i] = front[j] => i = j
    BY <1>2, <2>1
  <2>4. \A e \in Preceding(elements[k]) : \E i \in 1 .. k - 1 : front[i] = e
    <3> SUFFICES ASSUME NEW e \in Element, Before(e, elements[k])
                 PROVE  \E i \in 1 .. k - 1 : front[i] = e
      OBVIOUS
    <3>1. PICK i \in Element : elements[i] = e
      BY <1>3
    <3>2. i < k
      BY <1>4, <3>1
    <3>3. i \in 1 .. k - 1
      BY <1>1, <3>2
    <3> QED
      BY <3>1, <3>3
  <2> HIDE DEF front
  <2>5. front \in Bijection(1 .. k - 1, Preceding(elements[k]))
    BY <2>2, <2>3, <2>4 DEF Bijection, Injection, Surjection, IsInjective
  <2>6. ExistsBijection(1 .. k - 1, Preceding(elements[k]))
    BY <2>5 DEF ExistsBijection
  <2> QED
    BY <2>1, <2>6, FS_CountingElements
<1>6. ASSUME NEW k \in Element PROVE SortedMap[k] = elements[k]
  <2>1. \A e \in Element : Cardinality(Preceding(e)) = k - 1 => e = elements[k]
    <3> SUFFICES ASSUME NEW e \in Element, Cardinality(Preceding(e)) = k - 1
                 PROVE  e = elements[k]
      OBVIOUS
    <3>1. PICK i \in Element : elements[i] = e
      BY <1>3
    <3>2. Cardinality(Preceding(e)) = i - 1
      BY <1>5, <3>1
    <3>3. i = k
      BY <1>1, <3>2
    <3> QED
      BY <3>1, <3>3
  <2>2. SortedMap[k] = CHOOSE e \in Element : Cardinality(Preceding(e)) = k - 1
    BY DEF SortedMap
  <2>3. elements[k] \in Element /\ Cardinality(Preceding(elements[k])) = k - 1
    BY <1>1, <1>5
  <2> HIDE DEF Preceding
  <2> QED
    BY <2>1, <2>2, <2>3
<1> QED
  BY <1>1, <1>6 DEF SortedMap

\* The quicksort computes the map that Sidedefs and Blockmap take for what
\* MakeSortedMap() returns.
THEOREM SortIsRight == SortSpec => []SortsRight
<1>1. SortInv /\ Ascending => SortsRight
  BY AscendingIsSorted DEF SortsRight
<1> QED
  BY <1>1, SortInvariance, SortIsAscending, PTL
-----------------------------------------------------------------------------
(* How deep the recursion goes *)

\* A function that doubles up to a number.
Doubling(f, k) == \A n \in 0 .. k : f[n] = IF n = 0 THEN 1 ELSE 2 * f[n - 1]
UpTo(k) == CHOOSE f \in [Nat -> Nat] : Doubling(f, k)

LEMMA DoublesUpTo ==
  /\ \A k \in Nat : UpTo(k) \in [Nat -> Nat] /\ Doubling(UpTo(k), k)
  /\ \A k \in Nat : \A n \in 0 .. k : UpTo(k)[n] = UpTo(n)[n]
<1>1. ASSUME NEW k \in Nat PROVE \E f \in [Nat -> Nat] : Doubling(f, k)
  <2> DEFINE S == {m \in Nat : ~ \E f \in [Nat -> Nat] : Doubling(f, m)}
  <2> SUFFICES ASSUME S # {} PROVE FALSE
    OBVIOUS
  <2>1. PICK m \in S : \A n \in S : m <= n
    BY LeastNumber
  <2>2. m \in Nat /\ ~ \E f \in [Nat -> Nat] : Doubling(f, m)
    OBVIOUS
  <2>3. m # 0
    <3>1. [n \in Nat |-> 1] \in [Nat -> Nat] /\ Doubling([n \in Nat |-> 1], 0)
      BY DEF Doubling
    <3> QED
      BY <2>2, <3>1
  <2>4. m - 1 \in Nat /\ m - 1 \notin S
    <3>1. m - 1 \in Nat /\ ~(m <= m - 1)
      BY <2>2, <2>3
    <3> HIDE DEF S
    <3> QED
      BY <2>1, <3>1
  <2>5. PICK f \in [Nat -> Nat] : Doubling(f, m - 1)
    BY <2>4
  <2> DEFINE g == [f EXCEPT ![m] = 2 * f[m - 1]]
  <2>6. g \in [Nat -> Nat]
    BY <2>4, <2>5
  <2>7. Doubling(g, m)
    <3> SUFFICES ASSUME NEW n \in 0 .. m
                 PROVE  g[n] = IF n = 0 THEN 1 ELSE 2 * g[n - 1]
      BY DEF Doubling
    <3>1. CASE n = m
      BY <2>2, <2>3, <2>4, <2>5, <3>1
    <3>2. CASE n # m
      <4>1. n \in 0 .. m - 1 /\ n # m /\ n - 1 # m /\ n \in Nat
        BY <2>2, <3>2
      <4>2. f[n] = IF n = 0 THEN 1 ELSE 2 * f[n - 1]
        BY <2>5, <4>1 DEF Doubling
      <4>3. g[n] = f[n] /\ (n # 0 => g[n - 1] = f[n - 1])
        BY <2>2, <2>5, <4>1
      <4> QED
        BY <4>2, <4>3
    <3> QED
      BY <3>1, <3>2
  <2> QED
    BY <2>2, <2>6, <2>7
<1>2. \A k \in Nat : UpTo(k) \in [Nat -> Nat] /\ Doubling(UpTo(k), k)
  BY <1>1 DEF UpTo
<1>3. ASSUME NEW k \in Nat, NEW n \in 0 .. k PROVE UpTo(k)[n] = UpTo(n)[n]
  <2> DEFINE S == {m \in 0 .. n : UpTo(k)[m] # UpTo(n)[m]}
  <2> SUFFICES ASSUME S # {} PROVE FALSE
    OBVIOUS
  <2>1. PICK m \in S : \A j \in S : m <= j
    <3>1. S \subseteq Nat
      OBVIOUS
    <3> QED
      BY <3>1, LeastNumber
  <2>2. m \in 0 .. n /\ m \in 0 .. k /\ UpTo(k)[m] # UpTo(n)[m]
    OBVIOUS
  <2>3. /\ UpTo(k)[m] = IF m = 0 THEN 1 ELSE 2 * UpTo(k)[m - 1]
        /\ UpTo(n)[m] = IF m = 0 THEN 1 ELSE 2 * UpTo(n)[m - 1]
    BY <1>2, <2>2 DEF Doubling
  <2>4. m # 0
    BY <2>2, <2>3
  <2>5. m - 1 \in 0 .. n /\ m - 1 \notin S
    BY <2>1, <2>2, <2>4
  <2> QED
    BY <2>2, <2>3, <2>4, <2>5
<1> QED
  BY <1>2, <1>3

LEMMA Powers ==
  /\ TwoTo \in [Nat -> Nat]
  /\ TwoTo[0] = 1
  /\ \A n \in Nat : TwoTo[n + 1] = 2 * TwoTo[n]
<1> DEFINE g == [n \in Nat |-> UpTo(n)[n]]
<1>1. g \in [Nat -> Nat]
  BY DoublesUpTo
<1>2. ASSUME NEW n \in Nat PROVE g[n] = IF n = 0 THEN 1 ELSE 2 * g[n - 1]
  <2>1. UpTo(n)[n] = IF n = 0 THEN 1 ELSE 2 * UpTo(n)[n - 1]
    BY DoublesUpTo DEF Doubling
  <2>2. n # 0 => n - 1 \in Nat /\ UpTo(n)[n - 1] = UpTo(n - 1)[n - 1]
    BY DoublesUpTo
  <2> QED
    BY <2>1, <2>2
<1>3. g = [n \in Nat |-> IF n = 0 THEN 1 ELSE 2 * g[n - 1]]
  <2> HIDE DEF g
  <2>1. g = [n \in Nat |-> g[n]]
    BY <1>1
  <2> QED
    BY <1>2, <2>1
<1>4. TwoTo = [n \in Nat |-> IF n = 0 THEN 1 ELSE 2 * TwoTo[n - 1]]
  <2> HIDE DEF g
  <2>1. \E f : f = [n \in Nat |-> IF n = 0 THEN 1 ELSE 2 * f[n - 1]]
    BY <1>3
  <2> QED
    BY <2>1, Zenon DEF TwoTo
<1>5. TwoTo = g
  <2>1. \A n \in Nat : TwoTo[n] = IF n = 0 THEN 1 ELSE 2 * TwoTo[n - 1]
    BY <1>4
  <2> DEFINE S == {m \in Nat : TwoTo[m] # g[m]}
  <2> HIDE DEF g
  <2>2. S = {}
    <3> SUFFICES ASSUME S # {} PROVE FALSE
      OBVIOUS
    <3>1. PICK m \in S : \A j \in S : m <= j
      BY LeastNumber
    <3>2. m \in Nat /\ TwoTo[m] # g[m]
      OBVIOUS
    <3>3. /\ TwoTo[m] = IF m = 0 THEN 1 ELSE 2 * TwoTo[m - 1]
          /\ g[m] = IF m = 0 THEN 1 ELSE 2 * g[m - 1]
      BY <1>2, <2>1, <3>2
    <3>4. m # 0
      BY <3>2, <3>3
    <3>5. m - 1 \in Nat /\ m - 1 \notin S
      BY <3>1, <3>2, <3>4
    <3> QED
      BY <3>2, <3>3, <3>4, <3>5
  <2>3. \A m \in Nat : TwoTo[m] = g[m]
    BY <2>2
  <2>4. DOMAIN TwoTo = Nat /\ TwoTo = [m \in Nat |-> TwoTo[m]]
    BY <1>4
  <2>5. g = [m \in Nat |-> g[m]]
    BY <1>1
  <2> QED
    BY <2>3, <2>4, <2>5
<1>6. TwoTo \in [Nat -> Nat]
  BY <1>1, <1>5
<1>7. \A n \in Nat : TwoTo[n] = IF n = 0 THEN 1 ELSE 2 * TwoTo[n - 1]
  BY <1>2, <1>5
<1>8. TwoTo[0] = 1
  BY <1>7
<1>9. ASSUME NEW n \in Nat PROVE TwoTo[n + 1] = 2 * TwoTo[n]
  <2>1. n + 1 \in Nat /\ n + 1 # 0 /\ (n + 1) - 1 = n
    OBVIOUS
  <2> QED
    BY <1>7, <2>1
<1> QED
  BY <1>6, <1>8, <1>9

\* The keys were in order before the sort.
KeysInOrder == \A i, j \in Element : i < j => key[i] <= key[j]

\* Then each element is at its own place, but that while a call has its pivot
\* out of the array the last element of its part is in the middle instead.
AtHome ==
  IF step = "partition"
  THEN LET m == Middle(calls[1]) IN
       /\ pivot = m
       /\ small = IF scan <= m THEN scan ELSE m
       /\ \A e \in Element : elements[e] = IF e = m THEN calls[1].last ELSE e
  ELSE \A e \in Element : elements[e] = e

Halved ==
  \A k \in 1 .. Len(calls) : CallSize(calls[k]) * TwoTo[calls[k].depth] <= Len(key)

\* Of a part that the partition has begun with there are two elements at least.
ShallowInv ==
  /\ step = "partition" => CallSize(calls[1]) > 1
  /\ KeysInOrder => AtHome /\ Halved

\* Half of a part, with one level more, is no larger in proportion.
LEMMA HalfAsLarge ==
  ASSUME NEW s \in Nat, NEW h \in Int, NEW d \in Nat, 2 * h <= s,
         NEW n \in Nat, s * TwoTo[d] <= n
  PROVE  h * TwoTo[d + 1] <= n
<1> DEFINE t == TwoTo[d]
<1>1. t \in Nat /\ TwoTo[d + 1] = 2 * t
  BY Powers
<1> HIDE DEF t
<1>2. h * (2 * t) = (2 * h) * t
  BY <1>1
<1>3. (s - 2 * h) * t >= 0
  <2>1. s - 2 * h \in Nat
    OBVIOUS
  <2>2. \A a, b \in Nat : a * b >= 0
    OBVIOUS
  <2> QED
    BY <1>1, <2>1, <2>2
<1>4. (s - 2 * h) * t = s * t - (2 * h) * t
  BY <1>1
<1>5. s * t \in Int /\ (2 * h) * t \in Int
  BY <1>1
<1> QED
  BY <1>1, <1>2, <1>3, <1>4, <1>5 DEF t

LEMMA ShallowFirst == SortInit => ShallowInv
<1> SUFFICES ASSUME SortInit PROVE ShallowInv
  OBVIOUS
<1>1. AtHome
  BY DEF AtHome, SortInit
<1>2. Len(key) \in Nat /\ Len(calls) = 1 /\ calls[1].depth = 0
      /\ CallSize(calls[1]) = Len(key)
  BY DEF CallSize, SortInit
<1>3. Halved
  <2> SUFFICES ASSUME NEW k \in 1 .. Len(calls)
               PROVE  CallSize(calls[k]) * TwoTo[calls[k].depth] <= Len(key)
    BY DEF Halved
  <2>1. k = 1
    BY <1>2
  <2>2. TwoTo[calls[1].depth] = 1
    BY <1>2, Powers
  <2> QED
    BY <1>2, <2>1, <2>2
<1> QED
  BY <1>1, <1>3 DEF ShallowInv, SortInit

LEMMA ShallowStarts ==
  ASSUME NEW keys \in Seq(Int), MakeSortedMap(keys)
  PROVE  ShallowInv'
<1>1. /\ step' = "call" /\ key' \in Seq(Int) /\ elements' = [e \in Element' |-> e]
      /\ calls' = <<[first |-> 1, last |-> Len(key'), depth |-> 0]>>
  BY DEF MakeSortedMap, Element
<1>2. AtHome'
  BY <1>1 DEF AtHome
<1>3. Len(key') \in Nat /\ Len(calls') = 1 /\ calls'[1].depth = 0
      /\ CallSize(calls'[1]) = Len(key')
  BY <1>1 DEF CallSize
<1>4. Halved'
  <2> SUFFICES ASSUME NEW k \in 1 .. Len(calls')
               PROVE  CallSize(calls'[k]) * TwoTo[calls'[k].depth] <= Len(key')
    BY DEF Halved, CallSize
  <2>1. k = 1
    BY <1>3
  <2>2. TwoTo[calls'[1].depth] = 1
    BY <1>3, Powers
  <2> QED
    BY <1>3, <2>1, <2>2
<1> QED
  BY <1>1, <1>2, <1>4 DEF ShallowInv

\* The part that the program is at.
LEMMA AtCall ==
  ASSUME SortInv, calls # <<>>
  PROVE  /\ Head(calls) = calls[1] /\ calls[1] \in Call /\ Len(calls) \in Nat
         /\ Len(calls) > 0
         /\ calls[1].first \in 1 .. Len(key) + 1 /\ calls[1].last \in Nat
         /\ calls[1].last <= Len(key) /\ Len(key) \in Nat
         /\ CallSize(calls[1]) \in Nat
         /\ CallSize(calls[1]) = calls[1].last - calls[1].first + 1
<1>1. /\ Head(calls) = calls[1] /\ calls[1] \in Call
      /\ Len(calls) \in Nat /\ Len(calls) > 0 /\ Len(key) \in Nat
  BY DEF SortInv, SortTypeOK
<1>2. /\ 1 <= calls[1].first /\ calls[1].last <= Len(key)
      /\ calls[1].first <= calls[1].last + 1
  BY <1>1 DEF SortInv, CallsApart
<1> QED
  BY <1>1, <1>2 DEF Call, CallSize

\* The middle of a part, and where the parts to either side of it end.
LEMMA MiddleIs ==
  ASSUME NEW first \in Nat, NEW last \in Nat, last - first + 1 > 1,
         NEW c, c.first = first, c.last = last
  PROVE  /\ Middle(c) \in Nat /\ first <= Middle(c) /\ Middle(c) <= last
         /\ 2 * (Middle(c) - first) <= last - first + 1
         /\ 2 * (last - Middle(c)) <= last - first + 1
<1>1. \A s \in Nat : s \div 2 \in Nat /\ 2 * (s \div 2) <= s /\ s <= 2 * (s \div 2) + 1
  OBVIOUS
<1>2. last - first + 1 \in Nat
  OBVIOUS
<1>3. PICK h \in Nat : /\ h = (last - first + 1) \div 2
                       /\ 2 * h <= last - first + 1 /\ last - first + 1 <= 2 * h + 1
  BY <1>1, <1>2
<1>4. Middle(c) = first + h
  BY <1>3 DEF Middle, CallSize
<1> QED
  BY <1>3, <1>4

LEMMA ReturnShallow == ASSUME SortInv, ShallowInv, Return PROVE ShallowInv'
<1>1. /\ calls' = Tail(calls) /\ step = "call" /\ UNCHANGED <<key, elements, step>>
      /\ calls # <<>> /\ calls \in Seq(Call)
  BY DEF Return, SortInv, SortTypeOK
<1>2. /\ Len(calls') = Len(calls) - 1 /\ Len(calls) \in Nat
      /\ \A k \in 1 .. Len(calls') : calls'[k] = calls[k + 1]
  BY <1>1
<1>3. KeysInOrder' => KeysInOrder
  BY <1>1 DEF KeysInOrder, Element
<1>4. KeysInOrder => AtHome'
  BY <1>1 DEF ShallowInv, AtHome, Element
<1>5. ASSUME KeysInOrder PROVE Halved'
  <2> SUFFICES ASSUME NEW k \in 1 .. Len(calls')
               PROVE  CallSize(calls'[k]) * TwoTo[calls'[k].depth] <= Len(key')
    BY DEF Halved, CallSize
  <2>1. k + 1 \in 1 .. Len(calls) /\ calls'[k] = calls[k + 1] /\ key' = key
    BY <1>1, <1>2
  <2> QED
    BY <1>5, <2>1 DEF ShallowInv, Halved
<1> QED
  BY <1>1, <1>3, <1>4, <1>5 DEF ShallowInv

LEMMA ChooseShallow == ASSUME SortInv, ShallowInv, ChoosePivot PROVE ShallowInv'
<1>1. /\ calls # <<>> /\ step = "call" /\ CallSize(Head(calls)) > 1
      /\ pivot' = elements[Middle(Head(calls))]
      /\ elements' = [elements EXCEPT ![Middle(Head(calls))] =
                                         elements[Head(calls).last]]
      /\ scan' = Head(calls).first /\ small' = Head(calls).first
      /\ step' = "partition" /\ key' = key /\ calls' = calls
  BY DEF ChoosePivot
<1>2. /\ Head(calls) = calls[1] /\ Len(key) \in Nat
      /\ calls[1].first \in 1 .. Len(key) + 1 /\ calls[1].last \in Nat
      /\ calls[1].last <= Len(key)
      /\ CallSize(calls[1]) = calls[1].last - calls[1].first + 1
  BY <1>1, AtCall
<1>3. /\ Middle(calls[1]) \in Element /\ Middle(calls[1]) >= calls[1].first
      /\ calls[1].last \in Element
  <2>1. calls[1].first \in Nat /\ calls[1].last - calls[1].first + 1 > 1
    BY <1>1, <1>2
  <2>2. /\ Middle(calls[1]) \in Nat /\ calls[1].first <= Middle(calls[1])
        /\ Middle(calls[1]) <= calls[1].last
    BY <1>2, <2>1, MiddleIs
  <2> QED
    BY <1>2, <2>1, <2>2 DEF Element
<1>4. KeysInOrder' => KeysInOrder
  BY <1>1 DEF KeysInOrder, Element
<1>5. ASSUME KeysInOrder PROVE AtHome'
  <2>1. \A e \in Element : elements[e] = e
    BY <1>1, <1>5 DEF ShallowInv, AtHome
  <2>2. elements \in [Element -> Element]
    BY DEF SortInv, SortTypeOK
  <2>3. Middle(calls'[1]) = Middle(calls[1]) /\ Element' = Element
    BY <1>1 DEF Middle, CallSize, Element
  <2>4. pivot' = Middle(calls[1])
    BY <1>1, <1>2, <1>3, <2>1
  <2>5. \A e \in Element :
          elements'[e] = IF e = Middle(calls[1]) THEN calls[1].last ELSE e
    BY <1>1, <1>2, <1>3, <2>1, <2>2
  <2>6. small' = IF scan' <= Middle(calls[1]) THEN scan' ELSE Middle(calls[1])
    BY <1>1, <1>2, <1>3
  <2> QED
    BY <1>1, <2>3, <2>4, <2>5, <2>6 DEF AtHome
<1>6. KeysInOrder => Halved'
  BY <1>1 DEF ShallowInv, Halved, CallSize
<1>7. CallSize(calls'[1]) > 1
  BY <1>1, <1>2 DEF CallSize
<1> QED
  BY <1>4, <1>5, <1>6, <1>7 DEF ShallowInv

\* The smaller elements are where they were; the last one is not smaller.
LEMMA PartitionShallow == ASSUME SortInv, ShallowInv, Partition PROVE ShallowInv'
<1> DEFINE m == Middle(calls[1])
           last == calls[1].last
<1>1. /\ step = "partition" /\ scan < Head(calls).last /\ scan' = scan + 1
      /\ UNCHANGED <<key, calls, step, pivot>>
      /\ \/ /\ Before(elements[scan], pivot)
            /\ elements' = [elements EXCEPT ![scan] = elements[small],
                                            ![small] = elements[scan]]
            /\ small' = small + 1
         \/ /\ ~Before(elements[scan], pivot)
            /\ UNCHANGED <<elements, small>>
  BY DEF Partition
<1>2. /\ calls # <<>> /\ calls[1].first <= small /\ small <= scan
      /\ elements \in [Element -> Element] /\ scan \in Nat /\ small \in Nat
      /\ key \in Seq(Int)
  BY <1>1 DEF SortInv, Partitioned, SortTypeOK
<1>3. /\ Head(calls) = calls[1] /\ Len(key) \in Nat /\ last <= Len(key)
      /\ calls[1].first \in 1 .. Len(key) + 1 /\ last \in Nat
      /\ CallSize(calls[1]) = last - calls[1].first + 1 /\ CallSize(calls[1]) > 1
  BY <1>1, <1>2, AtCall DEF ShallowInv
<1>4. /\ m \in Element /\ last \in Element /\ scan \in Element /\ m <= last
      /\ m \in Nat
  <2>1. calls[1].first \in Nat /\ last - calls[1].first + 1 > 1
    BY <1>3
  <2>2. m \in Nat /\ calls[1].first <= m /\ m <= last
    BY <1>3, <2>1, MiddleIs
  <2>3. scan \in 1 .. Len(key)
    BY <1>1, <1>2, <1>3
  <2> HIDE DEF m, last
  <2>4. m \in 1 .. Len(key) /\ last \in 1 .. Len(key)
    BY <1>3, <2>1, <2>2
  <2> QED
    BY <2>2, <2>3, <2>4 DEF Element
<1>5. KeysInOrder' => KeysInOrder
  BY <1>1 DEF KeysInOrder, Element
<1>6. ASSUME KeysInOrder PROVE AtHome'
  <2>1. /\ pivot = m
        /\ small = IF scan <= m THEN scan ELSE m
        /\ \A e \in Element : elements[e] = IF e = m THEN last ELSE e
    BY <1>1, <1>6 DEF ShallowInv, AtHome
  <2>2. /\ Middle(calls'[1]) = m /\ calls'[1].last = last /\ pivot' = pivot
        /\ Element' = Element /\ step' = "partition"
    BY <1>1 DEF Middle, CallSize, Element
  <2> HIDE DEF m, last
  <2>3. CASE scan < m
    <3>1. elements[scan] = scan /\ small = scan
      BY <1>2, <1>4, <2>1, <2>3
    <3>2. key[scan] <= key[m] /\ key[scan] \in Int /\ key[m] \in Int
      BY <1>2, <1>4, <1>6, <2>3 DEF KeysInOrder, Element
    <3>3. Before(elements[scan], pivot)
      BY <1>2, <1>4, <2>1, <2>3, <3>1, <3>2 DEF Before
    <3>4. elements' = elements
      BY <1>1, <1>2, <1>4, <3>1, <3>3
    <3>5. small' = scan + 1 /\ scan + 1 <= m
      BY <1>1, <1>2, <1>4, <2>3, <3>1, <3>3
    <3> QED
      BY <1>1, <2>1, <2>2, <3>4, <3>5 DEF AtHome
  <2>4. CASE ~(scan < m)
    <3>1. m < elements[scan] /\ elements[scan] \in Element /\ elements[scan] \in Nat
      <4>1. scan < last
        BY <1>1, <1>3 DEF last
      <4>2. elements[scan] = IF scan = m THEN last ELSE scan
        BY <1>4, <2>1
      <4> QED
        BY <1>2, <1>3, <1>4, <2>4, <4>1, <4>2
    <3>2. key[m] <= key[elements[scan]]
      BY <1>4, <1>6, <3>1 DEF KeysInOrder
    <3>3. key[m] \in Int /\ key[elements[scan]] \in Int
      BY <1>2, <1>4, <3>1 DEF Element
    <3>4. ~Before(elements[scan], pivot)
      BY <1>4, <2>1, <3>1, <3>2, <3>3 DEF Before
    <3>5. elements' = elements /\ small' = small
      BY <1>1, <3>4
    <3>6. small = m /\ ~(scan + 1 <= m)
      BY <1>2, <1>4, <2>1, <2>4
    <3> QED
      BY <1>1, <2>1, <2>2, <3>5, <3>6 DEF AtHome
  <2> QED
    BY <2>3, <2>4
<1>7. KeysInOrder => Halved'
  BY <1>1 DEF ShallowInv, Halved, CallSize
<1>8. CallSize(calls'[1]) > 1
  BY <1>1, <1>3 DEF CallSize
<1> QED
  BY <1>5, <1>6, <1>7, <1>8 DEF ShallowInv

\* The pivot goes back to the middle, so the two parts are halves.
LEMMA PlaceShallow == ASSUME SortInv, ShallowInv, PlacePivot PROVE ShallowInv'
<1> DEFINE c == calls[1]
           m == Middle(c)
           left == [first |-> c.first, last |-> small - 1, depth |-> c.depth + 1]
           right == [first |-> small + 1, last |-> c.last, depth |-> c.depth + 1]
<1>1. /\ step = "partition" /\ scan = Head(calls).last /\ step' = "call"
      /\ elements' = [elements EXCEPT ![Head(calls).last] = elements[small],
                                      ![small] = pivot]
      /\ key' = key
  BY DEF PlacePivot
<1>2. /\ calls # <<>> /\ c.first <= small /\ small <= scan
      /\ elements \in [Element -> Element] /\ scan \in Nat /\ small \in Nat
      /\ calls \in Seq(Call)
  BY <1>1 DEF SortInv, Partitioned, SortTypeOK
<1>3. /\ Head(calls) = c /\ c \in Call /\ Len(key) \in Nat /\ c.last <= Len(key)
      /\ c.first \in 1 .. Len(key) + 1 /\ c.last \in Nat
      /\ CallSize(c) = c.last - c.first + 1 /\ CallSize(c) > 1 /\ CallSize(c) \in Nat
      /\ Len(calls) \in Nat /\ Len(calls) > 0
  BY <1>1, <1>2, AtCall DEF ShallowInv
<1>4. /\ m \in Element /\ c.last \in Element /\ m <= c.last /\ m \in Nat
      /\ c.first <= m
      /\ 2 * (m - c.first) <= CallSize(c) /\ 2 * (c.last - m) <= CallSize(c)
  <2>1. c.first \in Nat /\ c.last - c.first + 1 > 1
    BY <1>3
  <2>2. /\ m \in Nat /\ c.first <= m /\ m <= c.last
        /\ 2 * (m - c.first) <= c.last - c.first + 1
        /\ 2 * (c.last - m) <= c.last - c.first + 1
    BY <1>3, <2>1, MiddleIs
  <2> HIDE DEF m
  <2> QED
    BY <1>3, <2>1, <2>2 DEF Element
<1>5. calls' = <<left, right>> \o Tail(calls)
  BY <1>3 DEF PlacePivot, SecondPart
<1>6. KeysInOrder' => KeysInOrder
  BY <1>1 DEF KeysInOrder, Element
<1>7. ASSUME KeysInOrder PROVE AtHome' /\ Halved'
  <2>1. /\ pivot = m
        /\ small = IF scan <= m THEN scan ELSE m
        /\ \A e \in Element : elements[e] = IF e = m THEN c.last ELSE e
    BY <1>1, <1>7 DEF ShallowInv, AtHome
  <2>2. small = m
    BY <1>1, <1>3, <1>4, <2>1
  <2>3. AtHome'
    <3> HIDE DEF m, c
    <3>1. \A e \in Element : elements'[e] = e
      BY <1>1, <1>2, <1>3, <1>4, <2>1, <2>2
    <3> QED
      BY <1>1, <3>1 DEF AtHome, Element
  <2>4. CallSize(c) * TwoTo[c.depth] <= Len(key)
    BY <1>3, <1>7 DEF ShallowInv, Halved
  <2>5. /\ 2 * CallSize(left) <= CallSize(c) /\ CallSize(left) \in Int
        /\ 2 * CallSize(right) <= CallSize(c) /\ CallSize(right) \in Int
    <3>1. CallSize(left) = small - 1 - c.first + 1 /\ CallSize(right) = c.last - (small + 1) + 1
      BY DEF CallSize
    <3>2. small - 1 - c.first + 1 = m - c.first /\ c.last - (small + 1) + 1 = c.last - m
      <4> HIDE DEF m, c
      <4> QED
        BY <1>3, <1>4, <2>2, SMTT(60)
    <3> HIDE DEF m, c, left, right
    <3> QED
      BY <1>3, <1>4, <3>1, <3>2, SMTT(60)
  <2>6. /\ c.depth \in Nat /\ left.depth = c.depth + 1 /\ right.depth = c.depth + 1
    BY <1>3 DEF Call
  <2>7. /\ CallSize(left) * TwoTo[c.depth + 1] <= Len(key)
        /\ CallSize(right) * TwoTo[c.depth + 1] <= Len(key)
    <3> HIDE DEF left, right, c
    <3> QED
      BY <1>3, <2>4, <2>5, <2>6, HalfAsLarge
  <2>8. ASSUME NEW k \in 1 .. Len(calls')
        PROVE  \/ calls'[k] = left \/ calls'[k] = right
               \/ \E j \in 1 .. Len(calls) : calls'[k] = calls[j]
    <3>1. /\ Tail(calls) \in Seq(Call) /\ Len(Tail(calls)) = Len(calls) - 1
          /\ \A j \in 1 .. Len(calls) - 1 : Tail(calls)[j] = calls[j + 1]
      BY <1>2
    <3> DEFINE t == Tail(calls)
    <3> HIDE DEF t, left, right
    <3>2. /\ Len(<<left, right>> \o t) = 2 + Len(t)
          /\ \A j \in 1 .. 2 + Len(t) :
               (<<left, right>> \o t)[j] =
                 IF j = 1 THEN left ELSE IF j = 2 THEN right ELSE t[j - 2]
      BY <3>1 DEF t
    <3>3. k = 1 \/ k = 2 \/ k - 1 \in 1 .. Len(calls)
      BY <1>3, <1>5, <3>1, <3>2 DEF t
    <3>4. ~(k = 1 \/ k = 2) => calls'[k] = calls[k - 1]
      BY <1>3, <1>5, <3>1, <3>2 DEF t
    <3> QED
      BY <1>5, <3>1, <3>2, <3>3, <3>4 DEF t
  <2>9. Halved'
    <3> SUFFICES ASSUME NEW k \in 1 .. Len(calls')
                 PROVE  CallSize(calls'[k]) * TwoTo[calls'[k].depth] <= Len(key)
      BY <1>1 DEF Halved, CallSize
    <3> HIDE DEF left, right
    <3> QED
      BY <1>7, <2>6, <2>7, <2>8 DEF ShallowInv, Halved
  <2> QED
    BY <2>3, <2>9
<1> QED
  BY <1>1, <1>6, <1>7 DEF ShallowInv

LEMMA ShallowNext == SortInv /\ ShallowInv /\ [SortStep]_sortvars => ShallowInv'
<1>1. ASSUME ShallowInv, UNCHANGED sortvars PROVE ShallowInv'
  <2>1. UNCHANGED <<key, elements, calls, step, pivot, scan, small>>
    BY <1>1 DEF sortvars
  <2>2. KeysInOrder' = KeysInOrder /\ Halved' = Halved
    BY <2>1 DEF KeysInOrder, Halved, Element, CallSize
  <2>3. AtHome' = AtHome
    BY <2>1 DEF AtHome, Middle, CallSize, Element
  <2> QED
    BY <1>1, <2>1, <2>2, <2>3 DEF ShallowInv, CallSize
<1> QED
  BY <1>1, ReturnShallow, ChooseShallow, PartitionShallow, PlaceShallow DEF SortStep

\* Sorting what is sorted already, or all alike, does not degenerate (sort.c:34,
\* 43): each call then has at most half of the part of the one that made it, so
\* the recursion is no deeper than the logarithm of the number of elements.
THEOREM SortIsShallow == SortSpec => []Shallow
<1>1. ShallowInv => Shallow
  BY DEF ShallowInv, KeysInOrder, Halved, Shallow
<1> QED
  BY <1>1, SortInitInv, SortStepKeeps, ShallowFirst, ShallowNext, PTL DEF SortSpec
=============================================================================
