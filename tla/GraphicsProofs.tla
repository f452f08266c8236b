--------------------------- MODULE GraphicsProofs ---------------------------
(***************************************************************************)
(* Proofs about Graphics, for any lumps and any sequence of runs.          *)
(* Whatever the lumps, the types are kept, the columns are sorted, and the *)
(* listing is right about what it calls squashed.  If the lumps there are  *)
(* at first are tidy (LumpsTidy), no turn of CombinePosts() leaves the     *)
(* lump, no pixel changes, squashing and unsquashing are complete, and     *)
(* doing either again changes nothing.  Without that they are false:       *)
(* combining the posts of columns that share bytes can destroy them.       *)
(***************************************************************************)
EXTENDS Graphics, SortProofs, Ranks
-----------------------------------------------------------------------------
(* How a column is read: one post after the other *)

\* Whether a post begins at an address, as far as this can be seen there, and
\* where the next one does.
PostAt(d, a) == a + 1 < Len(d) /\ At(d, a) # Stop
After(d, a) == a + At(d, a + 1) + 4

LEMMA Reading ==
  ASSUME NEW d \in Seq(Byte)
  PROVE  /\ Len(d) \in Nat
         /\ \A a \in Nat : a < Len(d) => At(d, a) \in Byte /\ At(d, a) \in Nat
         /\ \A a \in Nat : PostAt(d, a) => After(d, a) \in Nat /\ After(d, a) >= a + 4
<1>1. Len(d) \in Nat
  OBVIOUS
<1>2. ASSUME NEW a \in Nat, a < Len(d) PROVE At(d, a) \in Byte /\ At(d, a) \in Nat
  <2>1. a + 1 \in 1 .. Len(d)
    BY <1>1, <1>2
  <2>2. d[a + 1] \in Byte
    BY <2>1
  <2>3. \A b \in Byte : b \in Nat
    BY DEF Byte
  <2> QED
    BY <2>2, <2>3 DEF At
<1>3. ASSUME NEW a \in Nat, PostAt(d, a)
      PROVE  After(d, a) \in Nat /\ After(d, a) >= a + 4
  <2>1. At(d, a + 1) \in Nat
    BY <1>2, <1>3 DEF PostAt
  <2> QED
    BY <2>1 DEF After
<1> QED
  BY <1>1, <1>2, <1>3

EndFrom(d) ==
  CHOOSE f : f = [a \in Nat |->
    IF a >= Len(d) THEN 0
    ELSE IF At(d, a) = Stop THEN a + 1
    ELSE IF a + 1 >= Len(d) THEN 0
    ELSE f[a + At(d, a + 1) + 4]]
PostsFrom(d) ==
  CHOOSE f : f = [a \in Nat |->
    IF a + 1 >= Len(d) \/ At(d, a) = Stop THEN {}
    ELSE {a} \cup f[a + At(d, a + 1) + 4]]

\* The function that FindColumnLength() computes exists: one that is right from
\* some address on can be made right for the address before it.
LEMMA EndExists ==
  ASSUME NEW d \in Seq(Byte)
  PROVE  \E f : f = [a \in Nat |->
           IF a >= Len(d) THEN 0
           ELSE IF At(d, a) = Stop THEN a + 1
           ELSE IF a + 1 >= Len(d) THEN 0
           ELSE f[a + At(d, a + 1) + 4]]
<1> DEFINE Right(f, a) ==
             f[a] = IF a >= Len(d) THEN 0
                    ELSE IF At(d, a) = Stop THEN a + 1
                    ELSE IF a + 1 >= Len(d) THEN 0
                    ELSE f[a + At(d, a + 1) + 4]
           Made(k) == \E f \in [Nat -> Nat] : \A a \in Nat : a >= k => Right(f, a)
           S == {k \in Nat : Made(k)}
<1>1. /\ Len(d) \in Nat
      /\ \A a \in Nat : a + 1 < Len(d) =>
           At(d, a + 1) \in Nat /\ a + At(d, a + 1) + 4 \in Nat
           /\ a + At(d, a + 1) + 4 > a
  <2>1. Len(d) \in Nat
    BY Reading
  <2>2. ASSUME NEW a \in Nat, a + 1 < Len(d)
        PROVE  At(d, a + 1) \in Nat
    <3>1. a + 1 \in Nat
      OBVIOUS
    <3> QED
      BY <2>2, <3>1, Reading
  <2>3. \A a, b \in Nat : a + b + 4 \in Nat /\ a + b + 4 > a
    OBVIOUS
  <2> QED
    BY <2>1, <2>2, <2>3
<1>2. \A k \in Nat : k >= Len(d) => k \in S
  <2>1. ASSUME NEW k \in Nat, k >= Len(d) PROVE Made(k)
    <3> DEFINE f == [a \in Nat |-> 0]
    <3>1. f \in [Nat -> Nat] /\ \A a \in Nat : a >= k => Right(f, a)
      BY <1>1, <2>1
    <3> QED
      BY <3>1
  <2> QED
    BY <2>1
<1>3. ASSUME NEW k \in Nat, k < Len(d), Made(k + 1) PROVE Made(k)
  <2>1. PICK f \in [Nat -> Nat] : \A a \in Nat : a >= k + 1 => Right(f, a)
    BY <1>3
  <2> DEFINE v == IF At(d, k) = Stop THEN k + 1
                  ELSE IF k + 1 >= Len(d) THEN 0
                  ELSE f[k + At(d, k + 1) + 4]
             g == [f EXCEPT ![k] = v]
  <2>2. v \in Nat
    <3>1. ~(k + 1 >= Len(d)) => k + At(d, k + 1) + 4 \in Nat
      BY <1>1, SMTT(60)
    <3>2. ~(k + 1 >= Len(d)) => f[k + At(d, k + 1) + 4] \in Nat
      BY <2>1, <3>1
    <3>3. k + 1 \in Nat
      OBVIOUS
    <3> QED
      BY <3>2, <3>3
  <2>3. g \in [Nat -> Nat] /\ g[k] = v /\ \A a \in Nat : a # k => g[a] = f[a]
    BY <2>2
  <2> HIDE DEF v, g
  <2>4. ASSUME NEW a \in Nat, a >= k PROVE Right(g, a)
    <3>1. ~(a + 1 >= Len(d))
            => g[a + At(d, a + 1) + 4] = f[a + At(d, a + 1) + 4]
      <4> SUFFICES ASSUME ~(a + 1 >= Len(d))
                   PROVE  g[a + At(d, a + 1) + 4] = f[a + At(d, a + 1) + 4]
        OBVIOUS
      <4>1. a + 1 < Len(d)
        <5>1. Len(d) \in Nat
          BY <1>1
        <5> QED
          BY <5>1
      <4>2. PICK b : b = a + At(d, a + 1) + 4
        OBVIOUS
      <4>3. b \in Nat /\ b > a
        BY <1>1, <4>1, <4>2
      <4>4. b \in Nat /\ b # k
        BY <2>4, <4>3
      <4> QED
        BY <2>3, <4>2, <4>4
    <3>2. CASE a = k
      <4>1. ~(a >= Len(d))
        BY <1>3, <3>2
      <4>2. g[a] = v
        BY <2>3, <3>2
      <4> QED
        BY <3>1, <3>2, <4>1, <4>2 DEF v
    <3>3. CASE a > k
      <4>1. g[a] = f[a]
        BY <2>3, <3>3
      <4>2. a >= k + 1
        BY <3>3
      <4>3. Right(f, a)
        BY <2>1, <4>2
      <4> QED
        BY <3>1, <4>1, <4>3
    <3> QED
      BY <2>4, <3>2, <3>3
  <2> QED
    BY <2>3, <2>4
<1>4. \A k \in Nat : k < Len(d) /\ (\A j \in Nat : j > k => j \in S) => k \in S
  <2>1. \A k \in Nat : k + 1 \in Nat /\ k + 1 > k
    OBVIOUS
  <2> HIDE DEF Made
  <2> QED
    BY <1>3, <2>1
<1>5. 0 \in S
  <2> HIDE DEF S
  <2> QED
    BY <1>1, <1>2, <1>4, Downwards
<1>6. PICK f \in [Nat -> Nat] : \A a \in Nat : a >= 0 => Right(f, a)
  BY <1>5
<1>7. f = [a \in Nat |->
             IF a >= Len(d) THEN 0
             ELSE IF At(d, a) = Stop THEN a + 1
             ELSE IF a + 1 >= Len(d) THEN 0
             ELSE f[a + At(d, a + 1) + 4]]
  <2>1. f = [a \in Nat |-> f[a]]
    BY <1>6
  <2>2. \A a \in Nat : Right(f, a)
    BY <1>6
  <2> QED
    BY <2>1, <2>2
<1> QED
  BY <1>7
LEMMA PostsExist ==
  ASSUME NEW d \in Seq(Byte)
  PROVE  \E f : f = [a \in Nat |->
           IF a + 1 >= Len(d) \/ At(d, a) = Stop THEN {}
           ELSE {a} \cup f[a + At(d, a + 1) + 4]]
<1> DEFINE Right(f, a) ==
             f[a] = IF a + 1 >= Len(d) \/ At(d, a) = Stop THEN {}
                    ELSE {a} \cup f[a + At(d, a + 1) + 4]
           Made(k) == \E f \in [Nat -> SUBSET Nat] : \A a \in Nat : a >= k => Right(f, a)
           S == {k \in Nat : Made(k)}
<1>1. /\ Len(d) \in Nat
      /\ \A a \in Nat : a + 1 < Len(d) =>
           At(d, a + 1) \in Nat /\ a + At(d, a + 1) + 4 \in Nat
           /\ a + At(d, a + 1) + 4 > a
  <2>1. Len(d) \in Nat
    BY Reading
  <2>2. ASSUME NEW a \in Nat, a + 1 < Len(d)
        PROVE  At(d, a + 1) \in Nat
    <3>1. a + 1 \in Nat
      OBVIOUS
    <3> QED
      BY <2>2, <3>1, Reading
  <2>3. \A a, b \in Nat : a + b + 4 \in Nat /\ a + b + 4 > a
    OBVIOUS
  <2> QED
    BY <2>1, <2>2, <2>3
<1>2. \A k \in Nat : k >= Len(d) => k \in S
  <2>1. ASSUME NEW k \in Nat, k >= Len(d) PROVE Made(k)
    <3> DEFINE f == [a \in Nat |-> {}]
    <3>1. f \in [Nat -> SUBSET Nat]
      OBVIOUS
    <3>2. ASSUME NEW a \in Nat, a >= k PROVE Right(f, a)
      <4>1. a + 1 >= Len(d)
        BY <1>1, <2>1, <3>2
      <4> QED
        BY <4>1
    <3> QED
      BY <3>1, <3>2
  <2> QED
    BY <2>1
<1>3. ASSUME NEW k \in Nat, k < Len(d), Made(k + 1) PROVE Made(k)
  <2>1. PICK f \in [Nat -> SUBSET Nat] : \A a \in Nat : a >= k + 1 => Right(f, a)
    BY <1>3
  <2> DEFINE v == IF k + 1 >= Len(d) \/ At(d, k) = Stop THEN {}
                  ELSE {k} \cup f[k + At(d, k + 1) + 4]
             g == [f EXCEPT ![k] = v]
  <2>2. v \in SUBSET Nat
    <3>1. ~(k + 1 >= Len(d)) => k + At(d, k + 1) + 4 \in Nat
      BY <1>1
    <3>2. ~(k + 1 >= Len(d)) => f[k + At(d, k + 1) + 4] \in SUBSET Nat
      BY <2>1, <3>1
    <3> QED
      BY <3>2
  <2>3. g \in [Nat -> SUBSET Nat] /\ g[k] = v /\ \A a \in Nat : a # k => g[a] = f[a]
    BY <2>1, <2>2
  <2> HIDE DEF v, g
  <2>4. ASSUME NEW a \in Nat, a >= k PROVE Right(g, a)
    <3>1. ~(a + 1 >= Len(d))
            => g[a + At(d, a + 1) + 4] = f[a + At(d, a + 1) + 4]
      <4> SUFFICES ASSUME ~(a + 1 >= Len(d))
                   PROVE  g[a + At(d, a + 1) + 4] = f[a + At(d, a + 1) + 4]
        OBVIOUS
      <4>1. a + 1 < Len(d)
        <5>1. Len(d) \in Nat
          BY <1>1
        <5> QED
          BY <5>1
      <4>2. PICK b : b = a + At(d, a + 1) + 4
        OBVIOUS
      <4>3. b \in Nat /\ b > a
        BY <1>1, <4>1, <4>2
      <4>4. b \in Nat /\ b # k
        BY <2>4, <4>3
      <4> QED
        BY <2>3, <4>2, <4>4
    <3>2. CASE a = k
      <4>1. g[a] = v
        BY <2>3, <3>2
      <4> QED
        BY <3>1, <3>2, <4>1 DEF v
    <3>3. CASE a > k
      <4>1. g[a] = f[a]
        BY <2>3, <3>3
      <4>2. a >= k + 1
        BY <3>3
      <4>3. Right(f, a)
        BY <2>1, <4>2
      <4> QED
        BY <3>1, <4>1, <4>3
    <3> QED
      BY <2>4, <3>2, <3>3
  <2> QED
    BY <2>3, <2>4
<1>4. \A k \in Nat : k < Len(d) /\ (\A j \in Nat : j > k => j \in S) => k \in S
  <2>1. \A k \in Nat : k + 1 \in Nat /\ k + 1 > k
    OBVIOUS
  <2> HIDE DEF Made
  <2> QED
    BY <1>3, <2>1
<1>5. 0 \in S
  <2> HIDE DEF S
  <2> QED
    BY <1>1, <1>2, <1>4, Downwards
<1>6. PICK f \in [Nat -> SUBSET Nat] : \A a \in Nat : a >= 0 => Right(f, a)
  BY <1>5
<1>7. f = [a \in Nat |->
             IF a + 1 >= Len(d) \/ At(d, a) = Stop THEN {}
             ELSE {a} \cup f[a + At(d, a + 1) + 4]]
  <2>1. f = [a \in Nat |-> f[a]]
    BY <1>6
  <2>2. \A a \in Nat : Right(f, a)
    BY <1>6
  <2> QED
    BY <2>1, <2>2
<1> QED
  BY <1>7

\* The two as equations.
LEMMA EndStep ==
  ASSUME NEW d \in Seq(Byte), NEW a \in Nat
  PROVE  /\ a >= Len(d) => ColumnEnd(d, a) = 0
         /\ a < Len(d) /\ At(d, a) = Stop => ColumnEnd(d, a) = a + 1
         /\ a < Len(d) /\ At(d, a) # Stop /\ ~PostAt(d, a) => ColumnEnd(d, a) = 0
         /\ PostAt(d, a) => ColumnEnd(d, a) = ColumnEnd(d, After(d, a))
<1>1. \A c : ColumnEnd(d, c) = EndFrom(d)[c]
  BY DEF ColumnEnd, EndFrom
<1>2. EndFrom(d) = [b \in Nat |->
        IF b >= Len(d) THEN 0
        ELSE IF At(d, b) = Stop THEN b + 1
        ELSE IF b + 1 >= Len(d) THEN 0
        ELSE EndFrom(d)[b + At(d, b + 1) + 4]]
  BY EndExists DEF EndFrom
<1> DEFINE f == EndFrom(d)
<1> HIDE DEF f
<1>3. f[a] = IF a >= Len(d) THEN 0
             ELSE IF At(d, a) = Stop THEN a + 1
             ELSE IF a + 1 >= Len(d) THEN 0
             ELSE f[a + At(d, a + 1) + 4]
  BY <1>2 DEF f
<1>4. Len(d) \in Nat
  BY Reading
<1>5. \A c : ColumnEnd(d, c) = f[c]
  BY <1>1 DEF f
<1> QED
  BY <1>3, <1>4, <1>5 DEF PostAt, After

LEMMA PostsStep ==
  ASSUME NEW d \in Seq(Byte), NEW a \in Nat
  PROVE  Posts(d, a) = IF PostAt(d, a) THEN {a} \cup Posts(d, After(d, a)) ELSE {}
<1>1. \A c : Posts(d, c) = PostsFrom(d)[c]
  BY DEF Posts, PostsFrom
<1>2. PostsFrom(d) = [b \in Nat |->
        IF b + 1 >= Len(d) \/ At(d, b) = Stop THEN {}
        ELSE {b} \cup PostsFrom(d)[b + At(d, b + 1) + 4]]
  BY PostsExist DEF PostsFrom
<1> DEFINE f == PostsFrom(d)
<1> HIDE DEF f
<1>3. f[a] = IF a + 1 >= Len(d) \/ At(d, a) = Stop THEN {}
             ELSE {a} \cup f[a + At(d, a + 1) + 4]
  BY <1>2 DEF f
<1>4. Len(d) \in Nat
  BY Reading
<1>5. PostAt(d, a) <=> ~(a + 1 >= Len(d) \/ At(d, a) = Stop)
  BY <1>4 DEF PostAt
<1>6. \A c : Posts(d, c) = f[c]
  BY <1>1 DEF f
<1> QED
  BY <1>3, <1>5, <1>6 DEF After

\* A column that has an end has it within the lump.
LEMMA EndWithin ==
  ASSUME NEW d \in Seq(Byte), NEW a \in Nat
  PROVE  /\ ColumnEnd(d, a) \in Nat
         /\ ColumnEnd(d, a) # 0 =>
              /\ a < ColumnEnd(d, a) /\ ColumnEnd(d, a) <= Len(d)
              /\ At(d, ColumnEnd(d, a) - 1) = Stop
<1> DEFINE Good(b) ==
             /\ ColumnEnd(d, b) \in Nat
             /\ ColumnEnd(d, b) # 0 =>
                  /\ b < ColumnEnd(d, b) /\ ColumnEnd(d, b) <= Len(d)
                  /\ At(d, ColumnEnd(d, b) - 1) = Stop
           S == {b \in Nat : Good(b)}
<1>1. Len(d) \in Nat
  BY Reading
<1>2. \A k \in Nat : k >= Len(d) => k \in S
  BY EndStep
<1>3. ASSUME NEW k \in Nat, k < Len(d), \A j \in Nat : j > k => j \in S
      PROVE  Good(k)
  <2>1. CASE PostAt(d, k)
    <3>1. After(d, k) \in Nat /\ After(d, k) > k
      BY <2>1, Reading
    <3>2. Good(After(d, k)) /\ ColumnEnd(d, k) = ColumnEnd(d, After(d, k))
      BY <1>3, <2>1, <3>1, EndStep
    <3> QED
      BY <3>1, <3>2
  <2>2. CASE ~PostAt(d, k) /\ At(d, k) # Stop
    <3>1. ColumnEnd(d, k) = 0
      BY <1>3, <2>2, EndStep
    <3> QED
      BY <3>1
  <2>3. CASE At(d, k) = Stop
    <3>1. ColumnEnd(d, k) = k + 1 /\ k + 1 - 1 = k
      BY <1>3, <2>3, EndStep
    <3> QED
      BY <1>1, <1>3, <2>3, <3>1
  <2> QED
    BY <2>1, <2>2, <2>3
<1>4. \A k \in Nat : k < Len(d) /\ (\A j \in Nat : j > k => j \in S) => k \in S
  <2> HIDE DEF Good
  <2> QED
    BY <1>3
<1>5. a \in S
  <2> HIDE DEF S
  <2> QED
    BY <1>1, <1>2, <1>4, Downwards
<1> QED
  BY <1>5
\* The posts of a column that has an end are in order within it, each where the
\* one before it leads.
LEMMA PostsWithin ==
  ASSUME NEW d \in Seq(Byte), NEW a \in Nat, ColumnEnd(d, a) # 0,
         NEW p \in Posts(d, a)
  PROVE  /\ p \in Nat /\ a <= p /\ PostAt(d, p)
         /\ ColumnEnd(d, p) = ColumnEnd(d, a)
         /\ After(d, p) \in Nat /\ After(d, p) < ColumnEnd(d, a)
         /\ PostAt(d, After(d, p)) => After(d, p) \in Posts(d, a)
         /\ \A q \in Posts(d, a) : p < q => After(d, p) <= q
<1> DEFINE Good(b) ==
             ColumnEnd(d, b) # 0 =>
               \A r \in Posts(d, b) :
                 /\ r \in Nat /\ b <= r /\ PostAt(d, r)
                 /\ ColumnEnd(d, r) = ColumnEnd(d, b)
                 /\ PostAt(d, After(d, r)) => After(d, r) \in Posts(d, b)
                 /\ \A q \in Posts(d, b) : r < q => After(d, r) <= q
           S == {b \in Nat : Good(b)}
<1>1. Len(d) \in Nat
  BY Reading
<1>2. \A k \in Nat : k >= Len(d) => k \in S
  BY EndStep
<1>3. ASSUME NEW k \in Nat, k < Len(d), \A j \in Nat : j > k => j \in S
      PROVE  Good(k)
  <2>1. CASE PostAt(d, k)
    <3> DEFINE n == After(d, k)
    <3>1. n \in Nat /\ n > k
      BY <2>1, Reading
    <3> HIDE DEF n
    <3>2. Good(n) /\ ColumnEnd(d, k) = ColumnEnd(d, n)
      BY <1>3, <2>1, <3>1, EndStep DEF n
    <3>3. Posts(d, k) = {k} \cup Posts(d, n)
      BY <2>1, PostsStep DEF n
    <3> SUFFICES ASSUME ColumnEnd(d, k) # 0, NEW r \in Posts(d, k)
                 PROVE  /\ r \in Nat /\ k <= r /\ PostAt(d, r)
                        /\ ColumnEnd(d, r) = ColumnEnd(d, k)
                        /\ PostAt(d, After(d, r)) => After(d, r) \in Posts(d, k)
                        /\ \A q \in Posts(d, k) : r < q => After(d, r) <= q
      OBVIOUS
    <3>4. \A q \in Posts(d, n) :
            /\ q \in Nat /\ n <= q /\ PostAt(d, q) /\ ColumnEnd(d, q) = ColumnEnd(d, n)
            /\ PostAt(d, After(d, q)) => After(d, q) \in Posts(d, n)
            /\ \A s \in Posts(d, n) : q < s => After(d, q) <= s
      BY <3>2
    <3>5. CASE r = k
      <4>1. PostAt(d, n) => n \in Posts(d, n)
        BY <3>1, PostsStep
      <4>2. \A q \in Posts(d, k) : k < q => n <= q
        BY <3>3, <3>4
      <4> QED
        BY <2>1, <3>3, <3>5, <4>1, <4>2 DEF n
    <3>6. CASE r \in Posts(d, n)
      <4>0. r \in Nat /\ n <= r
        BY <3>4, <3>6
      <4>2. k <= r /\ ~(r < k)
        BY <3>1, <4>0
      <4>1. \A q \in Posts(d, k) : r < q => q \in Posts(d, n)
        BY <3>3, <4>2
      <4> QED
        BY <3>2, <3>3, <3>4, <3>6, <4>0, <4>1, <4>2
    <3> QED
      BY <3>3, <3>5, <3>6
  <2>2. CASE ~PostAt(d, k)
    <3>1. Posts(d, k) = {}
      BY <2>2, PostsStep
    <3> QED
      BY <3>1
  <2> QED
    BY <2>1, <2>2
<1>4. \A k \in Nat : k < Len(d) /\ (\A j \in Nat : j > k => j \in S) => k \in S
  <2> HIDE DEF Good
  <2> QED
    BY <1>3
<1>5. a \in S
  <2> HIDE DEF S
  <2> QED
    BY <1>1, <1>2, <1>4, Downwards
<1>6. /\ p \in Nat /\ a <= p /\ PostAt(d, p)
      /\ ColumnEnd(d, p) = ColumnEnd(d, a)
      /\ PostAt(d, After(d, p)) => After(d, p) \in Posts(d, a)
      /\ \A q \in Posts(d, a) : p < q => After(d, p) <= q
  BY <1>5
<1>7. After(d, p) \in Nat /\ ColumnEnd(d, After(d, p)) = ColumnEnd(d, a)
  BY <1>6, Reading, EndStep
<1>8. After(d, p) < ColumnEnd(d, a)
  BY <1>7, EndWithin
<1> QED
  BY <1>6, <1>7, <1>8

\* A column that has an end begins with a post or with it.
LEMMA PostOrStop ==
  ASSUME NEW d \in Seq(Byte), NEW a \in Nat, ColumnEnd(d, a) # 0
  PROVE  /\ a < Len(d)
         /\ At(d, a) # Stop <=> PostAt(d, a)
         /\ At(d, a) # Stop <=> a \in Posts(d, a)
<1>1. a < Len(d) /\ Len(d) \in Nat
  <2>1. Len(d) \in Nat
    BY Reading
  <2> QED
    BY <2>1, EndStep
<1>2. At(d, a) # Stop <=> PostAt(d, a)
  BY <1>1, EndStep DEF PostAt
<1> QED
  BY <1>1, <1>2, PostsStep

\* A column that is found elsewhere, in the same or in another lump, is the same.
LEMMA Moved ==
  ASSUME NEW d \in Seq(Byte), NEW e \in Seq(Byte), NEW a \in Nat, NEW b \in Nat,
         ColumnEnd(d, a) # 0,
         b + (ColumnEnd(d, a) - a) <= Len(e),
         \A j \in Nat : j < ColumnEnd(d, a) - a => At(e, b + j) = At(d, a + j)
  PROVE  /\ ColumnEnd(e, b) = b + (ColumnEnd(d, a) - a)
         /\ \A j \in Nat : b + j \in Posts(e, b) <=> a + j \in Posts(d, a)
<1> DEFINE Good(k) ==
             \A m \in Nat :
               /\ ColumnEnd(d, k) # 0
               /\ m + (ColumnEnd(d, k) - k) <= Len(e)
               /\ \A j \in Nat : j < ColumnEnd(d, k) - k => At(e, m + j) = At(d, k + j)
               => /\ ColumnEnd(e, m) = m + (ColumnEnd(d, k) - k)
                  /\ \A j \in Nat : m + j \in Posts(e, m) <=> k + j \in Posts(d, k)
           S == {k \in Nat : Good(k)}
<1>1. Len(d) \in Nat /\ Len(e) \in Nat
  BY Reading
<1>2. \A k \in Nat : k >= Len(d) => k \in S
  BY EndStep
<1>3. ASSUME NEW k \in Nat, k < Len(d), \A j \in Nat : j > k => j \in S
      PROVE  Good(k)
  <2> DEFINE E == ColumnEnd(d, k)
  <2> SUFFICES ASSUME NEW m \in Nat, E # 0, m + (E - k) <= Len(e),
                      \A j \in Nat : j < E - k => At(e, m + j) = At(d, k + j)
               PROVE  /\ ColumnEnd(e, m) = m + (E - k)
                      /\ \A j \in Nat : m + j \in Posts(e, m) <=> k + j \in Posts(d, k)
    OBVIOUS
  <2>1. E \in Nat /\ k < E
    BY EndWithin
  <2> HIDE DEF E
  <2>2. At(e, m) = At(d, k) /\ m < Len(e)
    <3>1. At(e, m + 0) = At(d, k + 0) /\ m + 0 = m /\ k + 0 = k
      BY <2>1
    <3> QED
      BY <1>1, <2>1, <3>1
  <2>3. CASE At(d, k) = Stop
    <3>1. E = k + 1 /\ ColumnEnd(e, m) = m + 1
      BY <1>3, <2>2, <2>3, EndStep DEF E
    <3>2. ~PostAt(d, k) /\ ~PostAt(e, m)
      BY <2>2, <2>3 DEF PostAt
    <3>3. Posts(d, k) = {} /\ Posts(e, m) = {}
      BY <3>2, PostsStep
    <3> QED
      BY <3>1, <3>3
  <2>4. CASE At(d, k) # Stop
    <3>1. PostAt(d, k)
      BY <2>4, PostOrStop DEF E
    <3> DEFINE n == After(d, k)
               L == n - k
    <3>2. /\ n \in Nat /\ n >= k + 4 /\ n < E /\ ColumnEnd(d, n) = E
          /\ L \in Nat /\ L > 1 /\ n = k + L
      <4>1. n \in Nat /\ n >= k + 4 /\ ColumnEnd(d, n) = E
        BY <3>1, Reading, EndStep DEF E
      <4>2. n < E
        BY <2>1, <4>1, EndWithin
      <4> HIDE DEF n
      <4> QED
        BY <4>1, <4>2
    <3>3. PostAt(e, m) /\ After(e, m) = m + L
      <4>1. m + 1 < Len(e)
        BY <1>1, <2>1, <3>2
      <4>2. At(e, m + 1) = At(d, k + 1)
        BY <2>1, <3>2
      <4>3. PostAt(e, m)
        BY <2>2, <2>4, <4>1 DEF PostAt
      <4>4. At(d, k + 1) \in Nat
        BY <3>1, Reading DEF PostAt
      <4> QED
        BY <4>2, <4>3, <4>4 DEF After
    <3> HIDE DEF n, L
    <3>4. Good(n)
      <4>1. n \in Nat /\ n > k
        BY <3>2
      <4>2. n \in S
        BY <1>3, <4>1
      <4> QED
        BY <4>2
    <3>5. /\ m + L \in Nat
          /\ m + L + (E - n) <= Len(e)
          /\ \A j \in Nat : j < E - n => At(e, m + L + j) = At(d, n + j)
      <4>1. ASSUME NEW j \in Nat, j < E - n
            PROVE  At(e, m + L + j) = At(d, n + j)
        <5>1. L + j \in Nat /\ L + j < E - k
          BY <2>1, <3>2, <4>1
        <5>2. At(e, m + (L + j)) = At(d, k + (L + j))
          BY <5>1
        <5>3. m + (L + j) = m + L + j /\ k + (L + j) = n + j
          BY <3>2
        <5> QED
          BY <5>2, <5>3
      <4> QED
        BY <2>1, <3>2, <4>1
    <3>6. /\ ColumnEnd(e, m + L) = m + L + (E - n)
          /\ \A j \in Nat : m + L + j \in Posts(e, m + L) <=> n + j \in Posts(d, n)
      BY <2>1, <3>2, <3>4, <3>5
    <3>7. ColumnEnd(e, m) = m + (E - k)
      <4>1. ColumnEnd(e, m) = ColumnEnd(e, m + L)
        BY <3>3, EndStep
      <4> QED
        BY <2>1, <3>2, <3>6, <4>1
    <3>8. Posts(d, k) = {k} \cup Posts(d, n) /\ Posts(e, m) = {m} \cup Posts(e, m + L)
      BY <3>1, <3>3, PostsStep DEF n
    <3>9. /\ \A p \in Posts(d, n) : p \in Nat /\ n <= p
          /\ \A p \in Posts(e, m + L) : p \in Nat /\ m + L <= p
      <4>1. ColumnEnd(d, n) # 0 /\ ColumnEnd(e, m + L) # 0
        BY <2>1, <3>2, <3>5, <3>6
      <4> QED
        BY <3>2, <3>5, <4>1, PostsWithin
    <3>10. ASSUME NEW j \in Nat
           PROVE  m + j \in Posts(e, m) <=> k + j \in Posts(d, k)
      <4>1. CASE j = 0
        BY <3>8, <4>1
      <4>2. CASE j > 0 /\ j < L
        <5>1. m + j \notin Posts(e, m + L) /\ k + j \notin Posts(d, n)
          BY <3>2, <3>9, <4>2
        <5> QED
          BY <3>8, <4>2, <5>1
      <4>3. CASE j >= L
        <5>1. /\ j - L \in Nat /\ m + L + (j - L) = m + j /\ n + (j - L) = k + j
              /\ m + j # m /\ k + j # k
          BY <3>2, <4>3
        <5>2. m + j \in Posts(e, m + L) <=> k + j \in Posts(d, n)
          BY <3>6, <5>1
        <5> QED
          BY <3>8, <5>1, <5>2
      <4> QED
        BY <3>2, <4>1, <4>2, <4>3
    <3> QED
      BY <3>7, <3>10
  <2> QED
    BY <2>3, <2>4
<1>4. \A k \in Nat : k < Len(d) /\ (\A j \in Nat : j > k => j \in S) => k \in S
  <2> HIDE DEF Good
  <2> QED
    BY <1>3
<1>5. a \in S
  <2> HIDE DEF S
  <2> QED
    BY <1>1, <1>2, <1>4, Downwards
<1> QED
  BY <1>5
-----------------------------------------------------------------------------
(* What a column shows *)

Pixel(d, p, r) == At(d, p + 3 + r - At(d, p))

\* What a post says of itself.
LEMMA PostRead ==
  ASSUME NEW d \in Seq(Byte), NEW p \in Nat, PostAt(d, p)
  PROVE  /\ At(d, p) \in Nat /\ At(d, p + 1) \in Nat
         /\ At(d, p) < 256 /\ At(d, p + 1) < 256
         /\ After(d, p) = p + At(d, p + 1) + 4
         /\ \A r \in Rows(d, p) :
              /\ r \in Nat /\ p + 3 + r - At(d, p) \in Nat
              /\ p + 3 <= p + 3 + r - At(d, p)
              /\ p + 3 + r - At(d, p) < p + At(d, p + 1) + 3
<1>1. p < Len(d) /\ p + 1 < Len(d) /\ Len(d) \in Nat /\ p + 1 \in Nat
  <2>1. Len(d) \in Nat
    BY Reading
  <2> QED
    BY <2>1 DEF PostAt
<1>2. At(d, p) \in Byte /\ At(d, p + 1) \in Byte
  BY <1>1, Reading
<1>3. At(d, p) \in Nat /\ At(d, p + 1) \in Nat /\ At(d, p) < 256 /\ At(d, p + 1) < 256
  <2>1. \A b \in Byte : b \in Nat /\ b < 256
    BY DEF Byte
  <2> QED
    BY <1>2, <2>1
<1>4. ASSUME NEW r \in Rows(d, p)
      PROVE  /\ r \in Nat /\ p + 3 + r - At(d, p) \in Nat
             /\ p + 3 <= p + 3 + r - At(d, p)
             /\ p + 3 + r - At(d, p) < p + At(d, p + 1) + 3
  BY <1>3, <1>4, SMTT(60) DEF Rows
<1> QED
  BY <1>3, <1>4 DEF After

\* In a column whose posts ascend one post at most covers a row.
LEMMA ShownAt ==
  ASSUME NEW d \in Seq(Byte), NEW a \in Nat, ColumnEnd(d, a) # 0, Ascends(d, a),
         NEW p \in Posts(d, a), NEW r \in Rows(d, p)
  PROVE  Shown(d, a)[r] = Pixel(d, p, r)
<1> DEFINE C == {q \in Posts(d, a) : r \in Rows(d, q)}
<1>1. \A q \in Posts(d, a) : q \in Nat /\ At(d, q) \in Nat /\ At(d, q + 1) \in Nat
  BY PostsWithin, PostRead, ZenonT(60)
<1>2. ASSUME NEW q \in Posts(d, a), r \in Rows(d, q) PROVE q = p
  <2>1. /\ p < q => At(d, p) + At(d, p + 1) <= At(d, q)
        /\ q < p => At(d, q) + At(d, q + 1) <= At(d, p)
    BY DEF Ascends
  <2>2. /\ At(d, p) <= r /\ r < At(d, p) + At(d, p + 1)
        /\ At(d, q) <= r /\ r < At(d, q) + At(d, q + 1) /\ r \in Int
    BY <1>1, <1>2, SMTT(60) DEF Rows
  <2> QED
    BY <1>1, <2>1, <2>2
<1>3. C = {p}
  BY <1>2
<1>4. Max({p}) = p
  <2>1. p \in Nat
    BY <1>1
  <2> QED
    BY <2>1 DEF Max
<1>5. r \in UNION {Rows(d, q) : q \in Posts(d, a)}
  OBVIOUS
<1>6. Shown(d, a)[r] = At(d, Max(C) + 3 + r - At(d, Max(C)))
  <2> HIDE DEF C
  <2>1. Shown(d, a) = [s \in UNION {Rows(d, q) : q \in Posts(d, a)} |->
          At(d, Max({q \in Posts(d, a) : s \in Rows(d, q)}) + 3 + s
                  - At(d, Max({q \in Posts(d, a) : s \in Rows(d, q)})))]
    BY DEF Shown
  <2> QED
    BY <1>5, <2>1 DEF C
<1> HIDE DEF C
<1> QED
  BY <1>3, <1>4, <1>6 DEF Pixel

LEMMA ShownSame ==
  ASSUME NEW d \in Seq(Byte), NEW a \in Nat, ColumnEnd(d, a) # 0, Ascends(d, a),
         NEW e \in Seq(Byte), NEW b \in Nat, ColumnEnd(e, b) # 0, Ascends(e, b),
         \A p \in Posts(d, a) : \A r \in Rows(d, p) :
           \E q \in Posts(e, b) : r \in Rows(e, q) /\ Pixel(e, q, r) = Pixel(d, p, r),
         \A q \in Posts(e, b) : \A r \in Rows(e, q) :
           \E p \in Posts(d, a) : r \in Rows(d, p)
  PROVE  Shown(e, b) = Shown(d, a)
<1> DEFINE D == UNION {Rows(d, p) : p \in Posts(d, a)}
           F == UNION {Rows(e, q) : q \in Posts(e, b)}
<1>1. D = F
  OBVIOUS
<1>2. ASSUME NEW r \in D PROVE Shown(e, b)[r] = Shown(d, a)[r]
  <2>1. PICK p \in Posts(d, a) : r \in Rows(d, p)
    OBVIOUS
  <2>2. PICK q \in Posts(e, b) : r \in Rows(e, q) /\ Pixel(e, q, r) = Pixel(d, p, r)
    BY <2>1
  <2>3. Shown(d, a)[r] = Pixel(d, p, r)
    BY <2>1, ShownAt
  <2>4. Shown(e, b)[r] = Pixel(e, q, r)
    BY <2>2, ShownAt
  <2> QED
    BY <2>2, <2>3, <2>4
<1>3. Shown(d, a) = [r \in D |-> Shown(d, a)[r]] /\ Shown(e, b) = [r \in F |-> Shown(e, b)[r]]
  BY DEF Shown
<1> HIDE DEF D, F
<1> QED
  BY <1>1, <1>2, <1>3

\* A column that has an end is at another place too.
Alike(d, a, e, b) ==
  /\ ColumnEnd(d, a) # 0
  /\ b + (ColumnEnd(d, a) - a) <= Len(e)
  /\ \A j \in Nat : j < ColumnEnd(d, a) - a => At(e, b + j) = At(d, a + j)

SamePost(d, p, e, q) ==
  /\ At(e, q) = At(d, p) /\ At(e, q + 1) = At(d, p + 1)
  /\ Rows(e, q) = Rows(d, p)
  /\ \A r \in Rows(d, p) : Pixel(e, q, r) = Pixel(d, p, r)

\* A post whose bytes are found elsewhere.
LEMMA PostMoved ==
  ASSUME NEW d \in Seq(Byte), NEW e, NEW p \in Nat, NEW q \in Nat,
         PostAt(d, p),
         \A j \in Nat : j < At(d, p + 1) + 4 => At(e, q + j) = At(d, p + j)
  PROVE  SamePost(d, p, e, q)
<1>1. At(d, p) \in Nat /\ At(d, p + 1) \in Nat
  BY PostRead
<1>2. At(e, q) = At(d, p) /\ At(e, q + 1) = At(d, p + 1)
  <2>1. At(e, q + 0) = At(d, p + 0) /\ At(e, q + 1) = At(d, p + 1)
    BY <1>1
  <2>2. q + 0 = q /\ p + 0 = p
    OBVIOUS
  <2> QED
    BY <2>1, <2>2
<1>3. ASSUME NEW r \in Rows(d, p) PROVE Pixel(e, q, r) = Pixel(d, p, r)
  <2> DEFINE j == 3 + r - At(d, p)
  <2>1. r \in Nat /\ p + 3 <= p + 3 + r - At(d, p)
        /\ p + 3 + r - At(d, p) < p + At(d, p + 1) + 3
    BY PostRead
  <2>2. j \in Nat /\ j < At(d, p + 1) + 4
        /\ q + 3 + r - At(d, p) = q + j /\ p + 3 + r - At(d, p) = p + j
    <3>1. \A u, v \in Nat :
            /\ p + 3 <= p + 3 + r - u /\ p + 3 + r - u < p + v + 3
            => /\ 3 + r - u \in Nat /\ 3 + r - u < v + 4
               /\ q + 3 + r - u = q + (3 + r - u)
               /\ p + 3 + r - u = p + (3 + r - u)
      BY <2>1
    <3> QED
      BY <1>1, <2>1, <3>1
  <2> HIDE DEF j
  <2>3. At(e, q + j) = At(d, p + j)
    BY <2>2
  <2> QED
    BY <1>2, <2>2, <2>3 DEF Pixel
<1> QED
  BY <1>2, <1>3 DEF SamePost, Rows

LEMMA PostsMoved ==
  ASSUME NEW d \in Seq(Byte), NEW e \in Seq(Byte), NEW a \in Nat, NEW b \in Nat,
         Alike(d, a, e, b)
  PROVE  /\ ColumnEnd(e, b) = b + (ColumnEnd(d, a) - a) /\ ColumnEnd(e, b) # 0
         /\ \A p \in Posts(d, a) :
              p - a + b \in Posts(e, b) /\ SamePost(d, p, e, p - a + b)
         /\ \A q \in Posts(e, b) :
              q - b + a \in Posts(d, a) /\ SamePost(d, q - b + a, e, q)
<1>1. /\ ColumnEnd(e, b) = b + (ColumnEnd(d, a) - a)
      /\ \A j \in Nat : b + j \in Posts(e, b) <=> a + j \in Posts(d, a)
  BY Moved DEF Alike
<1>2. ColumnEnd(d, a) \in Nat /\ a < ColumnEnd(d, a)
  BY EndWithin DEF Alike
<1>3. ColumnEnd(e, b) # 0
  BY <1>1, <1>2
<1>4. ASSUME NEW i0 \in Nat, a + i0 \in Posts(d, a)
      PROVE  SamePost(d, a + i0, e, b + i0)
  <2>1. PostAt(d, a + i0) /\ After(d, a + i0) < ColumnEnd(d, a)
    BY <1>4, PostsWithin DEF Alike
  <2>2. a + i0 \in Nat /\ b + i0 \in Nat
    OBVIOUS
  <2>3. After(d, a + i0) = a + i0 + At(d, a + i0 + 1) + 4 /\ At(d, a + i0 + 1) \in Nat
    BY <2>1, <2>2, PostRead
  <2>4. ASSUME NEW j \in Nat, j < At(d, a + i0 + 1) + 4
        PROVE  At(e, b + i0 + j) = At(d, a + i0 + j)
    <3>1. i0 + j \in Nat /\ i0 + j < ColumnEnd(d, a) - a
      BY <1>2, <2>1, <2>3, <2>4, SMTT(60)
    <3>2. At(e, b + (i0 + j)) = At(d, a + (i0 + j))
      BY <3>1 DEF Alike
    <3>3. b + (i0 + j) = b + i0 + j /\ a + (i0 + j) = a + i0 + j
      OBVIOUS
    <3> QED
      BY <3>2, <3>3
  <2> QED
    BY <2>1, <2>2, <2>4, PostMoved
<1>5. ASSUME NEW p \in Posts(d, a)
      PROVE  p - a + b \in Posts(e, b) /\ SamePost(d, p, e, p - a + b)
  <2>1. p \in Nat /\ a <= p
    BY PostsWithin DEF Alike
  <2>2. p - a \in Nat /\ a + (p - a) = p /\ b + (p - a) = p - a + b
    BY <2>1
  <2> QED
    BY <1>1, <1>4, <2>2
<1>6. ASSUME NEW q \in Posts(e, b)
      PROVE  q - b + a \in Posts(d, a) /\ SamePost(d, q - b + a, e, q)
  <2>1. q \in Nat /\ b <= q
    BY <1>3, PostsWithin
  <2>2. q - b \in Nat /\ b + (q - b) = q /\ a + (q - b) = q - b + a
    BY <2>1
  <2> QED
    BY <1>1, <1>4, <2>2
<1> QED
  BY <1>1, <1>3, <1>5, <1>6

\* So the column is as long there, is as tidy, and shows the same.
LEMMA ColumnMoved ==
  ASSUME NEW d \in Seq(Byte), NEW e \in Seq(Byte), NEW a \in Nat, NEW b \in Nat,
         Alike(d, a, e, b), Ascends(d, a)
  PROVE  /\ ColumnEnd(e, b) = b + (ColumnEnd(d, a) - a) /\ ColumnEnd(e, b) # 0
         /\ Ascends(e, b) /\ Shown(e, b) = Shown(d, a)
         /\ Combined(d, a) => Combined(e, b)
<1>0. /\ ColumnEnd(e, b) = b + (ColumnEnd(d, a) - a) /\ ColumnEnd(e, b) # 0
      /\ \A p \in Posts(d, a) :
           p - a + b \in Posts(e, b) /\ SamePost(d, p, e, p - a + b)
      /\ \A q \in Posts(e, b) :
           q - b + a \in Posts(d, a) /\ SamePost(d, q - b + a, e, q)
  BY PostsMoved
<1>1. ColumnEnd(d, a) # 0
  BY DEF Alike
<1>2. /\ \A p \in Posts(d, a) : p \in Nat /\ a <= p
      /\ \A q \in Posts(e, b) : q \in Nat /\ b <= q
  BY <1>0, <1>1, PostsWithin
<1>3. Ascends(e, b)
  <2> SUFFICES ASSUME NEW p \in Posts(e, b), NEW q \in Posts(e, b), p < q
               PROVE  At(e, p) + At(e, p + 1) <= At(e, q)
    BY DEF Ascends
  <2>1. /\ p - b + a \in Posts(d, a) /\ SamePost(d, p - b + a, e, p)
        /\ q - b + a \in Posts(d, a) /\ SamePost(d, q - b + a, e, q)
    BY <1>0
  <2>2. p - b + a < q - b + a
    BY <1>2
  <2>3. At(d, p - b + a) + At(d, p - b + a + 1) <= At(d, q - b + a)
    BY <2>1, <2>2 DEF Ascends
  <2> QED
    BY <2>1, <2>3 DEF SamePost
<1>4. Shown(e, b) = Shown(d, a)
  <2>1. \A p \in Posts(d, a) : \A r \in Rows(d, p) :
          \E q \in Posts(e, b) : r \in Rows(e, q) /\ Pixel(e, q, r) = Pixel(d, p, r)
    BY <1>0 DEF SamePost
  <2>2. \A q \in Posts(e, b) : \A r \in Rows(e, q) :
          \E p \in Posts(d, a) : r \in Rows(d, p)
    BY <1>0 DEF SamePost
  <2> QED
    BY <1>0, <1>1, <1>3, <2>1, <2>2, ShownSame
<1>5. ASSUME Combined(d, a) PROVE Combined(e, b)
  <2> SUFFICES ASSUME NEW q \in Posts(e, b) \ {b}
               PROVE  ~(/\ At(e, b) + At(e, b + 1) = At(e, q)
                        /\ At(e, b + 1) + At(e, q + 1) < 256)
    BY DEF Combined
  <2>1. q - b + a \in Posts(d, a) /\ SamePost(d, q - b + a, e, q) /\ q \in Nat /\ q # b
    BY <1>0, <1>2
  <2>2. q - b + a # a
    BY <2>1
  <2>3. b \in Posts(e, b)
    <3>1. Posts(e, b) # {}
      OBVIOUS
    <3>2. PostAt(e, b)
      BY <3>1, PostsStep
    <3> QED
      BY <3>2, PostsStep
  <2>4. SamePost(d, a, e, b)
    <3>1. b - b + a = a
      OBVIOUS
    <3> QED
      BY <1>0, <2>3, <3>1
  <2>5. ~(/\ At(d, a) + At(d, a + 1) = At(d, q - b + a)
          /\ At(d, a + 1) + At(d, q - b + a + 1) < 256)
    BY <1>5, <2>1, <2>2 DEF Combined
  <2> QED
    BY <2>1, <2>4, <2>5 DEF SamePost
<1> QED
  BY <1>0, <1>3, <1>4, <1>5
-----------------------------------------------------------------------------
(* Two posts become one *)

\* The code's comparison, of the post at c with the one at n.
Follows(d, c, n) ==
  /\ At(d, c) + At(d, c + 1) = At(d, n)
  /\ At(d, c + 1) + At(d, n + 1) < 256

\* A column is combined when its first post cannot be joined to the second: one
\* behind that could only follow on from the first if the second had no pixels.
LEMMA FirstDecides ==
  ASSUME NEW d \in Seq(Byte), NEW c \in Nat, ColumnEnd(d, c) # 0, Ascends(d, c),
         PostAt(d, c),
         ~(At(d, After(d, c)) # Stop /\ Follows(d, c, After(d, c)))
  PROVE  Combined(d, c)
<1> DEFINE n == After(d, c)
<1> SUFFICES ASSUME NEW b \in Posts(d, c) \ {c}, Follows(d, c, b) PROVE FALSE
  BY DEF Combined, Follows
<1>1. c \in Posts(d, c) /\ Posts(d, c) = {c} \cup Posts(d, n)
  BY PostsStep
<1>2. n \in Nat /\ ColumnEnd(d, n) # 0
  BY Reading, EndStep
<1> HIDE DEF n
<1>3. b \in Posts(d, n) /\ b \in Nat /\ n <= b /\ PostAt(d, b)
  BY <1>1, <1>2, PostsWithin
<1>4. PostAt(d, n) /\ n \in Posts(d, n) /\ At(d, n) # Stop
  <2>1. Posts(d, n) # {}
    BY <1>3
  <2>2. PostAt(d, n)
    BY <1>2, <2>1, PostsStep
  <2> QED
    BY <1>2, <2>2, PostsStep DEF PostAt
<1>5. n # b
  <2>1. ~Follows(d, c, n)
    BY <1>4 DEF n
  <2> QED
    BY <2>1
<1>6. c < n
  <2>1. n >= c + 4
    BY Reading DEF n
  <2> QED
    BY <1>2, <2>1
<1>7. /\ At(d, c) + At(d, c + 1) <= At(d, n)
      /\ At(d, n) + At(d, n + 1) <= At(d, b)
  <2>1. n \in Posts(d, c) /\ b \in Posts(d, c) /\ n < b
    BY <1>1, <1>2, <1>3, <1>4, <1>5
  <2> QED
    BY <1>1, <1>6, <2>1 DEF Ascends
<1>8. /\ At(d, c) \in Nat /\ At(d, c + 1) \in Nat /\ At(d, c + 1) < 256
      /\ At(d, n) \in Nat /\ At(d, n + 1) \in Nat
  BY <1>2, <1>4, PostRead
<1>9. At(d, c) + At(d, c + 1) = At(d, b)
  BY DEF Follows
<1>10. At(d, b) \in Nat
  BY <1>3, PostRead
<1>11. At(d, n + 1) = 0 /\ At(d, c) + At(d, c + 1) = At(d, n)
  BY <1>7, <1>8, <1>9, <1>10
<1>12. Follows(d, c, n)
  BY <1>8, <1>11 DEF Follows
<1> QED
  BY <1>4, <1>12 DEF n

\* What CombinePosts() does to the bytes of the column.
JoinedBytes(d, c, e) ==
  LET n == After(d, c)
      len == At(d, c + 1)
  IN /\ At(e, c) = At(d, c)
     /\ At(e, c + 1) = len + At(d, n + 1)
     /\ \A a \in Nat : c + 2 <= a /\ a < c + 3 + len => At(e, a) = At(d, a)
     /\ \A a \in Nat : c + 3 + len <= a /\ a < ColumnEnd(d, c) - 4
                         => At(e, a) = At(d, a + 4)

LEMMA JoinKeeps ==
  ASSUME NEW d \in Seq(Byte), NEW e \in Seq(Byte), Len(e) = Len(d),
         NEW c \in Nat, ColumnEnd(d, c) # 0, Ascends(d, c),
         PostAt(d, c), At(d, After(d, c)) # Stop, Follows(d, c, After(d, c)),
         JoinedBytes(d, c, e)
  PROVE  /\ ColumnEnd(e, c) = ColumnEnd(d, c) - 4 /\ ColumnEnd(e, c) # 0
         /\ Ascends(e, c) /\ Shown(e, c) = Shown(d, c)
<1> DEFINE n == After(d, c)
           m == After(d, n)
           E == ColumnEnd(d, c)
           row == At(d, c)
           len == At(d, c + 1)
           more == At(d, n + 1)
<1>1. n \in Nat /\ ColumnEnd(d, n) = E /\ Posts(d, c) = {c} \cup Posts(d, n)
  BY Reading, EndStep, PostsStep
<1>2. PostAt(d, n)
  BY <1>1, PostOrStop
<1>3. m \in Nat /\ ColumnEnd(d, m) = E /\ Posts(d, n) = {n} \cup Posts(d, m)
  BY <1>1, <1>2, Reading, EndStep, PostsStep
<1>4. E \in Nat /\ E # 0 /\ E <= Len(d) /\ Len(d) \in Nat /\ m < E /\ c < E
  <2>1. E \in Nat /\ E # 0 /\ E <= Len(d) /\ c < E
    BY EndWithin
  <2>2. m < E
    BY <1>3, <2>1, EndWithin
  <2> QED
    BY <2>1, <2>2, Reading
<1>5. /\ row \in Nat /\ len \in Nat /\ more \in Nat
      /\ n = c + len + 4 /\ m = n + more + 4
      /\ row + len = At(d, n) /\ len + more < 256
  BY <1>1, <1>2, PostRead DEF Follows
<1>6. /\ At(e, c) = row /\ At(e, c + 1) = len + more
      /\ \A a \in Nat : c + 2 <= a /\ a < c + 3 + len => At(e, a) = At(d, a)
      /\ \A a \in Nat : c + 3 + len <= a /\ a < E - 4 => At(e, a) = At(d, a + 4)
  BY DEF JoinedBytes
<1>7. row # Stop /\ c + 1 < Len(e)
  BY DEF PostAt
<1> HIDE DEF n, m, E, row, len, more
<1>8. m - 4 \in Nat /\ m - 4 = c + (len + more) + 4
  BY <1>5
<1>9. Alike(d, m, e, m - 4)
  <2>1. m - 4 + (E - m) <= Len(e)
    BY <1>4, <1>8, <1>3
  <2>2. ASSUME NEW j \in Nat, j < E - m PROVE At(e, m - 4 + j) = At(d, m + j)
    <3>1. /\ m - 4 + j \in Nat /\ c + 3 + len <= m - 4 + j /\ m - 4 + j < E - 4
          /\ m - 4 + j + 4 = m + j
      BY <1>3, <1>4, <1>5, <1>8, <2>2
    <3> QED
      BY <1>6, <3>1
  <2> QED
    BY <1>3, <1>4, <2>1, <2>2 DEF Alike
<1>10. Ascends(d, m)
  BY <1>1, <1>3 DEF Ascends
<1>11. /\ ColumnEnd(e, m - 4) = E - 4 /\ ColumnEnd(e, m - 4) # 0
       /\ \A p \in Posts(d, m) : p - m + (m - 4) \in Posts(e, m - 4)
                                 /\ SamePost(d, p, e, p - m + (m - 4))
       /\ \A q \in Posts(e, m - 4) : q - (m - 4) + m \in Posts(d, m)
                                     /\ SamePost(d, q - (m - 4) + m, e, q)
       /\ Ascends(e, m - 4)
  <2>1. /\ ColumnEnd(e, m - 4) = m - 4 + (ColumnEnd(d, m) - m) /\ ColumnEnd(e, m - 4) # 0
        /\ \A p \in Posts(d, m) : p - m + (m - 4) \in Posts(e, m - 4)
                                  /\ SamePost(d, p, e, p - m + (m - 4))
        /\ \A q \in Posts(e, m - 4) : q - (m - 4) + m \in Posts(d, m)
                                      /\ SamePost(d, q - (m - 4) + m, e, q)
    BY <1>3, <1>8, <1>9, PostsMoved
  <2>2. Ascends(e, m - 4)
    BY <1>3, <1>8, <1>9, <1>10, ColumnMoved
  <2>3. m - 4 + (E - m) = E - 4
    BY <1>3, <1>4
  <2> QED
    BY <1>3, <2>1, <2>2, <2>3
<1>12. PostAt(e, c) /\ After(e, c) = m - 4
  BY <1>6, <1>7, <1>8 DEF PostAt, After
<1>13. ColumnEnd(e, c) = E - 4 /\ Posts(e, c) = {c} \cup Posts(e, m - 4)
  BY <1>11, <1>12, EndStep, PostsStep
<1>14. /\ \A p \in Posts(d, m) : p \in Nat /\ m <= p
       /\ \A q \in Posts(e, m - 4) : q \in Nat /\ m - 4 <= q
  <2>1. ColumnEnd(d, m) # 0
    BY <1>3, <1>4
  <2> QED
    BY <1>3, <1>8, <1>11, <2>1, PostsWithin
<1>15. /\ \A p \in Posts(d, m) : p - 4 \in Posts(e, m - 4) /\ SamePost(d, p, e, p - 4)
       /\ \A q \in Posts(e, m - 4) : q + 4 \in Posts(d, m) /\ SamePost(d, q + 4, e, q)
  <2>1. /\ \A p \in Nat : p - m + (m - 4) = p - 4
        /\ \A q \in Nat : q - (m - 4) + m = q + 4
    BY <1>3
  <2> QED
    BY <1>11, <1>14, <2>1
<1>16. Ascends(e, c)
  <2> SUFFICES ASSUME NEW p \in Posts(e, c), NEW q \in Posts(e, c), p < q
               PROVE  At(e, p) + At(e, p + 1) <= At(e, q)
    BY DEF Ascends
  <2>1. q \in Posts(e, m - 4)
    <3>1. p = c \/ (p >= m - 4 /\ p \in Nat)
      BY <1>13, <1>14
    <3>2. q # c
      BY <1>8, <1>5, <3>1
    <3> QED
      BY <1>13, <3>2
  <2>2. CASE p \in Posts(e, m - 4)
    BY <1>11, <2>1, <2>2 DEF Ascends
  <2>3. CASE p = c
    <3>1. q + 4 \in Posts(d, m) /\ SamePost(d, q + 4, e, q) /\ q \in Nat /\ m <= q + 4
      BY <1>14, <1>15, <2>1
    <3>2. n \in Posts(d, c) /\ q + 4 \in Posts(d, c) /\ n < q + 4
      BY <1>1, <1>3, <1>5, <3>1
    <3>3. At(d, n) + more <= At(d, q + 4)
      BY <3>2 DEF Ascends, more
    <3> QED
      BY <1>5, <1>6, <2>3, <3>1, <3>3 DEF SamePost
  <2> QED
    BY <1>13, <2>2, <2>3
<1>17. Rows(d, c) = row .. row + len - 1 /\ Rows(d, n) = row + len .. row + len + more - 1
       /\ Rows(e, c) = row .. row + len + more - 1
  <2>1. Rows(d, c) = row .. row + len - 1
    BY DEF Rows, row, len
  <2>2. Rows(d, n) = row + len .. row + len + more - 1
    BY <1>5 DEF Rows, more
  <2>3. row + (len + more) - 1 = row + len + more - 1
    BY <1>5
  <2>4. Rows(e, c) = row .. row + len + more - 1
    BY <1>6, <2>3 DEF Rows
  <2> QED
    BY <2>1, <2>2, <2>4
<1>18. ASSUME NEW r \in Rows(d, c) PROVE r \in Rows(e, c) /\ Pixel(e, c, r) = Pixel(d, c, r)
  <2>1. r \in Nat /\ row <= r /\ r < row + len
    BY <1>5, <1>17, <1>18
  <2>2. /\ c + 3 + r - row \in Nat /\ c + 2 <= c + 3 + r - row
        /\ c + 3 + r - row < c + 3 + len
    BY <1>5, <2>1
  <2>3. Pixel(e, c, r) = At(e, c + 3 + r - row) /\ Pixel(d, c, r) = At(d, c + 3 + r - row)
    BY <1>6 DEF Pixel, row
  <2>4. r \in Rows(e, c)
    BY <1>5, <1>17, <2>1
  <2> QED
    BY <1>6, <2>2, <2>3, <2>4
<1>19. ASSUME NEW r \in Rows(d, n) PROVE r \in Rows(e, c) /\ Pixel(e, c, r) = Pixel(d, n, r)
  <2>1. r \in Nat /\ row + len <= r /\ r < row + len + more
    BY <1>5, <1>17, <1>19
  <2>2. /\ c + 3 + r - row \in Nat /\ c + 3 + len <= c + 3 + r - row
        /\ c + 3 + r - row < E - 4
        /\ c + 3 + r - row + 4 = n + 3 + r - (row + len)
    BY <1>3, <1>4, <1>5, <2>1
  <2>3. /\ Pixel(e, c, r) = At(e, c + 3 + r - row)
        /\ Pixel(d, n, r) = At(d, n + 3 + r - (row + len))
    BY <1>5, <1>6 DEF Pixel
  <2>4. r \in Rows(e, c)
    BY <1>5, <1>17, <2>1
  <2>5. At(e, c + 3 + r - row) = At(d, c + 3 + r - row + 4)
    BY <1>6, <2>2
  <2> QED
    BY <2>2, <2>3, <2>4, <2>5
<1>20. \A p \in Posts(d, c) : \A r \in Rows(d, p) :
         \E q \in Posts(e, c) : r \in Rows(e, q) /\ Pixel(e, q, r) = Pixel(d, p, r)
  <2> SUFFICES ASSUME NEW p \in Posts(d, c), NEW r \in Rows(d, p)
               PROVE  \E q \in Posts(e, c) :
                        r \in Rows(e, q) /\ Pixel(e, q, r) = Pixel(d, p, r)
    OBVIOUS
  <2>1. CASE p = c \/ p = n
    <3>1. r \in Rows(e, c) /\ Pixel(e, c, r) = Pixel(d, p, r)
      BY <1>18, <1>19, <2>1
    <3> QED
      BY <1>13, <3>1
  <2>2. CASE p \in Posts(d, m)
    <3>1. p - 4 \in Posts(e, m - 4) /\ SamePost(d, p, e, p - 4)
      BY <1>15, <2>2
    <3>2. r \in Rows(e, p - 4) /\ Pixel(e, p - 4, r) = Pixel(d, p, r)
      BY <3>1 DEF SamePost
    <3> QED
      BY <1>13, <3>1, <3>2
  <2> QED
    BY <1>1, <1>3, <2>1, <2>2
<1>21. \A q \in Posts(e, c) : \A r \in Rows(e, q) :
         \E p \in Posts(d, c) : r \in Rows(d, p)
  <2> SUFFICES ASSUME NEW q \in Posts(e, c), NEW r \in Rows(e, q)
               PROVE  \E p \in Posts(d, c) : r \in Rows(d, p)
    OBVIOUS
  <2>1. CASE q = c
    <3>1. r \in Rows(d, c) \/ r \in Rows(d, n)
      BY <1>5, <1>17, <2>1
    <3> QED
      BY <1>1, <1>3, <3>1
  <2>2. CASE q \in Posts(e, m - 4)
    <3>1. q + 4 \in Posts(d, m) /\ SamePost(d, q + 4, e, q)
      BY <1>15, <2>2
    <3>2. r \in Rows(d, q + 4)
      BY <3>1 DEF SamePost
    <3> QED
      BY <1>1, <1>3, <3>1, <3>2
  <2> QED
    BY <1>13, <2>1, <2>2
<1>22. ColumnEnd(e, c) # 0
  BY <1>11, <1>13
<1>23. Shown(e, c) = Shown(d, c)
  BY <1>16, <1>20, <1>21, <1>22, ShownSame
<1> QED
  BY <1>13, <1>16, <1>22, <1>23 DEF E
-----------------------------------------------------------------------------
(* Sequences of bytes, and lumps *)

LEMMA BytesMean ==
  ASSUME NEW d \in Seq(Byte), NEW a \in Nat, NEW n \in Nat, a + n <= Len(d)
  PROVE  /\ Bytes(d, a, n) \in Seq(Byte) /\ Len(Bytes(d, a, n)) = n
         /\ \A j \in 1 .. n : Bytes(d, a, n)[j] = d[a + j]
<1>1. Len(d) \in Nat /\ a + 1 \in 1 .. Len(d) + 1 /\ a + n \in 0 .. Len(d)
  BY Reading
<1>2. PICK s : s = SubSeq(d, a + 1, a + n)
  OBVIOUS
<1>3. s = [j \in 1 .. n |-> d[a + j]]
  <2>1. s = [j \in 1 .. (a + n) - (a + 1) + 1 |-> d[(a + 1) + j - 1]]
    BY <1>1, <1>2
  <2>2. (a + n) - (a + 1) + 1 = n
    OBVIOUS
  <2>3. \A j \in 1 .. n : (a + 1) + j - 1 = a + j
    OBVIOUS
  <2> QED
    BY <2>1, <2>2, <2>3
<1>4. \A j \in 1 .. n : a + j \in 1 .. Len(d)
  BY <1>1
<1>5. \A j \in 1 .. n : d[a + j] \in Byte
  BY <1>4
<1>6. s \in Seq(Byte) /\ Len(s) = n /\ \A j \in 1 .. n : s[j] = d[a + j]
  BY <1>3, <1>5
<1> QED
  BY <1>2, <1>6 DEF Bytes

\* Bytes behind others.
Glued(s, t) == s \o t

LEMMA JointBytes ==
  ASSUME NEW s \in Seq(Byte), NEW t \in Seq(Byte)
  PROVE  /\ Glued(s, t) \in Seq(Byte) /\ Len(Glued(s, t)) = Len(s) + Len(t)
         /\ \A j \in Nat : j < Len(s) => At(Glued(s, t), j) = At(s, j)
         /\ \A j \in Nat : j < Len(t) => At(Glued(s, t), Len(s) + j) = At(t, j)
<1>0. PICK u : u = Glued(s, t)
  OBVIOUS
<1>1. Len(s) \in Nat /\ Len(t) \in Nat
  OBVIOUS
<1>2. /\ u \in Seq(Byte) /\ Len(u) = Len(s) + Len(t)
      /\ \A k \in 1 .. Len(s) : u[k] = s[k]
      /\ \A k \in 1 .. Len(t) : u[Len(s) + k] = t[k]
  BY <1>0 DEF Glued
<1>3. ASSUME NEW j \in Nat, j < Len(s) PROVE At(u, j) = At(s, j)
  <2>1. j + 1 \in 1 .. Len(s)
    BY <1>1, <1>3
  <2> QED
    BY <1>2, <2>1 DEF At
<1>4. ASSUME NEW j \in Nat, j < Len(t) PROVE At(u, Len(s) + j) = At(t, j)
  <2>1. j + 1 \in 1 .. Len(t) /\ Len(s) + (j + 1) = Len(s) + j + 1
    BY <1>1, <1>4
  <2>2. u[Len(s) + (j + 1)] = t[j + 1]
    BY <1>2, <2>1
  <2> QED
    BY <2>1, <2>2 DEF At
<1> QED
  BY <1>0, <1>2, <1>3, <1>4

LEMMA GraphicRead ==
  ASSUME NEW l \in Graphic
  PROVE  /\ l.cols \in Seq(Nat) /\ l.data \in Seq(Byte)
         /\ Width(l) = Len(l.cols) /\ Width(l) \in Nat
         /\ \A c \in 1 .. Width(l) : l.cols[c] \in Nat
BY DEF Graphic, Width

LEMMA LumpRead ==
  ASSUME NEW l \in Lump
  PROVE  /\ l \in Graphic /\ l.cols \in Seq(Nat) /\ l.data \in Seq(Byte)
         /\ Width(l) = Len(l.cols) /\ Width(l) \in Nat
         /\ \A c \in 1 .. Width(l) : l.cols[c] \in Nat
BY GraphicRead DEF Lump

LEMMA MadeGraphic ==
  ASSUME NEW cols \in Seq(Nat), NEW d \in Seq(Byte), NEW s,
         s = [cols |-> cols, data |-> d]
  PROVE  s \in Graphic /\ s.cols = cols /\ s.data = d /\ Width(s) = Len(cols)
BY DEF Graphic, Width

LEMMA OneColumn ==
  ASSUME NEW s \in Seq(Nat), NEW c \in 1 .. Len(s), NEW v \in Nat,
         NEW t, t = [s EXCEPT ![c] = v]
  PROVE  /\ t \in Seq(Nat) /\ Len(t) = Len(s) /\ t[c] = v
         /\ \A b \in 1 .. Len(s) : b # c => t[b] = s[b]
OBVIOUS

LEMMA OtherColumn ==
  ASSUME NEW l \in Graphic, NEW c \in 1 .. Width(l), NEW v \in Nat,
         NEW s, s = [l EXCEPT !.cols[c] = v]
  PROVE  /\ s \in Graphic /\ s.data = l.data /\ Width(s) = Width(l) /\ s.cols[c] = v
         /\ \A b \in 1 .. Width(l) : b # c => s.cols[b] = l.cols[b]
<1>1. l.cols \in Seq(Nat) /\ l.data \in Seq(Byte) /\ Width(l) = Len(l.cols)
  BY GraphicRead
<1>2. PICK t : t = [l.cols EXCEPT ![c] = v]
  OBVIOUS
<1>3. /\ t \in Seq(Nat) /\ Len(t) = Width(l) /\ t[c] = v
      /\ \A b \in 1 .. Width(l) : b # c => t[b] = l.cols[b]
  BY <1>1, <1>2, OneColumn
<1>4. s.cols = t /\ s.data = l.data /\ s \in [cols : Seq(Nat), data : Seq(Byte)]
  BY <1>1, <1>2, <1>3 DEF Graphic
<1> QED
  BY <1>3, <1>4 DEF Graphic, Width

\* A lump that parses has its columns within it.
LEMMA ColumnsWithin ==
  ASSUME NEW l \in Graphic, Parses(l), NEW c \in 1 .. Width(l)
  PROVE  /\ ColumnEnd(l.data, l.cols[c]) # 0
         /\ ColumnLength(l.data, l.cols[c]) \in Nat \ {0}
         /\ ColumnEnd(l.data, l.cols[c])
              = l.cols[c] + ColumnLength(l.data, l.cols[c])
         /\ l.cols[c] + ColumnLength(l.data, l.cols[c]) <= Len(l.data)
<1>1. l.cols[c] \in Nat /\ l.data \in Seq(Byte) /\ Len(l.data) \in Nat
  BY GraphicRead, Reading
<1>2. ColumnLength(l.data, l.cols[c]) > 0
  BY DEF Parses
<1>3. ColumnEnd(l.data, l.cols[c]) # 0
  BY <1>2 DEF ColumnLength
<1>4. /\ ColumnEnd(l.data, l.cols[c]) \in Nat
      /\ l.cols[c] < ColumnEnd(l.data, l.cols[c])
      /\ ColumnEnd(l.data, l.cols[c]) <= Len(l.data)
      /\ ColumnLength(l.data, l.cols[c]) = ColumnEnd(l.data, l.cols[c]) - l.cols[c]
  BY <1>1, <1>3, EndWithin DEF ColumnLength
<1> QED
  BY <1>1, <1>3, <1>4
-----------------------------------------------------------------------------
(* The table of a lump *)

LEMMA ShortRead ==
  ASSUME NEW d \in Seq(Byte), NEW a \in Nat, a + 1 < Len(d)
  PROVE  Short(d, a) \in Nat
<1>1. a + 1 \in Nat /\ a < Len(d)
  BY Reading
<1>2. At(d, a) \in Nat /\ At(d, a + 1) \in Nat
  BY <1>1, Reading
<1> QED
  BY <1>2 DEF Short

LEMMA LongRead ==
  ASSUME NEW d \in Seq(Byte), NEW a \in Nat, a + 3 < Len(d)
  PROVE  Long(d, a) \in Nat
<1>1. /\ a + 2 \in Nat /\ a + 1 < Len(d) /\ (a + 2) + 1 < Len(d)
  BY Reading
<1>2. Short(d, a) \in Nat /\ Short(d, a + 2) \in Nat
  BY <1>1, ShortRead
<1> QED
  BY <1>2 DEF Long

LEMMA TableRead ==
  ASSUME NEW d \in Seq(Byte)
  PROVE  /\ Table(d) \in Seq(Nat)
         /\ Decoded(d) \in Lump /\ Decoded(d).data = d /\ Decoded(d).cols = Table(d)
<1>1. Table(d) \in Seq(Nat)
  <2>1. CASE Len(d) >= 8 /\ Len(d) >= TableEnd(Short(d, 0))
    <3>1. PICK w : w = Short(d, 0)
      OBVIOUS
    <3>2. w \in Nat /\ Len(d) \in Nat /\ Len(d) >= 8 + 4 * w
      BY <2>1, <3>1, ShortRead, Reading DEF TableEnd
    <3>3. ASSUME NEW c \in 1 .. w PROVE Long(d, 4 + 4 * c) \in Nat
      <4>1. 4 + 4 * c \in Nat /\ (4 + 4 * c) + 3 < Len(d)
        BY <3>2
      <4> QED
        BY <4>1, LongRead
    <3>4. Table(d) = [c \in 1 .. w |-> Long(d, 4 + 4 * c)]
      BY <2>1, <3>1 DEF Table
    <3> QED
      BY <3>2, <3>3, <3>4
  <2>2. CASE ~(Len(d) >= 8 /\ Len(d) >= TableEnd(Short(d, 0)))
    <3>1. Table(d) = <<>>
      BY <2>2 DEF Table
    <3> QED
      BY <3>1
  <2> QED
    BY <2>1, <2>2
<1>2. Decoded(d).data = d /\ Decoded(d).cols = Table(d) /\ Decoded(d) \in Graphic
  BY <1>1 DEF Decoded, Graphic
<1> QED
  BY <1>1, <1>2 DEF Lump

\* A graphic has a header and room for its table, which is what its bytes spell.
LEMMA GraphicTable ==
  ASSUME NEW l \in Lump, IsGraphic(l)
  PROVE  /\ Len(l.data) \in Nat /\ Len(l.data) >= 8 /\ Width(l) \in Nat
         /\ Width(l) = Short(l.data, 0) /\ TableEnd(Width(l)) <= Len(l.data)
         /\ TableEnd(Width(l)) \in Nat /\ TableEnd(Width(l)) = 8 + 4 * Width(l)
         /\ l.cols = Table(l.data)
         /\ l.cols = [c \in 1 .. Width(l) |-> Long(l.data, 4 + 4 * c)]
<1>1. l = Decoded(l.data) /\ l.data \in Seq(Byte) /\ Len(l.data) \in Nat
  BY LumpRead, Reading DEF Lump
<1>2. l.cols = Table(l.data)
  <2>1. PICK d : d = l.data
    OBVIOUS
  <2>2. l = Decoded(d)
    BY <1>1, <2>1
  <2>3. l.cols = Table(d)
    BY <2>2 DEF Decoded
  <2> QED
    BY <2>1, <2>3
<1>3. /\ Len(l.data) >= 8 /\ Short(l.data, 0) \in Nat
      /\ TableEnd(Short(l.data, 0)) <= Len(l.data)
  BY <1>1, ShortRead DEF IsGraphic, Length
<1>4. PICK w \in Nat : w = Short(l.data, 0)
  BY <1>3
<1>5. l.cols = [c \in 1 .. w |-> Long(l.data, 4 + 4 * c)]
  BY <1>1, <1>2, <1>3, <1>4 DEF Table, TableEnd
<1>6. Width(l) = w
  BY <1>4, <1>5 DEF Width
<1>7. TableEnd(w) \in Nat /\ TableEnd(w) = 8 + 4 * w
  BY <1>4 DEF TableEnd
<1> QED
  BY <1>1, <1>2, <1>3, <1>4, <1>5, <1>6, <1>7

\* Bytes that are the same up to the end of a table spell the same table.
LEMMA SameFront ==
  ASSUME NEW l \in Lump, IsGraphic(l), NEW d \in Seq(Byte), Len(d) = Len(l.data),
         \A a \in Nat : a < TableEnd(Width(l)) => At(d, a) = At(l.data, a)
  PROVE  Table(d) = l.cols
<1>1. PICK w, e : w = Width(l) /\ e = l.data
  OBVIOUS
<1>2. /\ w \in Nat /\ e \in Seq(Byte) /\ Len(e) \in Nat /\ Len(e) >= 8
      /\ w = Short(e, 0) /\ 8 + 4 * w <= Len(e) /\ Len(d) = Len(e)
      /\ l.cols = [c \in 1 .. w |-> Long(e, 4 + 4 * c)]
      /\ \A a \in Nat : a < 8 + 4 * w => At(d, a) = At(e, a)
  BY <1>1, GraphicTable, LumpRead
<1>3. Short(d, 0) = w
  <2>1. 0 < 8 + 4 * w /\ 0 + 1 < 8 + 4 * w /\ 0 + 1 \in Nat
    BY <1>2
  <2>2. At(d, 0) = At(e, 0) /\ At(d, 0 + 1) = At(e, 0 + 1)
    BY <1>2, <2>1
  <2> QED
    BY <1>2, <2>2 DEF Short
<1>4. ASSUME NEW c \in 1 .. w PROVE Long(d, 4 + 4 * c) = Long(e, 4 + 4 * c)
  <2>1. PICK a \in Nat : a = 4 + 4 * c
    OBVIOUS
  <2>2. /\ a < 8 + 4 * w /\ a + 1 < 8 + 4 * w /\ a + 2 < 8 + 4 * w
        /\ (a + 2) + 1 < 8 + 4 * w
        /\ a + 1 \in Nat /\ a + 2 \in Nat /\ (a + 2) + 1 \in Nat
    BY <1>2, <2>1
  <2>3. /\ At(d, a) = At(e, a) /\ At(d, a + 1) = At(e, a + 1)
        /\ At(d, a + 2) = At(e, a + 2) /\ At(d, (a + 2) + 1) = At(e, (a + 2) + 1)
    BY <1>2, <2>2
  <2> QED
    BY <2>1, <2>3 DEF Long, Short
<1>5. Table(d) = [c \in 1 .. w |-> Long(d, 4 + 4 * c)]
  BY <1>2, <1>3 DEF Table, TableEnd
<1> QED
  BY <1>2, <1>4, <1>5

\* Four bytes spell the number that is written in them.
LEMMA LongWritten ==
  ASSUME NEW n \in Nat, NEW b, b = LongBytes(n)
  PROVE  /\ b[1] \in Byte /\ b[2] \in Byte /\ b[3] \in Byte /\ b[4] \in Byte
         /\ n \div 65536 < 65536
              => (b[1] + 256 * b[2]) + 65536 * (b[3] + 256 * b[4]) = n
<1>1. /\ b[1] = n % 256 /\ b[2] = (n \div 256) % 256
      /\ b[3] = (n \div 65536) % 256 /\ b[4] = (n \div 16777216) % 256
  BY DEF LongBytes
<1>2. \A m \in Nat : m % 256 \in Byte
  BY DEF Byte
<1>3. n \div 256 \in Nat /\ n \div 65536 \in Nat /\ n \div 16777216 \in Nat
  OBVIOUS
<1>4. ASSUME n \div 65536 < 65536
      PROVE  (b[1] + 256 * b[2]) + 65536 * (b[3] + 256 * b[4]) = n
  BY <1>1, <1>4
<1> QED
  BY <1>1, <1>2, <1>3, <1>4

-----------------------------------------------------------------------------
(* What every run keeps, whatever the lump *)

\* A graphic that the program rewrites.
Read(l) == IsGraphic(l) /\ Parses(l)

\* The columns stay within the lump while it is rewritten.
Begun ==
  /\ Read(lump)
  /\ Len(data) = Len(lump.data) /\ Len(colsize) = Width(lump)
  /\ \A c \in 1 .. Width(lump) : lump.cols[c] + colsize[c] <= Len(data)

FrameInv ==
  /\ TypeOK /\ SortInv
  /\ Len(trail) = Len(past) + 1 /\ trail[Len(past) + 1] = lump
  /\ pc # "idle" => Begun
  /\ pc \in {"combine", "place"} => x <= Width(lump) + 1
  /\ pc \in {"sort", "place"} => key = LargestFirst
  /\ pc = "place" => Sorted /\ Width(newres) = Width(lump)

LEMMA SameSort == SortInv /\ UNCHANGED sortvars => SortInv'
BY SortStepKeeps

LEMMA FrameFirst == Init => FrameInv
<1> SUFFICES ASSUME Init PROVE FrameInv
  OBVIOUS
<1> USE DEF Init
<1>1. lump \in Lump
  BY LumpsAssumption
<1>2. SortInv
  <2>1. Len(key) = 0 /\ Element = {} /\ key \in Seq(Int)
    BY DEF Element
  <2>2. SortTypeOK
    BY <2>1 DEF SortTypeOK, Element, Call
  <2> QED
    BY <2>1, <2>2 DEF SortInv, CallsApart, Partitioned, Distinct, Apart
<1>3. TypeOK
  <2>1. SortTypeOK
    BY <1>2 DEF SortInv
  <2>2. newres \in Graphic
    BY DEF Graphic
  <2> QED
    BY <1>1, <2>1, <2>2 DEF TypeOK, Op
<1> QED
  BY <1>2, <1>3 DEF FrameInv

\* The history when a run ends.
LEMMA EndRunKeeps ==
  ASSUME FrameInv, NEW c \in Op, NEW l \in Lump, EndRun(c, l)
  PROVE  /\ lump' = l /\ pc' = "idle"
         /\ past' \in Seq(Op) /\ trail' \in Seq(Lump) /\ Len(past') = Len(past) + 1
         /\ Len(trail') = Len(past') + 1 /\ trail'[Len(past') + 1] = l
         /\ past'[Len(past')] = c /\ trail'[Len(past')] = lump
         /\ trail'[1] = trail[1]
<1>1. past \in Seq(Op) /\ trail \in Seq(Lump) /\ Len(trail) = Len(past) + 1
      /\ trail[Len(past) + 1] = lump /\ Len(past) \in Nat
  BY DEF FrameInv, TypeOK
<1>2. past' = Append(past, c) /\ trail' = Append(trail, l) /\ lump' = l /\ pc' = "idle"
  BY DEF EndRun, Goto
<1>3. /\ past' \in Seq(Op) /\ Len(past') = Len(past) + 1 /\ past'[Len(past) + 1] = c
  BY <1>1, <1>2
<1>4. /\ trail' \in Seq(Lump) /\ Len(trail') = Len(past) + 2 /\ trail'[Len(past) + 2] = l
      /\ \A k \in 1 .. Len(past) + 1 : trail'[k] = trail[k]
  BY <1>1, <1>2
<1>5. 1 \in 1 .. Len(past) + 1 /\ Len(past) + 1 \in 1 .. Len(past) + 1
  BY <1>1
<1>6. trail'[1] = trail[1] /\ trail'[Len(past) + 1] = lump
  BY <1>1, <1>4, <1>5
<1>7. Len(past') + 1 = Len(past) + 2
  BY <1>1, <1>3
<1> QED
  BY <1>1, <1>2, <1>3, <1>4, <1>6, <1>7

LEMMA StartFrame == ASSUME FrameInv, NEW c \in Op, Start(c) PROVE FrameInv'
<1>1. /\ pc = "idle" /\ cmd' = c /\ UNCHANGED newres /\ UNCHANGED sortvars
  BY DEF Start
<1>2. TypeOK /\ SortInv /\ lump \in Lump
  BY DEF FrameInv, TypeOK
<1>3. SortInv'
  BY <1>1, <1>2, SameSort
<1>4. SortTypeOK'
  BY <1>3 DEF SortInv
<1>5. CASE EndRun(c, lump) /\ UNCHANGED <<data, colsize, x, i>>
  <2>1. /\ lump' = lump /\ pc' = "idle"
        /\ past' \in Seq(Op) /\ trail' \in Seq(Lump)
        /\ Len(trail') = Len(past') + 1 /\ trail'[Len(past') + 1] = lump'
    BY <1>2, <1>5, EndRunKeeps
  <2>2. TypeOK'
    BY <1>1, <1>2, <1>4, <1>5, <2>1 DEF TypeOK
  <2> QED
    BY <1>3, <2>1, <2>2 DEF FrameInv
<1>6. CASE /\ Read(lump)
           /\ data' = lump.data
           /\ colsize' = [c2 \in 1 .. Width(lump) |->
                            ColumnLength(lump.data, lump.cols[c2])]
           /\ x' = 1 /\ i' = 0
           /\ Goto("combine")
           /\ UNCHANGED <<lump, history>>
  <2>1. /\ lump' = lump /\ UNCHANGED <<past, trail>> /\ pc' = "combine"
        /\ data' = lump.data /\ x' = 1 /\ i' = 0
    BY <1>6 DEF history, Goto
  <2>2. data' \in Seq(Byte) /\ Width(lump) \in Nat
    BY <1>2, <2>1, LumpRead
  <2>3. \A b \in 1 .. Width(lump) :
          /\ ColumnLength(lump.data, lump.cols[b]) \in Nat \ {0}
          /\ lump.cols[b] + ColumnLength(lump.data, lump.cols[b]) <= Len(lump.data)
    BY <1>2, <1>6, LumpRead, ColumnsWithin DEF Read
  <2>4. /\ colsize' \in Seq(Nat \ {0}) /\ Len(colsize') = Width(lump)
        /\ \A b \in 1 .. Width(lump) :
             colsize'[b] = ColumnLength(lump.data, lump.cols[b])
    BY <1>6, <2>2, <2>3
  <2>5. TypeOK'
    BY <1>1, <1>2, <1>4, <2>1, <2>2, <2>4 DEF TypeOK
  <2>6. Read(lump)'
    BY <1>6, <2>1 DEF Read, IsGraphic, Parses, Width, Length
  <2>7. Begun'
    BY <2>1, <2>3, <2>4, <2>6 DEF Begun, Width
  <2>8. (Len(trail) = Len(past) + 1 /\ trail[Len(past) + 1] = lump)'
    BY <2>1 DEF FrameInv
  <2>9. x' <= Width(lump)' + 1
    BY <2>1, <2>2 DEF Width
  <2> QED
    BY <1>3, <2>1, <2>5, <2>7, <2>8, <2>9 DEF FrameInv
<1> QED
  BY <1>5, <1>6 DEF Start, Read

\* Where the bytes of the column at x are before a join.
LEMMA JoinAt ==
  ASSUME FrameInv, pc = "combine", x <= Width(lump), Defined,
         At(data, Post) # Stop, At(data, NextPost) # Stop, Adjacent
  PROVE  /\ x \in 1 .. Width(lump) /\ Column \in Nat /\ Len(data) \in Nat
         /\ At(data, Column) \in Nat /\ At(data, Column + 1) \in Nat
         /\ At(data, Post + 1) \in Nat
         /\ NextIndex \in Nat /\ NextIndex >= 4 /\ NextPost = Column + NextIndex
         /\ At(data, NextPost + 1) \in Nat
         /\ Rest \in Nat /\ Rest = colsize[x] - NextIndex - 3
         /\ NextPost + 3 + Rest <= Len(data)
         /\ Column + 1 < Len(data) /\ NextPost + 1 < Len(data)
         /\ colsize[x] \in Nat
<1>1. /\ lump \in Lump /\ data \in Seq(Byte) /\ x \in Nat \ {0} /\ i \in Nat
      /\ colsize \in Seq(Nat \ {0}) /\ Len(colsize) = Width(lump)
  BY DEF FrameInv, TypeOK, Begun
<1>2. /\ Width(lump) \in Nat /\ Len(data) \in Nat
      /\ \A a \in Nat : a < Len(data) => At(data, a) \in Nat
  BY <1>1, LumpRead, Reading
<1>3. x \in 1 .. Width(lump)
  BY <1>1, <1>2
<1>4. Column \in Nat /\ colsize[x] \in Nat
  BY <1>1, <1>2, <1>3, LumpRead DEF Column
<1>5. /\ Post + 1 < Len(data) /\ NextPost + 1 < Len(data)
      /\ Rest >= 0 /\ NextPost + 3 + Rest <= Len(data)
  BY DEF Defined, InLump
<1>6. Post \in Nat /\ Post >= Column
  BY <1>1, <1>4 DEF Post
<1>7. At(data, Post + 1) \in Nat /\ Column + 1 < Len(data)
  <2>1. Post + 1 \in Nat
    BY <1>6
  <2> QED
    BY <1>2, <1>4, <1>5, <1>6, <2>1
<1>8. NextIndex \in Nat /\ NextIndex >= 4 /\ NextPost = Column + NextIndex
  BY <1>1, <1>7 DEF NextIndex, NextPost
<1>9. NextPost + 1 \in Nat /\ Column + 1 \in Nat /\ Column < Len(data)
  BY <1>2, <1>4, <1>7, <1>8
<1>10. At(data, NextPost + 1) \in Nat /\ At(data, Column) \in Nat
       /\ At(data, Column + 1) \in Nat
  BY <1>2, <1>4, <1>5, <1>7, <1>9
<1>11. Rest \in Nat /\ Rest = colsize[x] - NextIndex - 3
  BY <1>4, <1>5, <1>8 DEF Rest
<1> QED
  BY <1>2, <1>3, <1>4, <1>5, <1>7, <1>8, <1>10, <1>11

\* The joined bytes, at addresses.
LEMMA JoinedMeans ==
  ASSUME FrameInv, pc = "combine", x <= Width(lump), Defined,
         At(data, Post) # Stop, At(data, NextPost) # Stop, Adjacent,
         NEW e, e = Joined
  PROVE  /\ e \in Seq(Byte) /\ Len(e) = Len(data)
         /\ At(e, Column + 1) = (At(data, Column + 1) + At(data, NextPost + 1)) % 256
         /\ LET to == Column + 3 + At(data, Column + 1)
            IN \A a \in Nat : a < Len(data) =>
                 /\ to <= a /\ a < to + Rest => At(e, a) = At(data, a - to + NextPost + 3)
                 /\ ~(to <= a /\ a < to + Rest) /\ a # Column + 1 => At(e, a) = At(data, a)
<1> DEFINE to == Column + 3 + At(data, Column + 1)
           more == At(data, NextPost + 1)
           from == NextPost + 3
<1>1. /\ Column \in Nat /\ Len(data) \in Nat /\ to \in Nat /\ more \in Nat
      /\ from \in Nat /\ Rest \in Nat /\ from + Rest <= Len(data)
      /\ to >= Column + 3 /\ Column + 1 < Len(data)
  <2>1. /\ Column \in Nat /\ Len(data) \in Nat /\ At(data, Column + 1) \in Nat
        /\ more \in Nat /\ NextIndex \in Nat /\ NextPost = Column + NextIndex
        /\ Rest \in Nat /\ NextPost + 3 + Rest <= Len(data) /\ Column + 1 < Len(data)
    BY JoinAt
  <2>2. NextPost \in Nat
    BY <2>1
  <2> QED
    BY <2>1, <2>2
<1>2. e = [k \in DOMAIN data |->
             IF k - 1 \in to .. to + Rest - 1 THEN data[k - to + from]
             ELSE IF k = Column + 2 THEN (data[k] + more) % 256
             ELSE data[k]]
  <2>2. \A k \in Int : k - to + from = k - to + NextPost + 3
    BY JoinAt, SMTT(60)
  <2>3. \A k \in DOMAIN data : k \in Int
    BY DEF FrameInv, TypeOK
  <2> QED
    BY <2>2, <2>3 DEF Joined
<1>3. data \in Seq(Byte) /\ DOMAIN data = 1 .. Len(data)
  BY DEF FrameInv, TypeOK
<1> HIDE DEF to, more, from
<1>4. \A k \in 1 .. Len(data) : data[k] \in Byte
  BY <1>3
<1>5. \A k \in 1 .. Len(data) :
        k - 1 \in to .. to + Rest - 1 => k - to + from \in 1 .. Len(data)
  BY <1>1
<1>6. \A b \in Byte : b \in Nat /\ (b + more) % 256 \in Byte
  <2>1. \A b \in Nat : (b + more) % 256 \in 0 .. 255
    BY <1>1
  <2> QED
    BY <2>1 DEF Byte
<1>7. \A k \in 1 .. Len(data) : e[k] \in Byte
  BY <1>2, <1>3, <1>4, <1>5, <1>6
<1>8. e \in Seq(Byte) /\ Len(e) = Len(data)
  <2>1. e = [k \in 1 .. Len(data) |-> e[k]]
    BY <1>2, <1>3
  <2> QED
    BY <1>1, <1>7, <2>1
<1>9. ASSUME NEW a \in Nat, a < Len(data)
      PROVE  /\ to <= a /\ a < to + Rest => At(e, a) = At(data, a - to + from)
             /\ ~(to <= a /\ a < to + Rest) /\ a # Column + 1 => At(e, a) = At(data, a)
             /\ a = Column + 1 => At(e, a) = (At(data, a) + more) % 256
  <2>1. PICK k : k = a + 1
    OBVIOUS
  <2>2. k \in 1 .. Len(data) /\ k - 1 = a /\ k - to + from = a - to + from + 1
    BY <1>1, <1>9, <2>1
  <2>3. a = Column + 1 <=> k = Column + 2
    BY <1>1, <2>1
  <2>4. a \in to .. to + Rest - 1 <=> to <= a /\ a < to + Rest
    BY <1>1
  <2>5. e[k] = IF k - 1 \in to .. to + Rest - 1 THEN data[k - to + from]
               ELSE IF k = Column + 2 THEN (data[k] + more) % 256
               ELSE data[k]
    BY <1>2, <1>3, <2>2
  <2>6. a = Column + 1 => ~(to <= a /\ a < to + Rest)
    BY <1>1
  <2> QED
    BY <2>1, <2>2, <2>3, <2>4, <2>5, <2>6 DEF At
<1>10. Column + 1 \in Nat
  BY <1>1
<1>11. At(e, Column + 1) = (At(data, Column + 1) + more) % 256
  BY <1>1, <1>9, <1>10
<1>12. ASSUME NEW a \in Nat, a < Len(data)
       PROVE  /\ to <= a /\ a < to + Rest => At(e, a) = At(data, a - to + NextPost + 3)
              /\ ~(to <= a /\ a < to + Rest) /\ a # Column + 1 => At(e, a) = At(data, a)
  <2>1. a - to + from = a - to + NextPost + 3
    <3>1. NextPost \in Nat
      BY JoinAt, SMTT(60)
    <3> QED
      BY <1>1, <3>1 DEF from
  <2> QED
    BY <1>9, <1>12, <2>1
<1> QED
  BY <1>8, <1>11, <1>12 DEF to, more
LEMMA CombineFrame == ASSUME FrameInv, CombinePosts PROVE FrameInv'
<1>1. /\ pc = "combine" /\ x <= Width(lump) /\ Defined
      /\ lump' = lump /\ pc' = pc /\ cmd' = cmd /\ newres' = newres
      /\ past' = past /\ trail' = trail /\ UNCHANGED sortvars
  BY DEF CombinePosts, history
<1>2. /\ TypeOK /\ SortInv /\ lump \in Lump /\ data \in Seq(Byte)
      /\ colsize \in Seq(Nat \ {0}) /\ Len(colsize) = Width(lump)
      /\ Len(data) = Len(lump.data) /\ x \in Nat \ {0} /\ i \in Nat
      /\ \A c \in 1 .. Width(lump) : lump.cols[c] + colsize[c] <= Len(data)
  BY <1>1 DEF FrameInv, TypeOK, Begun
<1>3. SortInv' /\ SortTypeOK'
  <2>1. SortInv'
    BY <1>1, <1>2, SameSort
  <2> QED
    BY <2>1 DEF SortInv
<1>4. /\ Width(lump) \in Nat /\ Len(data) \in Nat
      /\ \A a \in Nat : a < Len(data) => At(data, a) \in Nat
      /\ \A c \in 1 .. Width(lump) : lump.cols[c] \in Nat
  BY <1>2, LumpRead, Reading
<1>5. x \in 1 .. Width(lump)
  BY <1>1, <1>2, <1>4
<1>6. SUFFICES /\ data' \in Seq(Byte) /\ Len(data') = Len(data)
               /\ colsize' \in Seq(Nat \ {0}) /\ Len(colsize') = Len(colsize)
               /\ \A c \in 1 .. Width(lump) : colsize'[c] <= colsize[c]
               /\ x' \in Nat \ {0} /\ x' <= Width(lump) + 1 /\ i' \in Nat
  <2>1. ASSUME /\ data' \in Seq(Byte) /\ Len(data') = Len(data)
               /\ colsize' \in Seq(Nat \ {0}) /\ Len(colsize') = Len(colsize)
               /\ \A c \in 1 .. Width(lump) : colsize'[c] <= colsize[c]
               /\ x' \in Nat \ {0} /\ x' <= Width(lump) + 1 /\ i' \in Nat
        PROVE  FrameInv'
    <3>1. TypeOK'
      BY <1>1, <1>2, <1>3, <2>1 DEF TypeOK
    <3>2. Read(lump)'
      BY <1>1 DEF FrameInv, Begun, Read, IsGraphic, Parses, Width, Length
    <3>3. \A c \in 1 .. Width(lump) : lump.cols[c] + colsize'[c] <= Len(data')
      <4> SUFFICES ASSUME NEW c \in 1 .. Width(lump)
                   PROVE  lump.cols[c] + colsize'[c] <= Len(data')
        OBVIOUS
      <4>1. /\ lump.cols[c] \in Nat /\ colsize'[c] \in Nat /\ colsize[c] \in Nat
            /\ colsize'[c] <= colsize[c] /\ lump.cols[c] + colsize[c] <= Len(data)
        BY <1>2, <1>4, <2>1
      <4> QED
        BY <1>4, <2>1, <4>1, SMTT(60)
    <3>4. Begun'
      BY <1>1, <1>2, <2>1, <3>2, <3>3 DEF Begun, Width
    <3>5. (Len(trail) = Len(past) + 1 /\ trail[Len(past) + 1] = lump)'
      BY <1>1 DEF FrameInv
    <3> QED
      BY <1>1, <1>3, <2>1, <3>1, <3>4, <3>5 DEF FrameInv, Width
  <2> QED
    BY <2>1
<1>7. CASE At(data, Post) = Stop /\ x' = x + 1 /\ i' = 0 /\ UNCHANGED <<data, colsize>>
  <2>1. \A c \in 1 .. Width(lump) : colsize[c] \in Nat
    BY <1>2
  <2> QED
    BY <1>1, <1>2, <1>4, <1>7, <2>1
<1>8. CASE /\ At(data, Post) # Stop
           /\ At(data, NextPost) # Stop /\ Adjacent
           /\ data' = Joined
           /\ colsize' = [colsize EXCEPT ![x] = @ - 4]
           /\ i' = IndexAfterJoin
           /\ UNCHANGED x
  <2>1. data' \in Seq(Byte) /\ Len(data') = Len(data)
    <3>1. PICK e : e = Joined
      OBVIOUS
    <3>2. e \in Seq(Byte) /\ Len(e) = Len(data)
      BY <1>1, <1>8, <3>1, JoinedMeans
    <3> QED
      BY <1>8, <3>1, <3>2
  <2>2. colsize[x] - 4 \in Nat \ {0} /\ colsize[x] \in Nat
    <3>1. Rest \in Nat /\ Rest = colsize[x] - NextIndex - 3 /\ NextIndex >= 4
          /\ NextIndex \in Nat /\ colsize[x] \in Nat
      BY <1>1, <1>8, JoinAt
    <3> QED
      BY <3>1
  <2>3. /\ colsize' \in Seq(Nat \ {0}) /\ Len(colsize') = Len(colsize)
        /\ \A c \in 1 .. Width(lump) : colsize'[c] <= colsize[c]
    <3>1. \A c \in 1 .. Width(lump) : colsize[c] \in Nat
      BY <1>2
    <3> QED
      BY <1>2, <1>5, <1>8, <2>2, <3>1
  <2> QED
    BY <1>1, <1>2, <1>4, <1>8, <2>1, <2>3 DEF IndexAfterJoin
<1>9. CASE /\ At(data, Post) # Stop
           /\ i' = NextIndex
           /\ UNCHANGED <<x, data, colsize>>
  <2>1. Post + 1 < Len(data) /\ Post \in Nat
    BY <1>1, <1>2, <1>4, <1>5, <1>9, SMTT(60) DEF Defined, InLump, Post, Column
  <2>2. At(data, Post + 1) \in Nat
    BY <1>4, <2>1
  <2>3. i' \in Nat
    BY <1>2, <1>9, <2>2 DEF NextIndex
  <2>4. \A c \in 1 .. Width(lump) : colsize[c] \in Nat
    BY <1>2
  <2> QED
    BY <1>1, <1>2, <1>4, <1>9, <2>3, <2>4
<1> QED
  BY <1>7, <1>8, <1>9 DEF CombinePosts

\* The keys that the columns are sorted by.
LEMMA Keys ==
  ASSUME TypeOK, Begun
  PROVE  LargestFirst \in Seq(Int) /\ Len(LargestFirst) = Width(lump)
         /\ \A c \in 1 .. Width(lump) : LargestFirst[c] = -colsize[c]
<1>1. Width(lump) \in Nat /\ colsize \in Seq(Nat \ {0}) /\ Len(colsize) = Width(lump)
  BY LumpRead DEF TypeOK, Begun
<1>2. \A c \in 1 .. Width(lump) : -colsize[c] \in Int
  BY <1>1
<1> QED
  BY <1>1, <1>2 DEF LargestFirst

LEMMA SortColumnsFrame == ASSUME FrameInv, SortColumns PROVE FrameInv'
<1>1. /\ pc = "combine" /\ pc' = "sort" /\ MakeSortedMap(LargestFirst)
      /\ UNCHANGED <<lump, cmd, data, colsize, x, i, newres>>
      /\ past' = past /\ trail' = trail
  BY DEF SortColumns, history, Goto
<1>2. TypeOK /\ SortInv /\ Begun
  BY <1>1 DEF FrameInv
<1>3. SortInv' /\ SortTypeOK'
  <2>1. LargestFirst \in Seq(Int)
    BY <1>2, Keys
  <2>2. SortInv'
    BY <1>1, <1>2, <2>1, SortStarts
  <2> QED
    BY <2>2 DEF SortInv
<1>4. TypeOK'
  BY <1>1, <1>2, <1>3 DEF TypeOK
<1>5. Begun'
  BY <1>1, <1>2 DEF Begun, Read, IsGraphic, Parses, Width, Length
<1>6. key' = LargestFirst'
  BY <1>1 DEF MakeSortedMap, LargestFirst, Width
<1> QED
  BY <1>1, <1>3, <1>4, <1>5, <1>6 DEF FrameInv

LEMMA SortStepFrame == ASSUME FrameInv, SortMapElements PROVE FrameInv'
<1>1. /\ pc = "sort" /\ pc' = pc /\ SortStep
      /\ UNCHANGED <<lump, cmd, data, colsize, x, i, newres>>
      /\ past' = past /\ trail' = trail
  BY DEF SortMapElements, history
<1>2. TypeOK /\ SortInv /\ Begun
  BY <1>1 DEF FrameInv
<1>3. SortInv' /\ SortTypeOK'
  <2>1. SortInv'
    BY <1>1, <1>2, SortStepKeeps
  <2> QED
    BY <2>1 DEF SortInv
<1>4. TypeOK'
  BY <1>1, <1>2, <1>3 DEF TypeOK
<1>5. Begun'
  BY <1>1, <1>2 DEF Begun, Read, IsGraphic, Parses, Width, Length
<1>6. key' = LargestFirst'
  <2>1. key' = key
    BY <1>1 DEF SortStep, Return, ChoosePivot, Partition, PlacePivot
  <2> QED
    BY <1>1, <2>1 DEF FrameInv, LargestFirst, Width
<1> QED
  BY <1>1, <1>3, <1>4, <1>5, <1>6 DEF FrameInv

LEMMA BeginFrame == ASSUME FrameInv, BeginColumns PROVE FrameInv'
<1>1. /\ pc = "sort" /\ pc' = "place" /\ Sorted /\ x' = 1
      /\ newres' = [cols |-> [c \in 1 .. Width(lump) |-> 0], data |-> <<>>]
      /\ UNCHANGED <<lump, cmd, data, colsize, i>>
      /\ past' = past /\ trail' = trail /\ UNCHANGED sortvars
  BY DEF BeginColumns, history, Goto
<1>2. TypeOK /\ SortInv /\ Begun /\ key = LargestFirst /\ Width(lump) \in Nat
  BY <1>1, LumpRead DEF FrameInv, TypeOK
<1>3. SortInv' /\ SortTypeOK'
  <2>1. SortInv'
    BY <1>1, <1>2, SameSort
  <2> QED
    BY <2>1 DEF SortInv
<1>4. newres' \in Graphic /\ Width(newres') = Width(lump) /\ newres'.data = <<>>
  <2>1. PICK cols : cols = [c \in 1 .. Width(lump) |-> 0]
    OBVIOUS
  <2>2. cols \in Seq(Nat) /\ Len(cols) = Width(lump)
    BY <1>2, <2>1
  <2>3. PICK d : d = <<>>
    OBVIOUS
  <2>4. d \in Seq(Byte)
    BY <2>3
  <2>5. newres' = [cols |-> cols, data |-> d]
    BY <1>1, <2>1, <2>3
  <2> QED
    BY <2>2, <2>3, <2>4, <2>5, MadeGraphic
<1>5. TypeOK'
  BY <1>1, <1>2, <1>3, <1>4 DEF TypeOK
<1>6. Begun'
  BY <1>1, <1>2 DEF Begun, Read, IsGraphic, Parses, Width, Length
<1>7. key' = LargestFirst' /\ Sorted'
  BY <1>1, <1>2 DEF sortvars, LargestFirst, Width, Sorted
<1>8. (Width(newres) = Width(lump))'
  BY <1>1, <1>4 DEF Width
<1>9. (x <= Width(lump) + 1)'
  BY <1>1, <1>2 DEF Width
<1>10. (Len(trail) = Len(past) + 1 /\ trail[Len(past) + 1] = lump)'
  BY <1>1 DEF FrameInv
<1> QED
  BY <1>1, <1>3, <1>5, <1>6, <1>7, <1>8, <1>9, <1>10 DEF FrameInv
\* When the columns are sorted the map has each of them once, the largest first.
LEMMA MapIs ==
  ASSUME FrameInv, pc = "place"
  PROVE  /\ Width(lump) \in Nat
         /\ elements \in [1 .. Width(lump) -> 1 .. Width(lump)]
         /\ \A j, k \in 1 .. Width(lump) : j # k => elements[j] # elements[k]
         /\ \A c \in 1 .. Width(lump) : \E k \in 1 .. Width(lump) : elements[k] = c
         /\ \A j, k \in 1 .. Width(lump) :
              j < k => colsize[elements[k]] <= colsize[elements[j]]
<1>1. TypeOK /\ SortInv /\ Begun /\ Sorted /\ key = LargestFirst
  BY DEF FrameInv
<1>2. Element = 1 .. Width(lump) /\ Width(lump) \in Nat /\ IsFiniteSet(Element)
  <2>1. Len(key) = Width(lump) /\ Width(lump) \in Nat
    BY <1>1, Keys, LumpRead DEF TypeOK
  <2> QED
    BY <2>1, FS_Interval DEF Element
<1>3. elements \in [Element -> Element]
  BY <1>1 DEF SortInv, SortTypeOK
<1>4. \A j, k \in Element : j # k => elements[j] # elements[k]
  BY <1>1, SortedOnce
<1>5. \A e \in Element : \E k \in Element : elements[k] = e
  <2>1. elements \in Injection(Element, Element)
    BY <1>3, <1>4 DEF Injection, IsInjective
  <2>2. elements \in Surjection(Element, Element)
    BY <1>2, <2>1, FS_Injection
  <2> QED
    BY <2>2 DEF Surjection
<1>6. ASSUME NEW j \in Element, NEW k \in Element, j < k
      PROVE  colsize[elements[k]] <= colsize[elements[j]]
  <2>1. Before(elements[j], elements[k])
    <3>1. calls = <<>> /\ step = "call"
      BY <1>1 DEF Sorted, SortInv, Partitioned, SortTypeOK
    <3> QED
      BY <1>1, <1>6, <3>1 DEF SortInv, Apart, Whole
  <2>2. PICK a, b : a = elements[j] /\ b = elements[k]
    OBVIOUS
  <2>3. a \in 1 .. Width(lump) /\ b \in 1 .. Width(lump)
    BY <1>2, <1>3, <2>2
  <2>4. key[a] = -colsize[a] /\ key[b] = -colsize[b]
    BY <1>1, <2>3, Keys
  <2>5. colsize[a] \in Nat /\ colsize[b] \in Nat
    BY <1>1, <2>3 DEF TypeOK, Begun
  <2>6. key[a] <= key[b]
    BY <2>1, <2>2, <2>4, <2>5 DEF Before
  <2> QED
    BY <2>2, <2>4, <2>5, <2>6
<1> QED
  BY <1>2, <1>3, <1>4, <1>5, <1>6

\* The bytes of a column end those of another.
Ends(b, c) ==
  /\ colsize[b] <= colsize[c]
  /\ \A j \in Nat : j < colsize[b] =>
       At(data, lump.cols[b] + j)
         = At(data, lump.cols[c] + colsize[c] - colsize[b] + j)

LEMMA ColumnsRead ==
  ASSUME TypeOK, Begun
  PROVE  /\ data \in Seq(Byte) /\ Len(data) \in Nat /\ Width(lump) \in Nat
         /\ \A c \in 1 .. Width(lump) :
              /\ lump.cols[c] \in Nat /\ colsize[c] \in Nat /\ colsize[c] > 0
              /\ lump.cols[c] + colsize[c] <= Len(data)
              /\ ColumnBytes(c) \in Seq(Byte) /\ Len(ColumnBytes(c)) = colsize[c]
              /\ \A j \in Nat : j < colsize[c] =>
                   At(ColumnBytes(c), j) = At(data, lump.cols[c] + j)
<1>1. /\ data \in Seq(Byte) /\ Len(data) \in Nat /\ Width(lump) \in Nat
      /\ \A c \in 1 .. Width(lump) :
           /\ lump.cols[c] \in Nat /\ colsize[c] \in Nat /\ colsize[c] > 0
           /\ lump.cols[c] + colsize[c] <= Len(data)
  <2>1. data \in Seq(Byte) /\ lump \in Lump /\ colsize \in Seq(Nat \ {0})
    BY DEF TypeOK
  <2>2. Len(data) \in Nat /\ Width(lump) \in Nat
        /\ \A c \in 1 .. Width(lump) : lump.cols[c] \in Nat
    BY <2>1, LumpRead, Reading
  <2>3. \A c \in 1 .. Width(lump) : colsize[c] \in Nat /\ colsize[c] > 0
    BY <2>1 DEF Begun
  <2> QED
    BY <2>1, <2>2, <2>3 DEF Begun
<1>2. ASSUME NEW c \in 1 .. Width(lump)
      PROVE  /\ ColumnBytes(c) \in Seq(Byte) /\ Len(ColumnBytes(c)) = colsize[c]
             /\ \A j \in Nat : j < colsize[c] =>
                  At(ColumnBytes(c), j) = At(data, lump.cols[c] + j)
  <2>1. PICK s : s = ColumnBytes(c)
    OBVIOUS
  <2>2. /\ s \in Seq(Byte) /\ Len(s) = colsize[c]
        /\ \A j \in 1 .. colsize[c] : s[j] = data[lump.cols[c] + j]
    BY <1>1, <2>1, BytesMean, ZenonT(60) DEF ColumnBytes
  <2>3. ASSUME NEW j \in Nat, j < colsize[c]
        PROVE  At(s, j) = At(data, lump.cols[c] + j)
    <3>0. colsize[c] \in Nat /\ lump.cols[c] \in Nat
      BY <1>1
    <3>1. j + 1 \in 1 .. colsize[c] /\ lump.cols[c] + (j + 1) = lump.cols[c] + j + 1
      BY <2>3, <3>0
    <3>2. s[j + 1] = data[lump.cols[c] + (j + 1)]
      BY <2>2, <3>1
    <3> QED
      BY <3>1, <3>2 DEF At
  <2> QED
    BY <2>1, <2>2, <2>3
<1> QED
  BY <1>1, <1>2

LEMMA SuffixEnds ==
  ASSUME TypeOK, Begun, NEW b \in 1 .. Width(lump), NEW c \in 1 .. Width(lump),
         NEW s \in Seq(Byte), Len(s) = colsize[b],
         NEW t \in Seq(Byte), Len(t) = colsize[c],
         \A j \in Nat : j < colsize[b] => At(s, j) = At(data, lump.cols[b] + j),
         \A j \in Nat : j < colsize[c] => At(t, j) = At(data, lump.cols[c] + j)
  PROVE  IsSuffix(s, t) <=> Ends(b, c)
<1>1. PICK m, n : m = colsize[b] /\ n = colsize[c]
  OBVIOUS
<1>2. /\ m \in Nat /\ n \in Nat
      /\ s \in Seq(Byte) /\ Len(s) = m /\ t \in Seq(Byte) /\ Len(t) = n
      /\ \A j \in Nat : j < m => At(s, j) = At(data, lump.cols[b] + j)
      /\ \A j \in Nat : j < n => At(t, j) = At(data, lump.cols[c] + j)
  BY <1>1, ColumnsRead
<1>3. IsSuffix(s, t) <=> m <= n /\ \A k \in 1 .. m : s[k] = t[n - m + k]
  <2>1. IsSuffix(s, t) <=>
          Len(s) <= Len(t) /\ \A k \in 1 .. Len(s) : s[k] = t[Len(t) - Len(s) + k]
    BY <1>2, SuffixIs
  <2> QED
    BY <1>2, <2>1
<1>4. lump.cols[c] \in Nat
  BY ColumnsRead
<1>5. ASSUME m <= n, NEW j \in Nat, j < m
      PROVE  s[j + 1] = t[n - m + (j + 1)] <=>
               At(data, lump.cols[b] + j) = At(data, lump.cols[c] + n - m + j)
  <2>1. n - m + j \in Nat /\ n - m + j < n /\ n - m + (j + 1) = n - m + j + 1
    BY <1>2, <1>5
  <2>2. s[j + 1] = At(data, lump.cols[b] + j)
    BY <1>2, <1>5 DEF At
  <2>3. t[n - m + j + 1] = At(data, lump.cols[c] + (n - m + j))
    BY <1>2, <2>1 DEF At
  <2>4. lump.cols[c] + (n - m + j) = lump.cols[c] + n - m + j
    BY <1>2, <1>4
  <2> QED
    BY <2>1, <2>2, <2>3, <2>4
<1>6. m <= n =>
        ((\A k \in 1 .. m : s[k] = t[n - m + k]) <=>
           \A j \in Nat : j < m =>
             At(data, lump.cols[b] + j) = At(data, lump.cols[c] + n - m + j))
  <2>1. ASSUME m <= n, \A k \in 1 .. m : s[k] = t[n - m + k], NEW j \in Nat, j < m
        PROVE  At(data, lump.cols[b] + j) = At(data, lump.cols[c] + n - m + j)
    <3>1. j + 1 \in 1 .. m
      BY <1>2, <2>1
    <3>2. s[j + 1] = t[n - m + (j + 1)]
      BY <2>1, <3>1
    <3> QED
      BY <1>5, <2>1, <3>2
  <2>2. ASSUME m <= n, NEW k \in 1 .. m,
               \A j \in Nat : j < m =>
                 At(data, lump.cols[b] + j) = At(data, lump.cols[c] + n - m + j)
        PROVE  s[k] = t[n - m + k]
    <3>1. PICK j \in Nat : j < m /\ k = j + 1
      <4>1. k - 1 \in Nat /\ k - 1 < m /\ k = (k - 1) + 1
        BY <1>2
      <4> QED
        BY <4>1
    <3>2. At(data, lump.cols[b] + j) = At(data, lump.cols[c] + n - m + j)
      BY <2>2, <3>1
    <3>3. s[j + 1] = t[n - m + (j + 1)]
      BY <1>5, <2>2, <3>1, <3>2
    <3> QED
      BY <3>1, <3>3
  <2> QED
    BY <2>1, <2>2
<1>7. Ends(b, c) <=>
        /\ m <= n
        /\ \A j \in Nat : j < m =>
             At(data, lump.cols[b] + j) = At(data, lump.cols[c] + n - m + j)
  BY <1>1 DEF Ends
<1> QED
  BY <1>3, <1>6, <1>7

LEMMA EndsIsSuffix ==
  ASSUME TypeOK, Begun, NEW b \in 1 .. Width(lump), NEW c \in 1 .. Width(lump)
  PROVE  IsSuffix(ColumnBytes(b), ColumnBytes(c)) <=> Ends(b, c)
<1>1. PICK s, t : s = ColumnBytes(b) /\ t = ColumnBytes(c)
  OBVIOUS
<1>2. /\ s \in Seq(Byte) /\ Len(s) = colsize[b]
      /\ t \in Seq(Byte) /\ Len(t) = colsize[c]
      /\ \A j \in Nat : j < colsize[b] => At(s, j) = At(data, lump.cols[b] + j)
      /\ \A j \in Nat : j < colsize[c] => At(t, j) = At(data, lump.cols[c] + j)
  BY <1>1, ColumnsRead
<1> QED
  BY <1>1, <1>2, SuffixEnds

First(k) == CHOOSE j \in Earlier(k) : \A l \in Earlier(k) : j <= l

LEMMA EarlierIs ==
  ASSUME FrameInv, pc = "place", NEW k \in 1 .. Width(lump)
  PROVE  /\ \A j : j \in Earlier(k) <=>
              cmd = "squash" /\ j \in 1 .. k - 1 /\ Ends(elements[k], elements[j])
         /\ Earlier(k) # {} =>
              /\ First(k) \in Earlier(k) /\ First(k) \in 1 .. k - 1
              /\ \A j \in Earlier(k) : First(k) <= j
<1>1. /\ Width(lump) \in Nat /\ elements \in [1 .. Width(lump) -> 1 .. Width(lump)]
      /\ TypeOK /\ Begun
  BY MapIs DEF FrameInv
<1>2. \A j \in 1 .. k - 1 : j \in 1 .. Width(lump)
  BY <1>1
<1>3. \A j \in 1 .. k - 1 :
        IsSuffix(ColumnBytes(elements[k]), ColumnBytes(elements[j]))
          <=> Ends(elements[k], elements[j])
  BY <1>1, <1>2, EndsIsSuffix
<1>4. \A j : j \in Earlier(k) <=>
        cmd = "squash" /\ j \in 1 .. k - 1 /\ Ends(elements[k], elements[j])
  BY <1>3 DEF Earlier
<1>5. ASSUME Earlier(k) # {}
      PROVE  First(k) \in Earlier(k) /\ \A j \in Earlier(k) : First(k) <= j
  <2>1. Earlier(k) \subseteq Nat
    BY <1>4
  <2>2. \E m \in Earlier(k) : \A n \in Earlier(k) : m <= n
    BY <1>5, <2>1, LeastNumber
  <2> QED
    BY <2>2 DEF First
<1> QED
  BY <1>4, <1>5

LEMMA SharedOffsetIs ==
  ASSUME FrameInv, pc = "place", NEW k \in 1 .. Width(lump), Earlier(k) # {}
  PROVE  /\ SharedOffset(elements[k], elements[First(k)]) \in Nat
         /\ SharedOffset(elements[k], elements[First(k)]) + colsize[elements[k]]
              = newres.cols[elements[First(k)]] + colsize[elements[First(k)]]
         /\ colsize[elements[k]] <= colsize[elements[First(k)]]
<1>1. PICK b, c : b = elements[First(k)] /\ c = elements[k]
  OBVIOUS
<1>2. First(k) \in 1 .. k - 1 /\ Ends(c, b)
  BY <1>1, EarlierIs
<1>3. b \in 1 .. Width(lump) /\ c \in 1 .. Width(lump)
  <2>1. First(k) \in 1 .. Width(lump)
    BY <1>2, MapIs
  <2> QED
    BY <1>1, <2>1, MapIs
<1>4. /\ newres.cols[b] \in Nat /\ colsize[b] \in Nat /\ colsize[c] \in Nat
      /\ colsize[c] <= colsize[b]
  <2>1. newres.cols[b] \in Nat
    BY <1>3, GraphicRead DEF FrameInv, TypeOK
  <2>2. colsize[b] \in Nat /\ colsize[c] \in Nat
    BY <1>3, ColumnsRead DEF FrameInv
  <2> QED
    BY <1>2, <2>1, <2>2 DEF Ends
<1>5. SharedOffset(c, b) = newres.cols[b] + colsize[b] - colsize[c]
  BY DEF SharedOffset
<1> QED
  BY <1>1, <1>4, <1>5

\* What placing a column does to the lump being built.
LEMMA PlaceMeans ==
  ASSUME FrameInv, PlaceColumn, NEW c, c = elements[x]
  PROVE  /\ x \in 1 .. Width(lump) /\ c \in 1 .. Width(lump)
         /\ newres' \in Graphic /\ Width(newres') = Width(newres)
         /\ \A b \in 1 .. Width(lump) : b # c => newres'.cols[b] = newres.cols[b]
         /\ \/ /\ Earlier(x) # {}
               /\ newres'.data = newres.data
               /\ newres'.cols[c] = SharedOffset(c, elements[First(x)])
            \/ /\ Earlier(x) = {}
               /\ newres'.data = newres.data \o ColumnBytes(c)
               /\ newres'.cols[c] = Len(newres.data)
<1>1. /\ pc = "place" /\ x \in 1 .. Width(lump) /\ Width(newres) = Width(lump)
      /\ newres \in Graphic /\ TypeOK /\ Begun
  <2>1. pc = "place" /\ x <= Width(lump)
    BY DEF PlaceColumn
  <2>2. x \in Nat \ {0} /\ Width(lump) \in Nat
    BY LumpRead DEF FrameInv, TypeOK
  <2> QED
    BY <2>1, <2>2 DEF FrameInv, TypeOK
<1>2. c \in 1 .. Width(lump)
  BY <1>1, MapIs
<1>3. \/ /\ Earlier(x) # {}
         /\ newres' = [newres EXCEPT !.cols[c] = SharedOffset(c, elements[First(x)])]
      \/ /\ Earlier(x) = {}
         /\ newres' = [cols |-> [newres.cols EXCEPT ![c] = Len(newres.data)],
                       data |-> newres.data \o ColumnBytes(c)]
  BY DEF PlaceColumn, First
<1>4. CASE /\ Earlier(x) # {}
           /\ newres' = [newres EXCEPT !.cols[c] = SharedOffset(c, elements[First(x)])]
  <2>1. SharedOffset(c, elements[First(x)]) \in Nat
    BY <1>1, <1>4, SharedOffsetIs
  <2>2. PICK s, v : s = newres' /\ v = SharedOffset(c, elements[First(x)])
    OBVIOUS
  <2>3. s = [newres EXCEPT !.cols[c] = v] /\ v \in Nat
    BY <1>4, <2>1, <2>2
  <2>4. /\ s \in Graphic /\ s.data = newres.data /\ Width(s) = Width(newres)
        /\ s.cols[c] = v
        /\ \A b \in 1 .. Width(newres) : b # c => s.cols[b] = newres.cols[b]
    BY <1>1, <1>2, <2>3, OtherColumn
  <2> QED
    BY <1>1, <1>2, <1>4, <2>2, <2>4
<1>5. CASE /\ Earlier(x) = {}
           /\ newres' = [cols |-> [newres.cols EXCEPT ![c] = Len(newres.data)],
                         data |-> newres.data \o ColumnBytes(c)]
  <2>1. /\ newres.cols \in Seq(Nat) /\ newres.data \in Seq(Byte)
        /\ Len(newres.cols) = Width(lump) /\ Len(newres.data) \in Nat
        /\ ColumnBytes(c) \in Seq(Byte)
    BY <1>1, <1>2, GraphicRead, Reading, ColumnsRead
  <2>2. PICK cols, d : /\ cols = [newres.cols EXCEPT ![c] = Len(newres.data)]
                       /\ d = newres.data \o ColumnBytes(c)
    OBVIOUS
  <2>3. /\ cols \in Seq(Nat) /\ Len(cols) = Width(lump) /\ cols[c] = Len(newres.data)
        /\ \A b \in 1 .. Width(lump) : b # c => cols[b] = newres.cols[b]
    BY <1>2, <2>1, <2>2, OneColumn
  <2>4. d \in Seq(Byte)
    BY <2>1, <2>2, JointBytes DEF Glued
  <2>5. PICK s : s = newres'
    OBVIOUS
  <2>6. s = [cols |-> cols, data |-> d]
    BY <1>5, <2>2, <2>5
  <2>7. s \in Graphic /\ s.cols = cols /\ s.data = d /\ Width(s) = Len(cols)
    BY <2>3, <2>4, <2>6, MadeGraphic
  <2> QED
    BY <1>1, <1>2, <1>5, <2>2, <2>3, <2>5, <2>7
<1> QED
  BY <1>3, <1>4, <1>5

LEMMA PlaceFrame == ASSUME FrameInv, PlaceColumn PROVE FrameInv'
<1>1. /\ pc = "place" /\ pc' = pc /\ x' = x + 1 /\ x <= Width(lump)
      /\ UNCHANGED <<lump, cmd, data, colsize, i>>
      /\ past' = past /\ trail' = trail /\ UNCHANGED sortvars
  BY DEF PlaceColumn, history
<1>2. TypeOK /\ SortInv /\ Begun /\ key = LargestFirst /\ Sorted /\ Width(lump) \in Nat
  BY <1>1, LumpRead DEF FrameInv, TypeOK
<1>3. SortInv' /\ SortTypeOK'
  <2>1. SortInv'
    BY <1>1, <1>2, SameSort
  <2> QED
    BY <2>1 DEF SortInv
<1>4. newres' \in Graphic /\ Width(newres') = Width(newres) /\ x \in 1 .. Width(lump)
  <2>1. PICK c : c = elements[x]
    OBVIOUS
  <2> QED
    BY <2>1, PlaceMeans
<1>5. TypeOK'
  BY <1>1, <1>2, <1>3, <1>4 DEF TypeOK
<1>6. Begun'
  BY <1>1, <1>2 DEF Begun, Read, IsGraphic, Parses, Width, Length
<1>7. key' = LargestFirst' /\ Sorted'
  BY <1>1, <1>2 DEF sortvars, LargestFirst, Width, Sorted
<1>8. (Width(newres) = Width(lump))'
  BY <1>1, <1>4 DEF FrameInv, Width
<1>9. (x <= Width(lump) + 1)'
  BY <1>1, <1>2, <1>4 DEF Width
<1>10. (Len(trail) = Len(past) + 1 /\ trail[Len(past) + 1] = lump)'
  BY <1>1 DEF FrameInv
<1> QED
  BY <1>1, <1>3, <1>5, <1>6, <1>7, <1>8, <1>9, <1>10 DEF FrameInv

\* The bytes of the lump that is built: the header, the table, and the columns.
LEMMA BuiltBytes ==
  ASSUME FrameInv, pc = "place", NEW cols,
         cols = [c \in 1 .. Width(lump) |-> TableEnd(Width(lump)) + newres.cols[c]]
  PROVE  /\ Built \in Seq(Byte) /\ Len(Built) = NewLength
         /\ \A a \in Nat : a < 8 => At(Built, a) = At(data, a)
         /\ \A k \in 0 .. 4 * Width(lump) - 1 :
              At(Built, 8 + k) = LongBytes(cols[(k + 4) \div 4])[((k + 4) % 4) + 1]
         /\ \A j \in Nat : j < Len(newres.data) =>
              At(Built, TableEnd(Width(lump)) + j) = At(newres.data, j)
<1>1. /\ TypeOK /\ Begun /\ Width(newres) = Width(lump) /\ lump \in Lump
      /\ newres \in Graphic /\ data \in Seq(Byte) /\ IsGraphic(lump)
  BY DEF FrameInv, TypeOK, Begun, Read
<1>2. PICK w \in Nat : w = Width(lump)
  BY <1>1, LumpRead
<1>3. PICK head, table, rest : /\ head = Bytes(data, 0, 8) /\ table = TableBytes(cols)
                               /\ rest = newres.data
  OBVIOUS
<1>4. /\ TableEnd(w) = 8 + 4 * w /\ rest \in Seq(Byte) /\ Len(rest) \in Nat
      /\ NewLength = TableEnd(w) + Len(rest)
  BY <1>1, <1>2, <1>3, GraphicRead, Reading DEF TableEnd, NewLength
<1>5. /\ head \in Seq(Byte) /\ Len(head) = 8
      /\ \A a \in Nat : a < 8 => At(head, a) = At(data, a)
  <2>1. Len(data) >= 8 /\ Len(data) \in Nat
    BY <1>1, GraphicTable, Reading DEF Begun
  <2>2. /\ head \in Seq(Byte) /\ Len(head) = 8
        /\ \A j \in 1 .. 8 : head[j] = data[0 + j]
    <3>1. 0 \in Nat /\ 8 \in Nat /\ 0 + 8 <= Len(data) /\ head = Bytes(data, 0, 8)
      BY <1>3, <2>1
    <3> QED
      BY <1>1, <3>1, BytesMean, ZenonT(60)
  <2>3. ASSUME NEW a \in Nat, a < 8 PROVE At(head, a) = At(data, a)
    <3>1. a + 1 \in 1 .. 8 /\ 0 + (a + 1) = a + 1
      BY <2>3
    <3> QED
      BY <2>2, <3>1 DEF At
  <2> QED
    BY <2>2, <2>3
<1>6. /\ table \in Seq(Byte) /\ Len(table) = 4 * w
      /\ \A k \in 0 .. 4 * w - 1 :
           At(table, k) = LongBytes(cols[(k + 4) \div 4])[((k + 4) % 4) + 1]
  <2>1. /\ Len(cols) = w
        /\ \A c \in 1 .. w : cols[c] \in Nat
    BY <1>1, <1>2, <1>4, GraphicRead, SMTT(60)
  <2>2. ASSUME NEW k \in 1 .. 4 * w
        PROVE  LongBytes(cols[(k + 3) \div 4])[((k + 3) % 4) + 1] \in Byte
    <3>1. PICK c, j : c = (k + 3) \div 4 /\ j = (k + 3) % 4
      OBVIOUS
    <3>2. c \in 1 .. w /\ j \in 0 .. 3
      BY <1>2, <3>1
    <3>3. PICK n, b : n \in Nat /\ n = cols[c] /\ b = LongBytes(n)
      BY <2>1, <3>2
    <3>4. b[1] \in Byte /\ b[2] \in Byte /\ b[3] \in Byte /\ b[4] \in Byte
      BY <3>3, LongWritten
    <3>5. b[j + 1] \in Byte
      <4>1. j = 0 \/ j = 1 \/ j = 2 \/ j = 3
        BY <3>2
      <4>2. j = 0 => j + 1 = 1
        OBVIOUS
      <4>3. j = 1 => j + 1 = 2
        OBVIOUS
      <4>4. j = 2 => j + 1 = 3
        OBVIOUS
      <4>5. j = 3 => j + 1 = 4
        OBVIOUS
      <4> QED
        BY <3>4, <4>1, <4>2, <4>3, <4>4, <4>5, Zenon
    <3> QED
      BY <3>1, <3>3, <3>5
  <2>3. table = [k \in 1 .. 4 * w |-> LongBytes(cols[(k + 3) \div 4])[((k + 3) % 4) + 1]]
    BY <1>3, <2>1 DEF TableBytes
  <2>4. 4 * w \in Nat
    BY <1>2
  <2>5. table \in Seq(Byte) /\ Len(table) = 4 * w
    <3>1. PICK n \in Nat : n = 4 * w
      BY <2>4
    <3>2. table \in [1 .. n -> Byte]
      BY <2>2, <2>3, <3>1
    <3> QED
      BY <3>1, <3>2
  <2>6. ASSUME NEW k \in 0 .. 4 * w - 1
        PROVE  At(table, k) = LongBytes(cols[(k + 4) \div 4])[((k + 4) % 4) + 1]
    <3>1. k + 1 \in 1 .. 4 * w /\ (k + 1) + 3 = k + 4
      BY <2>4, <2>6
    <3>2. table[k + 1] = LongBytes(cols[((k + 1) + 3) \div 4])[(((k + 1) + 3) % 4) + 1]
      BY <2>3, <3>1
    <3> QED
      BY <3>1, <3>2 DEF At
  <2> QED
    BY <2>5, <2>6
<1>7. PICK front : front = Glued(head, table)
  OBVIOUS
<1>8. /\ front \in Seq(Byte) /\ Len(front) = 8 + 4 * w
      /\ \A a \in Nat : a < 8 => At(front, a) = At(head, a)
      /\ \A k \in Nat : k < 4 * w => At(front, 8 + k) = At(table, k)
  <2>1. /\ front \in Seq(Byte) /\ Len(front) = Len(head) + Len(table)
        /\ \A j \in Nat : j < Len(head) => At(front, j) = At(head, j)
        /\ \A j \in Nat : j < Len(table) => At(front, Len(head) + j) = At(table, j)
    <3>1. head \in Seq(Byte) /\ table \in Seq(Byte)
      BY <1>5, <1>6
    <3> QED
      BY <1>7, <3>1, JointBytes
  <2>2. Len(head) = 8 /\ Len(table) = 4 * w
    BY <1>5, <1>6
  <2> QED
    BY <2>1, <2>2
<1>9. PICK all : all = Glued(front, rest)
  OBVIOUS
<1>10. /\ all \in Seq(Byte) /\ Len(all) = 8 + 4 * w + Len(rest)
       /\ \A a \in Nat : a < 8 + 4 * w => At(all, a) = At(front, a)
       /\ \A j \in Nat : j < Len(rest) => At(all, 8 + 4 * w + j) = At(rest, j)
  <2>1. /\ all \in Seq(Byte) /\ Len(all) = Len(front) + Len(rest)
        /\ \A j \in Nat : j < Len(front) => At(all, j) = At(front, j)
        /\ \A j \in Nat : j < Len(rest) => At(all, Len(front) + j) = At(rest, j)
    <3>1. front \in Seq(Byte) /\ rest \in Seq(Byte)
      BY <1>4, <1>8
    <3> QED
      BY <1>9, <3>1, JointBytes
  <2>2. Len(front) = 8 + 4 * w
    BY <1>8
  <2> QED
    BY <2>1, <2>2
<1>11. all = Built
  <2>1. Built = head \o table \o rest
    BY <1>3 DEF Built
  <2>2. all = head \o table \o rest
    BY <1>7, <1>9 DEF Glued
  <2> QED
    BY <2>1, <2>2
<1>12. ASSUME NEW a \in Nat, a < 8 PROVE At(all, a) = At(data, a)
  <2>1. a < 8 + 4 * w
    BY <1>2, <1>12
  <2> QED
    BY <1>5, <1>8, <1>10, <1>12, <2>1
<1>13. ASSUME NEW k \in 0 .. 4 * w - 1
       PROVE  At(all, 8 + k) = LongBytes(cols[(k + 4) \div 4])[((k + 4) % 4) + 1]
  <2>1. k \in Nat /\ k < 4 * w /\ 8 + k \in Nat /\ 8 + k < 8 + 4 * w
    BY <1>2, <1>13
  <2> QED
    BY <1>6, <1>8, <1>10, <1>13, <2>1
<1> QED
  BY <1>2, <1>3, <1>4, <1>10, <1>11, <1>12, <1>13

LEMMA FinishMeans ==
  ASSUME FrameInv, Finish
  PROVE  /\ pc = "place" /\ x = Width(lump) + 1 /\ EndRun(cmd, lump') /\ lump' \in Lump
         /\ \/ Worse /\ lump' = Decoded(data)
            \/ ~Worse /\ NewLength <= MaxLength /\ lump' = Decoded(Built)
         /\ UNCHANGED <<cmd, data, colsize, x, i, newres>> /\ UNCHANGED sortvars
<1>1. /\ pc = "place" /\ x = Width(lump) + 1
      /\ Worse \/ NewLength <= MaxLength
      /\ EndRun(cmd, Decoded(IF Worse THEN data ELSE Built))
      /\ UNCHANGED <<cmd, data, colsize, x, i, newres>> /\ UNCHANGED sortvars
  BY DEF Finish
<1>2. lump' = Decoded(IF Worse THEN data ELSE Built)
  BY <1>1 DEF EndRun
<1>3. data \in Seq(Byte) /\ Built \in Seq(Byte)
  BY <1>1, BuiltBytes DEF FrameInv, TypeOK
<1>4. Decoded(data) \in Lump /\ Decoded(Built) \in Lump
  BY <1>3, TableRead
<1> QED
  BY <1>1, <1>2, <1>4

LEMMA FinishFrame == ASSUME FrameInv, Finish PROVE FrameInv'
<1>1. /\ EndRun(cmd, lump') /\ lump' \in Lump
      /\ UNCHANGED <<cmd, data, colsize, x, i, newres>> /\ UNCHANGED sortvars
  BY FinishMeans
<1>2. TypeOK /\ SortInv /\ cmd \in Op
  BY DEF FrameInv, TypeOK
<1>3. SortInv' /\ SortTypeOK'
  <2>1. SortInv'
    BY <1>1, <1>2, SameSort
  <2> QED
    BY <2>1 DEF SortInv
<1>4. /\ pc' = "idle" /\ past' \in Seq(Op) /\ trail' \in Seq(Lump)
      /\ Len(trail') = Len(past') + 1 /\ trail'[Len(past') + 1] = lump'
  <2>1. PICK l \in Lump : l = lump'
    BY <1>1
  <2>2. EndRun(cmd, l)
    BY <1>1, <2>1
  <2> QED
    BY <1>2, <2>1, <2>2, EndRunKeeps
<1>5. TypeOK'
  BY <1>1, <1>2, <1>3, <1>4 DEF TypeOK
<1> QED
  BY <1>3, <1>4, <1>5 DEF FrameInv

LEMMA IdleFrame == ASSUME FrameInv, UNCHANGED vars PROVE FrameInv'
<1>1. /\ UNCHANGED <<lump, pc, cmd, data, colsize, x, i, newres>>
      /\ UNCHANGED <<past, trail>> /\ UNCHANGED sortvars
  BY DEF vars, history
<1>2. SortInv'
  BY <1>1, SameSort DEF FrameInv
<1>3. TypeOK'
  BY <1>1, <1>2 DEF FrameInv, TypeOK, SortInv
<1>4. pc' # "idle" => Begun'
  BY <1>1 DEF FrameInv, Begun, Read, IsGraphic, Parses, Width, Length
<1>5. /\ key' = key /\ LargestFirst' = LargestFirst /\ (Sorted <=> Sorted')
      /\ Width(newres)' = Width(newres) /\ Width(lump)' = Width(lump)
  BY <1>1 DEF sortvars, LargestFirst, Width, Sorted
<1> QED
  BY <1>1, <1>2, <1>3, <1>4, <1>5 DEF FrameInv

LEMMA FrameNext == FrameInv /\ [Next]_vars => FrameInv'
<1> SUFFICES ASSUME FrameInv, [Next]_vars PROVE FrameInv'
  OBVIOUS
<1>1. ASSUME NEW c \in Op, Start(c) PROVE FrameInv'
  BY <1>1, StartFrame
<1>2. CASE CombinePosts
  BY <1>2, CombineFrame
<1>3. CASE SortColumns
  BY <1>3, SortColumnsFrame
<1>4. CASE SortMapElements
  BY <1>4, SortStepFrame
<1>5. CASE BeginColumns
  BY <1>5, BeginFrame
<1>6. CASE PlaceColumn
  BY <1>6, PlaceFrame
<1>7. CASE Finish
  BY <1>7, FinishFrame
<1>8. CASE Done \/ UNCHANGED vars
  BY <1>8, IdleFrame DEF Done
<1> QED
  BY <1>1, <1>2, <1>3, <1>4, <1>5, <1>6, <1>7, <1>8 DEF Next

\* Whatever the lump: what is stored is a lump again, and while it is rewritten
\* every column stays within it and has an end.
THEOREM GraphicsTypeOK == Spec => []TypeOK
<1>1. FrameInv => TypeOK
  BY DEF FrameInv
<1> QED
  BY <1>1, FrameFirst, FrameNext, PTL DEF Spec

LEMMA MapSorted == FrameInv => SortsRight
<1> SUFFICES ASSUME SortInv, Sorted PROVE elements = SortedMap
  BY DEF FrameInv, SortsRight
<1>1. calls = <<>> /\ step = "call"
  BY DEF Sorted, SortInv, Partitioned, SortTypeOK
<1>2. Ascending
  BY <1>1 DEF SortInv, Apart, Whole, Ascending
<1> QED
  BY <1>2, AscendingIsSorted

\* The columns are sorted by the quicksort as the reference sorts them.
THEOREM ColumnsSorted == Spec => []SortsRight
BY FrameFirst, FrameNext, MapSorted, PTL DEF Spec
\* The columns are sorted without a deep recursion if they are in order already,
\* as those of a graphic are in which all are of one length.
THEOREM ColumnsSortedShallowly == Spec => []Shallow
<1>1. Init => ShallowInv
  <2> SUFFICES ASSUME Init PROVE ShallowInv
    OBVIOUS
  <2> QED
    BY DEF Init, ShallowInv, AtHome, Halved, Element
<1>2. FrameInv /\ ShallowInv /\ [Next]_vars => ShallowInv'
  <2> SUFFICES ASSUME FrameInv, ShallowInv, [Next]_vars PROVE ShallowInv'
    OBVIOUS
  <2>1. SortInv
    BY DEF FrameInv
  <2>2. CASE SortColumns
    <3>1. MakeSortedMap(LargestFirst)
      BY <2>2 DEF SortColumns
    <3>2. LargestFirst \in Seq(Int)
      BY <2>2, Keys DEF FrameInv, SortColumns
    <3> QED
      BY <3>1, <3>2, ShallowStarts
  <2>3. CASE SortMapElements
    BY <2>1, <2>3, ShallowNext DEF SortMapElements
  <2>4. CASE UNCHANGED sortvars
    BY <2>1, <2>4, ShallowNext
  <2>5. SortColumns \/ SortMapElements \/ UNCHANGED sortvars
    BY DEF Next, Start, CombinePosts, BeginColumns, PlaceColumn, Finish, Done, vars
  <2> QED
    BY <2>2, <2>3, <2>4, <2>5
<1>3. ShallowInv => Shallow
  BY DEF ShallowInv, KeysInOrder, Halved, Shallow
<1> QED
  BY <1>1, <1>2, <1>3, FrameFirst, FrameNext, PTL DEF Spec
-----------------------------------------------------------------------------
(* What a run keeps of a tidy lump *)

Alone(l, c) ==
  /\ l.cols[c] >= TableEnd(Width(l))
  /\ \A e \in 1 .. Width(l) \ {c} : Span(l, c) \cap Span(l, e) = {}

\* A column in memory shows what it shows on disk, and is no longer than there.
\* Only one with bytes of its own has posts left to join.
ColumnKept(c) ==
  /\ ColumnEnd(data, lump.cols[c]) = lump.cols[c] + colsize[c]
  /\ Ascends(data, lump.cols[c])
  /\ Shown(data, lump.cols[c]) = Shown(lump.data, lump.cols[c])
  /\ colsize[c] <= ColumnLength(lump.data, lump.cols[c])
  /\ \/ Combined(data, lump.cols[c])
     \/ pc = "combine" /\ c >= x /\ Alone(lump, c)

\* The loop is at a post of the column or at its end, and beyond the first post
\* it finds nothing to join.
Reached ==
  /\ ColumnEnd(data, Post) = ColumnEnd(data, Column)
  /\ PostAt(data, Post) => Post \in Posts(data, Column)
  /\ i > 0 => Combined(data, Column)

\* Nothing is joined in the header or the table.
FrontKept ==
  \A a \in Nat : a < TableEnd(Width(lump)) => At(data, a) = At(lump.data, a)

RunInv ==
  pc # "idle" =>
    /\ Tidy(lump) /\ FrontKept
    /\ \A c \in 1 .. Width(lump) : ColumnKept(c)
    /\ pc = "combine" /\ x <= Width(lump) => Reached

\* Where a turn of the loop finds the post and the one behind it.
LEMMA TurnAt ==
  ASSUME FrameInv, RunInv, pc = "combine", x <= Width(lump)
  PROVE  /\ x \in 1 .. Width(lump) /\ data \in Seq(Byte) /\ Len(data) \in Nat
         /\ Column \in Nat /\ colsize[x] \in Nat /\ i \in Nat
         /\ ColumnKept(x) /\ ColumnEnd(data, Column) # 0
         /\ ColumnEnd(data, Column) = Column + colsize[x]
         /\ Column + colsize[x] <= Len(data)
         /\ Post \in Nat /\ Post < Len(data)
         /\ At(data, Post) # Stop =>
              /\ PostAt(data, Post) /\ Post \in Posts(data, Column)
              /\ NextPost = After(data, Post) /\ NextPost \in Nat
              /\ ColumnEnd(data, NextPost) = ColumnEnd(data, Column)
              /\ NextPost < Len(data) /\ NextPost > Column
              /\ At(data, NextPost) # Stop =>
                   /\ PostAt(data, NextPost) /\ NextPost \in Posts(data, Column)
                   /\ At(data, NextPost + 1) \in Nat
                   /\ NextPost + At(data, NextPost + 1) + 4 < Column + colsize[x]
<1>1. /\ lump \in Lump /\ data \in Seq(Byte) /\ x \in Nat \ {0} /\ i \in Nat
      /\ colsize \in Seq(Nat \ {0}) /\ Len(colsize) = Width(lump)
      /\ \A c \in 1 .. Width(lump) : lump.cols[c] + colsize[c] <= Len(data)
  BY DEF FrameInv, TypeOK, Begun
<1>2. Width(lump) \in Nat /\ Len(data) \in Nat
  BY <1>1, LumpRead, Reading
<1>3. x \in 1 .. Width(lump)
  BY <1>1, <1>2
<1>4. /\ Column \in Nat /\ colsize[x] \in Nat \ {0}
      /\ Column + colsize[x] <= Len(data)
  BY <1>1, <1>2, <1>3, LumpRead DEF Column
<1>5. ColumnKept(x) /\ Reached
  BY <1>3 DEF RunInv
<1>6. ColumnEnd(data, Column) = Column + colsize[x] /\ ColumnEnd(data, Column) # 0
  BY <1>4, <1>5 DEF ColumnKept, Column
<1>7. /\ Post \in Nat /\ Post >= Column
      /\ ColumnEnd(data, Post) = ColumnEnd(data, Column)
  BY <1>1, <1>4, <1>5 DEF Post, Reached
<1>8. Post < Len(data) /\ (At(data, Post) # Stop <=> PostAt(data, Post))
  BY <1>1, <1>6, <1>7, PostOrStop
<1>9. ASSUME At(data, Post) # Stop
      PROVE  /\ PostAt(data, Post) /\ Post \in Posts(data, Column)
             /\ NextPost = After(data, Post) /\ NextPost \in Nat
             /\ ColumnEnd(data, NextPost) = ColumnEnd(data, Column)
             /\ NextPost < Len(data) /\ NextPost > Column
             /\ At(data, NextPost) # Stop =>
                  /\ PostAt(data, NextPost) /\ NextPost \in Posts(data, Column)
                  /\ At(data, NextPost + 1) \in Nat
                  /\ NextPost + At(data, NextPost + 1) + 4 < Column + colsize[x]
  <2>1. PostAt(data, Post) /\ Post \in Posts(data, Column)
    BY <1>5, <1>8, <1>9 DEF Reached
  <2>2. At(data, Post + 1) \in Nat
    BY <1>1, <1>7, <2>1, PostRead
  <2>3. NextPost = After(data, Post)
    BY <1>1, <1>4, <2>2 DEF NextPost, NextIndex, Post, After
  <2>4. NextPost \in Nat /\ NextPost >= Post + 4
    BY <1>1, <1>7, <2>1, <2>3, Reading
  <2>5. ColumnEnd(data, NextPost) = ColumnEnd(data, Column)
    BY <1>1, <1>7, <2>1, <2>3, EndStep
  <2>6. NextPost < Len(data) /\ (At(data, NextPost) # Stop <=> PostAt(data, NextPost))
    BY <1>1, <1>6, <2>4, <2>5, PostOrStop
  <2>7. NextPost > Column
    BY <1>4, <1>7, <2>4
  <2>8. ASSUME At(data, NextPost) # Stop
        PROVE  /\ PostAt(data, NextPost) /\ NextPost \in Posts(data, Column)
               /\ At(data, NextPost + 1) \in Nat
               /\ NextPost + At(data, NextPost + 1) + 4 < Column + colsize[x]
    <3>1. NextPost \in Posts(data, Column)
      BY <1>1, <1>4, <1>6, <2>1, <2>3, <2>6, <2>8, PostsWithin
    <3>2. After(data, NextPost) < ColumnEnd(data, Column)
      BY <1>1, <1>4, <1>6, <3>1, PostsWithin
    <3>3. /\ At(data, NextPost + 1) \in Nat
          /\ After(data, NextPost) = NextPost + At(data, NextPost + 1) + 4
      BY <1>1, <2>4, <2>6, <2>8, PostRead
    <3> QED
      BY <1>6, <2>6, <2>8, <3>1, <3>2, <3>3
  <2> QED
    BY <2>1, <2>3, <2>4, <2>5, <2>6, <2>7, <2>8
<1> QED
  BY <1>1, <1>2, <1>3, <1>4, <1>5, <1>6, <1>7, <1>8, <1>9

\* A turn reads and moves nothing outside the lump.
LEMMA TurnDefined ==
  ASSUME FrameInv, RunInv, pc = "combine", x <= Width(lump)
  PROVE  Defined
<1>1. Post < Len(data) /\ Post \in Nat /\ Len(data) \in Nat
  BY TurnAt
<1>2. ASSUME At(data, Post) # Stop
      PROVE  /\ InLump(Post + 1) /\ InLump(NextPost)
             /\ At(data, NextPost) # Stop =>
                  /\ InLump(NextPost + 1)
                  /\ Adjacent => Rest >= 0 /\ NextPost + 3 + Rest <= Len(data)
  <2>1. PostAt(data, Post) /\ NextPost < Len(data) /\ NextPost \in Nat
    BY <1>2, TurnAt
  <2>2. ASSUME At(data, NextPost) # Stop
        PROVE  InLump(NextPost + 1) /\ Rest >= 0 /\ NextPost + 3 + Rest <= Len(data)
    <3>1. /\ PostAt(data, NextPost) /\ At(data, NextPost + 1) \in Nat
          /\ NextPost + At(data, NextPost + 1) + 4 < Column + colsize[x]
          /\ Column \in Nat /\ colsize[x] \in Nat
          /\ Column + colsize[x] <= Len(data)
      BY <1>2, <2>2, TurnAt
    <3>2. PICK n \in Int : n = NextIndex /\ NextPost = Column + n
      <4>1. i \in Nat /\ PostAt(data, Post) /\ data \in Seq(Byte)
        BY <1>2, TurnAt
      <4>2. At(data, Post + 1) \in Nat
        BY <1>1, <4>1, PostRead
      <4> QED
        BY <4>1, <4>2 DEF NextPost, NextIndex
    <3>3. Rest = colsize[x] - n - 3
      BY <3>2 DEF Rest
    <3>4. InLump(NextPost + 1)
      BY <3>1 DEF InLump, PostAt
    <3>5. PICK a, m, k, size :
            /\ a = Column /\ m = At(data, NextPost + 1) /\ k = Len(data)
            /\ size = colsize[x]
      OBVIOUS
    <3>6. /\ a \in Nat /\ m \in Nat /\ k \in Nat /\ size \in Nat
          /\ a + n + m + 4 < a + size /\ a + size <= k
          /\ Rest = size - n - 3 /\ NextPost = a + n
      BY <1>1, <3>1, <3>2, <3>3, <3>5
    <3>7. Rest >= 0 /\ NextPost + 3 + Rest <= k
      BY <3>6
    <3> QED
      BY <3>4, <3>5, <3>7
  <2> QED
    BY <2>1, <2>2 DEF InLump, PostAt
<1> QED
  BY <1>1, <1>2 DEF Defined, InLump

\* Posts are joined only at the first of a column.
LEMMA JoinsFirst ==
  ASSUME FrameInv, RunInv, pc = "combine", x <= Width(lump),
         At(data, Post) # Stop, At(data, NextPost) # Stop, Adjacent
  PROVE  /\ i = 0 /\ Post = Column /\ NextPost = After(data, Column)
         /\ Follows(data, Column, After(data, Column))
         /\ ~Combined(data, Column) /\ Alone(lump, x)
<1>1. /\ Column \in Nat /\ i \in Nat /\ NextPost \in Nat /\ NextPost > Column
      /\ NextPost \in Posts(data, Column) /\ NextPost = After(data, Post)
      /\ ColumnKept(x)
  BY TurnAt
<1>2. Follows(data, Column, NextPost)
  BY DEF Adjacent, Follows
<1>3. ~Combined(data, Column)
  <2>1. NextPost # Column
    BY <1>1
  <2> QED
    BY <1>1, <1>2, <2>1 DEF Combined, Follows
<1>4. i = 0
  BY <1>1, <1>3 DEF RunInv, Reached
<1>5. Post = Column
  BY <1>1, <1>4 DEF Post
<1>6. Alone(lump, x)
  BY <1>1, <1>3 DEF ColumnKept, Column
<1> QED
  BY <1>1, <1>2, <1>3, <1>4, <1>5, <1>6

\* A join changes bytes of its own column only, and they are the joined ones.
LEMMA JoinMeans ==
  ASSUME FrameInv, RunInv, pc = "combine", x <= Width(lump),
         At(data, Post) # Stop, At(data, NextPost) # Stop, Adjacent,
         NEW e, e = Joined
  PROVE  /\ e \in Seq(Byte) /\ Len(e) = Len(data)
         /\ JoinedBytes(data, Column, e)
         /\ \A a \in Nat : /\ a < Len(data)
                           /\ a < Column \/ a >= Column + colsize[x]
                           => At(e, a) = At(data, a)
<1> DEFINE len == At(data, Column + 1)
           more == At(data, NextPost + 1)
           to == Column + 3 + len
           size == colsize[x]
<1>1. Defined
  BY TurnDefined
<1>2. /\ i = 0 /\ Post = Column /\ NextPost = After(data, Column)
      /\ Follows(data, Column, After(data, Column))
  BY JoinsFirst
<1>3. /\ Column \in Nat /\ Len(data) \in Nat /\ len \in Nat /\ more \in Nat
      /\ size \in Nat /\ NextIndex \in Nat /\ NextPost = Column + NextIndex
      /\ Rest = size - NextIndex - 3 /\ Rest \in Nat
  BY <1>1, JoinAt
<1>4. /\ e \in Seq(Byte) /\ Len(e) = Len(data)
      /\ At(e, Column + 1) = (len + more) % 256
      /\ \A a \in Nat : a < Len(data) =>
           /\ to <= a /\ a < to + Rest => At(e, a) = At(data, a - to + NextPost + 3)
           /\ ~(to <= a /\ a < to + Rest) /\ a # Column + 1 => At(e, a) = At(data, a)
  BY <1>1, JoinedMeans
<1>5. ColumnEnd(data, Column) = Column + size /\ Column + size <= Len(data)
  BY TurnAt
<1>6. len + more < 256
  BY <1>2 DEF Follows
<1>7. NextPost = Column + len + 4
  BY <1>2 DEF After
<1> HIDE DEF len, more, size
<1>8. NextIndex = len + 4
  BY <1>3, <1>7
<1>9. to \in Nat /\ to = Column + 3 + len /\ to + Rest = Column + size - 4
  BY <1>3, <1>8
<1> HIDE DEF to
<1>10. At(e, Column + 1) = len + more
  <2>1. len + more \in Nat
    BY <1>3
  <2>2. (len + more) % 256 = len + more
    BY <1>6, <2>1
  <2> QED
    BY <1>4, <2>2
<1>11. ASSUME NEW a \in Nat, a < Len(data), a < to \/ a >= Column + size - 4, a # Column + 1
       PROVE  At(e, a) = At(data, a)
  BY <1>3, <1>4, <1>9, <1>11
<1>12. ASSUME NEW a \in Nat, to <= a, a < Column + size - 4
       PROVE  At(e, a) = At(data, a + 4)
  <2>1. a < Len(data) /\ a < to + Rest
    BY <1>3, <1>5, <1>9, <1>12
  <2>2. a - to + NextPost + 3 = a + 4
    BY <1>3, <1>7, <1>9
  <2> QED
    BY <1>4, <1>12, <2>1, <2>2
<1>13. Column + 4 < Column + size
  BY <1>3, <1>8
<1>14. At(e, Column) = At(data, Column)
  BY <1>3, <1>5, <1>9, <1>11, <1>13
<1>15. ASSUME NEW a \in Nat, Column + 2 <= a, a < Column + 3 + len
       PROVE  At(e, a) = At(data, a)
  <2>1. a < to /\ a < Len(data) /\ a # Column + 1
    BY <1>3, <1>5, <1>9, <1>15
  <2> QED
    BY <1>11, <2>1
<1>16. JoinedBytes(data, Column, e)
  <2>1. \A a \in Nat : Column + 3 + len <= a /\ a < ColumnEnd(data, Column) - 4
                         => At(e, a) = At(data, a + 4)
    BY <1>3, <1>5, <1>9, <1>12
  <2> QED
    BY <1>2, <1>10, <1>14, <1>15, <2>1 DEF JoinedBytes, len, more
<1>17. ASSUME NEW a \in Nat, a < Len(data), a < Column \/ a >= Column + size
       PROVE  At(e, a) = At(data, a)
  BY <1>3, <1>9, <1>11, <1>13, <1>17
<1> QED
  BY <1>4, <1>16, <1>17 DEF size

\* A column that a step of the program leaves where and as it is.
LEMMA KeptSame ==
  ASSUME NEW c \in 1 .. Width(lump), ColumnKept(c), lump' = lump,
         data' = data, colsize' = colsize,
         \/ Combined(data, lump.cols[c])
         \/ pc' = "combine" /\ c >= x' /\ Alone(lump, c)
  PROVE  ColumnKept(c)'
BY DEF ColumnKept, Alone, Span, Width

\* The loop begins with a column.
LEMMA BeginsColumn ==
  ASSUME lump' \in Lump, data' \in Seq(Byte), x' \in 1 .. Width(lump'), i' = 0
  PROVE  Reached'
<1>1. Column' \in Nat
  BY LumpRead DEF Column
<1>2. Post' = Column'
  BY <1>1 DEF Post, Column
<1>3. PostAt(data', Column') => Column' \in Posts(data', Column')
  BY <1>1, PostsStep
<1> QED
  BY <1>2, <1>3 DEF Reached

LEMMA StartRun ==
  ASSUME FrameInv, FrameInv', NEW c \in Op, Start(c), Read(lump) => Tidy(lump)
  PROVE  RunInv'
<1> SUFFICES ASSUME pc' # "idle" PROVE RunInv'
  BY DEF RunInv
<1>1. /\ Read(lump) /\ data' = lump.data
      /\ colsize' = [c2 \in 1 .. Width(lump) |->
                       ColumnLength(lump.data, lump.cols[c2])]
      /\ x' = 1 /\ i' = 0 /\ pc' = "combine" /\ lump' = lump
  BY DEF Start, EndRun, Goto, Read
<1>2. lump \in Lump /\ lump' \in Lump /\ data' \in Seq(Byte)
  BY DEF FrameInv, TypeOK
<1>3. Tidy(lump)
  BY <1>1
<1>4. Tidy(lump')
  BY <1>1, <1>3
<1>5. ASSUME NEW b \in 1 .. Width(lump) PROVE ColumnKept(b)'
  <2>1. /\ ColumnLength(lump.data, lump.cols[b]) \in Nat
        /\ ColumnEnd(lump.data, lump.cols[b])
              = lump.cols[b] + ColumnLength(lump.data, lump.cols[b])
    BY <1>1, <1>2, LumpRead, ColumnsWithin DEF Read
  <2>2. /\ Ascends(lump.data, lump.cols[b])
        /\ Combined(lump.data, lump.cols[b]) \/ Alone(lump, b)
    BY <1>3 DEF Tidy, Alone
  <2>3. colsize'[b] = ColumnLength(lump.data, lump.cols[b])
    BY <1>1
  <2>4. Alone(lump, b) => Alone(lump', b)
    BY <1>1
  <2>5. b >= 1
    OBVIOUS
  <2> QED
    BY <1>1, <2>1, <2>2, <2>3, <2>4, <2>5 DEF ColumnKept
<1>6. x' <= Width(lump') => Reached'
  <2>1. Width(lump') \in Nat
    BY <1>2, LumpRead
  <2> QED
    BY <1>1, <1>2, <2>1, BeginsColumn
<1>7. FrontKept'
  BY <1>1 DEF FrontKept
<1> QED
  BY <1>1, <1>4, <1>5, <1>6, <1>7 DEF RunInv, Width

\* The loop goes on to the next column: this one has no posts left to join.
LEMMA NextColumnRun ==
  ASSUME FrameInv, FrameInv', RunInv, CombinePosts, At(data, Post) = Stop,
         x' = x + 1, i' = 0, data' = data, colsize' = colsize
  PROVE  RunInv'
<1>1. pc = "combine" /\ x <= Width(lump) /\ lump' = lump /\ pc' = pc
  BY DEF CombinePosts
<1>2. /\ x \in 1 .. Width(lump) /\ data \in Seq(Byte)
      /\ Column \in Nat /\ i \in Nat /\ Post < Len(data) /\ ColumnKept(x)
  BY <1>1, TurnAt
<1>3. Combined(data, Column)
  <2>1. CASE i > 0
    BY <1>1, <2>1 DEF RunInv, Reached
  <2>2. CASE i = 0
    <3>1. Post = Column
      BY <1>2, <2>2 DEF Post
    <3>2. Posts(data, Column) = {}
      BY <1>2, <3>1, PostsStep DEF PostAt
    <3> QED
      BY <3>2 DEF Combined
  <2> QED
    BY <1>2, <2>1, <2>2
<1>4. ASSUME NEW c \in 1 .. Width(lump) PROVE ColumnKept(c)'
  <2>1. ColumnKept(c)
    BY <1>1 DEF RunInv
  <2>2. \/ Combined(data, lump.cols[c])
        \/ pc' = "combine" /\ c >= x' /\ Alone(lump, c)
    <3>1. CASE c = x
      BY <1>3, <3>1 DEF Column
    <3>2. CASE c # x
      <4>1. c >= x => c >= x + 1
        BY <1>2, <3>2
      <4> QED
        BY <1>1, <2>1, <4>1 DEF ColumnKept
    <3> QED
      BY <3>1, <3>2
  <2> QED
    BY <1>1, <2>1, <2>2, KeptSame
<1>5. x' <= Width(lump') => Reached'
  <2>1. lump' \in Lump /\ data' \in Seq(Byte) /\ x' \in Nat \ {0}
    BY DEF FrameInv, TypeOK
  <2>2. Width(lump') \in Nat
    BY <2>1, LumpRead
  <2> QED
    BY <2>1, <2>2, BeginsColumn
<1>6. Tidy(lump') /\ FrontKept'
  BY <1>1 DEF RunInv, FrontKept, Width
<1> QED
  BY <1>1, <1>4, <1>5, <1>6 DEF RunInv, Width

\* The loop goes on to the next post.
LEMMA NextPostRun ==
  ASSUME FrameInv, FrameInv', RunInv, CombinePosts, At(data, Post) # Stop,
         ~(At(data, NextPost) # Stop /\ Adjacent),
         i' = NextIndex, x' = x, data' = data, colsize' = colsize
  PROVE  RunInv'
<1>1. pc = "combine" /\ x <= Width(lump) /\ lump' = lump /\ pc' = pc
  BY DEF CombinePosts
<1>2. /\ x \in 1 .. Width(lump) /\ data \in Seq(Byte)
      /\ Column \in Nat /\ i \in Nat /\ ColumnEnd(data, Column) # 0
      /\ PostAt(data, Post) /\ NextPost = After(data, Post) /\ NextPost \in Nat
      /\ ColumnEnd(data, NextPost) = ColumnEnd(data, Column)
      /\ At(data, NextPost) # Stop => NextPost \in Posts(data, Column)
      /\ ColumnKept(x)
  BY <1>1, TurnAt
<1>3. Combined(data, Column)
  <2>1. CASE i > 0
    BY <1>1, <2>1 DEF RunInv, Reached
  <2>2. CASE i = 0
    <3>1. Post = Column
      BY <1>2, <2>2 DEF Post
    <3>2. ~(At(data, After(data, Column)) # Stop /\ Follows(data, Column, After(data, Column)))
      BY <1>2, <3>1 DEF Adjacent, Follows
    <3>3. Ascends(data, Column)
      BY <1>2 DEF ColumnKept, Column
    <3> QED
      BY <1>2, <3>1, <3>2, <3>3, FirstDecides
  <2> QED
    BY <1>2, <2>1, <2>2
<1>4. ASSUME NEW c \in 1 .. Width(lump) PROVE ColumnKept(c)'
  <2>1. ColumnKept(c)
    BY <1>1 DEF RunInv
  <2>2. \/ Combined(data, lump.cols[c])
        \/ pc' = "combine" /\ c >= x' /\ Alone(lump, c)
    BY <1>1, <2>1 DEF ColumnKept
  <2> QED
    BY <1>1, <2>1, <2>2, KeptSame
<1>5. Reached'
  <2>1. Column' = Column /\ Post' = NextPost
    BY <1>1 DEF Column, Post, NextPost
  <2>2. PostAt(data, NextPost) => At(data, NextPost) # Stop
    BY DEF PostAt
  <2> QED
    BY <1>2, <1>3, <2>1, <2>2 DEF Reached
<1>6. Tidy(lump') /\ FrontKept'
  BY <1>1 DEF RunInv, FrontKept, Width
<1> QED
  BY <1>1, <1>4, <1>5, <1>6 DEF RunInv, Width

\* The loop joins two posts: the column shows the same and the others are not
\* touched.
LEMMA JoinRun ==
  ASSUME FrameInv, FrameInv', RunInv, CombinePosts, At(data, Post) # Stop,
         At(data, NextPost) # Stop, Adjacent,
         data' = Joined, colsize' = [colsize EXCEPT ![x] = @ - 4],
         i' = i, x' = x
  PROVE  RunInv'
<1>1. pc = "combine" /\ x <= Width(lump) /\ lump' = lump /\ pc' = pc
  BY DEF CombinePosts
<1>2. /\ x \in 1 .. Width(lump) /\ data \in Seq(Byte)
      /\ Column \in Nat /\ ColumnKept(x) /\ ColumnEnd(data, Column) # 0
      /\ ColumnEnd(data, Column) = Column + colsize[x] /\ colsize[x] \in Nat
      /\ PostAt(data, Post)
      /\ At(data, NextPost) # Stop
  BY <1>1, TurnAt
<1>3. /\ i = 0 /\ Post = Column /\ NextPost = After(data, Column)
      /\ Follows(data, Column, After(data, Column)) /\ Alone(lump, x)
  BY <1>1, JoinsFirst
<1>4. PICK e : e = data'
  OBVIOUS
<1>5. /\ e \in Seq(Byte) /\ Len(e) = Len(data) /\ JoinedBytes(data, Column, e)
      /\ \A a \in Nat : /\ a < Len(data)
                        /\ a < Column \/ a >= Column + colsize[x]
                        => At(e, a) = At(data, a)
  BY <1>1, <1>4, JoinMeans
<1>6. /\ ColumnEnd(e, Column) = ColumnEnd(data, Column) - 4
      /\ Ascends(e, Column) /\ Shown(e, Column) = Shown(data, Column)
  <2>1. Ascends(data, Column)
    BY <1>2 DEF ColumnKept, Column
  <2> QED
    BY <1>2, <1>3, <1>5, <2>1, JoinKeeps
<1>7. colsize \in Seq(Nat \ {0}) /\ Len(colsize) = Width(lump)
      /\ lump \in Lump /\ Begun
  BY <1>1 DEF FrameInv, TypeOK, Begun
<1>8. /\ colsize'[x] = colsize[x] - 4
      /\ \A c \in 1 .. Width(lump) : c # x => colsize'[c] = colsize[c]
  BY <1>2, <1>7
<1>9. ColumnKept(x)'
  <2>1. ColumnEnd(data', lump'.cols[x']) = lump'.cols[x'] + colsize'[x']
    BY <1>1, <1>2, <1>4, <1>6, <1>8 DEF Column
  <2>2. /\ Ascends(data', lump'.cols[x'])
        /\ Shown(data', lump'.cols[x']) = Shown(lump'.data, lump'.cols[x'])
    BY <1>1, <1>2, <1>4, <1>6 DEF Column, ColumnKept
  <2>3. colsize'[x'] <= ColumnLength(lump'.data, lump'.cols[x'])
    <3>1. ColumnLength(lump.data, lump.cols[x]) \in Nat
      BY <1>2, <1>7, LumpRead, ColumnsWithin DEF Begun, Read
    <3> QED
      BY <1>1, <1>2, <1>8, <3>1 DEF ColumnKept
  <2>4. pc' = "combine" /\ x' >= x' /\ Alone(lump', x')
    BY <1>1, <1>2, <1>3
  <2> QED
    BY <2>1, <2>2, <2>3, <2>4 DEF ColumnKept
<1>10. ASSUME NEW c \in 1 .. Width(lump), c # x PROVE ColumnKept(c)'
  <2>1. ColumnKept(c)
    BY <1>1 DEF RunInv
  <2> DEFINE a == lump.cols[c]
             n == colsize[c]
  <2>2. /\ a \in Nat /\ n \in Nat /\ n > 0 /\ a + n <= Len(data) /\ Len(data) \in Nat
    BY <1>7, ColumnsRead DEF FrameInv
  <2>3. ColumnEnd(data, a) = a + n /\ ColumnEnd(data, a) # 0 /\ Ascends(data, a)
    BY <2>1, <2>2 DEF ColumnKept
  <2>4. ASSUME NEW j \in Nat, j < n PROVE At(e, a + j) = At(data, a + j)
    <3>1. a + j < Column \/ a + j >= Column + colsize[x]
      <4>1. Span(lump, x) \cap Span(lump, c) = {}
        BY <1>3, <1>10 DEF Alone
      <4>2. a + j \in Span(lump, c)
        <5>1. n <= ColumnLength(lump.data, a) /\ ColumnLength(lump.data, a) \in Nat
          BY <1>7, <2>1, LumpRead, ColumnsWithin DEF ColumnKept, Begun, Read
        <5> HIDE DEF a, n
        <5>2. a + j \in a .. a + ColumnLength(lump.data, a) - 1
          BY <2>2, <2>4, <5>1
        <5> QED
          BY <5>2 DEF Span, a
      <4>3. /\ Column = lump.cols[x] /\ colsize[x] <= ColumnLength(lump.data, Column)
            /\ ColumnLength(lump.data, Column) \in Nat
        BY <1>2, <1>7, LumpRead, ColumnsWithin DEF Column, ColumnKept, Begun, Read
      <4>4. a + j \notin Column .. Column + ColumnLength(lump.data, Column) - 1
        BY <4>1, <4>2, <4>3 DEF Span
      <4> HIDE DEF a, n
      <4> QED
        BY <1>2, <2>2, <4>3, <4>4, SMTT(60)
    <3>2. a + j \in Nat /\ a + j < Len(data)
      <4> HIDE DEF a, n
      <4> QED
        BY <2>2, <2>4
    <3> QED
      BY <1>5, <3>1, <3>2
  <2>5. Alike(data, a, e, a)
    <3> HIDE DEF a, n
    <3>1. ColumnEnd(data, a) - a = n
      BY <2>2, <2>3
    <3> QED
      BY <1>5, <2>2, <2>3, <2>4, <3>1 DEF Alike
  <2>6. /\ ColumnEnd(e, a) = a + (ColumnEnd(data, a) - a) /\ Ascends(e, a)
        /\ Shown(e, a) = Shown(data, a)
        /\ Combined(data, a) => Combined(e, a)
    <3> HIDE DEF a, n
    <3> QED
      BY <1>2, <1>5, <2>2, <2>3, <2>5, ColumnMoved
  <2>7. ColumnEnd(e, a) = a + n
    <3> HIDE DEF a, n
    <3> QED
      BY <2>2, <2>3, <2>6
  <2>8. ColumnEnd(data', lump'.cols[c]) = lump'.cols[c] + colsize'[c]
    BY <1>1, <1>4, <1>8, <1>10, <2>7
  <2>9. /\ Ascends(data', lump'.cols[c])
        /\ Shown(data', lump'.cols[c]) = Shown(lump'.data, lump'.cols[c])
    BY <1>1, <1>4, <2>1, <2>6 DEF ColumnKept
  <2>10. colsize'[c] <= ColumnLength(lump'.data, lump'.cols[c])
    BY <1>1, <1>8, <1>10, <2>1 DEF ColumnKept
  <2>11. \/ Combined(data', lump'.cols[c])
         \/ pc' = "combine" /\ c >= x' /\ Alone(lump', c)
    BY <1>1, <1>4, <2>1, <2>6 DEF ColumnKept
  <2> QED
    BY <2>8, <2>9, <2>10, <2>11 DEF ColumnKept
<1>11. Reached'
  <2>1. lump' \in Lump /\ data' \in Seq(Byte)
    BY DEF FrameInv, TypeOK
  <2> QED
    BY <1>1, <1>2, <1>3, <2>1, BeginsColumn
<1>12. Tidy(lump') /\ FrontKept'
  <2>1. ASSUME NEW a \in Nat, a < TableEnd(Width(lump)) PROVE At(e, a) = At(data, a)
    <3>1. Read(lump) /\ Len(data) = Len(lump.data)
      BY <1>7 DEF Begun
    <3>2. /\ TableEnd(Width(lump)) \in Nat /\ Len(data) \in Nat
          /\ TableEnd(Width(lump)) <= Len(data)
      BY <1>7, <3>1, GraphicTable DEF Read
    <3>3. Column >= TableEnd(Width(lump))
      BY <1>3 DEF Alone, Column
    <3>4. a < Len(data) /\ a < Column
      BY <1>2, <2>1, <3>2, <3>3
    <3> QED
      BY <1>5, <3>4
  <2>2. FrontKept
    BY <1>1 DEF RunInv
  <2> QED
    BY <1>1, <1>4, <2>1, <2>2 DEF RunInv, FrontKept
<1>13. \A c \in 1 .. Width(lump) : ColumnKept(c)'
  BY <1>9, <1>10
<1> QED
  BY <1>1, <1>11, <1>12, <1>13 DEF RunInv, Width

\* The steps behind the loop leave the columns as they are: all are combined.
LEMMA LaterRun ==
  ASSUME FrameInv, RunInv, SortColumns \/ SortMapElements \/ BeginColumns \/ PlaceColumn
  PROVE  RunInv'
<1>1. /\ lump' = lump /\ data' = data /\ colsize' = colsize
      /\ pc' # "combine" /\ pc # "idle"
      /\ pc = "combine" => x = Width(lump) + 1
  BY DEF SortColumns, SortMapElements, BeginColumns, PlaceColumn, Goto
<1>2. ASSUME NEW c \in 1 .. Width(lump) PROVE ColumnKept(c)'
  <2>1. ColumnKept(c)
    BY <1>1 DEF RunInv
  <2>2. Combined(data, lump.cols[c])
    <3>1. Width(lump) \in Nat
      BY LumpRead DEF FrameInv, TypeOK
    <3> QED
      BY <1>1, <2>1, <3>1 DEF ColumnKept
  <2> QED
    BY <1>1, <2>1, <2>2, KeptSame
<1>3. Tidy(lump') /\ FrontKept'
  BY <1>1 DEF RunInv, FrontKept
<1> QED
  BY <1>1, <1>2, <1>3 DEF RunInv, Width
-----------------------------------------------------------------------------
(* What is kept of the lump being built *)

\* A column has its bytes there.
Placed(c) ==
  /\ newres.cols[c] + colsize[c] <= Len(newres.data)
  /\ \A j \in Nat : j < colsize[c] =>
       At(newres.data, newres.cols[c] + j) = At(data, lump.cols[c] + j)

\* The columns placed so far: each has its bytes; one that ends another is at the
\* end of the first that it ends, any other behind all there were before it; and
\* there are no bytes but theirs.
NewEnd(c) == newres.cols[c] + colsize[c]

Appended(k) ==
  /\ \A j \in 1 .. k - 1 : NewEnd(elements[j]) <= newres.cols[elements[k]]
  /\ \/ newres.cols[elements[k]] = 0
     \/ \E j \in 1 .. k - 1 : NewEnd(elements[j]) = newres.cols[elements[k]]

PlaceInv ==
  pc = "place" =>
    /\ \A k \in 1 .. x - 1 :
         /\ Placed(elements[k])
         /\ Earlier(k) # {} =>
              newres.cols[elements[k]] = SharedOffset(elements[k], elements[First(k)])
         /\ Earlier(k) = {} => Appended(k)
    /\ \A a \in Nat : a < Len(newres.data) =>
         \E k \in 1 .. x - 1 :
           newres.cols[elements[k]] <= a /\ a < NewEnd(elements[k])
    /\ \/ Len(newres.data) = 0
       \/ \E j \in 1 .. x - 1 : NewEnd(elements[j]) = Len(newres.data)

LEMMA BeginPlace == ASSUME FrameInv, BeginColumns PROVE PlaceInv'
<1>1. newres'.data = <<>> /\ x' = 1
  BY DEF BeginColumns
<1>2. 1 .. x' - 1 = {} /\ \A a \in Nat : ~(a < Len(newres'.data))
  BY <1>1
<1> QED
  BY <1>2 DEF PlaceInv

\* A column that ends an earlier one finds its bytes there.
LEMMA SharedPlaced ==
  ASSUME FrameInv, PlaceInv, PlaceColumn, NEW c, c = elements[x], Earlier(x) # {},
         newres'.data = newres.data,
         newres'.cols[c] = SharedOffset(c, elements[First(x)])
  PROVE  Placed(c)'
<1>1. /\ pc = "place" /\ x \in 1 .. Width(lump) /\ c \in 1 .. Width(lump)
      /\ colsize' = colsize /\ data' = data /\ lump' = lump
  BY PlaceMeans DEF PlaceColumn
<1>2. PICK m, b : m = First(x) /\ b = elements[m]
  OBVIOUS
<1>3. m \in 1 .. x - 1 /\ m \in 1 .. Width(lump) /\ Ends(c, b)
  <2>1. m \in Earlier(x) /\ m \in 1 .. x - 1
    BY <1>1, <1>2, EarlierIs
  <2> QED
    BY <1>1, <1>2, <2>1, EarlierIs, MapIs
<1>4. b \in 1 .. Width(lump) /\ Placed(b)
  BY <1>1, <1>2, <1>3, MapIs DEF PlaceInv
<1>5. PICK off, old, n, size : /\ off = newres'.cols[c] /\ old = newres.cols[b]
                               /\ n = colsize[c] /\ size = colsize[b]
  OBVIOUS
<1>6. off \in Nat /\ off + n = old + size /\ n <= size
  BY <1>1, <1>2, <1>5, SharedOffsetIs
<1>7. /\ n \in Nat /\ size \in Nat /\ old \in Nat
      /\ lump.cols[b] \in Nat /\ lump.cols[c] \in Nat
  BY <1>1, <1>4, <1>5, ColumnsRead, LumpRead, GraphicRead DEF FrameInv, TypeOK
<1>8. old + size <= Len(newres.data)
  BY <1>4, <1>5 DEF Placed
<1>9. ASSUME NEW j \in Nat, j < n
      PROVE  At(newres.data, off + j) = At(data, lump.cols[c] + j)
  <2>1. /\ size - n + j \in Nat /\ size - n + j < size
        /\ old + (size - n + j) = off + j
    BY <1>6, <1>7, <1>9
  <2>2. At(newres.data, off + j) = At(data, lump.cols[b] + (size - n + j))
    BY <1>4, <1>5, <2>1 DEF Placed
  <2>3. At(data, lump.cols[c] + j) = At(data, lump.cols[b] + size - n + j)
    BY <1>3, <1>5, <1>9 DEF Ends
  <2>4. lump.cols[b] + (size - n + j) = lump.cols[b] + size - n + j
    BY <1>7
  <2> QED
    BY <2>2, <2>3, <2>4
<1>10. off + n <= Len(newres'.data)
  BY <1>6, <1>8
<1> QED
  BY <1>1, <1>5, <1>9, <1>10 DEF Placed

\* A column that is appended has its bytes at the end.
LEMMA AppendedPlaced ==
  ASSUME FrameInv, PlaceColumn, NEW c, c = elements[x],
         newres'.data = newres.data \o ColumnBytes(c),
         newres'.cols[c] = Len(newres.data)
  PROVE  /\ Placed(c)'
         /\ Len(newres.data) \in Nat
         /\ Len(newres'.data) = Len(newres.data) + colsize[c]
         /\ \A a \in Nat : a < Len(newres.data) =>
              At(newres'.data, a) = At(newres.data, a)
<1>1. /\ pc = "place" /\ c \in 1 .. Width(lump)
      /\ colsize' = colsize /\ data' = data /\ lump' = lump
  BY PlaceMeans DEF PlaceColumn
<1>2. TypeOK /\ Begun
  BY <1>1 DEF FrameInv
<1>3. PICK s, t, u : s = newres.data /\ t = ColumnBytes(c) /\ u = newres'.data
  OBVIOUS
<1>4. /\ s \in Seq(Byte) /\ Len(s) \in Nat /\ t \in Seq(Byte) /\ Len(t) = colsize[c]
      /\ colsize[c] \in Nat
      /\ \A j \in Nat : j < colsize[c] => At(t, j) = At(data, lump.cols[c] + j)
  BY <1>1, <1>2, <1>3, ColumnsRead, LumpRead, GraphicRead, Reading DEF TypeOK
<1>5. /\ Len(u) = Len(s) + Len(t)
      /\ \A j \in Nat : j < Len(s) => At(u, j) = At(s, j)
      /\ \A j \in Nat : j < Len(t) => At(u, Len(s) + j) = At(t, j)
  <2>1. u = Glued(s, t)
    BY <1>3 DEF Glued
  <2> QED
    BY <1>4, <2>1, JointBytes, ZenonT(60)
<1>6. newres'.cols[c] + colsize'[c] <= Len(newres'.data)
  BY <1>1, <1>3, <1>4, <1>5
<1>7. \A j \in Nat : j < colsize'[c] =>
        At(newres'.data, newres'.cols[c] + j) = At(data', lump'.cols[c] + j)
  BY <1>1, <1>3, <1>4, <1>5
<1> QED
  BY <1>3, <1>4, <1>5, <1>6, <1>7 DEF Placed

\* The earlier columns keep their places and their bytes.
LEMMA EarlierPlaced ==
  ASSUME FrameInv, PlaceInv, PlaceColumn, NEW k \in 1 .. x - 1
  PROVE  /\ elements[k] # elements[x] /\ k \in 1 .. Width(lump)
         /\ elements[k] \in 1 .. Width(lump)
         /\ newres'.cols[elements[k]] = newres.cols[elements[k]]
         /\ newres.cols[elements[k]] + colsize[elements[k]] <= Len(newres.data)
         /\ newres.cols[elements[k]] \in Nat /\ colsize[elements[k]] \in Nat
         /\ Placed(elements[k])'
<1>1. PICK c, b : c = elements[x] /\ b = elements[k]
  OBVIOUS
<1>2. /\ pc = "place" /\ x \in 1 .. Width(lump)
      /\ colsize' = colsize /\ data' = data /\ lump' = lump
      /\ \A a \in 1 .. Width(lump) : a # c => newres'.cols[a] = newres.cols[a]
  BY <1>1, PlaceMeans DEF PlaceColumn
<1>3. k \in 1 .. Width(lump) /\ k # x
  BY <1>2, MapIs
<1>4. b # c /\ b \in 1 .. Width(lump)
  BY <1>1, <1>2, <1>3, MapIs
<1>5. newres'.cols[b] = newres.cols[b] /\ Placed(b)
  BY <1>1, <1>2, <1>4 DEF PlaceInv
<1>6. newres.cols[b] \in Nat /\ colsize[b] \in Nat
  BY <1>2, <1>4, ColumnsRead, LumpRead, GraphicRead DEF FrameInv, TypeOK
<1>7. /\ Len(newres.data) <= Len(newres'.data) /\ Len(newres.data) \in Nat
      /\ Len(newres'.data) \in Nat
      /\ \A a \in Nat : a < Len(newres.data) => At(newres'.data, a) = At(newres.data, a)
  <2>1. Len(newres.data) \in Nat
    BY LumpRead, Reading DEF FrameInv, TypeOK
  <2>2. CASE newres'.data = newres.data
    BY <2>1, <2>2
  <2>3. CASE newres'.data = newres.data \o ColumnBytes(c) /\ newres'.cols[c] = Len(newres.data)
    <3>1. colsize[c] \in Nat
      BY <1>1, <1>2, PlaceMeans, ColumnsRead DEF FrameInv
    <3>2. /\ Len(newres'.data) = Len(newres.data) + colsize[c]
          /\ \A a \in Nat : a < Len(newres.data) => At(newres'.data, a) = At(newres.data, a)
      BY <1>1, <2>3, AppendedPlaced
    <3> QED
      BY <2>1, <3>1, <3>2
  <2> QED
    BY <1>1, <2>2, <2>3, PlaceMeans
<1>8. newres.cols[b] + colsize[b] <= Len(newres.data)
  BY <1>5 DEF Placed
<1>9. newres'.cols[b] + colsize'[b] <= Len(newres'.data)
  BY <1>2, <1>5, <1>6, <1>7, <1>8
<1>10. ASSUME NEW j \in Nat, j < colsize[b]
       PROVE  At(newres'.data, newres.cols[b] + j) = At(data, lump.cols[b] + j)
  <2>1. newres.cols[b] + j \in Nat /\ newres.cols[b] + j < Len(newres.data)
    BY <1>6, <1>7, <1>8, <1>10
  <2> QED
    BY <1>5, <1>7, <1>10, <2>1 DEF Placed
<1>11. Placed(elements[k])'
  <2>1. elements'[k] = b
    BY <1>1 DEF PlaceColumn, sortvars
  <2> QED
    BY <1>2, <1>5, <1>9, <1>10, <2>1 DEF Placed
<1> QED
  BY <1>1, <1>3, <1>4, <1>5, <1>6, <1>8, <1>11

LEMMA PlaceRun ==
  ASSUME FrameInv, FrameInv', PlaceInv, PlaceColumn
  PROVE  PlaceInv'
<1>1. /\ pc = "place" /\ pc' = "place" /\ x' = x + 1
      /\ cmd' = cmd /\ colsize' = colsize /\ data' = data /\ lump' = lump
      /\ elements' = elements
  BY DEF PlaceColumn, sortvars
<1>2. PICK c : c = elements[x]
  OBVIOUS
<1>3. /\ x \in 1 .. Width(lump) /\ c \in 1 .. Width(lump) /\ Width(lump) \in Nat
      /\ \/ /\ Earlier(x) # {}
            /\ newres'.data = newres.data
            /\ newres'.cols[c] = SharedOffset(c, elements[First(x)])
         \/ /\ Earlier(x) = {}
            /\ newres'.data = newres.data \o ColumnBytes(c)
            /\ newres'.cols[c] = Len(newres.data)
  BY <1>1, <1>2, PlaceMeans, MapIs
<1>4. \A k : Earlier(k)' = Earlier(k)
  BY <1>1 DEF Earlier, ColumnBytes
<1>5. \A k : First(k)' = First(k)
  BY <1>4 DEF First
<1>6. ASSUME NEW k \in 1 .. x - 1
      PROVE  /\ Placed(elements[k])'
             /\ newres'.cols[elements[k]] = newres.cols[elements[k]]
             /\ elements[k] \in 1 .. Width(lump) /\ k \in 1 .. Width(lump)
             /\ newres.cols[elements[k]] \in Nat /\ colsize[elements[k]] \in Nat
             /\ newres.cols[elements[k]] + colsize[elements[k]] <= Len(newres.data)
  BY <1>6, EarlierPlaced
<1>7. ASSUME NEW k, k = x PROVE Placed(elements[k])'
  <2>1. Placed(c)'
    BY <1>2, <1>3, SharedPlaced, AppendedPlaced
  <2>2. elements'[k] = c
    BY <1>1, <1>2, <1>7
  <2> QED
    BY <2>1, <2>2 DEF Placed
<1>8. \A k \in 1 .. x : k \in 1 .. x - 1 \/ k = x
  BY <1>3
<1>9. \A k \in 1 .. x : Placed(elements[k])'
  <2>1. \A k \in 1 .. x - 1 : Placed(elements[k])'
    BY <1>6
  <2>2. \A k : k = x => Placed(elements[k])'
    BY <1>7
  <2> QED
    BY <1>8, <2>1, <2>2
<1>10. ASSUME NEW k \in 1 .. x, Earlier(k) # {}
       PROVE  newres'.cols[elements[k]]
                = newres'.cols[elements[First(k)]] + colsize[elements[First(k)]]
                    - colsize[elements[k]]
  <2>1. First(k) \in 1 .. x - 1 /\ k \in 1 .. Width(lump)
    <3>1. k \in 1 .. Width(lump)
      BY <1>3
    <3>2. First(k) \in 1 .. k - 1
      BY <1>1, <1>10, <3>1, EarlierIs
    <3> QED
      BY <1>3, <3>1, <3>2
  <2>2. newres'.cols[elements[First(k)]] = newres.cols[elements[First(k)]]
    BY <1>6, <2>1
  <2>3. newres'.cols[elements[k]] = SharedOffset(elements[k], elements[First(k)])
    <3>1. CASE k = x
      BY <1>2, <1>3, <1>10, <3>1
    <3>2. CASE k \in 1 .. x - 1
      BY <1>1, <1>6, <1>10, <3>2 DEF PlaceInv
    <3> QED
      BY <1>8, <3>1, <3>2
  <2> QED
    BY <2>2, <2>3 DEF SharedOffset
<1>11. Earlier(x) = {} =>
         /\ newres'.data = newres.data \o ColumnBytes(c)
         /\ newres'.cols[c] = Len(newres.data)
         /\ Len(newres.data) \in Nat /\ colsize[c] \in Nat
         /\ Len(newres'.data) = Len(newres.data) + colsize[c]
  <2> SUFFICES ASSUME Earlier(x) = {}
               PROVE  /\ newres'.data = newres.data \o ColumnBytes(c)
                      /\ newres'.cols[c] = Len(newres.data)
                      /\ Len(newres.data) \in Nat /\ colsize[c] \in Nat
                      /\ Len(newres'.data) = Len(newres.data) + colsize[c]
    OBVIOUS
  <2>2. newres'.data = newres.data \o ColumnBytes(c) /\ newres'.cols[c] = Len(newres.data)
    BY <1>3
  <2>3. Len(newres.data) \in Nat /\ Len(newres'.data) = Len(newres.data) + colsize[c]
    BY <1>2, <2>2, AppendedPlaced
  <2>4. colsize[c] \in Nat
    BY <1>1, <1>3, ColumnsRead DEF FrameInv
  <2> QED
    BY <2>2, <2>3, <2>4
<1>12. \A k \in 1 .. x - 1 : NewEnd(elements[k])' = NewEnd(elements[k])
  BY <1>1, <1>6 DEF NewEnd
<1>13. ASSUME NEW k, k = x PROVE NewEnd(elements[k])' = newres'.cols[c] + colsize[c]
  BY <1>1, <1>2, <1>13 DEF NewEnd
<1>14. ASSUME NEW k \in 1 .. x, Earlier(k) = {} PROVE Appended(k)'
  <2>1. \A j \in 1 .. k - 1 : j \in 1 .. x - 1
    BY <1>3
  <2>2. CASE k = x
    <3>1. elements'[k] = c
      BY <1>1, <1>2, <2>2
    <3>2. newres'.cols[c] = Len(newres.data)
      BY <1>11, <1>14, <2>2
    <3>3. \A j \in 1 .. k - 1 : NewEnd(elements[j])' <= Len(newres.data)
      BY <1>6, <1>12, <2>1 DEF NewEnd
    <3>4. Len(newres.data) = 0
          \/ \E j \in 1 .. k - 1 : NewEnd(elements[j])' = Len(newres.data)
      BY <1>1, <1>12, <2>2 DEF PlaceInv
    <3> QED
      BY <3>1, <3>2, <3>3, <3>4 DEF Appended
  <2>3. CASE k \in 1 .. x - 1
    <3>1. Appended(k)
      BY <1>1, <1>14, <2>3 DEF PlaceInv
    <3>2. newres'.cols[elements'[k]] = newres.cols[elements[k]]
      BY <1>1, <1>6, <2>3
    <3> QED
      BY <1>12, <2>1, <3>1, <3>2 DEF Appended
  <2> QED
    BY <1>8, <2>2, <2>3
<1>15. ASSUME NEW a \in Nat, a < Len(newres'.data)
       PROVE  \E k \in 1 .. x : /\ newres'.cols[elements'[k]] <= a
                                /\ a < NewEnd(elements[k])'
  <2>1. x \in 1 .. x /\ \A k \in 1 .. x - 1 : k \in 1 .. x
    BY <1>3
  <2>2. CASE a < Len(newres.data)
    <3>1. PICK k \in 1 .. x - 1 : /\ newres.cols[elements[k]] <= a
                                  /\ a < NewEnd(elements[k])
      BY <1>1, <1>15, <2>2 DEF PlaceInv
    <3>2. newres'.cols[elements'[k]] = newres.cols[elements[k]]
      BY <1>1, <1>6
    <3> QED
      BY <1>12, <2>1, <3>1, <3>2
  <2>3. CASE a >= Len(newres.data) /\ Earlier(x) = {}
    <3>1. newres'.cols[c] <= a /\ a < newres'.cols[c] + colsize[c]
      BY <1>11, <1>15, <2>3
    <3>2. PICK k \in 1 .. x : k = x
      BY <2>1
    <3>3. elements'[k] = c
      BY <1>1, <1>2, <3>2
    <3> QED
      BY <1>13, <3>1, <3>2, <3>3
  <2>4. CASE Earlier(x) # {}
    BY <1>3, <1>15, <2>2, <2>4
  <2>5. Len(newres.data) \in Nat
    BY LumpRead, Reading, SMTT(60) DEF FrameInv, TypeOK
  <2> QED
    BY <1>15, <2>2, <2>3, <2>4, <2>5
<1>16. Len(newres'.data) = 0
       \/ \E j \in 1 .. x : NewEnd(elements[j])' = Len(newres'.data)
  <2>1. CASE Earlier(x) = {}
    <3>1. PICK k \in 1 .. x : k = x
      BY <1>3
    <3>2. NewEnd(elements[k])' = Len(newres'.data)
      BY <1>11, <1>13, <2>1, <3>1
    <3> QED
      BY <3>2
  <2>2. CASE Earlier(x) # {}
    <3>1. Len(newres'.data) = Len(newres.data)
      BY <1>3, <2>2
    <3>2. \A j \in 1 .. x - 1 : j \in 1 .. x
      BY <1>3
    <3> QED
      BY <1>1, <1>12, <3>1, <3>2 DEF PlaceInv
  <2> QED
    BY <2>1, <2>2
<1>17. x' - 1 = x
  BY <1>1, <1>3
<1> QED
  <2>1. ASSUME NEW k \in 1 .. x
        PROVE  /\ Placed(elements[k])'
               /\ Earlier(k)' # {} =>
                    newres'.cols[elements'[k]] = SharedOffset(elements[k], elements[First(k)])'
               /\ Earlier(k)' = {} => Appended(k)'
    <3>1. Earlier(k)' = Earlier(k)
      BY <1>4
    <3>2. SharedOffset(elements[k], elements[First(k)])'
            = newres'.cols[elements[First(k)]] + colsize[elements[First(k)]]
                - colsize[elements[k]]
      BY <1>1, <1>5 DEF SharedOffset
    <3> QED
      BY <1>1, <1>9, <1>10, <1>14, <3>1, <3>2
  <2> QED
    BY <1>1, <1>15, <1>16, <1>17, <2>1 DEF PlaceInv
-----------------------------------------------------------------------------
(* What is kept from one run to the next *)

\* The columns at the end of a run, in the lump that has been built and in the
\* one that CombinePosts() has left.
\* A lump has there the bytes of a column in memory.
Holds(l, c) ==
  /\ l.cols[c] + colsize[c] <= Len(l.data)
  /\ \A j \in Nat : j < colsize[c] =>
       At(l.data, l.cols[c] + j) = At(data, lump.cols[c] + j)

LEMMA ColumnsLeft ==
  ASSUME FrameInv, RunInv, pc = "place",
         NEW l \in Graphic, Width(l) = Width(lump),
         NEW c \in 1 .. Width(lump), Holds(l, c)
  PROVE  /\ l.cols[c] \in Nat
         /\ ColumnEnd(l.data, l.cols[c]) # 0
         /\ ColumnLength(l.data, l.cols[c]) = colsize[c]
         /\ Ascends(l.data, l.cols[c])
         /\ Combined(l.data, l.cols[c])
         /\ Shown(l.data, l.cols[c]) = Shown(lump.data, lump.cols[c])
         /\ \A j \in Nat : j < colsize[c] =>
              At(l.data, l.cols[c] + j) = At(data, lump.cols[c] + j)
<1>1. PICK a, b, n : a = lump.cols[c] /\ b = l.cols[c] /\ n = colsize[c]
  OBVIOUS
<1>2. TypeOK /\ Begun
  BY DEF FrameInv
<1>3. /\ data \in Seq(Byte) /\ Len(data) \in Nat /\ a \in Nat
      /\ n \in Nat /\ n > 0 /\ a + n <= Len(data)
  BY <1>1, <1>2, ColumnsRead
<1>4. l.data \in Seq(Byte) /\ b \in Nat /\ Len(l.data) \in Nat
  BY <1>1, GraphicRead, Reading
<1>5. /\ ColumnEnd(data, a) = a + n /\ ColumnEnd(data, a) # 0 /\ Ascends(data, a)
      /\ Combined(data, a) /\ Shown(data, a) = Shown(lump.data, a)
  <2>1. ColumnKept(c)
    BY DEF RunInv
  <2> QED
    BY <1>1, <1>3, <2>1 DEF ColumnKept
<1>6. /\ b + n <= Len(l.data)
      /\ \A j \in Nat : j < n => At(l.data, b + j) = At(data, a + j)
  BY <1>1 DEF Holds
<1>7. Alike(data, a, l.data, b)
  <2>1. ColumnEnd(data, a) - a = n
    BY <1>3, <1>5
  <2> QED
    BY <1>5, <1>6, <2>1 DEF Alike
<1>8. /\ ColumnEnd(l.data, b) = b + (ColumnEnd(data, a) - a) /\ ColumnEnd(l.data, b) # 0
       /\ Ascends(l.data, b) /\ Shown(l.data, b) = Shown(data, a)
       /\ Combined(l.data, b)
  BY <1>3, <1>4, <1>5, <1>7, ColumnMoved
<1>9. ColumnLength(l.data, b) = n
  BY <1>3, <1>4, <1>5, <1>8 DEF ColumnLength
<1> QED
  BY <1>1, <1>4, <1>5, <1>6, <1>8, <1>9

\* All columns have been placed.
LEMMA AllPlaced ==
  ASSUME FrameInv, PlaceInv, pc = "place", x = Width(lump) + 1,
         NEW c \in 1 .. Width(lump)
  PROVE  Placed(c)
<1>1. PICK k \in 1 .. Width(lump) : elements[k] = c
  BY MapIs
<1>2. k \in 1 .. x - 1
  <2>1. Width(lump) \in Nat
    BY ColumnsRead DEF FrameInv
  <2> QED
    BY <2>1
<1> QED
  BY <1>1, <1>2 DEF PlaceInv

\* The lump that is built has the old header, and each column where it was placed,
\* behind the table.
LEMMA BuiltMeans ==
  ASSUME FrameInv, RunInv, PlaceInv, pc = "place", x = Width(lump) + 1,
         NewLength <= MaxLength, NEW l, l = Decoded(Built)
  PROVE  /\ l \in Lump /\ Width(l) = Width(lump) /\ l.data = Built
         /\ Length(l) = NewLength
         /\ \A a \in Nat : a < 8 => At(l.data, a) = At(data, a)
         /\ \A c \in 1 .. Width(lump) :
              /\ l.cols[c] = TableEnd(Width(lump)) + newres.cols[c]
              /\ Holds(l, c)
<1>1. PICK cols :
        cols = [c \in 1 .. Width(lump) |-> TableEnd(Width(lump)) + newres.cols[c]]
  OBVIOUS
<1>2. /\ TypeOK /\ Begun /\ Width(newres) = Width(lump) /\ newres \in Graphic
      /\ lump \in Lump /\ IsGraphic(lump) /\ FrontKept
  BY DEF FrameInv, TypeOK, Begun, Read, RunInv
<1>3. PICK w, z, d : w = Width(lump) /\ z = TableEnd(w) /\ d = Built
  OBVIOUS
<1>4. /\ w \in Nat /\ z = 8 + 4 * w /\ z \in Nat /\ w = Short(lump.data, 0)
  BY <1>2, <1>3, GraphicTable
<1>5. /\ d \in Seq(Byte) /\ Len(d) = NewLength
      /\ \A a \in Nat : a < 8 => At(d, a) = At(data, a)
      /\ \A k \in 0 .. 4 * w - 1 :
           At(d, 8 + k) = LongBytes(cols[(k + 4) \div 4])[((k + 4) % 4) + 1]
      /\ \A j \in Nat : j < Len(newres.data) => At(d, z + j) = At(newres.data, j)
  BY <1>1, <1>3, BuiltBytes
<1>6. PICK m \in Nat : /\ m = Len(newres.data) /\ NewLength = z + m
                       /\ Len(d) = z + m
  <2>1. Len(newres.data) \in Nat /\ NewLength = z + Len(newres.data)
    BY <1>2, <1>3, GraphicRead, Reading DEF NewLength
  <2> QED
    BY <1>5, <2>1
<1>7. ASSUME NEW c \in 1 .. w
      PROVE  /\ newres.cols[c] \in Nat /\ colsize[c] \in Nat /\ Placed(c)
             /\ newres.cols[c] + colsize[c] <= m
  <2>1. newres.cols[c] \in Nat /\ colsize[c] \in Nat
    BY <1>2, <1>3, GraphicRead, ColumnsRead
  <2>2. Placed(c)
    BY <1>3, AllPlaced
  <2> QED
    BY <1>6, <2>1, <2>2 DEF Placed
<1>8. ASSUME NEW c \in 1 .. w
      PROVE  cols[c] \in Nat /\ cols[c] = z + newres.cols[c] /\ cols[c] \div 65536 < 65536
  <2>1. cols[c] = z + newres.cols[c]
    BY <1>1, <1>3
  <2>2. cols[c] \in Nat /\ cols[c] <= MaxLength
    <3>1. PICK p, n : p = newres.cols[c] /\ n = colsize[c]
      OBVIOUS
    <3>2. p \in Nat /\ n \in Nat /\ p + n <= m
      BY <1>7, <3>1
    <3>3. MaxLength \in Nat /\ z + m <= MaxLength
      BY <1>6, MaxLengthAssumption
    <3>4. cols[c] = z + p /\ z \in Nat
      BY <1>4, <2>1, <3>1
    <3> QED
      BY <3>2, <3>3, <3>4
  <2>3. cols[c] \div 65536 < 65536
    BY <2>2, MaxLengthAssumption
  <2> QED
    BY <2>1, <2>2, <2>3
<1>9. Short(d, 0) = w
  <2>1. At(data, 0) = At(lump.data, 0) /\ At(data, 0 + 1) = At(lump.data, 0 + 1)
    <3>1. 0 < z /\ 0 + 1 < z /\ 0 + 1 \in Nat
      BY <1>4
    <3> QED
      BY <1>2, <1>3, <3>1 DEF FrontKept
  <2>2. At(d, 0) = At(data, 0) /\ At(d, 0 + 1) = At(data, 0 + 1)
    <3>1. 0 + 1 \in Nat /\ 0 + 1 < 8 /\ 0 < 8
      OBVIOUS
    <3> QED
      BY <1>5, <3>1
  <2> QED
    BY <1>4, <2>1, <2>2 DEF Short
<1>10. ASSUME NEW c \in 1 .. w PROVE Long(d, 4 + 4 * c) = cols[c]
  <2>1. PICK n, b : n \in Nat /\ n = cols[c] /\ b = LongBytes(n)
    BY <1>8
  <2>2. (b[1] + 256 * b[2]) + 65536 * (b[3] + 256 * b[4]) = n
    BY <1>8, <2>1, LongWritten
  <2>3. PICK a \in Nat : a = 4 + 4 * c
    BY <1>4
  <2>4. At(d, a) = b[1]
    <3>1. PICK k \in Nat : k = 4 * c - 4
      BY <1>4
    <3>2. k \in 0 .. 4 * w - 1 /\ (k + 4) \div 4 = c /\ (k + 4) % 4 = 0 /\ 8 + k = a
      BY <1>4, <2>3, <3>1
    <3> QED
      BY <1>5, <2>1, <3>2
  <2>5. At(d, a + 1) = b[2]
    <3>1. PICK k \in Nat : k = 4 * c - 3
      BY <1>4
    <3>2. k \in 0 .. 4 * w - 1 /\ (k + 4) \div 4 = c /\ (k + 4) % 4 = 1 /\ 8 + k = a + 1
      BY <1>4, <2>3, <3>1
    <3> QED
      BY <1>5, <2>1, <3>2, SMTT(60)
  <2>6. At(d, a + 2) = b[3]
    <3>1. PICK k \in Nat : k = 4 * c - 2
      BY <1>4
    <3>2. k \in 0 .. 4 * w - 1 /\ (k + 4) \div 4 = c /\ (k + 4) % 4 = 2 /\ 8 + k = a + 2
      BY <1>4, <2>3, <3>1
    <3> QED
      BY <1>5, <2>1, <3>2, SMTT(60)
  <2>7. At(d, (a + 2) + 1) = b[4]
    <3>1. PICK k \in Nat : k = 4 * c - 1
      BY <1>4
    <3>2. /\ k \in 0 .. 4 * w - 1 /\ (k + 4) \div 4 = c /\ (k + 4) % 4 = 3
          /\ 8 + k = (a + 2) + 1
      BY <1>4, <2>3, <3>1
    <3> QED
      BY <1>5, <2>1, <3>2, SMTT(60)
  <2> QED
    BY <2>1, <2>2, <2>3, <2>4, <2>5, <2>6, <2>7 DEF Long, Short
<1>11. Table(d) = cols
  <2>1. Len(d) >= 8 /\ Len(d) >= TableEnd(w)
    <3>1. Len(d) = 8 + 4 * w + m /\ TableEnd(w) = 8 + 4 * w
      BY <1>3, <1>4, <1>6
    <3> QED
      BY <1>4, <3>1, SMTT(60)
  <2>2. Table(d) = [c \in 1 .. w |-> Long(d, 4 + 4 * c)]
    BY <1>9, <2>1 DEF Table
  <2> QED
    BY <1>1, <1>3, <1>10, <2>2
<1>12. /\ l \in Lump /\ l.data = d /\ l.cols = cols
  BY <1>3, <1>5, <1>11, TableRead
<1>13. Width(l) = w /\ Length(l) = NewLength
  <2>1. Len(cols) = w
    BY <1>1, <1>3, <1>4
  <2> QED
    BY <1>6, <1>12, <2>1 DEF Width, Length
<1>14. ASSUME NEW c \in 1 .. w PROVE Holds(l, c)
  <2>1. PICK p, n : p = newres.cols[c] /\ n = colsize[c]
    OBVIOUS
  <2>2. /\ p \in Nat /\ n \in Nat /\ p + n <= m
        /\ \A j \in Nat : j < n => At(newres.data, p + j) = At(data, lump.cols[c] + j)
    BY <1>7, <2>1 DEF Placed
  <2>3. l.cols[c] = z + p /\ (z + p) + n <= Len(d)
    <3>1. l.cols[c] = z + p
      BY <1>8, <1>12, <2>1
    <3>2. p \in Nat /\ n \in Nat /\ p + n <= m
      BY <2>2
    <3>3. z \in Nat /\ Len(d) = z + m
      BY <1>4, <1>6
    <3> QED
      BY <3>1, <3>2, <3>3
  <2>4. ASSUME NEW j \in Nat, j < n
        PROVE  At(d, (z + p) + j) = At(data, lump.cols[c] + j)
    <3>1. p + j \in Nat /\ p + j < m /\ z + (p + j) = (z + p) + j
      <4>1. p \in Nat /\ n \in Nat /\ p + n <= m
        BY <2>2
      <4>2. z \in Nat
        BY <1>4
      <4> QED
        BY <2>4, <4>1, <4>2
    <3>2. At(d, z + (p + j)) = At(newres.data, p + j)
      BY <1>5, <1>6, <3>1
    <3> QED
      BY <2>2, <2>4, <3>1, <3>2
  <2> QED
    BY <1>12, <2>1, <2>3, <2>4 DEF Holds
<1> QED
  BY <1>1, <1>3, <1>5, <1>8, <1>12, <1>13, <1>14

\* The lump that is given up has its table and columns where they were.
LEMMA WorseMeans ==
  ASSUME FrameInv, RunInv, pc = "place", NEW l, l = Decoded(data)
  PROVE  /\ l \in Lump /\ Width(l) = Width(lump) /\ l.data = data
         /\ Length(l) = Length(lump) /\ l.cols = lump.cols
         /\ \A c \in 1 .. Width(lump) : Holds(l, c)
<1>1. /\ TypeOK /\ Begun /\ lump \in Lump /\ IsGraphic(lump) /\ FrontKept
      /\ data \in Seq(Byte) /\ Len(data) = Len(lump.data)
  BY DEF FrameInv, TypeOK, Begun, Read, RunInv
<1>2. Table(data) = lump.cols
  BY <1>1, SameFront DEF FrontKept
<1>3. l \in Lump /\ l.data = data /\ l.cols = lump.cols
  BY <1>1, <1>2, TableRead
<1>4. Width(l) = Width(lump) /\ Length(l) = Length(lump)
  BY <1>1, <1>3 DEF Width, Length
<1>5. \A c \in 1 .. Width(lump) : Holds(l, c)
  BY <1>1, <1>3, ColumnsRead DEF Holds
<1> QED
  BY <1>3, <1>4, <1>5

\* The columns of the lump that a run leaves, and its header.
LEMMA FinishColumns ==
  ASSUME FrameInv, RunInv, PlaceInv, Finish, NEW c \in 1 .. Width(lump)
  PROVE  /\ lump' \in Lump /\ Width(lump') = Width(lump)
         /\ lump'.cols[c] \in Nat
         /\ ColumnEnd(lump'.data, lump'.cols[c]) # 0
         /\ ColumnLength(lump'.data, lump'.cols[c]) = colsize[c]
         /\ Ascends(lump'.data, lump'.cols[c])
         /\ Combined(lump'.data, lump'.cols[c])
         /\ Shown(lump'.data, lump'.cols[c]) = Shown(lump.data, lump.cols[c])
         /\ \A j \in Nat : j < colsize[c] =>
              At(lump'.data, lump'.cols[c] + j) = At(data, lump.cols[c] + j)
<1>1. /\ pc = "place" /\ x = Width(lump) + 1 /\ lump' \in Lump
      /\ \/ Worse /\ lump' = Decoded(data)
         \/ ~Worse /\ NewLength <= MaxLength /\ lump' = Decoded(Built)
  BY FinishMeans
<1>2. PICK l \in Lump : l = lump'
  BY <1>1
<1>3. Width(l) = Width(lump) /\ Holds(l, c)
  <2>1. CASE l = Decoded(data)
    BY <1>1, <2>1, WorseMeans
  <2>2. CASE NewLength <= MaxLength /\ l = Decoded(Built)
    BY <1>1, <2>2, BuiltMeans
  <2> QED
    BY <1>1, <1>2, <2>1, <2>2
<1> QED
  BY <1>1, <1>2, <1>3, LumpRead, ColumnsLeft

LEMMA FinishWidth ==
  ASSUME FrameInv, RunInv, PlaceInv, Finish
  PROVE  Width(lump') = Width(lump)
<1>1. /\ pc = "place" /\ x = Width(lump) + 1
      /\ \/ lump' = Decoded(data)
         \/ NewLength <= MaxLength /\ lump' = Decoded(Built)
  BY FinishMeans
<1>2. PICK l : l = lump'
  OBVIOUS
<1>3. Width(l) = Width(lump)
  BY <1>1, <1>2, WorseMeans, BuiltMeans
<1> QED
  BY <1>2, <1>3

\* The first lump is rewritten with its columns as they were, or it is not
\* touched.
KeptInv ==
  IF Read(trail[1])
  THEN /\ Width(lump) = Width(trail[1]) /\ Parses(lump) /\ Tidy(lump)
       /\ \A c \in 1 .. Width(lump) :
            Shown(lump.data, lump.cols[c]) = Shown(trail[1].data, trail[1].cols[c])
  ELSE lump = trail[1] /\ pc = "idle"

LEMMA FinishKept ==
  ASSUME FrameInv, RunInv, PlaceInv, KeptInv, Finish
  PROVE  KeptInv'
<1>1. lump' \in Lump /\ EndRun(cmd, lump') /\ pc = "place"
  BY FinishMeans
<1>2. trail'[1] = trail[1]
  <2>1. PICK l \in Lump : l = lump'
    BY <1>1
  <2>2. EndRun(cmd, l) /\ cmd \in Op
    BY <1>1, <2>1 DEF FrameInv, TypeOK
  <2> QED
    BY <2>2, EndRunKeeps
<1>3. /\ Read(trail[1]) /\ Width(lump) = Width(trail[1])
      /\ \A c \in 1 .. Width(lump) :
           Shown(lump.data, lump.cols[c]) = Shown(trail[1].data, trail[1].cols[c])
  BY <1>1 DEF KeptInv
<1>4. Width(lump') = Width(lump)
  BY FinishWidth
<1>5. ASSUME NEW c \in 1 .. Width(lump)
      PROVE  /\ ColumnLength(lump'.data, lump'.cols[c]) > 0
             /\ Ascends(lump'.data, lump'.cols[c])
             /\ Combined(lump'.data, lump'.cols[c])
             /\ Shown(lump'.data, lump'.cols[c])
                  = Shown(trail[1].data, trail[1].cols[c])
  <2>1. colsize[c] > 0
    BY <1>1, ColumnsRead DEF FrameInv
  <2> QED
    BY <1>3, <2>1, FinishColumns
<1>6. Parses(lump')
  BY <1>4, <1>5 DEF Parses
<1>7. Tidy(lump')
  BY <1>4, <1>5 DEF Tidy
<1> QED
  BY <1>2, <1>3, <1>4, <1>5, <1>6, <1>7 DEF KeptInv

LEMMA OtherKept ==
  ASSUME KeptInv, lump' = lump, trail'[1] = trail[1],
         pc = "idle" /\ pc' # "idle" => Read(lump)
  PROVE  KeptInv'
<1>1. CASE Read(trail[1])
  BY <1>1 DEF KeptInv
<1>2. CASE ~Read(trail[1])
  <2>1. lump = trail[1] /\ pc = "idle"
    BY <1>2 DEF KeptInv
  <2>2. pc' = "idle"
    BY <1>2, <2>1
  <2> QED
    BY <1>2, <2>1, <2>2 DEF KeptInv
<1> QED
  BY <1>1, <1>2

GraphicInv == FrameInv /\ RunInv /\ KeptInv /\ PlaceInv

LEMMA GraphicFirst == LumpsTidy /\ Init => GraphicInv
<1> SUFFICES ASSUME LumpsTidy, Init PROVE GraphicInv
  OBVIOUS
<1>1. FrameInv
  BY FrameFirst
<1>2. pc = "idle" /\ trail[1] = lump /\ lump \in Lumps
  BY DEF Init
<1>3. RunInv /\ PlaceInv
  BY <1>2 DEF RunInv, PlaceInv
<1>4. KeptInv
  BY <1>2 DEF KeptInv, LumpsTidy, Read
<1> QED
  BY <1>1, <1>3, <1>4 DEF GraphicInv

LEMMA TidyRead == KeptInv /\ Read(lump) => Tidy(lump)
BY DEF KeptInv

LEMMA StartKeeps == ASSUME GraphicInv, NEW c \in Op, Start(c) PROVE GraphicInv'
<1>1. FrameInv /\ RunInv /\ KeptInv
  BY DEF GraphicInv
<1>2. FrameInv'
  BY <1>1, StartFrame
<1>3. RunInv'
  BY <1>1, <1>2, StartRun, TidyRead
<1>4. KeptInv'
  <2>1. CASE EndRun(c, lump)
    <3>1. lump \in Lump
      BY <1>1 DEF FrameInv, TypeOK
    <3>2. lump' = lump /\ trail'[1] = trail[1] /\ pc' = "idle"
      BY <1>1, <2>1, <3>1, EndRunKeeps
    <3> QED
      BY <1>1, <3>2, OtherKept
  <2>2. CASE Read(lump) /\ UNCHANGED <<lump, history>>
    <3>1. lump' = lump /\ trail' = trail
      BY <2>2 DEF history
    <3> QED
      BY <1>1, <2>2, <3>1, OtherKept
  <2> QED
    BY <2>1, <2>2 DEF Start, Read
<1>5. PlaceInv'
  BY DEF PlaceInv, Start, EndRun, Goto
<1> QED
  BY <1>2, <1>3, <1>4, <1>5 DEF GraphicInv

LEMMA CombineKeeps == ASSUME GraphicInv, CombinePosts PROVE GraphicInv'
<1>1. FrameInv /\ RunInv /\ KeptInv
  BY DEF GraphicInv
<1>2. FrameInv'
  BY <1>1, CombineFrame
<1>3. RunInv'
  BY <1>1, <1>2, NextColumnRun, NextPostRun, JoinRun DEF CombinePosts, IndexAfterJoin
<1>4. lump' = lump /\ trail' = trail /\ pc = "combine" /\ pc' = pc
  BY DEF CombinePosts, history
<1>5. KeptInv'
  BY <1>1, <1>4, OtherKept
<1>6. PlaceInv'
  BY <1>4 DEF PlaceInv
<1> QED
  BY <1>2, <1>3, <1>5, <1>6 DEF GraphicInv

LEMMA LaterKeeps ==
  ASSUME GraphicInv, SortColumns \/ SortMapElements \/ BeginColumns \/ PlaceColumn
  PROVE  GraphicInv'
<1>1. FrameInv /\ RunInv /\ KeptInv /\ PlaceInv
  BY DEF GraphicInv
<1>2. FrameInv'
  BY <1>1, SortColumnsFrame, SortStepFrame, BeginFrame, PlaceFrame
<1>3. RunInv'
  BY <1>1, LaterRun
<1>4. lump' = lump /\ trail' = trail /\ pc # "idle"
  BY DEF SortColumns, SortMapElements, BeginColumns, PlaceColumn, history
<1>5. KeptInv'
  BY <1>1, <1>4, OtherKept
<1>6. PlaceInv'
  <2>1. CASE SortColumns \/ SortMapElements
    <3>1. pc' # "place"
      BY <2>1 DEF SortColumns, SortMapElements, Goto
    <3> QED
      BY <3>1 DEF PlaceInv
  <2>2. CASE BeginColumns
    BY <1>1, <2>2, BeginPlace
  <2>3. CASE PlaceColumn
    BY <1>1, <1>2, <2>3, PlaceRun
  <2> QED
    BY <2>1, <2>2, <2>3
<1> QED
  BY <1>2, <1>3, <1>5, <1>6 DEF GraphicInv

LEMMA FinishKeeps == ASSUME GraphicInv, Finish PROVE GraphicInv'
<1>1. FrameInv /\ RunInv /\ KeptInv /\ PlaceInv
  BY DEF GraphicInv
<1>2. FrameInv' /\ KeptInv'
  BY <1>1, FinishFrame, FinishKept
<1>3. pc' = "idle"
  BY DEF Finish, EndRun, Goto
<1>4. RunInv' /\ PlaceInv'
  BY <1>3 DEF RunInv, PlaceInv
<1> QED
  BY <1>2, <1>4 DEF GraphicInv

LEMMA IdleKeeps == ASSUME GraphicInv, UNCHANGED vars PROVE GraphicInv'
<1>1. FrameInv /\ RunInv /\ KeptInv /\ PlaceInv
  BY DEF GraphicInv
<1>2. /\ UNCHANGED <<lump, pc, cmd, data, colsize, x, i, newres, past, trail>>
      /\ elements' = elements
  BY DEF vars, history, sortvars
<1>3. FrameInv'
  BY <1>1, IdleFrame
<1>4. KeptInv'
  BY <1>1, <1>2, OtherKept
<1>5. RunInv'
  <2>1. \A c : ColumnKept(c) => ColumnKept(c)'
    BY <1>2 DEF ColumnKept, Alone, Span, Width
  <2>2. Reached => Reached'
    BY <1>2 DEF Reached, Post, Column
  <2>3. FrontKept => FrontKept'
    BY <1>2 DEF FrontKept, Width
  <2> QED
    BY <1>1, <1>2, <2>1, <2>2, <2>3 DEF RunInv, Tidy, Span, Width
<1>6. PlaceInv'
  <2>1. \A k : Earlier(k)' = Earlier(k)
    BY <1>2 DEF Earlier, ColumnBytes
  <2>2. \A k : First(k)' = First(k)
    BY <2>1 DEF First
  <2>3. \A k : Placed(elements[k]) => Placed(elements[k])'
    BY <1>2 DEF Placed
  <2>4. \A k : SharedOffset(elements[k], elements[First(k)])'
                 = SharedOffset(elements[k], elements[First(k)])
    BY <1>2, <2>2 DEF SharedOffset
  <2>5. /\ \A k : NewEnd(elements[k])' = NewEnd(elements[k])
        /\ \A k : Appended(k)' <=> Appended(k)
    BY <1>2 DEF Appended, NewEnd
  <2> QED
    BY <1>1, <1>2, <2>1, <2>3, <2>4, <2>5 DEF PlaceInv
<1> QED
  BY <1>3, <1>4, <1>5, <1>6 DEF GraphicInv

LEMMA GraphicNext == GraphicInv /\ [Next]_vars => GraphicInv'
<1> SUFFICES ASSUME GraphicInv, [Next]_vars PROVE GraphicInv'
  OBVIOUS
<1>1. ASSUME NEW c \in Op, Start(c) PROVE GraphicInv'
  BY <1>1, StartKeeps
<1>2. CASE CombinePosts
  BY <1>2, CombineKeeps
<1>3. CASE SortColumns \/ SortMapElements \/ BeginColumns \/ PlaceColumn
  BY <1>3, LaterKeeps
<1>4. CASE Finish
  BY <1>4, FinishKeeps
<1>5. CASE Done \/ UNCHANGED vars
  BY <1>5, IdleKeeps DEF Done
<1> QED
  BY <1>1, <1>2, <1>3, <1>4, <1>5 DEF Next

LEMMA GraphicAlways == ASSUME LumpsTidy PROVE Spec => []GraphicInv
<1>1. Init => GraphicInv
  BY GraphicFirst
<1> QED
  BY <1>1, GraphicNext, PTL DEF Spec

\* Whatever the order of the columns and however they overlap: no run of squash
\* or unsquash commands loses or changes a pixel of a tidy lump, and one that
\* does not parse is left as it is.
THEOREM PictureIsKept == ASSUME LumpsTidy PROVE Spec => []PictureKept
<1>1. GraphicInv => PictureKept
  BY DEF GraphicInv, KeptInv, PictureKept, Picture, Read
<1> QED
  BY <1>1, GraphicAlways, PTL

\* CombinePosts() has no check of its own and needs none: in a tidy lump no turn
\* of its loop reads or moves a byte outside the lump.
THEOREM TurnsStayInLump == ASSUME LumpsTidy PROVE Spec => []StaysInLump
<1>1. GraphicInv => StaysInLump
  BY TurnDefined DEF GraphicInv, StaysInLump
<1> QED
  BY <1>1, GraphicAlways, PTL
-----------------------------------------------------------------------------
(* The listing *)

\* Every column that is not the last one has a next one in the order of the
\* offsets, and none behind it begins earlier.
LEMMA NextByOffset ==
  ASSUME NEW l \in Lump, NEW c \in 1 .. Width(l), NEW d \in 1 .. Width(l),
         ByOffset(l, c, d)
  PROVE  \E b \in 1 .. Width(l) :
           /\ ByOffset(l, c, b) /\ l.cols[b] <= l.cols[d]
           /\ ~ \E e \in 1 .. Width(l) : ByOffset(l, c, e) /\ ByOffset(l, e, b)
<1>1. Width(l) \in Nat /\ \A e \in 1 .. Width(l) : l.cols[e] \in Nat
  BY LumpRead
<1> DEFINE S == {e \in 1 .. Width(l) : ByOffset(l, c, e)}
           M == {l.cols[e] : e \in S}
<1>2. PICK m \in M : \A n \in M : m <= n
  <2>1. M \subseteq Nat /\ M # {}
    BY <1>1
  <2> HIDE DEF M
  <2> QED
    BY <2>1, LeastNumber
<1> DEFINE T == {e \in S : l.cols[e] = m}
<1>3. PICK b \in T : \A e \in T : b <= e
  <2>1. T \subseteq Nat /\ T # {}
    BY <1>1, <1>2
  <2> HIDE DEF T
  <2> QED
    BY <2>1, LeastNumber
<1>4. b \in 1 .. Width(l) /\ ByOffset(l, c, b) /\ l.cols[b] = m
  BY <1>3
<1>5. l.cols[b] <= l.cols[d]
  BY <1>2, <1>4
<1>6. ASSUME NEW e \in 1 .. Width(l), ByOffset(l, c, e), ByOffset(l, e, b)
      PROVE  FALSE
  <2>1. e \in S /\ m <= l.cols[e]
    BY <1>2, <1>6
  <2>2. l.cols[e] \in Nat /\ m \in Nat
    BY <1>1, <1>4
  <2>3. l.cols[e] = m /\ e < b
    BY <1>4, <1>6, <2>1, <2>2 DEF ByOffset
  <2>4. b <= e
    BY <1>3, <2>1, <2>3
  <2> QED
    BY <1>4, <2>3, <2>4
<1> QED
  BY <1>4, <1>5, <1>6

LEMMA ListsRight ==
  ASSUME NEW l \in Lump, Parses(l)
  PROVE  IsSquashed(l) <=>
           \E c, d \in 1 .. Width(l) : c # d /\ Span(l, c) \cap Span(l, d) # {}
<1>1. ASSUME NEW c \in 1 .. Width(l)
      PROVE  /\ l.cols[c] \in Nat /\ ColumnLength(l.data, l.cols[c]) \in Nat
             /\ l.cols[c] \in Span(l, c)
             /\ \A a : a \in Span(l, c) <=>
                  /\ a \in Int /\ l.cols[c] <= a
                  /\ a < l.cols[c] + ColumnLength(l.data, l.cols[c])
  <2>1. l.cols[c] \in Nat /\ ColumnLength(l.data, l.cols[c]) \in Nat \ {0}
    BY LumpRead, ColumnsWithin
  <2> QED
    BY <2>1 DEF Span
<1>2. ASSUME NEW a \in 1 .. Width(l), NEW b \in 1 .. Width(l),
             ByOffset(l, a, b), l.cols[b] \in Span(l, a)
      PROVE  \E c, d \in 1 .. Width(l) : c # d /\ Span(l, c) \cap Span(l, d) # {}
  <2>1. a # b
    BY <1>1, <1>2 DEF ByOffset
  <2>2. l.cols[b] \in Span(l, b)
    BY <1>1
  <2> QED
    BY <1>2, <2>1, <2>2
<1>3. ASSUME NEW c \in 1 .. Width(l), NEW d \in 1 .. Width(l),
             ByOffset(l, c, d), Span(l, c) \cap Span(l, d) # {}
      PROVE  IsSquashed(l)
  <2>1. PICK a : a \in Span(l, c) /\ a \in Span(l, d)
    BY <1>3
  <2>2. PICK b \in 1 .. Width(l) :
           /\ ByOffset(l, c, b) /\ l.cols[b] <= l.cols[d]
           /\ ~ \E e \in 1 .. Width(l) : ByOffset(l, c, e) /\ ByOffset(l, e, b)
    BY <1>3, NextByOffset
  <2>3. l.cols[b] \in Span(l, c)
    <3>1. /\ a \in Int /\ l.cols[d] <= a
          /\ a < l.cols[c] + ColumnLength(l.data, l.cols[c])
      BY <1>1, <2>1
    <3>2. l.cols[b] \in Nat /\ l.cols[c] \in Nat /\ l.cols[d] \in Nat
          /\ ColumnLength(l.data, l.cols[c]) \in Nat
      BY <1>1
    <3>3. l.cols[c] <= l.cols[b]
      BY <2>2, <3>2 DEF ByOffset
    <3>4. l.cols[b] \in Int /\ l.cols[b] < l.cols[c] + ColumnLength(l.data, l.cols[c])
      BY <2>2, <3>1, <3>2
    <3> QED
      BY <1>1, <3>3, <3>4
  <2> QED
    BY <2>2, <2>3 DEF IsSquashed
<1>4. ASSUME NEW c \in 1 .. Width(l), NEW d \in 1 .. Width(l), c # d
      PROVE  ByOffset(l, c, d) \/ ByOffset(l, d, c)
  <2>1. l.cols[c] \in Nat /\ l.cols[d] \in Nat /\ c \in Int /\ d \in Int
    BY <1>1
  <2> QED
    BY <1>4, <2>1 DEF ByOffset
<1>5. ASSUME NEW c \in 1 .. Width(l), NEW d \in 1 .. Width(l), c # d,
             Span(l, c) \cap Span(l, d) # {}
      PROVE  IsSquashed(l)
  <2>1. Span(l, d) \cap Span(l, c) # {}
    BY <1>5
  <2> QED
    BY <1>3, <1>4, <1>5, <2>1
<1>6. IsSquashed(l) => \E a, b \in 1 .. Width(l) : ByOffset(l, a, b) /\ l.cols[b] \in Span(l, a)
  BY DEF IsSquashed
<1> QED
  BY <1>2, <1>5, <1>6

\* Whatever the lump, and though only neighbours are compared: the listing calls
\* a graphic squashed exactly when two of its columns share a byte.
THEOREM SquashedIsListed == Spec => []ListedRight
<1>1. FrameInv => ListedRight
  BY ListsRight DEF FrameInv, TypeOK, ListedRight
<1> QED
  BY <1>1, FrameFirst, FrameNext, PTL DEF Spec
-----------------------------------------------------------------------------
(* What the last run did *)

\* A run that is not one of squash or unsquash on a graphic has not ended with
\* the last step.
LEMMA EndedNow ==
  ASSUME FrameInv, NEW op \in Op, [Next]_vars, Ended(op)'
  PROVE  \/ Finish /\ cmd = op
         \/ UNCHANGED vars
<1>1. pc' = "idle"
  BY DEF Ended
<1>2. CASE Finish
  <2>1. EndRun(cmd, lump') /\ lump' \in Lump /\ cmd \in Op
    BY <1>2, FinishMeans DEF FrameInv, TypeOK
  <2>2. PICK l \in Lump : l = lump'
    BY <2>1
  <2>3. past' \in Seq(Op) /\ past'[Len(past')] = cmd
    BY <2>1, <2>2, EndRunKeeps
  <2>4. Last(past') = op
    BY DEF Ended
  <2> QED
    BY <1>2, <2>3, <2>4 DEF Last
<1>3. ASSUME NEW c \in Op, Start(c) PROVE FALSE
  <2>1. EndRun(c, lump) /\ ~Read(lump)
    BY <1>1, <1>3 DEF Start, Goto, Read
  <2>2. lump \in Lump
    BY DEF FrameInv, TypeOK
  <2>3. trail'[Len(past')] = lump
    BY <2>1, <2>2, EndRunKeeps
  <2> QED
    BY <2>1, <2>3 DEF Ended, Read
<1>4. CASE CombinePosts \/ SortColumns \/ SortMapElements \/ BeginColumns \/ PlaceColumn
  BY <1>1, <1>4 DEF CombinePosts, SortColumns, SortMapElements, BeginColumns, PlaceColumn, Goto
<1> QED
  BY <1>2, <1>3, <1>4 DEF Next, Done

\* The columns that share bytes in a squashed lump.
LEMMA Squashes ==
  ASSUME FrameInv, RunInv, PlaceInv, Finish, ~Worse, cmd = "squash",
         NEW c \in 1 .. Width(lump), NEW d \in 1 .. Width(lump), c # d,
         Ends(c, d)
  PROVE  \E e \in 1 .. Width(lump) \ {c} :
           /\ newres.cols[e] <= newres.cols[c]
           /\ newres.cols[c] + colsize[c] <= newres.cols[e] + colsize[e]
<1>1. pc = "place" /\ x = Width(lump) + 1 /\ TypeOK /\ Begun
  BY DEF Finish, FrameInv
<1>2. /\ Width(lump) \in Nat
      /\ \A a \in 1 .. Width(lump) :
           newres.cols[a] \in Nat /\ colsize[a] \in Nat /\ lump.cols[a] \in Nat
  BY <1>1, LumpRead, GraphicRead, ColumnsRead DEF FrameInv, TypeOK
<1>3. PICK k \in 1 .. Width(lump), j \in 1 .. Width(lump) :
        elements[k] = c /\ elements[j] = d
  BY <1>1, MapIs
<1>4. k # j /\ k \in 1 .. x - 1 /\ j \in 1 .. x - 1
  BY <1>1, <1>2, <1>3
<1>5. ASSUME Earlier(k) # {}
      PROVE  \E e \in 1 .. Width(lump) \ {c} :
               /\ newres.cols[e] <= newres.cols[c]
               /\ newres.cols[c] + colsize[c] <= newres.cols[e] + colsize[e]
  <2>1. PICK e : e = elements[First(k)]
    OBVIOUS
  <2>2. First(k) \in 1 .. k - 1
    BY <1>1, <1>5, EarlierIs
  <2>3. First(k) \in 1 .. Width(lump) /\ First(k) # k
    BY <1>2, <2>2
  <2>4. e \in 1 .. Width(lump) /\ e # c
    BY <1>1, <1>3, <2>1, <2>3, MapIs
  <2>5. newres.cols[c] = SharedOffset(c, e)
    BY <1>1, <1>3, <1>4, <1>5, <2>1 DEF PlaceInv
  <2>6. /\ SharedOffset(c, e) + colsize[c] = newres.cols[e] + colsize[e]
        /\ colsize[c] <= colsize[e]
    BY <1>1, <1>3, <1>5, <2>1, SharedOffsetIs
  <2>7. newres.cols[e] <= newres.cols[c]
        /\ newres.cols[c] + colsize[c] <= newres.cols[e] + colsize[e]
    BY <1>2, <2>4, <2>5, <2>6
  <2> QED
    BY <2>4, <2>7
<1>6. CASE j < k
  <2>1. j \in 1 .. k - 1
    BY <1>2, <1>6
  <2>2. j \in Earlier(k)
    BY <1>1, <1>3, <2>1, EarlierIs
  <2> QED
    BY <1>5, <2>2
<1>7. CASE k < j
  <2>1. colsize[d] <= colsize[c]
    BY <1>1, <1>3, <1>7, MapIs
  <2>2. colsize[c] = colsize[d]
    BY <1>2, <2>1 DEF Ends
  <2>3. \A i0 \in Nat : i0 < colsize[c] =>
          At(data, lump.cols[c] + i0) = At(data, lump.cols[d] + i0)
    <3>1. lump.cols[d] + colsize[d] - colsize[c] = lump.cols[d]
      BY <1>2, <2>2
    <3> QED
      BY <3>1 DEF Ends
  <2>4. Ends(d, c)
    <3>1. lump.cols[c] + colsize[c] - colsize[d] = lump.cols[c]
      BY <1>2, <2>2
    <3> QED
      BY <2>1, <2>2, <2>3, <3>1 DEF Ends
  <2>5. k \in 1 .. j - 1
    BY <1>2, <1>7
  <2>6. k \in Earlier(j)
    BY <1>1, <1>3, <2>4, <2>5, EarlierIs
  <2>7. /\ First(j) \in 1 .. j - 1 /\ First(j) <= k
        /\ Ends(d, elements[First(j)])
    BY <1>1, <1>3, <2>6, EarlierIs
  <2>8. CASE First(j) = k
    <3>1. newres.cols[d] = SharedOffset(d, c)
      BY <1>1, <1>3, <1>4, <2>6, <2>8 DEF PlaceInv
    <3>2. SharedOffset(d, c) + colsize[d] = newres.cols[c] + colsize[c]
      BY <1>1, <1>3, <2>6, <2>8, SharedOffsetIs
    <3>3. newres.cols[d] = newres.cols[c]
      BY <1>2, <2>2, <3>1, <3>2
    <3>4. newres.cols[d] <= newres.cols[c]
          /\ newres.cols[c] + colsize[c] <= newres.cols[d] + colsize[d]
      BY <1>2, <2>2, <3>3
    <3> QED
      BY <3>4
  <2>9. CASE First(j) # k
    <3>1. PICK m \in Nat : m = First(j)
      BY <2>7
    <3>2. m \in 1 .. k - 1
      BY <1>2, <2>7, <2>9, <3>1
    <3>3. Ends(c, elements[m])
      BY <2>2, <2>3, <2>7, <3>1 DEF Ends
    <3>4. m \in Earlier(k)
      BY <1>1, <1>3, <3>2, <3>3, EarlierIs
    <3> QED
      BY <1>5, <3>4
  <2> QED
    BY <2>8, <2>9
<1> QED
  BY <1>2, <1>4, <1>6, <1>7

LEMMA FinishText ==
  ASSUME FrameInv, RunInv, PlaceInv, Finish, NEW c \in 1 .. Width(lump)
  PROVE  /\ Text(lump', c) \in Seq(Byte) /\ Len(Text(lump', c)) = colsize[c]
         /\ \A j \in Nat : j < colsize[c] =>
              At(Text(lump', c), j) = At(data, lump.cols[c] + j)
<1>1. PICK l \in Lump : l = lump'
  BY FinishColumns
<1>2. PICK b, n, s : b = l.cols[c] /\ n = colsize[c] /\ s = Text(l, c)
  OBVIOUS
<1>3. /\ b \in Nat /\ ColumnEnd(l.data, b) # 0 /\ ColumnLength(l.data, b) = n
      /\ \A j \in Nat : j < n => At(l.data, b + j) = At(data, lump.cols[c] + j)
  BY <1>1, <1>2, FinishColumns
<1>4. l.data \in Seq(Byte) /\ n \in Nat /\ Len(l.data) \in Nat
  BY <1>1, <1>2, LumpRead, ColumnsRead, Reading DEF FrameInv, Finish
<1>5. b + n <= Len(l.data)
  <2>1. ColumnEnd(l.data, b) \in Nat /\ ColumnEnd(l.data, b) <= Len(l.data)
    BY <1>3, <1>4, EndWithin
  <2>2. ColumnEnd(l.data, b) - b = n
    BY <1>3 DEF ColumnLength
  <2> QED
    BY <1>3, <1>4, <2>1, <2>2
<1>6. /\ s \in Seq(Byte) /\ Len(s) = n
      /\ \A j \in 1 .. n : s[j] = l.data[b + j]
  <2>1. s = Bytes(l.data, b, n)
    BY <1>2, <1>3 DEF Text
  <2> QED
    BY <1>3, <1>4, <1>5, <2>1, BytesMean, ZenonT(60)
<1>7. ASSUME NEW j \in Nat, j < n PROVE At(s, j) = At(data, lump.cols[c] + j)
  <2>1. j + 1 \in 1 .. n /\ b + (j + 1) = b + j + 1
    BY <1>3, <1>4, <1>7
  <2>2. s[j + 1] = l.data[b + (j + 1)]
    BY <1>6, <2>1
  <2>3. At(s, j) = At(l.data, b + j)
    BY <2>1, <2>2 DEF At
  <2> QED
    BY <1>3, <1>7, <2>3
<1> QED
  BY <1>1, <1>2, <1>6, <1>7

\* A lump that is kept for being no larger stays no larger.
LEMMA WorseStays == ASSUME FrameInv, RunInv, Finish, Worse PROVE Worse'
<1>1. /\ pc = "place" /\ lump' = Decoded(data) /\ newres' = newres /\ cmd' = cmd
  BY FinishMeans
<1>2. PICK l : l = lump'
  OBVIOUS
<1>3. Width(l) = Width(lump) /\ Length(l) = Length(lump)
  BY <1>1, <1>2, WorseMeans
<1>4. NewLength' = NewLength
  BY <1>1, <1>2, <1>3 DEF NewLength
<1> QED
  BY <1>1, <1>2, <1>3, <1>4 DEF Worse

LEMMA FinishSquashed ==
  ASSUME GraphicInv, Finish, cmd = "squash", ~Worse,
         NEW c \in 1 .. Width(lump'), NEW d \in 1 .. Width(lump'), c # d,
         IsSuffix(Text(lump', c), Text(lump', d))
  PROVE  \E e \in 1 .. Width(lump') \ {c} : Span(lump', c) \subseteq Span(lump', e)
<1>1. /\ FrameInv /\ RunInv /\ PlaceInv /\ pc = "place" /\ TypeOK /\ Begun
      /\ Width(lump') = Width(lump)
      /\ \A a \in 1 .. Width(lump) :
           lump'.cols[a] = TableEnd(Width(lump)) + newres.cols[a]
  <2>1. /\ FrameInv /\ RunInv /\ PlaceInv /\ pc = "place" /\ x = Width(lump) + 1
        /\ TypeOK /\ Begun /\ NewLength <= MaxLength /\ lump' = Decoded(Built)
    BY FinishMeans DEF GraphicInv, FrameInv
  <2>2. PICK l : l = lump'
    OBVIOUS
  <2>3. /\ Width(l) = Width(lump)
        /\ \A a \in 1 .. Width(lump) : l.cols[a] = TableEnd(Width(lump)) + newres.cols[a]
    BY <2>1, <2>2, BuiltMeans
  <2> QED
    BY <2>1, <2>2, <2>3
<1>2. c \in 1 .. Width(lump) /\ d \in 1 .. Width(lump)
  BY <1>1
<1>3. Ends(c, d)
  <2>1. PICK s, t : s = Text(lump', c) /\ t = Text(lump', d)
    OBVIOUS
  <2>2. /\ s \in Seq(Byte) /\ Len(s) = colsize[c]
        /\ t \in Seq(Byte) /\ Len(t) = colsize[d]
        /\ \A j \in Nat : j < colsize[c] => At(s, j) = At(data, lump.cols[c] + j)
        /\ \A j \in Nat : j < colsize[d] => At(t, j) = At(data, lump.cols[d] + j)
    BY <1>1, <1>2, <2>1, FinishText
  <2>3. IsSuffix(s, t)
    BY <2>1
  <2> QED
    BY <1>1, <1>2, <2>2, <2>3, SuffixEnds
<1>4. PICK e \in 1 .. Width(lump) \ {c} :
         /\ newres.cols[e] <= newres.cols[c]
         /\ newres.cols[c] + colsize[c] <= newres.cols[e] + colsize[e]
  BY <1>1, <1>2, <1>3, Squashes
<1>0. PICK z \in Nat : z = TableEnd(Width(lump))
  <2>1. Width(lump) \in Nat
    BY <1>1, ColumnsRead
  <2> QED
    BY <2>1 DEF TableEnd
<1>5. \A a \in 1 .. Width(lump) :
        /\ newres.cols[a] \in Nat /\ colsize[a] \in Nat
        /\ Span(lump', a) = z + newres.cols[a] .. z + newres.cols[a] + colsize[a] - 1
  <2>1. ASSUME NEW a \in 1 .. Width(lump)
        PROVE  /\ newres.cols[a] \in Nat /\ colsize[a] \in Nat
               /\ Span(lump', a) = z + newres.cols[a] .. z + newres.cols[a] + colsize[a] - 1
    <3>1. newres.cols[a] \in Nat /\ colsize[a] \in Nat
      BY <1>1, GraphicRead, ColumnsRead DEF FrameInv, TypeOK
    <3>2. ColumnLength(lump'.data, lump'.cols[a]) = colsize[a]
      BY <1>1, FinishColumns
    <3>3. lump'.cols[a] = z + newres.cols[a]
      BY <1>0, <1>1
    <3> QED
      BY <3>1, <3>2, <3>3 DEF Span
  <2> QED
    BY <2>1
<1>6. Span(lump', c) \subseteq Span(lump', e)
  <2>1. ASSUME NEW a \in Span(lump', c) PROVE a \in Span(lump', e)
    <3>1. /\ newres.cols[c] \in Nat /\ colsize[c] \in Nat
          /\ newres.cols[e] \in Nat /\ colsize[e] \in Nat
          /\ a \in z + newres.cols[c] .. z + newres.cols[c] + colsize[c] - 1
      BY <1>2, <1>5
    <3>2. a \in z + newres.cols[e] .. z + newres.cols[e] + colsize[e] - 1
      BY <1>0, <1>4, <3>1
    <3> QED
      BY <1>5, <3>2
  <2> QED
    BY <2>1
<1> QED
  BY <1>1, <1>6

LEMMA FinishUnsquashed ==
  ASSUME GraphicInv, Finish, cmd = "unsquash",
         NEW at \in TableEnd(Width(lump')) .. Length(lump') - 1
  PROVE  Cardinality({c \in 1 .. Width(lump') : at \in Span(lump', c)}) = 1
<1>1. /\ FrameInv /\ RunInv /\ PlaceInv /\ pc = "place" /\ TypeOK /\ Begun
      /\ Width(lump') = Width(lump) /\ x = Width(lump) + 1
      /\ Length(lump') = NewLength
      /\ \A c \in 1 .. Width(lump) :
           lump'.cols[c] = TableEnd(Width(lump)) + newres.cols[c]
  <2>1. ~Worse
    BY DEF Worse
  <2>2. /\ FrameInv /\ RunInv /\ PlaceInv /\ pc = "place" /\ x = Width(lump) + 1
        /\ TypeOK /\ Begun /\ NewLength <= MaxLength /\ lump' = Decoded(Built)
    BY <2>1, FinishMeans DEF GraphicInv, FrameInv
  <2>3. PICK l : l = lump'
    OBVIOUS
  <2>4. /\ Width(l) = Width(lump) /\ Length(l) = NewLength
        /\ \A c \in 1 .. Width(lump) : l.cols[c] = TableEnd(Width(lump)) + newres.cols[c]
    BY <2>2, <2>3, BuiltMeans
  <2> QED
    BY <2>2, <2>3, <2>4
<1>2. Width(lump) \in Nat /\ x - 1 = Width(lump)
  BY <1>1, ColumnsRead
<1>0. PICK z \in Nat : z = TableEnd(Width(lump))
  BY <1>2 DEF TableEnd
<1>4. PICK a \in Nat : at = z + a /\ a < Len(newres.data)
  <2>1. Len(newres.data) \in Nat
    BY <1>1, GraphicRead, Reading DEF TypeOK
  <2>2. NewLength = z + Len(newres.data)
    BY <1>0 DEF NewLength
  <2>3. at \in z .. z + Len(newres.data) - 1
    BY <1>0, <1>1, <2>2
  <2>4. at - z \in Nat /\ at = z + (at - z) /\ at - z < Len(newres.data)
    BY <2>1, <2>3
  <2> QED
    BY <2>4
<1>3. \A c \in 1 .. Width(lump) :
        /\ newres.cols[c] \in Nat /\ colsize[c] \in Nat
        /\ at \in Span(lump', c) <=> a \in newres.cols[c] .. newres.cols[c] + colsize[c] - 1
  <2>1. ASSUME NEW c \in 1 .. Width(lump)
        PROVE  /\ newres.cols[c] \in Nat /\ colsize[c] \in Nat
               /\ at \in Span(lump', c)
                    <=> a \in newres.cols[c] .. newres.cols[c] + colsize[c] - 1
    <3>1. PICK p, n : p = newres.cols[c] /\ n = colsize[c]
      OBVIOUS
    <3>2. p \in Nat /\ n \in Nat
      BY <1>1, <3>1, GraphicRead, ColumnsRead DEF FrameInv, TypeOK
    <3>3. ColumnLength(lump'.data, lump'.cols[c]) = n
      BY <1>1, <3>1, FinishColumns
    <3>4. lump'.cols[c] = z + p
      BY <1>0, <1>1, <3>1
    <3>5. Span(lump', c) = z + p .. z + p + n - 1
      BY <3>3, <3>4 DEF Span
    <3>6. at \in Span(lump', c) <=> a \in p .. p + n - 1
      BY <1>4, <3>2, <3>5
    <3> QED
      BY <3>1, <3>2, <3>6
  <2> QED
    BY <2>1
<1>5. PICK k \in 1 .. Width(lump) : /\ newres.cols[elements[k]] <= a
                                    /\ a < newres.cols[elements[k]] + colsize[elements[k]]
  BY <1>1, <1>2, <1>4 DEF PlaceInv, NewEnd
<1>6. elements[k] \in 1 .. Width(lump) /\ at \in Span(lump', elements[k])
  <2>1. elements[k] \in 1 .. Width(lump)
    BY <1>1, MapIs
  <2>2. PICK b, n : b = newres.cols[elements[k]] /\ n = colsize[elements[k]]
    OBVIOUS
  <2>3. a \in b .. b + n - 1
    BY <1>3, <1>4, <1>5, <2>1, <2>2
  <2> QED
    BY <1>3, <2>1, <2>2, <2>3
<1>7. ASSUME NEW c \in 1 .. Width(lump), at \in Span(lump', c)
      PROVE  c = elements[k]
  <2>1. PICK j \in 1 .. Width(lump) : elements[j] = c
    BY <1>1, MapIs
  <2>2. PICK b, n, p, m : /\ b = newres.cols[elements[k]] /\ n = colsize[elements[k]]
                          /\ p = newres.cols[elements[j]] /\ m = colsize[elements[j]]
    OBVIOUS
  <2>3. /\ b \in Nat /\ n \in Nat /\ p \in Nat /\ m \in Nat
        /\ b <= a /\ a < b + n /\ p <= a /\ a < p + m
    <3>1. a \in p .. p + m - 1 /\ p \in Nat /\ m \in Nat
      BY <1>3, <1>7, <2>1, <2>2
    <3>2. b \in Nat /\ n \in Nat
      BY <1>3, <1>6, <2>2
    <3>3. b <= a /\ a < b + n
      BY <1>5, <2>2
    <3> QED
      BY <1>4, <3>1, <3>2, <3>3
  <2>4. CASE j < k
    <3>1. p + m <= b
      <4>1. j \in 1 .. k - 1
        BY <1>2, <2>4
      <4>2. Appended(k)
        BY <1>1, <1>2 DEF PlaceInv, Earlier
      <4> QED
        BY <2>2, <4>1, <4>2 DEF Appended, NewEnd
    <3> QED
      BY <1>4, <2>3, <3>1
  <2>5. CASE k < j
    <3>1. b + n <= p
      <4>1. k \in 1 .. j - 1
        BY <1>2, <2>5
      <4>2. Appended(j)
        BY <1>1, <1>2 DEF PlaceInv, Earlier
      <4> QED
        BY <2>2, <4>1, <4>2 DEF Appended, NewEnd
    <3> QED
      BY <1>4, <2>3, <3>1
  <2>6. CASE j = k
    BY <2>1, <2>6
  <2> QED
    BY <1>2, <2>4, <2>5, <2>6
<1>8. PICK S : S = {c \in 1 .. Width(lump') : at \in Span(lump', c)}
  OBVIOUS
<1>9. S = {elements[k]}
  BY <1>1, <1>6, <1>7, <1>8
<1>10. Cardinality(S) = 1
  BY <1>9, FS_Singleton
<1> QED
  BY <1>8, <1>10

LEMMA SameEnd ==
  ASSUME UNCHANGED vars
  PROVE  /\ FullySquashed => FullySquashed'
         /\ FullyUnsquashed => FullyUnsquashed'
<1>1. UNCHANGED <<lump, pc, cmd, newres, past, trail>>
  BY DEF vars, history
<1>2. Ended("squash")' <=> Ended("squash")
  BY <1>1 DEF Ended
<1>3. Ended("unsquash")' <=> Ended("unsquash")
  BY <1>1 DEF Ended
<1>4. Worse' <=> Worse
  BY <1>1 DEF Worse, NewLength, Length, Width
<1> QED
  BY <1>1, <1>2, <1>3, <1>4 DEF FullySquashed, FullyUnsquashed, Length

\* No column of a squashed lump has bytes of its own that end another column,
\* though each is compared only with those before it in the sorted map and takes
\* the place of the first that will do.
THEOREM SquashedFully == ASSUME LumpsTidy PROVE Spec => []FullySquashed
<1>1. Init => FullySquashed
  BY DEF Init, FullySquashed, Ended
<1>2. GraphicInv /\ FullySquashed /\ [Next]_vars => FullySquashed'
  <2> SUFFICES ASSUME GraphicInv, FullySquashed, [Next]_vars,
                      Ended("squash")', ~Worse'
               PROVE  FullySquashed'
    BY DEF FullySquashed
  <2>1. CASE Finish /\ cmd = "squash"
    <3>1. ~Worse
      BY <2>1, WorseStays DEF GraphicInv
    <3>2. \A c, d \in 1 .. Width(lump') :
            c # d /\ IsSuffix(Text(lump', c), Text(lump', d))
              => \E e \in 1 .. Width(lump') \ {c} :
                   Span(lump', c) \subseteq Span(lump', e)
      BY <2>1, <3>1, FinishSquashed
    <3> QED
      BY <3>2 DEF FullySquashed
  <2>2. CASE UNCHANGED vars
    BY <2>2, SameEnd
  <2>3. "squash" \in Op
    BY DEF Op
  <2> QED
    BY <2>1, <2>2, <2>3, EndedNow DEF GraphicInv
<1> QED
  BY <1>1, <1>2, GraphicAlways, PTL DEF Spec

\* Every byte behind the table of an unsquashed lump belongs to one column.
THEOREM UnsquashedFully == ASSUME LumpsTidy PROVE Spec => []FullyUnsquashed
<1>1. Init => FullyUnsquashed
  BY DEF Init, FullyUnsquashed, Ended
<1>2. GraphicInv /\ FullyUnsquashed /\ [Next]_vars => FullyUnsquashed'
  <2> SUFFICES ASSUME GraphicInv, FullyUnsquashed, [Next]_vars, Ended("unsquash")'
               PROVE  FullyUnsquashed'
    BY DEF FullyUnsquashed
  <2>1. CASE Finish /\ cmd = "unsquash"
    <3>1. \A a \in TableEnd(Width(lump')) .. Length(lump') - 1 :
            Cardinality({c \in 1 .. Width(lump') : a \in Span(lump', c)}) = 1
      BY <2>1, FinishUnsquashed
    <3> QED
      BY <3>1 DEF FullyUnsquashed, Length
  <2>2. CASE UNCHANGED vars
    BY <2>2, SameEnd
  <2>3. "unsquash" \in Op
    BY DEF Op
  <2> QED
    BY <2>1, <2>2, <2>3, EndedNow DEF GraphicInv
<1> QED
  BY <1>1, <1>2, GraphicAlways, PTL DEF Spec
-----------------------------------------------------------------------------
(* What a lump is that the program has made *)

Size(l, c) == ColumnLength(l.data, l.cols[c])
End(l, c) == l.cols[c] + Size(l, c)

\* The same columns, wherever they are.
SameColumns(l, r) ==
  /\ Width(r) = Width(l)
  /\ \A c \in 1 .. Width(l) :
       /\ Size(r, c) = Size(l, c)
       /\ \A j \in Nat : j < Size(l, c) =>
            At(r.data, r.cols[c] + j) = At(l.data, l.cols[c] + j)

\* The largest column first, as the quicksort puts them.
Larger(l, a, b) ==
  \/ -Size(l, a) < -Size(l, b)
  \/ -Size(l, a) = -Size(l, b) /\ a < b
Ranked(l, k) ==
  CHOOSE e \in 1 .. Width(l) :
    Cardinality({f \in 1 .. Width(l) : Larger(l, f, e)}) = k - 1
MapOf(l) == [k \in 1 .. Width(l) |-> Ranked(l, k)]

EndsIn(l, b, c) ==
  /\ Size(l, b) <= Size(l, c)
  /\ \A j \in Nat : j < Size(l, b) =>
       At(l.data, l.cols[b] + j) = At(l.data, l.cols[c] + (Size(l, c) - Size(l, b) + j))

\* Where the k-th column in the order m is: at the end of the first that it ends
\* when squashing, or else behind all those before it.
Hosts(op, l, m, k) ==
  {j \in 1 .. k - 1 : op = "squash" /\ EndsIn(l, m[k], m[j])}
LaidAt(op, l, m, k) ==
  /\ Hosts(op, l, m, k) # {} =>
       \E f \in Hosts(op, l, m, k) :
         /\ \A j \in Hosts(op, l, m, k) : f <= j
         /\ End(l, m[k]) = End(l, m[f])
  /\ Hosts(op, l, m, k) = {} =>
       /\ \A j \in 1 .. k - 1 : End(l, m[j]) <= l.cols[m[k]]
       /\ \/ l.cols[m[k]] = 0
          \/ \E j \in 1 .. k - 1 : End(l, m[j]) = l.cols[m[k]]

Laid(op, l) ==
  LET m == MapOf(l)
  IN /\ \A k \in 1 .. Width(l) : m[k] \in 1 .. Width(l) /\ LaidAt(op, l, m, k)
     /\ \A c \in 1 .. Width(l) : \E k \in 1 .. Width(l) : m[k] = c
     /\ \A a \in Nat : a < Len(l.data) =>
          \E c \in 1 .. Width(l) : l.cols[c] <= a /\ a < End(l, c)

LEMMA SameMap == ASSUME NEW l, NEW r, SameColumns(l, r) PROVE MapOf(r) = MapOf(l)
<1>1. Width(r) = Width(l)
  BY DEF SameColumns
<1>2. \A a, b \in 1 .. Width(l) : Larger(r, a, b) <=> Larger(l, a, b)
  BY DEF SameColumns, Larger
<1>3. \A e \in 1 .. Width(l) :
        {f \in 1 .. Width(l) : Larger(r, f, e)} = {f \in 1 .. Width(l) : Larger(l, f, e)}
  BY <1>2
<1>4. ASSUME NEW k PROVE Ranked(r, k) = Ranked(l, k)
  <2>1. \A e \in 1 .. Width(l) :
          Cardinality({f \in 1 .. Width(l) : Larger(r, f, e)}) = k - 1
            <=> Cardinality({f \in 1 .. Width(l) : Larger(l, f, e)}) = k - 1
    BY <1>3
  <2> QED
    BY <1>1, <2>1 DEF Ranked
<1> QED
  BY <1>1, <1>4 DEF MapOf

LEMMA SameEnds ==
  ASSUME NEW l \in Graphic, Parses(l), NEW r \in Graphic, Parses(r), SameColumns(l, r),
         NEW b \in 1 .. Width(l), NEW c \in 1 .. Width(l)
  PROVE  EndsIn(r, b, c) <=> EndsIn(l, b, c)
<1>1. PICK m, n : m = Size(l, b) /\ n = Size(l, c)
  OBVIOUS
<1>2. m \in Nat /\ n \in Nat /\ Size(r, b) = m /\ Size(r, c) = n
  BY <1>1, ColumnsWithin DEF SameColumns, Size
<1>3. /\ \A j \in Nat : j < m =>
           At(r.data, r.cols[b] + j) = At(l.data, l.cols[b] + j)
      /\ \A j \in Nat : j < n =>
           At(r.data, r.cols[c] + j) = At(l.data, l.cols[c] + j)
  BY <1>1 DEF SameColumns
<1>4. ASSUME m <= n, NEW j \in Nat, j < m
      PROVE  At(r.data, r.cols[c] + (n - m + j)) = At(l.data, l.cols[c] + (n - m + j))
  <2>1. n - m + j \in Nat /\ n - m + j < n
    BY <1>2, <1>4
  <2> QED
    BY <1>3, <2>1
<1>5. EndsIn(r, b, c) <=>
        /\ m <= n
        /\ \A j \in Nat : j < m =>
             At(r.data, r.cols[b] + j) = At(r.data, r.cols[c] + (n - m + j))
  BY <1>2 DEF EndsIn
<1>6. EndsIn(l, b, c) <=>
        /\ m <= n
        /\ \A j \in Nat : j < m =>
             At(l.data, l.cols[b] + j) = At(l.data, l.cols[c] + (n - m + j))
  BY <1>1 DEF EndsIn
<1> QED
  BY <1>3, <1>4, <1>5, <1>6

LEMMA ByElement ==
  ASSUME NEW T, NEW s \in Seq(T), NEW t \in Seq(T), Len(t) = Len(s),
         \A k \in 1 .. Len(s) : t[k] = s[k]
  PROVE  t = s
  OBVIOUS

\* Two lumps made from the same columns are the same: there is one place for
\* each column and no byte that is in none.
LEMMA LaidOnce ==
  ASSUME NEW l \in Graphic, Parses(l), NEW r \in Graphic, Parses(r), SameColumns(l, r),
         NEW op, Laid(op, l), Laid(op, r)
  PROVE  r = l
<1>1. Width(l) \in Nat /\ Width(r) = Width(l)
  BY GraphicRead DEF SameColumns
<1>2. PICK m : m = MapOf(l)
  OBVIOUS
<1>3. m = MapOf(r)
  BY <1>2, SameMap
<1>4. /\ \A k \in 1 .. Width(l) : m[k] \in 1 .. Width(l)
      /\ \A k \in 1 .. Width(l) : LaidAt(op, l, m, k)
      /\ \A c \in 1 .. Width(l) : \E k \in 1 .. Width(l) : m[k] = c
  BY <1>2 DEF Laid
<1>5. \A k \in 1 .. Width(l) : LaidAt(op, r, m, k)
  BY <1>1, <1>3 DEF Laid
<1>6. \A c \in 1 .. Width(l) :
        /\ l.cols[c] \in Nat /\ r.cols[c] \in Nat
        /\ Size(l, c) \in Nat /\ Size(r, c) = Size(l, c)
        /\ End(l, c) = l.cols[c] + Size(l, c) /\ End(r, c) = r.cols[c] + Size(l, c)
  BY <1>1, GraphicRead, ColumnsWithin DEF SameColumns, Size, End
<1>7. ASSUME NEW k \in 1 .. Width(l),
             \A j \in 1 .. k - 1 : r.cols[m[j]] = l.cols[m[j]]
      PROVE  r.cols[m[k]] = l.cols[m[k]]
  <2>1. \A j \in 1 .. k - 1 : j \in 1 .. Width(l) /\ m[j] \in 1 .. Width(l)
    BY <1>1, <1>4
  <2>2. \A j \in 1 .. k - 1 : End(r, m[j]) = End(l, m[j]) /\ End(l, m[j]) \in Nat
    BY <1>6, <1>7, <2>1
  <2>3. Hosts(op, r, m, k) = Hosts(op, l, m, k)
    <3>1. \A j \in 1 .. k - 1 : EndsIn(r, m[k], m[j]) <=> EndsIn(l, m[k], m[j])
      BY <1>4, <2>1, SameEnds
    <3> QED
      BY <3>1 DEF Hosts
  <2>4. PICK p, q, n : p = l.cols[m[k]] /\ q = r.cols[m[k]] /\ n = Size(l, m[k])
    OBVIOUS
  <2>5. /\ p \in Nat /\ q \in Nat /\ n \in Nat
        /\ End(l, m[k]) = p + n /\ End(r, m[k]) = q + n
    BY <1>4, <1>6, <2>4
  <2>6. CASE Hosts(op, l, m, k) # {}
    <3>1. PICK f \in Hosts(op, l, m, k) :
            (\A j \in Hosts(op, l, m, k) : f <= j) /\ End(l, m[k]) = End(l, m[f])
      BY <1>4, <2>6 DEF LaidAt
    <3>2. PICK g \in Hosts(op, l, m, k) :
            (\A j \in Hosts(op, l, m, k) : g <= j) /\ End(r, m[k]) = End(r, m[g])
      BY <1>5, <2>3, <2>6 DEF LaidAt
    <3>3. f \in 1 .. k - 1 /\ g \in 1 .. k - 1
      BY DEF Hosts
    <3>4. f = g
      BY <3>1, <3>2, <3>3
    <3>5. q + n = p + n
      BY <2>2, <2>5, <3>1, <3>2, <3>3, <3>4
    <3> QED
      BY <2>4, <2>5, <3>5
  <2>7. CASE Hosts(op, l, m, k) = {}
    <3>1. /\ \A j \in 1 .. k - 1 : End(l, m[j]) <= p
          /\ p = 0 \/ \E j \in 1 .. k - 1 : End(l, m[j]) = p
      BY <1>4, <2>4, <2>7 DEF LaidAt
    <3>2. /\ \A j \in 1 .. k - 1 : End(l, m[j]) <= q
          /\ q = 0 \/ \E j \in 1 .. k - 1 : End(l, m[j]) = q
      <4>1. /\ \A j \in 1 .. k - 1 : End(r, m[j]) <= q
            /\ q = 0 \/ \E j \in 1 .. k - 1 : End(r, m[j]) = q
        BY <1>5, <2>3, <2>4, <2>7 DEF LaidAt
      <4> QED
        BY <2>2, <4>1
    <3>3. p <= q
      BY <2>5, <3>1, <3>2
    <3>4. q <= p
      BY <2>5, <3>1, <3>2
    <3> QED
      BY <2>4, <2>5, <3>3, <3>4
  <2> QED
    BY <2>6, <2>7
<1>8. \A k \in 1 .. Width(l) : r.cols[m[k]] = l.cols[m[k]]
  <2> DEFINE D == {k \in 1 .. Width(l) : r.cols[m[k]] # l.cols[m[k]]}
  <2> SUFFICES ASSUME D # {} PROVE FALSE
    OBVIOUS
  <2>1. PICK k \in D : \A j \in D : k <= j
    <3>1. D \subseteq Nat
      BY <1>1
    <3> HIDE DEF D
    <3> QED
      BY <3>1, LeastNumber
  <2>2. \A j \in 1 .. k - 1 : j \notin D /\ j \in 1 .. Width(l)
    BY <1>1, <2>1
  <2>3. \A j \in 1 .. k - 1 : r.cols[m[j]] = l.cols[m[j]]
    BY <2>2
  <2> QED
    BY <1>7, <2>3
<1>9. \A c \in 1 .. Width(l) : r.cols[c] = l.cols[c] /\ End(r, c) = End(l, c)
  BY <1>4, <1>6, <1>8
<1>10. /\ l.data \in Seq(Byte) /\ r.data \in Seq(Byte)
       /\ Len(l.data) \in Nat /\ Len(r.data) \in Nat
       /\ l.cols \in Seq(Nat) /\ r.cols \in Seq(Nat)
       /\ Len(l.cols) = Width(l) /\ Len(r.cols) = Width(l)
  BY <1>1, GraphicRead, Reading
<1>11. \A c \in 1 .. Width(l) : End(l, c) <= Len(l.data) /\ End(r, c) <= Len(r.data)
  BY <1>1, ColumnsWithin DEF End, Size
<1>12. ASSUME NEW a \in Nat, a < Len(l.data)
       PROVE  a < Len(r.data) /\ At(r.data, a) = At(l.data, a)
  <2>1. PICK c \in 1 .. Width(l) : l.cols[c] <= a /\ a < End(l, c)
    BY <1>12 DEF Laid
  <2>2. PICK j \in Nat : j < Size(l, c) /\ a = l.cols[c] + j
    <3>1. l.cols[c] \in Nat /\ Size(l, c) \in Nat /\ End(l, c) = l.cols[c] + Size(l, c)
      BY <1>6
    <3>2. a - l.cols[c] \in Nat /\ a - l.cols[c] < Size(l, c) /\ a = l.cols[c] + (a - l.cols[c])
      BY <2>1, <3>1
    <3> QED
      BY <3>2
  <2>3. At(r.data, r.cols[c] + j) = At(l.data, l.cols[c] + j)
    BY <2>2 DEF SameColumns
  <2>4. a < Len(r.data)
    <3>1. End(l, c) <= Len(r.data) /\ End(l, c) \in Nat
      BY <1>6, <1>9, <1>11
    <3> QED
      BY <1>10, <2>1, <3>1
  <2> QED
    BY <1>9, <2>2, <2>3, <2>4
<1>13. ASSUME NEW a \in Nat, a < Len(r.data) PROVE a < Len(l.data)
  <2>1. PICK c \in 1 .. Width(l) : r.cols[c] <= a /\ a < End(r, c)
    BY <1>1, <1>13 DEF Laid
  <2>2. End(r, c) <= Len(l.data) /\ End(r, c) \in Nat
    BY <1>6, <1>9, <1>11
  <2> QED
    BY <1>10, <2>1, <2>2
<1>14. Len(r.data) = Len(l.data)
  <2>1. CASE Len(l.data) < Len(r.data)
    BY <1>10, <1>13, <2>1
  <2>2. CASE Len(r.data) < Len(l.data)
    BY <1>10, <1>12, <2>2
  <2> QED
    BY <1>10, <2>1, <2>2
<1>15. r.data = l.data
  <2>1. ASSUME NEW k \in 1 .. Len(l.data) PROVE r.data[k] = l.data[k]
    <3>1. k - 1 \in Nat /\ k - 1 < Len(l.data) /\ (k - 1) + 1 = k
      BY <1>10
    <3> QED
      BY <1>12, <3>1 DEF At
  <2> QED
    BY <1>10, <1>14, <2>1, ByElement
<1>16. r.cols = l.cols
  BY <1>9, <1>10, ByElement
<1> QED
  BY <1>15, <1>16 DEF Graphic
LEMMA MapRanks ==
  ASSUME FrameInv, pc = "place", NEW l, Width(l) = Width(lump),
         \A c \in 1 .. Width(lump) : Size(l, c) = colsize[c]
  PROVE  MapOf(l) = elements
<1>1. /\ SortsRight /\ Sorted /\ key = LargestFirst /\ TypeOK /\ Begun
      /\ Width(lump) \in Nat /\ elements \in [1 .. Width(lump) -> 1 .. Width(lump)]
  BY MapSorted, MapIs DEF FrameInv
<1>2. Element = 1 .. Width(lump)
  BY <1>1, Keys DEF Element
<1>3. \A a, b \in 1 .. Width(lump) : Larger(l, a, b) <=> Before(a, b)
  <2>1. \A a \in 1 .. Width(lump) : key[a] = -Size(l, a)
    BY <1>1, Keys
  <2> QED
    BY <2>1 DEF Larger, Before
<1>4. \A e \in 1 .. Width(lump) :
        {f \in 1 .. Width(lump) : Larger(l, f, e)} = {f \in 1 .. Width(lump) : Before(f, e)}
  BY <1>3
<1>5. ASSUME NEW k \in 1 .. Width(lump) PROVE elements[k] = Ranked(l, k)
  <2>1. elements = SortedMap
    BY <1>1 DEF SortsRight
  <2>2. SortedMap[k] = CHOOSE e \in Element :
          Cardinality({f \in Element : Before(f, e)}) = k - 1
    BY <1>2 DEF SortedMap
  <2>3. \A e \in 1 .. Width(lump) :
          Cardinality({f \in 1 .. Width(lump) : Larger(l, f, e)}) = k - 1
            <=> Cardinality({f \in 1 .. Width(lump) : Before(f, e)}) = k - 1
    BY <1>4
  <2>4. Ranked(l, k) = CHOOSE e \in 1 .. Width(lump) :
          Cardinality({f \in 1 .. Width(lump) : Larger(l, f, e)}) = k - 1
    BY DEF Ranked
  <2> QED
    BY <1>2, <2>1, <2>2, <2>3, <2>4
<1>6. MapOf(l) = [k \in 1 .. Width(lump) |-> Ranked(l, k)]
  BY DEF MapOf
<1> QED
  BY <1>1, <1>5, <1>6

\* The lump that a run has built.
LEMMA NewLaid ==
  ASSUME FrameInv, RunInv, PlaceInv, pc = "place", x = Width(lump) + 1
  PROVE  /\ newres \in Graphic /\ Width(newres) = Width(lump) /\ Parses(newres)
         /\ Laid(cmd, newres)
         /\ \A c \in 1 .. Width(lump) :
              /\ Size(newres, c) = colsize[c]
              /\ \A j \in Nat : j < colsize[c] =>
                   At(newres.data, newres.cols[c] + j) = At(data, lump.cols[c] + j)
<1>1. PICK l, m : l = newres /\ m = elements
  OBVIOUS
<1>2. /\ l \in Graphic /\ Width(l) = Width(lump) /\ TypeOK /\ Begun
      /\ Width(lump) \in Nat /\ x - 1 = Width(lump)
      /\ m \in [1 .. Width(lump) -> 1 .. Width(lump)]
      /\ \A c \in 1 .. Width(lump) : \E k \in 1 .. Width(lump) : m[k] = c
  BY <1>1, MapIs, SMTT(60) DEF FrameInv, TypeOK
<1>3. \A c \in 1 .. Width(lump) :
        /\ Size(l, c) = colsize[c]
        /\ \A j \in Nat : j < colsize[c] =>
             At(l.data, l.cols[c] + j) = At(data, lump.cols[c] + j)
  <2>1. \A c \in 1 .. Width(lump) : Holds(l, c)
    BY <1>1, AllPlaced DEF Placed, Holds
  <2> QED
    BY <1>2, <2>1, ColumnsLeft DEF Size
<1>4. \A c \in 1 .. Width(lump) :
        /\ lump.cols[c] \in Nat /\ l.cols[c] \in Nat
        /\ colsize[c] \in Nat /\ colsize[c] > 0
  BY <1>2, ColumnsRead, GraphicRead
<1>5. Parses(l)
  BY <1>2, <1>3, <1>4 DEF Parses, Size
<1>6. MapOf(l) = m
  BY <1>1, <1>2, <1>3, MapRanks
<1>7. \A c \in 1 .. Width(lump) : End(l, c) = NewEnd(c)
  BY <1>1, <1>3 DEF End, NewEnd
<1>8. ASSUME NEW b \in 1 .. Width(lump), NEW c \in 1 .. Width(lump)
      PROVE  EndsIn(l, b, c) <=> Ends(b, c)
  <2>1. PICK p, n : p = colsize[b] /\ n = colsize[c]
    OBVIOUS
  <2>2. p \in Nat /\ n \in Nat /\ lump.cols[c] \in Nat
    BY <1>4, <2>1
  <2>3. ASSUME p <= n, NEW j \in Nat, j < p
        PROVE  At(l.data, l.cols[c] + (n - p + j)) = At(data, lump.cols[c] + n - p + j)
    <3>1. /\ n - p + j \in Nat /\ n - p + j < n
          /\ lump.cols[c] + (n - p + j) = lump.cols[c] + n - p + j
      BY <2>2, <2>3
    <3> QED
      BY <1>3, <2>1, <3>1
  <2>4. \A j \in Nat : j < p => At(l.data, l.cols[b] + j) = At(data, lump.cols[b] + j)
    BY <1>3, <2>1
  <2>5. EndsIn(l, b, c) <=>
          /\ p <= n
          /\ \A j \in Nat : j < p =>
               At(l.data, l.cols[b] + j) = At(l.data, l.cols[c] + (n - p + j))
    BY <1>3, <2>1 DEF EndsIn
  <2>6. Ends(b, c) <=>
          /\ p <= n
          /\ \A j \in Nat : j < p =>
               At(data, lump.cols[b] + j) = At(data, lump.cols[c] + n - p + j)
    BY <2>1 DEF Ends
  <2> QED
    BY <2>3, <2>4, <2>5, <2>6
<1>9. ASSUME NEW k \in 1 .. Width(lump) PROVE LaidAt(cmd, l, m, k)
  <2>1. \A j \in 1 .. k - 1 : j \in 1 .. Width(lump) /\ m[j] \in 1 .. Width(lump)
    <3>1. \A j \in 1 .. k - 1 : j \in 1 .. Width(lump)
      BY <1>2
    <3>2. \A j \in 1 .. Width(lump) : m[j] \in 1 .. Width(lump)
      BY <1>2
    <3> QED
      BY <3>1, <3>2
  <2>2. Hosts(cmd, l, m, k) = Earlier(k)
    <3>1. \A j : j \in Hosts(cmd, l, m, k) <=>
            cmd = "squash" /\ j \in 1 .. k - 1 /\ EndsIn(l, m[k], m[j])
      BY DEF Hosts
    <3>2. \A j : j \in Earlier(k) <=>
            cmd = "squash" /\ j \in 1 .. k - 1 /\ Ends(m[k], m[j])
      BY <1>1, EarlierIs
    <3>3. \A j \in 1 .. k - 1 : EndsIn(l, m[k], m[j]) <=> Ends(m[k], m[j])
      BY <1>2, <1>8, <2>1
    <3>4. \A j : j \in Hosts(cmd, l, m, k) <=> j \in Earlier(k)
      BY <3>1, <3>2, <3>3
    <3> QED
      BY <3>4 DEF Earlier, Hosts
  <2>3. k \in 1 .. x - 1
    BY <1>2
  <2>4. m[k] \in 1 .. Width(lump)
    BY <1>2
  <2>5. ASSUME Earlier(k) # {}
        PROVE  /\ First(k) \in Earlier(k) /\ \A j \in Earlier(k) : First(k) <= j
               /\ End(l, m[k]) = End(l, m[First(k)])
    <3>1. /\ First(k) \in Earlier(k) /\ First(k) \in 1 .. k - 1
          /\ \A j \in Earlier(k) : First(k) <= j
      BY <2>5, EarlierIs
    <3>2. l.cols[m[k]] = SharedOffset(m[k], m[First(k)])
      BY <1>1, <2>3, <2>5 DEF PlaceInv
    <3>3. SharedOffset(m[k], m[First(k)]) + colsize[m[k]] = NewEnd(m[First(k)])
      BY <1>1, <2>5, SharedOffsetIs DEF NewEnd
    <3>4. End(l, m[k]) = NewEnd(m[k])
      BY <1>7, <2>4
    <3>5. End(l, m[First(k)]) = NewEnd(m[First(k)])
      BY <1>7, <2>1, <3>1
    <3> QED
      BY <1>1, <3>1, <3>2, <3>3, <3>4, <3>5 DEF NewEnd
  <2>6. ASSUME Earlier(k) = {}
        PROVE  /\ \A j \in 1 .. k - 1 : End(l, m[j]) <= l.cols[m[k]]
               /\ l.cols[m[k]] = 0 \/ \E j \in 1 .. k - 1 : End(l, m[j]) = l.cols[m[k]]
    <3>1. Appended(k)
      BY <2>3, <2>6 DEF PlaceInv
    <3>2. /\ \A j \in 1 .. k - 1 : NewEnd(m[j]) <= l.cols[m[k]]
          /\ l.cols[m[k]] = 0 \/ \E j \in 1 .. k - 1 : NewEnd(m[j]) = l.cols[m[k]]
      BY <1>1, <3>1 DEF Appended
    <3> QED
      BY <1>7, <2>1, <3>2
  <2> QED
    BY <2>2, <2>5, <2>6 DEF LaidAt
<1>10. ASSUME NEW a \in Nat, a < Len(l.data)
       PROVE  \E c \in 1 .. Width(l) : l.cols[c] <= a /\ a < End(l, c)
  <2>1. PICK k \in 1 .. Width(lump) : l.cols[m[k]] <= a /\ a < NewEnd(m[k])
    BY <1>1, <1>2, <1>10 DEF PlaceInv
  <2>2. m[k] \in 1 .. Width(lump)
    BY <1>2
  <2> QED
    BY <1>2, <1>7, <2>1, <2>2
<1>11. Laid(cmd, l)
  <2>1. \A k \in 1 .. Width(l) : m[k] \in 1 .. Width(l) /\ LaidAt(cmd, l, m, k)
    BY <1>2, <1>9
  <2>2. \A c \in 1 .. Width(l) : \E k \in 1 .. Width(l) : m[k] = c
    BY <1>2
  <2> QED
    BY <1>6, <1>10, <2>1, <2>2 DEF Laid
<1> QED
  BY <1>1, <1>2, <1>3, <1>5, <1>11
-----------------------------------------------------------------------------
(* What the runs do to a lump, one after the other *)

\* A lump with no posts to join.
Neat(l) == \A c \in 1 .. Width(l) : Combined(l.data, l.cols[c])

\* The lump with a header and, behind its table, the columns that were built.
HeaderOf(l) == Bytes(l.data, 0, 8)
Assembled(head, g) ==
  Decoded(head \o TableBytes([c \in 1 .. Width(g) |-> TableEnd(Width(g)) + g.cols[c]])
               \o g.data)

\* A lump that op has made, or that it has given up for the larger one it made.
Settled(op, l) ==
  \E g \in Graphic :
    /\ Parses(g) /\ Laid(op, g) /\ SameColumns(l, g)
    /\ \/ l = Assembled(HeaderOf(l), g)
       \/ op = "squash" /\ TableEnd(Width(g)) + Len(g.data) > Length(l)

\* A run of op has stored the lump n for the lump l.
Ran(op, l, n) ==
  /\ ~Read(l) => n = l
  /\ Read(l) =>
       /\ Parses(n) /\ Neat(n) /\ Settled(op, n) /\ HeaderOf(n) = HeaderOf(l)
       /\ Neat(l) => SameColumns(l, n)
       /\ Neat(l) /\ Settled(op, l) => n = l

\* Nothing is joined in a lump that has nothing to join.
CalmInv == pc # "idle" /\ Neat(lump) => data = lump.data
HistoryInv == \A k \in 1 .. Len(past) : Ran(past[k], trail[k], trail[k + 1])

LEMMA SameTwice ==
  ASSUME NEW l, NEW r, NEW s, SameColumns(l, r), SameColumns(l, s)
  PROVE  SameColumns(r, s)
<1>1. Width(r) = Width(l) /\ Width(s) = Width(l)
  BY DEF SameColumns
<1>2. \A c \in 1 .. Width(l) :
        /\ Size(r, c) = Size(l, c) /\ Size(s, c) = Size(l, c)
        /\ \A j \in Nat : j < Size(l, c) =>
             At(s.data, s.cols[c] + j) = At(r.data, r.cols[c] + j)
  BY DEF SameColumns
<1> QED
  BY <1>1, <1>2 DEF SameColumns

LEMMA SameBack == ASSUME NEW l, NEW r, SameColumns(l, r) PROVE SameColumns(r, l)
BY DEF SameColumns

LEMMA SameHeader ==
  ASSUME NEW d \in Seq(Byte), NEW e \in Seq(Byte), Len(d) >= 8, Len(e) >= 8,
         \A a \in Nat : a < 8 => At(d, a) = At(e, a)
  PROVE  Bytes(d, 0, 8) = Bytes(e, 0, 8)
<1>1. PICK s, t : s = Bytes(d, 0, 8) /\ t = Bytes(e, 0, 8)
  OBVIOUS
<1>2. 0 \in Nat /\ 8 \in Nat /\ 0 + 8 <= Len(d) /\ 0 + 8 <= Len(e)
  BY Reading
<1>3. s \in Seq(Byte) /\ Len(s) = 8 /\ \A j \in 1 .. 8 : s[j] = d[0 + j]
  BY <1>1, <1>2, BytesMean, ZenonT(60)
<1>4. t \in Seq(Byte) /\ Len(t) = 8 /\ \A j \in 1 .. 8 : t[j] = e[0 + j]
  BY <1>1, <1>2, BytesMean, ZenonT(60)
<1>5. ASSUME NEW j \in 1 .. 8 PROVE t[j] = s[j]
  <2>1. j - 1 \in Nat /\ j - 1 < 8 /\ (j - 1) + 1 = j /\ 0 + j = j
    OBVIOUS
  <2>2. d[j] = e[j]
    BY <2>1 DEF At
  <2> QED
    BY <1>3, <1>4, <2>1, <2>2
<1> QED
  BY <1>1, <1>3, <1>4, <1>5, ByElement

\* A run leaves the header as it was.
LEMMA FinishHeader ==
  ASSUME FrameInv, RunInv, PlaceInv, Finish
  PROVE  Bytes(data, 0, 8) = HeaderOf(lump) /\ HeaderOf(lump') = HeaderOf(lump)
<1>1. /\ pc = "place" /\ x = Width(lump) + 1
      /\ \/ lump' = Decoded(data)
         \/ NewLength <= MaxLength /\ lump' = Decoded(Built)
      /\ TypeOK /\ Begun /\ lump \in Lump /\ lump' \in Lump
  BY FinishMeans DEF FrameInv, TypeOK
<1>2. /\ IsGraphic(lump) /\ FrontKept /\ data \in Seq(Byte) /\ Len(data) = Len(lump.data)
  BY <1>1 DEF Begun, Read, RunInv, TypeOK
<1>3. PICK z \in Nat, w \in Nat : z = TableEnd(Width(lump)) /\ w = Width(lump) /\ z = 8 + 4 * w
  BY <1>1, <1>2, GraphicTable
<1>4. /\ Len(data) >= 8 /\ lump.data \in Seq(Byte) /\ Len(lump.data) >= 8
  BY <1>1, <1>2, GraphicTable, LumpRead
<1>5. Bytes(data, 0, 8) = HeaderOf(lump)
  <2>1. \A a \in Nat : a < 8 => a < z
    BY <1>3
  <2>2. \A a \in Nat : a < 8 => At(data, a) = At(lump.data, a)
    BY <1>2, <1>3, <2>1 DEF FrontKept
  <2> QED
    BY <1>2, <1>4, <2>2, SameHeader DEF HeaderOf
<1>6. CASE lump' = Decoded(data)
  <2>1. Decoded(data).data = data
    BY <1>2, TableRead
  <2>2. lump'.data = data
    BY <1>6, <2>1
  <2> QED
    BY <1>5, <2>2 DEF HeaderOf
<1>7. CASE NewLength <= MaxLength /\ lump' = Decoded(Built)
  <2>1. PICK l : l = lump'
    OBVIOUS
  <2>2. /\ l \in Lump /\ Length(l) = NewLength
        /\ \A a \in Nat : a < 8 => At(l.data, a) = At(data, a)
    BY <1>1, <1>7, <2>1, BuiltMeans
  <2>3. l.data \in Seq(Byte) /\ Len(l.data) >= 8
    <3>1. Len(newres.data) \in Nat
      BY <1>1, GraphicRead, Reading DEF TypeOK
    <3>2. NewLength = z + Len(newres.data)
      BY <1>3 DEF NewLength
    <3>3. Len(l.data) = NewLength
      BY <2>2 DEF Length
    <3> QED
      BY <1>3, <2>2, <3>1, <3>2, <3>3, LumpRead, SMTT(60)
  <2>4. Bytes(l.data, 0, 8) = Bytes(data, 0, 8)
    BY <1>2, <1>4, <2>2, <2>3, SameHeader
  <2> QED
    BY <1>5, <2>1, <2>4 DEF HeaderOf
<1> QED
  BY <1>1, <1>5, <1>6, <1>7

\* The run that ends with this step.
LEMMA FinishRan ==
  ASSUME GraphicInv, CalmInv, Finish
  PROVE  Ran(cmd, lump, lump')
<1>1. /\ FrameInv /\ RunInv /\ PlaceInv /\ pc = "place" /\ x = Width(lump) + 1
      /\ lump' \in Lump /\ TypeOK /\ Begun /\ lump \in Lump
      /\ \/ Worse /\ lump' = Decoded(data)
         \/ ~Worse /\ NewLength <= MaxLength /\ lump' = Decoded(Built)
  BY FinishMeans DEF GraphicInv, FrameInv, TypeOK
<1>2. PICK l, n, r : l = lump /\ n = lump' /\ r = newres
  OBVIOUS
<1>3. /\ n \in Lump /\ Width(n) = Width(l)
      /\ \A c \in 1 .. Width(l) :
           /\ Size(n, c) = colsize[c] /\ Combined(n.data, n.cols[c])
           /\ \A j \in Nat : j < colsize[c] =>
                At(n.data, n.cols[c] + j) = At(data, l.cols[c] + j)
  <2>1. Width(n) = Width(l)
    BY <1>1, <1>2, FinishWidth
  <2>2. ASSUME NEW c \in 1 .. Width(lump)
        PROVE  /\ ColumnLength(lump'.data, lump'.cols[c]) = colsize[c]
               /\ Combined(lump'.data, lump'.cols[c])
               /\ \A j \in Nat : j < colsize[c] =>
                    At(lump'.data, lump'.cols[c] + j) = At(data, lump.cols[c] + j)
    BY <1>1, FinishColumns
  <2> QED
    BY <1>1, <1>2, <2>1, <2>2 DEF Size
<1>4. /\ r \in Graphic /\ Width(r) = Width(l) /\ Parses(r) /\ Laid(cmd, r)
      /\ \A c \in 1 .. Width(l) :
           /\ Size(r, c) = colsize[c]
           /\ \A j \in Nat : j < colsize[c] =>
                At(r.data, r.cols[c] + j) = At(data, l.cols[c] + j)
  BY <1>1, <1>2, NewLaid
<1>5. SameColumns(n, r)
  BY <1>3, <1>4 DEF SameColumns
<1>6. Parses(n)
  <2>1. \A c \in 1 .. Width(l) : colsize[c] > 0
    BY <1>1, <1>2, ColumnsRead
  <2> QED
    BY <1>3, <2>1 DEF Parses, Size
<1>7. Neat(n)
  BY <1>3 DEF Neat
<1>8. HeaderOf(n) = HeaderOf(l) /\ Bytes(data, 0, 8) = HeaderOf(l)
  BY <1>1, <1>2, FinishHeader
<1>9. /\ NewLength = TableEnd(Width(r)) + Len(r.data)
      /\ Worse => cmd = "squash" /\ NewLength > Length(n) /\ n = Decoded(data)
      /\ ~Worse => n = Assembled(HeaderOf(l), r) /\ ~(cmd = "squash" /\ NewLength > Length(l))
  <2>1. NewLength = TableEnd(Width(r)) + Len(r.data)
    BY <1>2, <1>4 DEF NewLength
  <2>2. ASSUME Worse
        PROVE  cmd = "squash" /\ NewLength > Length(n) /\ n = Decoded(data)
    <3>1. n = Decoded(data)
      BY <1>1, <1>2, <2>2
    <3>2. Length(n) = Length(l)
      BY <1>1, <1>2, <3>1, WorseMeans
    <3> QED
      BY <1>2, <2>2, <3>1, <3>2 DEF Worse
  <2>3. ASSUME ~Worse
        PROVE  n = Assembled(HeaderOf(l), r) /\ ~(cmd = "squash" /\ NewLength > Length(l))
    <3>1. n = Decoded(Built)
      BY <1>1, <1>2, <2>3
    <3>2. Width(lump) = Width(r) /\ newres = r
      BY <1>2, <1>4
    <3>3. Assembled(HeaderOf(l), r) = Decoded(Built)
      BY <1>8, <3>2 DEF Assembled, Built
    <3> QED
      BY <1>2, <2>3, <3>1, <3>3 DEF Worse
  <2> QED
    BY <2>1, <2>2, <2>3
<1>10. Settled(cmd, n)
  <2>1. \/ n = Assembled(HeaderOf(n), r)
        \/ cmd = "squash" /\ TableEnd(Width(r)) + Len(r.data) > Length(n)
    <3>1. CASE Worse
      BY <1>9, <3>1
    <3>2. CASE ~Worse
      BY <1>8, <1>9, <3>2
    <3> QED
      BY <3>1, <3>2
  <2> QED
    BY <1>4, <1>5, <2>1 DEF Settled
<1>11. ASSUME Neat(l) PROVE data = l.data /\ SameColumns(l, r) /\ SameColumns(l, n)
  <2>1. data = l.data
    BY <1>1, <1>2, <1>11 DEF CalmInv
  <2>2. \A c \in 1 .. Width(l) : Size(l, c) = colsize[c]
    <3>1. ASSUME NEW c \in 1 .. Width(l) PROVE Size(l, c) = colsize[c]
      <4>1. /\ ColumnEnd(data, l.cols[c]) = l.cols[c] + colsize[c]
            /\ l.cols[c] \in Nat /\ colsize[c] \in Nat /\ colsize[c] > 0
        BY <1>1, <1>2, ColumnsRead DEF RunInv, ColumnKept
      <4> QED
        BY <2>1, <4>1 DEF Size, ColumnLength
    <3> QED
      BY <3>1
  <2> QED
    BY <1>3, <1>4, <2>1, <2>2 DEF SameColumns
<1>12. ASSUME Neat(l), Settled(cmd, l) PROVE n = l
  <2>1. l \in Lump /\ data = l.data /\ SameColumns(l, r)
    BY <1>1, <1>2, <1>11, <1>12
  <2>2. PICK g \in Graphic :
          /\ Parses(g) /\ Laid(cmd, g) /\ SameColumns(l, g)
          /\ \/ l = Assembled(HeaderOf(l), g)
             \/ cmd = "squash" /\ TableEnd(Width(g)) + Len(g.data) > Length(l)
    BY <1>12 DEF Settled
  <2>3. SameColumns(r, g)
    BY <2>1, <2>2, SameTwice
  <2>4. g = r
    BY <1>4, <2>2, <2>3, LaidOnce
  <2>5. CASE Worse
    <3>1. n = Decoded(l.data)
      BY <1>9, <2>1, <2>5
    <3> QED
      BY <2>1, <3>1 DEF Lump
  <2>6. CASE ~Worse
    BY <1>9, <2>2, <2>4, <2>6
  <2> QED
    BY <2>5, <2>6
<1>13. Read(l)
  BY <1>1, <1>2 DEF Begun
<1> QED
  BY <1>2, <1>6, <1>7, <1>8, <1>10, <1>11, <1>12, <1>13 DEF Ran

LEMMA HistoryKept ==
  ASSUME FrameInv, HistoryInv, NEW c \in Op, NEW l \in Lump, EndRun(c, l),
         Ran(c, lump, l)
  PROVE  HistoryInv'
<1>1. past \in Seq(Op) /\ trail \in Seq(Lump) /\ Len(trail) = Len(past) + 1
      /\ trail[Len(past) + 1] = lump /\ Len(past) \in Nat
  BY DEF FrameInv, TypeOK
<1>2. past' = Append(past, c) /\ trail' = Append(trail, l)
  BY DEF EndRun
<1>3. PICK n \in Nat : n = Len(past)
  BY <1>1
<1>4. /\ Len(past') = n + 1 /\ past'[n + 1] = c
      /\ \A k \in 1 .. n : past'[k] = past[k]
  BY <1>1, <1>2, <1>3
<1>5. /\ trail'[n + 2] = l
      /\ \A k \in 1 .. n + 1 : trail'[k] = trail[k]
  BY <1>1, <1>2, <1>3
<1>6. ASSUME NEW k \in 1 .. n + 1 PROVE Ran(past'[k], trail'[k], trail'[k + 1])
  <2>1. CASE k = n + 1
    <3>1. trail'[k] = lump /\ trail'[k + 1] = l /\ past'[k] = c
      BY <1>1, <1>3, <1>4, <1>5, <2>1
    <3> QED
      BY <3>1
  <2>2. CASE k # n + 1
    <3>1. k \in 1 .. n /\ k + 1 \in 1 .. n + 1
      BY <2>2
    <3>2. past'[k] = past[k] /\ trail'[k] = trail[k] /\ trail'[k + 1] = trail[k + 1]
      BY <1>4, <1>5, <3>1
    <3>3. Ran(past[k], trail[k], trail[k + 1])
      BY <1>3, <3>1 DEF HistoryInv
    <3> QED
      BY <3>2, <3>3
  <2> QED
    BY <2>1, <2>2
<1> QED
  BY <1>4, <1>6 DEF HistoryInv

LEMMA HistoryFirst == Init => CalmInv /\ HistoryInv
BY DEF Init, CalmInv, HistoryInv

LEMMA HistoryNext ==
  ASSUME GraphicInv, CalmInv, HistoryInv, [Next]_vars
  PROVE  CalmInv' /\ HistoryInv'
<1>1. FrameInv /\ RunInv /\ lump \in Lump
  BY DEF GraphicInv, FrameInv, TypeOK
<1>2. UNCHANGED history => HistoryInv'
  BY DEF HistoryInv, history
<1>3. ASSUME lump' = lump, data' = data, pc' # "idle" => pc # "idle"
      PROVE  CalmInv'
  BY <1>3 DEF CalmInv, Neat, Width
<1>4. ASSUME NEW c \in Op, Start(c) PROVE CalmInv' /\ HistoryInv'
  <2>1. CASE ~Read(lump) /\ EndRun(c, lump)
    <3>1. Ran(c, lump, lump)
      BY <2>1 DEF Ran
    <3>2. HistoryInv'
      BY <1>1, <2>1, <3>1, HistoryKept
    <3>3. pc' = "idle"
      BY <2>1 DEF EndRun, Goto
    <3> QED
      BY <3>2, <3>3 DEF CalmInv
  <2>2. CASE data' = lump.data /\ lump' = lump /\ UNCHANGED history
    BY <1>2, <2>2 DEF CalmInv
  <2> QED
    BY <1>4, <2>1, <2>2 DEF Start, Read
<1>5. CASE CombinePosts
  <2>1. pc = "combine" /\ x <= Width(lump) /\ UNCHANGED <<lump, pc, history>>
    BY <1>5 DEF CombinePosts
  <2>2. CASE At(data, Post) # Stop /\ At(data, NextPost) # Stop /\ Adjacent
    <3>1. ~Combined(data, Column) /\ x \in 1 .. Width(lump)
      BY <1>1, <2>1, <2>2, JoinsFirst, TurnAt
    <3>2. ~Neat(lump)
      <4> SUFFICES ASSUME Neat(lump) PROVE FALSE
        OBVIOUS
      <4>1. data = lump.data
        BY <2>1 DEF CalmInv
      <4> QED
        BY <3>1, <4>1 DEF Neat, Column
    <3> QED
      BY <1>2, <2>1, <3>2 DEF CalmInv
  <2>3. CASE data' = data
    BY <1>2, <1>3, <2>1, <2>3
  <2> QED
    BY <1>5, <2>2, <2>3 DEF CombinePosts
<1>6. CASE SortColumns \/ SortMapElements \/ BeginColumns \/ PlaceColumn
  <2>1. lump' = lump /\ data' = data /\ pc # "idle" /\ UNCHANGED history
    BY <1>6 DEF SortColumns, SortMapElements, BeginColumns, PlaceColumn
  <2> QED
    BY <1>2, <1>3, <2>1
<1>7. CASE Finish
  <2>1. EndRun(cmd, lump') /\ lump' \in Lump /\ cmd \in Op
    BY <1>1, <1>7, FinishMeans DEF FrameInv, TypeOK
  <2>2. Ran(cmd, lump, lump')
    BY <1>7, FinishRan
  <2>3. PICK l \in Lump : l = lump'
    BY <2>1
  <2>4. HistoryInv'
    BY <1>1, <2>1, <2>2, <2>3, HistoryKept
  <2>5. pc' = "idle"
    BY <2>1 DEF EndRun, Goto
  <2> QED
    BY <2>4, <2>5 DEF CalmInv
<1>8. CASE Done \/ UNCHANGED vars
  <2>1. lump' = lump /\ data' = data /\ pc' = pc /\ UNCHANGED history
    BY <1>8 DEF Done, vars, history
  <2> QED
    BY <1>2, <1>3, <2>1
<1> QED
  BY <1>4, <1>5, <1>6, <1>7, <1>8 DEF Next

\* Whatever a lump has been through: to squash or unsquash it a second time
\* changes nothing, whether the first was stored or given up, and to squash and
\* unsquash what was unsquashed brings back every byte of it.
THEOREM GraphicsRepeatable == ASSUME LumpsTidy PROVE Spec => []Repeatable
<1>1. FrameInv /\ HistoryInv => Repeatable
  <2> SUFFICES ASSUME FrameInv, HistoryInv PROVE Repeatable
    OBVIOUS
  <2>1. /\ past \in Seq(Op) /\ trail \in Seq(Lump) /\ Len(past) \in Nat
        /\ Len(trail) = Len(past) + 1
        /\ \A k \in 1 .. Len(past) + 1 : trail[k] \in Lump
    BY DEF FrameInv, TypeOK
  <2>2. \A k \in 1 .. Len(past) : Ran(past[k], trail[k], trail[k + 1])
    BY DEF HistoryInv
  <2>3. ASSUME NEW k \in 2 .. Len(past), past[k] = past[k - 1]
        PROVE  trail[k + 1] = trail[k]
    <3>1. k - 1 \in 1 .. Len(past) /\ k \in 1 .. Len(past) /\ (k - 1) + 1 = k
      BY <2>1
    <3>2. /\ Ran(past[k], trail[k - 1], trail[k])
          /\ Ran(past[k], trail[k], trail[k + 1])
      BY <2>2, <2>3, <3>1
    <3> QED
      BY <3>2 DEF Ran
  <2>4. ASSUME NEW k \in 3 .. Len(past),
               past[k] = "unsquash", past[k - 1] = "squash", past[k - 2] = "unsquash",
               IsGraphic(trail[k - 2]), IsGraphic(trail[k])
        PROVE  trail[k + 1] = trail[k - 1]
    <3>1. /\ k - 2 \in 1 .. Len(past) /\ k - 1 \in 1 .. Len(past) /\ k \in 1 .. Len(past)
          /\ (k - 2) + 1 = k - 1 /\ (k - 1) + 1 = k
          /\ k - 1 \in 1 .. Len(past) + 1 /\ k + 1 \in 1 .. Len(past) + 1
      BY <2>1
    <3>2. PICK a, b, c, d : /\ a = trail[k - 2] /\ b = trail[k - 1]
                            /\ c = trail[k] /\ d = trail[k + 1]
      OBVIOUS
    <3>3. Ran("unsquash", a, b) /\ Ran("squash", b, c) /\ Ran("unsquash", c, d)
      BY <2>2, <2>4, <3>1, <3>2
    <3>4. b \in Lump /\ d \in Lump /\ IsGraphic(a) /\ IsGraphic(c)
      BY <2>1, <2>4, <3>1, <3>2
    <3>5. CASE ~Read(a)
      BY <3>2, <3>3, <3>5 DEF Ran
    <3>6. CASE Read(a)
      <4>1. Parses(b) /\ Neat(b) /\ Settled("unsquash", b)
        BY <3>3, <3>6 DEF Ran
      <4>2. Read(b)
        BY <3>3, <3>4, <4>1 DEF Ran, Read
      <4>3. Parses(c) /\ Neat(c) /\ SameColumns(b, c) /\ HeaderOf(c) = HeaderOf(b)
        BY <3>3, <4>1, <4>2 DEF Ran
      <4>4. Settled("unsquash", d) /\ SameColumns(c, d) /\ HeaderOf(d) = HeaderOf(c)
        BY <3>3, <3>4, <4>3 DEF Ran, Read
      <4>5. PICK g \in Graphic : /\ Parses(g) /\ Laid("unsquash", g) /\ SameColumns(b, g)
                                /\ b = Assembled(HeaderOf(b), g)
        BY <4>1 DEF Settled
      <4>6. PICK h \in Graphic : /\ Parses(h) /\ Laid("unsquash", h) /\ SameColumns(d, h)
                                /\ d = Assembled(HeaderOf(d), h)
        BY <4>4 DEF Settled
      <4>7. SameColumns(b, d)
        BY <4>3, <4>4, SameBack, SameTwice
      <4>8. SameColumns(b, h)
        BY <4>6, <4>7, SameBack, SameTwice
      <4>9. SameColumns(g, h)
        BY <4>5, <4>8, SameTwice
      <4>10. h = g
        BY <4>5, <4>6, <4>9, LaidOnce
      <4> QED
        BY <3>2, <4>3, <4>4, <4>5, <4>6, <4>10
    <3> QED
      BY <3>5, <3>6
  <2> QED
    BY <2>3, <2>4 DEF Repeatable
<1>2. GraphicInv => FrameInv
  BY DEF GraphicInv
<1>3. GraphicInv /\ CalmInv /\ HistoryInv /\ [Next]_vars => CalmInv' /\ HistoryInv'
  BY HistoryNext
<1> QED
  BY <1>1, <1>2, <1>3, HistoryFirst, GraphicAlways, PTL DEF Spec
=============================================================================
