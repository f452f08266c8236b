-------------------------------- MODULE Sort --------------------------------
(***************************************************************************)
(* Sorted maps (sort.c): the quicksort of SortMapElements(), which         *)
(* MakeSortedMap() starts on the numbers of the elements.  Modules that    *)
(* sort extend this one and take its steps.                                *)
(*                                                                         *)
(* What compare_fn looks at is the variable "key", which nothing here      *)
(* changes.  Elements and positions count from 1.  The recursion is a      *)
(* stack of the calls that are yet to return, the current one first; each  *)
(* has the positions it is to sort and the depth of its stack frame.       *)
(*                                                                         *)
(* Definitions marked "fault" are variants of the next definition with a   *)
(* mistake in them; the properties are tried against them.                 *)
(***************************************************************************)
EXTENDS Integers, Sequences, FiniteSets

VARIABLES
  key,      \* the keys of the elements
  elements, \* the map being sorted
  calls,    \* the stack of calls: [first, last, depth]
  step,     \* "call" before a call has chosen its pivot, then "partition"
  pivot,    \* of the current call
  scan,     \* the position of "i"
  small     \* the position of "arr1_len", where the next small element goes

sortvars == <<key, elements, calls, step, pivot, scan, small>>

Element == 1 .. Len(key)
Call == [first : Nat, last : Nat, depth : Nat]
CallSize(c) == c.last - c.first + 1

SortTypeOK ==
  /\ key \in Seq(Int)
  /\ elements \in [Element -> Element]
  /\ calls \in Seq(Call)
  /\ step \in {"call", "partition"}
  /\ pivot \in Nat /\ scan \in Nat /\ small \in Nat

\* compare_fn, and the element number where that finds no difference.
Before(a, b) ==
  \/ key[a] < key[b]
  \/ key[a] = key[b] /\ a < b

\* MakeSortedMap is called for some keys; the map starts in their order.
MakeSortedMap(keys) ==
  /\ key' = keys
  /\ elements' = [e \in 1 .. Len(keys) |-> e]
  /\ calls' = <<[first |-> 1, last |-> Len(keys), depth |-> 0]>>
  /\ step' = "call"
  /\ UNCHANGED <<pivot, scan, small>>

\* Fewer than two elements are left as they are.
Return ==
  /\ calls # <<>> /\ step = "call"
  /\ CallSize(Head(calls)) <= 1
  /\ calls' = Tail(calls)
  /\ UNCHANGED <<key, elements, step, pivot, scan, small>>

\* The pivot leaves its place to the last element.
\* fault: the first element is the pivot
FirstElement(c) == c.first
Middle(c) == c.first + CallSize(c) \div 2

ChoosePivot ==
  /\ calls # <<>> /\ step = "call"
  /\ LET c == Head(calls) IN
     /\ CallSize(c) > 1
     /\ pivot' = elements[Middle(c)]
     /\ elements' = [elements EXCEPT ![Middle(c)] = elements[c.last]]
     /\ scan' = c.first
     /\ small' = c.first
  /\ step' = "partition"
  /\ UNCHANGED <<key, calls>>

\* One turn of the loop.
Partition ==
  /\ step = "partition" /\ scan < Head(calls).last
  /\ \/ /\ Before(elements[scan], pivot)
        /\ elements' = [elements EXCEPT ![scan] = elements[small],
                                        ![small] = elements[scan]]
        /\ small' = small + 1
     \/ /\ ~Before(elements[scan], pivot)
        /\ UNCHANGED <<elements, small>>
  /\ scan' = scan + 1
  /\ UNCHANGED <<key, calls, step, pivot>>

\* The pivot goes between the two parts, which are then sorted in turn.
\* fault: the second part begins one element late
SecondFrom == small + 2
SecondPart == small + 1

PlacePivot ==
  /\ step = "partition" /\ scan = Head(calls).last
  /\ elements' = [elements EXCEPT ![Head(calls).last] = elements[small],
                                  ![small] = pivot]
  /\ LET c == Head(calls)
         deeper == c.depth + 1
     IN calls' =
          <<[first |-> c.first, last |-> small - 1, depth |-> deeper],
            [first |-> SecondPart, last |-> c.last, depth |-> deeper]>>
          \o Tail(calls)
  /\ step' = "call"
  /\ UNCHANGED <<key, pivot, scan, small>>

Sorted == calls = <<>>

\* MakeSortedMap has been called for any keys.
SortInit ==
  /\ key \in Seq(Int)
  /\ elements = [e \in Element |-> e]
  /\ calls = <<[first |-> 1, last |-> Len(key), depth |-> 0]>>
  /\ step = "call"
  /\ pivot = 0 /\ scan = 0 /\ small = 0

SortStep == Return \/ ChoosePivot \/ Partition \/ PlacePivot

SortSpec == SortInit /\ [][SortStep]_sortvars

-----------------------------------------------------------------------------
(* Properties *)

\* The result has every element, each before those it should come before
\* (sort.c:67: "an array that maps from original element index to the index
\* that element would be at if the array was sorted").
Ascending ==
  Sorted => \A i, j \in Element : i < j => Before(elements[i], elements[j])

\* The reference: the place of an element is the number of those before it.
\* The other modules use this for what MakeSortedMap returns.
SortedMap ==
  [k \in Element |->
     CHOOSE e \in Element :
       Cardinality({f \in Element : Before(f, e)}) = k - 1]

\* Both in one: the quicksort computes the reference.
SortsRight == Sorted => elements = SortedMap

TwoTo[n \in Nat] == IF n = 0 THEN 1 ELSE 2 * TwoTo[n - 1]

\* The recursion halves a list that is sorted at first, "in case the list is
\* already sorted" (sort.c:34), and one of elements that are all alike (sort.c:43:
\* "otherwise we can end up with a degenerate case").
Shallow ==
  (\A i, j \in Element : i < j => key[i] <= key[j])
    => \A k \in 1 .. Len(calls) :
         CallSize(calls[k]) * TwoTo[calls[k].depth] <= Len(key)
=============================================================================
