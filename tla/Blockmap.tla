------------------------------ MODULE Blockmap ------------------------------
(***************************************************************************)
(* Blockmap stacking (blockmap.c): a BLOCKMAP lump rewritten by B_Stack()  *)
(* and B_Unstack() in run after run.                                       *)
(*                                                                         *)
(* A blockmap is a sequence of unsigned words: four words of header, of    *)
(* which the last two are the numbers of columns and rows, then for each   *)
(* block the offset of its list, then the lists.  A list ends with the     *)
(* highest word.  Offsets count from 0, sequences from 1.                  *)
(*                                                                         *)
(* Definitions marked "fault" are variants of the next definition with a   *)
(* mistake in them; the properties are tried against them.                 *)
(***************************************************************************)
EXTENDS Naturals, Sequences, FiniteSets, SequencesExt

CONSTANTS Half,     \* 2^15 in the code: half as many as there are words
          Lumps,    \* what node builders make: [elements, lists]
          Commands, \* what a run may be asked: [op, extblocks]
          MaxRuns   \* bound: runs of the program on the lump

Word == 0 .. 2 * Half - 1
Sentinel == 2 * Half - 1

VANILLA_MAX_BLOCKMAP_OFFSET == Half - 1
EXTENDED_MAX_BLOCKMAP_OFFSET == Sentinel - 1

ASSUME HalfAssumption == Half \in Nat /\ Half > 3
ASSUME LumpsAssumption ==
  Lumps \subseteq [elements : Seq(Word), lists : Seq(Seq(Word))]
ASSUME CommandsAssumption ==
  /\ Commands \subseteq [op : {"stack", "unstack"}, extblocks : BOOLEAN]
  /\ Commands # {}
ASSUME MaxRunsAssumption == MaxRuns \in Nat

VARIABLES
  lump,    \* the BLOCKMAP lump on disk
  pc,      \* where the program is; "idle" between runs
  cmd,     \* what this run was asked
  blocks,  \* blocklist: the lists, each with its sentinel
  map,     \* sorted_map
  at,      \* the loop counter, from 1
  result,  \* the result of RebuildBlockmap, then blockmap_result
  success, \* what B_Stack() or B_Unstack() returned
  lists,   \* history: the lists the node builder meant
  past,    \* history: the commands of the runs that have ended
  trail    \* history: the lump before each of them and after the last

local == <<cmd, blocks, map, at, result, success>>
history == <<lists, past, trail>>
vars == <<lump, pc, local, history>>

TypeOK ==
  /\ lump \in Seq(Word)
  /\ pc \in {"idle", "check", "place", "finish", "write"}
  /\ cmd \in Commands
  /\ blocks \in Seq(Seq(Word))
  /\ map \in [1 .. Len(blocks) -> 1 .. Len(blocks)]
  /\ at \in Nat \ {0}
  /\ result \in Seq(Word)
  /\ success \in BOOLEAN
  /\ past \in Seq(Commands)
  /\ trail \in Seq(Seq(Word))

-----------------------------------------------------------------------------
(* Reading a blockmap *)

NumBlocks(e) == e[3] * e[4]

\* IsValidBlockmap
IsValidBlockmap(e) == Len(e) >= 4 /\ Len(e) >= NumBlocks(e) + 4

OffsetOf(e, b) == e[4 + b]

\* The words from an offset up to the next sentinel.
ListAt(e, offset) ==
  LET end == CHOOSE k \in offset + 1 .. Len(e) :
               e[k] = Sentinel /\ \A j \in offset + 1 .. k - 1 : e[j] # Sentinel
  IN SubSeq(e, offset + 1, end)

\* MakeBlocklist
MakeBlocklist(e) == [b \in 1 .. NumBlocks(e) |-> ListAt(e, OffsetOf(e, b))]

\* IsOverflowedBlockmap: more than one list ends where no offset reaches.
\* fault: only the end of the lump is looked at
OverflowAtEnd(e) ==
  Len(e) >= EXTENDED_MAX_BLOCKMAP_OFFSET /\ e[Len(e)] # Sentinel
IsOverflowedBlockmap(e) ==
  /\ Len(e) >= EXTENDED_MAX_BLOCKMAP_OFFSET
  /\ \/ Cardinality({i \in EXTENDED_MAX_BLOCKMAP_OFFSET + 1 .. Len(e) :
                       e[i] = Sentinel}) > 1
     \/ e[Len(e)] # Sentinel

BlockmapLimit ==
  IF cmd.extblocks THEN EXTENDED_MAX_BLOCKMAP_OFFSET
  ELSE VANILLA_MAX_BLOCKMAP_OFFSET

-----------------------------------------------------------------------------
(* A run begins *)

Goto(label) == pc' = label

Start(c) ==
  /\ pc = "idle" /\ Len(past) < MaxRuns
  /\ cmd' = c
  /\ Goto("check")
  /\ UNCHANGED <<lump, blocks, map, at, result, success, history>>

\* The lump is written as it is.
Keep(returns) ==
  /\ result' = lump
  /\ success' = returns
  /\ Goto("write")

\* LargestBlockCompare, equal elements by their number as in SortMapElements.
\* fault: the blocks stay in the order of their offsets
PrecedesByOffset(list, i, j) ==
  \/ OffsetOf(lump, i) < OffsetOf(lump, j)
  \/ OffsetOf(lump, i) = OffsetOf(lump, j) /\ i < j
Precedes(list, i, j) ==
  \/ Len(list[i]) > Len(list[j])
  \/ Len(list[i]) = Len(list[j]) /\ i < j

\* MakeSortedMap: the k-th element is the one that k - 1 others precede.
SortedMap(list) ==
  [k \in DOMAIN list |->
     CHOOSE i \in DOMAIN list :
       Cardinality({j \in DOMAIN list : Precedes(list, j, i)}) = k - 1]

\* The largest block goes to the end.
\* fault: one element too few is moved down
MovesTooFew(m) ==
  IF m = <<>> THEN m ELSE Append(SubSeq(m, 2, Len(m) - 1), Head(m))
LargestLast(m) == IF m = <<>> THEN m ELSE Append(Tail(m), Head(m))

\* B_Stack() or B_Unstack() up to the loop of RebuildBlockmap.
Check ==
  /\ pc = "check"
  /\ \/ /\ ~IsValidBlockmap(lump)
        /\ Keep(TRUE)
        /\ UNCHANGED <<blocks, map, at>>
     \/ /\ IsValidBlockmap(lump)
        /\ cmd.op = "stack" /\ IsOverflowedBlockmap(lump)
        /\ Keep(FALSE)
        /\ UNCHANGED <<blocks, map, at>>
     \/ /\ IsValidBlockmap(lump)
        /\ cmd.op = "stack" => ~IsOverflowedBlockmap(lump)
        /\ blocks' = MakeBlocklist(lump)
        /\ map' = LargestLast(SortedMap(MakeBlocklist(lump)))
        /\ at' = 1
        /\ result' = SubSeq(lump, 1, 4) \o [b \in 1 .. NumBlocks(lump) |-> 0]
        /\ Goto("place")
        /\ UNCHANGED success
  /\ UNCHANGED <<lump, cmd, history>>

-----------------------------------------------------------------------------
(* RebuildBlockmap: each list is found again, or appended *)

\* fault: a list is only found at the end of a longer one
MatchesLonger(list, of) == IsStrictSuffix(list, of)
Matches(list, of) == IsSuffix(list, of)

\* FindIdenticalBlock: the earlier blocks, as positions in the map.
\* fault: also when unstacking
EarlierAlways(k) ==
  {j \in 1 .. k - 1 : Matches(blocks[map[k]], blocks[map[j]])}
Earlier(k) ==
  IF cmd.op = "stack"
  THEN {j \in 1 .. k - 1 : Matches(blocks[map[k]], blocks[map[j]])}
  ELSE {}

\* fault: a suffix is taken for the whole list
WholeOffset(b, m) == OffsetOf(result, m) % (2 * Half)
SharedOffset(b, m) ==
  (OffsetOf(result, m) + Len(blocks[m]) - Len(blocks[b])) % (2 * Half)

\* fault: a list only has to begin within the lump
NoLimit == FALSE
PastLimit == Len(result) > BlockmapLimit

PlaceBlock ==
  /\ pc = "place" /\ at \in DOMAIN map
  /\ LET b == map[at] IN
     \/ /\ Earlier(at) # {}
        /\ LET first == CHOOSE j \in Earlier(at) : \A k \in Earlier(at) : j <= k
           IN result' = [result EXCEPT ![4 + b] = SharedOffset(b, map[first])]
        /\ at' = at + 1
        /\ UNCHANGED pc
     \/ /\ Earlier(at) = {} /\ PastLimit
        /\ result' = <<>>
        /\ Goto("finish")
        /\ UNCHANGED at
     \/ /\ Earlier(at) = {} /\ ~PastLimit
        /\ result' =
             [result EXCEPT ![4 + b] = Len(result) % (2 * Half)] \o blocks[b]
        /\ at' = at + 1
        /\ UNCHANGED pc
  /\ UNCHANGED <<lump, cmd, blocks, map, success, history>>

\* The end of B_Stack() or B_Unstack().
Worse == cmd.op = "stack" /\ Len(result) > Len(lump)

Finish ==
  /\ \/ pc = "finish"
     \/ pc = "place" /\ at = Len(map) + 1
  /\ \/ result = <<>> /\ Keep(FALSE)
     \/ result # <<>> /\ Worse /\ Keep(TRUE)
     \/ /\ result # <<>> /\ ~Worse
        /\ success' = TRUE
        /\ Goto("write")
        /\ UNCHANGED result
  /\ UNCHANGED <<lump, cmd, blocks, map, at, history>>

\* B_WriteBlockmap
Write ==
  /\ pc = "write"
  /\ lump' = result
  /\ past' = Append(past, cmd)
  /\ trail' = Append(trail, result)
  /\ Goto("idle")
  /\ UNCHANGED <<local, lists>>

Done == pc = "idle" /\ Len(past) = MaxRuns /\ UNCHANGED vars

Init ==
  /\ \E l \in Lumps : lump = l.elements /\ lists = l.lists
  /\ pc = "idle"
  /\ cmd = CHOOSE c \in Commands : TRUE
  /\ blocks = <<>> /\ map = <<>> /\ at = 1 /\ result = <<>>
  /\ success = TRUE
  /\ past = <<>>
  /\ trail = <<lump>>

Next ==
  \/ \E c \in Commands : Start(c)
  \/ Check \/ PlaceBlock \/ Finish \/ Write
  \/ Done

Spec == Init /\ [][Next]_vars

-----------------------------------------------------------------------------
(* What may be said of the lumps node builders make *)

\* Every offset of a blockmap leads to a list with an end.
HasEnds(e) ==
  \A b \in 1 .. NumBlocks(e) :
    \E k \in OffsetOf(e, b) + 1 .. Len(e) : e[k] = Sentinel
EndsFound ==
  \A l \in Lumps : IsValidBlockmap(l.elements) => HasEnds(l.elements)

\* A blockmap whose lists offsets can reach has those that were meant.
Meant ==
  \A l \in Lumps :
    IsValidBlockmap(l.elements) /\ ~IsOverflowedBlockmap(l.elements)
      => MakeBlocklist(l.elements) = l.lists

\* No list is the end of a longer one.
Unnested(list) ==
  \A a, b \in DOMAIN list : IsSuffix(list[a], list[b]) => list[a] = list[b]
NoneNested ==
  \A l \in Lumps :
    IsValidBlockmap(l.elements) => Unnested(MakeBlocklist(l.elements))

-----------------------------------------------------------------------------
(* Properties *)

Offsets(e) == {OffsetOf(e, b) : b \in 1 .. NumBlocks(e)}

\* B_IsStacked
IsStacked(e) ==
  /\ IsValidBlockmap(e)
  /\ \E a, b \in 1 .. NumBlocks(e) : a # b /\ OffsetOf(e, a) = OffsetOf(e, b)

\* The last run did op, successfully, to a lump it could understand.
Ended(op) ==
  /\ pc = "idle" /\ past # <<>>
  /\ Last(past).op = op /\ success /\ IsValidBlockmap(lump)

\* Unless the lump is left as it was, every block has the list of lines that
\* the node builder meant it to have.  Stacking keeps its hands off a lump
\* whose offsets have wrapped round; unstacking does not look.
KeepsLists ==
  pc = "idle" =>
    \/ lump = trail[1]
    \/ MakeBlocklist(lump) = lists
    \/ /\ IsOverflowedBlockmap(trail[1])
       /\ \E i \in DOMAIN past : past[i].op = "unstack"

\* "Corrupt BLOCKMAP lumps are now detected and no attempt is made to process
\* them" (NEWS.md:81): a lump with lists that no offset reaches stays as it is,
\* whatever the program is asked to do.
CorruptLeftAlone ==
  pc = "idle" /\ IsOverflowedBlockmap(trail[1]) => lump = trail[1]

\* A lump is left alone or stacked as far as whole lists go: blocks with the
\* same list share it.
FullyStacked ==
  Ended("stack") =>
    \/ lump = trail[Len(trail) - 1]
    \/ \A a, b \in 1 .. NumBlocks(lump) :
         ListAt(lump, OffsetOf(lump, a)) = ListAt(lump, OffsetOf(lump, b))
           => OffsetOf(lump, a) = OffsetOf(lump, b)

\* Unstacking gives each block a list of its own, with nothing between them
\* and nothing after, and "wadptr -l" then says so.
FullyUnstacked ==
  Ended("unstack") =>
    /\ ~IsStacked(lump)
    /\ \A i \in NumBlocks(lump) + 5 .. Len(lump) :
         Cardinality({b \in 1 .. NumBlocks(lump) :
           i \in OffsetOf(lump, b) + 1 ..
                 OffsetOf(lump, b) + Len(ListAt(lump, OffsetOf(lump, b)))}) = 1

\* Doing the same thing again changes nothing (run_tests.sh:52-55, 77-81), and
\* stacking what was stacked and then unstacked with the same limit gives the
\* stacked lump again, unless it was one that stacking could not improve.
Repeatable ==
  pc = "idle" =>
    /\ \A i \in 2 .. Len(past) : past[i] = past[i - 1] => trail[i + 1] = trail[i]
    /\ \A i \in 3 .. Len(past) :
         /\ past[i] = past[i - 2] /\ past[i].op = "stack"
         /\ past[i - 1] = [past[i] EXCEPT !.op = "unstack"]
         => \/ trail[i + 1] = trail[i - 1]
            \/ trail[i - 1] = trail[i - 2]

\* Without -extblocks, an engine that reads offsets as signed numbers finds
\* every list it found before: no blockmap is made to exceed the vanilla
\* limit (blockmap.c:129).
VanillaStaysVanilla ==
  LET Signed(e) == \A o \in Offsets(e) : o <= VANILLA_MAX_BLOCKMAP_OFFSET
  IN pc = "idle" /\ IsValidBlockmap(lump)
       /\ (\A i \in DOMAIN past : ~past[i].extblocks)
     => (Signed(trail[1]) => Signed(lump))
=============================================================================
