------------------------------ MODULE Sidedefs ------------------------------
(***************************************************************************)
(* Sidedef packing (sidedefs.c): the LINEDEFS and SIDEDEFS lumps of a      *)
(* level, rewritten by P_Pack() and P_Unpack() in run after run.           *)
(*                                                                         *)
(* A sidedef is described by its middle texture, the spelling of that name *)
(* (its letter case, which the comparison of sidedefs ignores), its upper  *)
(* and lower textures together (trim), and its place: offsets and sector.  *)
(* A linedef has a type, the two bytes in which a Doom level keeps its tag *)
(* and a Hexen level keeps arguments, and two references to sidedefs.      *)
(*                                                                         *)
(* References are 16-bit on disk, where the highest number says that there *)
(* is no sidedef; in memory they are wider.  NoIndex is that highest       *)
(* number, and the limits of the format follow from it.                    *)
(*                                                                         *)
(* Definitions marked "fault" are variants of the next definition with a   *)
(* mistake in them; the properties are tried against them.                 *)
(***************************************************************************)
EXTENDS Integers, Sequences, FiniteSets, SequencesExt

CONSTANTS NoIndex,       \* 0xffff in the code
          Levels,        \* the levels there may be at first
          Commands(_, _) \* Commands(l, k): what the k-th run may be asked on the
                         \* level that was l at first; bound: nothing after some
                         \* number of runs

MERGE_RANGE_START == 9700
MERGE_RANGE_END == 9799
MERGE_DOMAIN_SPECIAL == 0

MAX_VANILLA_SIDEDEFS == NoIndex \div 2
MAX_EXT_SIDEDEFS == NoIndex - 1

\* UINT32_MAX, every bit set: its low bits are NoIndex.
NO_SIDEDEF == -1

\* The "-" that wiping leaves for the upper and lower textures.
Wiped == 0

Sidedef == [middle : Nat, spelling : Nat, trim : Nat, place : Nat]
MergeDomain == 0 .. 255
MemSidedef ==
  [middle : Nat, spelling : Nat, trim : Nat, place : Nat, domain : MergeDomain]

Linedef(Ref) == [type : Nat, tag : Nat, sidedef1 : Ref, sidedef2 : Ref]
DiskRef == 0 .. NoIndex
MemRef == Nat \cup {NO_SIDEDEF}

\* "whole" says that both lumps have a multiple of the record size.
Level == [hexen : BOOLEAN, whole : BOOLEAN,
          linedefs : Seq(Linedef(DiskRef)), sidedefs : Seq(Sidedef)]

ASSUME NoIndexAssumption == NoIndex \in Nat \ {0}
Command == [op : {"pack", "unpack"}, extsides : BOOLEAN, wipesides : BOOLEAN]

ASSUME LevelsAssumption == Levels \subseteq Level

VARIABLES
  level,    \* the two lumps on disk
  pc,       \* where the program is; "idle" between runs
  cmd,      \* what this run was asked
  orig,     \* orig_linedefs and orig_sidedefs, as read
  lines,    \* linedefs_result
  sides,    \* unpacked_sidedefs when packing, else sidedefs_result
  size,     \* the room allocated for the array being appended to
  at,       \* the loop counter, from 1
  map,      \* the sorted map
  newindex, \* newsidedef_index
  packed,   \* the array DoPack() builds
  success,  \* what P_Pack() or P_Unpack() returned
  past,     \* history: the commands of the runs that have ended
  trail     \* history: the level before each of them and after the last

local == <<cmd, orig, lines, sides, size, at, map, newindex, packed, success>>
history == <<past, trail>>
vars == <<level, pc, local, history>>

-----------------------------------------------------------------------------
(* Reading and writing the lumps *)

MapSidedefRef(r) == IF r = NoIndex THEN NO_SIDEDEF ELSE r

\* The "& 0xffff" of WriteDoomLinedefs and WriteHexenLinedefs.
\* fault: the reference is written as it is
Unmasked(r) == r
DiskRefOf(r) == r % (NoIndex + 1)

WithRefs(ld, F(_)) ==
  [ld EXCEPT !.sidedef1 = F(@), !.sidedef2 = F(@)]

ReadLinedefs(l) ==
  [i \in DOMAIN l.linedefs |-> WithRefs(l.linedefs[i], MapSidedefRef)]

ReadSidedefs(l) ==
  [i \in DOMAIN l.sidedefs |->
     [middle |-> l.sidedefs[i].middle, spelling |-> l.sidedefs[i].spelling,
      trim |-> l.sidedefs[i].trim, place |-> l.sidedefs[i].place,
      domain |-> 0]]

DiskLinedefs(lds) == [i \in DOMAIN lds |-> WithRefs(lds[i], DiskRefOf)]

DiskSidedefs(sds) ==
  [i \in DOMAIN sds |->
     [middle |-> sds[i].middle, spelling |-> sds[i].spelling,
      trim |-> sds[i].trim, place |-> sds[i].place]]

\* CheckSidedefIndex
CheckSidedefIndex(r, n) == r = NO_SIDEDEF \/ r < n

RefsValid(ld, n) ==
  CheckSidedefIndex(ld.sidedef1, n) /\ CheckSidedefIndex(ld.sidedef2, n)

SidedefsLimit ==
  IF cmd.extsides THEN MAX_EXT_SIDEDEFS ELSE MAX_VANILLA_SIDEDEFS

-----------------------------------------------------------------------------
(* A run begins: ReadLinedefs and ReadSidedefs, after CheckLumpSizes *)

Goto(label) == pc' = label

\* What the next run may be asked.
Allowed == Command \cap Commands(trail[1], Len(past) + 1)

Start(c) ==
  /\ pc = "idle"
  /\ cmd' = c
  /\ IF ~level.whole
     THEN /\ Goto("errorexit")
          /\ UNCHANGED <<orig, lines, sides, size, at, map, newindex, packed,
                         success>>
     ELSE /\ Goto("rebuild")
          /\ orig' = [hexen |-> level.hexen, linedefs |-> ReadLinedefs(level),
                      sidedefs |-> ReadSidedefs(level)]
          /\ lines' = ReadLinedefs(level)
          /\ sides' = <<>>
          /\ size' = Len(level.sidedefs)
          /\ at' = 1
          /\ UNCHANGED <<map, newindex, packed, success>>
  /\ UNCHANGED <<level, history>>

-----------------------------------------------------------------------------
(* RebuildSidedefs: every side of every line gets a sidedef of its own *)

InMergeRange(ld) == ld.tag \in MERGE_RANGE_START .. MERGE_RANGE_END
TagDomain(ld) == (ld.tag + 2 - MERGE_RANGE_START) % 256
UntaggedDomain(ld) == IF ld.type # 0 THEN MERGE_DOMAIN_SPECIAL ELSE 1

\* fault: a Hexen line's arguments are taken for a tag
TagsInHexen(ld) ==
  IF InMergeRange(ld) THEN TagDomain(ld) ELSE UntaggedDomain(ld)
LinedefMergeDomain(ld) ==
  IF ~orig.hexen /\ InMergeRange(ld) THEN TagDomain(ld)
  ELSE UntaggedDomain(ld)

\* The copy of a line's first sidedef is wiped on a one-sided line.
\* fault: a two-sided line is wiped as well
WipesAll(ld) == cmd.wipesides
Wipes(ld) == cmd.wipesides /\ ld.sidedef2 = NO_SIDEDEF

CopyOf(ld, r, wipe) ==
  [orig.sidedefs[r + 1] EXCEPT !.domain = LinedefMergeDomain(ld),
                               !.trim = IF wipe THEN Wiped ELSE @]

Copies(ld) ==
  (IF ld.sidedef1 = NO_SIDEDEF THEN <<>>
   ELSE <<CopyOf(ld, ld.sidedef1, Wipes(ld))>>)
  \o
  (IF ld.sidedef2 = NO_SIDEDEF THEN <<>>
   ELSE <<CopyOf(ld, ld.sidedef2, FALSE)>>)

\* The line with its references to the copies, appended to n sidedefs.
\* fault: both sides of the line are left with the first copy
FirstForBoth(ld, n) ==
  [ld EXCEPT !.sidedef1 = IF @ = NO_SIDEDEF THEN @ ELSE n,
             !.sidedef2 = IF @ = NO_SIDEDEF THEN @ ELSE n]
\* fault: the number is taken after the sidedef was appended
NumberedLate(ld, n) ==
  [ld EXCEPT !.sidedef1 = IF @ = NO_SIDEDEF THEN @ ELSE n + 1,
             !.sidedef2 = IF @ = NO_SIDEDEF THEN @
                          ELSE IF ld.sidedef1 = NO_SIDEDEF THEN n + 1 ELSE n + 2]
Redirected(ld, n) ==
  [ld EXCEPT !.sidedef1 = IF @ = NO_SIDEDEF THEN @ ELSE n,
             !.sidedef2 = IF @ = NO_SIDEDEF THEN @
                          ELSE IF ld.sidedef1 = NO_SIDEDEF THEN n ELSE n + 1]

\* AppendNewSidedef doubles the room until there is enough, which only
\* comes to an end if there was some.
CanAppend(s) == s = <<>> \/ size > 0

\* The originals, and no failure, when a reference is bad.
GiveUp ==
  /\ lines' = orig.linedefs
  /\ sides' = orig.sidedefs
  /\ success' = TRUE
  /\ Goto("linedefs")

RebuildLine ==
  /\ pc = "rebuild" /\ at \in DOMAIN lines
  /\ LET ld == lines[at] IN
     \/ /\ ~RefsValid(ld, Len(orig.sidedefs))
        /\ GiveUp
        /\ UNCHANGED at
     \/ /\ RefsValid(ld, Len(orig.sidedefs))
        /\ IF CanAppend(Copies(ld))
           THEN /\ sides' = sides \o Copies(ld)
                /\ lines' = [lines EXCEPT ![at] = Redirected(ld, Len(sides))]
                /\ at' = at + 1
           ELSE UNCHANGED <<sides, lines, at>>
        /\ UNCHANGED <<success, pc>>
  /\ UNCHANGED <<level, cmd, orig, size, map, newindex, packed, history>>

-----------------------------------------------------------------------------
(* DoPack: sidedefs in sorted order, each merged with the one before *)

\* CompareSidedefs, by the places in which two sidedefs first differ: less
\* than zero, and zero.
Sooner(s, t) ==
  \/ s.middle < t.middle
  \/ s.middle = t.middle /\ s.trim < t.trim
  \/ s.middle = t.middle /\ s.trim = t.trim /\ s.domain > t.domain
  \/ /\ s.middle = t.middle /\ s.trim = t.trim /\ s.domain = t.domain
     /\ s.place > t.place

Same(s, t) == ~Sooner(s, t) /\ ~Sooner(t, s)

\* The order of SortMapElements: equal elements by their number.
\* fault: nothing is sorted
ByNumber(i, j) == i < j
Precedes(i, j) ==
  \/ Sooner(sides[i + 1], sides[j + 1])
  \/ Same(sides[i + 1], sides[j + 1]) /\ i < j

\* MakeSortedMap: the k-th element is the one that k - 1 others precede.
SortedMap ==
  LET ids == 0 .. Len(sides) - 1 IN
  [k \in 1 .. Len(sides) |->
     CHOOSE i \in ids : Cardinality({j \in ids : Precedes(j, i)}) = k - 1]

\* The room DoPack() begins with.
\* fault: none
NoRoom == 0
PackedSize == Len(sides)

Sort ==
  /\ pc = "rebuild" /\ at = Len(lines) + 1 /\ cmd.op = "pack"
  /\ map' = SortedMap
  /\ newindex' = [i \in 0 .. Len(sides) - 1 |-> NO_SIDEDEF]
  /\ packed' = <<>>
  /\ size' = PackedSize
  /\ at' = 1
  /\ Goto("merge")
  /\ UNCHANGED <<level, cmd, orig, lines, sides, success, history>>

MergesAt(k) ==
  /\ sides[map[k] + 1].domain # MERGE_DOMAIN_SPECIAL
  /\ k > 1 /\ Same(sides[map[k] + 1], sides[map[k - 1] + 1])

MergeSidedef ==
  /\ pc = "merge" /\ at \in DOMAIN map
  /\ \/ /\ MergesAt(at)
        /\ newindex' = [newindex EXCEPT ![map[at]] = newindex[map[at - 1]]]
        /\ UNCHANGED packed
        /\ at' = at + 1
     \/ /\ ~MergesAt(at)
        /\ IF CanAppend(<<sides[map[at] + 1]>>)
           THEN /\ newindex' = [newindex EXCEPT ![map[at]] = Len(packed)]
                /\ packed' = Append(packed, sides[map[at] + 1])
                /\ at' = at + 1
           ELSE UNCHANGED <<newindex, packed, at>>
  /\ UNCHANGED <<level, pc, cmd, orig, lines, sides, size, map, success,
                 history>>

-----------------------------------------------------------------------------
(* The result is kept if it is within the limit *)

NewIndex(r) == IF r = NO_SIDEDEF THEN r ELSE newindex[r]

\* RemapLinedefs, for one line.
\* fault: the sides change places
RemapSwapped(ld) ==
  [ld EXCEPT !.sidedef1 = NewIndex(ld.sidedef2),
             !.sidedef2 = NewIndex(ld.sidedef1)]
Remap(ld) == WithRefs(ld, NewIndex)

\* fault: anything does
NoLimit(n) == TRUE
Fits(n) == n <= SidedefsLimit

\* The linedefs that go with the original sidedefs.
\* fault: those made for the new ones
KeepNewLines == lines
OriginalLines == orig.linedefs

\* What P_Pack() and P_Unpack() do when the result is too long.
TooLong ==
  /\ lines' = OriginalLines
  /\ sides' = orig.sidedefs
  /\ success' = FALSE

FinishPack ==
  /\ pc = "merge" /\ at = Len(map) + 1
  /\ \/ ~Fits(Len(packed)) /\ TooLong
     \/ /\ Fits(Len(packed))
        /\ lines' = [i \in DOMAIN lines |-> Remap(lines[i])]
        /\ sides' = packed
        /\ success' = TRUE
  /\ Goto("linedefs")
  /\ UNCHANGED <<level, cmd, orig, size, at, map, newindex, packed, history>>

FinishUnpack ==
  /\ pc = "rebuild" /\ at = Len(lines) + 1 /\ cmd.op = "unpack"
  /\ \/ ~Fits(Len(sides)) /\ TooLong
     \/ Fits(Len(sides)) /\ success' = TRUE /\ UNCHANGED <<lines, sides>>
  /\ Goto("linedefs")
  /\ UNCHANGED <<level, cmd, orig, size, at, map, newindex, packed, history>>

WriteLinedefs ==
  /\ pc = "linedefs"
  /\ level' = [level EXCEPT !.linedefs = DiskLinedefs(lines)]
  /\ Goto("sidedefs")
  /\ UNCHANGED <<local, history>>

WriteSidedefs ==
  /\ pc = "sidedefs"
  /\ level' = [level EXCEPT !.sidedefs = DiskSidedefs(sides)]
  /\ past' = Append(past, cmd)
  /\ trail' = Append(trail, level')
  /\ Goto("idle")
  /\ UNCHANGED local

\* No more runs, or a lump of an impossible length ended the program.
Done ==
  /\ \/ pc = "errorexit"
     \/ pc = "idle" /\ Allowed = {}
  /\ UNCHANGED vars

Init ==
  /\ level \in Levels
  /\ pc = "idle"
  /\ cmd = [op |-> "pack", extsides |-> FALSE, wipesides |-> FALSE]
  /\ orig = [hexen |-> FALSE, linedefs |-> <<>>, sidedefs |-> <<>>]
  /\ lines = <<>> /\ sides = <<>> /\ packed = <<>>
  /\ size = 0 /\ at = 1
  /\ map = <<>> /\ newindex = <<>>
  /\ success = TRUE
  /\ past = <<>>
  /\ trail = <<level>>

Next ==
  \/ \E c \in Allowed : Start(c)
  \/ RebuildLine \/ Sort \/ MergeSidedef \/ FinishPack \/ FinishUnpack
  \/ WriteLinedefs \/ WriteSidedefs
  \/ Done

Spec == Init /\ [][Next]_vars

FairSpec == Spec /\ WF_vars(Next)

-----------------------------------------------------------------------------
(* Properties *)

TypeOK ==
  /\ level \in Level
  /\ pc \in {"idle", "rebuild", "merge", "linedefs", "sidedefs", "errorexit"}
  /\ cmd \in Command
  /\ orig.linedefs \in Seq(Linedef(MemRef))
  /\ orig.sidedefs \in Seq(MemSidedef)
  /\ lines \in Seq(Linedef(MemRef))
  /\ sides \in Seq(MemSidedef)
  /\ packed \in Seq(MemSidedef)
  /\ size \in Nat /\ at \in Nat \ {0}
  /\ map \in Seq(Nat)
  /\ newindex \in [DOMAIN newindex -> MemRef]
  /\ success \in BOOLEAN
  /\ past \in Seq(Command)
  /\ trail \in Seq(Level)

\* The sides of a level's lines, and the sidedef one of them refers to.
LineSides(l) == (DOMAIN l.linedefs) \X {1, 2}
RefOf(l, u) ==
  IF u[2] = 1 THEN l.linedefs[u[1]].sidedef1 ELSE l.linedefs[u[1]].sidedef2

\* The sides that use sidedef number r.
Users(l, r) == {u \in LineSides(l) : RefOf(l, u) = r}

RefsInLevel(l) ==
  \A u \in LineSides(l) : RefOf(l, u) = NoIndex \/ RefOf(l, u) < Len(l.sidedefs)

\* What the engine shows on a side; for a bad reference, the reference.
Shows(l, u) ==
  LET r == RefOf(l, u) IN
  IF r = NoIndex THEN <<>>
  ELSE IF r >= Len(l.sidedefs) THEN <<r>>
  ELSE <<l.sidedefs[r + 1].middle, l.sidedefs[r + 1].trim,
         l.sidedefs[r + 1].place>>

OneSided(l, u) == u[2] = 1 /\ RefOf(l, <<u[1], 2>>) = NoIndex

\* Lines whose sidedefs may be merged with each other are in one group; the
\* special lines, which keep theirs to themselves, are in group -1.
Tagged(l, u) == ~l.hexen /\ l.linedefs[u[1]].tag \in 9700 .. 9799
Group(l, u) ==
  IF Tagged(l, u) THEN l.linedefs[u[1]].tag
  ELSE IF l.linedefs[u[1]].type # 0 THEN -1 ELSE 0

\* P_IsPacked: a bad reference makes it say no.
IsPacked(l) ==
  /\ RefsInLevel(l)
  /\ \E u, v \in LineSides(l) :
       u # v /\ RefOf(l, u) = RefOf(l, v) /\ RefOf(l, u) # NoIndex

\* The runs have ended and the last one did op, successfully.
Ended(op) ==
  /\ pc = "idle" /\ past # <<>>
  /\ Last(past).op = op /\ success /\ RefsInLevel(level)

\* Whatever is packed and unpacked, in whatever order and with whatever
\* limits, each side of each line shows the textures it showed at first, with
\* the same offsets and sector: only the useless textures of a one-sided line
\* may go, and only if it was asked (wadptr.1, "-wipesides").
KeepsEveryLine ==
  pc = "idle" =>
    LET l == trail[1]
        wiped == \E i \in DOMAIN past : past[i].wipesides
    IN
    /\ DOMAIN level.linedefs = DOMAIN l.linedefs
    /\ \A u \in LineSides(l) :
         /\ level.linedefs[u[1]].type = l.linedefs[u[1]].type
         /\ level.linedefs[u[1]].tag = l.linedefs[u[1]].tag
         /\ \/ Shows(level, u) = Shows(l, u)
            \/ /\ wiped /\ OneSided(l, u) /\ Len(Shows(l, u)) = 3
               /\ Shows(level, u) = [Shows(l, u) EXCEPT ![2] = Wiped]

\* A sidedef is never shared with a special line, unless by lines that all
\* bear the same tag of the magic range (sidedefs.c:532-560).
OnlyAlikeShare ==
  Ended("pack") \/ Ended("unpack") =>
    \A u, v \in LineSides(level) :
      u # v /\ RefOf(level, u) = RefOf(level, v) /\ RefOf(level, u) # NoIndex
        => Group(level, u) = Group(level, v) /\ Group(level, u) # -1

\* Packing leaves nothing to be merged, and no sidedef without a line: this
\* is where DoPack() needs equal sidedefs to be neighbours in the sorted map
\* (sidedefs.c:436-442).
FullyPacked ==
  Ended("pack") =>
    /\ \A r \in 0 .. Len(level.sidedefs) - 1 : Users(level, r) # {}
    /\ \A u, v \in LineSides(level) :
         /\ Shows(level, u) # <<>> /\ Shows(level, u) = Shows(level, v)
         /\ Group(level, u) = Group(level, v) /\ Group(level, u) # -1
         => RefOf(level, u) = RefOf(level, v)

\* Unpacking leaves each side of each line a sidedef of its own and nothing
\* else in the lump, and "wadptr -l" then says so.
FullyUnpacked ==
  Ended("unpack") =>
    /\ ~IsPacked(level)
    /\ \A r \in 0 .. Len(level.sidedefs) - 1 : Cardinality(Users(level, r)) = 1

\* Doing the same thing again changes nothing (run_tests.sh:52-55, 77-81), and
\* packing what was packed and then unpacked with the same options gives the
\* packed lumps again, to the last sidedef.
Repeatable ==
  pc = "idle" =>
    /\ \A i \in 2 .. Len(past) : past[i] = past[i - 1] => trail[i + 1] = trail[i]
    /\ \A i \in 3 .. Len(past) :
         /\ past[i] = past[i - 2] /\ past[i].op = "pack"
         /\ past[i - 1] = [past[i] EXCEPT !.op = "unpack"]
         => trail[i + 1] = trail[i - 1]

\* Without -extsides, an engine that reads references as signed numbers can
\* still read a level it could read before (sidedefs.c:36-40, 203).
VanillaStaysVanilla ==
  LET Signed(l) == \A u \in LineSides(l) :
                     RefOf(l, u) \in 0 .. NoIndex \div 2 \/ RefOf(l, u) = NoIndex
  IN pc = "idle" /\ (\A i \in DOMAIN past : ~past[i].extsides)
       => (Signed(trail[1]) => Signed(level))

\* RemapLinedefs() trusts the references, which were checked only against
\* the original sidedefs (sidedefs.c:478-480): they stay within the arrays
\* they refer to, before and after they are renumbered.
RefsInArrays ==
  LET Below(r, n) == r = NO_SIDEDEF \/ r \in 0 .. n - 1 IN
  /\ pc = "rebuild" =>
       \A i \in 1 .. at - 1 : /\ Below(lines[i].sidedef1, Len(sides))
                              /\ Below(lines[i].sidedef2, Len(sides))
  /\ pc = "merge" =>
       /\ \A i \in DOMAIN lines : /\ Below(lines[i].sidedef1, Len(sides))
                                  /\ Below(lines[i].sidedef2, Len(sides))
       /\ \A k \in 1 .. at - 1 : newindex[map[k]] \in 0 .. Len(packed) - 1

\* Every run comes to an end: the array AppendNewSidedef() doubles always
\* has room for something.
RunsEnd == []<>(pc \in {"idle", "errorexit"})
=============================================================================
