------------------------------- MODULE WadFile -------------------------------
(***************************************************************************)
(* WAD files word for word (waddir.c, wadmerge.c, main.c): Compress() and  *)
(* Decompress() go through the lumps of a file, have each one packed,      *)
(* stacked or squashed or store it as it is, and write them, a directory   *)
(* and a header to a new file, which Compress() then rewrites once more    *)
(* with identical lumps merged.                                            *)
(*                                                                         *)
(* Files are sequences of words of 4 bytes; lengths and offsets count      *)
(* words.  A lump is a thing in one of its forms: "small" is what          *)
(* compressing makes of it, "plain" what decompressing makes of it, "raw"  *)
(* what another tool has written, "joined" a raw picture whose posts have  *)
(* been combined in place, and "garbled" what it is no more once a codec   *)
(* has taken it for something else.  A form that a thing does not have is  *)
(* one that does not fit a limit or cannot be read, so that the old one is *)
(* kept; how the codecs make them is the business of Sidedefs, Blockmap    *)
(* and Graphics.  What can fail when writing is that of WadRewrite.  The   *)
(* sorted map of the second pass, the variable "elements", is made by Sort. *)
(*                                                                         *)
(* Definitions marked "fault" are variants of the next definition with a   *)
(* mistake in them; the properties are tried against them.                 *)
(***************************************************************************)
EXTENDS Sort, SequencesExt

CONSTANTS
  Sizes,      \* Sizes[t][f]: the length of thing t in form f
  Graphical,  \* the things that look like pictures
  Foreign,    \* level lumps that are not in Doom's format
  Overflowed, \* blockmaps too long for the offsets in them
  NameOrder,  \* the names of lumps, in alphabetical order
  NoPicture,  \* those for which S_IsGraphic() does not look further
  Type,       \* IWAD, PWAD
  MaxPos,     \* INT32_MAX in the code
  Beyond,     \* a number larger than any file: what other words read as
  Wads,       \* the files there may be at first
  Commands(_, _)
              \* Commands(w, k): what the k-th run may be asked on the file that
              \* was w at first; bound: nothing after some number of runs

WAD_HEADER_SIZE == 3
ENTRY_SIZE == 4

Thing == DOMAIN Sizes
Name == ToSet(NameOrder)
Form == {"raw", "joined", "small", "plain", "garbled"}
Command == [op : {"compress", "decompress"},
            allowpack : BOOLEAN, allowstack : BOOLEAN,
            allowsquash : BOOLEAN, allowmerge : BOOLEAN]

\* The words of a file, and the contents of a lump.
Long(n) == <<"long", n>>
Magic(type) == <<"magic", type>>
NameWords(name) == <<<<"name", name, 1>>, <<"name", name, 2>>>>
Content(t, f) == [k \in 1 .. Sizes[t][f] |-> <<"lump", t, f, k>>]

Word ==
  ({"long"} \X Nat) \cup ({"magic"} \X Type) \cup ({"name"} \X Name \X {1, 2})
  \cup ({"lump"} \X Thing \X Form \X Nat)

Entry == [offset : Nat, length : Nat, name : Word \X Word]

ASSUME SizesAssumption ==
  \A t \in Thing : /\ DOMAIN Sizes[t] \subseteq Form
                   /\ \A f \in DOMAIN Sizes[t] : Sizes[t][f] \in Nat \ {0}
                   /\ "joined" \in DOMAIN Sizes[t] =>  \* within the old lump
                        "raw" \in DOMAIN Sizes[t] /\ Sizes[t].joined = Sizes[t].raw
ASSUME ThingsAssumption ==
  /\ Graphical \subseteq Thing /\ Foreign \subseteq Thing
  /\ \A t \in Foreign : "garbled" \in DOMAIN Sizes[t]
  /\ Overflowed \subseteq Thing \ Graphical
  /\ \A t \in Overflowed : DOMAIN Sizes[t] = {"raw", "garbled"}
ASSUME NamesAssumption ==
  /\ NameOrder \in Seq(STRING) /\ NoPicture \subseteq Name
  /\ {"BLOCKMAP", "LINEDEFS", "SIDEDEFS"} \subseteq NoPicture  \* IsLevelEntry
ASSUME WadsAssumption ==
  \A w \in Wads : w \in Seq(Word) /\ w # <<>> /\ \E t \in Type : w[1] = Magic(t)
ASSUME MaxPosAssumption == MaxPos \in Nat /\ Beyond \in Nat /\ Beyond > MaxPos

VARIABLES
  wad,     \* the file
  pc,      \* where the program is; "idle" between runs
  cmd,     \* what this run was asked
  type, entries, psx_format,
  old,     \* the file that is read
  new,     \* the file that is written, at its end
  count,   \* the loops over the lumps
  lumps,   \* those that RebuildMergedWad() has written: [data, offset]
  stats,
  past,    \* history: the runs that have ended, [cmd, done]
  trail    \* history: the file before each of them and after the last

wadfile == <<type, entries, psx_format, old>>
merge == <<lumps, sortvars>>
history == <<past, trail>>
vars == <<wad, pc, cmd, wadfile, new, count, merge, stats, history>>

NoStats == [orig |-> 0, new |-> 0, junk |-> 0, packed |-> 0, stacked |-> 0,
            squashed |-> 0, merged |-> 0]

-----------------------------------------------------------------------------
(* Reading *)

\* A word read as a number.
Number(w) == IF w[1] = "long" /\ w[2] \in Nat THEN w[2] ELSE Beyond

NumEntries(f) == Number(f[2])
DirOffset(f) == Number(f[3])

\* ReadWadEntry at an offset; ReadWadDirectory
EntryAt(f, a) ==
  [offset |-> Number(f[a + 1]), length |-> Number(f[a + 2]),
   name |-> <<f[a + 3], f[a + 4]>>]
Directory(f) ==
  [k \in 1 .. NumEntries(f) |-> EntryAt(f, DirOffset(f) + ENTRY_SIZE * (k - 1))]

\* OpenWadFile does not end in an error.
Opens(f) ==
  /\ Len(f) >= WAD_HEADER_SIZE
  /\ \E t \in Type : f[1] = Magic(t)
  /\ NumEntries(f) = 0 \/ DirOffset(f) + ENTRY_SIZE * NumEntries(f) <= Len(f)

OpenWadFile(f) ==
  /\ old' = f
  /\ type' = f[1][2]
  /\ entries' = Directory(f)

\* CacheLump, and whether there are that many words to read.
CacheLump(f, e) == [i \in 1 .. e.length |-> f[e.offset + i]]
InFile(f, e) == e.length = 0 \/ e.offset + e.length <= Len(f)

HasName(k, name) == entries[k].name = NameWords(name)

-----------------------------------------------------------------------------
(* Writing *)

\* The position at which WriteWadLump writes, and the file it leaves.
Tell(f) == IF Len(f) < WAD_HEADER_SIZE THEN WAD_HEADER_SIZE ELSE Len(f)
WithLump(f, data) ==
  (IF Len(f) < WAD_HEADER_SIZE THEN [k \in 1 .. WAD_HEADER_SIZE |-> Long(0)] ELSE f)
  \o data

\* CheckedTell
\* fault: any position will do
AnyPosition(f) == TRUE
InRange(f) == Len(f) <= MaxPos

\* WriteWadDirectory: the entries, and then the header over the first words.
EntryWords(e) == <<Long(e.offset), Long(e.length)>> \o e.name
DirectoryWords ==
  [i \in 1 .. ENTRY_SIZE * Len(entries) |->
     EntryWords(entries[((i - 1) \div ENTRY_SIZE) + 1])[((i - 1) % ENTRY_SIZE) + 1]]
WithDirectory(f) ==
  LET all == f \o DirectoryWords
  IN <<Magic(type), Long(Len(entries)), Long(Len(f))>>
     \o SubSeq(all, WAD_HEADER_SIZE + 1, Len(all))

-----------------------------------------------------------------------------
(* A run begins *)

Goto(label) == pc' = label

\* The file is replaced, or the program stops and leaves it as it is.
EndRun(c, f, done) ==
  /\ wad' = f
  /\ past' = Append(past, [cmd |-> c, done |-> done])
  /\ trail' = Append(trail, f)
  /\ Goto("idle")

\* What those lumps of a directory amount to.
Amount(dir, K) ==
  LET upto[k \in 0 .. Len(dir)] ==
        IF k = 0 THEN 0 ELSE upto[k - 1] + (IF k \in K THEN dir[k].length ELSE 0)
  IN upto[Len(dir)]

ExpectedSize(dir) ==
  WAD_HEADER_SIZE + ENTRY_SIZE * Len(dir) + Amount(dir, DOMAIN dir)

Larger(a, b) == IF a > b THEN a ELSE b

Begin(c) ==
  /\ pc = "idle"
  /\ cmd' = c
  /\ \/ /\ ~Opens(wad)
        /\ EndRun(c, wad, FALSE)
        /\ UNCHANGED <<wadfile, new, count, stats>>
     \/ /\ Opens(wad)
        /\ OpenWadFile(wad)
        /\ psx_format' = \E k \in DOMAIN entries' :
                           entries'[k].name \in {NameWords("LEAFS"), NameWords("LIGHTS")}
        /\ stats' = IF c.op = "decompress" THEN NoStats
                    ELSE [NoStats EXCEPT
                            !.orig = Len(wad),
                            !.junk = Larger(Len(wad) - ExpectedSize(entries'), 0)]
        /\ new' = <<>> /\ count' = 1
        /\ Goto("lumps")
        /\ UNCHANGED <<wad, history>>
  /\ UNCHANGED merge

-----------------------------------------------------------------------------
(* The first pass: one lump at a time *)

Compresses == cmd.op = "compress"

\* fault: the levels of consoles are packed like any others
PacksAll == cmd.allowpack
Packs == cmd.allowpack /\ ~psx_format

IsSidedefs(k) ==
  /\ k \in DOMAIN entries \ {1}
  /\ HasName(k, "SIDEDEFS") /\ HasName(k - 1, "LINEDEFS")

Lump(k) == CacheLump(old, entries[k])
IsThing(data, t) ==
  \E f \in DOMAIN Sizes[t] \ {"garbled"} : data = Content(t, f)

IsGraphic(k) ==
  /\ \A name \in NoPicture : ~HasName(k, name)
  /\ InFile(old, entries[k])
  /\ \E t \in Graphical : IsThing(Lump(k), t)

\* What is done with a lump: the first of these that applies.
Deferred(k) == Packs /\ IsSidedefs(k + 1)
Packed(k) == Packs /\ IsSidedefs(k)
Stacked(k) == cmd.allowstack /\ HasName(k, "BLOCKMAP")
Squashed(k) == cmd.allowsquash /\ IsGraphic(k)
Stored(k) == ~(Deferred(k) \/ Packed(k) \/ Stacked(k) \/ Squashed(k))
Empty(k) == Stored(k) /\ entries[k].length = 0

\* A lump whose thing has the form that the run aims at is recoded.
Target == IF Compresses THEN "small" ELSE "plain"
RecodedAs(data, t) == IsThing(data, t) /\ Target \in DOMAIN Sizes[t]
Recodes(data) == \E t \in Thing : RecodedAs(data, t)
Recoded(data) ==
  IF Recodes(data)
  THEN Content(CHOOSE t \in Thing : RecodedAs(data, t), Target)
  ELSE data

\* S_Squash or B_Stack has made more of a lump than it was, and gives that up.
GivenUp(data) == Compresses /\ Len(Recoded(data)) > Len(data)

\* B_Stack and B_Unstack; only the first looks for blockmaps that overflow, the
\* other makes some other blockmap of them.
IsOverflowed(data) == \E t \in Overflowed : IsThing(data, t)
Restacked(data) ==
  IF IsOverflowed(data) /\ ~Compresses
  THEN Content(CHOOSE t \in Overflowed : IsThing(data, t), "garbled")
  ELSE IF GivenUp(data) THEN data ELSE Recoded(data)

\* S_Squash and S_Unsquash; CombinePosts has worked on the old lump, which is
\* what is kept when squashing is given up.
Joins(data, t) == "joined" \in DOMAIN Sizes[t] /\ data = Content(t, "raw")
Joined(data) ==
  IF \E t \in Thing : Joins(data, t)
  THEN Content(CHOOSE t \in Thing : Joins(data, t), "joined")
  ELSE data
Resquashed(data) == IF GivenUp(data) THEN Joined(data) ELSE Recoded(data)

\* P_Pack and P_Unpack: both lumps or neither; what they make of lumps that
\* are not in Doom's format is anything but that.
IsForeign(data) == \E t \in Foreign : IsThing(data, t)
Level(k) ==
  LET ld == Lump(k - 1)
      sd == Lump(k)
  IN IF IsForeign(sd)
     THEN <<ld, Content(CHOOSE t \in Foreign : IsThing(sd, t), "garbled")>>
     ELSE IF Recodes(ld) /\ Recodes(sd) THEN <<Recoded(ld), Recoded(sd)>>
     ELSE <<ld, sd>>

\* The entry of a lump that is written to a file.
\* fault: the length in the directory is that of the old lump
OldLength(e, f, data) == [e EXCEPT !.offset = Tell(f)]
Written(e, f, data) == [e EXCEPT !.offset = Tell(f), !.length = Len(data)]

\* What a method has saved on the lump of this turn; only Compress() counts.
\* fault: the old length is read when it has been overwritten by the new one
SavingAfter(method, data) ==
  IF Compresses THEN [stats EXCEPT ![method] = @ + entries'[count].length - Len(data)]
  ELSE stats
Saving(method, data) ==
  IF Compresses THEN [stats EXCEPT ![method] = @ + entries[count].length - Len(data)]
  ELSE stats

\* Something is read that is not there, or a position is out of range.
CannotAdd ==
  LET k == count IN
  \/ Packed(k) /\ ~(/\ InFile(old, entries[k]) /\ InFile(old, entries[k - 1])
                    /\ InRange(new) /\ InRange(WithLump(new, Level(k)[1])))
  \/ ~(Packed(k) \/ Deferred(k) \/ Empty(k))
       /\ ~(InFile(old, entries[k]) /\ InRange(new))

MoreLumps == pc = "lumps" /\ count \in DOMAIN entries

\* LINEDEFS waits for SIDEDEFS.
Defer ==
  /\ MoreLumps /\ Deferred(count)
  /\ UNCHANGED <<entries, new, stats>>

\* TryPack, TryUnpack
Pack ==
  /\ MoreLumps /\ Packed(count) /\ ~CannotAdd
  /\ LET both == Level(count)
         then == WithLump(new, both[1])
     IN /\ entries' =
             [entries EXCEPT ![count - 1] = Written(@, new, both[1]),
                             ![count] = Written(@, then, both[2])]
        /\ new' = WithLump(then, both[2])
        /\ stats' = Saving("packed", both[2])

\* The lump of this turn is written.
WriteWadLump(data) ==
  /\ entries' = [entries EXCEPT ![count] = Written(@, new, data)]
  /\ new' = WithLump(new, data)

\* TryStack, TryUnstack
Stack ==
  /\ MoreLumps /\ Stacked(count) /\ ~Packed(count) /\ ~Deferred(count) /\ ~CannotAdd
  /\ WriteWadLump(Restacked(Lump(count)))
  /\ stats' = Saving("stacked", Restacked(Lump(count)))

\* TrySquash, TryUnsquash
Squash ==
  /\ MoreLumps /\ Squashed(count) /\ ~Stacked(count) /\ ~Packed(count)
  /\ ~Deferred(count) /\ ~CannotAdd
  /\ WriteWadLump(Resquashed(Lump(count)))
  /\ stats' = Saving("squashed", Resquashed(Lump(count)))

Store ==
  /\ MoreLumps /\ Stored(count) /\ ~Empty(count) /\ ~CannotAdd
  /\ WriteWadLump(Lump(count))
  /\ UNCHANGED stats

\* fault: an empty lump keeps the offset it had
OldOffset(e) == e.offset
NoOffset(e) == 0

LeaveEmpty ==
  /\ MoreLumps /\ Empty(count)
  /\ entries' = [entries EXCEPT ![count].offset = NoOffset(entries[count])]
  /\ UNCHANGED <<new, stats>>

NextLump ==
  /\ Defer \/ Pack \/ Stack \/ Squash \/ Store \/ LeaveEmpty
  /\ count' = count + 1
  /\ UNCHANGED <<wad, pc, cmd, type, psx_format, old, merge, history>>

ErrorExit ==
  /\ \/ MoreLumps /\ CannotAdd
     \/ pc = "lumps" /\ count = Len(entries) + 1 /\ ~InRange(new)
     \/ pc = "merge" /\ Sorted /\ count = Len(entries) + 1 /\ ~InRange(new)
     \/ /\ pc = "merge" /\ Sorted /\ count \in DOMAIN elements
        /\ ~(InFile(old, entries[elements[count]]) /\ InRange(new))
  /\ EndRun(cmd, wad, FALSE)
  /\ UNCHANGED <<cmd, wadfile, new, count, merge, stats>>

-----------------------------------------------------------------------------
(* The second pass: RebuildMergedWad *)

\* The directory of the first pass, which is opened again for merging.
EndFirstPass ==
  /\ pc = "lumps" /\ count = Len(entries) + 1 /\ InRange(new)
  /\ new' = WithDirectory(new)
  /\ stats' = [stats EXCEPT !.new = IF Compresses THEN Len(new') ELSE @]
  /\ Goto(IF Compresses /\ cmd.allowmerge THEN "reopen" ELSE "rename")
  /\ UNCHANGED <<wad, cmd, wadfile, count, merge, history>>

\* CompareFunc: the place of a name in the alphabet; what is no name comes first.
Rank(e) ==
  IF \E k \in DOMAIN NameOrder : e.name = NameWords(NameOrder[k])
  THEN CHOOSE k \in DOMAIN NameOrder : e.name = NameWords(NameOrder[k])
  ELSE 0

Reopen ==
  /\ pc = "reopen" /\ Opens(new)
  /\ OpenWadFile(new)
  /\ MakeSortedMap([k \in DOMAIN entries' |-> Rank(entries'[k])])
  /\ new' = <<>> /\ count' = 1 /\ lumps' = <<>>
  /\ Goto("merge")
  /\ UNCHANGED <<wad, cmd, psx_format, stats, history>>

SortMapElements ==
  /\ pc = "merge" /\ SortStep
  /\ UNCHANGED <<wad, pc, cmd, wadfile, new, count, lumps, stats, history>>

\* FindExistingLump: the lump written with these contents.  There is never more
\* than one, so that it does not matter from which end they are searched.
Existing(data) == {k \in DOMAIN lumps : lumps[k].data = data}

\* fault: the offset is that of the latest lump, whichever was found
LatestOffset(k) == lumps'[Len(lumps')].offset
FoundOffset(k) == lumps'[k].offset

MergeLump ==
  /\ pc = "merge" /\ Sorted /\ count \in DOMAIN elements
  /\ LET e == entries[elements[count]]
         data == CacheLump(old, e)
     IN /\ InFile(old, e) /\ InRange(new)
        /\ \/ /\ UNCHANGED <<lumps, new>>
              /\ \E k \in Existing(data) :
                   entries' = [entries EXCEPT ![elements[count]].offset = FoundOffset(k)]
           \/ /\ Existing(data) = {}
              /\ lumps' = Append(lumps, [data |-> data, offset |-> Tell(new)])
              /\ new' = WithLump(new, data)
              /\ entries' =
                   [entries EXCEPT ![elements[count]].offset = FoundOffset(Len(lumps'))]
  /\ count' = count + 1
  /\ UNCHANGED <<wad, pc, cmd, type, psx_format, old, sortvars, stats, history>>

\* What the methods have not saved is put down to merging.
MergeSaving(size) ==
  stats.orig - size - stats.squashed - stats.stacked - stats.packed

EndSecondPass ==
  /\ pc = "merge" /\ Sorted /\ count = Len(entries) + 1 /\ InRange(new)
  /\ new' = WithDirectory(new)
  /\ stats' = [stats EXCEPT !.new = Len(new'), !.merged = MergeSaving(Len(new'))]
  /\ Goto("rename")
  /\ UNCHANGED <<wad, cmd, wadfile, count, merge, history>>

Rename ==
  /\ pc = "rename"
  /\ EndRun(cmd, new, TRUE)
  /\ UNCHANGED <<cmd, wadfile, new, count, merge, stats>>

-----------------------------------------------------------------------------

\* What the next run may be asked.
Allowed == Command \cap Commands(trail[1], Len(past) + 1)

Done ==
  /\ pc = "idle" /\ Allowed = {}
  /\ UNCHANGED vars

Init ==
  /\ wad \in Wads
  /\ pc = "idle"
  /\ cmd = [op |-> "compress", allowpack |-> TRUE, allowstack |-> TRUE,
            allowsquash |-> TRUE, allowmerge |-> TRUE]
  /\ type \in Type /\ type = wad[1][2]
  /\ entries = <<>> /\ psx_format = FALSE
  /\ old = <<>> /\ new = <<>> /\ count = 1
  /\ lumps = <<>>
  /\ key = <<>> /\ elements = <<>> /\ calls = <<>>
  /\ step = "call" /\ pivot = 0 /\ scan = 0 /\ small = 0
  /\ stats = NoStats
  /\ past = <<>> /\ trail = <<wad>>

Next ==
  \/ \E c \in Allowed : Begin(c)
  \/ NextLump \/ EndFirstPass
  \/ Reopen \/ SortMapElements \/ MergeLump \/ EndSecondPass
  \/ Rename \/ ErrorExit
  \/ Done

Spec == Init /\ [][Next]_vars

-----------------------------------------------------------------------------
(* Properties *)

\* What RebuildMergedWad() keeps of a lump it has written.
Placed == [data : Seq(Word), offset : (0 .. WAD_HEADER_SIZE) \cup (0 .. MaxPos)]

\* The offsets of what is written fit, which only CheckedTell() sees to.
TypeOK ==
  /\ wad \in Seq(Word) /\ old \in Seq(Word) /\ new \in Seq(Word)
  /\ pc \in {"idle", "lumps", "reopen", "merge", "rename"}
  /\ cmd \in Command
  /\ type \in Type /\ psx_format \in BOOLEAN
  /\ entries \in Seq(Entry)
  /\ count \in 1 .. Len(entries) + 1
  /\ lumps \in Seq(Placed)
  /\ pc \in {"reopen", "rename"} => DirOffset(new) <= MaxPos
  /\ DOMAIN stats = DOMAIN NoStats
  /\ past \in Seq([cmd : Command, done : BOOLEAN])
  /\ trail \in Seq(Seq(Word))
  /\ SortTypeOK

Readable(f) ==
  Opens(f) /\ \A k \in DOMAIN Directory(f) : InFile(f, Directory(f)[k])

\* What a file means: its type and, in their order, the names of the lumps and
\* the things they hold, but for the blockmaps that B_Unstack garbles.
Data(f, k) == CacheLump(f, Directory(f)[k])
Meaning(f) ==
  [type |-> f[1],
   lumps |-> [k \in DOMAIN Directory(f) |->
                [name |-> Directory(f)[k].name,
                 things |-> {t \in Thing \ Overflowed : IsThing(Data(f, k), t)}]]]

\* LINEDEFS and SIDEDEFS of a level are in the same form: their numbers fit.
Pairs(f) ==
  \A k \in DOMAIN Directory(f) \ {1} :
    /\ Directory(f)[k].name = NameWords("SIDEDEFS")
    /\ Directory(f)[k - 1].name = NameWords("LINEDEFS")
    => \A t, u \in Thing : \A form \in DOMAIN Sizes[t], other \in DOMAIN Sizes[u] :
         Data(f, k) = Content(t, form) /\ Data(f, k - 1) = Content(u, other)
           => form = other

\* Whatever runs there are, the file keeps its type and its lumps: as many of
\* them, in their order, under their names, with what they held, and the two
\* lumps of a level in step (wadptr.1:14: "Compressed files are still playable
\* like the originals").  A file that cannot be read in full is not touched.
\* Blockmaps that overflow are the exception: see VanillaStaysVanilla in Blockmap.
LumpsKept ==
  pc = "idle" =>
    IF Readable(trail[1])
    THEN /\ Readable(wad) /\ Meaning(wad) = Meaning(trail[1])
         /\ Pairs(trail[1]) => Pairs(wad)
    ELSE wad = trail[1]

\* A lump can be read from the new file and is the thing it was, but for levels
\* in another format when they are packed and for overflowed blockmaps when they
\* are unstacked.
SameThing(a, b) ==
  \/ a = b
  \/ Packs /\ IsForeign(b)
  \/ /\ cmd.allowstack /\ ~Compresses
     /\ \E t \in Overflowed : IsThing(b, t) /\ a = Content(t, "garbled")
  \/ \E t \in Thing : IsThing(a, t) /\ IsThing(b, t)
Kept(e, was) == InFile(new, e) /\ SameThing(CacheLump(new, e), CacheLump(old, was))

\* The directory is overwritten while lumps are read through it: of the first
\* pass, where LINEDEFS waits for SIDEDEFS, and of the second, which "mutates the
\* directory of the passed wad_file_t, and it should not" (wadmerge.c:66).  Each
\* lump gone over has been written, and each other is still found in the old file.
PassesKeep ==
  /\ pc = "lumps" =>
       \A k \in DOMAIN entries :
         IF k < count /\ ~(k = count - 1 /\ Deferred(k))
         THEN Kept(entries[k], Directory(old)[k])
         ELSE entries[k] = Directory(old)[k]
  /\ pc = "merge" /\ Sorted =>
       \A j \in DOMAIN elements :
         LET was == Directory(old)[elements[j]]
             now == entries[elements[j]]
         IN IF j < count
            THEN InFile(new, now) /\ CacheLump(new, now) = CacheLump(old, was)
            ELSE now = was

\* The last run has rewritten the file.
Rewritten == pc = "idle" /\ past # <<>> /\ Last(past).done

\* A file that was rewritten has nothing but a header, the lumps and a directory,
\* none over another; merged, it has each content once, and otherwise each
\* lump has words of its own.
TightLayout ==
  LET dir == Directory(wad)
      Span(k) == dir[k].offset .. dir[k].offset + dir[k].length - 1
      Owners(a) == {k \in DOMAIN dir : a \in Span(k)}
      Merged == Last(past).cmd.op = "compress" /\ Last(past).cmd.allowmerge
  IN Rewritten =>
       /\ Len(wad) = IF dir = <<>> THEN WAD_HEADER_SIZE
                     ELSE DirOffset(wad) + ENTRY_SIZE * Len(dir)
       /\ \A a \in 0 .. Len(wad) - 1 :
            IF a < WAD_HEADER_SIZE \/ a >= DirOffset(wad) THEN Owners(a) = {}
            ELSE IF Merged THEN Cardinality({Span(k) : k \in Owners(a)}) = 1
            ELSE Cardinality(Owners(a)) = 1
       /\ Merged => \A j, k \in DOMAIN dir :
                      Data(wad, j) = Data(wad, k) => Span(j) = Span(k)

\* The things that can be made small and plain, or that cannot be made either,
\* and that are never smaller than when they are small.
HasThing(f, t) == \E k \in DOMAIN Directory(f) : IsThing(Data(f, k), t)
Docile(t) ==
  /\ t \notin Overflowed
  /\ {"small", "plain"} \cap DOMAIN Sizes[t] \in {{}, {"small", "plain"}}
  /\ "small" \in DOMAIN Sizes[t] =>
       \A f \in DOMAIN Sizes[t] : Sizes[t].small <= Sizes[t][f]
Full(c) == c.allowpack /\ c.allowstack /\ c.allowsquash

\* The same command line gives the same file, word for word, when nothing has
\* come between (run_tests.sh:52-55, 77-81), and whatever has come between if it
\* leaves no lump as it finds it.
Repeatable ==
  pc = "idle" =>
    \A j, k \in DOMAIN past :
      /\ j < k /\ past[j] = past[k] /\ past[j].done
      /\ \/ k = j + 1
         \/ /\ Full(past[k].cmd)
            /\ \A t \in Thing : HasThing(trail[1], t) => Docile(t)
      => trail[k + 1] = trail[j + 1]

\* What the table can be about: what compressing a file has saved, in which no two
\* lumps share words.
Unshared(f) ==
  \A j, k \in DOMAIN Directory(f) :
    LET d == Directory(f)[j]
        e == Directory(f)[k]
    IN j # k => (d.offset .. d.offset + d.length - 1)
                  \cap (e.offset .. e.offset + e.length - 1) = {}
Compressed == Rewritten /\ Last(past).cmd.op = "compress"
Input == trail[Len(past)]

\* The lumps that a method is for, and those that have the contents of another.
LumpsFor(method, dir) ==
  {k \in DOMAIN dir :
     LET Named(name) == dir[k].name = NameWords(name)
     IN CASE method = "stacked" -> Named("BLOCKMAP")
          [] method = "packed" -> Named("SIDEDEFS")
          [] method = "squashed" -> ~Named("BLOCKMAP") /\ ~Named("SIDEDEFS")}
Doubles(f) ==
  {k \in DOMAIN Directory(f) : \E j \in 1 .. k - 1 : Data(f, j) = Data(f, k)}

\* Each row of the table tells what it is about (main.c:483): what belonged to
\* nothing in the old file, by how much the lumps of each method are shorter in
\* the new one than in the old, and how much of it is not written twice; to which
\* merging adds the first of these, "RowsAddUp" notwithstanding.
TableTrue ==
  LET was == Directory(Input)
      now == Directory(wad)
  IN Compressed /\ Unshared(Input) =>
       /\ stats.orig = Len(Input) /\ stats.new = Len(wad)
       /\ stats.junk = Len(Input) - ExpectedSize(was)
       /\ \A method \in {"packed", "stacked", "squashed"} :
            stats[method] = Amount(was, LumpsFor(method, was))
                              - Amount(now, LumpsFor(method, now))
       /\ stats.merged = IF Last(past).cmd.allowmerge
                         THEN Amount(now, Doubles(wad)) + stats.junk ELSE 0

\* The rows add up to the total below them: "A summary table is now printed after
\* compression, listing how many bytes were saved and through which methods"
\* (NEWS.md:36).
RowsAddUp ==
  Compressed /\ Unshared(Input) =>
    stats.junk + stats.squashed + stats.stacked + stats.packed + stats.merged
      = stats.orig - stats.new
=============================================================================
