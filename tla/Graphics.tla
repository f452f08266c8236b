------------------------------ MODULE Graphics ------------------------------
(***************************************************************************)
(* Graphic squashing (graphics.c): a picture lump rewritten by S_Squash()  *)
(* and S_Unsquash() in run after run.                                      *)
(*                                                                         *)
(* A lump is its bytes and the table of the columns' offsets that they     *)
(* spell behind the header; an offset may be that of any byte, of one in   *)
(* the header or the table too.  A column is a sequence of posts, each a   *)
(* row, a number of pixels, a byte of padding, the pixels and more         *)
(* padding, and ends with the byte Stop where the next row would be.       *)
(* Columns may share bytes.                                                *)
(*                                                                         *)
(* The sorted map of the columns is made by the steps of the module Sort.  *)
(* Definitions marked "fault" are variants of the next definition with a   *)
(* mistake in them; the properties are tried against them.                 *)
(***************************************************************************)
EXTENDS Sort, SequencesExt

CONSTANTS Lumps,       \* what other tools, or older versions, have written
          FlatLengths, \* 4096 and 4000 in the code: taken for other lumps
          MaxWidth,    \* 1024 and
          MaxHeight,   \* 240 in the code: a larger lump is no graphic
          MaxLength,   \* bound: bytes of a lump that is built
          MaxRuns      \* bound: runs of the program on the lump

Byte == 0 .. 255
Stop == 255
Op == {"squash", "unsquash"}

\* The byte at an offset, and those from one offset up to another.
At(d, a) == d[a + 1]
Bytes(d, a, n) == SubSeq(d, a + 1, a + n)

\* READ_SHORT, READ_LONG and WRITE_LONG
Short(d, a) == At(d, a) + 256 * At(d, a + 1)
Long(d, a) == Short(d, a) + 65536 * Short(d, a + 2)
LongBytes(n) ==
  <<n % 256, (n \div 256) % 256, (n \div 65536) % 256, (n \div 16777216) % 256>>

\* The end of the table of a lump with so many columns; the table that the bytes
\* of a lump spell, if it has room for one, and the bytes that spell a table.
TableEnd(columns) == 8 + 4 * columns
Table(d) ==
  IF Len(d) >= 8 /\ Len(d) >= TableEnd(Short(d, 0))
  THEN [c \in 1 .. Short(d, 0) |-> Long(d, 4 + 4 * c)]
  ELSE <<>>
TableBytes(cols) ==
  [k \in 1 .. 4 * Len(cols) |-> LongBytes(cols[(k + 3) \div 4])[((k + 3) % 4) + 1]]

Graphic == [cols : Seq(Nat), data : Seq(Byte)]
Decoded(d) == [cols |-> Table(d), data |-> d]
Lump == {l \in Graphic : l = Decoded(l.data)}

ASSUME LumpsAssumption == Lumps \subseteq Lump
ASSUME FlatLengthsAssumption == FlatLengths \subseteq Nat
ASSUME MaxSizeAssumption == MaxWidth \in Nat /\ MaxHeight \in Nat
ASSUME MaxLengthAssumption == MaxLength \in Nat /\ MaxLength \div 65536 < 65536
ASSUME MaxRunsAssumption == MaxRuns \in Nat

VARIABLES
  lump,    \* the lump on disk
  pc,      \* where the program is; "idle" between runs
  cmd,     \* what this run was asked; unsquash_mode
  data,    \* the bytes of oldlump, which CombinePosts() changes in place
  colsize, \* the length of each column
  x, i,    \* the loops of CombinePosts(); x is also that of S_Squash()
  newres,  \* the lump being built: its table, from whose end the offsets count
           \* here, and what is behind it
  past,    \* history: the commands of the runs that have ended
  trail    \* history: the lump before each of them and after the last

history == <<past, trail>>
vars == <<lump, pc, cmd, data, colsize, x, i, newres, history, sortvars>>

-----------------------------------------------------------------------------
(* Reading a graphic *)

Width(l) == Len(l.cols)
Length(l) == Len(l.data)

\* S_IsGraphic, of a lump whose name admits one.
IsGraphic(l) ==
  /\ Length(l) >= 8
  /\ Short(l.data, 0) \in 1 .. MaxWidth /\ Short(l.data, 2) \in 1 .. MaxHeight
  /\ TableEnd(Short(l.data, 0)) <= Length(l)
  /\ Length(l) \notin FlatLengths
  /\ \A c \in 1 .. Width(l) : l.cols[c] <= Length(l)

\* FindColumnLength: where the column at an offset ends and how long it is, or 0
\* for one that has no end within the lump.
ColumnEnd(d, c) ==
  LET From[a \in Nat] ==
        IF a >= Len(d) THEN 0
        ELSE IF At(d, a) = Stop THEN a + 1
        ELSE IF a + 1 >= Len(d) THEN 0
        ELSE From[a + At(d, a + 1) + 4]
  IN From[c]
ColumnLength(d, c) == IF ColumnEnd(d, c) = 0 THEN 0 ELSE ColumnEnd(d, c) - c

\* ParseLump
Parses(l) == \A c \in 1 .. Width(l) : ColumnLength(l.data, l.cols[c]) > 0

-----------------------------------------------------------------------------
(* A run begins *)

Goto(label) == pc' = label

EndRun(c, l) ==
  /\ lump' = l
  /\ past' = Append(past, c)
  /\ trail' = Append(trail, l)
  /\ Goto("idle")

\* TrySquash or TryUnsquash, up to CombinePosts(); a lump that is no graphic is
\* stored as it is, and so is one that does not parse.
Start(c) ==
  /\ pc = "idle" /\ Len(past) < MaxRuns
  /\ cmd' = c
  /\ \/ /\ ~(IsGraphic(lump) /\ Parses(lump))
        /\ EndRun(c, lump)
        /\ UNCHANGED <<data, colsize, x, i>>
     \/ /\ IsGraphic(lump) /\ Parses(lump)
        /\ data' = lump.data
        /\ colsize' = [c2 \in 1 .. Width(lump) |->
                         ColumnLength(lump.data, lump.cols[c2])]
        /\ x' = 1 /\ i' = 0
        /\ Goto("combine")
        /\ UNCHANGED <<lump, history>>
  /\ UNCHANGED <<newres, sortvars>>

-----------------------------------------------------------------------------
(* CombinePosts: one turn of its loop at a time *)

Column == lump.cols[x]

\* "post[i]", "post[i + 1]" and "next_post" of the code.
Post == Column + i
NextIndex == i + At(data, Post + 1) + 4
NextPost == Column + NextIndex

\* The code compares the next post with the first of the column, not with the
\* one it has reached.
\* fault: the length of the joined post may not fit in its byte
AnyLength == At(data, Column) + At(data, Column + 1) = At(data, NextPost)
Adjacent ==
  /\ At(data, Column) + At(data, Column + 1) = At(data, NextPost)
  /\ At(data, Column + 1) + At(data, NextPost + 1) < 256

\* What is left of the column behind the header of the next post.
Rest == colsize[x] - NextIndex - 3

\* fault: as the new length but with the bytes left in place
JoinedInPlace ==
  [data EXCEPT ![Column + 2] = (@ + At(data, NextPost + 1)) % 256]
Joined ==
  LET to == Column + 3 + At(data, Column + 1)
  IN [k \in DOMAIN data |->
        IF k - 1 \in to .. to + Rest - 1 THEN data[k - to + NextPost + 3]
        ELSE IF k = Column + 2 THEN (data[k] + At(data, NextPost + 1)) % 256
        ELSE data[k]]

\* After a join the same post is compared with the one that is next now.
\* fault: the loop goes on behind the joined post
JoinedIndex == NextIndex + At(data, NextPost + 1)
IndexAfterJoin == i

\* The code reads and moves nothing outside the lump in this turn; what it does
\* when it would is undefined, and StaysInLump says that it never comes to that.
InLump(a) == a < Len(data)
Defined ==
  /\ InLump(Post)
  /\ At(data, Post) # Stop =>
       /\ InLump(Post + 1) /\ InLump(NextPost)
       /\ At(data, NextPost) # Stop =>
            /\ InLump(NextPost + 1)
            /\ Adjacent => Rest >= 0 /\ NextPost + 3 + Rest <= Len(data)

CombinePosts ==
  /\ pc = "combine" /\ x <= Width(lump) /\ Defined
  /\ \/ /\ At(data, Post) = Stop
        /\ x' = x + 1 /\ i' = 0
        /\ UNCHANGED <<data, colsize>>
     \/ /\ At(data, Post) # Stop
        /\ At(data, NextPost) # Stop /\ Adjacent
        /\ data' = Joined
        /\ colsize' = [colsize EXCEPT ![x] = @ - 4]
        /\ i' = IndexAfterJoin
        /\ UNCHANGED x
     \/ /\ At(data, Post) # Stop
        /\ ~(At(data, NextPost) # Stop /\ Adjacent)
        /\ i' = NextIndex
        /\ UNCHANGED <<x, data, colsize>>
  /\ UNCHANGED <<lump, pc, cmd, newres, history, sortvars>>

-----------------------------------------------------------------------------
(* S_Squash: the columns, the largest first, are found again or appended *)

\* LargestColumnCompare
\* fault: the columns stay in the order of the picture
InOrder == [c \in 1 .. Width(lump) |-> 0]
LargestFirst == [c \in 1 .. Width(lump) |-> -colsize[c]]

SortColumns ==
  /\ pc = "combine" /\ x = Width(lump) + 1
  /\ MakeSortedMap(LargestFirst)
  /\ Goto("sort")
  /\ UNCHANGED <<lump, cmd, data, colsize, x, i, newres, history>>

SortMapElements ==
  /\ pc = "sort" /\ SortStep
  /\ UNCHANGED <<lump, pc, cmd, data, colsize, x, i, newres, history>>

BeginColumns ==
  /\ pc = "sort" /\ Sorted
  /\ newres' = [cols |-> [c \in 1 .. Width(lump) |-> 0], data |-> <<>>]
  /\ x' = 1
  /\ Goto("place")
  /\ UNCHANGED <<lump, cmd, data, colsize, i, history, sortvars>>

ColumnBytes(c) == Bytes(data, lump.cols[c], colsize[c])

\* The earlier columns that the k-th one ends, as positions in the map.
\* fault: also when unsquashing
EarlierAlways(k) ==
  {j \in 1 .. k - 1 : IsSuffix(ColumnBytes(elements[k]), ColumnBytes(elements[j]))}
Earlier(k) ==
  IF cmd = "squash"
  THEN {j \in 1 .. k - 1 :
          IsSuffix(ColumnBytes(elements[k]), ColumnBytes(elements[j]))}
  ELSE {}

\* fault: the lengths are subtracted the wrong way round
ReversedOffset(c, of) == newres.cols[of] + colsize[c] - colsize[of]
SharedOffset(c, of) == newres.cols[of] + colsize[of] - colsize[c]

PlaceColumn ==
  /\ pc = "place" /\ x <= Width(lump)
  /\ LET c == elements[x]
         first == CHOOSE j \in Earlier(x) : \A k \in Earlier(x) : j <= k
     IN \/ /\ Earlier(x) # {}
           /\ newres' =
                [newres EXCEPT !.cols[c] = SharedOffset(c, elements[first])]
        \/ /\ Earlier(x) = {}
           /\ newres' = [cols |-> [newres.cols EXCEPT ![c] = Len(newres.data)],
                         data |-> newres.data \o ColumnBytes(c)]
  /\ x' = x + 1
  /\ UNCHANGED <<lump, pc, cmd, data, colsize, i, history, sortvars>>

\* The lump that is built, behind the old header.
NewLength == TableEnd(Width(lump)) + Len(newres.data)
Built ==
  Bytes(data, 0, 8)
    \o TableBytes([c \in 1 .. Width(lump) |-> TableEnd(Width(lump)) + newres.cols[c]])
    \o newres.data

\* A squashed lump that is larger than the old one is given up for it, as
\* CombinePosts() has left it.
Worse == cmd = "squash" /\ NewLength > Length(lump)

Finish ==
  /\ pc = "place" /\ x = Width(lump) + 1
  /\ Worse \/ NewLength <= MaxLength
  /\ EndRun(cmd, Decoded(IF Worse THEN data ELSE Built))
  /\ UNCHANGED <<cmd, data, colsize, x, i, newres, sortvars>>

Done ==
  /\ pc = "idle" /\ Len(past) = MaxRuns
  /\ UNCHANGED vars

Init ==
  /\ lump \in Lumps
  /\ pc = "idle"
  /\ cmd = "squash"
  /\ data = <<>> /\ colsize = <<>> /\ x = 1 /\ i = 0
  /\ newres = [cols |-> <<>>, data |-> <<>>]
  /\ past = <<>> /\ trail = <<lump>>
  /\ key = <<>> /\ elements = <<>> /\ calls = <<>>
  /\ step = "call" /\ pivot = 0 /\ scan = 0 /\ small = 0

Next ==
  \/ \E c \in Op : Start(c)
  \/ CombinePosts
  \/ SortColumns \/ SortMapElements \/ BeginColumns
  \/ PlaceColumn \/ Finish
  \/ Done

Spec == Init /\ [][Next]_vars

-----------------------------------------------------------------------------
(* Properties *)

TypeOK ==
  /\ lump \in Lump
  /\ pc \in {"idle", "combine", "sort", "place"}
  /\ cmd \in Op
  /\ data \in Seq(Byte)
  /\ colsize \in Seq(Nat \ {0})
  /\ x \in Nat \ {0} /\ i \in Nat
  /\ newres \in Graphic
  /\ past \in Seq(Op) /\ trail \in Seq(Lump)
  /\ SortTypeOK

\* Where the posts of a column begin, and what they show: where two overlap the
\* engine draws the later one over the earlier.
Posts(d, c) ==
  LET From[a \in Nat] ==
        IF a + 1 >= Len(d) \/ At(d, a) = Stop THEN {}
        ELSE {a} \cup From[a + At(d, a + 1) + 4]
  IN From[c]

Rows(d, p) == At(d, p) .. At(d, p) + At(d, p + 1) - 1

Shown(d, c) ==
  LET Top(r) == Max({p \in Posts(d, c) : r \in Rows(d, p)})
  IN [r \in UNION {Rows(d, p) : p \in Posts(d, c)} |->
        At(d, Top(r) + 3 + r - At(d, Top(r)))]

Picture(l) == [c \in 1 .. Width(l) |-> Shown(l.data, l.cols[c])]

\* Any number of runs leave every column with the pixels it had; a lump whose
\* columns do not parse is not touched (NEWS.md:59).
PictureKept ==
  pc = "idle" =>
    IF IsGraphic(trail[1]) /\ Parses(trail[1])
    THEN Parses(lump) /\ Picture(lump) = Picture(trail[1])
    ELSE lump = trail[1]

\* CombinePosts() neither reads nor moves a byte outside the lump, though it
\* has no check of its own: FindColumnLength() has found where each column ends,
\* and the loop shortens the column as it goes (graphics.c:79-92).
StaysInLump == pc = "combine" /\ x <= Width(lump) => Defined

\* The last run was op, of a lump that was a graphic.
Ended(op) ==
  /\ pc = "idle" /\ past # <<>> /\ Last(past) = op
  /\ IsGraphic(trail[Len(past)]) /\ Parses(trail[Len(past)])

\* The bytes of a column, as positions in the lump.
Span(l, c) == l.cols[c] .. l.cols[c] + ColumnLength(l.data, l.cols[c]) - 1
Text(l, c) == Bytes(l.data, l.cols[c], ColumnLength(l.data, l.cols[c]))

\* Squashing leaves no column with bytes of its own that end another column,
\* unless that makes the lump larger.
FullySquashed ==
  Ended("squash") /\ ~Worse =>
    \A c, d \in 1 .. Width(lump) :
      c # d /\ IsSuffix(Text(lump, c), Text(lump, d))
        => \E e \in 1 .. Width(lump) \ {c} : Span(lump, c) \subseteq Span(lump, e)

\* S_IsSquashed: in the order of their offsets, a column begins before the end
\* of the one before it.
\* fault: columns are only compared in the order of the picture
InPictureOrder(l, a, b) == a < b
ByOffset(l, a, b) ==
  \/ l.cols[a] < l.cols[b]
  \/ l.cols[a] = l.cols[b] /\ a < b
IsSquashed(l) ==
  /\ Parses(l)
  /\ \E a, b \in 1 .. Width(l) :
       /\ ByOffset(l, a, b)
       /\ ~ \E c \in 1 .. Width(l) : ByOffset(l, a, c) /\ ByOffset(l, c, b)
       /\ l.cols[b] \in Span(l, a)

\* Unsquashing gives each column bytes of its own behind the table, with none
\* left over.
FullyUnsquashed ==
  Ended("unsquash") =>
    \A a \in TableEnd(Width(lump)) .. Length(lump) - 1 :
      Cardinality({c \in 1 .. Width(lump) : a \in Span(lump, c)}) = 1

\* "Squashed graphics are now detected more accurately" (NEWS.md:43): the
\* listing calls a graphic squashed when two columns share a byte.
ListedRight ==
  pc = "idle" /\ IsGraphic(lump) /\ Parses(lump) =>
    (IsSquashed(lump) <=>
       \E c, d \in 1 .. Width(lump) : c # d /\ Span(lump, c) \cap Span(lump, d) # {})

\* Doing the same thing again changes nothing (run_tests.sh:52-55, 77-81), and
\* unsquashing what was unsquashed, then squashed, gives the same lump again.
Repeatable ==
  pc = "idle" =>
    /\ \A k \in 2 .. Len(past) : past[k] = past[k - 1] => trail[k + 1] = trail[k]
    /\ \A k \in 3 .. Len(past) :
         /\ past[k] = "unsquash" /\ past[k - 1] = "squash" /\ past[k - 2] = "unsquash"
         /\ IsGraphic(trail[k - 2]) /\ IsGraphic(trail[k])
         => trail[k + 1] = trail[k - 1]

-----------------------------------------------------------------------------
(* What the theorems suppose of lumps *)

\* The posts of a column ascend and do not overlap, as tools write them; none
\* can be joined to the first; and only a column that shares no byte with
\* another, with the table or with the header has posts to join.
Ascends(d, c) ==
  \A p, q \in Posts(d, c) : p < q => At(d, p) + At(d, p + 1) <= At(d, q)
Combined(d, c) ==
  \A p \in Posts(d, c) \ {c} :
    ~(/\ At(d, c) + At(d, c + 1) = At(d, p)
      /\ At(d, c + 1) + At(d, p + 1) < 256)
Tidy(l) ==
  \A c \in 1 .. Width(l) :
    /\ Ascends(l.data, l.cols[c])
    /\ \/ Combined(l.data, l.cols[c])
       \/ /\ l.cols[c] >= TableEnd(Width(l))
          /\ \A e \in 1 .. Width(l) \ {c} : Span(l, c) \cap Span(l, e) = {}
LumpsTidy == \A l \in Lumps : IsGraphic(l) /\ Parses(l) => Tidy(l)
=============================================================================
