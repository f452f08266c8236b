----------------------------- MODULE MCSidedefs -----------------------------
(***************************************************************************)
(* Levels for TLC to pack and unpack.                                      *)
(***************************************************************************)
EXTENDS Sidedefs

Side(m, s, t) == [middle |-> m, spelling |-> s, trim |-> t, place |-> 0]

\* A plain sidedef, the same in other letters, the same with upper and lower
\* textures to wipe, and another.
Plain == Side(1, 1, 0)
Respelt == Side(1, 2, 0)
Trimmed == Side(1, 1, 1)
Other == Side(2, 1, 0)
Moved == [Plain EXCEPT !.place = 1]

Line(t, g, r1, r2) ==
  [type |-> t, tag |-> g, sidedef1 |-> r1, sidedef2 |-> r2]

\* Ordinary lines, special lines, and lines at both ends of the magic range
\* of tags and just outside it.
Kinds == {<<0, 0>>, <<1, 0>>, <<1, 9700>>}
EdgeKinds == {<<0, 9699>>, <<1, 9699>>, <<0, 9700>>, <<1, 9799>>, <<1, 9800>>}

LinesOf(kinds, refs) ==
  {Line(k[1], k[2], r[1], r[2]) : k \in kinds, r \in refs}

LevelsOf(hexen, whole, linedefs, sidedefs) ==
  {[hexen |-> h, whole |-> w, linedefs |-> ld, sidedefs |-> sd] :
     h \in hexen, w \in whole, ld \in linedefs, sd \in sidedefs}

\* Two lines of any kind that share, exchange or miss two sidedefs, which may
\* have nothing in common, be alike, or differ in what is not compared.
TwoByTwo ==
  LevelsOf({FALSE, TRUE}, {TRUE},
           [1 .. 2 -> LinesOf(Kinds, {<<0, NoIndex>>, <<0, 1>>, <<1, 0>>,
                                      <<1, NoIndex>>, <<NoIndex, 1>>})],
           {<<Plain, Respelt>>, <<Respelt, Plain>>, <<Plain, Trimmed>>,
            <<Trimmed, Other>>, <<Plain, Moved>>})

\* The ends of the magic range.
Edges ==
  LevelsOf({FALSE, TRUE}, {TRUE},
           [1 .. 2 -> LinesOf(EdgeKinds, {<<0, NoIndex>>, <<1, 0>>})],
           {<<Plain, Respelt>>, <<Plain, Plain>>})

\* A reference past the end, an empty lump, and lumps cut short.
Broken ==
  LevelsOf({FALSE}, {TRUE},
           [1 .. 2 -> LinesOf({<<0, 0>>}, {<<0, NoIndex>>, <<0, 1>>,
                                           <<NoIndex, NoIndex>>})],
           {<<>>, <<Plain>>, <<Plain, Plain, Other>>})
  \cup LevelsOf({FALSE}, {FALSE}, {<<>>}, {<<>>})

\* Three lines that all use both sides: unpacked, there are as many sidedefs
\* as the highest number on disk, or more.
Crowded ==
  LevelsOf({FALSE}, {TRUE},
           [1 .. 3 -> LinesOf({<<0, 0>>, <<1, 0>>}, {<<0, 1>>, <<1, 2>>, <<2, NoIndex>>})],
           {<<Plain, Other, Trimmed>>, <<Plain, Respelt, Plain>>})

SomeLevels == TwoByTwo \cup Edges \cup Broken \cup Crowded

\* Three runs on the crowded levels, with and without -extsides, and two on the
\* others, with and without -wipesides.
SomeCommands(l, k) ==
  {c \in Command : IF l \in Crowded THEN k <= 3 /\ ~c.wipesides
                   ELSE k <= 2 /\ c.extsides}
=============================================================================
