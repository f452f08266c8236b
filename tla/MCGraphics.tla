----------------------------- MODULE MCGraphics -----------------------------
(***************************************************************************)
(* Graphics for TLC to squash and unsquash.                                *)
(***************************************************************************)
EXTENDS Graphics

Piece(row, pixels) == <<row, Len(pixels), 0>> \o pixels \o <<0>>
Col(pieces) == FlattenSeq(pieces) \o <<Stop>>

\* Columns of posts that ascend and do not overlap, as tools write them: empty,
\* of one post, of two with a gap, with pixels that look like the end of a
\* column, with posts to combine, and such that one ends another.
One == Piece(0, <<1>>)
Low == Piece(3, <<1>>)
High == Piece(3, <<Stop>>)
Next1 == Piece(1, <<1>>)
Next2 == Piece(2, <<1>>)

Sound ==
  {Col(<<>>), Col(<<One>>), Col(<<Low>>), Col(<<One, Low>>), Col(<<One, High>>),
   Col(<<Piece(0, <<1, 1>>)>>)}
Mergeable ==
  {Col(<<One, Next1>>), Col(<<One, Next1, Next2>>), Col(<<One, Next1, Low>>),
   Col(<<Piece(0, <<>>), One>>)}

\* A lump with its columns at offsets that count from the end of the table.
Header(columns, height) == <<columns, 0, height, 0, 0, 0, 0, 0>>
Made(cols, bytes) ==
  Decoded(Header(Len(cols), 1)
            \o TableBytes([c \in DOMAIN cols |-> TableEnd(Len(cols)) + cols[c]]) \o bytes)

\* The columns one after another, the first or the last first, with or without
\* something between them.
Offset(cols, gap) ==
  [c \in DOMAIN cols |->
     FoldLeft(LAMBDA n, col : n + Len(col) + gap, 0, SubSeq(cols, 1, c - 1))]
Apart(cols, gap) ==
  Made(Offset(cols, gap),
       FlattenSeq([c \in DOMAIN cols |-> cols[c] \o [k \in 1 .. gap |-> 7]]))
Backwards(cols, gap) ==
  Made(Reverse(Offset(cols, gap)),
       FlattenSeq([c \in DOMAIN cols |-> cols[c] \o [k \in 1 .. gap |-> 7]]))

\* All columns within the first.
Nested(cols) ==
  Made([c \in DOMAIN cols |-> Len(cols[1]) - Len(cols[c])], cols[1])

Fresh ==
  {Apart(cols, 0) : cols \in [1 .. 3 -> Sound \cup Mergeable]}
  \cup {Backwards(cols, 2) : cols \in [1 .. 2 -> Sound \cup Mergeable]}

Shared ==
  {Nested(<<Col(<<One, Low>>), Col(<<Low>>), Col(<<>>)>>),
   Nested(<<Col(<<One, High>>), Col(<<High>>), Col(<<One, High>>)>>)}

\* Many columns: all alike, already in order, and in the opposite order.
Wide ==
  {Apart([c \in 1 .. 7 |-> Col(<<>>)], 0),
   Apart([c \in 1 .. 7 |-> Col(<<Piece(0, [p \in 1 .. 8 - c |-> 1])>>)], 0),
   Apart([c \in 1 .. 7 |-> Col(<<Piece(0, [p \in 1 .. c |-> 1])>>)], 0)}

\* Two posts whose joined length just fits in a byte, and just does not.
Fours(n) == [p \in 1 .. n |-> 4]
Tall ==
  {Apart(<<Col(<<Piece(0, Fours(n)), Piece(n, Fours(100))>>)>>, 0) : n \in {155, 156}}

\* Without an end, with a column at the end, with one beyond it.
Corrupt ==
  {Made(<<0>>, One), Made(<<0, 6>>, Col(<<One>>)), Made(<<0, 7>>, Col(<<One>>))}

\* Of a size that no graphic has: too short for a header, no column, too many,
\* no row, too many, and no room for the table.
Misfits ==
  {Decoded(<<1, 0, 1, 0, 0, 0, 0>>),
   Decoded(Header(0, 1)),
   Apart([c \in 1 .. 8 |-> Col(<<>>)], 0),
   Decoded(Header(1, 0) \o TableBytes(<<12>>) \o Col(<<One>>)),
   Decoded(Header(1, 3) \o TableBytes(<<12>>) \o Col(<<One>>)),
   Decoded(Header(3, 1) \o TableBytes(<<12>>))}

\* A column that begins in the header, which has an end; and one that begins in
\* the table and runs into the column behind it.
Stray ==
  {Decoded(<<1, 0, 1, 0, Stop, Stop, Stop, Stop>> \o TableBytes(<<0>>)),
   Decoded(<<1, 0, 1, 0, Stop, Stop, Stop, Stop>> \o TableBytes(<<0>>) \o Col(<<One>>)),
   Decoded(Header(2, 1) \o TableBytes(<<8, 16>>) \o Col(<<>>))}

\* Two columns that are alike, within the pixels of another one: squashing
\* would make the lump larger.
Inside ==
  {Made(<<0, 3, 9>>, Col(<<Piece(0, Col(<<One>>) \o Col(<<One>>))>>))}

SomeLumps ==
  Fresh \cup Shared \cup Wide \cup Tall \cup Corrupt \cup Misfits \cup Stray \cup Inside

ASSUME SomeTidy == \A l \in SomeLumps : IsGraphic(l) /\ Parses(l) => Tidy(l)

\* The second column is the last post of the first, which follows on from the
\* post before it.
SharedMergeable ==
  LET tail == Piece(1, <<9, 1, 0, 9>>)
  IN {Nested(<<Col(<<One, tail>>), Col(<<tail>>)>>)}

\* The length of three columns of one pixel each, and when they are shared.
Flats == {8 + 12 + 18, 8 + 12 + 6}
=============================================================================
