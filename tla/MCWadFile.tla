------------------------------ MODULE MCWadFile ------------------------------
(***************************************************************************)
(* Files for TLC to compress and decompress.                               *)
(***************************************************************************)
EXTENDS WadFile

Names ==
  <<"BLOCKMAP", "DSPIC", "LEAFS", "LINEDEFS", "MAP01", "PIC1", "PIC2", "SIDEDEFS">>
NotPictures == {"BLOCKMAP", "DSPIC", "LEAFS", "LINEDEFS", "SIDEDEFS"}

\* Two levels, the second of which cannot be unpacked; blockmaps, one stacked
\* better than B_Stack could, one that overflows and one that cannot be read;
\* pictures, one squashed better than S_Squash could, and something else; the level
\* of a console.
SomeSizes ==
  [lines |-> [raw |-> 1, small |-> 1, plain |-> 1],
   sides |-> [raw |-> 2, small |-> 1, plain |-> 3],
   tight |-> [raw |-> 2, small |-> 1],
   grid |-> [raw |-> 2, small |-> 1, plain |-> 2],
   tiled |-> [raw |-> 1, small |-> 2, plain |-> 3],
   wrapped |-> [raw |-> 2, garbled |-> 1],
   broken |-> [raw |-> 1],
   pic |-> [raw |-> 2, small |-> 1, plain |-> 3],
   woven |-> [raw |-> 1, joined |-> 1, small |-> 2, plain |-> 3],
   noise |-> [raw |-> 1],
   psxsides |-> [raw |-> 1, garbled |-> 2]]

Item(name, t) == [name |-> name, data |-> Content(t, "raw")]
Marker(name) == [name |-> name, data |-> <<>>]

Items ==
  {<<Marker("MAP01")>>,
   <<Item("LINEDEFS", "lines"), Item("SIDEDEFS", "sides")>>,
   <<Item("LINEDEFS", "lines"), Item("SIDEDEFS", "tight")>>,
   <<Marker("LINEDEFS"), Marker("SIDEDEFS")>>,
   <<Item("LINEDEFS", "lines")>>, <<Item("SIDEDEFS", "sides")>>,
   <<Item("BLOCKMAP", "grid")>>, <<Item("BLOCKMAP", "tiled")>>,
   <<Item("BLOCKMAP", "wrapped")>>, <<Item("BLOCKMAP", "broken")>>,
   <<Item("PIC1", "pic")>>, <<Item("PIC2", "pic")>>, <<Item("DSPIC", "pic")>>,
   <<Item("PIC1", "woven")>>,
   <<Item("PIC2", "noise")>>}

\* A header, a directory and lumps in either order, with words between them
\* that belong to none.
Positions(items, start, gap) ==
  [k \in DOMAIN items |->
     FoldLeft(LAMBDA n, item : n + Len(item.data) + gap, start, SubSeq(items, 1, k - 1))]
Junk(gap) == [k \in 1 .. gap |-> Long(0)]
Bodies(items, gap) ==
  FlattenSeq([k \in DOMAIN items |-> items[k].data \o Junk(gap)])
Entries(items, start, gap) ==
  FlattenSeq([k \in DOMAIN items |->
                <<Long(Positions(items, start, gap)[k]), Long(Len(items[k].data))>>
                \o NameWords(items[k].name)])

DirectoryLast(t, items, gap) ==
  <<Magic(t), Long(Len(items)), Long(3 + Len(Bodies(items, gap)))>>
  \o Bodies(items, gap) \o Entries(items, 3, gap)
DirectoryFirst(t, items) ==
  <<Magic(t), Long(Len(items)), Long(3)>>
  \o Entries(items, 3 + 4 * Len(items), 0) \o Bodies(items, 0)

TwoItems == {a \o b : a, b \in Items}
Short ==
  {<<Item("PIC1", "pic"), Item("BLOCKMAP", "grid")>>,
   <<Item("LINEDEFS", "lines"), Item("SIDEDEFS", "sides")>>}
Longer ==
  {<<Item("PIC2", "pic"), Item("PIC1", "noise"), Item("PIC2", "pic"), Item("MAP01", "pic")>>,
   <<Marker("MAP01"), Item("LINEDEFS", "lines"), Item("SIDEDEFS", "sides"),
     Item("BLOCKMAP", "grid"), Marker("MAP01"), Item("LINEDEFS", "lines"),
     Item("SIDEDEFS", "sides"), Item("BLOCKMAP", "grid")>>}
Console ==
  {<<Item("LINEDEFS", "noise"), Item("SIDEDEFS", "psxsides"), Item("LEAFS", "noise")>>}

Whole ==
  {DirectoryLast("PWAD", items, 0) : items \in TwoItems}
  \cup {DirectoryLast("PWAD", items, 1) : items \in Items \cup Short}
  \cup {DirectoryFirst("PWAD", items) : items \in Short}
  \cup {DirectoryLast("IWAD", items, 0) : items \in Longer \cup Console}
\* Cut short, in a lump or in the directory.
Cut ==
  {Front(DirectoryFirst("PWAD", items)) : items \in Short}
  \cup {Front(DirectoryLast("PWAD", items, 0)) : items \in Longer}

\* Nothing but empty lumps that no method takes.
Markers == {DirectoryLast("PWAD", [k \in 1 .. n |-> Marker("MAP01")], gap) :
              n \in 1 .. 2, gap \in {0, 1}}

\* No lumps at all, with a directory within the file or beyond its end.
Hollow == {<<Magic("PWAD"), Long(0), Long(n)>> \o Junk(gap) : n \in {0, 3, 5}, gap \in 0 .. 1}

SomeWads == Whole \cup Cut \cup Markers \cup Hollow

\* Words between the lumps that belong to none.
Littered == {DirectoryLast("PWAD", items, 1) : items \in Short}

All(c) == c.allowpack /\ c.allowstack /\ c.allowsquash
Some(c) == c.allowpack \/ c.allowstack \/ c.allowsquash

\* Three runs with every method or with none, where decompressing undoes the
\* merging as well.  A file of empty lumps only is but compressed and merged.
Useful(c) ==
  /\ All(c) \/ (~Some(c) /\ c.op = "compress")
  /\ c.op = "decompress" \/ ~Some(c) => c.allowmerge
SomeCommands(w, k) ==
  {c \in Command :
     /\ k <= 3 /\ Useful(c)
     /\ w \in Markers => c.op = "compress" /\ c.allowmerge}

\* One run on a file.
FirstRun(w, k) == {c \in Command : k = 1 /\ Useful(c)}
=============================================================================
