----------------------------- MODULE MCBlockmap -----------------------------
(***************************************************************************)
(* Lumps for TLC to stack and unstack, as node builders lay them out.      *)
(***************************************************************************)
EXTENDS Blockmap

\* Where each list begins when they follow each other, in a lump of n blocks.
BeginOf(n, ls) ==
  LET f[b \in 1 .. Len(ls)] ==
        IF b = 1 THEN 4 + n ELSE f[b - 1] + Len(ls[b - 1])
  IN f
Begin(ls) == BeginOf(Len(ls), ls)

Header(n) == <<0, 0, 1, n>>

Built(offsets, words, ls) ==
  [elements |-> Header(Len(ls)) \o [b \in 1 .. Len(ls) |-> offsets[b] % (2 * Half)]
                  \o words,
   lists |-> ls]

\* One list after the other, in order and the other way round.
Plain(ls) == Built(Begin(ls), FlattenSeq(ls), ls)
Backwards(ls) ==
  Built([b \in DOMAIN ls |-> Begin(Reverse(ls))[Len(ls) + 1 - b]],
        FlattenSeq(Reverse(ls)), ls)

\* Each list once, however many blocks have it.
Shared(ls) ==
  LET once == SetToSeq(ToSet(ls))
      begin == BeginOf(Len(ls), once)
  IN Built([b \in DOMAIN ls |->
              begin[CHOOSE k \in DOMAIN once : once[k] = ls[b]]],
           FlattenSeq(once), ls)

\* The best there is when every list is the end of the first one.
Nested(ls) ==
  Built([b \in DOMAIN ls |-> 4 + Len(ls) + Len(ls[1]) - Len(ls[b])], ls[1], ls)

\* Something follows the lists.
Trailing(ls) ==
  [Plain(ls) EXCEPT !.elements = @ \o <<1, Sentinel>>]

\* Lists with and without the 0 that most builders put first, of lines 0, 1
\* and 2.
Short ==
  {<<Sentinel>>, <<0, Sentinel>>, <<0, 0, Sentinel>>, <<0, 1, Sentinel>>,
   <<0, 0, 1, Sentinel>>, <<1, Sentinel>>, <<0, 1, 2, Sentinel>>}

Chain == <<<<0, 0, 1, Sentinel>>, <<0, 1, Sentinel>>, <<1, Sentinel>>>>

\* Not a blockmap: too short for a header, or for its blocks; no blocks.
Invalid ==
  {[elements |-> e, lists |-> <<>>] :
     e \in {<<>>, <<0, 0, 1>>, <<0, 0, 2, 2, 6>>, <<0, 0, 0, 3, 1, 1>>}}

ThreeShort == [1 .. 3 -> Short]

SmallLumps ==
  {Plain(ls) : ls \in ThreeShort} \cup {Backwards(ls) : ls \in ThreeShort}
  \cup {Shared(ls) : ls \in ThreeShort}
  \cup {Trailing(ls) : ls \in [1 .. 2 -> Short]}
  \cup {Nested(Chain)} \cup Invalid

\* A list of n lines, no end of which is a list of Tall.
Tall(n) == <<0>> \o [i \in 1 .. n |-> 1] \o <<Sentinel>>
Column(n) == <<0>> \o [i \in 1 .. n |-> 2] \o <<Sentinel>>

\* Four lists that together reach over the vanilla limit, or over both, but
\* that offsets can still reach, when each list is there once if not as they
\* are.
TallLists == [1 .. 4 -> {Tall(1), Tall(4), Column(6), Column(9)}]
Reaches(ls) == \A b \in DOMAIN ls : Begin(ls)[b] < Sentinel
TallLumps ==
  {Plain(ls) : ls \in {x \in TallLists : Reaches(x)}}
  \cup {Shared(ls) : ls \in TallLists}

\* Lists that no offset can reach: the builder's offsets have wrapped round.
WrappedLumps ==
  {Plain(ls) : ls \in {x \in [1 .. 4 -> {Tall(1), Tall(7), Column(8), Tall(16)}] :
                         ~Reaches(x)}}

\* A builder that shares what it can has put two lists, the second the end of
\* the first, in front of a long one that two blocks have.
SuffixLumps ==
  LET long == Column(5)
      shared == <<0, 0, 1, 1, Sentinel>>
  IN {Built(<<8 + Len(shared), 8 + Len(shared), 8, 8 + k>>, shared \o long,
            <<long, long, shared, SubSeq(shared, 1 + k, Len(shared))>>) :
        k \in 0 .. Len(shared) - 1}

\* The same across the extended limit: the end of a list that begins within it
\* is where no offset reaches.
WrappingLumps ==
  LET long == Tall(18)
      shared == <<0, 0, 2, 2, 2, 2, Sentinel>>
  IN {Built(<<8 + Len(shared), 8 + Len(shared), 8, 13>>, shared \o long,
            <<long, long, shared, SubSeq(shared, 6, 7)>>)}

AllLumps == SmallLumps \cup TallLumps \cup WrappedLumps

\* What the theorems suppose of lumps.
ASSUME LumpsRead == EndsFound /\ Meant
ASSUME TallUnnested == \A l \in TallLumps : Unnested(MakeBlocklist(l.elements))

AllCommands == [op : {"stack", "unstack"}, extblocks : BOOLEAN]
OnlyUnstack == {c \in AllCommands : c.op = "unstack"}
Vanilla == {c \in AllCommands : ~c.extblocks}
=============================================================================
