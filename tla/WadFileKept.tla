---------------------------- MODULE WadFileKept ----------------------------
(***************************************************************************)
(* Whatever runs there are, a file keeps its type and its lumps, and when  *)
(* it has been rewritten it has nothing else and no lump over another, for *)
(* all files that have something to write and in which the levels of       *)
(* consoles can be told.  The same run gives the same file, and the table  *)
(* tells what it has saved.                                                *)
(***************************************************************************)
EXTENDS WadFileProofs, Ranks

-----------------------------------------------------------------------------
(* Files that grow *)

\* A file begins with all the words of another.
Extends(f, g) ==
  Len(f) <= Len(g) /\ \A i \in 1 .. Len(f) : g[i] = f[i]

\* What can be read from a file is the same in one that extends it.
LEMMA ReadsOn ==
  ASSUME NEW f \in Seq(Word), NEW g \in Seq(Word), Extends(f, g),
         NEW e, e.offset \in Nat, e.length \in Nat, InFile(f, e)
  PROVE  InFile(g, e) /\ CacheLump(g, e) = CacheLump(f, e)
<1>1. Len(f) \in Nat /\ Len(g) \in Nat /\ Len(f) <= Len(g)
  BY DEF Extends
<1>2. InFile(g, e)
  BY <1>1 DEF InFile
<1>3. \A i \in 1 .. e.length : e.offset + i \in 1 .. Len(f)
  BY <1>1 DEF InFile
<1>4. \A i \in 1 .. e.length : g[e.offset + i] = f[e.offset + i]
  BY <1>3 DEF Extends
<1> QED
  BY <1>2, <1>4 DEF CacheLump

\* A lump is written in words of its own.
LEMMA LumpExtends ==
  ASSUME NEW f \in Seq(Word), HeaderRoom(f), NEW data \in Seq(Word)
  PROVE  Extends(f, WithLump(f, data))
<1>1. Len(f) \in Nat /\ Len(data) \in Nat
  OBVIOUS
<1>2. /\ Tell(f) \in Nat /\ Tell(f) >= Len(f)
      /\ Len(WithLump(f, data)) = Tell(f) + Len(data)
      /\ \A i \in 1 .. Len(f) : WithLump(f, data)[i] = f[i]
  BY LumpAppended
<1> QED
  BY <1>1, <1>2 DEF Extends

\* No word is part of two things, or of a thing in two forms.
LEMMA ContentsApart ==
  ASSUME NEW t \in Thing, NEW f \in DOMAIN Sizes[t],
         NEW u \in Thing, NEW g \in DOMAIN Sizes[u], Content(t, f) = Content(u, g)
  PROVE  t = u /\ f = g
<1>1. Sizes[t][f] \in Nat \ {0} /\ Sizes[u][g] \in Nat \ {0}
  BY SizesAssumption
<1>2. /\ Content(t, f)[1] = <<"lump", t, f, 1>>
      /\ Content(u, g)[1] = <<"lump", u, g, 1>>
  BY <1>1 DEF Content
<1> QED
  BY <1>2

LEMMA ContentNotEmpty ==
  ASSUME NEW t \in Thing, NEW f \in DOMAIN Sizes[t]
  PROVE  Content(t, f) # <<>>
<1>1. Sizes[t][f] \in Nat \ {0}
  BY SizesAssumption
<1>2. 1 \in DOMAIN Content(t, f)
  BY <1>1 DEF Content
<1> QED
  BY <1>2

-----------------------------------------------------------------------------
(* What a directory says when it is read again *)

LEMMA EntryReads ==
  ASSUME NEW e \in Entry, NEW g, NEW a \in Nat,
         \A j \in 1 .. 4 : g[a + j] = EntryWords(e)[j]
  PROVE  EntryAt(g, a) = e
<1>1. /\ e.offset \in Nat /\ e.length \in Nat /\ e.name \in Word \X Word
      /\ e = [offset |-> e.offset, length |-> e.length, name |-> e.name]
  BY DEF Entry
<1>2. PICK v \in Word, w \in Word : e.name = <<v, w>>
  BY <1>1
<1>3. EntryWords(e) = <<Long(e.offset), Long(e.length)>> \o <<v, w>>
  BY <1>2 DEF EntryWords
<1>4. /\ <<v, w>> \in Seq(Word) /\ Len(<<v, w>>) = 2
      /\ <<Long(e.offset), Long(e.length)>> \in Seq(Word)
      /\ Len(<<Long(e.offset), Long(e.length)>>) = 2
  BY <1>1, WordsTyped
<1>5. /\ EntryWords(e)[1] = Long(e.offset) /\ EntryWords(e)[2] = Long(e.length)
      /\ EntryWords(e)[3] = v /\ EntryWords(e)[4] = w
  BY <1>3, <1>4, Joint
<1>6. /\ Number(g[a + 1]) = e.offset /\ Number(g[a + 2]) = e.length
      /\ g[a + 3] = v /\ g[a + 4] = w
  BY <1>1, <1>5, WordsTyped
<1>7. EntryAt(g, a) = [offset |-> e.offset, length |-> e.length, name |-> <<v, w>>]
  BY <1>6 DEF EntryAt
<1> QED
  BY <1>1, <1>2, <1>7

LEMMA DirectoryWordsTyped ==
  ASSUME entries \in Seq(Entry)
  PROVE  /\ DirectoryWords \in Seq(Word)
         /\ Len(DirectoryWords) = 4 * Len(entries)
         /\ \A k \in 1 .. Len(entries), j \in 1 .. 4 :
              DirectoryWords[4 * (k - 1) + j] = EntryWords(entries[k])[j]
<1>0. Len(entries) \in Nat
  OBVIOUS
<1>2. DOMAIN DirectoryWords = 1 .. 4 * Len(entries)
  BY DEF DirectoryWords, ENTRY_SIZE
<1>3. ASSUME NEW i \in 1 .. 4 * Len(entries)
      PROVE  DirectoryWords[i] =
               EntryWords(entries[((i - 1) \div 4) + 1])[((i - 1) % 4) + 1]
  BY DEF DirectoryWords, ENTRY_SIZE
<1>4. ASSUME NEW k \in 1 .. Len(entries), NEW j \in 1 .. 4
      PROVE  DirectoryWords[4 * (k - 1) + j] = EntryWords(entries[k])[j]
  <2> DEFINE i == 4 * (k - 1) + j
  <2>1. /\ i \in 1 .. 4 * Len(entries)
        /\ ((i - 1) \div 4) + 1 = k /\ ((i - 1) % 4) + 1 = j
    BY <1>0
  <2> HIDE DEF i
  <2>2. DirectoryWords[i] = EntryWords(entries[k])[j]
    BY <1>3, <2>1
  <2> QED
    BY <2>2 DEF i
<1>5. ASSUME NEW e \in Entry, NEW j \in 1 .. 4
      PROVE  EntryWords(e)[j] \in Word
  <2>1. e.offset \in Nat /\ e.length \in Nat /\ e.name \in Word \X Word
    BY DEF Entry
  <2>2. PICK v \in Word, w \in Word : e.name = <<v, w>>
    BY <2>1
  <2>3. /\ <<v, w>> \in Seq(Word) /\ Len(<<v, w>>) = 2
        /\ <<Long(e.offset), Long(e.length)>> \in Seq(Word)
        /\ Len(<<Long(e.offset), Long(e.length)>>) = 2
    BY <2>1, WordsTyped
  <2>4. EntryWords(e) = <<Long(e.offset), Long(e.length)>> \o <<v, w>>
    BY <2>2 DEF EntryWords
  <2> QED
    BY <2>3, <2>4, Joint
<1>6. ASSUME NEW i \in 1 .. 4 * Len(entries)
      PROVE  DirectoryWords[i] \in Word
  <2>1. /\ ((i - 1) \div 4) + 1 \in 1 .. Len(entries)
        /\ ((i - 1) % 4) + 1 \in 1 .. 4
    BY <1>0
  <2>2. entries[((i - 1) \div 4) + 1] \in Entry
    BY <2>1
  <2> QED
    BY <1>3, <1>5, <2>1, <2>2
<1> QED
  <2>1. DirectoryWords = [i \in 1 .. 4 * Len(entries) |-> DirectoryWords[i]]
    BY <1>2 DEF DirectoryWords
  <2>2. 4 * Len(entries) \in Nat
    BY <1>0
  <2>3. DirectoryWords \in Seq(Word)
    BY <1>6, <2>1, <2>2
  <2> QED
    BY <1>2, <1>4, <2>2, <2>3

\* A file that is written can be opened, has the directory that was written to
\* it, and has the lumps that are not under its header.
LEMMA DirectoryReads ==
  ASSUME NEW f \in Seq(Word), Len(f) >= 3, entries \in Seq(Entry), type \in Type,
         NEW g, g = WithDirectory(f)
  PROVE  /\ g \in Seq(Word) /\ Opens(g) /\ g[1] = Magic(type)
         /\ NumEntries(g) = Len(entries) /\ DirOffset(g) = Len(f)
         /\ Len(g) = Len(f) + 4 * Len(entries)
         /\ Directory(g) = entries
         /\ \A i \in 4 .. Len(f) : g[i] = f[i]
         /\ g[2] = Long(Len(entries)) /\ g[3] = Long(Len(f))
         /\ \A k \in 1 .. Len(entries), j \in 1 .. 4 :
              g[Len(f) + 4 * (k - 1) + j] = EntryWords(entries[k])[j]
<1> DEFINE head == <<Magic(type), Long(Len(entries)), Long(Len(f))>>
           all == f \o DirectoryWords
           rest == SubSeq(all, 4, Len(all))
<1>0. Len(f) \in Nat /\ Len(entries) \in Nat
  OBVIOUS
<1>1. /\ head \in Seq(Word) /\ Len(head) = 3
      /\ head[1] = Magic(type) /\ head[2] = Long(Len(entries)) /\ head[3] = Long(Len(f))
  BY <1>0, WordsTyped
<1>2. /\ all \in Seq(Word) /\ Len(all) = Len(f) + 4 * Len(entries)
      /\ \A i \in 1 .. Len(f) : all[i] = f[i]
      /\ \A i \in 1 .. 4 * Len(entries) : all[Len(f) + i] = DirectoryWords[i]
  <2>1. DirectoryWords \in Seq(Word) /\ Len(DirectoryWords) = 4 * Len(entries)
    BY DirectoryWordsTyped
  <2>2. /\ all \in Seq(Word) /\ Len(all) = Len(f) + Len(DirectoryWords)
        /\ \A i \in 1 .. Len(f) : all[i] = f[i]
        /\ \A i \in 1 .. Len(DirectoryWords) : all[Len(f) + i] = DirectoryWords[i]
    BY <2>1, Joint
  <2> QED
    BY <2>1, <2>2
<1>3. g = head \o rest
  BY DEF WithDirectory, WAD_HEADER_SIZE
<1> HIDE DEF head, all
<1>4. /\ rest \in Seq(Word) /\ Len(rest) = Len(all) - 3
      /\ \A i \in 1 .. Len(rest) : rest[i] = all[3 + i]
  BY <1>0, <1>2
<1> HIDE DEF rest
<1>5. /\ g \in Seq(Word) /\ Len(g) = Len(all)
      /\ \A i \in 1 .. 3 : g[i] = head[i]
      /\ \A i \in 1 .. Len(rest) : g[3 + i] = rest[i]
  <2>1. /\ head \o rest \in Seq(Word) /\ Len(head \o rest) = Len(head) + Len(rest)
        /\ \A i \in 1 .. Len(head) : (head \o rest)[i] = head[i]
        /\ \A i \in 1 .. Len(rest) : (head \o rest)[Len(head) + i] = rest[i]
    BY <1>1, <1>4, Joint
  <2> QED
    BY <1>0, <1>1, <1>2, <1>3, <1>4, <2>1
<1>6. \A i \in 4 .. Len(all) : g[i] = all[i]
  <2> SUFFICES ASSUME NEW i \in 4 .. Len(all) PROVE g[i] = all[i]
    OBVIOUS
  <2>1. i - 3 \in 1 .. Len(rest) /\ 3 + (i - 3) = i
    BY <1>0, <1>2, <1>4
  <2> QED
    BY <1>4, <1>5, <2>1
<1>7. g[1] = Magic(type) /\ NumEntries(g) = Len(entries) /\ DirOffset(g) = Len(f)
  BY <1>0, <1>1, <1>5, WordsTyped DEF NumEntries, DirOffset
<1>8. Opens(g)
  BY <1>0, <1>2, <1>5, <1>7 DEF Opens, WAD_HEADER_SIZE, ENTRY_SIZE
<1>9. ASSUME NEW k \in 1 .. Len(entries), NEW j \in 1 .. 4
      PROVE  g[Len(f) + 4 * (k - 1) + j] = EntryWords(entries[k])[j]
  <2> DEFINE i == 4 * (k - 1) + j
  <2>1. /\ i \in 1 .. 4 * Len(entries) /\ Len(f) + i \in 4 .. Len(all)
        /\ Len(f) + 4 * (k - 1) + j = Len(f) + i
    BY <1>0, <1>2
  <2>2. DirectoryWords[i] = EntryWords(entries[k])[j]
    BY DirectoryWordsTyped
  <2> HIDE DEF i
  <2> QED
    BY <1>2, <1>6, <2>1, <2>2
<1>10. ASSUME NEW k \in 1 .. Len(entries)
       PROVE  EntryAt(g, Len(f) + 4 * (k - 1)) = entries[k]
  <2>1. Len(f) + 4 * (k - 1) \in Nat /\ entries[k] \in Entry
    BY <1>0
  <2> QED
    BY <1>9, <2>1, EntryReads
<1>11. Directory(g) = entries
  <2>1. Directory(g) = [k \in 1 .. Len(entries) |-> EntryAt(g, Len(f) + 4 * (k - 1))]
    BY <1>7 DEF Directory, ENTRY_SIZE
  <2> QED
    BY <1>10, <2>1
<1>12. \A i \in 4 .. Len(f) : g[i] = f[i]
  BY <1>0, <1>2, <1>6
<1>13. g[2] = Long(Len(entries)) /\ g[3] = Long(Len(f))
  BY <1>1, <1>5
<1> QED
  BY <1>2, <1>5, <1>7, <1>8, <1>9, <1>11, <1>12, <1>13

\* What is not under the header can be read as before.
LEMMA DataReads ==
  ASSUME NEW f \in Seq(Word), Len(f) >= 3, entries \in Seq(Entry), type \in Type,
         NEW g, g = WithDirectory(f), NEW e \in Entry, InFile(f, e),
         e.length > 0 => e.offset >= 3
  PROVE  InFile(g, e) /\ CacheLump(g, e) = CacheLump(f, e)
<1>0. /\ Len(f) \in Nat /\ Len(entries) \in Nat
      /\ e.offset \in Nat /\ e.length \in Nat
  BY DEF Entry
<1>1. Len(g) = Len(f) + 4 * Len(entries) /\ \A i \in 4 .. Len(f) : g[i] = f[i]
  BY DirectoryReads
<1>2. InFile(g, e)
  BY <1>0, <1>1 DEF InFile
<1>3. \A i \in 1 .. e.length : e.offset + i \in 4 .. Len(f)
  BY <1>0, SMTT(60) DEF InFile
<1>4. \A i \in 1 .. e.length : g[e.offset + i] = f[e.offset + i]
  BY <1>1, <1>3
<1> QED
  BY <1>2, <1>4 DEF CacheLump
-----------------------------------------------------------------------------
(* What a file keeps *)

\* The marks of the levels of consoles, which no name of a level has.
Markers == {NameWords("LEAFS"), NameWords("LIGHTS")}
Console(f) == \E k \in DOMAIN Directory(f) : Directory(f)[k].name \in Markers

\* The files of consoles can be told by a name in their directory.
ConsolesMarked ==
  \A w \in Wads : Readable(w) =>
    Console(w) \/ \A k \in DOMAIN Directory(w) : ~IsForeign(Data(w, k))

\* There is something to write.
NotAllEmpty ==
  \A w \in Wads : Readable(w) => \E k \in DOMAIN Directory(w) : Data(w, k) # <<>>

\* A new content stands for the things that the old one does, but for blockmaps
\* that overflow, which may be lost.
Alike(a, b) ==
  /\ a = <<>> <=> b = <<>>
  /\ \A t \in Thing : IsThing(a, t) => IsThing(b, t)
  /\ \A t \in Thing \ Overflowed : IsThing(b, t) => IsThing(a, t)

\* What LumpsKept asks, in a form in which one run can follow another.
KeepsFile(f, g) ==
  /\ Readable(f) /\ Readable(g)
  /\ g[1] = f[1] /\ DOMAIN Directory(g) = DOMAIN Directory(f)
  /\ \A k \in DOMAIN Directory(f) :
       /\ Directory(g)[k].name = Directory(f)[k].name
       /\ Alike(Data(g, k), Data(f, k))
  /\ Pairs(f) => Pairs(g)

LEMMA KeepsMeaning ==
  ASSUME NEW f, NEW g, KeepsFile(f, g)
  PROVE  Readable(g) /\ Meaning(g) = Meaning(f) /\ (Pairs(f) => Pairs(g))
<1>1. ASSUME NEW k \in DOMAIN Directory(f)
      PROVE  /\ Directory(g)[k].name = Directory(f)[k].name
             /\ {t \in Thing \ Overflowed : IsThing(Data(g, k), t)}
                  = {t \in Thing \ Overflowed : IsThing(Data(f, k), t)}
  BY DEF KeepsFile, Alike
<1>2. [k \in DOMAIN Directory(g) |->
         [name |-> Directory(g)[k].name,
          things |-> {t \in Thing \ Overflowed : IsThing(Data(g, k), t)}]]
        = [k \in DOMAIN Directory(f) |->
             [name |-> Directory(f)[k].name,
              things |-> {t \in Thing \ Overflowed : IsThing(Data(f, k), t)}]]
  BY <1>1 DEF KeepsFile
<1>3. Readable(g) /\ g[1] = f[1] /\ (Pairs(f) => Pairs(g))
  BY DEF KeepsFile
<1> QED
  BY <1>2, <1>3 DEF Meaning

LEMMA KeepsItself ==
  ASSUME NEW f, Readable(f)
  PROVE  KeepsFile(f, f)
BY DEF KeepsFile, Alike

LEMMA KeepsOn ==
  ASSUME NEW f, NEW g, NEW h, KeepsFile(f, g), KeepsFile(g, h)
  PROVE  KeepsFile(f, h)
<1>1. /\ Readable(f) /\ Readable(h) /\ h[1] = f[1]
      /\ DOMAIN Directory(g) = DOMAIN Directory(f)
      /\ DOMAIN Directory(h) = DOMAIN Directory(f)
      /\ Pairs(f) => Pairs(h)
  BY DEF KeepsFile
<1>2. ASSUME NEW k \in DOMAIN Directory(f)
      PROVE  /\ Directory(h)[k].name = Directory(f)[k].name
             /\ Alike(Data(h, k), Data(f, k))
  <2>1. /\ Directory(h)[k].name = Directory(g)[k].name
        /\ Directory(g)[k].name = Directory(f)[k].name
        /\ Alike(Data(h, k), Data(g, k)) /\ Alike(Data(g, k), Data(f, k))
    BY <1>1 DEF KeepsFile
  <2> QED
    BY <2>1 DEF Alike
<1> QED
  BY <1>1, <1>2 DEF KeepsFile

\* Things in the same place of different forms are alike: no content is that of
\* two things.
LEMMA SameAlike ==
  ASSUME NEW a, NEW b, SameThing(a, b), ~(Packs /\ IsForeign(b))
  PROVE  Alike(a, b)
<1>1. CASE a = b
  BY <1>1 DEF Alike
<1>2. CASE \E t \in Thing : IsThing(a, t) /\ IsThing(b, t)
  <2>1. PICK t \in Thing : IsThing(a, t) /\ IsThing(b, t)
    BY <1>2
  <2>2. PICK f \in DOMAIN Sizes[t], g \in DOMAIN Sizes[t] :
          a = Content(t, f) /\ b = Content(t, g)
    BY <2>1 DEF IsThing
  <2>3. a # <<>> /\ b # <<>>
    BY <2>2, ContentNotEmpty
  <2>4. ASSUME NEW u \in Thing, IsThing(a, u) \/ IsThing(b, u)
        PROVE  u = t
    BY <2>2, <2>4, ContentsApart DEF IsThing
  <2> QED
    BY <2>1, <2>3, <2>4 DEF Alike
<1>3. CASE \E t \in Overflowed : IsThing(b, t) /\ a = Content(t, "garbled")
  <2>1. PICK t \in Overflowed : IsThing(b, t) /\ a = Content(t, "garbled")
    BY <1>3
  <2>2. t \in Thing /\ "garbled" \in DOMAIN Sizes[t]
    BY ThingsAssumption
  <2>3. PICK g \in DOMAIN Sizes[t] : b = Content(t, g)
    BY <2>1 DEF IsThing
  <2>4. a # <<>> /\ b # <<>>
    BY <2>1, <2>2, <2>3, ContentNotEmpty
  <2>5. ASSUME NEW u \in Thing PROVE ~IsThing(a, u)
    BY <2>1, <2>2, ContentsApart DEF IsThing
  <2>6. ASSUME NEW u \in Thing, IsThing(b, u) PROVE u = t
    BY <2>2, <2>3, <2>6, ContentsApart DEF IsThing
  <2> QED
    BY <2>4, <2>5, <2>6 DEF Alike
<1> QED
  BY <1>1, <1>2, <1>3 DEF SameThing

\* A file that is like one of those there may be at first is that of a console
\* or has no lump of one.
LEMMA NoneForeign ==
  ASSUME ConsolesMarked, NEW w \in Wads, NEW f, KeepsFile(w, f),
         NEW k \in DOMAIN Directory(f), ~Console(f)
  PROVE  ~IsForeign(Data(f, k))
<1>1. /\ Readable(w) /\ DOMAIN Directory(w) = DOMAIN Directory(f)
      /\ \A j \in DOMAIN Directory(f) :
           /\ Directory(f)[j].name = Directory(w)[j].name
           /\ Alike(Data(f, j), Data(w, j))
  BY DEF KeepsFile
<1>2. ~Console(w)
  BY <1>1 DEF Console
<1>3. ~IsForeign(Data(w, k))
  BY <1>1, <1>2 DEF ConsolesMarked
<1> QED
  BY <1>1, <1>3, ThingsAssumption DEF IsForeign, Alike

-----------------------------------------------------------------------------
(* The invariant *)

\* The words of a lump.
Span(e) == e.offset .. e.offset + e.length - 1

\* What TightLayout asks of a file.
Tight(f, merged) ==
  LET dir == Directory(f)
      Owners(a) == {k \in DOMAIN dir : a \in Span(dir[k])}
  IN /\ Len(f) = IF dir = <<>> THEN WAD_HEADER_SIZE
                 ELSE DirOffset(f) + ENTRY_SIZE * Len(dir)
     /\ \A a \in 0 .. Len(f) - 1 :
          IF a < WAD_HEADER_SIZE \/ a >= DirOffset(f) THEN Owners(a) = {}
          ELSE IF merged THEN Cardinality({Span(dir[k]) : k \in Owners(a)}) = 1
          ELSE Cardinality(Owners(a)) = 1
     /\ merged => \A j, k \in DOMAIN dir :
                    Data(f, j) = Data(f, k) => Span(dir[j]) = Span(dir[k])

Merging(c) == c.op = "compress" /\ c.allowmerge
Same(f) ==
  IF Readable(trail[1]) THEN KeepsFile(trail[1], f) ELSE f = trail[1]

\* A file that is complete.
Ready ==
  /\ trail # <<>> /\ trail[1] \in Wads
  /\ Same(wad)
  /\ Rewritten => Tight(wad, Merging(Last(past).cmd))
  /\ pc \in {"reopen", "rename"} =>
       /\ Readable(trail[1]) /\ KeepsFile(trail[1], new)
       /\ pc = "reopen" => Merging(cmd)
       /\ pc = "rename" => Tight(new, Merging(cmd))

\* A lump that the first pass has written or left empty.
GoneOver(k) == k \in DOMAIN entries /\ k < count /\ ~Waits(k)
NewData(k) == CacheLump(new, entries[k])
OldData(k) == CacheLump(old, Was(k))
InLevel(k) == HasName(k, "LINEDEFS") \/ HasName(k, "SIDEDEFS")

\* The two lumps of a level are as they were, or both recoded.
Unison(k) ==
  \/ NewData(k) = OldData(k) /\ NewData(k - 1) = OldData(k - 1)
  \/ \E t, u \in Thing :
       /\ Target \in DOMAIN Sizes[t] /\ Target \in DOMAIN Sizes[u]
       /\ NewData(k) = Content(t, Target) /\ NewData(k - 1) = Content(u, Target)

Fine(k) ==
  /\ InFile(old, Was(k))
  /\ entries[k].length > 0 => entries[k].offset >= 3
  /\ ~Packs /\ InLevel(k) => NewData(k) = OldData(k)
  /\ Packs /\ IsSidedefs(k) /\ ~IsForeign(OldData(k)) => Unison(k)

Opened == old = wad /\ old[1] = Magic(type) /\ (psx_format <=> Console(old))
AllFine == \A k \in DOMAIN entries : GoneOver(k) => Fine(k)
LumpsApart ==
  \A j, k \in DOMAIN entries :
    GoneOver(j) /\ GoneOver(k) /\ j # k => Span(entries[j]) \cap Span(entries[k]) = {}
NoGaps ==
  \A a \in 3 .. Len(new) - 1 :
    \E k \in DOMAIN entries : GoneOver(k) /\ a \in Span(entries[k])
FirstKept == pc = "lumps" => Opened /\ AllFine /\ LumpsApart /\ NoGaps

\* The lump of an entry is one that RebuildMergedWad() has written.
Placement(k, l) == entries[k].offset = lumps[l].offset /\ OldData(k) = lumps[l].data

Reopened ==
  /\ Merging(cmd) /\ Readable(trail[1])
  /\ KeepsFile(trail[1], old) /\ old[1] = Magic(type)
  /\ \A k \in DOMAIN entries :
       entries[k].name = Was(k).name /\ entries[k].length = Was(k).length
AllPlaced ==
  Sorted => \A j \in 1 .. count - 1 : \E l \in DOMAIN lumps : Placement(elements[j], l)
AllOwned ==
  \A l \in DOMAIN lumps :
    lumps[l].offset >= 3 /\ \E j \in 1 .. count - 1 : Placement(elements[j], l)
MergedApart ==
  \A l, m \in DOMAIN lumps :
    l # m => /\ lumps[l].data # lumps[m].data
             /\ Span(Where(lumps[l])) \cap Span(Where(lumps[m])) = {}
MergedNoGaps ==
  \A a \in 3 .. Len(new) - 1 : \E l \in DOMAIN lumps : a \in Span(Where(lumps[l]))
SecondKept ==
  pc = "merge" => Reopened /\ AllPlaced /\ AllOwned /\ MergedApart /\ MergedNoGaps

KeptInv == PassInv /\ Ready /\ FirstKept /\ SecondKept

\* A run begins with a file that nothing has been done to.
LEMMA InitKept == Init => KeptInv
<1> SUFFICES ASSUME Init PROVE KeptInv
  OBVIOUS
<1>1. PassInv /\ pc = "idle" /\ trail = <<wad>> /\ wad \in Wads /\ past = <<>>
  BY InitPassInv DEF Init
<1>2. Same(wad)
  BY <1>1, KeepsItself DEF Same
<1>3. Ready
  BY <1>1, <1>2 DEF Ready, Rewritten
<1> QED
  BY <1>1, <1>3 DEF KeptInv, FirstKept, SecondKept
-----------------------------------------------------------------------------
(* The first pass *)

\* The last lump before this turn's waits if and only if this turn's is packed
\* with it.
LEMMA GoneSoFar ==
  ASSUME PassInv, MoreLumps, NEW k \in DOMAIN entries
  PROVE  /\ k \in Nat /\ count \in Nat
         /\ Packed(count) => (GoneOver(k) <=> k < count - 1)
         /\ ~Packed(count) => (GoneOver(k) <=> k < count)
<1>1. k \in Nat /\ count \in Nat /\ entries \in Seq(Entry)
  BY Untouched
<1>2. k = count - 1 => (Deferred(k) <=> Packed(count))
  <2>1. k = count - 1 => k + 1 = count
    BY <1>1
  <2> QED
    BY <2>1 DEF Deferred, Packed
<1> QED
  BY <1>1, <1>2 DEF GoneOver, Waits

\* The first pass in one lemma: the lumps "W" are written at this turn, after all
\* that the new file has.
LEMMA TurnKeeps ==
  ASSUME PassInv, PassInv', Opened, AllFine, LumpsApart, NoGaps, MoreLumps,
         UNCHANGED <<wad, pc, cmd, type, psx_format, old>>,
         Len(entries') = Len(entries),
         \A k \in DOMAIN entries : entries'[k].name = entries[k].name,
         Extends(new, new'),
         NEW W \in SUBSET DOMAIN entries,
         \A k \in DOMAIN entries \ W : entries'[k] = entries[k],
         \A k \in DOMAIN entries : GoneOver(k)' <=> GoneOver(k) \/ k \in W,
         \A k \in W : ~GoneOver(k) /\ Fine(k)',
         \A k \in W : Span(entries'[k]) \subseteq Len(new) .. Len(new') - 1,
         \A j, k \in W : j # k => Span(entries'[j]) \cap Span(entries'[k]) = {},
         \A a \in Len(new) .. Len(new') - 1 :
           a >= 3 => \E k \in W : a \in Span(entries'[k])
  PROVE  Opened' /\ AllFine' /\ LumpsApart' /\ NoGaps'
<1>1. /\ entries \in Seq(Entry) /\ entries' \in Seq(Entry)
      /\ DOMAIN entries' = DOMAIN entries /\ DOMAIN entries = 1 .. Len(entries)
      /\ new \in Seq(Word) /\ new' \in Seq(Word) /\ pc = "lumps"
  BY DEF PassInv, TypeOK, MoreLumps
<1>2. Len(new) \in Nat /\ Len(new') \in Nat /\ Len(entries) \in Nat
  BY <1>1
<1>3. ASSUME NEW k \in DOMAIN entries, GoneOver(k)
      PROVE  /\ entries[k] \in Entry /\ entries'[k] = entries[k] /\ Fine(k)
             /\ InFile(new, entries[k]) /\ NewData(k)' = NewData(k)
             /\ OldData(k)' = OldData(k)
             /\ Span(entries[k]) \subseteq 0 .. Len(new) - 1
  <2>1. entries[k] \in Entry
    BY <1>1
  <2>2. /\ entries[k].offset \in Nat /\ entries[k].length \in Nat
    BY <2>1 DEF Entry
  <2>3. InFile(new, entries[k])
    BY <1>1, <1>3, Untouched DEF GoneOver, Kept
  <2>4. entries'[k] = entries[k] /\ Fine(k)
    BY <1>3 DEF AllFine
  <2>5. CacheLump(new', entries[k]) = CacheLump(new, entries[k])
    BY <1>1, <2>2, <2>3, ReadsOn
  <2>6. Span(entries[k]) \subseteq 0 .. Len(new) - 1
    BY <1>2, <2>2, <2>3 DEF Span, InFile
  <2> QED
    BY <2>1, <2>3, <2>4, <2>5, <2>6 DEF NewData, OldData, Was
<1>4. Opened'
  BY DEF Opened, Console
<1>5. ASSUME NEW k \in DOMAIN entries, GoneOver(k) PROVE Fine(k)'
  <2>1. /\ (Packs' <=> Packs) /\ (Target' = Target)
        /\ (InLevel(k)' <=> InLevel(k)) /\ (IsSidedefs(k)' => IsSidedefs(k))
    <3>1. k - 1 \in DOMAIN entries \/ k = 1
      BY <1>1, <1>2
    <3>2. (Packs' <=> Packs) /\ Target' = Target
      BY DEF Packs, Target, Compresses
    <3>3. InLevel(k)' <=> InLevel(k)
      BY DEF InLevel, HasName
    <3>4. IsSidedefs(k)' => IsSidedefs(k)
      BY <1>1, <3>1 DEF IsSidedefs, HasName
    <3> QED
      BY <3>2, <3>3, <3>4
  <2>2. ASSUME Packs, IsSidedefs(k), ~IsForeign(OldData(k)) PROVE Unison(k)'
    <3>1. k - 1 \in DOMAIN entries
      BY <1>1, <1>2, <2>2 DEF IsSidedefs
    <3>2. GoneOver(k - 1)
      BY <1>5, <3>1, GoneSoFar
    <3>3. Unison(k)
      BY <1>3, <1>5, <2>2 DEF Fine
    <3>4. /\ NewData(k)' = NewData(k) /\ OldData(k)' = OldData(k)
          /\ NewData(k - 1)' = NewData(k - 1) /\ OldData(k - 1)' = OldData(k - 1)
      BY <1>3, <1>5, <3>1, <3>2
    <3> QED
      BY <2>1, <3>3, <3>4 DEF Unison
  <2>3. /\ InFile(old', Was(k)')
        /\ entries'[k].length > 0 => entries'[k].offset >= 3
        /\ ~Packs' /\ InLevel(k)' => NewData(k)' = OldData(k)'
    BY <1>3, <1>5, <2>1 DEF Fine, Was
  <2>4. IsForeign(OldData(k)') <=> IsForeign(OldData(k))
    BY <1>3, <1>5
  <2> QED
    BY <2>1, <2>2, <2>3, <2>4 DEF Fine, IsForeign, IsThing
<1>6. AllFine'
  BY <1>1, <1>5 DEF AllFine
<1>7. LumpsApart'
  <2> SUFFICES ASSUME NEW j \in DOMAIN entries, NEW k \in DOMAIN entries,
                      GoneOver(j)', GoneOver(k)', j # k
               PROVE  Span(entries'[j]) \cap Span(entries'[k]) = {}
    BY <1>1 DEF LumpsApart, Span
  <2>1. ASSUME NEW i \in DOMAIN entries, NEW l \in W, GoneOver(i)
        PROVE  Span(entries'[i]) \cap Span(entries'[l]) = {}
    <3>1. Span(entries'[i]) \subseteq 0 .. Len(new) - 1
      BY <1>3, <2>1
    <3>2. Span(entries'[l]) \subseteq Len(new) .. Len(new') - 1
      OBVIOUS
    <3>3. (0 .. Len(new) - 1) \cap (Len(new) .. Len(new') - 1) = {}
      BY <1>2
    <3> QED
      BY <3>1, <3>2, <3>3
  <2>2. CASE GoneOver(j) /\ GoneOver(k)
    <3>1. entries'[j] = entries[j] /\ entries'[k] = entries[k]
      BY <1>3, <2>2
    <3> QED
      BY <2>2, <3>1 DEF LumpsApart
  <2>3. CASE GoneOver(j) /\ k \in W
    BY <2>1, <2>3
  <2>4. CASE GoneOver(k) /\ j \in W
    BY <2>1, <2>4
  <2>5. CASE j \in W /\ k \in W
    BY <2>5
  <2> QED
    BY <2>2, <2>3, <2>4, <2>5
<1>8. NoGaps'
  <2> SUFFICES ASSUME NEW a \in 3 .. Len(new') - 1
               PROVE  \E k \in DOMAIN entries : GoneOver(k)' /\ a \in Span(entries'[k])
    BY <1>1 DEF NoGaps, Span
  <2>1. CASE a < Len(new)
    <3>1. a \in 3 .. Len(new) - 1
      BY <1>2, <2>1
    <3>2. PICK k \in DOMAIN entries : GoneOver(k) /\ a \in Span(entries[k])
      BY <3>1 DEF NoGaps
    <3> QED
      BY <1>3, <3>2
  <2>2. CASE ~(a < Len(new))
    <3>1. a \in Len(new) .. Len(new') - 1 /\ a >= 3
      BY <1>2, <2>2
    <3> QED
      BY <3>1
  <2> QED
    BY <2>1, <2>2
<1> QED
  BY <1>4, <1>6, <1>7, <1>8

\* Who has gone after this turn.
LEMMA GoneNext ==
  ASSUME PassInv, MoreLumps, count' = count + 1, UNCHANGED <<cmd, psx_format>>,
         DOMAIN entries' = DOMAIN entries,
         \A k \in DOMAIN entries : entries'[k].name = entries[k].name,
         NEW k \in DOMAIN entries
  PROVE  /\ Packed(count) =>
              (GoneOver(k)' <=> GoneOver(k) \/ k \in {count - 1, count})
         /\ Deferred(count) => (GoneOver(k)' <=> GoneOver(k))
         /\ ~Packed(count) /\ ~Deferred(count) =>
              (GoneOver(k)' <=> GoneOver(k) \/ k = count)
<1>1. Deferred(k)' <=> Deferred(k)
  BY Untouched, DeferredStays
<1>2. k \in Nat /\ count \in Nat
  BY GoneSoFar
<1>3. GoneOver(k)' <=> k < count \/ (k = count /\ ~Deferred(count))
  BY <1>1, <1>2 DEF GoneOver, Waits
<1>4. ~(Packed(count) /\ Deferred(count))
  BY <1>2, NotBoth
<1>5. Packed(count) => (GoneOver(k) <=> k < count - 1)
  BY GoneSoFar
<1>6. ~Packed(count) => (GoneOver(k) <=> k < count)
  BY GoneSoFar
<1> QED
  BY <1>2, <1>3, <1>4, <1>5, <1>6
\* Where a lump is that is written now.
LEMMA LumpSpans ==
  ASSUME NEW f \in Seq(Word), HeaderRoom(f), NEW data \in Seq(Word),
         NEW g, g = WithLump(f, data), NEW e, e.offset = Tell(f), e.length = Len(data)
  PROVE  /\ Extends(f, g) /\ e.offset >= 3
         /\ Len(f) \in Nat /\ Len(g) \in Nat /\ Len(f) <= Len(g)
         /\ Span(e) \subseteq Len(f) .. Len(g) - 1
         /\ \A a \in Len(f) .. Len(g) - 1 : a >= 3 => a \in Span(e)
<1>1. Len(f) \in Nat /\ Len(data) \in Nat
  OBVIOUS
<1>2. Tell(f) \in Nat /\ Len(g) = Tell(f) + Len(data) /\ Extends(f, g)
  BY LumpAppended, LumpExtends
<1>3. /\ Tell(f) >= 3 /\ Tell(f) >= Len(f)
      /\ \A a \in Nat : a >= 3 /\ a >= Len(f) => a >= Tell(f)
  BY <1>1 DEF Tell, WAD_HEADER_SIZE
<1>4. Span(e) = Tell(f) .. Len(g) - 1
  BY <1>1, <1>2 DEF Span
<1> QED
  BY <1>1, <1>2, <1>3, <1>4

LEMMA NamesApart ==
  /\ NameWords("LINEDEFS") # NameWords("SIDEDEFS")
  /\ NameWords("LINEDEFS") # NameWords("BLOCKMAP")
  /\ NameWords("SIDEDEFS") # NameWords("BLOCKMAP")
BY DEF NameWords

\* A turn in which one lump is written.
LEMMA OneKept ==
  ASSUME PassInv, PassInv', Opened, AllFine, LumpsApart, NoGaps,
         Stack \/ Squash \/ Store, count' = count + 1,
         UNCHANGED <<wad, pc, cmd, type, psx_format, old>>
  PROVE  Opened' /\ AllFine' /\ LumpsApart' /\ NoGaps'
<1>1. PICK data \in {Lump(count), Restacked(Lump(count)), Resquashed(Lump(count))} :
        /\ WriteWadLump(data)
        /\ Store => data = Lump(count)
        /\ data = Lump(count) \/ cmd.allowstack \/ data = Resquashed(Lump(count))
  <2>1. CASE Stack \/ Squash
    <3>1. \/ WriteWadLump(Restacked(Lump(count))) /\ cmd.allowstack
          \/ WriteWadLump(Resquashed(Lump(count)))
      BY <2>1 DEF Stack, Squash, Stacked
    <3>2. ~Store
      BY <2>1 DEF Store, Stored, Stack, Squash
    <3> QED
      BY <3>1, <3>2
  <2>2. CASE Store
    BY <2>2 DEF Store
  <2> QED
    BY <2>1, <2>2
<1>2. /\ MoreLumps /\ ~Packed(count) /\ ~Deferred(count) /\ ~CannotAdd
      /\ ~Empty(count)
  BY DEF Stack, Squash, Store, Stored, Empty
<1>3. /\ InFile(old, entries[count]) /\ old \in Seq(Word)
      /\ entries[count].offset \in Nat /\ entries[count].length \in Nat
      /\ entries[count] \in Entry /\ entries \in Seq(Entry) /\ count \in 1 .. Len(entries)
      /\ entries[count] = Was(count) /\ Lump(count) = OldData(count)
      /\ new \in Seq(Word) /\ HeaderRoom(new)
  <2>1. InFile(old, entries[count]) /\ old \in Seq(Word)
    BY <1>2 DEF CannotAdd, PassInv, TypeOK
  <2>2. /\ entries[count] \in Entry /\ entries \in Seq(Entry)
        /\ count \in 1 .. Len(entries) /\ new \in Seq(Word) /\ HeaderRoom(new)
        /\ entries[count] = Was(count) /\ Lump(count) = OldData(count)
    BY <1>2, Untouched DEF OldData
  <2>3. entries[count].offset \in Nat /\ entries[count].length \in Nat
    BY <2>2 DEF Entry
  <2> QED
    BY <2>1, <2>2, <2>3
<1>4. data \in Seq(Word)
  <2>1. Lump(count) \in Seq(Word)
    BY <1>3, LumpTyped DEF Lump
  <2>2. cmd.allowstack => Restacked(Lump(count)) \in Seq(Word)
    BY <2>1, RestackedSame
  <2>3. Resquashed(Lump(count)) \in Seq(Word)
    BY <2>1, ResquashedSame
  <2> QED
    BY <1>1, <2>1, <2>2, <2>3
<1>5. /\ new' = WithLump(new, data) /\ Len(entries') = Len(entries)
      /\ entries'[count].offset = Tell(new) /\ entries'[count].length = Len(data)
      /\ \A k \in DOMAIN entries : entries'[k].name = entries[k].name
      /\ \A k \in DOMAIN entries \ {count} : entries'[k] = entries[k]
  <2>1. /\ new' = WithLump(new, data) /\ Len(entries') = Len(entries)
        /\ entries'[count] = Written(entries[count], new, data)
        /\ \A k \in DOMAIN entries \ {count} : entries'[k] = entries[k]
    BY <1>1, <1>3 DEF WriteWadLump
  <2>2. /\ entries'[count].offset = Tell(new) /\ entries'[count].length = Len(data)
        /\ entries'[count].name = entries[count].name
    BY <1>3, <2>1 DEF Written, Entry
  <2> QED
    BY <2>1, <2>2
<1>6. DOMAIN entries' = DOMAIN entries
  BY <1>5 DEF PassInv, TypeOK
<1>7. ASSUME NEW k, k = count PROVE Fine(k)'
  <2>1. NewData(k)' = data
    BY <1>3, <1>4, <1>5, <1>7, LumpReads DEF NewData
  <2>2. /\ InFile(old', Was(k)') /\ OldData(k)' = OldData(k)
        /\ (Packs' <=> Packs)
    BY <1>3, <1>7 DEF OldData, Was, Packs
  <2>3. entries'[k].offset >= 3
    BY <1>3, <1>4, <1>5, <1>7, LumpSpans
  <2>4. InLevel(k)' <=> InLevel(k)
    BY <1>3, <1>5, <1>7, SMTT(60) DEF InLevel, HasName
  <2>5. ~(Packs' /\ IsSidedefs(k)')
    <3>1. k - 1 \in DOMAIN entries \/ k = 1
      BY <1>3, <1>7
    <3>2. IsSidedefs(k)' => IsSidedefs(k)
      BY <1>3, <1>5, <1>6, <1>7, <3>1 DEF IsSidedefs, HasName
    <3> QED
      BY <1>2, <1>7, <2>2, <3>2 DEF Packed
  <2>6. InLevel(k) => data = OldData(k)
    <3>1. InLevel(k) => ~Stacked(k) /\ ~Squashed(k)
      BY NamesAssumption, NamesApart DEF InLevel, Stacked, Squashed, IsGraphic, HasName
    <3> QED
      BY <1>1, <1>3, <1>7, <3>1 DEF Stack, Squash
  <2> QED
    BY <2>1, <2>2, <2>3, <2>4, <2>5, <2>6 DEF Fine, Was
<1>8. \A k \in {count} : Fine(k)'
  BY <1>7
<1>9. \A k \in DOMAIN entries : GoneOver(k)' <=> GoneOver(k) \/ k \in {count}
  BY <1>2, <1>5, <1>6, GoneNext
<1>10. ~GoneOver(count)
  BY <1>3 DEF GoneOver
<1>11. /\ Extends(new, new')
       /\ Span(entries'[count]) \subseteq Len(new) .. Len(new') - 1
       /\ \A a \in Len(new) .. Len(new') - 1 : a >= 3 => a \in Span(entries'[count])
  BY <1>3, <1>4, <1>5, LumpSpans
<1>12. {count} \in SUBSET DOMAIN entries
  BY <1>3
<1> QED
  BY <1>2, <1>5, <1>8, <1>9, <1>10, <1>11, <1>12, TurnKeeps

\* A turn in which none is.
LEMMA NoneKept ==
  ASSUME PassInv, PassInv', Opened, AllFine, LumpsApart, NoGaps,
         Defer \/ LeaveEmpty, count' = count + 1,
         UNCHANGED <<wad, pc, cmd, type, psx_format, old>>
  PROVE  Opened' /\ AllFine' /\ LumpsApart' /\ NoGaps'
<1>1. /\ MoreLumps /\ new' = new /\ new \in Seq(Word) /\ entries \in Seq(Entry)
      /\ count \in 1 .. Len(entries) /\ entries[count] \in Entry
      /\ entries[count] = Was(count)
  BY Untouched DEF Defer, LeaveEmpty
<1>2. Extends(new, new') /\ Len(new) .. Len(new') - 1 = {}
  BY <1>1 DEF Extends
<1>3. CASE Defer
  <2>1. entries' = entries /\ Deferred(count)
    BY <1>3 DEF Defer
  <2>2. \A k \in DOMAIN entries : GoneOver(k)' <=> GoneOver(k) \/ k \in {}
    BY <1>1, <2>1, GoneNext
  <2> QED
    BY <1>1, <1>2, <2>1, <2>2, TurnKeeps
<1>4. CASE LeaveEmpty
  <2>1. /\ entries' = [entries EXCEPT ![count].offset = 0]
        /\ entries[count].length = 0 /\ ~Deferred(count) /\ ~Packed(count)
    BY <1>4 DEF LeaveEmpty, NoOffset, Empty, Stored
  <2>2. /\ Len(entries') = Len(entries) /\ DOMAIN entries' = DOMAIN entries
        /\ entries'[count].length = 0 /\ entries'[count].offset = 0
        /\ \A k \in DOMAIN entries : entries'[k].name = entries[k].name
        /\ \A k \in DOMAIN entries \ {count} : entries'[k] = entries[k]
    BY <1>1, <2>1 DEF Entry
  <2>3. \A k \in DOMAIN entries : GoneOver(k)' <=> GoneOver(k) \/ k \in {count}
    BY <1>1, <2>1, <2>2, GoneNext
  <2>4. ASSUME NEW k \in {count} PROVE Fine(k)'
    <3>1. 1 .. 0 = {} /\ k = count
      OBVIOUS
    <3>2. NewData(k)' = OldData(k)'
      <4>1. entries'[k].length = 0 /\ Was(k)'.length = 0
        BY <1>1, <2>1, <2>2, <3>1 DEF Was
      <4> QED
        BY <3>1, <4>1 DEF NewData, OldData, CacheLump
    <3>3. InFile(old', Was(k)') /\ ~(entries'[k].length > 0)
      BY <1>1, <2>1, <2>2, <3>1 DEF InFile, Was
    <3>4. ~(Packs' /\ IsSidedefs(k)')
      <4>1. k - 1 \in DOMAIN entries \/ k = 1
        BY <1>1
      <4>2. IsSidedefs(k)' => IsSidedefs(k)
        BY <1>1, <2>2, <4>1 DEF IsSidedefs, HasName
      <4>3. Packs' <=> Packs
        BY DEF Packs
      <4> QED
        BY <2>1, <3>1, <4>2, <4>3 DEF Packed
    <3> QED
      BY <3>2, <3>3, <3>4 DEF Fine
  <2>5. Span(entries'[count]) = {}
    BY <2>2 DEF Span
  <2>6. ~GoneOver(count) /\ {count} \in SUBSET DOMAIN entries
    BY <1>1 DEF GoneOver
  <2> QED
    BY <1>1, <1>2, <2>2, <2>3, <2>4, <2>5, <2>6, TurnKeeps
<1> QED
  BY <1>3, <1>4
\* What P_Pack and P_Unpack make of a level.
LEMMA LevelInUnison ==
  ASSUME NEW k, ~IsForeign(Lump(k))
  PROVE  \/ Level(k)[2] = Lump(k) /\ Level(k)[1] = Lump(k - 1)
         \/ \E t, u \in Thing :
              /\ Target \in DOMAIN Sizes[t] /\ Target \in DOMAIN Sizes[u]
              /\ Level(k)[2] = Content(t, Target) /\ Level(k)[1] = Content(u, Target)
<1>1. CASE Recodes(Lump(k - 1)) /\ Recodes(Lump(k))
  <2>1. Level(k) = <<Recoded(Lump(k - 1)), Recoded(Lump(k))>>
    BY <1>1 DEF Level
  <2>2. ASSUME NEW data, Recodes(data)
        PROVE  \E t \in Thing : Target \in DOMAIN Sizes[t]
                                /\ Recoded(data) = Content(t, Target)
    <3> DEFINE t == CHOOSE u \in Thing : RecodedAs(data, u)
    <3>1. t \in Thing /\ RecodedAs(data, t)
      BY <2>2 DEF Recodes
    <3>2. Recoded(data) = Content(t, Target)
      BY <2>2 DEF Recoded
    <3> HIDE DEF t
    <3> QED
      BY <3>1, <3>2 DEF RecodedAs
  <2>3. PICK t \in Thing : Target \in DOMAIN Sizes[t]
                           /\ Recoded(Lump(k)) = Content(t, Target)
    BY <1>1, <2>2
  <2>4. PICK u \in Thing : Target \in DOMAIN Sizes[u]
                           /\ Recoded(Lump(k - 1)) = Content(u, Target)
    BY <1>1, <2>2
  <2> QED
    BY <2>1, <2>3, <2>4
<1>2. CASE ~(Recodes(Lump(k - 1)) /\ Recodes(Lump(k)))
  BY <1>2 DEF Level
<1> QED
  BY <1>1, <1>2

\* A turn in which two are, those of a level.
LEMMA TwoKept ==
  ASSUME PassInv, PassInv', Opened, AllFine, LumpsApart, NoGaps,
         Pack, count' = count + 1,
         UNCHANGED <<wad, pc, cmd, type, psx_format, old>>
  PROVE  Opened' /\ AllFine' /\ LumpsApart' /\ NoGaps'
<1> DEFINE ld == Level(count)[1]
           sd == Level(count)[2]
           then == WithLump(new, ld)
<1>1. /\ MoreLumps /\ Packed(count) /\ ~CannotAdd
      /\ entries' = [entries EXCEPT ![count - 1] = Written(@, new, ld),
                                    ![count] = Written(@, then, sd)]
      /\ new' = WithLump(then, sd)
  BY DEF Pack
<1>2. /\ entries \in Seq(Entry) /\ count \in 1 .. Len(entries)
      /\ count - 1 \in 1 .. Len(entries)
      /\ entries[count] \in Entry /\ entries[count - 1] \in Entry
      /\ new \in Seq(Word) /\ HeaderRoom(new) /\ old \in Seq(Word)
      /\ InFile(old, entries[count]) /\ InFile(old, entries[count - 1])
  <2>1. /\ entries \in Seq(Entry) /\ count \in 1 .. Len(entries)
        /\ new \in Seq(Word) /\ HeaderRoom(new) /\ old \in Seq(Word)
    BY <1>1, Untouched DEF PassInv, TypeOK
  <2>2. count # 1
    BY <1>1 DEF Packed, IsSidedefs
  <2> QED
    BY <1>1, <2>1, <2>2 DEF CannotAdd
<1>3. /\ count \in Nat /\ count - 1 \in Nat /\ ~Deferred(count) /\ Waits(count - 1)
      /\ (count - 1) + 1 = count
  <2>1. count \in Nat /\ count - 1 \in Nat /\ (count - 1) + 1 = count
    BY <1>2
  <2> QED
    BY <1>1, <2>1, NotBoth DEF Packed, Deferred, Waits
<1>4. /\ entries[count] = Was(count) /\ Lump(count) = OldData(count)
      /\ entries[count - 1] = Was(count - 1) /\ Lump(count - 1) = OldData(count - 1)
  BY <1>1, <1>2, <1>3, Untouched DEF OldData, Lump
<1>5. ld \in Seq(Word) /\ sd \in Seq(Word)
  <2>1. Lump(count) \in Seq(Word) /\ Lump(count - 1) \in Seq(Word)
    BY <1>2, LumpTyped DEF Lump, Entry
  <2> QED
    BY <1>1, <2>1, LevelSame DEF Packed
<1>6. \/ IsForeign(OldData(count))
      \/ sd = OldData(count) /\ ld = OldData(count - 1)
      \/ \E t, u \in Thing :
           /\ Target \in DOMAIN Sizes[t] /\ Target \in DOMAIN Sizes[u]
           /\ sd = Content(t, Target) /\ ld = Content(u, Target)
  BY <1>4, LevelInUnison
<1> HIDE DEF ld, sd
<1>7. then \in Seq(Word) /\ HeaderRoom(then)
  BY <1>2, <1>5, LumpAppended
<1>8. /\ Len(entries') = Len(entries)
      /\ entries'[count - 1].offset = Tell(new) /\ entries'[count - 1].length = Len(ld)
      /\ entries'[count].offset = Tell(then) /\ entries'[count].length = Len(sd)
      /\ \A k \in DOMAIN entries : entries'[k].name = entries[k].name
      /\ \A k \in DOMAIN entries \ {count - 1, count} : entries'[k] = entries[k]
  <2> HIDE DEF then
  <2>1. /\ Len(entries') = Len(entries)
        /\ entries'[count - 1] = Written(entries[count - 1], new, ld)
        /\ entries'[count] = Written(entries[count], then, sd)
        /\ \A k \in DOMAIN entries \ {count - 1, count} : entries'[k] = entries[k]
    BY <1>1, <1>2, <1>3
  <2> QED
    BY <1>2, <2>1, ZenonT(60) DEF Written, Entry
<1>9. DOMAIN entries' = DOMAIN entries
  BY <1>8 DEF PassInv, TypeOK
<1>10. /\ Extends(new, then) /\ entries'[count - 1].offset >= 3
       /\ Len(new) \in Nat /\ Len(then) \in Nat /\ Len(new) <= Len(then)
       /\ Span(entries'[count - 1]) \subseteq Len(new) .. Len(then) - 1
       /\ \A a \in Len(new) .. Len(then) - 1 : a >= 3 => a \in Span(entries'[count - 1])
  BY <1>2, <1>5, <1>8, LumpSpans, SMTT(60)
<1>11. /\ Extends(then, new') /\ entries'[count].offset >= 3
       /\ Len(then) \in Nat /\ Len(new') \in Nat /\ Len(then) <= Len(new')
       /\ Span(entries'[count]) \subseteq Len(then) .. Len(new') - 1
       /\ \A a \in Len(then) .. Len(new') - 1 : a >= 3 => a \in Span(entries'[count])
  <2> HIDE DEF then
  <2> QED
    BY <1>1, <1>5, <1>7, <1>8, LumpSpans, ZenonT(60)
<1>12. CacheLump(new', entries'[count]) = sd
  BY <1>1, <1>5, <1>7, <1>8, LumpReads
<1>13. CacheLump(new', entries'[count - 1]) = ld
  <2>1. InFile(then, entries'[count - 1]) /\ CacheLump(then, entries'[count - 1]) = ld
    BY <1>2, <1>5, <1>8, LumpReads
  <2>2. entries'[count - 1].offset \in Nat /\ entries'[count - 1].length \in Nat
    BY <1>2, <1>5, <1>8, LumpAppended
  <2> QED
    BY <1>1, <1>5, <1>7, <2>1, <2>2, LumpStays
<1> HIDE DEF then
<1>14. Extends(new, new')
  BY <1>10, <1>11 DEF Extends
<1>15. (Packs' <=> Packs) /\ Target' = Target /\ Packs
  BY <1>1 DEF Packs, Target, Compresses, Packed
<1>16. ASSUME NEW k, k = count PROVE Fine(k)'
  <2>1. NewData(k)' = sd /\ NewData(k - 1)' = ld
    BY <1>12, <1>13, <1>16 DEF NewData
  <2>2. OldData(k)' = OldData(k) /\ OldData(k - 1)' = OldData(k - 1)
    BY DEF OldData, Was
  <2>3. ~IsForeign(OldData(k))' => Unison(k)'
    <3>1. IsForeign(OldData(k))' <=> IsForeign(OldData(k))
      BY <2>2 DEF IsForeign, IsThing
    <3> QED
      BY <1>6, <1>15, <1>16, <2>1, <2>2, <3>1 DEF Unison
  <2>4. InFile(old', Was(k)') /\ entries'[k].offset >= 3
    BY <1>2, <1>4, <1>11, <1>16 DEF Was
  <2> QED
    BY <1>15, <2>3, <2>4 DEF Fine
<1>17. ASSUME NEW k, k = count - 1 PROVE Fine(k)'
  <2>1. InFile(old', Was(k)') /\ entries'[k].offset >= 3
    BY <1>2, <1>4, <1>10, <1>17 DEF Was
  <2>2. ~IsSidedefs(k)'
    <3>1. entries'[k].name = NameWords("LINEDEFS")
      BY <1>1, <1>2, <1>8, <1>17 DEF Packed, IsSidedefs, HasName
    <3> QED
      BY <3>1, NamesApart DEF IsSidedefs, HasName
  <2> QED
    BY <1>15, <2>1, <2>2 DEF Fine
<1>18. \A k \in DOMAIN entries : GoneOver(k)' <=> GoneOver(k) \/ k \in {count - 1, count}
  BY <1>1, <1>8, <1>9, GoneNext
<1>19. \A k \in {count - 1, count} : ~GoneOver(k) /\ Fine(k)'
  BY <1>2, <1>3, <1>16, <1>17 DEF GoneOver
<1>20. \A k \in {count - 1, count} :
         Span(entries'[k]) \subseteq Len(new) .. Len(new') - 1
  BY <1>10, <1>11
<1>21. \A j, k \in {count - 1, count} :
         j # k => Span(entries'[j]) \cap Span(entries'[k]) = {}
  <2>1. (Len(new) .. Len(then) - 1) \cap (Len(then) .. Len(new') - 1) = {}
    BY <1>10, <1>11
  <2>2. Span(entries'[count - 1]) \cap Span(entries'[count]) = {}
    BY <1>10, <1>11, <2>1
  <2> QED
    BY <2>2
<1>22. ASSUME NEW a \in Len(new) .. Len(new') - 1, a >= 3
       PROVE  \E k \in {count - 1, count} : a \in Span(entries'[k])
  <2>1. a \in Len(new) .. Len(then) - 1 \/ a \in Len(then) .. Len(new') - 1
    BY <1>10, <1>11
  <2> QED
    BY <1>10, <1>11, <1>22, <2>1
<1>23. {count - 1, count} \in SUBSET DOMAIN entries
  BY <1>2
<1> QED
  BY <1>1, <1>8, <1>14, <1>18, <1>19, <1>20, <1>21, <1>22, <1>23, TurnKeeps

\* Each turn of the first pass.
LEMMA NextLumpKept ==
  ASSUME KeptInv, PassInv', NextLump
  PROVE  KeptInv'
<1>1. /\ pc = "lumps" /\ pc' = "lumps" /\ count' = count + 1
      /\ UNCHANGED <<wad, cmd, type, psx_format, old, past, trail>>
  BY DEF NextLump, history, Defer, Pack, Stack, Squash, Store, LeaveEmpty, MoreLumps
<1>2. PassInv /\ Opened /\ AllFine /\ LumpsApart /\ NoGaps
  BY <1>1 DEF KeptInv, FirstKept
<1>3. Opened' /\ AllFine' /\ LumpsApart' /\ NoGaps'
  <2>1. CASE Defer \/ LeaveEmpty
    BY <1>1, <1>2, <2>1, NoneKept
  <2>2. CASE Pack
    BY <1>1, <1>2, <2>2, TwoKept
  <2>3. CASE Stack \/ Squash \/ Store
    BY <1>1, <1>2, <2>3, OneKept
  <2> QED
    BY <2>1, <2>2, <2>3 DEF NextLump
<1>4. Ready'
  BY <1>1 DEF KeptInv, Ready, Same, Rewritten
<1> QED
  BY <1>1, <1>3, <1>4 DEF KeptInv, FirstKept, SecondKept
-----------------------------------------------------------------------------
(* The file that a pass has written *)

\* When its directory and its header are written a new file has what the old one
\* has, if each of its lumps does.
LEMMA NewFileKeeps ==
  ASSUME NotAllEmpty, NEW w \in Wads, KeepsFile(w, old), old[1] = Magic(type),
         PassInv, Len(entries) = NumEntries(old),
         \A k \in DOMAIN entries :
           /\ entries[k].name = Was(k).name
           /\ InFile(new, entries[k]) /\ (entries[k].length > 0 => entries[k].offset >= 3)
           /\ Alike(NewData(k), OldData(k)),
         Pairs(old) =>
           \A k \in DOMAIN entries \ {1} :
             /\ entries[k].name = NameWords("SIDEDEFS")
             /\ entries[k - 1].name = NameWords("LINEDEFS")
             => \A t, u \in Thing :
                  \A form \in DOMAIN Sizes[t], other \in DOMAIN Sizes[u] :
                    NewData(k) = Content(t, form) /\ NewData(k - 1) = Content(u, other)
                      => form = other,
         NEW g, g = WithDirectory(new)
  PROVE  /\ KeepsFile(w, g) /\ KeepsFile(old, g) /\ Len(new) >= 3
         /\ Directory(g) = entries /\ DirOffset(g) = Len(new)
         /\ Len(g) = Len(new) + 4 * Len(entries)
         /\ \A k \in DOMAIN entries : Data(g, k) = NewData(k)
<1>1. /\ entries \in Seq(Entry) /\ new \in Seq(Word) /\ old \in Seq(Word) /\ type \in Type
      /\ Len(entries) \in Nat /\ Len(new) \in Nat
      /\ DOMAIN entries = 1 .. Len(entries)
      /\ DOMAIN Directory(old) = DOMAIN entries
  <2>1. entries \in Seq(Entry) /\ new \in Seq(Word) /\ old \in Seq(Word) /\ type \in Type
    BY DEF PassInv, TypeOK
  <2>2. Len(entries) \in Nat /\ DOMAIN entries = 1 .. Len(entries) /\ Len(new) \in Nat
    BY <2>1
  <2>3. DOMAIN Directory(old) = 1 .. NumEntries(old)
    BY DEF Directory
  <2> QED
    BY <2>1, <2>2, <2>3
<1>2. Readable(w) /\ Readable(old) /\ DOMAIN Directory(w) = DOMAIN entries
  BY <1>1 DEF KeepsFile
<1>3. Len(new) >= 3
  <2>1. PICK k \in DOMAIN entries : Data(w, k) # <<>>
    BY <1>2 DEF NotAllEmpty
  <2>2. Data(old, k) # <<>> /\ Data(old, k) = OldData(k)
    BY <1>1, <2>1 DEF KeepsFile, Alike, Data, OldData, Was
  <2>3. NewData(k) # <<>>
    BY <2>2 DEF Alike
  <2>4. entries[k].offset \in Nat /\ entries[k].length \in Nat
    <3>1. entries[k] \in Entry
      BY <1>1
    <3> QED
      BY <3>1 DEF Entry
  <2>5. entries[k].length # 0
    <3>1. [i \in 1 .. 0 |-> new[entries[k].offset + i]] = <<>>
      OBVIOUS
    <3> QED
      BY <2>3, <3>1 DEF NewData, CacheLump
  <2>6. entries[k].offset >= 3 /\ InFile(new, entries[k])
    BY <2>4, <2>5
  <2> QED
    BY <1>1, <2>4, <2>5, <2>6 DEF InFile
<1>4. /\ Opens(g) /\ g[1] = Magic(type) /\ Directory(g) = entries
      /\ DirOffset(g) = Len(new) /\ Len(g) = Len(new) + 4 * Len(entries)
  BY <1>1, <1>3, DirectoryReads
<1>5. ASSUME NEW k \in DOMAIN entries
      PROVE  /\ InFile(g, entries[k]) /\ Data(g, k) = NewData(k)
             /\ Data(old, k) = OldData(k)
  <2>1. entries[k] \in Entry
    BY <1>1
  <2>2. InFile(g, entries[k]) /\ CacheLump(g, entries[k]) = CacheLump(new, entries[k])
    BY <1>1, <1>3, <2>1, DataReads
  <2> QED
    BY <1>4, <2>2 DEF Data, NewData, OldData, Was
<1>6. Readable(g)
  BY <1>4, <1>5 DEF Readable
<1>7. Pairs(old) => Pairs(g)
  <2> SUFFICES ASSUME Pairs(old), NEW k \in DOMAIN entries \ {1},
                      entries[k].name = NameWords("SIDEDEFS"),
                      entries[k - 1].name = NameWords("LINEDEFS"),
                      NEW t \in Thing, NEW u \in Thing,
                      NEW form \in DOMAIN Sizes[t], NEW other \in DOMAIN Sizes[u],
                      Data(g, k) = Content(t, form), Data(g, k - 1) = Content(u, other)
               PROVE  form = other
    BY <1>4 DEF Pairs
  <2>1. k - 1 \in DOMAIN entries
    BY <1>1
  <2>2. NewData(k) = Content(t, form) /\ NewData(k - 1) = Content(u, other)
    BY <1>5, <2>1
  <2> QED
    BY <2>2
<1>8. KeepsFile(old, g)
  BY <1>1, <1>2, <1>4, <1>5, <1>6, <1>7 DEF KeepsFile, Was
<1> QED
  BY <1>3, <1>4, <1>5, <1>8, KeepsOn

\* Which files have nothing else and no lump over another.
LEMMA IsTight ==
  ASSUME NEW f, NEW merged \in BOOLEAN,
         Len(f) = DirOffset(f) + 4 * Len(Directory(f)),
         DirOffset(f) \in Nat, DirOffset(f) >= 3, Len(f) \in Nat,
         \A k \in DOMAIN Directory(f) : Span(Directory(f)[k]) \subseteq 3 .. DirOffset(f) - 1,
         \A a \in 3 .. DirOffset(f) - 1 : \E k \in DOMAIN Directory(f) :
           /\ a \in Span(Directory(f)[k])
           /\ \A j \in DOMAIN Directory(f) : a \in Span(Directory(f)[j]) =>
                IF merged THEN Span(Directory(f)[j]) = Span(Directory(f)[k])
                ELSE j = k,
         merged => \A j, k \in DOMAIN Directory(f) :
                     Data(f, j) = Data(f, k)
                       => Span(Directory(f)[j]) = Span(Directory(f)[k])
  PROVE  Tight(f, merged)
<1> DEFINE dir == Directory(f)
           Owners(a) == {k \in DOMAIN dir : a \in Span(dir[k])}
<1>1. ASSUME NEW a \in 0 .. Len(f) - 1, a < 3 \/ a >= DirOffset(f)
      PROVE  Owners(a) = {}
  <2>1. a \notin 3 .. DirOffset(f) - 1
    BY <1>1
  <2> QED
    BY <2>1
<1>2. ASSUME NEW a \in 0 .. Len(f) - 1, ~(a < 3 \/ a >= DirOffset(f))
      PROVE  IF merged THEN Cardinality({Span(dir[k]) : k \in Owners(a)}) = 1
             ELSE Cardinality(Owners(a)) = 1
  <2>1. a \in 3 .. DirOffset(f) - 1
    BY <1>2
  <2>2. PICK k \in DOMAIN dir :
          /\ a \in Span(dir[k])
          /\ \A j \in DOMAIN dir : a \in Span(dir[j]) =>
               IF merged THEN Span(dir[j]) = Span(dir[k]) ELSE j = k
    BY <2>1
  <2>3. CASE merged
    <3>1. {Span(dir[j]) : j \in Owners(a)} = {Span(dir[k])}
      BY <2>2, <2>3
    <3> QED
      BY <2>3, <3>1, FS_Singleton
  <2>4. CASE ~merged
    <3>1. Owners(a) = {k}
      BY <2>2, <2>4
    <3> QED
      BY <2>4, <3>1, FS_Singleton
  <2> QED
    BY <2>3, <2>4
<1>3. \A a \in 0 .. Len(f) - 1 :
         IF a < 3 \/ a >= DirOffset(f) THEN Owners(a) = {}
         ELSE IF merged THEN Cardinality({Span(dir[k]) : k \in Owners(a)}) = 1
         ELSE Cardinality(Owners(a)) = 1
  BY <1>1, <1>2
<1>4. Len(f) = IF dir = <<>> THEN 3 ELSE DirOffset(f) + 4 * Len(dir)
  <2>1. CASE dir = <<>>
    <3>1. DOMAIN dir = {} /\ Len(dir) = 0
      BY <2>1
    <3>2. 3 .. DirOffset(f) - 1 = {}
      BY <3>1
    <3>3. DirOffset(f) = 3
      BY <3>2
    <3> QED
      BY <2>1, <3>1, <3>3
  <2> QED
    BY <2>1
<1> QED
  BY <1>3, <1>4 DEF Tight, ENTRY_SIZE, WAD_HEADER_SIZE
\* Each file that is read is one that the run has kept, and no console's levels
\* are packed.
LEMMA FirstPassWritten ==
  ASSUME KeptInv, EndFirstPass, ConsolesMarked, NotAllEmpty
  PROVE  /\ entries \in Seq(Entry) /\ Len(entries) \in Nat
         /\ DOMAIN entries = 1 .. Len(entries)
         /\ new \in Seq(Word) /\ Len(new) \in Nat /\ Len(new) >= 3
         /\ \A k \in DOMAIN entries :
              /\ GoneOver(k) /\ Fine(k) /\ InFile(new, entries[k])
              /\ entries[k].offset \in Nat /\ entries[k].length \in Nat
              /\ ~(Packs /\ IsForeign(OldData(k))) /\ Data(new', k) = NewData(k)
         /\ trail[1] \in Wads /\ Readable(trail[1])
         /\ KeepsFile(trail[1], new') /\ KeepsFile(old, new')
         /\ Directory(new') = entries /\ DirOffset(new') = Len(new)
         /\ Len(new') = Len(new) + 4 * Len(entries)
<1>1. /\ pc = "lumps" /\ count = Len(entries) + 1 /\ new' = WithDirectory(new)
      /\ pc' = IF Merging(cmd) THEN "reopen" ELSE "rename"
      /\ UNCHANGED <<wad, cmd, trail, past>>
  BY DEF EndFirstPass, Goto, history, Compresses, Merging
<1>2. /\ PassInv /\ Opened /\ AllFine /\ LumpsApart /\ NoGaps /\ Ready
      /\ cmd \in Command
  BY <1>1 DEF KeptInv, FirstKept, PassInv, TypeOK
<1>3. /\ entries \in Seq(Entry) /\ Len(entries) \in Nat
      /\ DOMAIN entries = 1 .. Len(entries) /\ new \in Seq(Word) /\ Len(new) \in Nat
      /\ Opens(old) /\ Len(entries) = NumEntries(old)
      /\ DOMAIN Directory(old) = DOMAIN entries
      /\ \A k \in DOMAIN entries : entries[k].name = Was(k).name
  <2>1. entries \in Seq(Entry) /\ new \in Seq(Word)
    BY <1>2 DEF PassInv, TypeOK
  <2>2. /\ Opens(old) /\ Len(entries) = NumEntries(old)
        /\ \A k \in DOMAIN entries : entries[k].name = Was(k).name
    BY <1>1, <1>2 DEF PassInv, FirstPass, Was
  <2> QED
    BY <2>1, <2>2 DEF Directory
<1>4. ASSUME NEW k \in DOMAIN entries
      PROVE  /\ GoneOver(k) /\ Kept(entries[k], Was(k)) /\ Fine(k)
             /\ entries[k].offset \in Nat /\ entries[k].length \in Nat
  <2>1. k < count /\ (k = count - 1 => k + 1 \notin DOMAIN entries)
    BY <1>1, <1>3
  <2>2. ~Waits(k)
    BY <2>1 DEF Waits, Deferred, IsSidedefs
  <2>3. GoneOver(k)
    BY <2>1, <2>2 DEF GoneOver
  <2>4. Kept(entries[k], Was(k))
    BY <1>1, <1>2, <2>1, <2>2 DEF PassInv, PassesKeep, Waits, Was
  <2>5. entries[k] \in Entry
    BY <1>3
  <2> QED
    BY <1>2, <2>3, <2>4, <2>5 DEF AllFine, Entry
<1>5. Readable(old)
  BY <1>3, <1>4 DEF Readable, Fine, Was
<1>6. trail[1] \in Wads /\ Readable(trail[1]) /\ KeepsFile(trail[1], old)
  BY <1>2, <1>5 DEF Opened, Ready, Same
<1>7. ASSUME NEW k \in DOMAIN entries
      PROVE  /\ ~(Packs /\ IsForeign(OldData(k)))
             /\ Alike(NewData(k), OldData(k)) /\ InFile(new, entries[k])
  <2>1. Packs => ~Console(old)
    BY <1>2 DEF Opened, Packs
  <2>2. ~(Packs /\ IsForeign(OldData(k)))
    BY <1>3, <1>6, <2>1, NoneForeign DEF Data, OldData, Was
  <2>3. SameThing(NewData(k), OldData(k)) /\ InFile(new, entries[k])
    BY <1>4 DEF Kept, NewData, OldData
  <2> QED
    BY <2>2, <2>3, SameAlike
<1>8. ASSUME Pairs(old), NEW k \in DOMAIN entries \ {1},
             entries[k].name = NameWords("SIDEDEFS"),
             entries[k - 1].name = NameWords("LINEDEFS"),
             NEW t \in Thing, NEW u \in Thing,
             NEW form \in DOMAIN Sizes[t], NEW other \in DOMAIN Sizes[u],
             NewData(k) = Content(t, form), NewData(k - 1) = Content(u, other)
      PROVE  form = other
  <2>1. k - 1 \in DOMAIN entries
    BY <1>3
  <2>2. Fine(k) /\ Fine(k - 1) /\ ~(Packs /\ IsForeign(OldData(k)))
    BY <1>4, <1>7, <2>1
  <2>3. CASE NewData(k) = OldData(k) /\ NewData(k - 1) = OldData(k - 1)
    <3>1. Data(old, k) = Content(t, form) /\ Data(old, k - 1) = Content(u, other)
      BY <1>8, <2>3 DEF Data, OldData, Was
    <3>2. /\ Directory(old)[k].name = NameWords("SIDEDEFS")
          /\ Directory(old)[k - 1].name = NameWords("LINEDEFS")
      BY <1>3, <1>8, <2>1 DEF Was
    <3> QED
      BY <1>3, <1>8, <3>1, <3>2 DEF Pairs
  <2>4. CASE ~Packs
    <3>1. InLevel(k) /\ InLevel(k - 1)
      BY <1>8 DEF InLevel, HasName
    <3> QED
      BY <2>2, <2>3, <2>4, <3>1 DEF Fine
  <2>5. CASE Packs /\ Unison(k)
    <3>1. CASE \E v, w \in Thing :
                 /\ Target \in DOMAIN Sizes[v] /\ Target \in DOMAIN Sizes[w]
                 /\ NewData(k) = Content(v, Target) /\ NewData(k - 1) = Content(w, Target)
      <4>1. PICK v \in Thing, w \in Thing :
              /\ Target \in DOMAIN Sizes[v] /\ Target \in DOMAIN Sizes[w]
              /\ Content(t, form) = Content(v, Target)
              /\ Content(u, other) = Content(w, Target)
        BY <1>8, <3>1
      <4>2. form = Target /\ other = Target
        BY <4>1, ContentsApart
      <4> QED
        BY <4>2
    <3> QED
      BY <2>3, <2>5, <3>1 DEF Unison
  <2>6. IsSidedefs(k)
    BY <1>8, <2>1 DEF IsSidedefs, HasName
  <2> QED
    BY <2>2, <2>4, <2>5, <2>6 DEF Fine
<1>9. /\ KeepsFile(trail[1], new') /\ KeepsFile(old, new') /\ Len(new) >= 3
      /\ Directory(new') = entries
      /\ DirOffset(new') = Len(new) /\ Len(new') = Len(new) + 4 * Len(entries)
      /\ \A k \in DOMAIN entries : Data(new', k) = NewData(k)
  <2>1. old[1] = Magic(type)
    BY <1>2 DEF Opened
  <2>2. \A k \in DOMAIN entries : entries[k].length > 0 => entries[k].offset >= 3
    BY <1>4 DEF Fine
  <2>3. PICK g : g = new'
    OBVIOUS
  <2>4. /\ KeepsFile(trail[1], g) /\ KeepsFile(old, g) /\ Len(new) >= 3
        /\ Directory(g) = entries /\ DirOffset(g) = Len(new)
        /\ Len(g) = Len(new) + 4 * Len(entries)
        /\ \A k \in DOMAIN entries : Data(g, k) = NewData(k)
    BY <1>1, <1>2, <1>3, <1>6, <1>7, <1>8, <2>1, <2>2, <2>3, NewFileKeeps
  <2> QED
    BY <2>3, <2>4
<1> QED
  BY <1>3, <1>4, <1>6, <1>7, <1>9

LEMMA EndFirstPassKept ==
  ASSUME KeptInv, PassInv', EndFirstPass, ConsolesMarked, NotAllEmpty
  PROVE  KeptInv'
<1>1. /\ pc = "lumps" /\ pc' = IF Merging(cmd) THEN "reopen" ELSE "rename"
      /\ UNCHANGED <<wad, cmd, trail, past>>
  BY DEF EndFirstPass, Goto, history, Compresses, Merging
<1>2. PassInv /\ LumpsApart /\ NoGaps /\ Ready /\ cmd \in Command
  BY <1>1 DEF KeptInv, FirstKept, PassInv, TypeOK
<1>3. /\ entries \in Seq(Entry) /\ Len(entries) \in Nat
      /\ Len(new) \in Nat /\ Len(new) >= 3
      /\ DOMAIN entries = 1 .. Len(entries)
      /\ \A k \in DOMAIN entries :
           /\ GoneOver(k) /\ Fine(k) /\ InFile(new, entries[k])
           /\ entries[k].offset \in Nat /\ entries[k].length \in Nat
      /\ Readable(trail[1]) /\ KeepsFile(trail[1], new')
      /\ Directory(new') = entries /\ DirOffset(new') = Len(new)
      /\ Len(new') = Len(new) + 4 * Len(entries)
  BY FirstPassWritten
<1>4. ~Merging(cmd) => Tight(new', Merging(cmd)')
  <2> SUFFICES ASSUME ~Merging(cmd) PROVE Tight(new', FALSE)
    BY <1>1 DEF Merging
  <2>1. ASSUME NEW k \in DOMAIN entries
        PROVE  Span(entries[k]) \subseteq 3 .. Len(new) - 1
    <3>1. entries[k].length > 0 => entries[k].offset >= 3
      BY <1>3 DEF Fine
    <3> QED
      BY <1>3, <3>1, SMTT(60) DEF Span, InFile
  <2>2. ASSUME NEW a \in 3 .. Len(new) - 1
        PROVE  \E k \in DOMAIN entries :
                 /\ a \in Span(entries[k])
                 /\ \A j \in DOMAIN entries : a \in Span(entries[j]) => j = k
    <3>1. PICK k \in DOMAIN entries : a \in Span(entries[k])
      BY <1>2 DEF NoGaps
    <3>2. ASSUME NEW j \in DOMAIN entries, a \in Span(entries[j]) PROVE j = k
      BY <1>2, <1>3, <3>1, <3>2 DEF LumpsApart
    <3> QED
      BY <3>1, <3>2
  <2>3. DirOffset(new') \in Nat /\ DirOffset(new') >= 3 /\ Len(new') \in Nat
    BY <1>3
  <2> QED
    BY <1>3, <2>1, <2>2, <2>3, IsTight
<1>5. Ready'
  <2>1. Same(wad)' /\ (Rewritten' <=> FALSE)
    BY <1>1, <1>2 DEF Ready, Same, Rewritten
  <2> QED
    BY <1>1, <1>2, <1>3, <1>4, <2>1 DEF Ready, Merging
<1> QED
  BY <1>1, <1>5 DEF KeptInv, FirstKept, SecondKept
-----------------------------------------------------------------------------
(* The second pass *)

\* The sorted map goes over every lump.
LEMMA MapIsOnto ==
  ASSUME SortInv, Sorted, NEW k \in Element
  PROVE  \E j \in Element : elements[j] = k
<1> SUFFICES ASSUME \A j \in Element : elements[j] # k PROVE FALSE
  OBVIOUS
<1>1. elements \in [Element -> Element] /\ Len(key) \in Nat
  BY DEF SortInv, SortTypeOK, Element
<1>2. IsFiniteSet(Element) /\ Cardinality(Element) \in Nat
  <2>1. 1 \in Int /\ Len(key) \in Int
    BY <1>1
  <2> QED
    BY <2>1, FS_Interval, FS_CardinalityType DEF Element
<1>3. IsFiniteSet(Element \ {k}) /\ Cardinality(Element \ {k}) = Cardinality(Element) - 1
  BY <1>2, FS_RemoveElement
<1>4. elements \in [Element -> Element \ {k}]
  BY <1>1
<1>5. Cardinality(Element \ {k}) < Cardinality(Element)
  BY <1>2, <1>3
<1>6. PICK i \in Element, j \in Element : i # j /\ elements[i] = elements[j]
  BY <1>2, <1>3, <1>4, <1>5, FS_PigeonHole
<1> QED
  BY <1>6, SortedOnce

\* What the second pass goes over.
LEMMA Merges ==
  ASSUME PassInv, pc = "merge"
  PROVE  /\ entries \in Seq(Entry) /\ Len(key) = Len(entries) /\ Len(key) \in Nat
         /\ Element = 1 .. Len(key) /\ elements \in [Element -> Element]
         /\ DOMAIN entries = Element /\ DOMAIN elements = Element
         /\ new \in Seq(Word) /\ HeaderRoom(new) /\ old \in Seq(Word)
         /\ lumps \in Seq(Placed) /\ Len(lumps) \in Nat
         /\ \A l \in DOMAIN lumps :
              /\ lumps[l].offset \in Nat /\ lumps[l].data \in Seq(Word)
              /\ Len(lumps[l].data) \in Nat
              /\ Span(Where(lumps[l])) \subseteq 0 .. Len(new) - 1
<1>1. /\ entries \in Seq(Entry) /\ new \in Seq(Word) /\ old \in Seq(Word)
      /\ lumps \in Seq(Placed) /\ SortTypeOK
  BY DEF PassInv, TypeOK
<1>2. /\ Len(key) = Len(entries) /\ HeaderRoom(new)
      /\ \A l \in DOMAIN lumps : InFile(new, Where(lumps[l]))
  BY DEF PassInv, SecondPass
<1>3. Element = 1 .. Len(key) /\ elements \in [Element -> Element]
  BY <1>1 DEF SortTypeOK, Element
<1>4. ASSUME NEW l \in DOMAIN lumps
      PROVE  /\ lumps[l].offset \in Nat /\ lumps[l].data \in Seq(Word)
             /\ Len(lumps[l].data) \in Nat
             /\ Span(Where(lumps[l])) \subseteq 0 .. Len(new) - 1
  <2>1. lumps[l] \in Placed
    BY <1>1
  <2>2. lumps[l].offset \in Nat /\ lumps[l].data \in Seq(Word)
    BY <2>1, MaxPosAssumption DEF Placed, WAD_HEADER_SIZE
  <2>3. Len(lumps[l].data) \in Nat /\ Len(new) \in Nat
    BY <1>1, <2>2
  <2> QED
    BY <1>2, <2>2, <2>3 DEF Span, Where, InFile
<1>5. Len(lumps) \in Nat /\ Len(entries) \in Nat /\ DOMAIN entries = 1 .. Len(entries)
  BY <1>1
<1> QED
  BY <1>1, <1>2, <1>3, <1>4, <1>5

\* The file of the first pass is the old one of the second.
LEMMA ReopenKept ==
  ASSUME KeptInv, PassInv', Reopen
  PROVE  KeptInv'
<1>1. /\ pc = "reopen" /\ pc' = "merge" /\ Opens(new) /\ old' = new
      /\ type' = new[1][2] /\ entries' = Directory(new) /\ count' = 1
      /\ new' = <<>> /\ lumps' = <<>>
      /\ UNCHANGED <<wad, cmd, trail, past>>
  BY DEF Reopen, Goto, OpenWadFile, history
<1>2. Ready /\ Readable(trail[1]) /\ KeepsFile(trail[1], new) /\ Merging(cmd)
  BY <1>1 DEF KeptInv, Ready
<1>3. old'[1] = Magic(type')
  BY <1>1 DEF Opens, Magic
<1>4. Reopened'
  BY <1>1, <1>2, <1>3 DEF Reopened, Was, Merging
<1>5. AllPlaced' /\ AllOwned' /\ MergedApart' /\ MergedNoGaps'
  <2>1. 1 .. count' - 1 = {} /\ DOMAIN lumps' = {} /\ 3 .. Len(new') - 1 = {}
    BY <1>1
  <2> QED
    BY <2>1 DEF AllPlaced, AllOwned, MergedApart, MergedNoGaps
<1>6. Ready'
  BY <1>1, <1>2 DEF Ready, Same, Rewritten
<1> QED
  BY <1>1, <1>4, <1>5, <1>6 DEF KeptInv, FirstKept, SecondKept

\* While the map is sorted there is nothing to keep.
LEMMA SortMapElementsKept ==
  ASSUME KeptInv, PassInv', SortMapElements
  PROVE  KeptInv'
<1>1. /\ pc = "merge" /\ SortStep
      /\ UNCHANGED <<wad, pc, cmd, type, entries, psx_format, old, new, count,
                     lumps, past, trail>>
  BY DEF SortMapElements, wadfile, history
<1>2. ~Sorted /\ count = 1
  <2>1. ~Sorted
    BY <1>1 DEF KeptInv, PassInv, SortInv, Partitioned, Sorted, SortStep, Return,
                ChoosePivot, Partition, PlacePivot
  <2> QED
    BY <1>1, <2>1 DEF KeptInv, PassInv, SecondPass
<1>3. Reopened /\ AllOwned /\ MergedApart /\ MergedNoGaps
  BY <1>1 DEF KeptInv, SecondKept
<1>4. 1 .. count - 1 = {} /\ DOMAIN lumps = {}
  <2>1. 1 .. count - 1 = {}
    BY <1>2
  <2> QED
    BY <1>3, <2>1 DEF AllOwned
<1>5. Reopened'
  BY <1>1, <1>3 DEF Reopened, Was
<1>6. AllPlaced' /\ AllOwned' /\ MergedApart' /\ MergedNoGaps'
  <2>1. 1 .. count' - 1 = {} /\ DOMAIN lumps' = {}
    BY <1>1, <1>4
  <2>2. MergedNoGaps'
    BY <1>1, <1>3 DEF MergedNoGaps, Span, Where
  <2> QED
    BY <2>1, <2>2 DEF AllPlaced, AllOwned, MergedApart
<1>7. Ready'
  BY <1>1 DEF KeptInv, Ready, Same, Rewritten
<1> QED
  BY <1>1, <1>5, <1>6, <1>7 DEF KeptInv, FirstKept, SecondKept

\* The second pass in one lemma: the lump of this turn is the one at "l".
LEMMA MergedKept ==
  ASSUME PassInv, pc = "merge", Sorted, count \in DOMAIN elements,
         Reopened, AllPlaced, AllOwned,
         UNCHANGED <<cmd, type, old, trail, key, elements>>, count' = count + 1,
         NEW l \in DOMAIN lumps',
         entries' = [entries EXCEPT ![elements[count]].offset = lumps'[l].offset],
         lumps'[l].offset >= 3, lumps'[l].data = OldData(elements[count]),
         DOMAIN lumps \subseteq DOMAIN lumps',
         \A k \in DOMAIN lumps : lumps'[k] = lumps[k],
         \A k \in DOMAIN lumps' : k \in DOMAIN lumps \/ k = l
  PROVE  Reopened' /\ AllPlaced' /\ AllOwned'
<1>1. PICK m : m = elements[count]
  OBVIOUS
<1>2. /\ entries \in Seq(Entry) /\ DOMAIN entries = Element /\ DOMAIN elements = Element
      /\ Element = 1 .. Len(key) /\ Len(key) \in Nat /\ elements \in [Element -> Element]
      /\ count \in Element /\ m \in Element /\ entries[m] \in Entry
  BY <1>1, Merges
<1>3. /\ DOMAIN entries' = DOMAIN entries
      /\ entries'[m].offset = lumps'[l].offset /\ entries'[m].length = entries[m].length
      /\ entries'[m].name = entries[m].name
      /\ \A k \in DOMAIN entries \ {m} : entries'[k] = entries[k]
  BY <1>1, <1>2 DEF Entry
<1>4. Reopened'
  BY <1>2, <1>3 DEF Reopened, Was, Merging
<1>5. Placement(m, l)'
  BY <1>1, <1>3 DEF Placement, OldData, Was
<1>6. ASSUME NEW j \in 1 .. count - 1, NEW k \in DOMAIN lumps, Placement(elements[j], k)
      PROVE  Placement(elements[j], k)'
  <2>1. PICK i : i = elements[j]
    OBVIOUS
  <2>2. j \in Element /\ j # count /\ count \in Element
    BY <1>2
  <2>3. i \in Element /\ i # m
    BY <1>1, <2>1, <2>2, SortedOnce DEF PassInv
  <2>4. entries'[i] = entries[i] /\ lumps'[k] = lumps[k]
    BY <1>2, <1>3, <2>3
  <2>5. Placement(i, k)'
    BY <1>6, <2>1, <2>4 DEF Placement, OldData, Was
  <2> QED
    BY <2>1, <2>5
<1>7. 1 .. count' - 1 = (1 .. count - 1) \cup {count}
  BY <1>2
<1>8. ASSUME NEW j, j = count PROVE Placement(elements[j], l)'
  <2>1. elements'[j] = m
    BY <1>1, <1>8
  <2> QED
    BY <1>5, <2>1 DEF Placement, OldData, Was
<1>9. ASSUME NEW j \in 1 .. count' - 1
      PROVE  \E k \in DOMAIN lumps' : Placement(elements[j], k)'
  <2>1. CASE j = count
    BY <1>8, <2>1
  <2>2. CASE j \in 1 .. count - 1
    <3>1. PICK k \in DOMAIN lumps : Placement(elements[j], k)
      BY <2>2 DEF AllPlaced
    <3> QED
      BY <1>6, <2>2, <3>1
  <2> QED
    BY <1>7, <2>1, <2>2
<1>10. ASSUME NEW k \in DOMAIN lumps'
       PROVE  lumps'[k].offset >= 3 /\ \E j \in 1 .. count' - 1 : Placement(elements[j], k)'
  <2>1. CASE k = l
    BY <1>7, <1>8, <2>1
  <2>2. CASE k \in DOMAIN lumps
    <3>1. PICK j \in 1 .. count - 1 : Placement(elements[j], k)
      BY <2>2 DEF AllOwned
    <3>2. lumps'[k].offset >= 3
      BY <2>2 DEF AllOwned
    <3> QED
      BY <1>6, <1>7, <2>2, <3>1, <3>2
  <2> QED
    BY <2>1, <2>2
<1>11. AllPlaced'
  BY <1>9 DEF AllPlaced
<1>12. AllOwned'
  BY <1>10 DEF AllOwned
<1> QED
  BY <1>4, <1>11, <1>12
\* A lump that is there already is found, any other is written.
LEMMA MergeLumpKept ==
  ASSUME KeptInv, PassInv', MergeLump
  PROVE  KeptInv'
<1> DEFINE data == CacheLump(old, entries[elements[count]])
<1>1. /\ pc = "merge" /\ Sorted /\ count \in DOMAIN elements /\ count' = count + 1
      /\ InFile(old, entries[elements[count]]) /\ UNCHANGED <<elements, key>>
      /\ UNCHANGED <<wad, pc, cmd, type, psx_format, old, trail, past>>
  BY DEF MergeLump, history, sortvars
<1>2. /\ PassInv /\ Ready /\ Reopened /\ AllPlaced /\ AllOwned /\ MergedApart
      /\ MergedNoGaps
  BY <1>1 DEF KeptInv, SecondKept
<1>3. /\ count \in Element /\ elements[count] \in Element
      /\ entries[elements[count]] \in Entry
  BY <1>1, <1>2, Merges
<1>4. data = OldData(elements[count])
  <2>1. entries[elements[count]] = Was(elements[count])
    <3>1. ~(count < count)
      BY <1>1, <1>2 DEF PassInv, TypeOK
    <3> QED
      BY <1>1, <1>2, <3>1 DEF PassInv, PassesKeep, Was
  <2> QED
    BY <2>1 DEF OldData
<1>5. data \in Seq(Word)
  BY <1>1, <1>2, <1>3, Merges, LumpTyped DEF Entry
<1> HIDE DEF data
<1>6. ASSUME UNCHANGED <<lumps, new>>,
             \E k \in Existing(data) :
               entries' = [entries EXCEPT ![elements[count]].offset = FoundOffset(k)]
      PROVE  Reopened' /\ AllPlaced' /\ AllOwned' /\ MergedApart' /\ MergedNoGaps'
  <2>1. PICK l \in DOMAIN lumps' :
          /\ lumps'[l].data = data
          /\ entries' = [entries EXCEPT ![elements[count]].offset = lumps'[l].offset]
    BY <1>6 DEF Existing, FoundOffset
  <2>2. lumps'[l].offset >= 3
    BY <1>2, <1>6 DEF AllOwned
  <2>3. Reopened' /\ AllPlaced' /\ AllOwned'
    BY <1>1, <1>2, <1>4, <1>6, <2>1, <2>2, MergedKept
  <2>4. MergedApart' /\ MergedNoGaps'
    BY <1>2, <1>6 DEF MergedApart, MergedNoGaps, Span, Where
  <2> QED
    BY <2>3, <2>4
<1>7. ASSUME Existing(data) = {}, new' = WithLump(new, data),
             lumps' = Append(lumps, [data |-> data, offset |-> Tell(new)]),
             entries' = [entries EXCEPT ![elements[count]].offset
                           = FoundOffset(Len(lumps'))]
      PROVE  Reopened' /\ AllPlaced' /\ AllOwned' /\ MergedApart' /\ MergedNoGaps'
  <2> DEFINE n == Len(lumps) + 1
  <2>1. /\ Len(lumps) \in Nat /\ DOMAIN lumps = 1 .. Len(lumps)
        /\ Len(lumps') = n /\ DOMAIN lumps' = 1 .. n
        /\ lumps'[n] = [data |-> data, offset |-> Tell(new)]
        /\ \A k \in DOMAIN lumps : lumps'[k] = lumps[k]
    BY <1>1, <1>2, <1>7, Merges
  <2>2. n \in Nat /\ n \in DOMAIN lumps' /\ n \notin DOMAIN lumps
    BY <2>1
  <2>3. /\ \A k \in DOMAIN lumps' : k \in DOMAIN lumps \/ k = n
        /\ DOMAIN lumps \subseteq DOMAIN lumps'
    BY <2>1
  <2>4. lumps'[n].data = data /\ lumps'[n].offset = Tell(new)
    BY <2>1
  <2>5. entries' = [entries EXCEPT ![elements[count]].offset = lumps'[n].offset]
    BY <1>7, <2>1 DEF FoundOffset
  <2> HIDE DEF n
  <2>6. /\ Extends(new, new') /\ Tell(new) >= 3
        /\ Len(new) \in Nat /\ Len(new') \in Nat /\ Len(new) <= Len(new')
        /\ Span(Where(lumps'[n])) \subseteq Len(new) .. Len(new') - 1
        /\ \A a \in Len(new) .. Len(new') - 1 : a >= 3 => a \in Span(Where(lumps'[n]))
    <3>1. Where(lumps'[n]).offset = Tell(new) /\ Where(lumps'[n]).length = Len(data)
      BY <2>4 DEF Where
    <3>2. new \in Seq(Word) /\ HeaderRoom(new)
      BY <1>1, <1>2, Merges
    <3> QED
      BY <1>5, <1>7, <3>1, <3>2, LumpSpans
  <2>7. Reopened' /\ AllPlaced' /\ AllOwned'
    BY <1>1, <1>2, <1>4, <2>1, <2>2, <2>3, <2>4, <2>5, <2>6, MergedKept
  <2>8. ASSUME NEW k \in DOMAIN lumps
        PROVE  /\ lumps'[k].data # data
               /\ Span(Where(lumps'[k])) \cap Span(Where(lumps'[n])) = {}
    <3>1. lumps'[k] = lumps[k] /\ lumps[k].data # data
      BY <1>7, <2>1 DEF Existing
    <3>2. Span(Where(lumps[k])) \subseteq 0 .. Len(new) - 1
      BY <1>1, <1>2, Merges
    <3>3. (0 .. Len(new) - 1) \cap (Len(new) .. Len(new') - 1) = {}
      BY <2>6
    <3>4. Span(Where(lumps[k])) \cap Span(Where(lumps'[n])) = {}
      BY <2>6, <3>2, <3>3
    <3> QED
      BY <3>1, <3>4
  <2>9. MergedApart'
    <3> SUFFICES ASSUME NEW j \in DOMAIN lumps', NEW k \in DOMAIN lumps', j # k
                 PROVE  /\ lumps'[j].data # lumps'[k].data
                        /\ Span(Where(lumps'[j])) \cap Span(Where(lumps'[k])) = {}
      BY DEF MergedApart, Span, Where
    <3>1. CASE j \in DOMAIN lumps /\ k \in DOMAIN lumps
      BY <1>2, <2>1, <3>1 DEF MergedApart
    <3>2. CASE j \in DOMAIN lumps /\ k = n
      BY <2>4, <2>8, <3>2
    <3>3. CASE k \in DOMAIN lumps /\ j = n
      BY <2>4, <2>8, <3>3
    <3> QED
      BY <2>3, <3>1, <3>2, <3>3
  <2>10. MergedNoGaps'
    <3> SUFFICES ASSUME NEW a \in 3 .. Len(new') - 1
                 PROVE  \E l \in DOMAIN lumps' : a \in Span(Where(lumps'[l]))
      BY DEF MergedNoGaps, Span, Where
    <3>1. CASE a < Len(new)
      <4>1. a \in 3 .. Len(new) - 1
        BY <2>6, <3>1
      <4>2. PICK l \in DOMAIN lumps : a \in Span(Where(lumps[l]))
        BY <1>2, <4>1 DEF MergedNoGaps
      <4> QED
        BY <2>1, <2>3, <4>2
    <3>2. CASE ~(a < Len(new))
      <4>1. a \in Len(new) .. Len(new') - 1 /\ a >= 3
        BY <2>6, <3>2
      <4> QED
        BY <2>2, <2>6, <4>1
    <3> QED
      BY <3>1, <3>2
  <2> QED
    BY <2>7, <2>9, <2>10
<1>8. Reopened' /\ AllPlaced' /\ AllOwned' /\ MergedApart' /\ MergedNoGaps'
  BY <1>6, <1>7 DEF MergeLump, data
<1>9. Ready'
  BY <1>1, <1>2 DEF Ready, Same, Rewritten
<1> QED
  BY <1>1, <1>8, <1>9 DEF KeptInv, FirstKept, SecondKept

\* Every lump has been gone over, and has its contents where another that is the
\* same has them.
LEMMA SecondPassWritten ==
  ASSUME KeptInv, EndSecondPass, NotAllEmpty
  PROVE  /\ entries \in Seq(Entry) /\ DOMAIN entries = Element
         /\ DOMAIN entries = 1 .. Len(entries) /\ Len(entries) \in Nat
         /\ elements \in [Element -> Element]
         /\ new \in Seq(Word) /\ Len(new) \in Nat /\ Len(new) >= 3
         /\ DOMAIN Directory(old) = DOMAIN entries
         /\ \A k \in DOMAIN entries :
              /\ entries[k].name = Was(k).name /\ InFile(new, entries[k])
              /\ entries[k].offset \in Nat /\ entries[k].length \in Nat
              /\ NewData(k) = OldData(k) /\ Data(new', k) = OldData(k)
              /\ \E l \in DOMAIN lumps :
                   /\ Placement(k, l) /\ Span(entries[k]) = Span(Where(lumps[l]))
                   /\ entries[k].offset >= 3
         /\ KeepsFile(trail[1], new') /\ KeepsFile(old, new')
         /\ Directory(new') = entries /\ DirOffset(new') = Len(new)
         /\ Len(new') = Len(new) + 4 * Len(entries)
<1>1. /\ pc = "merge" /\ Sorted /\ count = Len(entries) + 1
      /\ new' = WithDirectory(new) /\ pc' = "rename"
      /\ UNCHANGED <<wad, cmd, trail, past>>
  BY DEF EndSecondPass, Goto, history
<1>2. /\ PassInv /\ Ready /\ Reopened /\ AllPlaced /\ AllOwned /\ MergedApart
      /\ MergedNoGaps
  BY <1>1 DEF KeptInv, SecondKept
<1>3. /\ entries \in Seq(Entry) /\ DOMAIN entries = Element /\ DOMAIN elements = Element
      /\ Element = 1 .. Len(entries) /\ Len(entries) \in Nat
      /\ old \in Seq(Word) /\ new \in Seq(Word) /\ Len(new) \in Nat
      /\ Len(entries) = NumEntries(old)
      /\ DOMAIN Directory(old) = DOMAIN entries
      /\ trail[1] \in Wads /\ Readable(old) /\ cmd \in Command
  <2>1. /\ entries \in Seq(Entry) /\ DOMAIN entries = Element
        /\ DOMAIN elements = Element /\ old \in Seq(Word) /\ new \in Seq(Word)
        /\ Element = 1 .. Len(entries) /\ Len(entries) \in Nat
    BY <1>1, <1>2, Merges
  <2>2. Len(entries) = NumEntries(old)
    BY <1>1, <1>2 DEF PassInv, SecondPass
  <2>3. trail[1] \in Wads /\ Readable(old)
    BY <1>2 DEF Ready, Reopened, KeepsFile
  <2>4. cmd \in Command
    BY <1>2 DEF PassInv, TypeOK
  <2> QED
    BY <2>1, <2>2, <2>3, <2>4 DEF Directory
<1>4. ASSUME NEW k \in DOMAIN entries
      PROVE  /\ entries[k].name = Was(k).name /\ InFile(new, entries[k])
             /\ entries[k].offset \in Nat /\ entries[k].length \in Nat
             /\ NewData(k) = OldData(k)
             /\ \E l \in DOMAIN lumps :
                  /\ Placement(k, l) /\ Span(entries[k]) = Span(Where(lumps[l]))
                  /\ entries[k].offset >= 3
  <2>1. PICK j \in Element : elements[j] = k
    BY <1>1, <1>2, <1>3, MapIsOnto DEF PassInv
  <2>2. j < count /\ j \in 1 .. count - 1
    BY <1>1, <1>3
  <2>3. InFile(new, entries[k]) /\ NewData(k) = OldData(k)
    BY <1>1, <1>2, <1>3, <2>1, <2>2 DEF PassInv, PassesKeep, NewData, OldData, Was
  <2>4. PICK l \in DOMAIN lumps : Placement(k, l)
    BY <1>1, <1>2, <2>1, <2>2 DEF AllPlaced
  <2>5. /\ entries[k] \in Entry /\ Was(k) \in Entry /\ InFile(old, Was(k))
        /\ entries[k].name = Was(k).name /\ entries[k].length = Was(k).length
    <3>1. Directory(old) \in Seq(Entry)
      BY <1>3, DirectoryTyped DEF Readable
    <3>2. InFile(old, Was(k))
      BY <1>3 DEF Readable, Was
    <3> QED
      BY <1>2, <1>3, <3>1, <3>2 DEF Reopened, Was
  <2>6. Len(OldData(k)) = Was(k).length
    BY <1>3, <2>5, LumpTyped DEF OldData, Entry
  <2>7. Span(entries[k]) = Span(Where(lumps[l])) /\ entries[k].offset >= 3
    BY <1>2, <2>4, <2>5, <2>6 DEF Placement, Span, Where, AllOwned
  <2> QED
    BY <2>3, <2>4, <2>5, <2>7 DEF Entry
<1>5. ASSUME Pairs(old), NEW k \in DOMAIN entries \ {1},
             entries[k].name = NameWords("SIDEDEFS"),
             entries[k - 1].name = NameWords("LINEDEFS"),
             NEW t \in Thing, NEW u \in Thing,
             NEW form \in DOMAIN Sizes[t], NEW other \in DOMAIN Sizes[u],
             NewData(k) = Content(t, form), NewData(k - 1) = Content(u, other)
      PROVE  form = other
  <2>1. k - 1 \in DOMAIN entries
    BY <1>3
  <2>2. Data(old, k) = Content(t, form) /\ Data(old, k - 1) = Content(u, other)
    BY <1>4, <1>5, <2>1 DEF Data, OldData, Was
  <2>3. /\ Directory(old)[k].name = NameWords("SIDEDEFS")
        /\ Directory(old)[k - 1].name = NameWords("LINEDEFS")
    BY <1>4, <1>5, <2>1 DEF Was
  <2> QED
    BY <1>3, <1>5, <2>2, <2>3 DEF Pairs
<1>6. /\ KeepsFile(trail[1], new') /\ KeepsFile(old, new') /\ Len(new) >= 3
      /\ Directory(new') = entries
      /\ DirOffset(new') = Len(new) /\ Len(new') = Len(new) + 4 * Len(entries)
      /\ \A k \in DOMAIN entries : Data(new', k) = NewData(k)
  <2>1. old[1] = Magic(type) /\ KeepsFile(trail[1], old)
    BY <1>2 DEF Reopened
  <2>2. \A k \in DOMAIN entries : Alike(NewData(k), OldData(k))
    BY <1>4 DEF Alike
  <2>3. \A k \in DOMAIN entries :
          /\ entries[k].name = Was(k).name
          /\ InFile(new, entries[k]) /\ (entries[k].length > 0 => entries[k].offset >= 3)
    BY <1>4
  <2>4. PICK g : g = new'
    OBVIOUS
  <2>5. /\ KeepsFile(trail[1], g) /\ KeepsFile(old, g) /\ Len(new) >= 3
        /\ Directory(g) = entries /\ DirOffset(g) = Len(new)
        /\ Len(g) = Len(new) + 4 * Len(entries)
        /\ \A k \in DOMAIN entries : Data(g, k) = NewData(k)
    BY <1>1, <1>2, <1>3, <1>5, <2>1, <2>2, <2>3, <2>4, NewFileKeeps
  <2> QED
    BY <2>4, <2>5
<1>7. elements \in [Element -> Element]
  BY <1>1, <1>2, Merges
<1> QED
  BY <1>3, <1>4, <1>6, <1>7

LEMMA EndSecondPassKept ==
  ASSUME KeptInv, PassInv', EndSecondPass, NotAllEmpty
  PROVE  KeptInv'
<1>1. /\ pc = "merge" /\ Sorted /\ count = Len(entries) + 1 /\ pc' = "rename"
      /\ UNCHANGED <<wad, cmd, trail, past>>
  BY DEF EndSecondPass, Goto, history
<1>2. /\ PassInv /\ Ready /\ Reopened /\ AllPlaced /\ AllOwned /\ MergedApart
      /\ MergedNoGaps /\ Readable(trail[1])
  BY <1>1 DEF KeptInv, SecondKept, Reopened
<1>3. /\ entries \in Seq(Entry) /\ DOMAIN entries = Element
      /\ Element = 1 .. Len(entries) /\ Len(entries) \in Nat
      /\ elements \in [Element -> Element] /\ Len(new) \in Nat /\ Len(new) >= 3
      /\ KeepsFile(trail[1], new') /\ Directory(new') = entries
      /\ DirOffset(new') = Len(new) /\ Len(new') = Len(new) + 4 * Len(entries)
  BY SecondPassWritten
<1>4. \A k \in DOMAIN entries :
        /\ entries[k].offset \in Nat /\ entries[k].length \in Nat
        /\ InFile(new, entries[k]) /\ Data(new', k) = OldData(k)
        /\ \E l \in DOMAIN lumps :
             /\ Placement(k, l) /\ Span(entries[k]) = Span(Where(lumps[l]))
             /\ entries[k].offset >= 3
  BY SecondPassWritten
<1>5. Tight(new', TRUE)
  <2>1. ASSUME NEW k \in DOMAIN entries
        PROVE  Span(entries[k]) \subseteq 3 .. Len(new) - 1
    <3>1. /\ entries[k].offset \in Nat /\ entries[k].length \in Nat
          /\ entries[k].offset >= 3 /\ InFile(new, entries[k])
      BY <1>4
    <3> QED
      BY <1>3, <3>1, SMTT(60) DEF Span, InFile
  <2>2. ASSUME NEW a \in 3 .. Len(new) - 1
        PROVE  \E k \in DOMAIN entries :
                 /\ a \in Span(entries[k])
                 /\ \A j \in DOMAIN entries :
                      a \in Span(entries[j]) => Span(entries[j]) = Span(entries[k])
    <3>1. PICK l \in DOMAIN lumps : a \in Span(Where(lumps[l]))
      BY <1>2 DEF MergedNoGaps
    <3>2. PICK i \in 1 .. count - 1 : Placement(elements[i], l)
      BY <1>2 DEF AllOwned
    <3>3. PICK k \in DOMAIN entries : Placement(k, l)
      <4>1. i \in Element
        BY <1>1, <1>3
      <4> QED
        BY <1>3, <3>2, <4>1
    <3>4. ASSUME NEW m \in DOMAIN lumps,
                 lumps[m].data = lumps[l].data \/ a \in Span(Where(lumps[m]))
          PROVE  m = l
      BY <1>2, <3>1, <3>4 DEF MergedApart
    <3>5. ASSUME NEW j \in DOMAIN entries, j = k \/ a \in Span(entries[j])
          PROVE  Span(entries[j]) = Span(Where(lumps[l]))
      <4>1. PICK m \in DOMAIN lumps :
              Placement(j, m) /\ Span(entries[j]) = Span(Where(lumps[m]))
        BY <1>4
      <4>2. lumps[m].data = lumps[l].data \/ a \in Span(Where(lumps[m]))
        BY <3>3, <3>5, <4>1 DEF Placement
      <4> QED
        BY <3>4, <4>1, <4>2
    <3> QED
      BY <3>1, <3>5
  <2>3. ASSUME NEW j \in DOMAIN entries, NEW k \in DOMAIN entries,
               Data(new', j) = Data(new', k)
        PROVE  Span(entries[j]) = Span(entries[k])
    <3>1. OldData(j) = OldData(k)
      BY <1>4, <2>3
    <3>2. PICK l \in DOMAIN lumps :
            Placement(j, l) /\ Span(entries[j]) = Span(Where(lumps[l]))
      BY <1>4
    <3>3. PICK m \in DOMAIN lumps :
            Placement(k, m) /\ Span(entries[k]) = Span(Where(lumps[m]))
      BY <1>4
    <3>4. l = m
      BY <1>2, <3>1, <3>2, <3>3 DEF MergedApart, Placement
    <3> QED
      BY <3>2, <3>3, <3>4
  <2>4. DirOffset(new') \in Nat /\ DirOffset(new') >= 3 /\ Len(new') \in Nat
    BY <1>3
  <2> QED
    <3>1. PICK g : g = new'
      OBVIOUS
    <3>2. Directory(g) = entries /\ DirOffset(g) = Len(new)
          /\ Len(g) = DirOffset(g) + 4 * Len(Directory(g))
          /\ DirOffset(g) \in Nat /\ DirOffset(g) >= 3 /\ Len(g) \in Nat
      BY <1>3, <2>4, <3>1
    <3>3. \A j, k \in DOMAIN entries :
            Data(g, j) = Data(g, k) => Span(entries[j]) = Span(entries[k])
      BY <2>3, <3>1
    <3>4. \A k \in DOMAIN Directory(g) :
            Span(Directory(g)[k]) \subseteq 3 .. DirOffset(g) - 1
      BY <2>1, <3>2
    <3>5. \A a \in 3 .. DirOffset(g) - 1 : \E k \in DOMAIN Directory(g) :
            /\ a \in Span(Directory(g)[k])
            /\ \A j \in DOMAIN Directory(g) : a \in Span(Directory(g)[j]) =>
                 Span(Directory(g)[j]) = Span(Directory(g)[k])
      BY <2>2, <3>2
    <3>6. \A j, k \in DOMAIN Directory(g) : Data(g, j) = Data(g, k) =>
            Span(Directory(g)[j]) = Span(Directory(g)[k])
      BY <3>2, <3>3
    <3>7. Tight(g, TRUE)
      BY <3>2, <3>4, <3>5, <3>6, IsTight
    <3> QED
      BY <3>1, <3>7
<1>6. Ready'
  <2>1. Merging(cmd)' /\ Readable(trail[1])
    BY <1>1, <1>2 DEF Reopened, Merging
  <2>2. Same(wad)' /\ (Rewritten' <=> FALSE)
    BY <1>1, <1>2 DEF Ready, Same, Rewritten
  <2>3. Tight(new', Merging(cmd)')
    BY <1>5, <2>1 DEF Merging
  <2> QED
    BY <1>1, <1>2, <1>3, <2>1, <2>2, <2>3 DEF Ready
<1> QED
  BY <1>1, <1>6 DEF KeptInv, FirstKept, SecondKept
-----------------------------------------------------------------------------
(* From one run to the next *)

\* A run ends with the file as it was, or with one that keeps it.
LEMMA EndRunKept ==
  ASSUME KeptInv, NEW c, NEW f, NEW done \in BOOLEAN, EndRun(c, f, done), Same(f),
         done => Tight(f, Merging(c))
  PROVE  Ready' /\ FirstKept' /\ SecondKept'
<1>1. /\ wad' = f /\ pc' = "idle" /\ past' = Append(past, [cmd |-> c, done |-> done])
      /\ trail' = Append(trail, f)
  BY DEF EndRun, Goto
<1>2. Ready /\ past \in Seq([cmd : Command, done : BOOLEAN]) /\ trail \in Seq(Seq(Word))
  BY DEF KeptInv, PassInv, TypeOK
<1>3. trail' # <<>> /\ trail'[1] = trail[1]
  BY <1>1, <1>2, SMTT(60) DEF Ready
<1>4. Last(past') = [cmd |-> c, done |-> done]
  <2>1. Len(past) \in Nat
    BY <1>2
  <2>2. Len(past') = Len(past) + 1 /\ past'[Len(past) + 1] = [cmd |-> c, done |-> done]
    BY <1>1, <1>2, <2>1
  <2> QED
    BY <2>2 DEF Last
<1>5. Last(past').cmd = c /\ Last(past').done = done
  BY <1>4
<1>6. Same(wad)'
  BY <1>1, <1>3 DEF Same
<1>7. Rewritten' => Tight(wad', Merging(Last(past').cmd))
  BY <1>1, <1>5 DEF Rewritten
<1>8. trail'[1] \in Wads
  BY <1>2, <1>3 DEF Ready
<1>9. pc' \notin {"reopen", "rename", "lumps", "merge"}
  BY <1>1
<1> QED
  BY <1>3, <1>6, <1>7, <1>8, <1>9 DEF Ready, FirstKept, SecondKept

LEMMA BeginKept ==
  ASSUME KeptInv, PassInv', NEW c \in Command, Begin(c)
  PROVE  KeptInv'
<1>1. CASE EndRun(c, wad, FALSE)
  BY <1>1, EndRunKept DEF KeptInv, Ready
<1>2. CASE /\ Opens(wad) /\ OpenWadFile(wad)
           /\ new' = <<>> /\ count' = 1 /\ Goto("lumps")
           /\ UNCHANGED <<wad, history>>
  <2>1. /\ old' = wad /\ type' = wad[1][2] /\ entries' = Directory(wad)
        /\ pc' = "lumps" /\ UNCHANGED <<wad, trail, past>>
    BY <1>2 DEF OpenWadFile, Goto, history
  <2>2. psx_format' <=> Console(wad)
    BY <1>2, <2>1, Zenon DEF Begin, Console, Markers
  <2>3. wad[1] = Magic(type')
    BY <1>2, <2>1 DEF Opens, Magic
  <2>4. Opened'
    BY <2>1, <2>2, <2>3 DEF Opened, Console
  <2>5. \A k : ~GoneOver(k)'
    <3>1. \A k \in 1 .. Len(entries') : ~(k < count')
      BY <1>2
    <3>2. DOMAIN entries' = 1 .. Len(entries')
      BY DEF PassInv, TypeOK
    <3> QED
      BY <3>1, <3>2 DEF GoneOver
  <2>6. AllFine' /\ LumpsApart'
    BY <2>5 DEF AllFine, LumpsApart
  <2>7. 3 .. Len(new') - 1 = {}
    BY <1>2
  <2>8. NoGaps'
    BY <2>7 DEF NoGaps
  <2>9. Ready'
    BY <2>1 DEF KeptInv, Ready, Same, Rewritten
  <2> QED
    BY <2>1, <2>4, <2>6, <2>8, <2>9 DEF KeptInv, FirstKept, SecondKept
<1> QED
  BY <1>1, <1>2 DEF Begin

\* What is kept, from any state to the next.
LEMMA NextKept ==
  ASSUME ConsolesMarked, NotAllEmpty, KeptInv, [Next]_vars
  PROVE  KeptInv'
<1>1. PassInv'
  BY NextKeeps DEF KeptInv
<1>2. ASSUME NEW c \in Allowed, Begin(c) PROVE KeptInv'
  BY <1>1, <1>2, BeginKept DEF Allowed
<1>3. CASE Rename
  <2>1. EndRun(cmd, new, TRUE) /\ pc = "rename"
    BY <1>3 DEF Rename
  <2>2. Same(new) /\ Tight(new, Merging(cmd))
    BY <2>1 DEF KeptInv, Ready, Same
  <2> QED
    BY <1>1, <2>1, <2>2, EndRunKept DEF KeptInv
<1>4. CASE ErrorExit
  <2>1. EndRun(cmd, wad, FALSE)
    BY <1>4 DEF ErrorExit
  <2> QED
    BY <1>1, <2>1, EndRunKept DEF KeptInv, Ready
<1>5. CASE UNCHANGED vars
  <2>1. /\ UNCHANGED <<wad, pc, cmd, type, entries, psx_format, old, new, count, lumps>>
        /\ UNCHANGED <<key, elements, calls, step, past, trail>>
    BY <1>5 DEF vars, wadfile, merge, sortvars, history
  <2>2. Ready'
    BY <2>1 DEF KeptInv, Ready, Same, Rewritten
  <2>3. FirstKept'
    <3>1. Opened' <=> Opened
      BY <2>1 DEF Opened
    <3>2. \A k : GoneOver(k)' <=> GoneOver(k)
      BY <2>1 DEF GoneOver, Waits, Deferred, Packs, IsSidedefs, HasName
    <3>3. \A k : NewData(k)' = NewData(k) /\ OldData(k)' = OldData(k) /\ Was(k)' = Was(k)
      BY <2>1 DEF NewData, OldData, Was
    <3>4. \A k : Unison(k)' <=> Unison(k)
      BY <2>1, <3>3 DEF Unison, Target, Compresses
    <3>5. \A k : Fine(k)' <=> Fine(k)
      BY <2>1, <3>3, <3>4 DEF Fine, InLevel, Packs, IsSidedefs, HasName
    <3>6. AllFine' <=> AllFine
      BY <2>1, <3>2, <3>5 DEF AllFine
    <3>7. (LumpsApart' <=> LumpsApart) /\ (NoGaps' <=> NoGaps)
      BY <2>1, <3>2 DEF LumpsApart, NoGaps
    <3> QED
      BY <2>1, <3>1, <3>6, <3>7 DEF KeptInv, FirstKept
  <2>4. SecondKept'
    <3>1. \A k, l : Placement(k, l)' <=> Placement(k, l)
      BY <2>1 DEF Placement, OldData, Was
    <3>2. (Reopened' <=> Reopened) /\ (Sorted' <=> Sorted)
      BY <2>1 DEF Reopened, Was, Sorted
    <3>3. (AllPlaced' <=> AllPlaced) /\ (AllOwned' <=> AllOwned)
      BY <2>1, <3>1, <3>2 DEF AllPlaced, AllOwned
    <3>4. (MergedApart' <=> MergedApart) /\ (MergedNoGaps' <=> MergedNoGaps)
      BY <2>1 DEF MergedApart, MergedNoGaps
    <3> QED
      BY <2>1, <3>2, <3>3, <3>4 DEF KeptInv, SecondKept
  <2> QED
    BY <1>1, <2>2, <2>3, <2>4 DEF KeptInv
<1> QED
  BY <1>1, <1>2, <1>3, <1>4, <1>5, NextLumpKept, EndFirstPassKept, ReopenKept,
     SortMapElementsKept, MergeLumpKept, EndSecondPassKept DEF Next, Done

-----------------------------------------------------------------------------

\* The inductive invariant the next theorems rest on: what a file that was read
\* or written has in common with the first one, and what each pass has kept.
THEOREM KeptInvariance ==
  ASSUME ConsolesMarked, NotAllEmpty
  PROVE  Spec => []KeptInv
<1>1. KeptInv /\ [Next]_vars => KeptInv'
  BY NextKept
<1> QED
  BY <1>1, InitKept, PTL DEF Spec

\* Whatever runs there are, the file keeps its type and its lumps: as many of
\* them, in their order, under their names, with what they held, and the two
\* lumps of a level in step (wadptr.1:14).
THEOREM WhateverRunsThereAre ==
  ASSUME ConsolesMarked, NotAllEmpty
  PROVE  Spec => []LumpsKept
<1>1. KeptInv => LumpsKept
  <2> SUFFICES ASSUME KeptInv PROVE LumpsKept
    OBVIOUS
  <2>1. Same(wad)
    BY DEF KeptInv, Ready
  <2>2. CASE Readable(trail[1])
    BY <2>1, <2>2, KeepsMeaning DEF Same, LumpsKept
  <2>3. CASE ~Readable(trail[1])
    BY <2>1, <2>3 DEF Same, LumpsKept
  <2> QED
    BY <2>2, <2>3
<1> QED
  BY <1>1, KeptInvariance, PTL

\* A file that was rewritten has nothing but a header, the lumps and a directory,
\* and no lump over another unless the two are the same (wadmerge.c:93-107).
THEOREM NothingElseIsWritten ==
  ASSUME ConsolesMarked, NotAllEmpty
  PROVE  Spec => []TightLayout
<1>1. KeptInv => TightLayout
  BY DEF KeptInv, Ready, Tight, TightLayout, Merging, Span, Rewritten
<1> QED
  BY <1>1, KeptInvariance, PTL
-----------------------------------------------------------------------------
(* What a run makes of a file *)

LevelAt(f, k) ==
  /\ k \in DOMAIN Directory(f) \ {1}
  /\ Directory(f)[k].name = NameWords("SIDEDEFS")
  /\ Directory(f)[k - 1].name = NameWords("LINEDEFS")
Packing(c, f) == c.allowpack /\ ~Console(f)
Leveled(c, f, k) == Packing(c, f) /\ (LevelAt(f, k) \/ LevelAt(f, k + 1))
Stacking(c, f, k) == c.allowstack /\ Directory(f)[k].name = NameWords("BLOCKMAP")
Pictured(f, k) == \A name \in NoPicture : Directory(f)[k].name # NameWords(name)

\* A thing that has one of the forms, and does not overflow.
Formed(data, forms) ==
  \E t \in Thing \ Overflowed : IsThing(data, t) /\ forms \cap DOMAIN Sizes[t] # {}

\* The lumps of a file that are recoded with a command line, if they can be made
\* what is asked for.
Moves(c, forms, f, k) ==
  /\ Formed(Data(f, k), forms)
  /\ \/ /\ Packing(c, f)
        /\ \/ LevelAt(f, k) /\ Formed(Data(f, k - 1), forms)
           \/ LevelAt(f, k + 1) /\ Formed(Data(f, k + 1), forms)
     \/ Stacking(c, f, k)
     \/ /\ c.allowsquash /\ Pictured(f, k)
        /\ \E t \in Graphical : IsThing(Data(f, k), t)

Aim(c) == IF c.op = "compress" THEN "small" ELSE "plain"
Aimed(c, a, b) ==
  \E t \in Thing : IsThing(a, t) /\ Aim(c) \in DOMAIN Sizes[t] /\ b = Content(t, Aim(c))

\* B_Unstack takes a lump for what it is not; B_Stack and S_Squash have made more
\* of one than it was.
Garbles(c, f, k) ==
  c.op = "decompress" /\ Stacking(c, f, k) /\ IsOverflowed(Data(f, k))
Grows(c, a) ==
  /\ c.op = "compress"
  /\ \E t \in Thing : /\ IsThing(a, t) /\ "small" \in DOMAIN Sizes[t]
                       /\ Sizes[t].small > Len(a)
Drops(c, f, k) == ~Leveled(c, f, k) /\ Grows(c, Data(f, k))

Makes(c, f, k, data) ==
  IF Garbles(c, f, k)
  THEN \E t \in Overflowed : IsThing(Data(f, k), t) /\ data = Content(t, "garbled")
  ELSE IF ~Moves(c, {Aim(c)}, f, k) THEN data = Data(f, k)
  ELSE IF ~Drops(c, f, k) THEN Aimed(c, Data(f, k), data)
  ELSE data = IF Stacking(c, f, k) THEN Data(f, k) ELSE Joined(Data(f, k))

\* Where a lump is written when those of "S" have been.
End(e) == e.offset + e.length
FreeAt(dir, S, a) ==
  /\ a = 3 \/ \E k \in S : a = End(dir[k])
  /\ a >= 3 /\ \A k \in S : a >= End(dir[k])

\* The order in which lumps are written, and those that are: all but some empty
\* ones, or the first of each content.
Order(c, e) == IF Merging(c) THEN Rank(e) ELSE 0
Earlier(c, dir, j, k) ==
  \/ Order(c, dir[j]) < Order(c, dir[k])
  \/ Order(c, dir[j]) = Order(c, dir[k]) /\ j < k
Skipped(c, f, k) == Data(f, k) = <<>> /\ ~Leveled(c, f, k) /\ ~Stacking(c, f, k)
Laid(c, f) ==
  {k \in DOMAIN Directory(f) :
     IF Merging(c)
     THEN \A j \in DOMAIN Directory(f) :
            Earlier(c, Directory(f), j, k) => Data(f, j) # Data(f, k)
     ELSE ~Skipped(c, f, k)}
LaidBefore(c, f, k) == {j \in Laid(c, f) : Earlier(c, Directory(f), j, k)}

LaidOut(c, f) ==
  /\ \A k \in Laid(c, f) : FreeAt(Directory(f), LaidBefore(c, f, k), Directory(f)[k].offset)
  /\ FreeAt(Directory(f), Laid(c, f), DirOffset(f))
  /\ \A k \in DOMAIN Directory(f) \ Laid(c, f) :
       IF Merging(c)
       THEN \E j \in Laid(c, f) : /\ Data(f, j) = Data(f, k)
                                /\ Directory(f)[j].offset = Directory(f)[k].offset
       ELSE Directory(f)[k].offset = 0

\* The words of a file that is written are those of its header, its lumps and its
\* directory.
Neat(f) ==
  /\ f \in Seq(Word) /\ Readable(f)
  /\ f[2] = Long(NumEntries(f)) /\ f[3] = Long(DirOffset(f))
  /\ Len(f) = DirOffset(f) + 4 * NumEntries(f)
  /\ \A k \in DOMAIN Directory(f) : \A j \in 1 .. 4 :
       f[DirOffset(f) + 4 * (k - 1) + j] = EntryWords(Directory(f)[k])[j]
  /\ \A a \in 3 .. DirOffset(f) - 1 :
       \E k \in DOMAIN Directory(f) : a \in Span(Directory(f)[k])

\* A run has made of one file the other.
RanAs(c, f, g) ==
  /\ KeepsFile(f, g) /\ Neat(g) /\ LaidOut(c, g)
  /\ \A k \in DOMAIN Directory(f) : Makes(c, f, k, Data(g, k))

\* What is done with a file depends on its names and on the things it holds.
LEMMA LevelsKept ==
  ASSUME NEW f, NEW g, KeepsFile(f, g)
  PROVE  /\ Console(g) <=> Console(f)
         /\ \A k \in Int : LevelAt(g, k) <=> LevelAt(f, k)
         /\ \A k \in DOMAIN Directory(f) : Pictured(g, k) <=> Pictured(f, k)
<1>1. DOMAIN Directory(g) = DOMAIN Directory(f)
  BY DEF KeepsFile
<1>2. \A k \in DOMAIN Directory(f) : Directory(g)[k].name = Directory(f)[k].name
  BY DEF KeepsFile
<1>3. ASSUME NEW k \in Int PROVE LevelAt(g, k) <=> LevelAt(f, k)
  <2>1. DOMAIN Directory(f) = 1 .. NumEntries(f) /\ NumEntries(f) \in Nat
    BY WordsTyped DEF Directory, NumEntries
  <2>2. k \in DOMAIN Directory(f) \ {1} => k - 1 \in DOMAIN Directory(f)
    BY <2>1
  <2> QED
    BY <1>1, <1>2, <2>2 DEF LevelAt
<1> QED
  BY <1>1, <1>2, <1>3 DEF Console, Pictured

LEMMA FormedAlike ==
  ASSUME NEW a, NEW b, Alike(a, b), NEW forms
  PROVE  Formed(a, forms) <=> Formed(b, forms)
BY DEF Alike, Formed

\* Things that have a form to go to do not overflow.
LEMMA MovableThing ==
  ASSUME NEW t \in Thing, "small" \in DOMAIN Sizes[t] \/ "plain" \in DOMAIN Sizes[t]
  PROVE  t \notin Overflowed
BY ThingsAssumption

LEMMA MovesKept ==
  ASSUME NEW f, NEW g, KeepsFile(f, g), NEW c, NEW forms, NEW k \in DOMAIN Directory(f)
  PROVE  Moves(c, forms, g, k) <=> Moves(c, forms, f, k)
<1>1. /\ DOMAIN Directory(g) = DOMAIN Directory(f)
      /\ DOMAIN Directory(f) = 1 .. NumEntries(f) /\ NumEntries(f) \in Nat
      /\ \A j \in DOMAIN Directory(f) :
           /\ Directory(g)[j].name = Directory(f)[j].name /\ Alike(Data(g, j), Data(f, j))
  BY WordsTyped DEF KeepsFile, Directory, NumEntries
<1>2. \A j \in DOMAIN Directory(f) :
         /\ Formed(Data(g, j), forms) <=> Formed(Data(f, j), forms)
         /\ \A t \in Graphical : IsThing(Data(g, j), t) <=> IsThing(Data(f, j), t)
  <2> SUFFICES ASSUME NEW j \in DOMAIN Directory(f)
               PROVE  /\ Formed(Data(g, j), forms) <=> Formed(Data(f, j), forms)
                      /\ \A t \in Graphical :
                           IsThing(Data(g, j), t) <=> IsThing(Data(f, j), t)
    OBVIOUS
  <2>1. Alike(Data(g, j), Data(f, j))
    BY <1>1
  <2>2. Graphical \subseteq Thing \ Overflowed
    BY ThingsAssumption
  <2> QED
    BY <2>1, <2>2, FormedAlike DEF Alike
<1>3. k \in Int /\ k + 1 \in Int
  BY <1>1
<1>4. /\ LevelAt(f, k) => k - 1 \in DOMAIN Directory(f)
      /\ LevelAt(f, k + 1) => k + 1 \in DOMAIN Directory(f)
  BY <1>1 DEF LevelAt
<1>5. /\ Console(g) <=> Console(f)
      /\ LevelAt(g, k) <=> LevelAt(f, k)
      /\ LevelAt(g, k + 1) <=> LevelAt(f, k + 1)
      /\ Pictured(g, k) <=> Pictured(f, k)
  BY <1>3, LevelsKept
<1> QED
  BY <1>1, <1>2, <1>4, <1>5 DEF Moves, Packing, Stacking

\* What one command line recodes, one with every method does, into more forms.
LEMMA MovesMore ==
  ASSUME NEW c, NEW d, Full(d), NEW forms, NEW more, forms \subseteq more,
         NEW f, NEW k, Moves(c, forms, f, k)
  PROVE  Moves(d, more, f, k)
<1>1. ASSUME NEW data, Formed(data, forms) PROVE Formed(data, more)
  BY <1>1 DEF Formed
<1>2. /\ Formed(Data(f, k), more)
      /\ Formed(Data(f, k - 1), forms) => Formed(Data(f, k - 1), more)
      /\ Formed(Data(f, k + 1), forms) => Formed(Data(f, k + 1), more)
  BY <1>1 DEF Moves
<1> QED
  BY <1>2 DEF Moves, Full, Packing, Stacking

\* One of two lumps is written first.
LEMMA OneIsEarlier ==
  ASSUME NEW c, NEW dir \in Seq(Entry), NEW j \in DOMAIN dir, NEW k \in DOMAIN dir, j # k
  PROVE  Earlier(c, dir, j, k) \/ Earlier(c, dir, k, j)
<1>1. Order(c, dir[j]) \in Int /\ Order(c, dir[k]) \in Int /\ j \in Int /\ k \in Int
  BY RankTyped DEF Order
<1> QED
  BY <1>1 DEF Earlier

\* In a set of lumps there is one that is written before all others.
LEMMA EarliestLump ==
  ASSUME NEW c, NEW dir \in Seq(Entry), NEW S \in SUBSET DOMAIN dir, S # {}
  PROVE  \E k \in S : \A j \in S : ~Earlier(c, dir, j, k)
<1> DEFINE R == {Order(c, dir[k]) : k \in S}
<1>1. R \subseteq Nat /\ R # {}
  <2>1. DOMAIN NameOrder \subseteq Nat
    BY NamesAssumption
  <2>2. \A e : Rank(e) \in Nat
    BY <2>1 DEF Rank
  <2> QED
    BY <2>2 DEF Order
<1>2. PICK r \in R : \A s \in R : r <= s
  BY <1>1, LeastNumber
<1> DEFINE T == {k \in S : Order(c, dir[k]) = r}
<1>3. T \subseteq Nat /\ T # {}
  BY <1>2
<1>4. PICK k \in T : \A j \in T : k <= j
  BY <1>3, LeastNumber
<1>5. ASSUME NEW j \in S PROVE ~Earlier(c, dir, j, k)
  <2>1. Order(c, dir[k]) = r /\ k \in S /\ r \in Nat
    BY <1>1, <1>4
  <2>2. r <= Order(c, dir[j]) /\ Order(c, dir[j]) \in Nat
    BY <1>1, <1>2
  <2>3. j \in Nat /\ k \in Nat
    BY <1>3, <1>4
  <2>4. Order(c, dir[j]) = r => k <= j
    BY <1>4
  <2> QED
    BY <2>1, <2>2, <2>3, <2>4 DEF Earlier
<1> QED
  BY <1>4, <1>5

\* There is one place behind all that has been written.
LEMMA OnePlace ==
  ASSUME NEW dir, NEW S, NEW a \in Nat, NEW b \in Nat, FreeAt(dir, S, a), FreeAt(dir, S, b)
  PROVE  a = b
<1>1. a <= b
  BY DEF FreeAt
<1>2. b <= a
  BY DEF FreeAt
<1> QED
  BY <1>1, <1>2

\* Entries of the same name come in the same place.
RankNamed(name) ==
  IF \E k \in DOMAIN NameOrder : name = NameWords(NameOrder[k])
  THEN CHOOSE k \in DOMAIN NameOrder : name = NameWords(NameOrder[k])
  ELSE 0

LEMMA NamedOrder ==
  ASSUME NEW c, NEW d, NEW e, d.name = e.name
  PROVE  Order(c, d) = Order(c, e)
<1>1. Rank(d) = RankNamed(d.name) /\ Rank(e) = RankNamed(e.name)
  BY DEF Rank, RankNamed
<1> QED
  BY <1>1 DEF Order

\* Two files that have the same lumps under the same names.
Alikeness(g, h) ==
  /\ NumEntries(g) = NumEntries(h)
  /\ \A k \in DOMAIN Directory(g) :
       /\ Directory(g)[k].name = Directory(h)[k].name
       /\ Data(g, k) = Data(h, k)

\* What a command line leaves out, and in which order it writes the rest.
LEMMA LaidSame ==
  ASSUME NEW c, NEW g \in Seq(Word), NEW h \in Seq(Word), Readable(g), Readable(h),
         Alikeness(g, h)
  PROVE  /\ Directory(g) \in Seq(Entry) /\ Directory(h) \in Seq(Entry)
         /\ DOMAIN Directory(g) = DOMAIN Directory(h)
         /\ \A k \in DOMAIN Directory(g) : Directory(g)[k].length = Directory(h)[k].length
         /\ \A j, k \in DOMAIN Directory(g) :
              Earlier(c, Directory(g), j, k) <=> Earlier(c, Directory(h), j, k)
         /\ Laid(c, g) = Laid(c, h) /\ Laid(c, g) \subseteq DOMAIN Directory(g)
         /\ \A k \in Laid(c, g) : LaidBefore(c, g, k) = LaidBefore(c, h, k)
<1>1. /\ Directory(g) \in Seq(Entry) /\ Directory(h) \in Seq(Entry)
      /\ DOMAIN Directory(g) = DOMAIN Directory(h)
      /\ DOMAIN Directory(g) = 1 .. NumEntries(g) /\ NumEntries(g) \in Nat
  <2>1. Directory(g) \in Seq(Entry) /\ Directory(h) \in Seq(Entry) /\ NumEntries(g) \in Nat
    BY DirectoryTyped DEF Readable
  <2> QED
    BY <2>1 DEF Directory, Alikeness
<1>2. \A k \in DOMAIN Directory(g) :
         /\ Directory(g)[k].name = Directory(h)[k].name
         /\ Data(g, k) = Data(h, k)
  BY DEF Alikeness
<1>3. ASSUME NEW k \in DOMAIN Directory(g)
      PROVE  Directory(g)[k].length = Directory(h)[k].length
  <2>1. Directory(g)[k] \in Entry /\ Directory(h)[k] \in Entry
    <3>1. \A s \in Seq(Entry) : \A i \in DOMAIN s : s[i] \in Entry
      OBVIOUS
    <3> QED
      BY <1>1, <3>1
  <2>2. InFile(g, Directory(g)[k]) /\ InFile(h, Directory(h)[k])
    BY <1>1 DEF Readable
  <2>3. /\ Len(Data(g, k)) = Directory(g)[k].length
        /\ Len(Data(h, k)) = Directory(h)[k].length
    BY <2>1, <2>2, LumpTyped DEF Data, Entry
  <2> QED
    BY <1>2, <2>3
<1>4. ASSUME NEW j \in DOMAIN Directory(g), NEW k \in DOMAIN Directory(g)
      PROVE  Earlier(c, Directory(g), j, k) <=> Earlier(c, Directory(h), j, k)
  <2>1. /\ Order(c, Directory(g)[j]) = Order(c, Directory(h)[j])
        /\ Order(c, Directory(g)[k]) = Order(c, Directory(h)[k])
    BY <1>2, NamedOrder
  <2> QED
    BY <2>1 DEF Earlier
<1>5. ASSUME NEW k \in DOMAIN Directory(g) PROVE Skipped(c, g, k) <=> Skipped(c, h, k)
  <2>1. ASSUME NEW i \in Int PROVE LevelAt(g, i) <=> LevelAt(h, i)
    <3>1. \A n \in Nat : i \in (1 .. n) \ {1} => i - 1 \in 1 .. n
      OBVIOUS
    <3> QED
      BY <1>1, <1>2, <3>1 DEF LevelAt
  <2>2. k \in Int /\ k + 1 \in Int
    <3>1. \A n \in Nat : \A i \in 1 .. n : i \in Int /\ i + 1 \in Int
      OBVIOUS
    <3> QED
      BY <1>1, <3>1
  <2>3. Console(g) <=> Console(h)
    BY <1>1, <1>2 DEF Console
  <2> QED
    BY <1>2, <2>1, <2>2, <2>3 DEF Skipped, Leveled, Packing, Stacking
<1>6. Laid(c, g) = Laid(c, h) /\ Laid(c, g) \subseteq DOMAIN Directory(g)
  BY <1>1, <1>2, <1>4, <1>5 DEF Laid
<1>7. \A k \in Laid(c, g) : LaidBefore(c, g, k) = LaidBefore(c, h, k)
  BY <1>4, <1>6 DEF LaidBefore
<1> QED
  BY <1>1, <1>3, <1>4, <1>6, <1>7

\* There is one way to lay out the lumps of a file.
LEMMA OneLayout ==
  ASSUME NEW c, NEW g \in Seq(Word), NEW h \in Seq(Word), Readable(g), Readable(h),
         Alikeness(g, h), LaidOut(c, g), LaidOut(c, h)
  PROVE  Directory(g) = Directory(h) /\ DirOffset(g) = DirOffset(h)
<1> DEFINE dir == Directory(g)
           other == Directory(h)
           L == Laid(c, g)
<1>1. /\ dir \in Seq(Entry) /\ other \in Seq(Entry) /\ DOMAIN dir = DOMAIN other
      /\ \A k \in DOMAIN dir : dir[k].length = other[k].length
      /\ L = Laid(c, h) /\ L \subseteq DOMAIN dir
      /\ \A k \in L : LaidBefore(c, g, k) = LaidBefore(c, h, k)
  BY LaidSame
<1>2. /\ \A k \in L : /\ FreeAt(dir, LaidBefore(c, g, k), dir[k].offset)
                      /\ FreeAt(other, LaidBefore(c, g, k), other[k].offset)
      /\ FreeAt(dir, L, DirOffset(g)) /\ FreeAt(other, L, DirOffset(h))
  BY <1>1 DEF LaidOut
<1>3. \A k \in DOMAIN dir : /\ dir[k].offset \in Nat /\ other[k].offset \in Nat
                            /\ dir[k].name = other[k].name
                            /\ dir[k] \in Entry /\ other[k] \in Entry
  <2>1. \A k \in DOMAIN dir : dir[k] \in Entry /\ other[k] \in Entry
    BY <1>1
  <2> QED
    BY <2>1 DEF Entry, Alikeness
<1>4. ASSUME NEW S \in SUBSET DOMAIN dir, \A k \in S : dir[k].offset = other[k].offset,
             NEW a, FreeAt(other, S, a)
      PROVE  FreeAt(dir, S, a)
  <2>1. \A k \in S : End(dir[k]) = End(other[k])
    BY <1>1, <1>4 DEF End
  <2> QED
    BY <1>4, <2>1 DEF FreeAt
<1>5. \A k \in L : dir[k].offset = other[k].offset
  <2> DEFINE Bad == {k \in L : dir[k].offset # other[k].offset}
  <2> SUFFICES ASSUME Bad # {} PROVE FALSE
    OBVIOUS
  <2>1. Bad \in SUBSET DOMAIN dir
    BY <1>1
  <2> HIDE DEF dir, other, L
  <2>2. PICK k \in Bad : \A j \in Bad : ~Earlier(c, dir, j, k)
    BY <1>1, <2>1, EarliestLump
  <2>3. \A j \in LaidBefore(c, g, k) : j \in L /\ dir[j].offset = other[j].offset
    <3>1. \A j \in LaidBefore(c, g, k) : j \in L /\ Earlier(c, dir, j, k)
      BY DEF LaidBefore, L, dir
    <3> QED
      BY <2>2, <3>1
  <2>4. LaidBefore(c, g, k) \in SUBSET DOMAIN dir
    BY <1>1, <2>3
  <2>5. FreeAt(dir, LaidBefore(c, g, k), other[k].offset)
    BY <1>2, <1>4, <2>3, <2>4
  <2>6. dir[k].offset \in Nat /\ other[k].offset \in Nat
    BY <1>3, <2>1
  <2>7. dir[k].offset = other[k].offset
    BY <1>2, <2>5, <2>6, OnePlace
  <2> QED
    BY <2>7
<1>6. DirOffset(g) = DirOffset(h)
  <2>1. DirOffset(g) \in Nat /\ DirOffset(h) \in Nat
    BY WordsTyped DEF DirOffset
  <2>2. FreeAt(dir, L, DirOffset(h))
    BY <1>1, <1>2, <1>4, <1>5
  <2> HIDE DEF dir, L
  <2> QED
    BY <1>2, <2>1, <2>2, OnePlace
<1>7. ASSUME NEW k \in DOMAIN dir \ L PROVE dir[k].offset = other[k].offset
  <2>1. CASE ~Merging(c)
    BY <1>1, <2>1 DEF LaidOut
  <2>2. CASE Merging(c)
    <3>1. PICK i \in L : Data(g, i) = Data(g, k) /\ dir[i].offset = dir[k].offset
      BY <2>2 DEF LaidOut
    <3>2. PICK j \in L : Data(h, j) = Data(h, k) /\ other[j].offset = other[k].offset
      BY <1>1, <2>2 DEF LaidOut
    <3>3. Data(g, j) = Data(g, i) /\ i \in DOMAIN dir /\ j \in DOMAIN dir
      BY <1>1, <3>1, <3>2 DEF Alikeness
    <3>4. \A m, l \in L : Earlier(c, dir, m, l) => Data(g, m) # Data(g, l)
      BY <1>1, <2>2 DEF Laid
    <3>5. i = j
      BY <1>1, <3>3, <3>4, OneIsEarlier
    <3> QED
      BY <1>5, <3>1, <3>2, <3>5
  <2> QED
    BY <2>1, <2>2
<1>8. ASSUME NEW k \in DOMAIN dir PROVE dir[k] = other[k]
  <2>1. dir[k].offset = other[k].offset
    BY <1>5, <1>7
  <2>2. dir[k].name = other[k].name /\ dir[k].length = other[k].length
    BY <1>1, <1>3
  <2>3. \A e \in Entry : e = [offset |-> e.offset, length |-> e.length, name |-> e.name]
    BY DEF Entry
  <2> HIDE DEF dir, other
  <2>4. /\ dir[k] = [offset |-> dir[k].offset, length |-> dir[k].length, name |-> dir[k].name]
        /\ other[k] = [offset |-> other[k].offset, length |-> other[k].length,
                       name |-> other[k].name]
    BY <1>3, <2>3
  <2> QED
    BY <2>1, <2>2, <2>4
<1> QED
  BY <1>1, <1>6, <1>8

\* The words of a file that is written are those of its header, its directory and
\* its lumps, where they have been laid.
LEMMA OneFile ==
  ASSUME NEW c, NEW g, NEW h, Neat(g), Neat(h), LaidOut(c, g), LaidOut(c, h),
         Alikeness(g, h), g[1] = h[1]
  PROVE  g = h
<1>1. /\ g \in Seq(Word) /\ h \in Seq(Word) /\ Readable(g) /\ Readable(h)
      /\ Directory(g) = Directory(h) /\ DirOffset(g) = DirOffset(h)
      /\ NumEntries(g) = NumEntries(h)
  BY OneLayout DEF Neat, Alikeness
<1>2. /\ NumEntries(g) \in Nat /\ DirOffset(g) \in Nat /\ DirOffset(g) >= 3
      /\ Len(g) \in Nat
  <2>1. DirOffset(g) >= 3
    BY DEF LaidOut, FreeAt
  <2> QED
    BY <1>1, <2>1, WordsTyped DEF NumEntries, DirOffset
<1>3. /\ Len(g) = DirOffset(g) + 4 * NumEntries(g) /\ Len(h) = Len(g)
      /\ g[2] = h[2] /\ g[3] = h[3]
  BY <1>1 DEF Neat
<1>4. ASSUME NEW i \in 4 .. DirOffset(g) PROVE g[i] = h[i]
  <2>1. i - 1 \in 3 .. DirOffset(g) - 1
    BY <1>2
  <2>2. PICK k \in DOMAIN Directory(g) : i - 1 \in Span(Directory(g)[k])
    BY <2>1 DEF Neat
  <2>3. Directory(g)[k] \in Entry
    <3>1. \A s \in Seq(Entry) : \A j \in DOMAIN s : s[j] \in Entry
      OBVIOUS
    <3>2. Directory(g) \in Seq(Entry)
      BY <1>1, DirectoryTyped DEF Readable
    <3> QED
      BY <3>1, <3>2
  <2>4. PICK e : e = Directory(g)[k]
    OBVIOUS
  <2>5. e.offset \in Nat /\ e.length \in Nat
    BY <2>3, <2>4 DEF Entry
  <2>6. i - e.offset \in 1 .. e.length /\ e.offset + (i - e.offset) = i
    BY <1>2, <2>2, <2>4, <2>5, SMTT(60) DEF Span
  <2>7. CacheLump(g, e) = CacheLump(h, e)
    BY <1>1, <2>4 DEF Alikeness, Data
  <2>8. \A m \in 1 .. e.length : g[e.offset + m] = h[e.offset + m]
    <3>1. \A m \in 1 .. e.length : /\ CacheLump(g, e)[m] = g[e.offset + m]
                                   /\ CacheLump(h, e)[m] = h[e.offset + m]
      BY DEF CacheLump
    <3> QED
      BY <2>7, <3>1
  <2> QED
    BY <2>6, <2>8
<1>5. ASSUME NEW i \in DirOffset(g) + 1 .. Len(g) PROVE g[i] = h[i]
  <2> DEFINE o == i - DirOffset(g) - 1
             k == (o \div 4) + 1
             j == (o % 4) + 1
  <2>1. o \in 0 .. 4 * NumEntries(g) - 1
    BY <1>2, <1>3
  <2>2. /\ k \in 1 .. NumEntries(g) /\ j \in 1 .. 4
        /\ 4 * (k - 1) + j = o + 1
    <3> HIDE DEF o
    <3> QED
      BY <1>2, <2>1
  <2>3. DirOffset(g) + 4 * (k - 1) + j = i
    <3>1. DirOffset(g) + (o + 1) = i
      BY <1>2
    <3>2. k \in Int /\ j \in Int /\ o \in Int
      BY <2>1, <2>2
    <3>3. \A a, b, x, y \in Int : 4 * (x - 1) + y = b + 1 => a + 4 * (x - 1) + y = a + (b + 1)
      OBVIOUS
    <3> HIDE DEF o, k, j
    <3>4. DirOffset(g) \in Int /\ 4 * (k - 1) + j = o + 1
      BY <1>2, <2>2
    <3>5. DirOffset(g) + 4 * (k - 1) + j = DirOffset(g) + (o + 1)
      BY <3>2, <3>3, <3>4
    <3> QED
      BY <3>1, <3>5
  <2> HIDE DEF o, k, j
  <2>4. k \in DOMAIN Directory(g)
    BY <2>2 DEF Directory
  <2>5. /\ g[DirOffset(g) + 4 * (k - 1) + j] = EntryWords(Directory(g)[k])[j]
        /\ h[DirOffset(h) + 4 * (k - 1) + j] = EntryWords(Directory(h)[k])[j]
    BY <1>1, <2>2, <2>4 DEF Neat
  <2> QED
    BY <1>1, <2>3, <2>5
<1>6. ASSUME NEW i \in 1 .. Len(g) PROVE g[i] = h[i]
  <2>1. i \in {1, 2, 3} \/ i \in 4 .. DirOffset(g) \/ i \in DirOffset(g) + 1 .. Len(g)
    BY <1>2
  <2> QED
    BY <1>3, <1>4, <1>5, <2>1
<1> QED
  BY <1>1, <1>3, <1>6

\* A codec makes the same of a lump in any of its forms.
LEMMA AimedOnce ==
  ASSUME NEW c, NEW a, NEW b, Alike(a, b), NEW x, NEW y, Aimed(c, a, x), Aimed(c, b, y)
  PROVE  x = y
<1>1. PICK t \in Thing : /\ IsThing(a, t) /\ x = Content(t, Aim(c))
                         /\ Aim(c) \in DOMAIN Sizes[t]
  BY DEF Aimed
<1>2. PICK u \in Thing : IsThing(b, u) /\ y = Content(u, Aim(c))
  BY DEF Aimed
<1>3. IsThing(b, t)
  BY <1>1 DEF Alike
<1>4. t = u
  BY <1>2, <1>3, ContentsApart DEF IsThing
<1> QED
  BY <1>1, <1>2, <1>4

\* Two runs with the same command line make the same file if they make the same
\* of each lump.
LEMMA SameMade ==
  ASSUME NEW c, NEW d, NEW e, NEW f, NEW g, NEW h,
         KeepsFile(f, d), KeepsFile(f, e), RanAs(c, d, g), RanAs(c, e, h),
         \A k \in DOMAIN Directory(f) : Data(g, k) = Data(h, k)
  PROVE  g = h
<1>1. KeepsFile(f, g) /\ KeepsFile(f, h)
  BY KeepsOn DEF RanAs
<1>2. /\ DOMAIN Directory(g) = DOMAIN Directory(f) /\ g[1] = h[1]
      /\ DOMAIN Directory(h) = DOMAIN Directory(f)
      /\ \A k \in DOMAIN Directory(f) : Directory(g)[k].name = Directory(h)[k].name
  BY <1>1 DEF KeepsFile
<1>3. NumEntries(g) = NumEntries(h)
  <2>1. NumEntries(g) \in Nat /\ NumEntries(h) \in Nat
    BY WordsTyped DEF NumEntries
  <2>2. 1 .. NumEntries(g) = 1 .. NumEntries(h)
    BY <1>2 DEF Directory
  <2> QED
    BY <2>1, <2>2
<1>4. Alikeness(g, h)
  BY <1>2, <1>3 DEF Alikeness
<1> QED
  BY <1>2, <1>4, OneFile DEF RanAs

\* What a codec has taken for something else is no thing any more.
LEMMA GarbledIsNone ==
  ASSUME NEW t \in Overflowed, NEW u \in Thing
  PROVE  ~IsThing(Content(t, "garbled"), u)
<1>1. t \in Thing /\ "garbled" \in DOMAIN Sizes[t]
  BY ThingsAssumption
<1> QED
  BY <1>1, ContentsApart DEF IsThing

\* What is small does not become smaller.
LEMMA SmallIsSmall ==
  ASSUME NEW c, NEW a, NEW b, Aimed(c, a, b)
  PROVE  ~Grows(c, b)
<1> SUFFICES ASSUME c.op = "compress", NEW u \in Thing, IsThing(b, u),
                    "small" \in DOMAIN Sizes[u], Sizes[u].small > Len(b)
             PROVE  FALSE
  BY DEF Grows
<1>1. PICK t \in Thing : "small" \in DOMAIN Sizes[t] /\ b = Content(t, "small")
  BY DEF Aimed, Aim
<1>2. t = u
  BY <1>1, ContentsApart DEF IsThing
<1>3. Sizes[t]["small"] \in Nat
  BY <1>1, SizesAssumption
<1>4. Len(b) = Sizes[t]["small"]
  BY <1>1, <1>3 DEF Content
<1> QED
  BY <1>2, <1>3, <1>4

\* Posts are combined once, and in their place: the picture is as long as it was.
LEMMA JoinedOnce ==
  ASSUME NEW c, NEW a
  PROVE  /\ Joined(Joined(a)) = Joined(a)
         /\ Grows(c, a) => Grows(c, Joined(a))
<1>1. CASE \E t \in Thing : Joins(a, t)
  <2> DEFINE t == CHOOSE u \in Thing : Joins(a, u)
  <2>1. t \in Thing /\ Joins(a, t)
    BY <1>1
  <2>2. Joined(a) = Content(t, "joined")
    BY <1>1 DEF Joined
  <2> HIDE DEF t
  <2>3. /\ {"joined", "raw"} \subseteq DOMAIN Sizes[t]
        /\ Sizes[t]["joined"] = Sizes[t]["raw"] /\ Sizes[t]["raw"] \in Nat
        /\ a = Content(t, "raw")
    BY <2>1, SizesAssumption DEF Joins
  <2>4. Len(Joined(a)) = Len(a)
    BY <2>2, <2>3 DEF Content
  <2>5. ASSUME NEW u \in Thing PROVE ~Joins(Joined(a), u)
    <3> SUFFICES ASSUME Joins(Joined(a), u) PROVE FALSE
      OBVIOUS
    <3>1. "raw" \in DOMAIN Sizes[u] /\ Content(t, "joined") = Content(u, "raw")
      BY <2>2, SizesAssumption DEF Joins
    <3>2. "joined" \in DOMAIN Sizes[t]
      BY <2>3
    <3>3. "joined" = "raw"
      BY <2>1, <3>1, <3>2, ContentsApart
    <3> QED
      BY <3>3
  <2>6. Joined(Joined(a)) = Joined(a)
    BY <2>5 DEF Joined
  <2>7. ASSUME NEW u \in Thing, IsThing(a, u) PROVE IsThing(Joined(a), u)
    <3>1. PICK g \in DOMAIN Sizes[u] : Content(t, "raw") = Content(u, g)
      BY <2>3, <2>7 DEF IsThing
    <3>2. "raw" \in DOMAIN Sizes[t]
      BY <2>3
    <3>3. u = t
      BY <2>1, <3>1, <3>2, ContentsApart
    <3> QED
      BY <2>2, <2>3, <3>3 DEF IsThing
  <2> QED
    BY <2>4, <2>6, <2>7 DEF Grows
<1>2. CASE ~\E t \in Thing : Joins(a, t)
  <2>1. Joined(a) = a
    BY <1>2 DEF Joined
  <2> QED
    BY <2>1
<1> QED
  BY <1>1, <1>2

\* What is as it was made is made so again.
LEMMA MadeAgain ==
  ASSUME NEW c, NEW f, NEW g, NEW h, RanAs(c, f, g), RanAs(c, g, h)
  PROVE  g = h
<1>1. KeepsFile(f, g) /\ KeepsFile(g, h) /\ KeepsFile(f, f)
  BY KeepsItself DEF RanAs, KeepsFile
<1>2. ASSUME NEW k \in DOMAIN Directory(f) PROVE Data(g, k) = Data(h, k)
  <2>1. /\ Alike(Data(g, k), Data(f, k)) /\ k \in DOMAIN Directory(g)
        /\ Moves(c, {Aim(c)}, g, k) <=> Moves(c, {Aim(c)}, f, k)
        /\ Makes(c, f, k, Data(g, k)) /\ Makes(c, g, k, Data(h, k))
    BY <1>1, MovesKept DEF KeepsFile, RanAs
  <2>2. /\ Stacking(c, g, k) <=> Stacking(c, f, k)
        /\ Leveled(c, g, k) <=> Leveled(c, f, k)
    <3>1. k \in Int /\ k + 1 \in Int
      BY WordsTyped DEF Directory, NumEntries
    <3> QED
      BY <1>1, <3>1, LevelsKept DEF KeepsFile, Stacking, Leveled, Packing
  <2>3. CASE Garbles(c, f, k)
    <3>1. PICK t \in Overflowed :
            IsThing(Data(f, k), t) /\ Data(g, k) = Content(t, "garbled")
      BY <2>1, <2>3 DEF Makes
    <3>2. \A u \in Thing : ~IsThing(Data(g, k), u)
      BY <3>1, GarbledIsNone
    <3>3. ~Garbles(c, g, k) /\ ~Moves(c, {Aim(c)}, g, k)
      BY <3>2, ThingsAssumption DEF Garbles, IsOverflowed, Moves, Formed
    <3> QED
      BY <2>1, <3>3 DEF Makes
  <2>4. CASE ~Garbles(c, f, k) /\ ~Moves(c, {Aim(c)}, f, k)
    BY <2>1, <2>2, <2>4 DEF Makes, Garbles
  <2>5. CASE ~Garbles(c, f, k) /\ Moves(c, {Aim(c)}, f, k)
    <3>1. ~Garbles(c, g, k)
      BY <2>1, <2>2, <2>5, ThingsAssumption DEF Garbles, IsOverflowed, Alike
    <3>2. CASE ~Drops(c, f, k)
      <4>1. Aimed(c, Data(f, k), Data(g, k))
        BY <2>1, <2>5, <3>2 DEF Makes
      <4>2. ~Drops(c, g, k)
        BY <2>2, <3>2, <4>1, SmallIsSmall DEF Drops
      <4> QED
        BY <2>1, <2>5, <3>1, <4>1, <4>2, AimedOnce DEF Makes
    <3>3. CASE Drops(c, f, k)
      <4>1. Data(g, k) = IF Stacking(c, f, k) THEN Data(f, k) ELSE Joined(Data(f, k))
        BY <2>1, <2>5, <3>3 DEF Makes
      <4>2. Drops(c, g, k)
        BY <2>2, <3>3, <4>1, JoinedOnce DEF Drops
      <4>3. Data(h, k) = IF Stacking(c, f, k) THEN Data(g, k) ELSE Joined(Data(g, k))
        BY <2>1, <2>2, <2>5, <3>1, <4>2 DEF Makes
      <4> QED
        BY <4>1, <4>3, JoinedOnce
    <3> QED
      BY <3>2, <3>3
  <2> QED
    BY <2>3, <2>4, <2>5
<1> QED
  BY <1>1, <1>2, SameMade

\* What no command line recodes or garbles is as it was at first.
Anyhow == [allowpack |-> TRUE, allowstack |-> TRUE, allowsquash |-> TRUE]
Settled(f, g) ==
  \A k \in DOMAIN Directory(f) :
    \/ Moves(Anyhow, {"small", "plain"}, f, k)
    \/ IsOverflowed(Data(f, k))
    \/ Data(g, k) = Data(f, k)

LEMMA SettledOn ==
  ASSUME NEW c, NEW d, NEW f, NEW g, KeepsFile(d, f), Settled(d, f), RanAs(c, f, g)
  PROVE  Settled(d, g)
<1> SUFFICES ASSUME NEW k \in DOMAIN Directory(d), ~IsOverflowed(Data(d, k)),
                    ~Moves(Anyhow, {"small", "plain"}, d, k)
             PROVE  Data(g, k) = Data(d, k)
  BY DEF Settled
<1>1. ~Moves(Anyhow, {"small", "plain"}, f, k) /\ k \in DOMAIN Directory(f)
  BY MovesKept DEF KeepsFile
<1>2. Full(Anyhow) /\ {Aim(c)} \subseteq {"small", "plain"}
  BY DEF Full, Anyhow, Aim
<1>3. ~Moves(c, {Aim(c)}, f, k)
  BY <1>1, <1>2, MovesMore
<1>4. Data(f, k) = Data(d, k)
  BY DEF Settled
<1>5. ~Garbles(c, f, k)
  BY <1>4 DEF Garbles
<1> QED
  BY <1>1, <1>3, <1>4, <1>5 DEF RanAs, Makes

\* A thing that can go back and forth can be recoded with each command line.
LEMMA MovesEither ==
  ASSUME NEW c, Full(c), NEW f, NEW k \in DOMAIN Directory(f),
         \A t \in Thing : HasThing(f, t) => Docile(t),
         Moves(Anyhow, {"small", "plain"}, f, k)
  PROVE  Moves(c, {Aim(c)}, f, k)
<1>1. ASSUME NEW j \in DOMAIN Directory(f), Formed(Data(f, j), {"small", "plain"})
      PROVE  Formed(Data(f, j), {Aim(c)})
  <2>1. PICK t \in Thing \ Overflowed : IsThing(Data(f, j), t)
                           /\ {"small", "plain"} \cap DOMAIN Sizes[t] # {}
    BY <1>1 DEF Formed
  <2>2. Docile(t)
    BY <2>1 DEF HasThing
  <2>3. Aim(c) \in DOMAIN Sizes[t]
    BY <2>1, <2>2 DEF Docile, Aim
  <2> QED
    BY <2>1, <2>3 DEF Formed
<1>2. /\ LevelAt(f, k) => k - 1 \in DOMAIN Directory(f)
      /\ LevelAt(f, k + 1) => k + 1 \in DOMAIN Directory(f)
  <2>1. \A n \in Nat : \A i \in Int : i \in (1 .. n) \ {1} => i - 1 \in 1 .. n
    OBVIOUS
  <2>2. DOMAIN Directory(f) = 1 .. NumEntries(f) /\ NumEntries(f) \in Nat
    BY WordsTyped DEF Directory, NumEntries
  <2>3. k \in Int
    BY <2>2
  <2> QED
    BY <2>1, <2>2, <2>3 DEF LevelAt
<1> QED
  BY <1>1, <1>2 DEF Moves, Full, Packing, Stacking

\* Things that are never smaller than small ones, and that do not overflow, are
\* recoded as they should be.
LEMMA DocileThing ==
  ASSUME NEW c, NEW a, NEW b, Alike(a, b), \A t \in Thing : IsThing(b, t) => Docile(t)
  PROVE  ~IsOverflowed(a) /\ ~IsOverflowed(b) /\ ~Grows(c, a)
<1>1. \A t \in Thing : IsThing(a, t) => Docile(t)
  BY DEF Alike
<1>2. ~IsOverflowed(a) /\ ~IsOverflowed(b)
  BY <1>1, ThingsAssumption DEF IsOverflowed, Docile
<1>3. ASSUME NEW t \in Thing, IsThing(a, t), "small" \in DOMAIN Sizes[t]
      PROVE  ~(Sizes[t].small > Len(a))
  <2>1. PICK f \in DOMAIN Sizes[t] : a = Content(t, f)
    BY <1>3 DEF IsThing
  <2>2. Sizes[t][f] \in Nat /\ Sizes[t]["small"] \in Nat
    BY <1>3, <2>1, SizesAssumption
  <2>3. Len(a) = Sizes[t][f]
    BY <2>1, <2>2 DEF Content
  <2>4. Sizes[t]["small"] <= Sizes[t][f]
    BY <1>1, <1>3, <2>1 DEF Docile
  <2> QED
    BY <2>2, <2>3, <2>4
<1>4. ~Grows(c, a)
  BY <1>3 DEF Grows
<1> QED
  BY <1>2, <1>4

\* Whatever has come between two runs, if the things of the file can go back and
\* forth the second makes what the first has made.
LEMMA MadeAlike ==
  ASSUME NEW c, Full(c), NEW d, NEW e, NEW f, NEW g, NEW h,
         KeepsFile(f, d), KeepsFile(f, e), Settled(f, d), Settled(f, e),
         \A t \in Thing : HasThing(f, t) => Docile(t),
         RanAs(c, d, g), RanAs(c, e, h)
  PROVE  g = h
<1>1. ASSUME NEW k \in DOMAIN Directory(f) PROVE Data(g, k) = Data(h, k)
  <2>1. /\ k \in DOMAIN Directory(d) /\ k \in DOMAIN Directory(e)
        /\ Alike(Data(d, k), Data(f, k)) /\ Alike(Data(e, k), Data(f, k))
    BY DEF KeepsFile
  <2>2. Makes(c, d, k, Data(g, k)) /\ Makes(c, e, k, Data(h, k))
    BY <2>1 DEF RanAs
  <2>3. /\ Moves(c, {Aim(c)}, d, k) <=> Moves(c, {Aim(c)}, f, k)
        /\ Moves(c, {Aim(c)}, e, k) <=> Moves(c, {Aim(c)}, f, k)
    BY MovesKept
  <2>4. \A t \in Thing : IsThing(Data(f, k), t) => Docile(t)
    BY DEF HasThing
  <2>5. /\ ~Garbles(c, d, k) /\ ~Garbles(c, e, k) /\ ~IsOverflowed(Data(f, k))
        /\ ~Drops(c, d, k) /\ ~Drops(c, e, k)
    BY <2>1, <2>4, DocileThing DEF Garbles, Drops
  <2>6. CASE Moves(c, {Aim(c)}, f, k)
    <3>1. Aimed(c, Data(d, k), Data(g, k)) /\ Aimed(c, Data(e, k), Data(h, k))
      BY <2>2, <2>3, <2>5, <2>6 DEF Makes
    <3>2. Aimed(c, Data(f, k), Data(g, k)) /\ Aimed(c, Data(f, k), Data(h, k))
      BY <2>1, <3>1 DEF Aimed, Alike
    <3>3. Alike(Data(f, k), Data(f, k))
      BY DEF Alike
    <3> QED
      BY <3>2, <3>3, AimedOnce
  <2>7. CASE ~Moves(c, {Aim(c)}, f, k)
    <3>1. ~Moves(Anyhow, {"small", "plain"}, f, k)
      BY <2>7, MovesEither
    <3>2. Data(d, k) = Data(f, k) /\ Data(e, k) = Data(f, k)
      BY <2>5, <3>1 DEF Settled
    <3> QED
      BY <2>2, <2>3, <2>5, <2>7, <3>2 DEF Makes
  <2> QED
    BY <2>6, <2>7
<1> QED
  BY <1>1, SameMade

-----------------------------------------------------------------------------
(* What the first pass makes of each lump, and where it goes *)

\* Only the levels of consoles are in another format, and those are not packed.
NoneOfConsoles == Packs => \A k \in DOMAIN entries : ~IsForeign(OldData(k))

MadeRight == \A k \in DOMAIN entries : GoneOver(k) => Makes(cmd, old, k, NewData(k))

\* The lumps that are written, of those before one and of those gone over.
WrittenBefore(k) == {j \in DOMAIN entries : ~Skipped(cmd, old, j) /\ j < k}
WrittenNow == {k \in DOMAIN entries : ~Skipped(cmd, old, k) /\ GoneOver(k)}
PlacedRight(k) ==
  IF Skipped(cmd, old, k) THEN entries[k].offset = 0
  ELSE FreeAt(entries, WrittenBefore(k), entries[k].offset)
LaidRight ==
  /\ \A k \in DOMAIN entries : GoneOver(k) => PlacedRight(k)
  /\ FreeAt(entries, WrittenNow, Tell(new))
FirstMade == pc = "lumps" => (NoneOfConsoles => MadeRight) /\ LaidRight

\* What is done with a lump, in terms of the old file.
LEMMA MethodsUsed ==
  ASSUME PassInv, pc = "lumps", Opened, NEW k \in DOMAIN entries
  PROVE  /\ Target = Aim(cmd) /\ (Packs <=> Packing(cmd, old))
         /\ DOMAIN Directory(old) = DOMAIN entries
         /\ entries \in Seq(Entry) /\ DOMAIN entries = 1 .. Len(entries)
         /\ Len(entries) \in Nat /\ k \in Nat /\ k - 1 \in Int
         /\ entries[k].name = Directory(old)[k].name /\ OldData(k) = Data(old, k)
         /\ IsSidedefs(k) <=> LevelAt(old, k)
         /\ IsSidedefs(k + 1) <=> LevelAt(old, k + 1)
         /\ Leveled(cmd, old, k) <=> Packed(k) \/ Deferred(k)
         /\ Stacking(cmd, old, k) <=> Stacked(k)
         /\ (\A name \in NoPicture : ~HasName(k, name)) <=> Pictured(old, k)
<1>1. /\ entries \in Seq(Entry) /\ DOMAIN entries = 1 .. Len(entries) /\ Len(entries) \in Nat
  BY DEF PassInv, TypeOK
<1>2. /\ DOMAIN Directory(old) = DOMAIN entries
      /\ \A j \in DOMAIN entries : entries[j].name = Directory(old)[j].name
  BY <1>1 DEF PassInv, FirstPass, Directory
<1>3. Target = Aim(cmd) /\ (Packs <=> Packing(cmd, old))
  BY DEF Target, Compresses, Aim, Packs, Packing, Opened
<1>4. ASSUME NEW i \in Int PROVE IsSidedefs(i) <=> LevelAt(old, i)
  <2>1. i \in DOMAIN entries \ {1} => i - 1 \in DOMAIN entries
    BY <1>1
  <2> QED
    BY <1>2, <2>1 DEF IsSidedefs, LevelAt, HasName
<1>5. k \in Nat /\ k - 1 \in Int /\ k + 1 \in Int /\ k \in Int
  BY <1>1
<1>6. /\ IsSidedefs(k) <=> LevelAt(old, k)
      /\ IsSidedefs(k + 1) <=> LevelAt(old, k + 1)
  BY <1>4, <1>5
<1>7. Leveled(cmd, old, k) <=> Packed(k) \/ Deferred(k)
  BY <1>3, <1>6 DEF Leveled, Packed, Deferred
<1>8. /\ Stacking(cmd, old, k) <=> Stacked(k)
      /\ (\A name \in NoPicture : ~HasName(k, name)) <=> Pictured(old, k)
  BY <1>2 DEF Stacking, Stacked, Pictured, HasName
<1>9. OldData(k) = Data(old, k)
  BY DEF OldData, Was, Data
<1> QED
  BY <1>1, <1>2, <1>3, <1>5, <1>6, <1>7, <1>8, <1>9

\* A codec makes what is asked for, or leaves the lump as it is.
LEMMA RecodedAims ==
  ASSUME Target = Aim(cmd), NEW data
  PROVE  /\ Recodes(data) <=> Formed(data, {Aim(cmd)})
         /\ Recodes(data) => Aimed(cmd, data, Recoded(data))
         /\ ~Recodes(data) => Recoded(data) = data
<1>1. Recodes(data) <=> Formed(data, {Aim(cmd)})
  <2>1. \A t \in Thing : Aim(cmd) \in DOMAIN Sizes[t] => t \notin Overflowed
    BY MovableThing DEF Aim
  <2>2. \A t \in Thing : {Aim(cmd)} \cap DOMAIN Sizes[t] # {} <=> Aim(cmd) \in DOMAIN Sizes[t]
    OBVIOUS
  <2> QED
    BY <2>1, <2>2 DEF Recodes, RecodedAs, Formed
<1>2. ASSUME Recodes(data) PROVE Aimed(cmd, data, Recoded(data))
  <2> DEFINE t == CHOOSE u \in Thing : RecodedAs(data, u)
  <2>1. t \in Thing /\ RecodedAs(data, t)
    BY <1>2 DEF Recodes
  <2>2. Recoded(data) = Content(t, Target)
    BY <1>2 DEF Recoded
  <2> HIDE DEF t
  <2> QED
    BY <2>1, <2>2 DEF RecodedAs, Aimed
<1> QED
  BY <1>1, <1>2 DEF Recoded

\* A codec gives up when what it has made is longer.
LEMMA GivenUpGrows ==
  ASSUME Target = Aim(cmd), cmd \in Command, NEW data \in Seq(Word)
  PROVE  /\ GivenUp(data) <=> Recodes(data) /\ Grows(cmd, data)
         /\ Compresses <=> cmd.op = "compress"
         /\ ~Compresses <=> cmd.op = "decompress"
<1>1. (Compresses <=> cmd.op = "compress") /\ (~Compresses <=> cmd.op = "decompress")
  BY DEF Compresses, Command
<1>2. ASSUME GivenUp(data) PROVE Recodes(data) /\ Grows(cmd, data)
  <2>1. cmd.op = "compress" /\ Len(Recoded(data)) > Len(data)
    BY <1>1, <1>2 DEF GivenUp
  <2>2. Recodes(data)
    BY <2>1 DEF Recoded
  <2>3. PICK t \in Thing : /\ IsThing(data, t) /\ "small" \in DOMAIN Sizes[t]
                           /\ Recoded(data) = Content(t, "small")
    BY <2>1, <2>2, RecodedAims DEF Aimed, Aim
  <2>4. Len(Recoded(data)) = Sizes[t]["small"]
    BY <2>3, SizesAssumption DEF Content
  <2> QED
    BY <2>1, <2>2, <2>3, <2>4 DEF Grows
<1>3. ASSUME Recodes(data), Grows(cmd, data) PROVE GivenUp(data)
  <2>1. cmd.op = "compress"
    BY <1>3 DEF Grows
  <2>2. PICK t \in Thing : /\ IsThing(data, t) /\ "small" \in DOMAIN Sizes[t]
                           /\ Recoded(data) = Content(t, "small")
    BY <1>3, <2>1, RecodedAims DEF Aimed, Aim
  <2>3. Len(Recoded(data)) = Sizes[t]["small"]
    BY <2>2, SizesAssumption DEF Content
  <2>4. PICK u \in Thing : /\ IsThing(data, u) /\ "small" \in DOMAIN Sizes[u]
                           /\ Sizes[u].small > Len(data)
    BY <1>3 DEF Grows
  <2>5. t = u
    BY <2>2, <2>4, ContentsApart DEF IsThing
  <2> QED
    BY <1>1, <2>1, <2>3, <2>4, <2>5 DEF GivenUp
<1> QED
  BY <1>1, <1>2, <1>3

\* What has been written stays as it is.
LEMMA GoneStays ==
  ASSUME PassInv, MoreLumps, new' \in Seq(Word), Extends(new, new'),
         NEW k \in DOMAIN entries, GoneOver(k), entries'[k] = entries[k]
  PROVE  NewData(k)' = NewData(k)
<1>1. entries[k] \in Entry /\ new \in Seq(Word)
  BY Untouched
<1>2. entries[k].offset \in Nat /\ entries[k].length \in Nat
  BY <1>1 DEF Entry
<1>3. InFile(new, entries[k])
  BY Untouched DEF GoneOver, Kept
<1> QED
  BY <1>1, <1>2, <1>3, ReadsOn DEF NewData

\* The next place is behind what has just been written.
LEMMA TellNext ==
  ASSUME NEW f \in Seq(Word), HeaderRoom(f), NEW data \in Seq(Word),
         NEW g, g = WithLump(f, data)
  PROVE  Tell(g) = Tell(f) + Len(data) /\ Tell(f) \in Nat /\ Tell(f) >= 3
<1>1. /\ Len(f) \in Nat /\ Len(data) \in Nat /\ Tell(f) \in Nat
      /\ Len(g) = Tell(f) + Len(data)
  <2>1. Len(f) \in Nat /\ Len(data) \in Nat
    OBVIOUS
  <2>2. Tell(f) \in Nat /\ Len(WithLump(f, data)) = Tell(f) + Len(data)
    BY LumpAppended
  <2> QED
    BY <2>1, <2>2
<1>2. Tell(f) >= 3
  BY <1>1 DEF Tell, WAD_HEADER_SIZE
<1> QED
  BY <1>1, <1>2 DEF Tell, WAD_HEADER_SIZE

\* A turn in which one lump is written, and what of it.
LEMMA OneTurn ==
  ASSUME PassInv, pc = "lumps", Opened, Stack \/ Squash \/ Store
  PROVE  \E data \in Seq(Word) :
           /\ Makes(cmd, old, count, data)
           /\ ~Skipped(cmd, old, count) /\ ~Packed(count) /\ ~Deferred(count)
           /\ MoreLumps /\ count \in DOMAIN entries
           /\ new' = WithLump(new, data) /\ new' \in Seq(Word) /\ Extends(new, new')
           /\ CacheLump(new', entries'[count]) = data
           /\ Tell(new) \in Nat /\ Tell(new') = Tell(new) + Len(data)
           /\ DOMAIN entries' = DOMAIN entries
           /\ entries'[count].offset = Tell(new) /\ entries'[count].length = Len(data)
           /\ \A k \in DOMAIN entries : entries'[k].name = entries[k].name
           /\ \A k \in DOMAIN entries \ {count} : entries'[k] = entries[k]
<1>1. PICK data :
        /\ WriteWadLump(data)
        /\ \/ Stacked(count) /\ cmd.allowstack /\ data = Restacked(Lump(count))
           \/ /\ ~Stacked(count) /\ Squashed(count)
              /\ data = Resquashed(Lump(count))
           \/ Stored(count) /\ ~Empty(count) /\ data = Lump(count)
  <2>1. CASE Stack
    BY <2>1 DEF Stack, Stacked
  <2>2. CASE Squash
    BY <2>2 DEF Squash
  <2>3. CASE Store
    BY <2>3 DEF Store
  <2> QED
    BY <2>1, <2>2, <2>3
<1>2. /\ MoreLumps /\ ~Packed(count) /\ ~Deferred(count) /\ ~CannotAdd /\ ~Empty(count)
  BY DEF Stack, Squash, Store, Stored, Empty
<1>3. /\ InFile(old, entries[count]) /\ old \in Seq(Word)
      /\ entries \in Seq(Entry) /\ count \in 1 .. Len(entries) /\ count \in DOMAIN entries
      /\ entries[count] \in Entry /\ entries[count] = Was(count)
      /\ Lump(count) = OldData(count) /\ new \in Seq(Word) /\ HeaderRoom(new)
      /\ entries[count].offset \in Nat /\ entries[count].length \in Nat
  <2>1. InFile(old, entries[count]) /\ old \in Seq(Word) /\ count \in DOMAIN entries
    BY <1>2 DEF CannotAdd, PassInv, TypeOK, MoreLumps
  <2>2. /\ entries[count] \in Entry /\ entries \in Seq(Entry)
        /\ count \in 1 .. Len(entries) /\ new \in Seq(Word) /\ HeaderRoom(new)
        /\ entries[count] = Was(count) /\ Lump(count) = OldData(count)
    BY <1>2, Untouched DEF OldData
  <2> QED
    BY <2>1, <2>2 DEF Entry
<1>4. data \in Seq(Word)
  <2>1. Lump(count) \in Seq(Word)
    BY <1>3, LumpTyped DEF Lump
  <2> QED
    BY <1>1, <2>1, RestackedSame, ResquashedSame
<1>5. /\ new' = WithLump(new, data) /\ DOMAIN entries' = DOMAIN entries
      /\ entries'[count].offset = Tell(new) /\ entries'[count].length = Len(data)
      /\ \A k \in DOMAIN entries : entries'[k].name = entries[k].name
      /\ \A k \in DOMAIN entries \ {count} : entries'[k] = entries[k]
  <2>1. /\ new' = WithLump(new, data) /\ DOMAIN entries' = DOMAIN entries
        /\ entries'[count] = Written(entries[count], new, data)
        /\ \A k \in DOMAIN entries \ {count} : entries'[k] = entries[k]
    BY <1>1, <1>3 DEF WriteWadLump
  <2>2. /\ entries'[count].offset = Tell(new) /\ entries'[count].length = Len(data)
        /\ entries'[count].name = entries[count].name
    BY <1>3, <2>1 DEF Written, Entry
  <2> QED
    BY <2>1, <2>2
<1>6. /\ new' \in Seq(Word) /\ Extends(new, new') /\ CacheLump(new', entries'[count]) = data
      /\ Tell(new) \in Nat
  BY <1>3, <1>4, <1>5, LumpAppended, LumpExtends, LumpReads
<1>7. Tell(new') = Tell(new) + Len(data)
  BY <1>3, <1>4, <1>5, TellNext
<1>8. /\ Target = Aim(cmd) /\ OldData(count) = Data(old, count)
      /\ ~Leveled(cmd, old, count)
      /\ Stacking(cmd, old, count) <=> Stacked(count)
      /\ (\A name \in NoPicture : ~HasName(count, name)) <=> Pictured(old, count)
  BY <1>2, <1>3, MethodsUsed
<1>9. /\ cmd \in Command /\ Lump(count) \in Seq(Word) /\ Lump(count) = Data(old, count)
      /\ Squashed(count) <=> /\ cmd.allowsquash /\ Pictured(old, count)
                            /\ \E t \in Graphical : IsThing(Data(old, count), t)
  <2>1. cmd \in Command /\ Lump(count) \in Seq(Word)
    BY <1>3, LumpTyped DEF Lump, PassInv, TypeOK
  <2>2. Lump(count) = Data(old, count)
    BY <1>3, <1>8
  <2> QED
    BY <1>3, <1>8, <2>1, <2>2 DEF Squashed, IsGraphic
<1>10. ~Skipped(cmd, old, count)
  <2>1. CASE Stacked(count)
    BY <1>8, <2>1 DEF Skipped
  <2>2. CASE Squashed(count)
    <3>1. PICK t \in Graphical : IsThing(Data(old, count), t)
      BY <1>9, <2>2
    <3>2. Data(old, count) # <<>>
      BY <3>1, ContentNotEmpty, ThingsAssumption DEF IsThing
    <3> QED
      BY <3>2 DEF Skipped
  <2>3. CASE Stored(count) /\ ~Empty(count)
    <3>1. entries[count].length # 0
      BY <2>3 DEF Empty
    <3>2. Len(OldData(count)) # 0
      BY <1>3, <3>1, LumpTyped DEF OldData
    <3>3. OldData(count) # <<>>
      BY <3>2
    <3> QED
      BY <1>8, <3>3 DEF Skipped
  <2> QED
    BY <1>1, <2>1, <2>2, <2>3
<1>11. /\ Recodes(Lump(count)) <=> Formed(Data(old, count), {Aim(cmd)})
       /\ Recodes(Lump(count)) => Aimed(cmd, Data(old, count), Recoded(Lump(count)))
       /\ ~Recodes(Lump(count)) => Recoded(Lump(count)) = Lump(count)
       /\ GivenUp(Lump(count)) <=> Recodes(Lump(count)) /\ Drops(cmd, old, count)
       /\ ~Compresses <=> cmd.op = "decompress"
  BY <1>8, <1>9, RecodedAims, GivenUpGrows DEF Drops
<1>12. Makes(cmd, old, count, data)
  <2>1. CASE Stacked(count) /\ cmd.allowstack /\ data = Restacked(Lump(count))
    <3>1. Moves(cmd, {Aim(cmd)}, old, count) <=> Recodes(Lump(count))
      BY <1>8, <1>11, <2>1 DEF Moves
    <3>2. Garbles(cmd, old, count) <=> IsOverflowed(Lump(count)) /\ ~Compresses
      BY <1>8, <1>9, <1>11, <2>1 DEF Garbles
    <3>3. CASE Garbles(cmd, old, count)
      <4> DEFINE t == CHOOSE u \in Overflowed : IsThing(Lump(count), u)
      <4>1. t \in Overflowed /\ IsThing(Lump(count), t)
        BY <3>2, <3>3 DEF IsOverflowed
      <4>2. data = Content(t, "garbled")
        BY <2>1, <3>2, <3>3 DEF Restacked
      <4> HIDE DEF t
      <4> QED
        BY <1>9, <3>3, <4>1, <4>2 DEF Makes
    <3>4. CASE ~Garbles(cmd, old, count)
      <4>1. data = IF GivenUp(Lump(count)) THEN Lump(count) ELSE Recoded(Lump(count))
        BY <2>1, <3>2, <3>4 DEF Restacked
      <4> QED
        BY <1>8, <1>9, <1>11, <2>1, <3>1, <3>4, <4>1 DEF Makes
    <3> QED
      BY <3>3, <3>4
  <2>2. CASE ~Stacked(count) /\ Squashed(count) /\ data = Resquashed(Lump(count))
    <3>1. Moves(cmd, {Aim(cmd)}, old, count) <=> Recodes(Lump(count))
      BY <1>9, <1>11, <2>2 DEF Moves
    <3>2. ~Garbles(cmd, old, count) /\ ~Stacking(cmd, old, count)
      BY <1>8, <2>2 DEF Garbles
    <3>3. data = IF GivenUp(Lump(count)) THEN Joined(Lump(count)) ELSE Recoded(Lump(count))
      BY <2>2 DEF Resquashed
    <3> QED
      BY <1>9, <1>11, <3>1, <3>2, <3>3 DEF Makes
  <2>3. CASE Stored(count) /\ data = Lump(count)
    <3>1. ~Stacking(cmd, old, count) /\ ~Squashed(count)
      BY <1>8, <2>3 DEF Stored
    <3>2. ~Moves(cmd, {Aim(cmd)}, old, count) /\ ~Garbles(cmd, old, count)
      BY <1>8, <1>9, <3>1 DEF Moves, Leveled, Garbles
    <3> QED
      BY <1>9, <2>3, <3>2 DEF Makes
  <2> QED
    BY <1>1, <2>1, <2>2, <2>3
<1> QED
  BY <1>2, <1>3, <1>4, <1>5, <1>6, <1>7, <1>10, <1>12

\* A turn in which the two lumps of a level are written.
LEMMA TwoTurn ==
  ASSUME PassInv, pc = "lumps", Opened, Pack
  PROVE  \E ld, sd \in Seq(Word), then \in Seq(Word) :
           /\ NoneOfConsoles => /\ Makes(cmd, old, count - 1, ld)
                                /\ Makes(cmd, old, count, sd)
           /\ ~Skipped(cmd, old, count) /\ ~Skipped(cmd, old, count - 1)
           /\ Packed(count) /\ MoreLumps
           /\ count \in DOMAIN entries /\ count - 1 \in DOMAIN entries
           /\ new' \in Seq(Word) /\ Extends(new, new')
           /\ CacheLump(new', entries'[count]) = sd
           /\ CacheLump(new', entries'[count - 1]) = ld
           /\ Tell(new) \in Nat /\ Tell(then) = Tell(new) + Len(ld)
           /\ Tell(new') = Tell(then) + Len(sd)
           /\ DOMAIN entries' = DOMAIN entries
           /\ entries'[count - 1].offset = Tell(new) /\ entries'[count - 1].length = Len(ld)
           /\ entries'[count].offset = Tell(then) /\ entries'[count].length = Len(sd)
           /\ \A k \in DOMAIN entries : entries'[k].name = entries[k].name
           /\ \A k \in DOMAIN entries \ {count - 1, count} : entries'[k] = entries[k]
<1> DEFINE ld == Level(count)[1]
           sd == Level(count)[2]
           then == WithLump(new, ld)
<1>1. /\ MoreLumps /\ Packed(count) /\ ~CannotAdd
      /\ entries' = [entries EXCEPT ![count - 1] = Written(@, new, ld),
                                    ![count] = Written(@, then, sd)]
      /\ new' = WithLump(then, sd)
  BY DEF Pack
<1>2. /\ entries \in Seq(Entry) /\ count \in 1 .. Len(entries)
      /\ count - 1 \in 1 .. Len(entries) /\ DOMAIN entries = 1 .. Len(entries)
      /\ count - 1 \in DOMAIN entries /\ count \in DOMAIN entries
      /\ entries[count] \in Entry /\ entries[count - 1] \in Entry
      /\ new \in Seq(Word) /\ HeaderRoom(new) /\ old \in Seq(Word)
      /\ InFile(old, entries[count]) /\ InFile(old, entries[count - 1])
  <2>1. /\ entries \in Seq(Entry) /\ count \in 1 .. Len(entries)
        /\ new \in Seq(Word) /\ HeaderRoom(new) /\ old \in Seq(Word)
    BY <1>1, Untouched DEF PassInv, TypeOK
  <2>2. count # 1
    BY <1>1 DEF Packed, IsSidedefs
  <2> QED
    BY <1>1, <2>1, <2>2 DEF CannotAdd
<1>3. /\ count \in Nat /\ count - 1 \in Nat /\ ~Deferred(count) /\ Waits(count - 1)
      /\ (count - 1) + 1 = count
  <2>1. count \in Nat /\ count - 1 \in Nat /\ (count - 1) + 1 = count
    BY <1>2
  <2> QED
    BY <1>1, <2>1, NotBoth DEF Packed, Deferred, Waits
<1>4. /\ Lump(count) = OldData(count) /\ Lump(count - 1) = OldData(count - 1)
      /\ OldData(count) = Data(old, count) /\ OldData(count - 1) = Data(old, count - 1)
  BY <1>1, <1>2, <1>3, Untouched DEF OldData, Lump, Data, Was
<1>5. ld \in Seq(Word) /\ sd \in Seq(Word)
  <2>1. Lump(count) \in Seq(Word) /\ Lump(count - 1) \in Seq(Word)
    BY <1>2, LumpTyped DEF Lump, Entry
  <2> QED
    BY <1>1, <2>1, LevelSame DEF Packed
<1>6. /\ Target = Aim(cmd) /\ Packing(cmd, old) /\ LevelAt(old, count)
      /\ LevelAt(old, (count - 1) + 1) /\ Leveled(cmd, old, count)
      /\ Leveled(cmd, old, count - 1)
      /\ ~LevelAt(old, count + 1) /\ ~LevelAt(old, count - 1)
      /\ ~Stacking(cmd, old, count) /\ ~Stacking(cmd, old, count - 1)
      /\ ~Pictured(old, count) /\ ~Pictured(old, count - 1)
  <2>1. /\ Target = Aim(cmd) /\ Packing(cmd, old) /\ LevelAt(old, count)
        /\ Leveled(cmd, old, count)
    BY <1>1, <1>2, MethodsUsed DEF Packed
  <2>2. LevelAt(old, (count - 1) + 1) /\ Leveled(cmd, old, count - 1)
    BY <1>3, <2>1 DEF Leveled
  <2>3. /\ Directory(old)[count].name = NameWords("SIDEDEFS")
        /\ Directory(old)[count - 1].name = NameWords("LINEDEFS")
    BY <2>1 DEF LevelAt
  <2>4. ~LevelAt(old, count + 1) /\ ~LevelAt(old, count - 1)
    <3>1. (count + 1) - 1 = count
      BY <1>3
    <3> QED
      BY <2>3, <3>1, NamesApart DEF LevelAt
  <2>5. /\ ~Stacking(cmd, old, count) /\ ~Stacking(cmd, old, count - 1)
        /\ ~Pictured(old, count) /\ ~Pictured(old, count - 1)
    BY <2>3, NamesApart, NamesAssumption DEF Stacking, Pictured
  <2> QED
    BY <2>1, <2>2, <2>4, <2>5
<1>7. NoneOfConsoles => Makes(cmd, old, count - 1, ld) /\ Makes(cmd, old, count, sd)
  <2> SUFFICES ASSUME NoneOfConsoles
               PROVE  Makes(cmd, old, count - 1, ld) /\ Makes(cmd, old, count, sd)
    OBVIOUS
  <2> DEFINE a == Data(old, count - 1)
             b == Data(old, count)
  <2>1. ~IsForeign(b)
    BY <1>1, <1>2, <1>4 DEF NoneOfConsoles, Packed
  <2>2. /\ Moves(cmd, {Aim(cmd)}, old, count)
             <=> Formed(b, {Aim(cmd)}) /\ Formed(a, {Aim(cmd)})
        /\ Moves(cmd, {Aim(cmd)}, old, count - 1)
             <=> Formed(b, {Aim(cmd)}) /\ Formed(a, {Aim(cmd)})
    BY <1>3, <1>6 DEF Moves
  <2>3. IF Recodes(a) /\ Recodes(b) THEN ld = Recoded(a) /\ sd = Recoded(b)
        ELSE ld = a /\ sd = b
    BY <1>4, <2>1 DEF Level
  <2> HIDE DEF a, b, ld, sd
  <2>4. /\ Recodes(a) <=> Formed(a, {Aim(cmd)})
        /\ Recodes(b) <=> Formed(b, {Aim(cmd)})
        /\ Recodes(a) => Aimed(cmd, a, Recoded(a))
        /\ Recodes(b) => Aimed(cmd, b, Recoded(b))
    BY <1>6, RecodedAims
  <2>5. /\ ~Garbles(cmd, old, count) /\ ~Garbles(cmd, old, count - 1)
        /\ ~Drops(cmd, old, count) /\ ~Drops(cmd, old, count - 1)
    BY <1>6 DEF Garbles, Drops
  <2> QED
    BY <2>2, <2>3, <2>4, <2>5 DEF Makes, a, b
<1> HIDE DEF ld, sd
<1>8. then \in Seq(Word) /\ HeaderRoom(then)
  BY <1>2, <1>5, LumpAppended
<1>9. /\ DOMAIN entries' = DOMAIN entries
      /\ entries'[count - 1].offset = Tell(new) /\ entries'[count - 1].length = Len(ld)
      /\ entries'[count].offset = Tell(then) /\ entries'[count].length = Len(sd)
      /\ \A k \in DOMAIN entries : entries'[k].name = entries[k].name
      /\ \A k \in DOMAIN entries \ {count - 1, count} : entries'[k] = entries[k]
  <2> HIDE DEF then
  <2>1. /\ DOMAIN entries' = DOMAIN entries
        /\ entries'[count - 1] = Written(entries[count - 1], new, ld)
        /\ entries'[count] = Written(entries[count], then, sd)
        /\ \A k \in DOMAIN entries \ {count - 1, count} : entries'[k] = entries[k]
    BY <1>1, <1>2, <1>3
  <2> QED
    BY <1>2, <2>1, ZenonT(60) DEF Written, Entry
<1>10. /\ Extends(new, then) /\ Tell(then) = Tell(new) + Len(ld) /\ Tell(new) \in Nat
  BY <1>2, <1>5, TellNext, LumpExtends
<1>11. CacheLump(new', entries'[count]) = sd
  BY <1>1, <1>5, <1>8, <1>9, LumpReads
<1>12. CacheLump(new', entries'[count - 1]) = ld
  <2>1. InFile(then, entries'[count - 1]) /\ CacheLump(then, entries'[count - 1]) = ld
    BY <1>2, <1>5, <1>9, LumpReads
  <2>2. entries'[count - 1].offset \in Nat /\ entries'[count - 1].length \in Nat
    BY <1>2, <1>5, <1>9, LumpAppended
  <2> QED
    BY <1>1, <1>5, <1>8, <2>1, <2>2, LumpStays
<1> HIDE DEF then
<1>13. /\ new' \in Seq(Word) /\ Extends(then, new') /\ Tell(new') = Tell(then) + Len(sd)
  BY <1>1, <1>5, <1>8, TellNext, LumpExtends, LumpAppended
<1>14. Extends(new, new')
  <2>1. Len(new) \in Nat /\ Len(then) \in Nat /\ Len(new') \in Nat
    BY <1>2, <1>8, <1>13
  <2> QED
    BY <1>10, <1>13, <2>1 DEF Extends
<1>15. ~Skipped(cmd, old, count) /\ ~Skipped(cmd, old, count - 1)
  BY <1>6 DEF Skipped
<1> QED
  BY <1>1, <1>2, <1>5, <1>7, <1>8, <1>9, <1>10, <1>11, <1>12, <1>13, <1>14, <1>15

\* The place behind some lumps is the same as long as they are; that behind them
\* and one more is where that one ends.
LEMMA FreeStays ==
  ASSUME NEW dir, NEW other, NEW S, \A k \in S : other[k] = dir[k], NEW a, FreeAt(dir, S, a)
  PROVE  FreeAt(other, S, a)
BY DEF FreeAt

LEMMA FreeNext ==
  ASSUME NEW dir, NEW S, NEW m, NEW a \in Nat, NEW n \in Nat, FreeAt(dir, S, a),
         \A k \in S : End(dir[k]) \in Nat, dir[m].offset = a, dir[m].length = n
  PROVE  FreeAt(dir, S \cup {m}, a + n)
<1>1. End(dir[m]) = a + n
  BY DEF End
<1>2. a >= 3 /\ \A k \in S : a >= End(dir[k])
  BY DEF FreeAt
<1>3. \A k \in S \cup {m} : a + n >= End(dir[k])
  BY <1>1, <1>2
<1> QED
  BY <1>1, <1>2, <1>3 DEF FreeAt

LEMMA EndTyped ==
  ASSUME NEW dir \in Seq(Entry), NEW k \in DOMAIN dir
  PROVE  End(dir[k]) \in Nat
<1>1. dir[k] \in Entry
  OBVIOUS
<1> QED
  BY <1>1 DEF Entry, End

\* The lumps that have been written are those before this turn's, or before the
\* two of a level.
LEMMA WrittenSoFar ==
  ASSUME PassInv, MoreLumps
  PROVE  /\ ~Packed(count) => WrittenNow = WrittenBefore(count)
         /\ Packed(count) => WrittenNow = WrittenBefore(count - 1)
         /\ \A k \in DOMAIN entries : GoneOver(k) => WrittenBefore(k) \subseteq WrittenNow
<1>1. \A k \in DOMAIN entries :
         /\ k \in Nat /\ count \in Nat
         /\ Packed(count) => (GoneOver(k) <=> k < count - 1)
         /\ ~Packed(count) => (GoneOver(k) <=> k < count)
  BY GoneSoFar
<1>2. /\ ~Packed(count) => WrittenNow = WrittenBefore(count)
      /\ Packed(count) => WrittenNow = WrittenBefore(count - 1)
  BY <1>1 DEF WrittenNow, WrittenBefore
<1>3. ASSUME NEW k \in DOMAIN entries, GoneOver(k), NEW j \in WrittenBefore(k)
      PROVE  j \in WrittenNow
  <2>1. j \in DOMAIN entries /\ ~Skipped(cmd, old, j) /\ j < k
    BY <1>3 DEF WrittenBefore
  <2>2. /\ j \in Nat /\ k \in Nat /\ count \in Nat
        /\ Packed(count) => (GoneOver(j) <=> j < count - 1) /\ k < count - 1
        /\ ~Packed(count) => (GoneOver(j) <=> j < count) /\ k < count
    BY <1>1, <1>3, <2>1
  <2>3. GoneOver(j)
    BY <2>1, <2>2
  <2> QED
    BY <2>1, <2>3 DEF WrittenNow
<1> QED
  BY <1>2, <1>3

\* What a turn adds to what has been made and laid.
LEMMA TurnMakes ==
  ASSUME PassInv, MoreLumps, NoneOfConsoles => MadeRight, LaidRight,
         UNCHANGED <<pc, cmd, psx_format, old>>, new' \in Seq(Word), Extends(new, new'),
         DOMAIN entries' = DOMAIN entries,
         NEW W \in SUBSET DOMAIN entries,
         \A k \in DOMAIN entries : GoneOver(k)' <=> GoneOver(k) \/ k \in W,
         \A k \in DOMAIN entries \ W : entries'[k] = entries[k],
         \A k \in W : ~GoneOver(k) /\ PlacedRight(k)',
         NoneOfConsoles => \A k \in W : Makes(cmd, old, k, NewData(k)'),
         FreeAt(entries', WrittenNow', Tell(new'))
  PROVE  FirstMade'
<1>1. NoneOfConsoles' <=> NoneOfConsoles
  BY DEF NoneOfConsoles, Packs, OldData, Was
<1>2. ASSUME NEW k \in DOMAIN entries, GoneOver(k)
      PROVE  k \notin W /\ entries'[k] = entries[k] /\ NewData(k)' = NewData(k)
  BY <1>2, GoneStays
<1>3. NoneOfConsoles => MadeRight'
  <2> SUFFICES ASSUME NoneOfConsoles, NEW k \in DOMAIN entries, GoneOver(k)'
               PROVE  Makes(cmd, old, k, NewData(k)')
    BY DEF MadeRight
  <2>1. CASE k \in W
    BY <2>1
  <2>2. CASE GoneOver(k)
    BY <1>2, <2>2 DEF MadeRight
  <2> QED
    BY <2>1, <2>2
<1>4. ASSUME NEW k \in DOMAIN entries, GoneOver(k)' PROVE PlacedRight(k)'
  <2>1. CASE k \in W
    BY <2>1
  <2>2. CASE GoneOver(k)
    <3>1. PlacedRight(k) /\ entries'[k] = entries[k]
      BY <1>2, <2>2 DEF LaidRight
    <3>2. \A j \in WrittenBefore(k) : entries'[j] = entries[j]
      BY <1>2, <2>2, WrittenSoFar DEF WrittenNow
    <3>3. WrittenBefore(k)' = WrittenBefore(k)
      BY DEF WrittenBefore
    <3>4. CASE Skipped(cmd, old, k)
      BY <3>1, <3>4 DEF PlacedRight
    <3>5. CASE ~Skipped(cmd, old, k)
      <4>1. FreeAt(entries, WrittenBefore(k), entries[k].offset)
        BY <3>1, <3>5 DEF PlacedRight
      <4>2. FreeAt(entries', WrittenBefore(k), entries'[k].offset)
        BY <3>1, <3>2, <4>1, FreeStays
      <4> QED
        BY <3>3, <3>5, <4>2 DEF PlacedRight
    <3> QED
      BY <3>4, <3>5
  <2> QED
    BY <1>4, <2>1, <2>2
<1>5. LaidRight'
  BY <1>4 DEF LaidRight
<1> QED
  BY <1>1, <1>3, <1>5 DEF FirstMade

\* A turn in which one lump is written.
LEMMA OneMakes ==
  ASSUME PassInv, PassInv', Opened, NoneOfConsoles => MadeRight, LaidRight, pc = "lumps",
         Stack \/ Squash \/ Store, count' = count + 1,
         UNCHANGED <<pc, cmd, psx_format, old>>
  PROVE  FirstMade'
<1>1. PICK data \in Seq(Word) :
        /\ Makes(cmd, old, count, data)
        /\ ~Skipped(cmd, old, count) /\ ~Packed(count) /\ ~Deferred(count)
        /\ MoreLumps /\ count \in DOMAIN entries
        /\ new' \in Seq(Word) /\ Extends(new, new')
        /\ CacheLump(new', entries'[count]) = data
        /\ Tell(new) \in Nat /\ Tell(new') = Tell(new) + Len(data)
        /\ DOMAIN entries' = DOMAIN entries
        /\ entries'[count].offset = Tell(new) /\ entries'[count].length = Len(data)
        /\ \A k \in DOMAIN entries : entries'[k].name = entries[k].name
        /\ \A k \in DOMAIN entries \ {count} : entries'[k] = entries[k]
  BY OneTurn
<1>2. \A k \in DOMAIN entries : GoneOver(k)' <=> GoneOver(k) \/ k \in {count}
  BY <1>1, GoneNext
<1>3. ~GoneOver(count) /\ entries \in Seq(Entry) /\ count \in Nat
  BY <1>1, Untouched DEF GoneOver
<1>4. \A k \in WrittenNow : k \in DOMAIN entries \ {count} /\ entries'[k] = entries[k]
  BY <1>1, <1>3 DEF WrittenNow
<1>5. FreeAt(entries', WrittenNow, Tell(new))
  <2>1. FreeAt(entries, WrittenNow, Tell(new))
    BY DEF LaidRight
  <2> QED
    BY <1>4, <2>1, FreeStays
<1>6. ASSUME NEW k \in {count} PROVE PlacedRight(k)'
  <2>1. WrittenBefore(k)' = WrittenNow
    BY <1>1, WrittenSoFar DEF WrittenBefore
  <2>2. k = count /\ ~Skipped(cmd, old, k)' /\ entries'[k].offset = Tell(new)
    BY <1>1
  <2> QED
    BY <1>5, <2>1, <2>2 DEF PlacedRight
<1>7. FreeAt(entries', WrittenNow', Tell(new'))
  <2>1. WrittenNow' = WrittenNow \cup {count}
    BY <1>1, <1>2 DEF WrittenNow
  <2>2. \A k \in WrittenNow : End(entries'[k]) \in Nat
    BY <1>3, <1>4, EndTyped
  <2>3. FreeAt(entries', WrittenNow \cup {count}, Tell(new) + Len(data))
    BY <1>1, <1>5, <2>2, FreeNext
  <2> QED
    BY <1>1, <2>1, <2>3
<1>8. ASSUME NEW k \in {count}
      PROVE  k \in DOMAIN entries /\ ~GoneOver(k) /\ Makes(cmd, old, k, NewData(k)')
  <2>1. k = count /\ NewData(k)' = data
    BY <1>1 DEF NewData
  <2> QED
    BY <1>1, <1>3, <2>1
<1>9. PassInv /\ MoreLumps /\ {count} \in SUBSET DOMAIN entries
  BY <1>1
<1>10. \A k \in DOMAIN entries \ {count} : entries'[k] = entries[k]
  BY <1>1
<1>11. /\ new' \in Seq(Word) /\ Extends(new, new') /\ DOMAIN entries' = DOMAIN entries
       /\ UNCHANGED <<pc, cmd, psx_format, old>>
  BY <1>1
<1>12. /\ \A k \in {count} : ~GoneOver(k) /\ PlacedRight(k)'
       /\ NoneOfConsoles => \A k \in {count} : Makes(cmd, old, k, NewData(k)')
  BY <1>6, <1>8
<1> QED
  BY <1>2, <1>7, <1>9, <1>10, <1>11, <1>12, TurnMakes

\* A lump of no words is empty, and no thing is.
LEMMA EmptyLump ==
  ASSUME NEW f, NEW e, e.length = 0
  PROVE  CacheLump(f, e) = <<>>
<1>1. [i \in 1 .. 0 |-> f[e.offset + i]] = <<>>
  OBVIOUS
<1> QED
  BY <1>1 DEF CacheLump

LEMMA NoThingIsEmpty ==
  ASSUME NEW t \in Thing
  PROVE  ~IsThing(<<>>, t)
BY ContentNotEmpty DEF IsThing

\* A turn in which none is.
LEMMA NoneMakes ==
  ASSUME PassInv, PassInv', Opened, NoneOfConsoles => MadeRight, LaidRight, pc = "lumps",
         Defer \/ LeaveEmpty, count' = count + 1,
         UNCHANGED <<pc, cmd, psx_format, old>>
  PROVE  FirstMade'
<1>1. /\ MoreLumps /\ new' = new /\ new \in Seq(Word) /\ entries \in Seq(Entry)
      /\ count \in 1 .. Len(entries) /\ count \in DOMAIN entries /\ entries[count] \in Entry
      /\ entries[count] = Was(count) /\ count \in Nat /\ ~GoneOver(count)
  BY Untouched DEF Defer, LeaveEmpty, GoneOver
<1>2. Extends(new, new') /\ FreeAt(entries, WrittenNow, Tell(new))
  BY <1>1 DEF Extends, LaidRight
<1>3. CASE Defer
  <2>1. entries' = entries /\ Deferred(count) /\ DOMAIN entries' = DOMAIN entries
    BY <1>3 DEF Defer
  <2>2. \A k \in DOMAIN entries : GoneOver(k)' <=> GoneOver(k)
    BY <1>1, <2>1, GoneNext
  <2>3. WrittenNow' = WrittenNow
    BY <2>1, <2>2 DEF WrittenNow
  <2>4. FreeAt(entries', WrittenNow', Tell(new'))
    BY <1>1, <1>2, <2>1, <2>3
  <2>5. {} \in SUBSET DOMAIN entries
    OBVIOUS
  <2>6. \A k \in DOMAIN entries : GoneOver(k)' <=> GoneOver(k) \/ k \in {}
    BY <2>2
  <2>7. \A k \in DOMAIN entries \ {} : entries'[k] = entries[k]
    BY <2>1
  <2>8. /\ \A k \in {} : ~GoneOver(k) /\ PlacedRight(k)'
        /\ NoneOfConsoles => \A k \in {} : Makes(cmd, old, k, NewData(k)')
    OBVIOUS
  <2>9. PassInv /\ MoreLumps /\ new' \in Seq(Word) /\ Extends(new, new')
    BY <1>1, <1>2
  <2> QED
    BY <2>1, <2>4, <2>5, <2>6, <2>7, <2>8, <2>9, TurnMakes
<1>4. CASE LeaveEmpty
  <2>1. /\ entries' = [entries EXCEPT ![count].offset = 0]
        /\ entries[count].length = 0 /\ ~Deferred(count) /\ ~Packed(count)
        /\ ~Stacked(count)
    BY <1>4 DEF LeaveEmpty, NoOffset, Empty, Stored
  <2>2. /\ DOMAIN entries' = DOMAIN entries
        /\ entries'[count].length = 0 /\ entries'[count].offset = 0
        /\ \A k \in DOMAIN entries : entries'[k].name = entries[k].name
        /\ \A k \in DOMAIN entries \ {count} : entries'[k] = entries[k]
    BY <1>1, <2>1 DEF Entry
  <2>3. \A k \in DOMAIN entries : GoneOver(k)' <=> GoneOver(k) \/ k \in {count}
    BY <1>1, <2>1, <2>2, GoneNext
  <2>4. Data(old, count) = <<>> /\ Skipped(cmd, old, count)
    <3>1. Data(old, count) = <<>>
      BY <1>1, <2>1, EmptyLump DEF Was, Data
    <3>2. /\ Leveled(cmd, old, count) <=> Packed(count) \/ Deferred(count)
          /\ Stacking(cmd, old, count) <=> Stacked(count)
      BY <1>1, MethodsUsed
    <3> QED
      BY <2>1, <3>1, <3>2 DEF Skipped
  <2>5. WrittenNow' = WrittenNow
    BY <1>1, <2>2, <2>3, <2>4 DEF WrittenNow
  <2>6. FreeAt(entries', WrittenNow', Tell(new'))
    <3>1. \A k \in WrittenNow : entries'[k] = entries[k]
      BY <1>1, <2>2 DEF WrittenNow
    <3> QED
      BY <1>1, <1>2, <2>5, <3>1, FreeStays
  <2>7. ASSUME NEW k \in {count}
        PROVE  ~GoneOver(k) /\ PlacedRight(k)' /\ Makes(cmd, old, k, NewData(k)')
    <3>1. k = count
      OBVIOUS
    <3>2. PlacedRight(k)'
      BY <2>2, <2>4, <3>1 DEF PlacedRight
    <3>3. NewData(k)' = <<>>
      BY <2>2, <3>1, EmptyLump DEF NewData
    <3>4. ~Formed(<<>>, {Aim(cmd)}) /\ ~IsOverflowed(<<>>)
      BY NoThingIsEmpty, ThingsAssumption DEF Formed, IsOverflowed
    <3>5. Makes(cmd, old, k, <<>>)
      BY <2>4, <3>1, <3>4 DEF Makes, Moves, Garbles
    <3> QED
      BY <1>1, <3>1, <3>2, <3>3, <3>5
  <2>8. PassInv /\ MoreLumps /\ new' \in Seq(Word) /\ Extends(new, new')
    BY <1>1, <1>2
  <2>9. /\ {count} \in SUBSET DOMAIN entries
        /\ \A k \in DOMAIN entries \ {count} : entries'[k] = entries[k]
    BY <1>1, <2>2
  <2>10. /\ \A k \in {count} : ~GoneOver(k) /\ PlacedRight(k)'
         /\ NoneOfConsoles => \A k \in {count} : Makes(cmd, old, k, NewData(k)')
    BY <2>7
  <2> QED
    BY <2>2, <2>3, <2>6, <2>8, <2>9, <2>10, TurnMakes
<1> QED
  BY <1>3, <1>4

\* A turn in which two are, those of a level.
LEMMA TwoMakes ==
  ASSUME PassInv, PassInv', Opened, NoneOfConsoles => MadeRight, LaidRight, pc = "lumps",
         Pack, count' = count + 1,
         UNCHANGED <<pc, cmd, psx_format, old>>
  PROVE  FirstMade'
<1>1. PICK ld \in Seq(Word), sd \in Seq(Word), then \in Seq(Word) :
        /\ NoneOfConsoles => /\ Makes(cmd, old, count - 1, ld)
                             /\ Makes(cmd, old, count, sd)
        /\ ~Skipped(cmd, old, count) /\ ~Skipped(cmd, old, count - 1)
        /\ Packed(count) /\ MoreLumps
        /\ count \in DOMAIN entries /\ count - 1 \in DOMAIN entries
        /\ new' \in Seq(Word) /\ Extends(new, new')
        /\ CacheLump(new', entries'[count]) = sd
        /\ CacheLump(new', entries'[count - 1]) = ld
        /\ Tell(new) \in Nat /\ Tell(then) = Tell(new) + Len(ld)
        /\ Tell(new') = Tell(then) + Len(sd)
        /\ DOMAIN entries' = DOMAIN entries
        /\ entries'[count - 1].offset = Tell(new) /\ entries'[count - 1].length = Len(ld)
        /\ entries'[count].offset = Tell(then) /\ entries'[count].length = Len(sd)
        /\ \A k \in DOMAIN entries : entries'[k].name = entries[k].name
        /\ \A k \in DOMAIN entries \ {count - 1, count} : entries'[k] = entries[k]
  BY TwoTurn
<1>2. \A k \in DOMAIN entries : GoneOver(k)' <=> GoneOver(k) \/ k \in {count - 1, count}
  BY <1>1, GoneNext
<1>3. /\ \A k \in DOMAIN entries : k \in Nat /\ (GoneOver(k) <=> k < count - 1)
      /\ count \in Nat /\ entries \in Seq(Entry)
  BY <1>1, GoneSoFar, Untouched
<1>4. /\ \A k \in WrittenNow : /\ k \in DOMAIN entries \ {count - 1, count}
                               /\ entries'[k] = entries[k]
      /\ ~GoneOver(count) /\ ~GoneOver(count - 1)
  BY <1>1, <1>3, SMTT(60) DEF WrittenNow
<1>5. FreeAt(entries', WrittenNow, Tell(new))
  <2>1. FreeAt(entries, WrittenNow, Tell(new))
    BY DEF LaidRight
  <2> QED
    BY <1>4, <2>1, FreeStays
<1>6. \A k \in WrittenNow : End(entries'[k]) \in Nat
  BY <1>3, <1>4, EndTyped
<1>7. Tell(then) \in Nat /\ Len(ld) \in Nat /\ Len(sd) \in Nat
  BY <1>1
<1>8. FreeAt(entries', WrittenNow \cup {count - 1}, Tell(then))
  <2>1. FreeAt(entries', WrittenNow \cup {count - 1}, Tell(new) + Len(ld))
    BY <1>1, <1>5, <1>6, <1>7, FreeNext
  <2> QED
    BY <1>1, <2>1
<1>9. FreeAt(entries', WrittenNow', Tell(new'))
  <2>1. WrittenNow' = (WrittenNow \cup {count - 1}) \cup {count}
    BY <1>1, <1>2 DEF WrittenNow
  <2>2. End(entries'[count - 1]) \in Nat
    BY <1>1, <1>7 DEF End
  <2>3. \A k \in WrittenNow \cup {count - 1} : End(entries'[k]) \in Nat
    BY <1>6, <2>2
  <2>4. FreeAt(entries', (WrittenNow \cup {count - 1}) \cup {count}, Tell(then) + Len(sd))
    BY <1>1, <1>7, <1>8, <2>3, FreeNext
  <2> QED
    BY <1>1, <2>1, <2>4
<1>10. WrittenNow = WrittenBefore(count - 1)
  BY <1>1, WrittenSoFar
<1>11. ASSUME NEW k, k = count - 1
       PROVE  ~GoneOver(k) /\ PlacedRight(k)' /\ (NoneOfConsoles => Makes(cmd, old, k, NewData(k)'))
  <2>1. WrittenBefore(k)' = WrittenNow
    BY <1>1, <1>10, <1>11 DEF WrittenBefore
  <2>2. ~Skipped(cmd, old, k)' /\ entries'[k].offset = Tell(new)
    BY <1>1, <1>11
  <2>3. PlacedRight(k)'
    BY <1>5, <2>1, <2>2 DEF PlacedRight
  <2>4. NewData(k)' = ld
    BY <1>1, <1>11 DEF NewData
  <2> QED
    BY <1>1, <1>4, <1>11, <2>3, <2>4
<1>12. ASSUME NEW k, k = count
       PROVE  ~GoneOver(k) /\ PlacedRight(k)' /\ (NoneOfConsoles => Makes(cmd, old, k, NewData(k)'))
  <2>1. WrittenBefore(k)' = WrittenNow \cup {count - 1}
    <3>1. \A j \in DOMAIN entries : j < count <=> j < count - 1 \/ j = count - 1
      BY <1>3
    <3> QED
      BY <1>1, <1>10, <1>12, <3>1 DEF WrittenBefore
  <2>2. ~Skipped(cmd, old, k)' /\ entries'[k].offset = Tell(then)
    BY <1>1, <1>12
  <2>3. PlacedRight(k)'
    BY <1>8, <2>1, <2>2 DEF PlacedRight
  <2>4. NewData(k)' = sd
    BY <1>1, <1>12 DEF NewData
  <2> QED
    BY <1>1, <1>4, <1>12, <2>3, <2>4
<1>13. /\ \A k \in {count - 1, count} : ~GoneOver(k) /\ PlacedRight(k)'
       /\ NoneOfConsoles => \A k \in {count - 1, count} : Makes(cmd, old, k, NewData(k)')
  BY <1>11, <1>12
<1>14. PassInv /\ MoreLumps /\ {count - 1, count} \in SUBSET DOMAIN entries
  BY <1>1
<1>15. /\ new' \in Seq(Word) /\ Extends(new, new') /\ DOMAIN entries' = DOMAIN entries
       /\ \A k \in DOMAIN entries \ {count - 1, count} : entries'[k] = entries[k]
  BY <1>1
<1> QED
  BY <1>2, <1>9, <1>13, <1>14, <1>15, TurnMakes

\* Each turn of the first pass.
LEMMA NextLumpMakes ==
  ASSUME PassInv, PassInv', Opened, FirstMade, NextLump
  PROVE  FirstMade'
<1>1. /\ pc = "lumps" /\ count' = count + 1 /\ UNCHANGED <<pc, cmd, psx_format, old>>
  BY DEF NextLump, Defer, Pack, Stack, Squash, Store, LeaveEmpty, MoreLumps
<1>2. (NoneOfConsoles => MadeRight) /\ LaidRight
  BY <1>1 DEF FirstMade
<1>3. CASE Defer \/ LeaveEmpty
  BY <1>1, <1>2, <1>3, NoneMakes
<1>4. CASE Pack
  BY <1>1, <1>2, <1>4, TwoMakes
<1>5. CASE Stack \/ Squash \/ Store
  BY <1>1, <1>2, <1>5, OneMakes
<1> QED
  BY <1>3, <1>4, <1>5 DEF NextLump

-----------------------------------------------------------------------------
(* The file of a run *)

\* The file that has been written, at first.
MadeOf(f) ==
  KeepsFile(wad, f) /\ \A k \in DOMAIN Directory(wad) : Makes(cmd, wad, k, Data(f, k))

\* A file is neat that has been written with its directory and its header.
LEMMA WrittenNeat ==
  ASSUME new \in Seq(Word), Len(new) >= 3, entries \in Seq(Entry), type \in Type,
         NEW g, g = WithDirectory(new), Readable(g),
         \A a \in 3 .. Len(new) - 1 : \E k \in DOMAIN entries : a \in Span(entries[k])
  PROVE  Neat(g)
<1>1. /\ g \in Seq(Word) /\ NumEntries(g) = Len(entries) /\ DirOffset(g) = Len(new)
      /\ Len(g) = Len(new) + 4 * Len(entries) /\ Directory(g) = entries
      /\ g[2] = Long(Len(entries)) /\ g[3] = Long(Len(new))
      /\ \A k \in 1 .. Len(entries), j \in 1 .. 4 :
           g[Len(new) + 4 * (k - 1) + j] = EntryWords(entries[k])[j]
  BY DirectoryReads, SMTT(60)
<1>2. DOMAIN entries = 1 .. Len(entries)
  OBVIOUS
<1>3. \A k \in DOMAIN Directory(g) : \A j \in 1 .. 4 :
        g[DirOffset(g) + 4 * (k - 1) + j] = EntryWords(Directory(g)[k])[j]
  <2> SUFFICES ASSUME NEW k \in DOMAIN Directory(g), NEW j \in 1 .. 4
               PROVE  g[DirOffset(g) + 4 * (k - 1) + j] = EntryWords(Directory(g)[k])[j]
    OBVIOUS
  <2>1. k \in 1 .. Len(entries) /\ Directory(g)[k] = entries[k]
    BY <1>1, <1>2
  <2>2. g[Len(new) + 4 * (k - 1) + j] = EntryWords(entries[k])[j]
    BY <1>1, <2>1
  <2>3. DirOffset(g) + 4 * (k - 1) + j = Len(new) + 4 * (k - 1) + j
    BY <1>1
  <2> QED
    BY <2>1, <2>2, <2>3
<1>4. \A a \in 3 .. DirOffset(g) - 1 :
        \E k \in DOMAIN Directory(g) : a \in Span(Directory(g)[k])
  BY <1>1
<1> QED
  BY <1>1, <1>3, <1>4 DEF Neat

\* The lumps that are not written are the same ones in a file that is kept.
LEMMA SkippedKept ==
  ASSUME NEW c, NEW f, NEW g, KeepsFile(f, g), NEW k \in DOMAIN Directory(f), k \in Int
  PROVE  Skipped(c, g, k) <=> Skipped(c, f, k)
<1>1. /\ Directory(g)[k].name = Directory(f)[k].name
      /\ Data(g, k) = <<>> <=> Data(f, k) = <<>>
  BY DEF KeepsFile, Alike
<1>2. Leveled(c, g, k) <=> Leveled(c, f, k)
  <2>1. k + 1 \in Int
    OBVIOUS
  <2> QED
    BY <2>1, LevelsKept DEF Leveled, Packing
<1> QED
  BY <1>1, <1>2 DEF Skipped, Stacking

\* The first pass has made each lump what is asked for, and has laid them out in
\* their order.
LEMMA FirstRan ==
  ASSUME KeptInv, FirstMade, EndFirstPass, ConsolesMarked, NotAllEmpty
  PROVE  MadeOf(new') /\ (~Merging(cmd) => RanAs(cmd, wad, new'))
<1>1. /\ pc = "lumps" /\ new' = WithDirectory(new)
      /\ PassInv /\ Opened /\ NoGaps /\ type \in Type
  BY DEF EndFirstPass, KeptInv, FirstKept, PassInv, TypeOK
<1>2. /\ entries \in Seq(Entry) /\ Len(entries) \in Nat
      /\ DOMAIN entries = 1 .. Len(entries)
      /\ new \in Seq(Word) /\ Len(new) \in Nat /\ Len(new) >= 3
      /\ \A k \in DOMAIN entries :
           /\ GoneOver(k) /\ ~(Packs /\ IsForeign(OldData(k)))
           /\ Data(new', k) = NewData(k)
      /\ KeepsFile(old, new') /\ Directory(new') = entries /\ DirOffset(new') = Len(new)
  BY FirstPassWritten
<1>3. old = wad /\ DOMAIN Directory(old) = DOMAIN entries
  BY <1>1, <1>2 DEF Opened, KeepsFile
<1>4. NoneOfConsoles
  BY <1>2 DEF NoneOfConsoles
<1>5. MadeOf(new')
  <2>1. \A k \in DOMAIN entries : Makes(cmd, old, k, Data(new', k))
    BY <1>1, <1>2, <1>4 DEF FirstMade, MadeRight
  <2> QED
    BY <1>2, <1>3, <2>1 DEF MadeOf
<1>6. ASSUME ~Merging(cmd) PROVE RanAs(cmd, wad, new')
  <2>1. PICK g : g = new'
    OBVIOUS
  <2>2. KeepsFile(old, g) /\ Directory(g) = entries /\ DirOffset(g) = Len(new)
    BY <1>2, <2>1
  <2>3. Neat(g)
    <3>1. \A a \in 3 .. Len(new) - 1 : \E k \in DOMAIN entries : a \in Span(entries[k])
      BY <1>1 DEF NoGaps
    <3>2. Readable(g) /\ g = WithDirectory(new)
      BY <1>1, <2>1, <2>2 DEF KeepsFile
    <3> QED
      BY <1>1, <1>2, <3>1, <3>2, WrittenNeat
  <2>4. \A k \in DOMAIN entries : Skipped(cmd, g, k) <=> Skipped(cmd, old, k)
    BY <1>2, <1>3, <2>2, SkippedKept
  <2>5. Laid(cmd, g) = {k \in DOMAIN entries : ~Skipped(cmd, old, k)}
    BY <1>6, <2>2, <2>4 DEF Laid
  <2>6. LaidRight /\ WrittenNow = Laid(cmd, g)
    BY <1>1, <1>2, <2>5 DEF FirstMade, WrittenNow
  <2>7. ASSUME NEW k \in DOMAIN entries
        PROVE  LaidBefore(cmd, g, k) = WrittenBefore(k) /\ PlacedRight(k)
    <3>1. \A j \in DOMAIN entries : Earlier(cmd, Directory(g), j, k) <=> j < k
      BY <1>2, <1>6, <2>2 DEF Earlier, Order
    <3>2. LaidBefore(cmd, g, k) = WrittenBefore(k)
      BY <2>5, <3>1 DEF LaidBefore, WrittenBefore
    <3> QED
      BY <1>2, <2>6, <3>2 DEF LaidRight
  <2>8. \A k \in Laid(cmd, g) :
          FreeAt(Directory(g), LaidBefore(cmd, g, k), Directory(g)[k].offset)
    BY <2>2, <2>5, <2>7 DEF PlacedRight
  <2>9. FreeAt(Directory(g), Laid(cmd, g), DirOffset(g))
    <3>1. Tell(new) = Len(new)
      BY <1>2 DEF Tell, WAD_HEADER_SIZE
    <3> QED
      BY <2>2, <2>6, <3>1 DEF LaidRight
  <2>10. \A k \in DOMAIN Directory(g) \ Laid(cmd, g) : Directory(g)[k].offset = 0
    BY <2>2, <2>5, <2>7 DEF PlacedRight
  <2>11. LaidOut(cmd, g)
    BY <1>6, <2>8, <2>9, <2>10 DEF LaidOut
  <2>12. KeepsFile(wad, g) /\ \A k \in DOMAIN Directory(wad) : Makes(cmd, wad, k, Data(g, k))
    BY <1>5, <2>1 DEF MadeOf
  <2> QED
    BY <2>1, <2>3, <2>11, <2>12 DEF RanAs
<1> QED
  BY <1>5, <1>6

-----------------------------------------------------------------------------
(* Where the second pass puts what the first has made *)

\* The lumps that have been written are the first of their contents, in the order
\* of their names.
KeysRanked == \A k \in Element : key[k] = Rank(Was(k))
GoneLaid(n) == {elements[i] : i \in 1 .. n - 1} \cap Laid(cmd, old)
SecondLaid ==
  /\ \A k \in GoneLaid(count) :
       FreeAt(entries, LaidBefore(cmd, old, k), entries[k].offset)
  /\ FreeAt(entries, GoneLaid(count), Tell(new))
SecondMade == pc = "merge" => MadeOf(old) /\ KeysRanked /\ SecondLaid

\* At first nothing has been.
LEMMA ReopenMakes ==
  ASSUME KeptInv, PassInv', Reopen, MadeOf(new)
  PROVE  SecondMade'
<1>1. /\ old' = new /\ entries' = Directory(new) /\ count' = 1 /\ new' = <<>>
      /\ key' = [k \in DOMAIN entries' |-> Rank(entries'[k])]
      /\ UNCHANGED <<wad, cmd>>
  BY DEF Reopen, OpenWadFile, MakeSortedMap
<1>2. SecondLaid'
  <2>1. count' = 1 /\ new' = <<>>
    BY <1>1
  <2>2. 1 .. count' - 1 = {}
    BY <2>1
  <2>3. GoneLaid(count)' = {}
    BY <2>2 DEF GoneLaid
  <2>4. Tell(new') = 3
    BY <2>1 DEF Tell, WAD_HEADER_SIZE
  <2> QED
    BY <2>3, <2>4 DEF SecondLaid, FreeAt
<1>3. KeysRanked'
  <2>1. DOMAIN entries' = 1 .. Len(entries') /\ Len(entries') \in Nat
    BY DEF PassInv, TypeOK
  <2>2. Len(key') = Len(entries')
    BY <1>1, <2>1
  <2>3. \A k \in 1 .. Len(key') : key'[k] = Rank(Directory(old')[k])
    BY <1>1, <2>1, <2>2
  <2> QED
    BY <2>3 DEF KeysRanked, Element, Was
<1>4. MadeOf(old)'
  BY <1>1 DEF MadeOf
<1> QED
  BY <1>2, <1>3, <1>4 DEF SecondMade

LEMMA SortMakes ==
  ASSUME KeptInv, PassInv', SortMapElements, SecondMade
  PROVE  SecondMade'
<1>1. /\ pc = "merge" /\ SortStep
      /\ UNCHANGED <<wad, pc, cmd, entries, old, new, count>>
  BY DEF SortMapElements, wadfile
<1>2. count = 1 /\ UNCHANGED key
  <2>1. ~Sorted
    BY <1>1 DEF KeptInv, PassInv, SortInv, Partitioned, Sorted, SortStep, Return,
                ChoosePivot, Partition, PlacePivot
  <2> QED
    BY <1>1, <2>1 DEF KeptInv, PassInv, SecondPass, SortStep, Return, ChoosePivot,
                      Partition, PlacePivot
<1>3. MadeOf(old) /\ KeysRanked /\ SecondLaid
  BY <1>1 DEF SecondMade
<1>4. 1 .. count - 1 = {}
  BY <1>2
<1>5. GoneLaid(count) = {} /\ GoneLaid(count)' = {}
  BY <1>1, <1>4 DEF GoneLaid
<1>6. SecondLaid'
  BY <1>1, <1>3, <1>5 DEF SecondLaid
<1>7. KeysRanked'
  BY <1>1, <1>2, <1>3 DEF KeysRanked, Element, Was
<1>8. MadeOf(old)'
  BY <1>1, <1>3 DEF MadeOf
<1> QED
  BY <1>6, <1>7, <1>8 DEF SecondMade

\* The sorted map is in the order in which lumps are written.
LEMMA MapInOrder ==
  ASSUME KeptInv, pc = "merge", Sorted, KeysRanked, NEW i \in Element, NEW j \in Element
  PROVE  Earlier(cmd, Directory(old), elements[i], elements[j]) <=> i < j
<1>1. PassInv /\ Merging(cmd)
  BY DEF KeptInv, SecondKept, Reopened
<1>2. ASSUME NEW a \in Element, NEW b \in Element, a < b
      PROVE  Before(elements[a], elements[b])
  <2>1. calls = <<>> /\ step = "call"
    BY <1>1 DEF Sorted, PassInv, SortInv, Partitioned, SortTypeOK
  <2> QED
    BY <1>1, <1>2, <2>1 DEF PassInv, SortInv, Apart, Whole
<1>3. /\ elements \in [Element -> Element] /\ key \in Seq(Int)
      /\ Element = 1 .. Len(key) /\ Len(key) \in Nat
  BY <1>1, Merges DEF PassInv, TypeOK, SortTypeOK
<1>4. ASSUME NEW a \in Element, NEW b \in Element
      PROVE  /\ Earlier(cmd, Directory(old), a, b) <=> Before(a, b)
             /\ ~(Before(a, b) /\ Before(b, a))
  <2>1. key[a] = Order(cmd, Directory(old)[a]) /\ key[b] = Order(cmd, Directory(old)[b])
    BY <1>1 DEF KeysRanked, Order, Was
  <2>2. key[a] \in Int /\ key[b] \in Int /\ a \in Int /\ b \in Int
    BY <1>3
  <2> QED
    BY <2>1, <2>2 DEF Earlier, Before
<1>5. /\ elements[i] \in Element /\ elements[j] \in Element /\ i \in Int /\ j \in Int
  BY <1>3, SMTT(60)
<1>6. CASE i < j
  BY <1>2, <1>4, <1>5, <1>6
<1>7. CASE j < i
  BY <1>2, <1>4, <1>5, <1>7
<1>8. CASE i = j
  <2>1. ~Earlier(cmd, Directory(old), elements[i], elements[i])
    BY <1>4, <1>5
  <2> QED
    BY <1>5, <1>8, <2>1
<1> QED
  BY <1>5, <1>6, <1>7, <1>8

LEMMA BeforeIsGone ==
  ASSUME KeptInv, pc = "merge", Sorted, KeysRanked, NEW j \in Element
  PROVE  LaidBefore(cmd, old, elements[j]) = GoneLaid(j)
<1>1. PassInv /\ Element = 1 .. Len(key) /\ Len(key) \in Nat /\ DOMAIN Directory(old) = Element
  <2>1. PassInv /\ Element = 1 .. Len(key) /\ Len(key) \in Nat /\ Len(key) = Len(entries)
    BY Merges DEF KeptInv
  <2>2. Len(entries) = NumEntries(old)
    BY <2>1 DEF PassInv, SecondPass
  <2> QED
    BY <2>1, <2>2 DEF Directory
<1>2. ASSUME NEW k \in LaidBefore(cmd, old, elements[j]) PROVE k \in GoneLaid(j)
  <2>1. k \in Element /\ k \in Laid(cmd, old) /\ Earlier(cmd, Directory(old), k, elements[j])
    BY <1>1 DEF LaidBefore, Laid
  <2>2. PICK i \in Element : elements[i] = k
    BY <1>1, <2>1, MapIsOnto DEF PassInv
  <2>3. i < j
    BY <2>1, <2>2, MapInOrder
  <2>4. i \in 1 .. j - 1
    BY <1>1, <2>3
  <2> QED
    BY <2>1, <2>2, <2>4 DEF GoneLaid
<1>3. ASSUME NEW k \in GoneLaid(j) PROVE k \in LaidBefore(cmd, old, elements[j])
  <2>1. k \in Laid(cmd, old) /\ \E i \in 1 .. j - 1 : k = elements[i]
    BY DEF GoneLaid
  <2>2. PICK i \in 1 .. j - 1 : k = elements[i]
    BY <2>1
  <2>3. i \in Element /\ i < j
    BY <1>1
  <2>4. Earlier(cmd, Directory(old), k, elements[j])
    BY <2>2, <2>3, MapInOrder
  <2> QED
    BY <2>1, <2>4 DEF LaidBefore
<1> QED
  BY <1>2, <1>3

\* What one turn of the second pass does to the lumps that have been laid.
LEMMA MergedLaid ==
  ASSUME KeptInv, pc = "merge", Sorted, KeysRanked, SecondLaid, count \in Element,
         UNCHANGED <<cmd, old, elements>>, count' = count + 1,
         DOMAIN entries' = DOMAIN entries,
         \A k \in Element \ {elements[count]} : entries'[k] = entries[k],
         IF elements[count] \in Laid(cmd, old)
         THEN /\ entries'[elements[count]].offset = Tell(new)
              /\ entries'[elements[count]].length \in Nat
              /\ Tell(new) \in Nat
              /\ Tell(new') = Tell(new) + entries'[elements[count]].length
         ELSE new' = new
  PROVE  SecondLaid'
<1>1. PICK m : m = elements[count]
  OBVIOUS
<1>2. /\ PassInv /\ Element = 1 .. Len(key) /\ Len(key) \in Nat
      /\ elements \in [Element -> Element] /\ m \in Element
      /\ entries \in Seq(Entry) /\ DOMAIN entries = Element
  BY <1>1, Merges DEF KeptInv
<1>3. ASSUME NEW k \in GoneLaid(count)
      PROVE  /\ k \in Element /\ k # m /\ entries'[k] = entries[k]
             /\ LaidBefore(cmd, old, k) \subseteq GoneLaid(count)
  <2>1. PICK i \in 1 .. count - 1 : k = elements[i]
    BY DEF GoneLaid
  <2>2. i \in Element /\ i # count /\ i < count
    BY <1>2
  <2>3. k \in Element /\ k # m
    BY <1>1, <1>2, <2>1, <2>2, SortedOnce DEF PassInv
  <2>4. LaidBefore(cmd, old, k) = GoneLaid(i)
    BY <2>1, <2>2, BeforeIsGone
  <2>5. 1 .. i - 1 \subseteq 1 .. count - 1
    BY <1>2, <2>2
  <2> QED
    BY <1>1, <2>3, <2>4, <2>5 DEF GoneLaid
<1>4. 1 .. count' - 1 = (1 .. count - 1) \cup {count}
  BY <1>2
<1>5. GoneLaid(count)' = GoneLaid(count) \cup ({m} \cap Laid(cmd, old))
  BY <1>1, <1>4 DEF GoneLaid
<1>6. ASSUME NEW k \in GoneLaid(count)
      PROVE  FreeAt(entries', LaidBefore(cmd, old, k), entries'[k].offset)
  <2>1. FreeAt(entries, LaidBefore(cmd, old, k), entries[k].offset)
    BY DEF SecondLaid
  <2>2. \A j \in LaidBefore(cmd, old, k) : entries'[j] = entries[j]
    BY <1>3
  <2> QED
    BY <1>3, <2>1, <2>2, FreeStays
<1>7. FreeAt(entries', GoneLaid(count), Tell(new))
  <2>1. FreeAt(entries, GoneLaid(count), Tell(new))
    BY DEF SecondLaid
  <2> QED
    BY <1>3, <2>1, FreeStays
<1>8. CASE m \in Laid(cmd, old)
  <2>1. FreeAt(entries', LaidBefore(cmd, old, m), entries'[m].offset)
    BY <1>1, <1>7, <1>8, BeforeIsGone
  <2>2. \A k \in GoneLaid(count) : End(entries'[k]) \in Nat
    BY <1>2, <1>3, EndTyped
  <2>3. GoneLaid(count)' = GoneLaid(count) \cup {m}
    BY <1>5, <1>8
  <2>4. FreeAt(entries', GoneLaid(count) \cup {m}, Tell(new) + entries'[m].length)
    BY <1>1, <1>7, <1>8, <2>2, FreeNext
  <2>5. FreeAt(entries', GoneLaid(count)', Tell(new'))
    BY <1>1, <1>8, <2>3, <2>4
  <2>6. \A k \in GoneLaid(count)' :
          FreeAt(entries', LaidBefore(cmd, old, k), entries'[k].offset)
    BY <1>6, <2>1, <2>3
  <2> QED
    BY <2>5, <2>6 DEF SecondLaid
<1>9. CASE m \notin Laid(cmd, old)
  <2>1. GoneLaid(count)' = GoneLaid(count)
    BY <1>5, <1>9
  <2>2. FreeAt(entries', GoneLaid(count)', Tell(new'))
    BY <1>1, <1>7, <1>9, <2>1
  <2>3. \A k \in GoneLaid(count)' :
          FreeAt(entries', LaidBefore(cmd, old, k), entries'[k].offset)
    BY <1>6, <2>1
  <2> QED
    BY <2>2, <2>3 DEF SecondLaid
<1> QED
  BY <1>8, <1>9

\* A lump is written if none with its contents comes before it, and only then.
LEMMA MergeLumpMakes ==
  ASSUME KeptInv, PassInv', MergeLump, SecondMade
  PROVE  SecondMade'
<1> DEFINE data == CacheLump(old, entries[elements[count]])
<1>1. /\ pc = "merge" /\ Sorted /\ count \in DOMAIN elements /\ count' = count + 1
      /\ InFile(old, entries[elements[count]]) /\ UNCHANGED <<elements, key>>
      /\ UNCHANGED <<wad, cmd, old>>
  BY DEF MergeLump, sortvars
<1>2. /\ PassInv /\ AllPlaced /\ AllOwned /\ Merging(cmd)
      /\ MadeOf(old) /\ KeysRanked /\ SecondLaid
  BY <1>1 DEF KeptInv, SecondKept, Reopened, SecondMade
<1>3. PICK m : m = elements[count]
  OBVIOUS
<1>4. /\ count \in Element /\ m \in Element /\ entries[m] \in Entry
      /\ entries \in Seq(Entry) /\ DOMAIN entries = Element
      /\ Element = 1 .. Len(key) /\ Len(key) \in Nat
      /\ new \in Seq(Word) /\ HeaderRoom(new) /\ old \in Seq(Word)
      /\ elements \in [Element -> Element]
  BY <1>1, <1>2, <1>3, Merges
<1>5. DOMAIN Directory(old) = Element
  <2>1. Len(entries) = NumEntries(old) /\ Len(key) = Len(entries)
    BY <1>1, <1>2 DEF PassInv, SecondPass
  <2> QED
    BY <1>4, <2>1 DEF Directory
<1>6. data = OldData(m) /\ data \in Seq(Word) /\ Len(data) = entries[m].length
  <2>1. entries[m] = Was(m)
    <3>1. ~(count < count)
      BY <1>4
    <3> QED
      BY <1>1, <1>2, <1>3, <3>1 DEF PassInv, PassesKeep, Was
  <2>2. data = OldData(m)
    BY <1>3, <2>1 DEF OldData
  <2> QED
    BY <1>1, <1>3, <1>4, <2>2, LumpTyped DEF Entry
<1> HIDE DEF data
<1>7. \A k : OldData(k) = Data(old, k)
  BY DEF OldData, Was, Data
<1>8. ASSUME Existing(data) # {} PROVE m \notin Laid(cmd, old)
  <2>1. PICK l \in DOMAIN lumps : lumps[l].data = data
    BY <1>8 DEF Existing
  <2>2. PICK i \in 1 .. count - 1 : Placement(elements[i], l)
    BY <1>2, <2>1 DEF AllOwned
  <2>3. i \in Element /\ i < count
    BY <1>4
  <2>4. Earlier(cmd, Directory(old), elements[i], m)
    BY <1>1, <1>2, <1>3, <1>4, <2>3, MapInOrder
  <2>5. elements[i] \in Element /\ Data(old, elements[i]) = Data(old, m)
    BY <1>4, <1>6, <1>7, <2>1, <2>2, <2>3 DEF Placement
  <2> QED
    BY <1>2, <1>5, <2>4, <2>5 DEF Laid
<1>9. ASSUME Existing(data) = {} PROVE m \in Laid(cmd, old)
  <2> SUFFICES ASSUME NEW k \in Element, Earlier(cmd, Directory(old), k, m),
                      Data(old, k) = Data(old, m)
               PROVE  FALSE
    BY <1>2, <1>4, <1>5 DEF Laid
  <2>1. PICK i \in Element : elements[i] = k
    BY <1>1, <1>2, MapIsOnto DEF PassInv
  <2>2. i < count
    BY <1>1, <1>2, <1>3, <1>4, <2>1, MapInOrder
  <2>3. i \in 1 .. count - 1
    BY <1>4, <2>2
  <2>4. PICK l \in DOMAIN lumps : Placement(k, l)
    BY <1>1, <1>2, <2>1, <2>3 DEF AllPlaced
  <2>5. lumps[l].data = data
    BY <1>6, <1>7, <2>4 DEF Placement
  <2> QED
    BY <1>9, <2>5 DEF Existing
<1>10. ASSUME UNCHANGED <<lumps, new>>,
              \E k \in Existing(data) :
                entries' = [entries EXCEPT ![elements[count]].offset = FoundOffset(k)]
       PROVE  SecondLaid'
  <2>1. m \notin Laid(cmd, old)
    BY <1>8, <1>10
  <2>2. /\ DOMAIN entries' = DOMAIN entries
        /\ \A k \in Element \ {m} : entries'[k] = entries[k]
    BY <1>3, <1>4, <1>10
  <2> QED
    BY <1>1, <1>2, <1>3, <1>4, <1>10, <2>1, <2>2, MergedLaid
<1>11. ASSUME Existing(data) = {}, new' = WithLump(new, data),
              lumps' = Append(lumps, [data |-> data, offset |-> Tell(new)]),
              entries' = [entries EXCEPT ![elements[count]].offset
                            = FoundOffset(Len(lumps'))]
       PROVE  SecondLaid'
  <2>1. m \in Laid(cmd, old)
    BY <1>9, <1>11
  <2>2. FoundOffset(Len(lumps')) = Tell(new)
    <3>1. Len(lumps) \in Nat
      BY <1>1, <1>2, Merges
    <3>2. Len(lumps') = Len(lumps) + 1 /\ lumps'[Len(lumps) + 1] = [data |-> data, offset |-> Tell(new)]
      BY <1>1, <1>2, <1>11, <3>1, Merges
    <3> QED
      BY <3>2 DEF FoundOffset
  <2>3. /\ DOMAIN entries' = DOMAIN entries
        /\ entries'[m].offset = Tell(new) /\ entries'[m].length = entries[m].length
        /\ \A k \in Element \ {m} : entries'[k] = entries[k]
    BY <1>3, <1>4, <1>11, <2>2 DEF Entry
  <2>4. /\ Tell(new) \in Nat /\ Tell(new') = Tell(new) + Len(data)
    BY <1>4, <1>6, <1>11, TellNext
  <2>5. entries'[m].length \in Nat /\ Tell(new') = Tell(new) + entries'[m].length
    BY <1>4, <1>6, <2>3, <2>4
  <2> QED
    BY <1>1, <1>2, <1>3, <1>4, <2>1, <2>3, <2>4, <2>5, MergedLaid
<1>12. SecondLaid'
  BY <1>10, <1>11 DEF MergeLump, data
<1>13. KeysRanked'
  BY <1>1, <1>2 DEF KeysRanked, Element, Was
<1>14. MadeOf(old)'
  BY <1>1, <1>2 DEF MadeOf
<1> QED
  BY <1>12, <1>13, <1>14 DEF SecondMade

\* The second pass lays out what the first has made, once each.
LEMMA SecondRan ==
  ASSUME KeptInv, SecondMade, EndSecondPass, NotAllEmpty
  PROVE  RanAs(cmd, wad, new')
<1>1. /\ pc = "merge" /\ Sorted /\ count = Len(entries) + 1 /\ new' = WithDirectory(new)
      /\ PassInv /\ AllPlaced /\ MergedApart /\ MergedNoGaps /\ AllOwned /\ Merging(cmd)
      /\ type \in Type
  BY DEF EndSecondPass, KeptInv, SecondKept, Reopened, PassInv, TypeOK
<1>2. MadeOf(old) /\ KeysRanked /\ SecondLaid
  BY <1>1 DEF SecondMade
<1>3. /\ entries \in Seq(Entry) /\ DOMAIN entries = Element
      /\ Element = 1 .. Len(entries) /\ Len(entries) \in Nat
      /\ elements \in [Element -> Element]
      /\ new \in Seq(Word) /\ Len(new) \in Nat /\ Len(new) >= 3
      /\ DOMAIN Directory(old) = Element
      /\ \A k \in Element :
           /\ entries[k].name = Was(k).name /\ Data(new', k) = OldData(k)
           /\ \E l \in DOMAIN lumps :
                Placement(k, l) /\ Span(entries[k]) = Span(Where(lumps[l]))
      /\ KeepsFile(old, new') /\ Directory(new') = entries /\ DirOffset(new') = Len(new)
  BY SecondPassWritten
<1>4. PICK g : g = new'
  OBVIOUS
<1>5. /\ KeepsFile(old, g) /\ Directory(g) = entries /\ DirOffset(g) = Len(new)
      /\ DOMAIN Directory(g) = Element
      /\ \A k \in Element : Data(g, k) = Data(old, k)
  BY <1>3, <1>4 DEF OldData, Was, Data
<1>6. Neat(g)
  <2>1. ASSUME NEW a \in 3 .. Len(new) - 1
        PROVE  \E k \in DOMAIN entries : a \in Span(entries[k])
    <3>1. PICK l \in DOMAIN lumps : a \in Span(Where(lumps[l]))
      BY <1>1 DEF MergedNoGaps
    <3>2. PICK i \in 1 .. count - 1 : Placement(elements[i], l)
      BY <1>1 DEF AllOwned
    <3>3. i \in Element /\ elements[i] \in Element
      BY <1>1, <1>3, SMTT(60)
    <3>4. PICK m \in DOMAIN lumps :
            /\ Placement(elements[i], m)
            /\ Span(entries[elements[i]]) = Span(Where(lumps[m]))
      BY <1>3, <3>3
    <3>5. m = l
      BY <1>1, <3>2, <3>4 DEF MergedApart, Placement
    <3> QED
      BY <1>3, <3>1, <3>3, <3>4, <3>5
  <2>2. Readable(g) /\ g = WithDirectory(new)
    BY <1>1, <1>4, <1>5 DEF KeepsFile
  <2> QED
    BY <1>1, <1>3, <2>1, <2>2, WrittenNeat
<1>7. \A j, k \in Element :
        Earlier(cmd, Directory(g), j, k) <=> Earlier(cmd, Directory(old), j, k)
  <2> SUFFICES ASSUME NEW j \in Element, NEW k \in Element
               PROVE  Earlier(cmd, Directory(g), j, k) <=> Earlier(cmd, Directory(old), j, k)
    OBVIOUS
  <2>1. /\ Order(cmd, Directory(g)[j]) = Order(cmd, Directory(old)[j])
        /\ Order(cmd, Directory(g)[k]) = Order(cmd, Directory(old)[k])
    BY <1>3, <1>5, NamedOrder DEF Was
  <2> QED
    BY <2>1 DEF Earlier
<1>8. Laid(cmd, g) = Laid(cmd, old) /\ Laid(cmd, old) \subseteq Element
  <2>1. Laid(cmd, g) \subseteq Element /\ Laid(cmd, old) \subseteq Element
    BY <1>3, <1>5 DEF Laid
  <2>2. ASSUME NEW k \in Element PROVE k \in Laid(cmd, g) <=> k \in Laid(cmd, old)
    BY <1>1, <1>3, <1>5, <1>7 DEF Laid
  <2> QED
    BY <2>1, <2>2
<1>9. \A k \in Element : LaidBefore(cmd, g, k) = LaidBefore(cmd, old, k)
  BY <1>7, <1>8 DEF LaidBefore
<1>10. GoneLaid(count) = Laid(cmd, g)
  <2>1. 1 .. count - 1 = Element
    BY <1>1, <1>3
  <2>2. \A k \in Element : \E i \in Element : elements[i] = k
    BY <1>1, MapIsOnto DEF PassInv
  <2> QED
    BY <1>8, <2>1, <2>2 DEF GoneLaid
<1>11. \A k \in Laid(cmd, g) :
         FreeAt(Directory(g), LaidBefore(cmd, g, k), Directory(g)[k].offset)
  BY <1>2, <1>5, <1>8, <1>9, <1>10 DEF SecondLaid
<1>12. FreeAt(Directory(g), Laid(cmd, g), DirOffset(g))
  <2>1. Tell(new) = Len(new)
    BY <1>3 DEF Tell, WAD_HEADER_SIZE
  <2> QED
    BY <1>2, <1>5, <1>10, <2>1 DEF SecondLaid
<1>13. ASSUME NEW k \in Element \ Laid(cmd, g)
       PROVE  \E j \in Laid(cmd, g) : /\ Data(g, j) = Data(g, k)
                                      /\ Directory(g)[j].offset = Directory(g)[k].offset
  <2> DEFINE S == {j \in Element : Data(g, j) = Data(g, k)}
  <2>1. S \in SUBSET DOMAIN entries /\ S # {}
    BY <1>3
  <2>2. PICK j \in S : \A i \in S : ~Earlier(cmd, entries, i, j)
    <3> HIDE DEF S
    <3> QED
      BY <1>3, <2>1, EarliestLump
  <2>3. j \in Element /\ Data(g, j) = Data(g, k)
    BY <2>2
  <2>4. \A i \in Element : Earlier(cmd, Directory(g), i, j) => Data(g, i) # Data(g, j)
    BY <1>5, <2>2, <2>3
  <2>5. j \in Laid(cmd, g)
    BY <1>1, <1>5, <2>3, <2>4 DEF Laid
  <2>6. PICK l \in DOMAIN lumps : Placement(j, l)
    BY <1>3, <2>3
  <2>7. PICK m \in DOMAIN lumps : Placement(k, m)
    BY <1>3
  <2>8. OldData(j) = OldData(k)
    BY <1>3, <1>4, <2>3
  <2>9. l = m
    BY <1>1, <2>6, <2>7, <2>8 DEF MergedApart, Placement
  <2>10. entries[j].offset = entries[k].offset
    BY <2>6, <2>7, <2>9 DEF Placement
  <2> QED
    BY <1>5, <2>3, <2>5, <2>10
<1>14. LaidOut(cmd, g)
  BY <1>1, <1>5, <1>11, <1>12, <1>13 DEF LaidOut
<1>15. KeepsFile(wad, g) /\ DOMAIN Directory(wad) = Element
  BY <1>2, <1>3, <1>5, KeepsOn DEF MadeOf, KeepsFile
<1>16. \A k \in DOMAIN Directory(wad) : Makes(cmd, wad, k, Data(g, k))
  BY <1>2, <1>5, <1>15 DEF MadeOf
<1> QED
  BY <1>4, <1>6, <1>14, <1>15, <1>16 DEF RanAs

-----------------------------------------------------------------------------
(* What the runs have made of the file, one after the other *)

Told ==
  /\ Len(trail) = Len(past) + 1 /\ trail[Len(trail)] = wad
  /\ \A a \in DOMAIN past :
       IF past[a].done
       THEN RanAs(past[a].cmd, trail[a], trail[a + 1]) /\ Readable(trail[1])
       ELSE trail[a + 1] = trail[a]
  /\ Readable(trail[1]) =>
       \A a \in DOMAIN trail : KeepsFile(trail[1], trail[a]) /\ Settled(trail[1], trail[a])

RepeatInv ==
  /\ KeptInv /\ FirstMade /\ SecondMade /\ Told
  /\ pc = "reopen" => MadeOf(new)
  /\ pc = "rename" => RanAs(cmd, wad, new)

LEMMA InitRepeats == Init => RepeatInv
<1> SUFFICES ASSUME Init PROVE RepeatInv
  OBVIOUS
<1>1. KeptInv /\ pc = "idle" /\ trail = <<wad>> /\ past = <<>>
  BY InitKept DEF Init
<1>2. Len(trail) = 1 /\ Len(past) = 0 /\ DOMAIN past = {} /\ DOMAIN trail = {1}
      /\ trail[1] = wad
  BY <1>1
<1>3. Readable(wad) => KeepsFile(wad, wad) /\ Settled(wad, wad)
  BY KeepsItself DEF Settled
<1>4. Told
  BY <1>2, <1>3 DEF Told
<1> QED
  BY <1>1, <1>4 DEF RepeatInv, FirstMade, SecondMade

\* A run that ends is told of, and leaves what no run recodes as it was.
LEMMA EndRunTells ==
  ASSUME KeptInv, Told, NEW c, NEW f, NEW done \in BOOLEAN, EndRun(c, f, done),
         IF done THEN RanAs(c, wad, f) /\ Readable(trail[1]) ELSE f = wad
  PROVE  Told'
<1>1. /\ wad' = f /\ past' = Append(past, [cmd |-> c, done |-> done])
      /\ trail' = Append(trail, f)
      /\ past \in Seq([cmd : Command, done : BOOLEAN]) /\ trail \in Seq(Seq(Word))
  BY DEF EndRun, KeptInv, PassInv, TypeOK
<1>2. PICK n \in Nat : n = Len(past)
  BY <1>1
<1>3. /\ Len(trail) = n + 1 /\ trail[n + 1] = wad
      /\ DOMAIN past = 1 .. n /\ DOMAIN trail = 1 .. n + 1
  BY <1>1, <1>2 DEF Told
<1>4. /\ Len(past') = n + 1 /\ Len(trail') = (n + 1) + 1
      /\ DOMAIN past' = 1 .. n + 1 /\ DOMAIN trail' = 1 .. (n + 1) + 1
      /\ past'[n + 1] = [cmd |-> c, done |-> done] /\ trail'[(n + 1) + 1] = f
      /\ \A a \in 1 .. n : past'[a] = past[a]
      /\ \A a \in 1 .. n + 1 : trail'[a] = trail[a]
  BY <1>1, <1>2, <1>3
<1>5. trail'[1] = trail[1] /\ trail'[n + 1] = wad
  BY <1>3, <1>4
<1>6. past'[n + 1].cmd = c /\ past'[n + 1].done = done
  BY <1>4
<1>7. ASSUME NEW a \in DOMAIN past'
      PROVE  IF past'[a].done
             THEN RanAs(past'[a].cmd, trail'[a], trail'[a + 1]) /\ Readable(trail'[1])
             ELSE trail'[a + 1] = trail'[a]
  <2>1. CASE a = n + 1
    BY <1>4, <1>5, <1>6, <2>1
  <2>2. CASE a \in 1 .. n
    <3>1. a \in 1 .. n + 1 /\ a + 1 \in 1 .. n + 1 /\ a \in DOMAIN past
      BY <1>3, <2>2
    <3>2. past'[a] = past[a] /\ trail'[a] = trail[a] /\ trail'[a + 1] = trail[a + 1]
      BY <1>4, <2>2, <3>1
    <3> QED
      BY <1>5, <3>1, <3>2 DEF Told
  <2> QED
    BY <1>4, <2>1, <2>2
<1>8. ASSUME Readable(trail[1]), NEW a \in DOMAIN trail'
      PROVE  KeepsFile(trail[1], trail'[a]) /\ Settled(trail[1], trail'[a])
  <2>1. \A b \in 1 .. n + 1 : KeepsFile(trail[1], trail[b]) /\ Settled(trail[1], trail[b])
    BY <1>3, <1>8 DEF Told
  <2>2. CASE a \in 1 .. n + 1
    BY <1>4, <2>1, <2>2
  <2>3. CASE a = (n + 1) + 1
    <3>1. KeepsFile(trail[1], wad) /\ Settled(trail[1], wad)
      BY <1>3, <2>1
    <3>2. CASE done
      <4>1. RanAs(c, wad, f) /\ KeepsFile(wad, f)
        BY <3>2 DEF RanAs
      <4> QED
        BY <1>4, <2>3, <3>1, <4>1, KeepsOn, SettledOn
    <3>3. CASE ~done
      BY <1>4, <2>3, <3>1, <3>3
    <3> QED
      BY <3>2, <3>3
  <2> QED
    BY <1>4, <2>2, <2>3
<1>9. trail'[Len(trail')] = wad' /\ Len(trail') = Len(past') + 1
  BY <1>1, <1>4
<1> QED
  BY <1>5, <1>7, <1>8, <1>9 DEF Told

\* Nothing has been made yet.
LEMMA BeginMakes ==
  ASSUME PassInv', count' = 1, new' = <<>>
  PROVE  FirstMade'
<1>1. DOMAIN entries' = 1 .. Len(entries')
  BY DEF PassInv, TypeOK
<1>2. \A k : ~GoneOver(k)'
  <2>1. \A k \in 1 .. Len(entries') : ~(k < count')
    OBVIOUS
  <2> QED
    BY <1>1, <2>1 DEF GoneOver
<1>3. WrittenNow' = {}
  BY <1>2 DEF WrittenNow
<1>4. Tell(new') = 3
  BY DEF Tell, WAD_HEADER_SIZE
<1>5. FreeAt(entries', WrittenNow', Tell(new'))
  BY <1>3, <1>4 DEF FreeAt
<1> QED
  BY <1>2, <1>5 DEF FirstMade, MadeRight, LaidRight

\* Steps that change nothing.
LEMMA StillMade ==
  ASSUME RepeatInv, KeptInv', UNCHANGED vars
  PROVE  RepeatInv'
<1>1. UNCHANGED <<wad, pc, cmd, type, entries, psx_format, old, new, count, lumps, key,
                  elements, past, trail>>
  BY DEF vars, wadfile, merge, sortvars, history
<1>2. FirstMade'
  <2>1. \A k : GoneOver(k)' <=> GoneOver(k)
    BY <1>1 DEF GoneOver, Waits, Deferred, Packs, IsSidedefs, HasName
  <2>2. NoneOfConsoles' <=> NoneOfConsoles
    BY <1>1 DEF NoneOfConsoles, Packs, OldData, Was
  <2>3. MadeRight' <=> MadeRight
    BY <1>1, <2>1 DEF MadeRight, NewData
  <2>4. WrittenNow' = WrittenNow
    BY <1>1, <2>1 DEF WrittenNow
  <2>5. \A k : WrittenBefore(k)' = WrittenBefore(k)
    BY <1>1 DEF WrittenBefore
  <2>6. \A k : PlacedRight(k)' <=> PlacedRight(k)
    BY <1>1, <2>5 DEF PlacedRight
  <2>7. LaidRight' <=> LaidRight
    BY <1>1, <2>1, <2>4, <2>6 DEF LaidRight
  <2> QED
    BY <1>1, <2>2, <2>3, <2>7 DEF RepeatInv, FirstMade
<1>3. SecondMade'
  <2>1. GoneLaid(count)' = GoneLaid(count)
    BY <1>1 DEF GoneLaid
  <2>2. SecondLaid' <=> SecondLaid
    BY <1>1, <2>1 DEF SecondLaid
  <2>3. (KeysRanked' <=> KeysRanked) /\ (MadeOf(old)' <=> MadeOf(old))
    BY <1>1 DEF KeysRanked, Element, Was, MadeOf
  <2> QED
    BY <1>1, <2>2, <2>3 DEF RepeatInv, SecondMade
<1>4. Told'
  BY <1>1 DEF RepeatInv, Told
<1>5. (pc = "reopen" => MadeOf(new))' /\ (pc = "rename" => RanAs(cmd, wad, new))'
  BY <1>1 DEF RepeatInv, MadeOf
<1> QED
  BY <1>2, <1>3, <1>4, <1>5 DEF RepeatInv

LEMMA NextRepeats ==
  ASSUME ConsolesMarked, NotAllEmpty, RepeatInv, [Next]_vars
  PROVE  RepeatInv'
<1>1. KeptInv /\ KeptInv' /\ PassInv' /\ Told /\ FirstMade /\ SecondMade
  BY NextKept DEF RepeatInv, KeptInv
<1>2. ASSUME NEW c, NEW f, NEW done \in BOOLEAN, EndRun(c, f, done),
             IF done THEN RanAs(c, wad, f) /\ Readable(trail[1]) ELSE f = wad
      PROVE  RepeatInv'
  <2>1. pc' = "idle"
    BY <1>2 DEF EndRun, Goto
  <2>2. Told'
    BY <1>1, <1>2, EndRunTells
  <2> QED
    BY <1>1, <2>1, <2>2 DEF RepeatInv, FirstMade, SecondMade
<1>3. ASSUME UNCHANGED <<wad, past, trail>> PROVE Told'
  BY <1>1, <1>3 DEF Told
<1>4. ASSUME NEW c \in Allowed, Begin(c) PROVE RepeatInv'
  <2>1. CASE EndRun(c, wad, FALSE)
    BY <1>2, <2>1
  <2>2. CASE new' = <<>> /\ count' = 1 /\ Goto("lumps") /\ UNCHANGED <<wad, history>>
    <3>1. pc' = "lumps" /\ FirstMade' /\ Told'
      BY <1>1, <1>3, <2>2, BeginMakes DEF Goto, history
    <3> QED
      BY <1>1, <3>1 DEF RepeatInv, SecondMade
  <2> QED
    BY <1>4, <2>1, <2>2 DEF Begin
<1>5. CASE NextLump
  <2>1. pc = "lumps" /\ pc' = "lumps" /\ UNCHANGED <<wad, past, trail>>
    BY <1>5 DEF NextLump, history, Defer, Pack, Stack, Squash, Store, LeaveEmpty, MoreLumps
  <2>2. PassInv /\ Opened
    BY <1>1, <2>1 DEF KeptInv, FirstKept
  <2>3. FirstMade' /\ Told'
    BY <1>1, <1>3, <1>5, <2>1, <2>2, NextLumpMakes
  <2> QED
    BY <1>1, <2>1, <2>3 DEF RepeatInv, SecondMade
<1>6. CASE EndFirstPass
  <2>1. /\ pc' = IF Merging(cmd) THEN "reopen" ELSE "rename"
        /\ UNCHANGED <<wad, cmd, past, trail>>
    BY <1>6 DEF EndFirstPass, Goto, history, Compresses, Merging
  <2>2. MadeOf(new') /\ (~Merging(cmd) => RanAs(cmd, wad, new')) /\ Told'
    BY <1>1, <1>3, <1>6, <2>1, FirstRan
  <2>3. (pc = "reopen" => MadeOf(new))' /\ (pc = "rename" => RanAs(cmd, wad, new))'
    BY <2>1, <2>2 DEF MadeOf
  <2> QED
    BY <1>1, <2>1, <2>2, <2>3 DEF RepeatInv, FirstMade, SecondMade
<1>7. CASE Reopen
  <2>1. pc = "reopen" /\ pc' = "merge" /\ UNCHANGED <<wad, past, trail>>
    BY <1>7 DEF Reopen, Goto, history
  <2>2. SecondMade' /\ Told'
    BY <1>1, <1>3, <1>7, <2>1, ReopenMakes DEF RepeatInv
  <2> QED
    BY <1>1, <2>1, <2>2 DEF RepeatInv, FirstMade
<1>8. CASE SortMapElements
  <2>1. pc' = "merge" /\ UNCHANGED <<wad, past, trail>>
    BY <1>8 DEF SortMapElements, history
  <2>2. SecondMade' /\ Told'
    BY <1>1, <1>3, <1>8, <2>1, SortMakes
  <2> QED
    BY <1>1, <2>1, <2>2 DEF RepeatInv, FirstMade
<1>9. CASE MergeLump
  <2>1. pc' = "merge" /\ UNCHANGED <<wad, past, trail>>
    BY <1>9 DEF MergeLump, history
  <2>2. SecondMade' /\ Told'
    BY <1>1, <1>3, <1>9, <2>1, MergeLumpMakes
  <2> QED
    BY <1>1, <2>1, <2>2 DEF RepeatInv, FirstMade
<1>10. CASE EndSecondPass
  <2>1. pc' = "rename" /\ UNCHANGED <<wad, cmd, past, trail>>
    BY <1>10 DEF EndSecondPass, Goto, history
  <2>2. RanAs(cmd, wad, new') /\ Told'
    BY <1>1, <1>3, <1>10, <2>1, SecondRan
  <2> QED
    BY <1>1, <2>1, <2>2 DEF RepeatInv, FirstMade, SecondMade
<1>11. CASE Rename
  <2>1. EndRun(cmd, new, TRUE) /\ pc = "rename"
    BY <1>11 DEF Rename
  <2>2. RanAs(cmd, wad, new) /\ Readable(trail[1])
    BY <1>1, <2>1 DEF RepeatInv, KeptInv, Ready
  <2> QED
    BY <1>2, <2>1, <2>2
<1>12. CASE ErrorExit
  <2>1. EndRun(cmd, wad, FALSE)
    BY <1>12 DEF ErrorExit
  <2> QED
    BY <1>2, <2>1
<1>13. CASE UNCHANGED vars
  BY <1>1, <1>13, StillMade
<1> QED
  BY <1>4, <1>5, <1>6, <1>7, <1>8, <1>9, <1>10, <1>11, <1>12, <1>13 DEF Next, Done

\* The same command line gives the same file, word for word, when nothing has
\* come between, and whatever has come between if it can recode each lump either
\* way or not at all (run_tests.sh:52-55, 77-81).
THEOREM RunsRepeat ==
  ASSUME ConsolesMarked, NotAllEmpty
  PROVE  Spec => []Repeatable
<1>1. RepeatInv => Repeatable
  <2> SUFFICES ASSUME RepeatInv, pc = "idle",
                      NEW j \in DOMAIN past, NEW k \in DOMAIN past, j < k,
                      past[j] = past[k], past[j].done,
                      \/ k = j + 1
                      \/ /\ Full(past[k].cmd)
                         /\ \A t \in Thing : HasThing(trail[1], t) => Docile(t)
               PROVE  trail[k + 1] = trail[j + 1]
    BY DEF Repeatable
  <2>1. /\ past \in Seq([cmd : Command, done : BOOLEAN]) /\ trail \in Seq(Seq(Word))
        /\ Told
    BY DEF RepeatInv, KeptInv, PassInv, TypeOK
  <2>2. PICK c : c = past[j].cmd
    OBVIOUS
  <2>3. /\ RanAs(c, trail[j], trail[j + 1]) /\ RanAs(c, trail[k], trail[k + 1])
        /\ Readable(trail[1])
    BY <2>1, <2>2 DEF Told
  <2>4. CASE k = j + 1
    BY <2>3, <2>4, MadeAgain
  <2>5. CASE Full(c) /\ \A t \in Thing : HasThing(trail[1], t) => Docile(t)
    <3>1. /\ Len(past) \in Nat /\ Len(trail) = Len(past) + 1
          /\ DOMAIN past = 1 .. Len(past) /\ DOMAIN trail = 1 .. Len(trail)
      BY <2>1 DEF Told
    <3>2. j \in DOMAIN trail /\ k \in DOMAIN trail
      BY <3>1
    <3>3. \A a \in DOMAIN trail :
            KeepsFile(trail[1], trail[a]) /\ Settled(trail[1], trail[a])
      BY <2>1, <2>3 DEF Told
    <3>4. /\ KeepsFile(trail[1], trail[j]) /\ Settled(trail[1], trail[j])
          /\ KeepsFile(trail[1], trail[k]) /\ Settled(trail[1], trail[k])
      BY <3>1, <3>2, <3>3
    <3> QED
      BY <2>3, <2>5, <3>4, MadeAlike
  <2> QED
    BY <2>2, <2>4, <2>5
<1>2. RepeatInv /\ [Next]_vars => RepeatInv'
  BY NextRepeats
<1>3. Spec => []RepeatInv
  BY <1>2, InitRepeats, PTL DEF Spec
<1> QED
  BY <1>1, <1>3, PTL

-----------------------------------------------------------------------------
(* What lumps amount to *)

\* The lengths of those lumps, and naught for the others.
Amounts(dir, K) ==
  [k \in 1 .. Len(dir) |-> IF k \in K THEN dir[k].length ELSE 0]

\* The lengths of a file's lumps are numbers, and what they amount to is their sum.
LEMMA AmountIs ==
  ASSUME NEW dir \in Seq(Entry), NEW K
  PROVE  /\ Len(dir) \in Nat /\ DOMAIN dir = 1 .. Len(dir)
         /\ \A k \in 1 .. Len(dir) : /\ Amounts(dir, K)[k] \in Nat
                                     /\ dir[k].length \in Nat /\ dir[k].offset \in Nat
         /\ Amount(dir, K) \in Int
         /\ \E u : Sums(u, Amounts(dir, K), Len(dir)) /\ u[Len(dir)] = Amount(dir, K)
<1> DEFINE n == Len(dir)
           v == Amounts(dir, K)
           u == CHOOSE f : f = [k \in 0 .. n |->
                  IF k = 0 THEN 0 ELSE f[k - 1] + (IF k \in K THEN dir[k].length ELSE 0)]
<1>1. n \in Nat /\ DOMAIN dir = 1 .. n
  OBVIOUS
<1>2. \A k \in 1 .. n : dir[k].length \in Nat /\ dir[k].offset \in Nat
  <2>1. \A k \in 1 .. n : dir[k] \in Entry
    OBVIOUS
  <2> QED
    BY <2>1 DEF Entry
<1>3. \A k \in 1 .. n : v[k] = IF k \in K THEN dir[k].length ELSE 0
  BY DEF Amounts
<1>4. \A k \in 1 .. n : v[k] \in Nat /\ v[k] \in Int
  BY <1>2, <1>3
<1>5. Amount(dir, K) = u[n]
  BY DEF Amount
<1> HIDE DEF n, v
<1>6. \A f : [k \in 0 .. n |->
               IF k = 0 THEN 0 ELSE f[k - 1] + (IF k \in K THEN dir[k].length ELSE 0)]
             = [k \in 0 .. n |-> IF k = 0 THEN 0 ELSE f[k - 1] + v[k]]
  <2>1. \A k \in 0 .. n : k # 0 => k \in 1 .. n
    BY <1>1
  <2> QED
    BY <1>3, <2>1
<1>7. \E f : f = [k \in 0 .. n |->
               IF k = 0 THEN 0 ELSE f[k - 1] + (IF k \in K THEN dir[k].length ELSE 0)]
  <2>1. PICK f : f = [k \in 0 .. n |-> IF k = 0 THEN 0 ELSE f[k - 1] + v[k]]
    BY <1>1, <1>4, SumsExist
  <2>2. [k \in 0 .. n |-> IF k = 0 THEN 0 ELSE f[k - 1] + v[k]]
          = [k \in 0 .. n |->
               IF k = 0 THEN 0 ELSE f[k - 1] + (IF k \in K THEN dir[k].length ELSE 0)]
    BY <1>6
  <2> QED
    BY <2>1, <2>2, Zenon
<1>8. u = [k \in 0 .. n |->
            IF k = 0 THEN 0 ELSE u[k - 1] + (IF k \in K THEN dir[k].length ELSE 0)]
  BY <1>7
<1> HIDE DEF u
<1>9. u = [k \in 0 .. n |-> IF k = 0 THEN 0 ELSE u[k - 1] + v[k]]
  BY <1>6, <1>8
<1>10. Sums(u, v, n)
  BY <1>1, <1>4, <1>9, SumsOf
<1>11. u[n] \in Int
  BY <1>1, <1>10 DEF Sums
<1> USE DEF n, v
<1> QED
  BY <1>1, <1>2, <1>4, <1>5, <1>10, <1>11

\* Sums over two parts.
LEMMA AmountSplits ==
  ASSUME NEW dir \in Seq(Entry), NEW K, NEW L, K \cap L = {}, NEW M, M = K \cup L
  PROVE  Amount(dir, M) = Amount(dir, K) + Amount(dir, L)
<1>1. PICK n \in Nat : n = Len(dir)
  BY AmountIs
<1>2. PICK a, b, c : a = Amounts(dir, K) /\ b = Amounts(dir, L) /\ c = Amounts(dir, M)
  OBVIOUS
<1>3. SumIs(Amount(dir, K), a, n)
  BY <1>1, <1>2, AmountIs DEF SumIs
<1>4. SumIs(Amount(dir, L), b, n)
  BY <1>1, <1>2, AmountIs DEF SumIs
<1>5. SumIs(Amount(dir, M), c, n)
  BY <1>1, <1>2, AmountIs DEF SumIs
<1>6. \A k \in 1 .. n : a[k] \in Int /\ b[k] \in Int /\ c[k] = a[k] + b[k]
  <2>1. \A k \in 1 .. n : dir[k].length \in Nat
    BY <1>1, AmountIs
  <2> QED
    BY <1>1, <1>2, <2>1 DEF Amounts
<1> QED
  BY <1>1, <1>3, <1>4, <1>5, <1>6, SumsAddUp

\* One of those lumps has another length than before.
LEMMA AmountChanges ==
  ASSUME NEW dir \in Seq(Entry), NEW now \in Seq(Entry), Len(now) = Len(dir),
         NEW K \in SUBSET DOMAIN dir, NEW j \in K,
         \A k \in DOMAIN dir : k # j => now[k].length = dir[k].length
  PROVE  Amount(now, K) = Amount(dir, K) + now[j].length - dir[j].length
<1> DEFINE n == Len(dir)
           x == now[j].length - dir[j].length
           b == [k \in 1 .. n |-> IF k = j THEN x ELSE 0]
<1>1. n \in Nat /\ DOMAIN dir = 1 .. n /\ DOMAIN now = 1 .. n
      /\ \A k \in 1 .. n : now[k].length \in Nat /\ dir[k].length \in Nat
  BY AmountIs
<1>2. PICK u : Sums(u, Amounts(dir, K), n) /\ u[n] = Amount(dir, K)
  BY AmountIs
<1>3. PICK w : Sums(w, Amounts(now, K), n) /\ w[n] = Amount(now, K)
  BY AmountIs
<1>4. /\ x \in Int /\ \A k \in 1 .. n : b[k] \in Int /\ (k # j => b[k] = 0)
      /\ b[j] = x
  BY <1>1
<1>5. \A k \in 1 .. n :
        /\ Amounts(dir, K)[k] \in Int
        /\ Amounts(now, K)[k] = Amounts(dir, K)[k] + b[k]
  <2>1. \A k \in 1 .. n : /\ Amounts(dir, K)[k] = IF k \in K THEN dir[k].length ELSE 0
                          /\ Amounts(now, K)[k] = IF k \in K THEN now[k].length ELSE 0
    BY <1>1 DEF Amounts
  <2> QED
    BY <1>1, <2>1
<1> HIDE DEF n, b, x
<1>6. PICK v : v = [k \in 0 .. n |-> IF k = 0 THEN 0 ELSE v[k - 1] + b[k]]
  BY <1>1, <1>4, SumsExist
<1>7. Sums(v, b, n)
  BY <1>1, <1>4, <1>6, SumsOf
<1>8. v[n] = x
  BY <1>1, <1>4, <1>7, SumsOne
<1>9. w[n] = u[n] + v[n]
  BY <1>1, <1>2, <1>3, <1>4, <1>5, <1>7, SumsAdd
<1>10. u[n] \in Int
  BY <1>1, <1>2 DEF Sums
<1> QED
  BY <1>1, <1>2, <1>3, <1>8, <1>9, <1>10 DEF x

\* None of those lumps has another length than before.
LEMMA AmountStays ==
  ASSUME NEW dir \in Seq(Entry), NEW now \in Seq(Entry), Len(now) = Len(dir), NEW K,
         \A k \in DOMAIN dir : k \in K => now[k].length = dir[k].length
  PROVE  Amount(now, K) = Amount(dir, K)
<1> DEFINE n == Len(dir)
           none == [k \in 1 .. n |-> 0]
<1>1. n \in Nat /\ DOMAIN dir = 1 .. n
  BY AmountIs
<1>2. Amounts(now, K) = Amounts(dir, K)
  BY <1>1 DEF Amounts
<1>3. SumIs(Amount(dir, K), Amounts(dir, K), n) /\ SumIs(Amount(now, K), Amounts(dir, K), n)
  BY <1>2, AmountIs DEF SumIs
<1>4. \A k \in 1 .. n : Amounts(dir, K)[k] \in Int
  BY AmountIs
<1> HIDE DEF n
<1>5. SumIs(0, none, n)
  <2>1. PICK v : v = [k \in 0 .. n |-> IF k = 0 THEN 0 ELSE v[k - 1] + none[k]]
    <3>1. \A k \in 1 .. n : none[k] \in Int
      OBVIOUS
    <3> HIDE DEF none
    <3> QED
      BY <1>1, <3>1, SumsExist
  <2>2. \A k \in 1 .. n : none[k] = 0 /\ none[k] \in Int
    OBVIOUS
  <2>3. Sums(v, none, n)
    <3> HIDE DEF none
    <3> QED
      BY <1>1, <2>1, <2>2, SumsOf
  <2>4. v[n] = 0
    <3>1. CASE n = 0
      BY <2>3, <3>1 DEF Sums
    <3>2. CASE n # 0
      <4>1. 1 \in 1 .. n
        BY <1>1, <3>2
      <4> HIDE DEF none
      <4> QED
        BY <1>1, <2>2, <2>3, <4>1, SumsOne
    <3> QED
      BY <3>1, <3>2
  <2> QED
    BY <2>3, <2>4 DEF SumIs
<1>6. \A k \in 1 .. n : /\ none[k] \in Int
                        /\ Amounts(dir, K)[k] = Amounts(dir, K)[k] + none[k]
  BY <1>4
<1> HIDE DEF none
<1>7. Amount(now, K) = Amount(dir, K) + 0
  BY <1>1, <1>3, <1>4, <1>5, <1>6, SumsAddUp
<1>8. Amount(dir, K) \in Int
  BY AmountIs
<1> QED
  BY <1>7, <1>8

\* Lumps that do not share words amount to the number of the words they have.
LEMMA AmountCounts ==
  ASSUME NEW dir \in Seq(Entry), NEW K \in SUBSET DOMAIN dir,
         \A j, k \in K : j # k => Span(dir[j]) \cap Span(dir[k]) = {}
  PROVE  /\ IsFiniteSet(UNION {Span(dir[k]) : k \in K})
         /\ Cardinality(UNION {Span(dir[k]) : k \in K}) = Amount(dir, K)
<1> DEFINE n == Len(dir)
           Words(k) == UNION {Span(dir[j]) : j \in K \cap 1 .. k}
<1>1. n \in Nat /\ DOMAIN dir = 1 .. n
      /\ \A k \in 1 .. n : dir[k].length \in Nat /\ dir[k].offset \in Nat
  BY AmountIs
<1>2. PICK u : Sums(u, Amounts(dir, K), n) /\ u[n] = Amount(dir, K)
  BY AmountIs
<1>3. ASSUME NEW k \in 1 .. n
      PROVE  IsFiniteSet(Span(dir[k])) /\ Cardinality(Span(dir[k])) = dir[k].length
  <2>1. PICK a \in Nat, l \in Nat : a = dir[k].offset /\ l = dir[k].length
    BY <1>1
  <2>2. a \in Int /\ a + l - 1 \in Int
    OBVIOUS
  <2>3. IsFiniteSet(a .. a + l - 1)
        /\ Cardinality(a .. a + l - 1)
             = IF a > a + l - 1 THEN 0 ELSE a + l - 1 - a + 1
    BY <2>2, FS_Interval
  <2>4. Span(dir[k]) = a .. a + l - 1
    BY <2>1 DEF Span
  <2> QED
    BY <2>1, <2>3, <2>4
<1> DEFINE S == {k \in 0 .. n : IsFiniteSet(Words(k)) /\ Cardinality(Words(k)) = u[k]}
<1>4. 0 \in S
  <2>1. Words(0) = {}
    OBVIOUS
  <2>2. u[0] = 0 /\ 0 \in 0 .. n
    BY <1>1, <1>2 DEF Sums
  <2> QED
    BY <2>1, <2>2, FS_EmptySet
<1>5. ASSUME NEW k \in 1 .. n, k - 1 \in S PROVE k \in S
  <2>1. /\ IsFiniteSet(Words(k - 1)) /\ Cardinality(Words(k - 1)) = u[k - 1]
        /\ u[k] = u[k - 1] + Amounts(dir, K)[k] /\ u[k - 1] \in Int
    BY <1>2, <1>5 DEF Sums
  <2>2. 1 .. k = 1 .. k - 1 \cup {k}
    OBVIOUS
  <2>3. CASE k \in K
    <3>1. Words(k) = Words(k - 1) \cup Span(dir[k])
      BY <2>2, <2>3
    <3>2. Words(k - 1) \cap Span(dir[k]) = {}
      <4>1. \A j \in K \cap 1 .. k - 1 : j \in K /\ j # k
        OBVIOUS
      <4>2. \A j \in K \cap 1 .. k - 1 : Span(dir[j]) \cap Span(dir[k]) = {}
        BY <2>3, <4>1
      <4> QED
        BY <4>2
    <3>3. Amounts(dir, K)[k] = dir[k].length
      BY <2>3 DEF Amounts
    <3> HIDE DEF Words, S
    <3>4. /\ IsFiniteSet(Words(k))
          /\ Cardinality(Words(k)) =
               Cardinality(Words(k - 1)) + Cardinality(Span(dir[k])) - Cardinality({})
      BY <1>3, <2>1, <3>1, <3>2, FS_Union
    <3>5. Cardinality({}) = 0
      BY FS_EmptySet
    <3>6. Cardinality(Words(k)) = u[k]
      BY <1>1, <1>3, <2>1, <3>3, <3>4, <3>5
    <3> QED
      BY <3>4, <3>6 DEF S
  <2>4. CASE k \notin K
    <3>1. K \cap 1 .. k = K \cap 1 .. k - 1
      BY <2>2, <2>4
    <3>2. Words(k) = Words(k - 1)
      BY <3>1
    <3>3. Amounts(dir, K)[k] = 0
      BY <2>4 DEF Amounts
    <3> HIDE DEF Words
    <3>4. IsFiniteSet(Words(k)) /\ Cardinality(Words(k)) = u[k] /\ k \in 0 .. n
      BY <1>1, <2>1, <3>2, <3>3
    <3> QED
      BY <3>4
  <2> QED
    BY <2>3, <2>4
<1>6. Words(n) = UNION {Span(dir[k]) : k \in K}
  <2>1. K \cap 1 .. n = K
    BY <1>1
  <2> QED
    BY <2>1
<1> HIDE DEF S, n, Words
<1>7. n \in S
  <2>1. \A k \in 0 .. n : k \in S
    BY <1>1, <1>4, <1>5, Upwards
  <2> QED
    BY <1>1, <2>1
<1> QED
  BY <1>2, <1>6, <1>7 DEF S, n

-----------------------------------------------------------------------------
(* How long a file is *)

\* The words of the header and of the directory.
Frame(f) ==
  0 .. WAD_HEADER_SIZE - 1
  \cup DirOffset(f) .. DirOffset(f) + ENTRY_SIZE * NumEntries(f) - 1

\* No lump is over them.
Clear(f) ==
  /\ DirOffset(f) >= WAD_HEADER_SIZE
  /\ \A k \in DOMAIN Directory(f) : Span(Directory(f)[k]) \cap Frame(f) = {}

\* The numbers in a file that can be read.
LEMMA ReadableTyped ==
  ASSUME NEW f \in Seq(Word), Readable(f)
  PROVE  /\ Directory(f) \in Seq(Entry) /\ Len(f) \in Nat /\ DirOffset(f) \in Nat
         /\ NumEntries(f) \in Nat /\ Len(Directory(f)) = NumEntries(f)
         /\ DOMAIN Directory(f) = 1 .. NumEntries(f)
         /\ NumEntries(f) = 0 \/ DirOffset(f) + 4 * NumEntries(f) <= Len(f)
         /\ \A k \in DOMAIN Directory(f) :
              /\ Directory(f)[k].offset \in Nat /\ Directory(f)[k].length \in Nat
              /\ InFile(f, Directory(f)[k])
              /\ Span(Directory(f)[k]) \subseteq 0 .. Len(f) - 1
<1>1. /\ Opens(f) /\ Len(f) \in Nat
      /\ \A k \in DOMAIN Directory(f) : InFile(f, Directory(f)[k])
  BY DEF Readable
<1>2. Directory(f) \in Seq(Entry) /\ NumEntries(f) \in Nat
  BY <1>1, DirectoryTyped
<1>3. DirOffset(f) \in Nat
      /\ (NumEntries(f) = 0 \/ DirOffset(f) + 4 * NumEntries(f) <= Len(f))
  BY <1>1, WordsTyped DEF Opens, DirOffset, ENTRY_SIZE
<1>4. DOMAIN Directory(f) = 1 .. NumEntries(f) /\ Len(Directory(f)) = NumEntries(f)
  BY <1>2 DEF Directory
<1>5. ASSUME NEW k \in DOMAIN Directory(f)
      PROVE  /\ Directory(f)[k].offset \in Nat /\ Directory(f)[k].length \in Nat
             /\ Span(Directory(f)[k]) \subseteq 0 .. Len(f) - 1
  <2>1. Directory(f)[k] \in Entry
    BY <1>2
  <2>2. Directory(f)[k].offset \in Nat /\ Directory(f)[k].length \in Nat
    BY <2>1 DEF Entry
  <2> QED
    BY <1>1, <2>2 DEF InFile, Span
<1> QED
  BY <1>1, <1>2, <1>3, <1>4, <1>5

\* What TightLayout says, without its numbers of owners.
LEMMA TightSays ==
  ASSUME NEW f \in Seq(Word), Readable(f), NEW merged \in BOOLEAN, Tight(f, merged),
         \E k \in DOMAIN Directory(f) : Data(f, k) # <<>>
  PROVE  /\ DirOffset(f) >= 3 /\ Len(f) = DirOffset(f) + 4 * NumEntries(f)
         /\ \A k \in DOMAIN Directory(f) :
              Span(Directory(f)[k]) \subseteq 3 .. DirOffset(f) - 1
         /\ \A a \in 3 .. DirOffset(f) - 1 :
              \E k \in DOMAIN Directory(f) : a \in Span(Directory(f)[k])
         /\ \A j, k \in DOMAIN Directory(f) :
              Span(Directory(f)[j]) \cap Span(Directory(f)[k]) # {} =>
                IF merged THEN Span(Directory(f)[j]) = Span(Directory(f)[k]) ELSE j = k
         /\ merged => \A j, k \in DOMAIN Directory(f) :
              Data(f, j) = Data(f, k) => Span(Directory(f)[j]) = Span(Directory(f)[k])
<1> DEFINE dir == Directory(f)
           Owners(a) == {k \in DOMAIN dir : a \in Span(dir[k])}
           Theirs(a) == {Span(dir[k]) : k \in Owners(a)}
<1>1. /\ Len(f) \in Nat /\ DirOffset(f) \in Nat /\ NumEntries(f) \in Nat
      /\ Len(dir) = NumEntries(f) /\ DOMAIN dir = 1 .. NumEntries(f)
      /\ \A k \in DOMAIN dir : /\ dir[k].offset \in Nat /\ dir[k].length \in Nat
                               /\ Span(dir[k]) \subseteq 0 .. Len(f) - 1
  BY ReadableTyped
<1>2. /\ Len(f) = DirOffset(f) + 4 * Len(dir)
      /\ \A a \in 0 .. Len(f) - 1 :
           IF a < 3 \/ a >= DirOffset(f) THEN Owners(a) = {}
           ELSE IF merged THEN Cardinality(Theirs(a)) = 1
           ELSE Cardinality(Owners(a)) = 1
      /\ merged => \A j, k \in DOMAIN dir :
                     Data(f, j) = Data(f, k) => Span(dir[j]) = Span(dir[k])
  <2>1. dir # <<>>
    BY <1>1
  <2> QED
    BY <2>1 DEF Tight, ENTRY_SIZE, WAD_HEADER_SIZE
<1>3. ASSUME NEW k \in DOMAIN dir, NEW a \in Span(dir[k])
      PROVE  a \in 3 .. DirOffset(f) - 1
  <2>1. a \in 0 .. Len(f) - 1
    BY <1>1, <1>3
  <2>2. k \in Owners(a)
    BY <1>3
  <2>3. ~(a < 3 \/ a >= DirOffset(f))
    BY <1>2, <2>1, <2>2
  <2> QED
    BY <1>1, <2>1, <2>3
<1>4. \A k \in DOMAIN dir : Span(dir[k]) \subseteq 3 .. DirOffset(f) - 1
  BY <1>3
<1>5. DirOffset(f) >= 3
  <2>1. PICK k \in DOMAIN dir : Data(f, k) # <<>>
    OBVIOUS
  <2>2. dir[k].length # 0
    <3>1. [i \in 1 .. 0 |-> f[dir[k].offset + i]] = <<>>
      OBVIOUS
    <3> QED
      BY <2>1, <3>1 DEF Data, CacheLump
  <2>3. dir[k].offset \in Span(dir[k])
    BY <1>1, <2>2 DEF Span
  <2> QED
    BY <1>1, <1>3, <2>3
<1>6. ASSUME NEW a \in 3 .. DirOffset(f) - 1
      PROVE  /\ Owners(a) # {}
             /\ merged => \A j, k \in Owners(a) : Span(dir[j]) = Span(dir[k])
             /\ ~merged => \A j, k \in Owners(a) : j = k
  <2>1. a \in 0 .. Len(f) - 1 /\ ~(a < 3 \/ a >= DirOffset(f))
    BY <1>1, <1>2
  <2>2. IF merged THEN Cardinality(Theirs(a)) = 1 ELSE Cardinality(Owners(a)) = 1
    BY <1>2, <2>1
  <2>3. CASE merged
    <3>1. IsFiniteSet(SUBSET (0 .. Len(f) - 1))
      <4>1. 0 \in Int /\ Len(f) - 1 \in Int
        BY <1>1
      <4> QED
        BY <4>1, FS_Interval, FS_SUBSET
    <3>2. Theirs(a) \in SUBSET SUBSET (0 .. Len(f) - 1)
      BY <1>1
    <3>3. IsFiniteSet(Theirs(a))
      BY <3>1, <3>2, FS_Subset
    <3>4. PICK x : Theirs(a) = {x}
      BY <2>2, <2>3, <3>3, FS_Singleton
    <3>5. \A j \in Owners(a) : Span(dir[j]) \in Theirs(a)
      OBVIOUS
    <3> QED
      BY <2>3, <3>4, <3>5
  <2>4. CASE ~merged
    <3>1. IsFiniteSet(1 .. NumEntries(f))
      <4>1. 1 \in Int /\ NumEntries(f) \in Int
        BY <1>1
      <4> QED
        BY <4>1, FS_Interval
    <3>2. IsFiniteSet(Owners(a))
      <4>1. Owners(a) \in SUBSET (1 .. NumEntries(f))
        BY <1>1
      <4> QED
        BY <3>1, <4>1, FS_Subset
    <3>3. PICK x : Owners(a) = {x}
      BY <2>2, <2>4, <3>2, FS_Singleton
    <3> QED
      BY <2>4, <3>3
  <2> QED
    BY <2>3, <2>4
<1>7. ASSUME NEW a \in 3 .. DirOffset(f) - 1
      PROVE  \E k \in DOMAIN dir : a \in Span(dir[k])
  BY <1>6
<1>8. ASSUME NEW j \in DOMAIN dir, NEW k \in DOMAIN dir, Span(dir[j]) \cap Span(dir[k]) # {}
      PROVE  IF merged THEN Span(dir[j]) = Span(dir[k]) ELSE j = k
  <2>1. PICK a : a \in Span(dir[j]) /\ a \in Span(dir[k])
    BY <1>8
  <2>2. a \in 3 .. DirOffset(f) - 1 /\ j \in Owners(a) /\ k \in Owners(a)
    BY <1>3, <2>1
  <2> QED
    BY <1>6, <2>2
<1> QED
  BY <1>1, <1>2, <1>4, <1>5, <1>7, <1>8

\* A file that was rewritten has no lump over its header or directory.
LEMMA TightIsClear ==
  ASSUME NEW f \in Seq(Word), Readable(f), NEW merged \in BOOLEAN, Tight(f, merged),
         \E k \in DOMAIN Directory(f) : Data(f, k) # <<>>
  PROVE  Clear(f)
<1>1. /\ DirOffset(f) >= 3
      /\ \A k \in DOMAIN Directory(f) : Span(Directory(f)[k]) \subseteq 3 .. DirOffset(f) - 1
  BY TightSays
<1>2. DirOffset(f) \in Nat /\ NumEntries(f) \in Nat
  BY ReadableTyped
<1>3. (3 .. DirOffset(f) - 1) \cap Frame(f) = {}
  BY <1>1, <1>2 DEF Frame, WAD_HEADER_SIZE, ENTRY_SIZE
<1> QED
  BY <1>1, <1>3 DEF Clear, WAD_HEADER_SIZE

\* A file that was rewritten is as long as its header, its directory and its lumps,
\* each content of a merged one counted once.
LEMMA TightLong ==
  ASSUME NEW f \in Seq(Word), Readable(f), NEW merged \in BOOLEAN, Tight(f, merged),
         \E k \in DOMAIN Directory(f) : Data(f, k) # <<>>,
         NEW K, K = DOMAIN Directory(f) \ (IF merged THEN Doubles(f) ELSE {})
  PROVE  Len(f) = 3 + 4 * NumEntries(f) + Amount(Directory(f), K)
<1> DEFINE dir == Directory(f)
           All == UNION {Span(dir[k]) : k \in K}
<1>1. /\ dir \in Seq(Entry) /\ DirOffset(f) \in Nat /\ NumEntries(f) \in Nat
      /\ DOMAIN dir = 1 .. NumEntries(f)
  BY ReadableTyped
<1>2. /\ DirOffset(f) >= 3 /\ Len(f) = DirOffset(f) + 4 * NumEntries(f)
      /\ \A k \in DOMAIN dir : Span(dir[k]) \subseteq 3 .. DirOffset(f) - 1
      /\ \A a \in 3 .. DirOffset(f) - 1 : \E k \in DOMAIN dir : a \in Span(dir[k])
      /\ \A j, k \in DOMAIN dir :
           Span(dir[j]) \cap Span(dir[k]) # {} =>
             IF merged THEN Span(dir[j]) = Span(dir[k]) ELSE j = k
      /\ merged => \A j, k \in DOMAIN dir :
           Data(f, j) = Data(f, k) => Span(dir[j]) = Span(dir[k])
  BY TightSays
<1>3. ASSUME NEW j \in DOMAIN dir, NEW k \in DOMAIN dir, merged, Span(dir[j]) = Span(dir[k]),
             Span(dir[j]) # {}
      PROVE  Data(f, j) = Data(f, k)
  <2>1. /\ dir[j].offset \in Nat /\ dir[j].length \in Nat
        /\ dir[k].offset \in Nat /\ dir[k].length \in Nat
    BY ReadableTyped
  <2>2. dir[j].offset = dir[k].offset /\ dir[j].length = dir[k].length
    <3>1. PICK a \in Nat, l \in Nat, b \in Nat, m \in Nat :
            a = dir[j].offset /\ l = dir[j].length /\ b = dir[k].offset /\ m = dir[k].length
      BY <2>1
    <3>2. a .. a + l - 1 = b .. b + m - 1 /\ a .. a + l - 1 # {}
      BY <1>3, <3>1 DEF Span
    <3>3. l > 0 /\ m > 0
      BY <3>2
    <3>4. /\ a \in a .. a + l - 1 /\ a + l - 1 \in a .. a + l - 1
          /\ b \in b .. b + m - 1 /\ b + m - 1 \in b .. b + m - 1
      BY <3>3
    <3>5. a \in b .. b + m - 1 /\ a + l - 1 \in b .. b + m - 1
          /\ b \in a .. a + l - 1 /\ b + m - 1 \in a .. a + l - 1
      BY <3>2, <3>4
    <3>6. a = b /\ l = m
      BY <3>5
    <3> QED
      BY <3>1, <3>6
  <2> QED
    BY <2>2 DEF Data, CacheLump
<1>4. ASSUME NEW j \in K, NEW k \in K, j # k
      PROVE  Span(dir[j]) \cap Span(dir[k]) = {}
  <2>1. CASE merged
    <3> SUFFICES ASSUME Span(dir[j]) \cap Span(dir[k]) # {} PROVE FALSE
      OBVIOUS
    <3>1. Data(f, j) = Data(f, k)
      BY <1>2, <1>3, <2>1
    <3>2. j \in 1 .. k - 1 \/ k \in 1 .. j - 1
      BY <1>1, <1>4
    <3> QED
      BY <2>1, <3>1, <3>2 DEF Doubles
  <2>2. CASE ~merged
    BY <1>2, <1>4, <2>2
  <2> QED
    BY <2>1, <2>2
<1>5. All = 3 .. DirOffset(f) - 1
  <2>1. \A k \in K : Span(dir[k]) \subseteq 3 .. DirOffset(f) - 1
    BY <1>2
  <2>2. ASSUME NEW a \in 3 .. DirOffset(f) - 1 PROVE \E k \in K : a \in Span(dir[k])
    <3>1. PICK k \in DOMAIN dir : a \in Span(dir[k])
      BY <1>2
    <3>2. CASE merged
      <4> DEFINE T == {j \in DOMAIN dir : Data(f, j) = Data(f, k)}
      <4>1. T \subseteq Nat /\ T # {}
        BY <1>1
      <4>2. PICK m \in T : \A j \in T : m <= j
        BY <4>1, LeastNumber
      <4>3. m \notin Doubles(f)
        <5> SUFFICES ASSUME NEW j \in 1 .. m - 1, Data(f, j) = Data(f, m) PROVE FALSE
          BY DEF Doubles
        <5>1. j \in DOMAIN dir /\ ~(m <= j)
          BY <1>1
        <5> QED
          BY <4>2, <5>1
      <4>4. a \in Span(dir[m])
        BY <1>2, <3>1, <3>2
      <4> QED
        BY <3>2, <4>3, <4>4
    <3>3. CASE ~merged
      BY <3>1, <3>3
    <3> QED
      BY <3>2, <3>3
  <2> QED
    BY <2>1, <2>2
<1>6. Cardinality(All) = Amount(dir, K)
  <2>1. K \in SUBSET DOMAIN dir
    OBVIOUS
  <2> QED
    BY <1>1, <1>4, <2>1, AmountCounts
<1>7. Cardinality(3 .. DirOffset(f) - 1) = DirOffset(f) - 3
  <2>1. PICK n \in Nat : n = DirOffset(f) /\ n >= 3
    BY <1>1, <1>2
  <2>2. 3 \in Int /\ n - 1 \in Int
    OBVIOUS
  <2>3. Cardinality(3 .. n - 1) = IF 3 > n - 1 THEN 0 ELSE n - 1 - 3 + 1
    BY <2>2, FS_Interval
  <2> QED
    BY <2>1, <2>3
<1>8. Amount(dir, K) = DirOffset(f) - 3
  BY <1>5, <1>6, <1>7
<1>9. /\ Len(f) = DirOffset(f) + 4 * NumEntries(f)
      /\ DirOffset(f) \in Nat /\ NumEntries(f) \in Nat
  BY <1>1, <1>2
<1> QED
  BY <1>8, <1>9

\* Two sets that have nothing in common.
LEMMA ApartUnion ==
  ASSUME NEW S, NEW T, IsFiniteSet(S), IsFiniteSet(T), S \cap T = {}
  PROVE  IsFiniteSet(S \cup T) /\ Cardinality(S \cup T) = Cardinality(S) + Cardinality(T)
<1>1. /\ IsFiniteSet(S \cup T)
      /\ Cardinality(S \cup T) = Cardinality(S) + Cardinality(T) - Cardinality(S \cap T)
  BY FS_Union
<1>2. Cardinality(S \cap T) = 0
  BY FS_EmptySet
<1>3. Cardinality(S) \in Nat /\ Cardinality(T) \in Nat
  BY FS_CardinalityType
<1> QED
  BY <1>1, <1>2, <1>3

\* A file whose lumps do not share words and are not over the header or the
\* directory is long enough for all of them.
LEMMA ExpectedFits ==
  ASSUME NEW f \in Seq(Word), Readable(f), Clear(f), Unshared(f), NumEntries(f) # 0
  PROVE  ExpectedSize(Directory(f)) <= Len(f)
<1> DEFINE dir == Directory(f)
           All == UNION {Span(dir[k]) : k \in DOMAIN dir}
<1>1. /\ dir \in Seq(Entry) /\ Len(f) \in Nat /\ DirOffset(f) \in Nat
      /\ NumEntries(f) \in Nat /\ Len(dir) = NumEntries(f)
      /\ DirOffset(f) + 4 * NumEntries(f) <= Len(f)
      /\ \A k \in DOMAIN dir : Span(dir[k]) \subseteq 0 .. Len(f) - 1
  BY ReadableTyped
<1>2. PICK n \in Nat, d \in Nat, m \in Nat :
        n = Len(f) /\ d = DirOffset(f) /\ m = NumEntries(f) /\ d >= 3 /\ d + 4 * m <= n
  BY <1>1 DEF Clear, WAD_HEADER_SIZE
<1>3. IsFiniteSet(All) /\ Cardinality(All) = Amount(dir, DOMAIN dir)
  <2>1. \A j, k \in DOMAIN dir : j # k => Span(dir[j]) \cap Span(dir[k]) = {}
    BY DEF Unshared, Span
  <2> QED
    BY <1>1, <2>1, AmountCounts
<1>4. /\ IsFiniteSet(0 .. 2) /\ Cardinality(0 .. 2) = 3
      /\ IsFiniteSet(d .. d + 4 * m - 1) /\ Cardinality(d .. d + 4 * m - 1) = 4 * m
      /\ IsFiniteSet(0 .. n - 1) /\ Cardinality(0 .. n - 1) = n
  <2>1. \A a, l \in Nat : IsFiniteSet(a .. a + l - 1) /\ Cardinality(a .. a + l - 1) = l
    <3> SUFFICES ASSUME NEW a \in Nat, NEW l \in Nat
                 PROVE  IsFiniteSet(a .. a + l - 1) /\ Cardinality(a .. a + l - 1) = l
      OBVIOUS
    <3>1. a \in Int /\ a + l - 1 \in Int
      OBVIOUS
    <3>2. IsFiniteSet(a .. a + l - 1)
          /\ Cardinality(a .. a + l - 1) = IF a > a + l - 1 THEN 0 ELSE a + l - 1 - a + 1
      BY <3>1, FS_Interval
    <3> QED
      BY <3>2
  <2>2. 0 + 3 - 1 = 2 /\ 0 + n - 1 = n - 1 /\ 4 * m \in Nat
    OBVIOUS
  <2> QED
    BY <2>1, <2>2, ZenonT(60)
<1>5. Frame(f) = 0 .. 2 \cup d .. d + 4 * m - 1
  BY <1>2 DEF Frame, WAD_HEADER_SIZE, ENTRY_SIZE
<1>6. IsFiniteSet(Frame(f)) /\ Cardinality(Frame(f)) = 3 + 4 * m
  <2>1. 0 .. 2 \cap d .. d + 4 * m - 1 = {}
    BY <1>2, SMTT(60)
  <2>2. PICK S, T : S = 0 .. 2 /\ T = d .. d + 4 * m - 1
    OBVIOUS
  <2>3. /\ IsFiniteSet(S) /\ IsFiniteSet(T) /\ S \cap T = {}
        /\ Cardinality(S) = 3 /\ Cardinality(T) = 4 * m /\ Frame(f) = S \cup T
    BY <1>4, <1>5, <2>1, <2>2
  <2> QED
    BY <2>3, ApartUnion, ZenonT(60)
<1>7. /\ IsFiniteSet(Frame(f) \cup All)
      /\ Cardinality(Frame(f) \cup All) = 3 + 4 * m + Amount(dir, DOMAIN dir)
  <2>1. Frame(f) \cap All = {}
    BY DEF Clear
  <2> HIDE DEF All
  <2> QED
    BY <1>3, <1>6, <2>1, ApartUnion, ZenonT(60)
<1>8. Frame(f) \cup All \in SUBSET (0 .. n - 1)
  <2>1. Frame(f) \subseteq 0 .. n - 1
    BY <1>2, <1>5, SMTT(60)
  <2>2. All \subseteq 0 .. n - 1
    BY <1>1, <1>2
  <2> QED
    BY <2>1, <2>2
<1>9. Cardinality(Frame(f) \cup All) <= n
  <2> HIDE DEF All
  <2> QED
    BY <1>4, <1>8, FS_Subset
<1> QED
  BY <1>1, <1>2, <1>7, <1>9 DEF ExpectedSize, WAD_HEADER_SIZE, ENTRY_SIZE

-----------------------------------------------------------------------------
(* What the table says during a run *)

\* LINEDEFS are as long in one form as in another: only the numbers in them differ.
Even(f) ==
  \A k \in DOMAIN Directory(f) :
    Directory(f)[k].name = NameWords("LINEDEFS") =>
      \A t \in Thing : IsThing(Data(f, k), t) =>
        \A a, b \in DOMAIN Sizes[t] \ {"garbled"} : Sizes[t][a] = Sizes[t][b]
LinesEven == \A w \in Wads : Readable(w) => Even(w)

\* No lump is over the header or the directory.
AllClear == \A w \in Wads : Readable(w) => Clear(w)

Methods == {"packed", "stacked", "squashed"}
Row(method, dir) == Amount(dir, LumpsFor(method, dir))
Saved == stats.squashed + stats.stacked + stats.packed
Bulk(dir) == Amount(dir, DOMAIN dir)

\* What is counted of the file f when its lumps are those of dir.
Balance(f, dir) ==
  /\ stats.orig = Len(f)
  /\ stats.junk = Larger(Len(f) - ExpectedSize(Directory(f)), 0)
  /\ \A method \in Methods : stats[method] = Row(method, Directory(f)) - Row(method, dir)

\* What is counted when f has become g.
Closed(c, f, g) ==
  /\ Clear(f) /\ Balance(f, Directory(g)) /\ stats.new = Len(g)
  /\ stats.merged = IF c.allowmerge THEN stats.orig - stats.new - Saved ELSE 0

Numbers == [{"orig", "new", "junk", "packed", "stacked", "squashed", "merged"} -> Int]

\* The table of a run that compresses a file that can be read.
Counting ==
  /\ pc \in {"lumps", "merge"} => Balance(wad, entries) /\ stats.merged = 0
  /\ pc = "reopen" => Balance(wad, Directory(new)) /\ stats.merged = 0
  /\ pc = "rename" => Closed(cmd, wad, new)
Counted ==
  Rewritten /\ Last(past).cmd.op = "compress"
    => Closed(Last(past).cmd, trail[Len(past)], wad)

TableInv ==
  /\ RepeatInv
  /\ Readable(trail[1]) =>
       stats \in Numbers /\ Clear(wad) /\ (Compresses => Counting) /\ Counted

\* What one lump has saved is put down to its method.
LEMMA SavedMore ==
  ASSUME stats \in Numbers, NEW method \in Methods, NEW x \in Int,
         stats' = [stats EXCEPT ![method] = @ + x]
  PROVE  /\ stats' \in Numbers /\ stats'[method] = stats[method] + x
         /\ \A other \in Methods \ {method} : stats'[other] = stats[other]
         /\ stats'.orig = stats.orig /\ stats'.junk = stats.junk
         /\ stats'.merged = stats.merged
<1>1. /\ stats[method] \in Int /\ stats[method] + x \in Int
      /\ method # "orig" /\ method # "junk" /\ method # "merged"
  BY DEF Numbers, Methods
<1>2. PICK y \in Int : y = stats[method] + x
  BY <1>1
<1>3. stats' = [stats EXCEPT ![method] = y]
  BY <1>2
<1> QED
  BY <1>1, <1>2, <1>3 DEF Numbers, Methods

\* What lumps amount to is a number.
LEMMA BulkTyped ==
  ASSUME NEW dir \in Seq(Entry)
  PROVE  Bulk(dir) \in Int /\ \A method \in Methods : Row(method, dir) \in Int
BY AmountIs DEF Bulk, Row

\* The lumps of the methods, in words that the provers have less trouble with.
LEMMA LumpsForIs ==
  ASSUME NEW dir
  PROVE  /\ LumpsFor("stacked", dir)
              = {k \in DOMAIN dir : dir[k].name = NameWords("BLOCKMAP")}
         /\ LumpsFor("packed", dir)
              = {k \in DOMAIN dir : dir[k].name = NameWords("SIDEDEFS")}
         /\ LumpsFor("squashed", dir)
              = {k \in DOMAIN dir : dir[k].name # NameWords("BLOCKMAP")
                                    /\ dir[k].name # NameWords("SIDEDEFS")}
BY DEF LumpsFor

\* Each lump is one for one of the methods.
LEMMA OneMethod ==
  ASSUME NEW dir
  PROVE  /\ \A a, b \in Methods : a # b => LumpsFor(a, dir) \cap LumpsFor(b, dir) = {}
         /\ DOMAIN dir = LumpsFor("squashed", dir)
                           \cup (LumpsFor("stacked", dir) \cup LumpsFor("packed", dir))
<1>1. NameWords("BLOCKMAP") # NameWords("SIDEDEFS")
  BY DEF NameWords
<1>2. PICK b, s : b = NameWords("BLOCKMAP") /\ s = NameWords("SIDEDEFS") /\ b # s
  BY <1>1
<1>3. PICK K, L, M :
        K = LumpsFor("squashed", dir) /\ L = LumpsFor("stacked", dir)
        /\ M = LumpsFor("packed", dir)
  OBVIOUS
<1>4. /\ L = {k \in DOMAIN dir : dir[k].name = b} /\ M = {k \in DOMAIN dir : dir[k].name = s}
      /\ K = {k \in DOMAIN dir : dir[k].name # b /\ dir[k].name # s}
  BY <1>2, <1>3, LumpsForIs
<1>5. K \cap L = {} /\ K \cap M = {} /\ L \cap M = {} /\ DOMAIN dir = K \cup (L \cup M)
  BY <1>2, <1>4
<1>6. \A a, c \in Methods : a # c => LumpsFor(a, dir) \cap LumpsFor(c, dir) = {}
  BY <1>3, <1>5 DEF Methods
<1> QED
  BY <1>3, <1>5, <1>6

\* The methods have the lumps that they had if these have their names.
LEMMA SameLumps ==
  ASSUME NEW dir \in Seq(Entry), NEW now \in Seq(Entry), Len(now) = Len(dir),
         \A k \in DOMAIN dir : now[k].name = dir[k].name, NEW method \in Methods
  PROVE  LumpsFor(method, now) = LumpsFor(method, dir)
<1>1. DOMAIN now = DOMAIN dir
  OBVIOUS
<1>2. PICK b, s : b = NameWords("BLOCKMAP") /\ s = NameWords("SIDEDEFS")
  OBVIOUS
<1>3. ASSUME NEW d
      PROVE  /\ LumpsFor("stacked", d) = {k \in DOMAIN d : d[k].name = b}
             /\ LumpsFor("packed", d) = {k \in DOMAIN d : d[k].name = s}
             /\ LumpsFor("squashed", d)
                  = {k \in DOMAIN d : d[k].name # b /\ d[k].name # s}
  BY <1>2, LumpsForIs
<1>4. /\ {k \in DOMAIN now : now[k].name = b} = {k \in DOMAIN dir : dir[k].name = b}
      /\ {k \in DOMAIN now : now[k].name = s} = {k \in DOMAIN dir : dir[k].name = s}
      /\ {k \in DOMAIN now : now[k].name # b /\ now[k].name # s}
           = {k \in DOMAIN dir : dir[k].name # b /\ dir[k].name # s}
  BY <1>1
<1>5. CASE method = "stacked"
  BY <1>3, <1>4, <1>5, ZenonT(60)
<1>6. CASE method = "packed"
  BY <1>3, <1>4, <1>6, ZenonT(60)
<1>7. CASE method = "squashed"
  BY <1>3, <1>4, <1>7, ZenonT(60)
<1> QED
  BY <1>5, <1>6, <1>7 DEF Methods

\* The rows come to all there is.
LEMMA RowsSplit ==
  ASSUME NEW dir \in Seq(Entry)
  PROVE  Bulk(dir) = Row("squashed", dir) + Row("stacked", dir) + Row("packed", dir)
<1> DEFINE K == LumpsFor("squashed", dir)
           L == LumpsFor("stacked", dir)
           M == LumpsFor("packed", dir)
<1>1. K \cap (L \cup M) = {} /\ L \cap M = {} /\ DOMAIN dir = K \cup (L \cup M)
  BY OneMethod DEF Methods
<1> HIDE DEF K, L, M
<1>2. /\ Amount(dir, DOMAIN dir) = Amount(dir, K) + Amount(dir, L \cup M)
      /\ Amount(dir, L \cup M) = Amount(dir, L) + Amount(dir, M)
  BY <1>1, AmountSplits
<1>3. Amount(dir, K) \in Int /\ Amount(dir, L) \in Int /\ Amount(dir, M) \in Int
  BY AmountIs
<1>4. PICK a \in Int, b \in Int, c \in Int :
        a = Amount(dir, K) /\ b = Amount(dir, L) /\ c = Amount(dir, M)
  BY <1>3
<1>5. Bulk(dir) = a + b + c
  BY <1>2, <1>4 DEF Bulk
<1> QED
  BY <1>4, <1>5 DEF Row, K, L, M

\* A row stays what it is unless one of its lumps changes.
LEMMA RowStays ==
  ASSUME NEW dir \in Seq(Entry), NEW now \in Seq(Entry), Len(now) = Len(dir),
         \A k \in DOMAIN dir : now[k].name = dir[k].name, NEW method \in Methods,
         \A k \in DOMAIN dir : k \in LumpsFor(method, dir) => now[k].length = dir[k].length
  PROVE  Row(method, now) = Row(method, dir)
<1>1. LumpsFor(method, now) = LumpsFor(method, dir)
  BY SameLumps
<1>2. Amount(now, LumpsFor(method, dir)) = Amount(dir, LumpsFor(method, dir))
  BY AmountStays
<1> QED
  BY <1>1, <1>2 DEF Row

\* LINEDEFS stay as long in each form, whatever runs there have been.
LEMMA EvenStays ==
  ASSUME LinesEven, NEW w \in Wads, NEW f, KeepsFile(w, f)
  PROVE  Even(f)
<1>1. Even(w) /\ DOMAIN Directory(w) = DOMAIN Directory(f)
  BY DEF LinesEven, KeepsFile
<1> SUFFICES ASSUME NEW k \in DOMAIN Directory(f),
                    Directory(f)[k].name = NameWords("LINEDEFS"),
                    NEW t \in Thing, IsThing(Data(f, k), t),
                    NEW a \in DOMAIN Sizes[t] \ {"garbled"},
                    NEW b \in DOMAIN Sizes[t] \ {"garbled"}
             PROVE  Sizes[t][a] = Sizes[t][b]
  BY DEF Even
<1>2. Directory(w)[k].name = NameWords("LINEDEFS") /\ IsThing(Data(w, k), t)
  BY <1>1 DEF KeepsFile, Alike
<1> QED
  BY <1>1, <1>2 DEF Even

\* Packing or unpacking a level leaves LINEDEFS as long.
LEMMA LinesAsLong ==
  ASSUME Even(old), NEW k \in DOMAIN Directory(old), Was(k).name = NameWords("LINEDEFS"),
         NEW data, data = OldData(k)
  PROVE  Len(Recoded(data)) = Len(data)
<1>1. CASE Recodes(data)
  <2> DEFINE t == CHOOSE u \in Thing : RecodedAs(data, u)
  <2>1. t \in Thing /\ RecodedAs(data, t)
    BY <1>1 DEF Recodes
  <2>2. Recoded(data) = Content(t, Target)
    BY <1>1 DEF Recoded
  <2> HIDE DEF t
  <2>3. IsThing(data, t) /\ Target \in DOMAIN Sizes[t] \ {"garbled"}
    BY <2>1 DEF RecodedAs, Target
  <2>4. PICK f \in DOMAIN Sizes[t] \ {"garbled"} : data = Content(t, f)
    BY <2>3 DEF IsThing
  <2>5. Sizes[t][f] = Sizes[t][Target]
    BY <2>1, <2>3 DEF Even, Data, OldData, Was
  <2>6. \A g \in DOMAIN Sizes[t] : Len(Content(t, g)) = Sizes[t][g]
    <3>1. \A g \in DOMAIN Sizes[t] : Sizes[t][g] \in Nat
      BY <2>1, SizesAssumption
    <3> QED
      BY <3>1 DEF Content
  <2> QED
    BY <2>2, <2>3, <2>4, <2>5, <2>6
<1>2. CASE ~Recodes(data)
  BY <1>2 DEF Recoded
<1> QED
  BY <1>1, <1>2

\* The lump of one entry is written with another length, which its method has saved
\* on or which is the same.
LEMMA TurnBalances ==
  ASSUME stats \in Numbers, Balance(wad, entries), stats.merged = 0,
         wad' = wad, entries \in Seq(Entry), entries' \in Seq(Entry),
         Directory(wad) \in Seq(Entry),
         Len(entries') = Len(entries), NEW j \in DOMAIN entries,
         \A k \in DOMAIN entries : k # j => entries'[k].length = entries[k].length,
         \A k \in DOMAIN entries : entries'[k].name = entries[k].name,
         NEW x \in Int, x = entries[j].length - entries'[j].length,
         \/ x = 0 /\ UNCHANGED stats
         \/ \E method \in Methods : /\ j \in LumpsFor(method, entries)
                                   /\ stats' = [stats EXCEPT ![method] = @ + x]
  PROVE  Balance(wad, entries)' /\ stats'.merged = 0 /\ stats' \in Numbers
<1>1. PICK now \in Seq(Entry) : now = entries'
  OBVIOUS
<1>2. PICK dir \in Seq(Entry) : dir = entries
  OBVIOUS
<1>3. /\ Len(now) = Len(dir) /\ j \in DOMAIN dir
      /\ \A k \in DOMAIN dir : k # j => now[k].length = dir[k].length
      /\ \A k \in DOMAIN dir : now[k].name = dir[k].name
      /\ x = dir[j].length - now[j].length
      /\ dir[j].length \in Nat /\ now[j].length \in Nat
  <2>1. Len(now) = Len(dir) /\ j \in DOMAIN dir /\ j \in 1 .. Len(dir)
    BY <1>1, <1>2
  <2>2. dir[j].length \in Nat /\ now[j].length \in Nat
    BY <2>1, AmountIs
  <2> QED
    BY <1>1, <1>2, <2>1, <2>2
<1>4. CASE x = 0 /\ UNCHANGED stats
  <2>1. \A k \in DOMAIN dir : now[k].length = dir[k].length
    BY <1>3, <1>4
  <2>2. \A method \in Methods : Row(method, now) = Row(method, dir)
    BY <1>3, <2>1, RowStays
  <2>3. \A method \in Methods :
          stats'[method] = Row(method, Directory(wad')) - Row(method, entries')
    BY <1>1, <1>2, <1>4, <2>2 DEF Balance
  <2> QED
    BY <1>4, <2>3 DEF Balance
<1>5. CASE \E method \in Methods : /\ j \in LumpsFor(method, entries)
                                 /\ stats' = [stats EXCEPT ![method] = @ + x]
  <2>1. PICK its \in Methods : /\ j \in LumpsFor(its, dir)
                              /\ stats' = [stats EXCEPT ![its] = @ + x]
    BY <1>2, <1>5
  <2>2. /\ stats' \in Numbers /\ stats'[its] = stats[its] + x
        /\ \A other \in Methods \ {its} : stats'[other] = stats[other]
        /\ stats'.orig = stats.orig /\ stats'.junk = stats.junk
        /\ stats'.merged = stats.merged
    BY <2>1, SavedMore
  <2>3. Row(its, now) = Row(its, dir) - x
    <3>1. LumpsFor(its, now) = LumpsFor(its, dir)
      BY <1>3, SameLumps
    <3>2. PICK K \in SUBSET DOMAIN dir : K = LumpsFor(its, dir) /\ j \in K
      BY <2>1 DEF LumpsFor
    <3>3. Amount(now, K) = Amount(dir, K) + now[j].length - dir[j].length
      <4>1. Len(now) = Len(dir) /\ j \in K
        BY <1>3, <3>2
      <4>2. \A k \in DOMAIN dir : k # j => now[k].length = dir[k].length
        BY <1>3
      <4> QED
        BY <4>1, <4>2, AmountChanges
    <3>4. Row(its, now) = Row(its, dir) + now[j].length - dir[j].length
      BY <3>1, <3>2, <3>3 DEF Row
    <3>5. Row(its, dir) \in Int
      BY BulkTyped
    <3> QED
      BY <1>3, <3>4, <3>5
  <2>4. ASSUME NEW other \in Methods \ {its} PROVE Row(other, now) = Row(other, dir)
    <3>1. j \notin LumpsFor(other, dir)
      BY <2>1, OneMethod
    <3> QED
      BY <1>3, <3>1, RowStays
  <2>5. stats'[its] = Row(its, Directory(wad)) - Row(its, now)
    <3>1. stats[its] = Row(its, Directory(wad)) - Row(its, dir)
      BY <1>2 DEF Balance
    <3>2. Row(its, Directory(wad)) \in Int /\ Row(its, dir) \in Int
      BY BulkTyped
    <3> QED
      BY <2>2, <2>3, <3>1, <3>2
  <2>6. \A method \in Methods : stats'[method] = Row(method, Directory(wad)) - Row(method, now)
    BY <1>2, <2>2, <2>4, <2>5, SMTT(60) DEF Balance
  <2>7. /\ stats'.orig = Len(wad')
        /\ stats'.junk = Larger(Len(wad') - ExpectedSize(Directory(wad')), 0)
    BY <2>2 DEF Balance
  <2> QED
    BY <1>1, <2>2, <2>6, <2>7 DEF Balance
<1> QED
  BY <1>4, <1>5

\* Each turn of the first pass counts what it saves.
LEMMA NextLumpBalances ==
  ASSUME KeptInv, PassInv', NextLump, Compresses, Readable(trail[1]), LinesEven,
         stats \in Numbers, Balance(wad, entries), stats.merged = 0
  PROVE  Balance(wad, entries)' /\ stats'.merged = 0 /\ stats' \in Numbers
<1>1. /\ PassInv /\ Opened /\ MoreLumps /\ wad' = wad /\ Ready
  BY DEF NextLump, KeptInv, FirstKept, Defer, Pack, Stack, Squash, Store, LeaveEmpty,
         MoreLumps
<1>2. /\ entries \in Seq(Entry) /\ entries' \in Seq(Entry) /\ count \in 1 .. Len(entries)
      /\ count \in DOMAIN entries /\ DOMAIN entries = 1 .. Len(entries)
      /\ entries[count] = Was(count) /\ old \in Seq(Word)
      /\ \A k \in DOMAIN entries : entries[k].length \in Nat /\ entries[k].offset \in Nat
  <2>1. entries' \in Seq(Entry) /\ entries \in Seq(Entry) /\ old \in Seq(Word)
    BY <1>1 DEF PassInv, TypeOK
  <2>2. \A k \in DOMAIN entries : entries[k].length \in Nat /\ entries[k].offset \in Nat
    BY <2>1, AmountIs
  <2> QED
    BY <1>1, <2>1, <2>2, Untouched
<1>3. /\ Directory(wad) \in Seq(Entry) /\ Even(old) /\ Len(Directory(old)) = Len(entries)
      /\ DOMAIN Directory(old) = DOMAIN entries
  <2>1. KeepsFile(trail[1], wad) /\ trail[1] \in Wads
    BY <1>1 DEF Ready, Same
  <2>2. wad \in Seq(Word) /\ Readable(wad)
    BY <1>1, <2>1 DEF PassInv, TypeOK, KeepsFile
  <2>3. Len(entries) = NumEntries(old)
    BY <1>1 DEF PassInv, FirstPass, MoreLumps
  <2> QED
    BY <1>1, <1>2, <2>1, <2>2, <2>3, EvenStays, ReadableTyped DEF Opened
<1>4. ASSUME NEW data, WriteWadLump(data), Len(data) \in Nat
      PROVE  /\ Len(entries') = Len(entries) /\ entries'[count].length = Len(data)
             /\ \A k \in DOMAIN entries : k # count => entries'[k].length = entries[k].length
             /\ \A k \in DOMAIN entries : entries'[k].name = entries[k].name
  <2>1. entries' = [entries EXCEPT ![count] = Written(@, new, data)]
    BY <1>4 DEF WriteWadLump
  <2>2. /\ Written(entries[count], new, data).length = Len(data)
        /\ Written(entries[count], new, data).name = entries[count].name
    <3>1. entries[count] \in Entry
      BY <1>2
    <3> QED
      BY <3>1 DEF Written, Entry
  <2> QED
    BY <1>2, <2>1, <2>2
<1>5. CASE Defer
  <2>1. UNCHANGED <<entries, stats>>
    BY <1>5 DEF Defer
  <2>2. 0 = entries[count].length - entries'[count].length
    BY <1>2, <2>1
  <2> QED
    BY <1>1, <1>2, <1>3, <2>1, <2>2, TurnBalances
<1>6. CASE LeaveEmpty
  <2>1. /\ entries' = [entries EXCEPT ![count].offset = 0] /\ UNCHANGED stats
    BY <1>6 DEF LeaveEmpty, NoOffset
  <2>2. entries[count] \in Entry
    BY <1>2
  <2>3. /\ Len(entries') = Len(entries) /\ entries'[count].length = entries[count].length
        /\ \A k \in DOMAIN entries : k # count => entries'[k].length = entries[k].length
        /\ \A k \in DOMAIN entries : entries'[k].name = entries[k].name
    BY <1>2, <2>1, <2>2 DEF Entry
  <2>4. 0 = entries[count].length - entries'[count].length
    BY <1>2, <2>3
  <2>5. UNCHANGED stats
    BY <2>1
  <2> QED
    BY <1>1, <1>2, <1>3, <2>3, <2>4, <2>5, TurnBalances
<1>7. ASSUME ~CannotAdd, ~Deferred(count), ~Packed(count), ~Empty(count)
      PROVE  /\ Lump(count) \in Seq(Word) /\ Len(Lump(count)) = entries[count].length
             /\ cmd.allowstack => Len(Restacked(Lump(count))) \in Nat
             /\ Len(Resquashed(Lump(count))) \in Nat
  <2>1. InFile(old, entries[count])
    BY <1>7 DEF CannotAdd
  <2>2. Lump(count) \in Seq(Word) /\ Len(Lump(count)) = entries[count].length
    BY <1>2, <2>1, LumpTyped DEF Lump
  <2>3. /\ Resquashed(Lump(count)) \in Seq(Word)
        /\ cmd.allowstack => Restacked(Lump(count)) \in Seq(Word)
    BY <2>2, ResquashedSame, RestackedSame
  <2> QED
    BY <2>2, <2>3
<1>8. CASE Store
  <2>1. /\ WriteWadLump(Lump(count)) /\ UNCHANGED stats
        /\ Len(Lump(count)) = entries[count].length
    BY <1>7, <1>8 DEF Store, Stored
  <2>2. /\ Len(entries') = Len(entries)
        /\ entries'[count].length = entries[count].length
        /\ \A k \in DOMAIN entries : k # count => entries'[k].length = entries[k].length
        /\ \A k \in DOMAIN entries : entries'[k].name = entries[k].name
    BY <1>2, <1>4, <2>1
  <2>3. 0 = entries[count].length - entries'[count].length
    BY <1>2, <2>2
  <2> QED
    BY <1>1, <1>2, <1>3, <2>1, <2>2, <2>3, TurnBalances
<1>9. ASSUME NEW method \in Methods, count \in LumpsFor(method, entries), NEW data,
             WriteWadLump(data), Len(data) \in Nat, stats' = Saving(method, data)
      PROVE  Balance(wad, entries)' /\ stats'.merged = 0 /\ stats' \in Numbers
  <2> DEFINE x == entries[count].length - Len(data)
  <2>1. /\ Len(entries') = Len(entries) /\ entries'[count].length = Len(data)
        /\ \A k \in DOMAIN entries : k # count => entries'[k].length = entries[k].length
        /\ \A k \in DOMAIN entries : entries'[k].name = entries[k].name
    BY <1>4, <1>9
  <2>2. x \in Int /\ x = entries[count].length - entries'[count].length
    BY <1>2, <1>9, <2>1
  <2>3. stats' = [stats EXCEPT ![method] = @ + x]
    <3>1. stats[method] \in Int
      BY DEF Numbers, Methods
    <3>2. stats' = [stats EXCEPT ![method] = @ + entries[count].length - Len(data)]
      BY <1>9 DEF Saving
    <3>3. stats[method] + entries[count].length - Len(data) = stats[method] + x
      BY <1>2, <1>9, <3>1
    <3> QED
      BY <3>2, <3>3
  <2> HIDE DEF x
  <2> QED
    BY <1>1, <1>2, <1>3, <1>9, <2>1, <2>2, <2>3, TurnBalances
<1>10. CASE Stack
  <2>1. /\ WriteWadLump(Restacked(Lump(count)))
        /\ stats' = Saving("stacked", Restacked(Lump(count)))
        /\ Len(Restacked(Lump(count))) \in Nat
    BY <1>7, <1>10 DEF Stack, Stacked, Empty, Stored
  <2>2. "stacked" \in Methods /\ count \in LumpsFor("stacked", entries)
    BY <1>2, <1>10, LumpsForIs DEF Stack, Stacked, HasName, Methods
  <2> QED
    BY <1>9, <2>1, <2>2
<1>11. CASE Squash
  <2>1. /\ WriteWadLump(Resquashed(Lump(count)))
        /\ stats' = Saving("squashed", Resquashed(Lump(count)))
        /\ Len(Resquashed(Lump(count))) \in Nat
    BY <1>7, <1>11 DEF Squash, Empty, Stored
  <2>2. "squashed" \in Methods /\ count \in LumpsFor("squashed", entries)
    <3>1. \A name \in NoPicture : ~HasName(count, name)
      BY <1>11 DEF Squash, Squashed, IsGraphic
    <3>2. ~HasName(count, "BLOCKMAP") /\ ~HasName(count, "SIDEDEFS")
      BY <3>1, NamesAssumption
    <3> QED
      BY <1>2, <3>2, LumpsForIs DEF HasName, Methods
  <2> QED
    BY <1>9, <2>1, <2>2
<1>12. CASE Pack
  <2> DEFINE ld == Level(count)[1]
             sd == Level(count)[2]
             then == WithLump(new, ld)
             x == entries[count].length - Len(sd)
  <2>1. /\ Packed(count) /\ ~CannotAdd
        /\ entries' = [entries EXCEPT ![count - 1] = Written(@, new, ld),
                                      ![count] = Written(@, then, sd)]
        /\ stats' = Saving("packed", sd)
    BY <1>12 DEF Pack
  <2>2. /\ count - 1 \in DOMAIN entries /\ (count - 1) + 1 = count /\ count - 1 # count
        /\ InFile(old, entries[count]) /\ InFile(old, entries[count - 1])
        /\ HasName(count - 1, "LINEDEFS") /\ count - 1 \in Nat
    <3>1. count # 1
      BY <2>1 DEF Packed, IsSidedefs
    <3> QED
      BY <1>2, <2>1, <3>1 DEF CannotAdd, Packed, IsSidedefs
  <2>3. entries[count - 1] = Was(count - 1)
    <3>1. Waits(count - 1)
      BY <2>1, <2>2 DEF Waits, Deferred, Packed
    <3> QED
      BY <1>1, <2>2, <3>1, Untouched
  <2>4. /\ Lump(count) \in Seq(Word) /\ Lump(count - 1) \in Seq(Word)
        /\ Len(Lump(count - 1)) = entries[count - 1].length
        /\ Lump(count - 1) = OldData(count - 1)
    BY <1>2, <2>2, <2>3, LumpTyped DEF Lump, OldData
  <2>5. ld \in Seq(Word) /\ sd \in Seq(Word)
    BY <2>1, <2>4, LevelSame DEF Packed
  <2>6. Len(ld) = entries[count - 1].length
    <3>1. ld = Lump(count - 1) \/ ld = Recoded(Lump(count - 1))
      BY DEF Level
    <3>2. Was(count - 1).name = NameWords("LINEDEFS")
      BY <2>2, <2>3 DEF HasName
    <3>3. Len(Recoded(Lump(count - 1))) = Len(Lump(count - 1))
      BY <1>3, <2>2, <2>4, <3>2, LinesAsLong
    <3> QED
      BY <2>4, <3>1, <3>3
  <2> HIDE DEF ld, sd, then
  <2>7. /\ Len(entries') = Len(entries) /\ entries'[count].length = Len(sd)
        /\ \A k \in DOMAIN entries : k # count => entries'[k].length = entries[k].length
        /\ \A k \in DOMAIN entries : entries'[k].name = entries[k].name
    <3>1. entries[count] \in Entry /\ entries[count - 1] \in Entry
      BY <1>2, <2>2
    <3>2. /\ Written(entries[count], then, sd).length = Len(sd)
          /\ Written(entries[count - 1], new, ld).length = Len(ld)
          /\ Written(entries[count], then, sd).name = entries[count].name
          /\ Written(entries[count - 1], new, ld).name = entries[count - 1].name
      BY <3>1 DEF Written, Entry
    <3>3. /\ Len(entries') = Len(entries)
          /\ entries'[count] = Written(entries[count], then, sd)
          /\ entries'[count - 1] = Written(entries[count - 1], new, ld)
          /\ \A k \in DOMAIN entries \ {count - 1, count} : entries'[k] = entries[k]
      BY <1>2, <2>1, <2>2
    <3> QED
      BY <2>6, <3>2, <3>3
  <2>8. x \in Int /\ x = entries[count].length - entries'[count].length
    <3>1. Len(sd) \in Nat
      BY <2>5
    <3> QED
      BY <1>2, <2>7, <3>1
  <2>9. stats' = [stats EXCEPT !["packed"] = @ + x]
    <3>1. stats["packed"] \in Int /\ Len(sd) \in Nat
      BY <2>5 DEF Numbers
    <3>2. stats' = [stats EXCEPT !["packed"] = @ + entries[count].length - Len(sd)]
      BY <2>1 DEF Saving
    <3>3. stats["packed"] + entries[count].length - Len(sd) = stats["packed"] + x
      BY <1>2, <3>1
    <3> QED
      BY <3>2, <3>3
  <2>10. "packed" \in Methods /\ count \in LumpsFor("packed", entries)
    BY <1>2, <2>1, LumpsForIs DEF Packed, IsSidedefs, HasName, Methods
  <2> HIDE DEF x
  <2> QED
    BY <1>1, <1>2, <1>3, <2>7, <2>8, <2>9, <2>10, TurnBalances
<1> QED
  BY <1>5, <1>6, <1>8, <1>10, <1>11, <1>12 DEF NextLump

\* A run begins with a table of noughts.
LEMMA NoStatsTyped == NoStats \in Numbers
BY DEF NoStats, Numbers

\* The first pass ends with the directory that is written.
LEMMA EndFirstPassBalances ==
  ASSUME KeptInv, EndFirstPass, ConsolesMarked, NotAllEmpty, Compresses, stats \in Numbers,
         Balance(wad, entries), stats.merged = 0, Clear(wad)
  PROVE  /\ stats' \in Numbers
         /\ pc' \in {"reopen", "rename"}
         /\ pc' = "reopen" => Balance(wad, Directory(new))' /\ stats'.merged = 0
         /\ pc' = "rename" => Closed(cmd, wad, new)'
<1>1. /\ stats' = [stats EXCEPT !.new = Len(new')]
      /\ pc' = IF cmd.allowmerge THEN "reopen" ELSE "rename"
      /\ UNCHANGED <<wad, cmd>>
  BY DEF EndFirstPass, Goto, Compresses
<1>2. PICK g : g = new'
  OBVIOUS
<1>3. Directory(g) = entries /\ Len(g) \in Nat
  BY <1>2, FirstPassWritten
<1>4. /\ stats' \in Numbers /\ stats'.new = Len(g)
      /\ stats'.orig = stats.orig /\ stats'.junk = stats.junk /\ stats'.merged = stats.merged
      /\ \A method \in Methods : stats'[method] = stats[method]
  BY <1>1, <1>2, <1>3 DEF Numbers, Methods
<1>5. Balance(wad, Directory(new))'
  BY <1>1, <1>2, <1>3, <1>4 DEF Balance
<1>6. Clear(wad') /\ cmd.allowmerge \in BOOLEAN
  BY <1>1 DEF KeptInv, PassInv, TypeOK, Command
<1> QED
  BY <1>1, <1>2, <1>4, <1>5, <1>6 DEF Closed

\* The second pass leaves every lump its length.
LEMMA MergeLumpBalances ==
  ASSUME PassInv, PassInv', MergeLump, Balance(wad, entries), stats.merged = 0
  PROVE  Balance(wad, entries)' /\ stats'.merged = 0
<1>1. /\ entries \in Seq(Entry) /\ entries' \in Seq(Entry)
      /\ UNCHANGED <<wad, stats>> /\ pc = "merge" /\ count \in DOMAIN elements
  BY DEF PassInv, TypeOK, MergeLump
<1>2. elements[count] \in DOMAIN entries
  BY <1>1, Merges
<1>3. PICK now, x : now = entries' /\ now = [entries EXCEPT ![elements[count]].offset = x]
  BY DEF MergeLump
<1>4. /\ Len(now) = Len(entries)
      /\ \A k \in DOMAIN entries :
           now[k].length = entries[k].length /\ now[k].name = entries[k].name
  <2>1. entries[elements[count]] \in Entry
    BY <1>1, <1>2
  <2> QED
    BY <1>1, <1>2, <1>3, <2>1 DEF Entry
<1>5. \A method \in Methods : Row(method, now) = Row(method, entries)
  BY <1>1, <1>3, <1>4, RowStays
<1> QED
  BY <1>1, <1>3, <1>5 DEF Balance

\* What is counted of merging is what remains of the difference.
LEMMA EndSecondPassBalances ==
  ASSUME KeptInv, EndSecondPass, NotAllEmpty, stats \in Numbers,
         Balance(wad, entries), Clear(wad)
  PROVE  stats' \in Numbers /\ pc' = "rename" /\ Closed(cmd, wad, new)'
<1>1. /\ stats' = [stats EXCEPT !.new = Len(new'),
                                !.merged = stats.orig - Len(new') - stats.squashed
                                             - stats.stacked - stats.packed]
      /\ pc = "merge" /\ pc' = "rename" /\ UNCHANGED <<wad, cmd>>
  BY DEF EndSecondPass, Goto, MergeSaving
<1>2. PICK g : g = new'
  OBVIOUS
<1>3. Directory(g) = entries /\ Len(g) \in Nat
  <2>1. Len(new) \in Nat /\ Len(entries) \in Nat
        /\ Len(new') = Len(new) + 4 * Len(entries) /\ Directory(new') = entries
    BY SecondPassWritten
  <2> QED
    BY <1>2, <2>1
<1>4. /\ stats.orig \in Int /\ stats.squashed \in Int /\ stats.stacked \in Int
      /\ stats.packed \in Int
  BY DEF Numbers
<1>5. /\ stats' \in Numbers /\ stats'.new = Len(g)
      /\ stats'.orig = stats.orig /\ stats'.junk = stats.junk
      /\ stats'.squashed = stats.squashed /\ stats'.stacked = stats.stacked
      /\ stats'.packed = stats.packed
      /\ stats'.merged = stats.orig - Len(g) - stats.squashed - stats.stacked - stats.packed
  <2>1. PICK x \in Int :
          x = stats.orig - Len(g) - stats.squashed - stats.stacked - stats.packed
    BY <1>3, <1>4
  <2>2. PICK n \in Int : n = Len(g)
    BY <1>3
  <2>3. stats' = [stats EXCEPT !.new = n, !.merged = x]
    BY <1>1, <1>2, <2>1, <2>2
  <2>4. /\ stats' \in Numbers /\ stats'.new = n /\ stats'.merged = x
        /\ stats'.orig = stats.orig /\ stats'.junk = stats.junk
        /\ stats'.squashed = stats.squashed /\ stats'.stacked = stats.stacked
        /\ stats'.packed = stats.packed
    BY <2>3 DEF Numbers
  <2> QED
    BY <2>1, <2>2, <2>4
<1>6. Saved' = Saved /\ stats'.merged = stats'.orig - stats'.new - Saved'
  BY <1>3, <1>4, <1>5, SMTT(60) DEF Saved
<1>7. Balance(wad, Directory(new))'
  <2>1. \A method \in Methods : stats'[method] = stats[method]
    BY <1>5 DEF Methods
  <2> QED
    BY <1>1, <1>2, <1>3, <1>5, <2>1 DEF Balance
<1>8. cmd.allowmerge
  BY <1>1 DEF KeptInv, SecondKept, Reopened, Merging
<1> QED
  BY <1>1, <1>2, <1>5, <1>6, <1>7, <1>8 DEF Closed

\* A run begins with nothing saved.
LEMMA BeginBalances ==
  ASSUME RepeatInv, KeptInv', NEW c \in Command, Begin(c), stats \in Numbers
  PROVE  /\ stats' \in Numbers
         /\ wad' = wad /\ trail'[1] = trail[1] /\ ~Rewritten'
         /\ pc' \in {"idle", "lumps"}
         /\ pc' = "lumps" /\ Compresses' => Balance(wad, entries)' /\ stats'.merged = 0
<1>1. /\ trail \in Seq(Seq(Word)) /\ trail # <<>> /\ wad \in Seq(Word)
      /\ past \in Seq([cmd : Command, done : BOOLEAN])
  BY DEF RepeatInv, KeptInv, PassInv, TypeOK, Ready
<1>2. CASE EndRun(c, wad, FALSE) /\ UNCHANGED stats
  <2>1. /\ wad' = wad /\ trail' = Append(trail, wad) /\ pc' = "idle"
        /\ past' = Append(past, [cmd |-> c, done |-> FALSE])
    BY <1>2 DEF EndRun, Goto
  <2>2. trail'[1] = trail[1]
    BY <1>1, <2>1
  <2>3. Last(past').done = FALSE
    <3>1. Len(past') = Len(past) + 1 /\ past'[Len(past) + 1] = [cmd |-> c, done |-> FALSE]
      BY <1>1, <2>1
    <3> QED
      BY <3>1 DEF Last
  <2> QED
    BY <1>2, <2>1, <2>2, <2>3 DEF Rewritten
<1>3. CASE /\ Opens(wad) /\ OpenWadFile(wad) /\ Goto("lumps") /\ UNCHANGED <<wad, history>>
           /\ cmd' = c
           /\ stats' = IF c.op = "decompress" THEN NoStats
                       ELSE [NoStats EXCEPT
                               !.orig = Len(wad),
                               !.junk = Larger(Len(wad) - ExpectedSize(entries'), 0)]
  <2>1. /\ entries' = Directory(wad) /\ pc' = "lumps" /\ UNCHANGED <<wad, past, trail>>
        /\ Directory(wad) \in Seq(Entry) /\ Len(wad) \in Nat
    BY <1>1, <1>3, DirectoryTyped DEF OpenWadFile, Goto, history
  <2>2. ~Rewritten'
    BY <2>1 DEF Rewritten
  <2>3. CASE c.op = "decompress"
    BY <1>3, <2>1, <2>2, <2>3, NoStatsTyped DEF Compresses
  <2>4. CASE c.op # "decompress"
    <3> DEFINE j == Larger(Len(wad) - ExpectedSize(Directory(wad)), 0)
    <3>1. j \in Int
      <4>1. Amount(Directory(wad), DOMAIN Directory(wad)) \in Int
            /\ Len(Directory(wad)) \in Nat
        BY <2>1, AmountIs
      <4>2. ExpectedSize(Directory(wad)) \in Int
        BY <4>1 DEF ExpectedSize, WAD_HEADER_SIZE, ENTRY_SIZE
      <4> QED
        BY <2>1, <4>1, <4>2 DEF Larger
    <3>2. stats' = [NoStats EXCEPT !.orig = Len(wad), !.junk = j]
      BY <1>3, <2>1, <2>4
    <3> HIDE DEF j
    <3>3. /\ stats' \in Numbers /\ stats'.orig = Len(wad) /\ stats'.junk = j
          /\ stats'.merged = 0 /\ stats'.squashed = 0 /\ stats'.stacked = 0
          /\ stats'.packed = 0
      <4>1. PICK n \in Int, i \in Int : n = Len(wad) /\ i = j
        BY <2>1, <3>1
      <4>2. stats' = [NoStats EXCEPT !.orig = n, !.junk = i]
        BY <3>2, <4>1
      <4>3. /\ NoStats \in Numbers /\ NoStats.merged = 0 /\ NoStats.squashed = 0
            /\ NoStats.stacked = 0 /\ NoStats.packed = 0
        BY NoStatsTyped DEF NoStats
      <4>4. PICK none \in Numbers : none = NoStats
        BY <4>3
      <4>5. stats' = [none EXCEPT !.orig = n, !.junk = i]
        BY <4>2, <4>4
      <4>6. /\ stats' \in Numbers /\ stats'.orig = n /\ stats'.junk = i
            /\ stats'.merged = none.merged /\ stats'.squashed = none.squashed
            /\ stats'.stacked = none.stacked /\ stats'.packed = none.packed
        BY <4>4, <4>5 DEF Numbers
      <4> QED
        BY <4>1, <4>3, <4>4, <4>6
    <3>4. \A method \in Methods :
            stats'[method] = Row(method, Directory(wad)) - Row(method, Directory(wad))
      <4>1. \A method \in Methods : Row(method, Directory(wad)) \in Int
        BY <2>1, BulkTyped
      <4>2. \A method \in Methods : stats'[method] = 0
        BY <3>3 DEF Methods
      <4> QED
        BY <4>1, <4>2
    <3>5. Balance(wad, entries)'
      BY <2>1, <3>3, <3>4 DEF Balance, j
    <3> QED
      BY <2>1, <2>2, <3>3, <3>5
  <2> QED
    BY <2>3, <2>4
<1> QED
  BY <1>2, <1>3 DEF Begin

\* What is counted in the middle of a run.
LEMMA MidRun ==
  ASSUME TableInv, RepeatInv', UNCHANGED <<wad, trail, cmd>>, pc' # "idle",
         Readable(trail[1]) => stats' \in Numbers,
         Readable(trail[1]) /\ Compresses => Counting'
  PROVE  TableInv'
<1>1. ~Rewritten'
  BY DEF Rewritten
<1>2. Compresses' <=> Compresses
  BY DEF Compresses
<1> QED
  BY <1>1, <1>2 DEF TableInv, Counted

\* A run that ends leaves the table as it is.
LEMMA EndRunCounted ==
  ASSUME TableInv, RepeatInv', NEW c, NEW f, NEW done \in BOOLEAN, EndRun(c, f, done),
         UNCHANGED stats,
         Readable(trail[1]) => Clear(f),
         Readable(trail[1]) /\ done /\ c.op = "compress" => Closed(c, wad, f)
  PROVE  TableInv'
<1>1. /\ wad' = f /\ past' = Append(past, [cmd |-> c, done |-> done])
      /\ trail' = Append(trail, f) /\ pc' = "idle"
      /\ past \in Seq([cmd : Command, done : BOOLEAN]) /\ trail \in Seq(Seq(Word))
      /\ Told
  BY DEF EndRun, Goto, TableInv, RepeatInv, KeptInv, PassInv, TypeOK
<1>2. PICK n \in Nat : n = Len(past)
  BY <1>1
<1>3. /\ Len(trail) = n + 1 /\ trail[n + 1] = wad
      /\ DOMAIN past = 1 .. n /\ DOMAIN trail = 1 .. n + 1
  BY <1>1, <1>2 DEF Told
<1>4. /\ Len(past') = n + 1 /\ past'[n + 1] = [cmd |-> c, done |-> done]
      /\ \A a \in 1 .. n + 1 : trail'[a] = trail[a]
  BY <1>1, <1>2, <1>3
<1>5. trail'[1] = trail[1] /\ trail'[Len(past')] = wad
  BY <1>3, <1>4
<1>6. Last(past').cmd = c /\ Last(past').done = done
  BY <1>4 DEF Last
<1>7. Readable(trail[1]) => Counted'
  <2> SUFFICES ASSUME Readable(trail[1]), Rewritten', Last(past').cmd.op = "compress"
               PROVE  Closed(Last(past).cmd, trail[Len(past)], wad)'
    BY DEF Counted
  <2>1. done /\ c.op = "compress"
    BY <1>6 DEF Rewritten
  <2>2. PICK w : w = wad
    OBVIOUS
  <2>3. Closed(c, w, f)'
    BY <2>1, <2>2 DEF Closed, Balance, Saved
  <2> QED
    BY <1>1, <1>5, <1>6, <2>2, <2>3
<1>8. Counting'
  BY <1>1 DEF Counting
<1> QED
  BY <1>1, <1>5, <1>7, <1>8 DEF TableInv

\* Nothing is told at first.
LEMMA InitTable ==
  ASSUME AllClear
  PROVE  Init => TableInv
<1> SUFFICES ASSUME Init PROVE TableInv
  OBVIOUS
<1>1. /\ RepeatInv /\ pc = "idle" /\ past = <<>> /\ trail = <<wad>> /\ wad \in Wads
      /\ stats = NoStats
  BY InitRepeats DEF Init
<1>2. trail[1] = wad
  BY <1>1
<1>3. Readable(trail[1]) => Clear(wad)
  BY <1>1, <1>2 DEF AllClear
<1>4. ~Rewritten /\ Counting
  BY <1>1 DEF Rewritten, Counting
<1> QED
  BY <1>1, <1>3, <1>4, NoStatsTyped DEF TableInv, Counted

\* What the table says, from any state to the next.
LEMMA NextTable ==
  ASSUME ConsolesMarked, NotAllEmpty, LinesEven, TableInv, [Next]_vars
  PROVE  TableInv'
<1>1. RepeatInv /\ RepeatInv'
  BY NextRepeats DEF TableInv
<1>2. KeptInv /\ KeptInv' /\ PassInv /\ PassInv' /\ Ready
  BY <1>1 DEF RepeatInv, KeptInv
<1>3. Readable(trail[1]) =>
        stats \in Numbers /\ Clear(wad) /\ (Compresses => Counting) /\ Counted
  BY DEF TableInv
<1>4. ASSUME NEW c \in Allowed, Begin(c) PROVE TableInv'
  <2>1. CASE EndRun(c, wad, FALSE) /\ UNCHANGED stats
    BY <1>1, <1>3, <2>1, EndRunCounted
  <2>2. CASE Opens(wad) /\ OpenWadFile(wad) /\ Goto("lumps") /\ UNCHANGED <<wad, history>>
    <3>1. /\ pc' = "lumps" /\ UNCHANGED <<wad, trail>> /\ c \in Command
      BY <2>2 DEF Goto, history, Allowed
    <3>2. ~Rewritten'
      BY <3>1 DEF Rewritten
    <3>3. Readable(trail[1]) =>
            stats' \in Numbers /\ (Compresses' => Balance(wad, entries)' /\ stats'.merged = 0)
      BY <1>1, <1>2, <1>3, <1>4, <3>1, BeginBalances
    <3>4. Readable(trail[1]) => Clear(wad') /\ (Compresses' => Counting') /\ Counted'
      BY <1>3, <3>1, <3>2, <3>3 DEF Counting, Counted
    <3> QED
      BY <1>1, <3>1, <3>3, <3>4 DEF TableInv
  <2> QED
    BY <1>4, <2>1, <2>2 DEF Begin
<1>5. CASE NextLump
  <2>1. pc = "lumps" /\ pc' = "lumps" /\ UNCHANGED <<wad, trail, cmd>>
    BY <1>5 DEF NextLump, history, Defer, Pack, Stack, Squash, Store, LeaveEmpty, MoreLumps
  <2>2. CASE Compresses
    <3>1. Readable(trail[1]) =>
            stats' \in Numbers /\ Balance(wad, entries)' /\ stats'.merged = 0
      BY <1>2, <1>3, <1>5, <2>1, <2>2, NextLumpBalances DEF Counting
    <3>2. Readable(trail[1]) => Counting'
      BY <2>1, <3>1 DEF Counting
    <3> QED
      BY <1>1, <2>1, <3>1, <3>2, MidRun
  <2>3. CASE ~Compresses
    <3>1. UNCHANGED stats
      BY <1>5, <2>3 DEF NextLump, Defer, Pack, Stack, Squash, Store, LeaveEmpty, Saving
    <3> QED
      BY <1>1, <1>3, <2>1, <2>3, <3>1, MidRun
  <2> QED
    BY <2>2, <2>3
<1>6. CASE EndFirstPass
  <2>1. pc = "lumps" /\ pc' \in {"reopen", "rename"} /\ UNCHANGED <<wad, trail, cmd>>
    BY <1>6 DEF EndFirstPass, Goto, history
  <2>2. CASE Compresses
    <3>1. Readable(trail[1]) =>
            /\ stats' \in Numbers
            /\ pc' = "reopen" => Balance(wad, Directory(new))' /\ stats'.merged = 0
            /\ pc' = "rename" => Closed(cmd, wad, new)'
      BY <1>2, <1>3, <1>6, <2>1, <2>2, EndFirstPassBalances DEF Counting
    <3>2. Readable(trail[1]) => Counting'
      BY <2>1, <3>1 DEF Counting
    <3> QED
      BY <1>1, <2>1, <3>1, <3>2, MidRun
  <2>3. CASE ~Compresses
    <3>1. stats' = [stats EXCEPT !.new = stats.new]
      BY <1>6, <2>3 DEF EndFirstPass
    <3>2. Readable(trail[1]) => stats' \in Numbers
      BY <1>3, <3>1 DEF Numbers
    <3> QED
      BY <1>1, <2>1, <2>3, <3>2, MidRun
  <2> QED
    BY <2>2, <2>3
<1>7. CASE Reopen
  <2>1. /\ pc = "reopen" /\ pc' = "merge" /\ UNCHANGED <<wad, trail, cmd, stats>>
        /\ entries' = Directory(new)
    BY <1>7 DEF Reopen, OpenWadFile, Goto, history
  <2>2. ASSUME Readable(trail[1]), Compresses PROVE Counting'
    <3>1. Balance(wad, Directory(new)) /\ stats.merged = 0
      BY <1>3, <2>1, <2>2 DEF Counting
    <3>2. PICK dir : dir = Directory(new)
      OBVIOUS
    <3>3. Balance(wad, dir)
      BY <3>1, <3>2
    <3>4. Balance(wad, entries)'
      BY <2>1, <3>2, <3>3 DEF Balance
    <3> QED
      BY <2>1, <3>1, <3>4 DEF Counting
  <2> QED
    BY <1>1, <1>3, <2>1, <2>2, MidRun
<1>8. CASE SortMapElements
  <2>1. pc = "merge" /\ pc' = "merge" /\ UNCHANGED <<wad, trail, cmd, stats, entries>>
    BY <1>8 DEF SortMapElements, wadfile, history
  <2>2. ASSUME Readable(trail[1]), Compresses PROVE Counting'
    BY <1>3, <2>1, <2>2 DEF Counting, Balance
  <2> QED
    BY <1>1, <1>3, <2>1, <2>2, MidRun
<1>9. CASE MergeLump
  <2>1. pc = "merge" /\ pc' = "merge" /\ UNCHANGED <<wad, trail, cmd, stats>>
    BY <1>9 DEF MergeLump, history
  <2>2. ASSUME Readable(trail[1]), Compresses PROVE Counting'
    <3>1. Balance(wad, entries)' /\ stats'.merged = 0
      BY <1>2, <1>3, <1>9, <2>1, <2>2, MergeLumpBalances DEF Counting
    <3> QED
      BY <2>1, <3>1 DEF Counting
  <2> QED
    BY <1>1, <1>3, <2>1, <2>2, MidRun
<1>10. CASE EndSecondPass
  <2>1. pc = "merge" /\ pc' = "rename" /\ UNCHANGED <<wad, trail, cmd>>
    BY <1>10 DEF EndSecondPass, Goto, history
  <2>2. Compresses
    BY <1>2, <2>1 DEF KeptInv, SecondKept, Reopened, Merging, Compresses
  <2>3. Readable(trail[1]) => stats' \in Numbers /\ Closed(cmd, wad, new)'
    BY <1>2, <1>3, <1>10, <2>1, <2>2, EndSecondPassBalances DEF Counting
  <2>4. Readable(trail[1]) => Counting'
    BY <2>1, <2>3 DEF Counting
  <2> QED
    BY <1>1, <2>1, <2>3, <2>4, MidRun
<1>11. CASE Rename
  <2>1. EndRun(cmd, new, TRUE) /\ pc = "rename" /\ UNCHANGED stats
    BY <1>11 DEF Rename
  <2>2. /\ Readable(trail[1]) /\ KeepsFile(trail[1], new) /\ Tight(new, Merging(cmd))
        /\ trail[1] \in Wads /\ new \in Seq(Word)
    BY <1>2, <2>1 DEF Ready, PassInv, TypeOK
  <2>3. Clear(new)
    <3>1. Readable(new) /\ \E k \in DOMAIN Directory(new) : Data(new, k) # <<>>
      BY <2>2 DEF NotAllEmpty, KeepsFile, Alike
    <3>2. Merging(cmd) \in BOOLEAN
      BY <1>2 DEF Merging, PassInv, TypeOK, Command
    <3> QED
      BY <2>2, <3>1, <3>2, TightIsClear
  <2>4. cmd.op = "compress" => Closed(cmd, wad, new)
    BY <1>3, <2>1, <2>2 DEF Counting, Compresses
  <2> QED
    BY <1>1, <2>1, <2>3, <2>4, EndRunCounted
<1>12. CASE ErrorExit
  <2>1. EndRun(cmd, wad, FALSE) /\ UNCHANGED stats
    BY <1>12 DEF ErrorExit
  <2> QED
    BY <1>1, <1>3, <2>1, EndRunCounted
<1>13. CASE UNCHANGED vars
  <2>1. UNCHANGED <<wad, pc, cmd, entries, new, stats, past, trail>>
    BY <1>13 DEF vars, wadfile, history
  <2>2. Compresses' = Compresses /\ Rewritten' = Rewritten
    BY <2>1 DEF Compresses, Rewritten
  <2>3. Counting' <=> Counting
    BY <2>1 DEF Counting, Closed, Balance, Saved
  <2>4. Counted' <=> Counted
    BY <2>1, <2>2 DEF Counted, Closed, Balance, Saved
  <2> QED
    BY <1>1, <1>3, <2>1, <2>2, <2>3, <2>4 DEF TableInv
<1> QED
  BY <1>4, <1>5, <1>6, <1>7, <1>8, <1>9, <1>10, <1>11, <1>12, <1>13 DEF Next, Done

\* What merging has saved, with what is added to it: "l" and "g" are the lengths
\* before and after, "m" lumps come to "b" before and to "w" after, of which "x" is
\* not written twice.
LEMMA MergedRow ==
  ASSUME NEW l \in Int, NEW m \in Int, NEW b \in Int, NEW w \in Int, NEW x \in Int,
         NEW g \in Int, g = 3 + 4 * m + w - x
  PROVE  l - g - (b - w) = x + (l - (3 + 4 * m + b))
OBVIOUS

\* Each row of the table tells what it is about, for a file in which no two lumps
\* share words; that of merging has the junk in it too.
THEOREM TableTold ==
  ASSUME ConsolesMarked, NotAllEmpty, LinesEven, AllClear
  PROVE  Spec => []TableTrue
<1>1. TableInv => TableTrue
  <2> DEFINE before == Input
             c == Last(past).cmd
  <2> SUFFICES ASSUME TableInv, Compressed, Unshared(before)
               PROVE  /\ stats.orig = Len(before) /\ stats.new = Len(wad)
                      /\ stats.junk = Len(before) - ExpectedSize(Directory(before))
                      /\ \A method \in Methods :
                           stats[method] = Row(method, Directory(before))
                                             - Row(method, Directory(wad))
                      /\ stats.merged =
                           IF c.allowmerge
                           THEN Amount(Directory(wad), Doubles(wad)) + stats.junk ELSE 0
    BY DEF TableTrue, Methods, Row
  <2>1. /\ past \in Seq([cmd : Command, done : BOOLEAN]) /\ trail \in Seq(Seq(Word))
        /\ wad \in Seq(Word) /\ trail[1] \in Wads
        /\ Told /\ Tight(wad, Merging(c)) /\ past # <<>> /\ Last(past).done
    BY DEF TableInv, RepeatInv, KeptInv, PassInv, TypeOK, Ready, Rewritten, Compressed
  <2>2. /\ Len(past) \in DOMAIN past /\ Len(past) \in DOMAIN trail
        /\ Last(past) = past[Len(past)] /\ Len(trail) \in DOMAIN trail
        /\ trail[Len(trail)] = wad
    <3>1. Len(past) \in Nat /\ Len(past) > 0 /\ Len(trail) = Len(past) + 1
      BY <2>1 DEF Told
    <3> QED
      BY <2>1, <3>1 DEF Told, Last
  <2>3. /\ Readable(trail[1]) /\ KeepsFile(trail[1], before) /\ KeepsFile(trail[1], wad)
        /\ before \in Seq(Word)
    <3>1. Readable(trail[1])
      BY <2>1, <2>2 DEF Told
    <3>2. \A a \in DOMAIN trail : KeepsFile(trail[1], trail[a])
      BY <2>1, <3>1 DEF Told
    <3> QED
      BY <2>1, <2>2, <3>1, <3>2 DEF Input
  <2>4. c \in Command /\ (Merging(c) <=> c.allowmerge) /\ c.allowmerge \in BOOLEAN
    <3>1. PICK r \in [cmd : Command, done : BOOLEAN] : r = Last(past)
      <4>1. ASSUME NEW S, past \in Seq(S) PROVE past[Len(past)] \in S
        BY <2>2, <4>1
      <4> QED
        BY <2>1, <2>2, <4>1
    <3>2. r.cmd \in Command
      OBVIOUS
    <3>3. c \in Command
      BY <3>1, <3>2
    <3> QED
      BY <3>3 DEF Command, Merging, Compressed
  <2>5. Closed(c, before, wad) /\ stats \in Numbers
    BY <2>3 DEF TableInv, Counted, Compressed, Input
  <2> HIDE DEF before, c
  <2>6. Readable(before) /\ Readable(wad)
        /\ \E k \in DOMAIN Directory(wad) : Data(wad, k) # <<>>
    BY <2>1, <2>3 DEF NotAllEmpty, KeepsFile, Alike
  <2>7. /\ Directory(before) \in Seq(Entry) /\ Directory(wad) \in Seq(Entry)
        /\ Len(Directory(before)) = NumEntries(wad)
        /\ Len(before) \in Nat /\ NumEntries(wad) \in Nat /\ NumEntries(before) # 0
    <3>1. DOMAIN Directory(before) = DOMAIN Directory(wad)
      BY <2>3 DEF KeepsFile
    <3>2. /\ DOMAIN Directory(before) # {}
          /\ DOMAIN Directory(before) = 1 .. NumEntries(before)
      BY <2>3, <2>6, <3>1, ReadableTyped
    <3>3. NumEntries(before) # 0
      <4>1. 1 .. 0 = {}
        OBVIOUS
      <4> QED
        BY <3>2, <4>1
    <3>4. Len(Directory(before)) = NumEntries(before) /\ NumEntries(before) \in Nat
      BY <2>3, <2>6, ReadableTyped
    <3>5. Len(Directory(wad)) = NumEntries(wad) /\ NumEntries(wad) \in Nat
      BY <2>1, <2>6, ReadableTyped
    <3>6. Directory(before) \in Seq(Entry) /\ Directory(wad) \in Seq(Entry)
          /\ Len(before) \in Nat
      BY <2>1, <2>3, <2>6, ReadableTyped
    <3>7. Len(Directory(before)) = Len(Directory(wad))
      BY <3>1, <3>6
    <3> QED
      BY <3>3, <3>4, <3>5, <3>6, <3>7
  <2>8. PICK m \in Int, l \in Int, b \in Int, w \in Int, x \in Int :
          /\ m = NumEntries(wad) /\ l = Len(before) /\ b = Bulk(Directory(before))
          /\ w = Bulk(Directory(wad)) /\ x = Amount(Directory(wad), Doubles(wad))
    BY <2>7, BulkTyped, AmountIs
  <2>9. ExpectedSize(Directory(before)) = 3 + 4 * m + b
    BY <2>7, <2>8 DEF ExpectedSize, WAD_HEADER_SIZE, ENTRY_SIZE, Bulk
  <2>10. 3 + 4 * m + b <= l
    BY <2>3, <2>5, <2>6, <2>7, <2>8, <2>9, ExpectedFits DEF Closed
  <2>11. Saved = b - w
    <3>1. \A method \in Methods :
            /\ stats[method] = Row(method, Directory(before)) - Row(method, Directory(wad))
            /\ Row(method, Directory(before)) \in Int /\ Row(method, Directory(wad)) \in Int
      BY <2>5, <2>7, BulkTyped DEF Closed, Balance
    <3>2. PICK p \in Int, q \in Int, r \in Int, t \in Int, u \in Int, v \in Int :
            /\ p = Row("squashed", Directory(before)) /\ q = Row("stacked", Directory(before))
            /\ r = Row("packed", Directory(before)) /\ t = Row("squashed", Directory(wad))
            /\ u = Row("stacked", Directory(wad)) /\ v = Row("packed", Directory(wad))
      BY <3>1 DEF Methods
    <3>3. b = p + q + r /\ w = t + u + v
      BY <2>7, <2>8, <3>2, RowsSplit
    <3>4. stats.squashed = p - t /\ stats.stacked = q - u /\ stats.packed = r - v
      BY <3>1, <3>2 DEF Methods
    <3> QED
      BY <3>3, <3>4 DEF Saved
  <2>12. /\ stats.junk = l - (3 + 4 * m + b) /\ stats.orig = l /\ stats.new = Len(wad)
         /\ stats.merged = IF c.allowmerge THEN l - Len(wad) - (b - w) ELSE 0
    <3>1. Larger(l - (3 + 4 * m + b), 0) = l - (3 + 4 * m + b)
      BY <2>8, <2>10, SMTT(60) DEF Larger
    <3> QED
      BY <2>5, <2>8, <2>9, <2>11, <3>1 DEF Closed, Balance
  <2>13. PICK f : f = Directory(wad)
    OBVIOUS
  <2>14. ASSUME c.allowmerge
         PROVE  stats.merged = Amount(Directory(wad), Doubles(wad)) + stats.junk
    <3> DEFINE K == DOMAIN f \ Doubles(wad)
    <3>1. Len(wad) = 3 + 4 * m + Amount(f, K)
      <4>1. Tight(wad, TRUE)
        BY <2>1, <2>4, <2>14 DEF c
      <4> QED
        BY <2>1, <2>6, <2>8, <2>13, <4>1, TightLong
    <3>2. w = Amount(f, K) + x
      <4>1. K \cap Doubles(wad) = {} /\ DOMAIN f = K \cup Doubles(wad)
        BY <2>13 DEF Doubles
      <4> QED
        BY <2>7, <2>8, <2>13, <4>1, AmountSplits, SMTT(60) DEF Bulk
    <3>3. Amount(f, K) \in Int
      BY <2>7, <2>13, AmountIs
    <3>4. Len(wad) = 3 + 4 * m + w - x
      BY <2>8, <3>1, <3>2, <3>3, SMTT(60)
    <3>5. PICK g \in Int : g = Len(wad) /\ g = 3 + 4 * m + w - x
      BY <2>8, <3>4
    <3>6. stats.merged = x + stats.junk
      BY <2>12, <2>14, <3>5, MergedRow
    <3>7. x \in Int /\ stats.junk \in Int
      BY <2>8, <2>12
    <3> QED
      BY <2>8, <3>6, <3>7
  <2>15. ~c.allowmerge => stats.merged = 0
    BY <2>12
  <2>16. \A method \in Methods :
           stats[method] = Row(method, Directory(before)) - Row(method, Directory(wad))
    BY <2>5 DEF Closed, Balance
  <2> QED
    BY <2>8, <2>9, <2>12, <2>14, <2>15, <2>16
<1>2. TableInv /\ [Next]_vars => TableInv'
  BY NextTable
<1>3. Spec => []TableInv
  BY <1>2, InitTable, PTL DEF Spec
<1> QED
  BY <1>1, <1>3, PTL
=============================================================================
