--------------------------- MODULE WadFileProofs ---------------------------
(***************************************************************************)
(* Neither of the two passes over a file loses a lump, for all files,      *)
(* limits and command lines.                                               *)
(***************************************************************************)
EXTENDS WadFile, SortProofs

\* An entry of the directory has four words.
LEMMA WordsTyped ==
  /\ \A n \in Nat : Long(n) \in Word
  /\ \A t \in Type : Magic(t) \in Word
  /\ \A w : Number(w) \in Nat
  /\ \A n \in Nat : Number(Long(n)) = n
BY MaxPosAssumption DEF Long, Magic, Word, Number

\* A thing has words in each of its forms.
LEMMA ContentTyped ==
  ASSUME NEW t \in Thing, NEW f \in DOMAIN Sizes[t]
  PROVE  Content(t, f) \in Seq(Word) /\ Len(Content(t, f)) \in Nat
<1>1. Sizes[t][f] \in Nat /\ f \in Form
  BY SizesAssumption
<1>2. \A k \in 1 .. Sizes[t][f] : <<"lump", t, f, k>> \in Word
  BY <1>1 DEF Word
<1> QED
  BY <1>1, <1>2 DEF Content

LEMMA DirectoryTyped ==
  ASSUME NEW f \in Seq(Word), Opens(f)
  PROVE  Directory(f) \in Seq(Entry) /\ NumEntries(f) \in Nat
<1>1. /\ NumEntries(f) \in Nat /\ DirOffset(f) \in Nat /\ Len(f) \in Nat
      /\ NumEntries(f) = 0 \/ DirOffset(f) + 4 * NumEntries(f) <= Len(f)
  BY WordsTyped DEF Opens, NumEntries, DirOffset, ENTRY_SIZE
<1>2. ASSUME NEW k \in 1 .. NumEntries(f)
      PROVE  EntryAt(f, DirOffset(f) + ENTRY_SIZE * (k - 1)) \in Entry
  <2> DEFINE a == DirOffset(f) + ENTRY_SIZE * (k - 1)
  <2>1. a + 3 \in 1 .. Len(f) /\ a + 4 \in 1 .. Len(f)
    BY <1>1 DEF ENTRY_SIZE
  <2>2. f[a + 3] \in Word /\ f[a + 4] \in Word
    BY <2>1
  <2> QED
    BY <2>2, WordsTyped DEF EntryAt, Entry
<1> QED
  BY <1>1, <1>2, SMTT(60) DEF Directory

\* What is read from a file are words of it.
LEMMA LumpTyped ==
  ASSUME NEW f \in Seq(Word),
         NEW e, e.offset \in Nat, e.length \in Nat, InFile(f, e)
  PROVE  CacheLump(f, e) \in Seq(Word) /\ Len(CacheLump(f, e)) = e.length
<1>1. \A i \in 1 .. e.length : f[e.offset + i] \in Word
  BY DEF InFile
<1>2. CacheLump(f, e) \in [1 .. e.length -> Word]
  BY <1>1 DEF CacheLump
<1> QED
  BY <1>2

\* What two sequences are together.
LEMMA Joint ==
  ASSUME NEW a \in Seq(Word), NEW b \in Seq(Word)
  PROVE  /\ a \o b \in Seq(Word) /\ Len(a) \in Nat /\ Len(b) \in Nat
         /\ Len(a \o b) = Len(a) + Len(b)
         /\ \A i \in 1 .. Len(a) : (a \o b)[i] = a[i]
         /\ \A i \in 1 .. Len(b) : (a \o b)[Len(a) + i] = b[i]
OBVIOUS

\* The words of a header, and what comes after them.
LEMMA Headed ==
  ASSUME NEW head \in Seq(Word), Len(head) = 3, NEW b \in Seq(Word)
  PROVE  /\ head \o b \in Seq(Word)
         /\ Len(head \o b) = 3 + Len(b)
         /\ (head \o b)[3] = head[3]
         /\ \A i \in 1 .. Len(b) : (head \o b)[3 + i] = b[i]
<1>1. /\ head \o b \in Seq(Word)
      /\ Len(head \o b) = Len(head) + Len(b)
      /\ \A i \in 1 .. Len(head) : (head \o b)[i] = head[i]
      /\ \A i \in 1 .. Len(b) : (head \o b)[Len(head) + i] = b[i]
  BY Joint
<1> QED
  BY <1>1

\* Nothing has been written, or there is room for the header.
HeaderRoom(f) == Len(f) = 0 \/ Len(f) >= WAD_HEADER_SIZE

\* A lump is written after all that the file has, and is found where it is said
\* to be.
LEMMA LumpAppended ==
  ASSUME NEW f \in Seq(Word), HeaderRoom(f), NEW data \in Seq(Word)
  PROVE  /\ WithLump(f, data) \in Seq(Word)
         /\ HeaderRoom(WithLump(f, data))
         /\ Tell(f) \in Nat
         /\ Len(WithLump(f, data)) = Tell(f) + Len(data)
         /\ Tell(f) >= Len(f)
         /\ \A i \in 1 .. Len(data) : WithLump(f, data)[Tell(f) + i] = data[i]
         /\ \A i \in 1 .. Len(f) : WithLump(f, data)[i] = f[i]
<1>1. CASE Len(f) < WAD_HEADER_SIZE
  <2> DEFINE head == [k \in 1 .. WAD_HEADER_SIZE |-> Long(0)]
  <2>1. head \in Seq(Word) /\ Len(head) = 3
    BY WordsTyped DEF WAD_HEADER_SIZE
  <2>2. WithLump(f, data) = head \o data /\ Tell(f) = 3 /\ Len(f) = 0
    BY <1>1 DEF WithLump, Tell, HeaderRoom, WAD_HEADER_SIZE
  <2> HIDE DEF head
  <2>3. /\ head \o data \in Seq(Word)
        /\ Len(head \o data) = 3 + Len(data) /\ Len(data) \in Nat
        /\ \A i \in 1 .. Len(data) : (head \o data)[3 + i] = data[i]
    BY <2>1, Headed
  <2> QED
    BY <2>2, <2>3 DEF HeaderRoom, WAD_HEADER_SIZE
<1>2. CASE ~(Len(f) < WAD_HEADER_SIZE)
  <2>1. WithLump(f, data) = f \o data /\ Tell(f) = Len(f)
    BY <1>2 DEF WithLump, Tell
  <2> QED
    BY <1>2, <2>1 DEF HeaderRoom, WAD_HEADER_SIZE
<1> QED
  BY <1>1, <1>2

\* What could be read before can be read after, and is the same.
LEMMA LumpStays ==
  ASSUME NEW f \in Seq(Word), HeaderRoom(f), NEW data \in Seq(Word),
         NEW e, e.offset \in Nat, e.length \in Nat, InFile(f, e)
  PROVE  /\ InFile(WithLump(f, data), e)
         /\ CacheLump(WithLump(f, data), e) = CacheLump(f, e)
<1>1. /\ Len(f) \in Nat /\ Len(WithLump(f, data)) \in Nat
      /\ Len(WithLump(f, data)) >= Len(f)
  <2>1. /\ Tell(f) \in Nat /\ Tell(f) >= Len(f)
        /\ Len(WithLump(f, data)) = Tell(f) + Len(data)
    BY LumpAppended
  <2>2. Len(f) \in Nat /\ Len(data) \in Nat
    OBVIOUS
  <2> QED
    BY <2>1, <2>2
<1>2. InFile(WithLump(f, data), e)
  BY <1>1 DEF InFile
<1>3. \A i \in 1 .. e.length : WithLump(f, data)[e.offset + i] = f[e.offset + i]
  <2>1. \A i \in 1 .. Len(f) : WithLump(f, data)[i] = f[i]
    BY LumpAppended
  <2>2. \A i \in 1 .. e.length : e.offset + i \in 1 .. Len(f)
    BY <1>1, SMTT(60) DEF InFile
  <2> QED
    BY <2>1, <2>2
<1> QED
  BY <1>2, <1>3 DEF CacheLump

\* What has been written can be read.
LEMMA LumpReads ==
  ASSUME NEW f \in Seq(Word), HeaderRoom(f), NEW data \in Seq(Word),
         NEW e, e.offset = Tell(f), e.length = Len(data)
  PROVE  /\ InFile(WithLump(f, data), e)
         /\ CacheLump(WithLump(f, data), e) = data
<1>1. InFile(WithLump(f, data), e)
  BY LumpAppended DEF InFile
<1>2. \A i \in 1 .. Len(data) : WithLump(f, data)[Tell(f) + i] = data[i]
  BY LumpAppended
<1>3. CacheLump(WithLump(f, data), e) = [i \in 1 .. Len(data) |-> data[i]]
  BY <1>2 DEF CacheLump
<1> QED
  BY <1>1, <1>3

\* The directory is made of words, and the header says where it is.
LEMMA DirectoryWritten ==
  ASSUME NEW f \in Seq(Word), entries \in Seq(Entry), type \in Type
  PROVE  WithDirectory(f) \in Seq(Word) /\ DirOffset(WithDirectory(f)) = Len(f)
<1>1. DirectoryWords \in Seq(Word)
  <2> SUFFICES ASSUME NEW i \in 1 .. ENTRY_SIZE * Len(entries)
               PROVE  EntryWords(entries[((i - 1) \div ENTRY_SIZE) + 1])
                        [((i - 1) % ENTRY_SIZE) + 1] \in Word
    BY DEF DirectoryWords, ENTRY_SIZE
  <2>1. /\ ((i - 1) \div ENTRY_SIZE) + 1 \in 1 .. Len(entries)
        /\ ((i - 1) % ENTRY_SIZE) + 1 \in 1 .. 4
    BY DEF ENTRY_SIZE
  <2>2. ASSUME NEW e \in Entry
        PROVE  EntryWords(e) \in Seq(Word) /\ Len(EntryWords(e)) = 4
    <3>1. /\ e.offset \in Nat /\ e.length \in Nat
          /\ e.name \in Word \X Word
      BY DEF Entry
    <3>2. PICK a \in Word, b \in Word : e.name = <<a, b>>
      BY <3>1
    <3>3. Long(e.offset) \in Word /\ Long(e.length) \in Word
      BY <3>1, WordsTyped
    <3>4. EntryWords(e) = <<Long(e.offset), Long(e.length)>> \o <<a, b>>
      BY <3>2 DEF EntryWords
    <3>5. /\ <<a, b>> \in Seq(Word) /\ Len(<<a, b>>) = 2
          /\ <<Long(e.offset), Long(e.length)>> \in Seq(Word)
          /\ Len(<<Long(e.offset), Long(e.length)>>) = 2
      BY <3>3
    <3> QED
      BY <3>4, <3>5, Joint
  <2> QED
    BY <2>1, <2>2
<1> DEFINE head == <<Magic(type), Long(Len(entries)), Long(Len(f))>>
           all == f \o DirectoryWords
           rest == SubSeq(all, WAD_HEADER_SIZE + 1, Len(all))
<1>2. head \in Seq(Word) /\ Len(head) = 3 /\ head[3] = Long(Len(f))
  BY WordsTyped
<1>3. all \in Seq(Word)
  BY <1>1, Joint
<1>4. WithDirectory(f) = head \o rest
  BY DEF WithDirectory
<1> HIDE DEF head, all
<1>5. rest \in Seq(Word)
  BY <1>3 DEF WAD_HEADER_SIZE
<1> HIDE DEF rest
<1>6. head \o rest \in Seq(Word) /\ (head \o rest)[3] = head[3]
  BY <1>2, <1>5, Headed
<1> QED
  <2>1. Len(f) \in Nat
    OBVIOUS
  <2> QED
    BY <1>2, <1>4, <1>6, <2>1, WordsTyped DEF DirOffset

-----------------------------------------------------------------------------
(* The invariant *)

\* The first pass goes over the directory of the old file, and leaves its names.
FirstPass ==
  pc = "lumps" =>
    /\ Opens(old) /\ HeaderRoom(new)
    /\ Len(entries) = NumEntries(old)
    /\ \A k \in DOMAIN entries : entries[k].name = Directory(old)[k].name

\* The second pass has not begun before the map is sorted, and the lumps it has
\* written are where they are said to be.
Where(l) == [offset |-> l.offset, length |-> Len(l.data)]
SecondPass ==
  pc = "merge" =>
    /\ Opens(old) /\ HeaderRoom(new)
    /\ Len(entries) = NumEntries(old) /\ Len(key) = Len(entries)
    /\ ~Sorted => count = 1 /\ entries = Directory(old)
    /\ \A k \in DOMAIN lumps :
         /\ InFile(new, Where(lumps[k]))
         /\ CacheLump(new, Where(lumps[k])) = lumps[k].data

PassInv == TypeOK /\ SortInv /\ FirstPass /\ SecondPass /\ PassesKeep

\* At first nothing is sorted, written or read.
LEMMA InitPassInv == Init => PassInv
<1> SUFFICES ASSUME Init PROVE PassInv
  OBVIOUS
<1> USE DEF Init
<1>1. wad \in Seq(Word)
  BY WadsAssumption
<1>2. SortInv
  BY DEF SortInv, SortTypeOK, CallsApart, Partitioned, Distinct, Apart, Whole,
         Element, Call
<1>3. TypeOK
  <2>1. cmd \in Command
    BY DEF Command
  <2>2. trail \in Seq(Seq(Word)) /\ past \in Seq([cmd : Command, done : BOOLEAN])
    BY <1>1
  <2>3. lumps \in Seq(Placed)
    OBVIOUS
  <2>4. old \in Seq(Word) /\ new \in Seq(Word) /\ entries \in Seq(Entry)
    OBVIOUS
  <2>5. count \in 1 .. Len(entries) + 1 /\ DOMAIN stats = DOMAIN NoStats
    OBVIOUS
  <2> QED
    BY <1>1, <1>2, <2>1, <2>2, <2>3, <2>4, <2>5 DEF TypeOK, SortInv
<1> QED
  BY <1>2, <1>3 DEF PassInv, FirstPass, SecondPass, PassesKeep

\* A run opens the file, or ends because it cannot.
LEMMA BeginKeeps == ASSUME PassInv, NEW c \in Command, Begin(c) PROVE PassInv'
<1> USE DEF PassInv
<1>1. SortInv'
  BY SortStepKeeps DEF Begin, merge, sortvars
<1>2. CASE ~Opens(wad) /\ EndRun(c, wad, FALSE)
           /\ UNCHANGED <<wadfile, new, count, stats>>
  <2>1. TypeOK'
    BY <1>1, <1>2 DEF TypeOK, Begin, EndRun, Goto, wadfile, merge, SortInv
  <2> QED
    BY <1>1, <1>2, <2>1 DEF FirstPass, SecondPass, PassesKeep, EndRun, Goto
<1>3. CASE /\ Opens(wad) /\ OpenWadFile(wad)
           /\ new' = <<>> /\ count' = 1 /\ Goto("lumps")
           /\ UNCHANGED <<wad, history>>
  <2>1. wad \in Seq(Word)
    BY DEF TypeOK
  <2>2. /\ Directory(wad) \in Seq(Entry) /\ NumEntries(wad) \in Nat
        /\ Len(Directory(wad)) = NumEntries(wad)
    BY <1>3, <2>1, DirectoryTyped DEF Directory
  <2>3. /\ old' = wad /\ entries' = Directory(wad) /\ type' \in Type
    BY <1>3 DEF OpenWadFile, Opens, Magic
  <2>4. TypeOK'
    <3>1. psx_format' \in BOOLEAN
      BY <1>3, Zenon DEF Begin
    <3>2. DOMAIN stats' = DOMAIN NoStats
      BY <1>3 DEF Begin, NoStats
    <3> QED
      BY <1>1, <1>3, <2>1, <2>2, <2>3, <3>1, <3>2
      DEF TypeOK, Begin, Goto, merge, history, SortInv
  <2>5. FirstPass' /\ SecondPass' /\ PassesKeep'
    BY <1>3, <2>1, <2>2, <2>3
    DEF FirstPass, SecondPass, PassesKeep, Goto, HeaderRoom
  <2> QED
    BY <1>1, <2>4, <2>5
<1> QED
  BY <1>2, <1>3 DEF Begin

\* LINEDEFS and SIDEDEFS are not the same name, so no lump is both the one that
\* waits and the one that is waited for.
LEMMA NotBoth ==
  ASSUME NEW k \in Nat
  PROVE  ~(Packed(k) /\ Deferred(k))
<1>1. NameWords("LINEDEFS") # NameWords("SIDEDEFS")
  BY DEF NameWords
<1> QED
  BY <1>1 DEF Packed, Deferred, IsSidedefs, HasName

\* What counts as the same depends on the command line alone.
LEMMA SameThingStays ==
  ASSUME UNCHANGED <<cmd, psx_format>>
  PROVE  \A a, b : SameThing(a, b)' <=> SameThing(a, b)
BY DEF SameThing, Packs, Compresses

\* A codec makes of a lump one that holds the same thing.
LEMMA RecodedSame ==
  ASSUME NEW data \in Seq(Word)
  PROVE  Recoded(data) \in Seq(Word) /\ SameThing(Recoded(data), data)
<1>1. CASE Recodes(data)
  <2> DEFINE t == CHOOSE u \in Thing : RecodedAs(data, u)
  <2>1. t \in Thing /\ RecodedAs(data, t)
    BY <1>1 DEF Recodes
  <2>2. Recoded(data) = Content(t, Target)
    BY <1>1 DEF Recoded
  <2> HIDE DEF t
  <2>3. Target \in DOMAIN Sizes[t] /\ Target # "garbled" /\ IsThing(data, t)
    BY <2>1 DEF RecodedAs, Target
  <2>4. IsThing(Content(t, Target), t)
    BY <2>3 DEF IsThing
  <2> QED
    BY <2>1, <2>2, <2>3, <2>4, ContentTyped DEF SameThing
<1>2. CASE ~Recodes(data)
  BY <1>2 DEF Recoded, SameThing
<1> QED
  BY <1>1, <1>2

\* So do B_Stack and B_Unstack, but for blockmaps that overflow.
LEMMA RestackedSame ==
  ASSUME NEW data \in Seq(Word), cmd.allowstack
  PROVE  Restacked(data) \in Seq(Word) /\ SameThing(Restacked(data), data)
<1>1. CASE IsOverflowed(data) /\ ~Compresses
  <2> DEFINE t == CHOOSE u \in Overflowed : IsThing(data, u)
  <2>1. t \in Overflowed /\ IsThing(data, t)
    BY <1>1 DEF IsOverflowed
  <2>2. Restacked(data) = Content(t, "garbled")
    BY <1>1 DEF Restacked
  <2> HIDE DEF t
  <2>3. t \in Thing /\ "garbled" \in DOMAIN Sizes[t]
    BY <2>1, ThingsAssumption
  <2> QED
    BY <1>1, <2>1, <2>2, <2>3, ContentTyped DEF SameThing
<1>2. CASE ~(IsOverflowed(data) /\ ~Compresses) /\ GivenUp(data)
  BY <1>2 DEF Restacked, SameThing
<1>3. CASE ~(IsOverflowed(data) /\ ~Compresses) /\ ~GivenUp(data)
  BY <1>3, RecodedSame DEF Restacked
<1> QED
  BY <1>1, <1>2, <1>3

\* And S_Squash and S_Unsquash, also when squashing is given up.
LEMMA ResquashedSame ==
  ASSUME NEW data \in Seq(Word)
  PROVE  Resquashed(data) \in Seq(Word) /\ SameThing(Resquashed(data), data)
<1>1. CASE GivenUp(data) /\ \E t \in Thing : Joins(data, t)
  <2> DEFINE t == CHOOSE u \in Thing : Joins(data, u)
  <2>1. t \in Thing /\ Joins(data, t)
    BY <1>1
  <2>2. Resquashed(data) = Content(t, "joined")
    BY <1>1 DEF Resquashed, Joined
  <2> HIDE DEF t
  <2>3. /\ "joined" \in DOMAIN Sizes[t] \ {"garbled"}
        /\ "raw" \in DOMAIN Sizes[t] \ {"garbled"} /\ data = Content(t, "raw")
    BY <2>1, SizesAssumption DEF Joins
  <2>4. IsThing(data, t) /\ IsThing(Content(t, "joined"), t)
    BY <2>3 DEF IsThing
  <2> QED
    BY <2>1, <2>2, <2>3, <2>4, ContentTyped DEF SameThing
<1>2. CASE GivenUp(data) /\ ~\E t \in Thing : Joins(data, t)
  BY <1>2 DEF Resquashed, Joined, SameThing
<1>3. CASE ~GivenUp(data)
  BY <1>3, RecodedSame DEF Resquashed
<1> QED
  BY <1>1, <1>2, <1>3

\* The two lumps of a level are recoded or left alone.
LEMMA LevelSame ==
  ASSUME NEW k, Packs, Lump(k - 1) \in Seq(Word), Lump(k) \in Seq(Word)
  PROVE  /\ Level(k)[1] \in Seq(Word) /\ SameThing(Level(k)[1], Lump(k - 1))
         /\ Level(k)[2] \in Seq(Word) /\ SameThing(Level(k)[2], Lump(k))
<1>1. CASE IsForeign(Lump(k))
  <2> DEFINE t == CHOOSE u \in Foreign : IsThing(Lump(k), u)
  <2>1. t \in Foreign
    BY <1>1 DEF IsForeign
  <2>2. Level(k) = <<Lump(k - 1), Content(t, "garbled")>>
    BY <1>1 DEF Level
  <2> HIDE DEF t
  <2>3. Content(t, "garbled") \in Seq(Word)
    BY <2>1, ThingsAssumption, ContentTyped
  <2> QED
    BY <1>1, <2>2, <2>3 DEF SameThing
<1>2. CASE ~IsForeign(Lump(k)) /\ Recodes(Lump(k - 1)) /\ Recodes(Lump(k))
  <2>1. Level(k) = <<Recoded(Lump(k - 1)), Recoded(Lump(k))>>
    BY <1>2 DEF Level
  <2> QED
    BY <2>1, RecodedSame
<1>3. CASE ~IsForeign(Lump(k)) /\ ~(Recodes(Lump(k - 1)) /\ Recodes(Lump(k)))
  <2>1. Level(k) = <<Lump(k - 1), Lump(k)>>
    BY <1>3 DEF Level
  <2> QED
    BY <2>1 DEF SameThing
<1> QED
  BY <1>1, <1>2, <1>3

-----------------------------------------------------------------------------
(* The first pass *)

\* What a lump was, and is when it has been gone over.
Was(k) == Directory(old)[k]
Waits(k) == k = count - 1 /\ Deferred(k)

LEMMA DeferredStays ==
  ASSUME DOMAIN entries' = DOMAIN entries, UNCHANGED <<cmd, psx_format>>,
         \A k \in DOMAIN entries : entries'[k].name = entries[k].name,
         NEW k \in DOMAIN entries, entries \in Seq(Entry)
  PROVE  Deferred(k)' <=> Deferred(k)
<1>1. k \in Nat /\ (k + 1) - 1 = k
  OBVIOUS
<1>2. IsSidedefs(k + 1)' <=> IsSidedefs(k + 1)
  BY <1>1 DEF IsSidedefs, HasName
<1> QED
  BY <1>2 DEF Deferred, Packs

\* The lump before one that is waited for is the one that waits.
LEMMA WaitsForPacked ==
  ASSUME NEW k \in Nat, Deferred(k), k = count - 1, count \in Nat
  PROVE  Packed(count)
<1>1. k + 1 = count
  OBVIOUS
<1> QED
  BY <1>1 DEF Deferred, Packed

LEMMA KeptStays ==
  ASSUME new \in Seq(Word), HeaderRoom(new), NEW e \in Entry, NEW was,
         Kept(e, was), NEW data \in Seq(Word)
  PROVE  /\ InFile(WithLump(new, data), e)
         /\ SameThing(CacheLump(WithLump(new, data), e), CacheLump(old, was))
<1>1. e.offset \in Nat /\ e.length \in Nat /\ InFile(new, e)
  BY DEF Entry, Kept
<1>2. /\ InFile(WithLump(new, data), e)
      /\ CacheLump(WithLump(new, data), e) = CacheLump(new, e)
  BY <1>1, LumpStays
<1> QED
  BY <1>2 DEF Kept

\* The first pass in one lemma: what a step has to see to.
LEMMA FirstPassStep ==
  ASSUME PassInv, MoreLumps, count' = count + 1,
         UNCHANGED <<pc, cmd, old, psx_format>>,
         entries' \in Seq(Entry), Len(entries') = Len(entries), HeaderRoom(new'),
         \A k \in DOMAIN entries : entries'[k].name = entries[k].name,
         \A k \in DOMAIN entries :
           IF k <= count /\ ~(k = count /\ Deferred(k))
           THEN /\ InFile(new', entries'[k])
                /\ SameThing(CacheLump(new', entries'[k]), CacheLump(old, Was(k)))
           ELSE entries'[k] = Was(k)
  PROVE  FirstPass' /\ PassesKeep'
<1>1. /\ pc = "lumps" /\ pc' = "lumps" /\ entries \in Seq(Entry)
      /\ DOMAIN entries' = DOMAIN entries /\ DOMAIN entries = 1 .. Len(entries)
      /\ count \in Nat /\ Len(entries) \in Nat
  BY DEF MoreLumps, PassInv, TypeOK
<1>2. FirstPass'
  BY <1>1 DEF FirstPass, PassInv
<1>3. ASSUME NEW k \in DOMAIN entries
      PROVE  IF k < count' /\ ~(k = count' - 1 /\ Deferred(k)')
             THEN /\ InFile(new', entries'[k])
                  /\ SameThing(CacheLump(new', entries'[k]), CacheLump(old, Was(k)))
             ELSE entries'[k] = Was(k)
  <2>1. Deferred(k)' <=> Deferred(k)
    BY <1>1, DeferredStays
  <2>2. /\ k < count' <=> k <= count
        /\ k = count' - 1 <=> k = count
    BY <1>1
  <2> QED
    BY <2>1, <2>2
<1>4. PassesKeep'
  BY <1>1, <1>3, SameThingStays DEF PassesKeep, Kept, Was
<1> QED
  BY <1>2, <1>4

\* What is known of a lump that has not been touched.
LEMMA Untouched ==
  ASSUME PassInv, MoreLumps
  PROVE  /\ entries[count] = Was(count) /\ Lump(count) = CacheLump(old, Was(count))
         /\ new \in Seq(Word) /\ HeaderRoom(new) /\ entries \in Seq(Entry)
         /\ count \in 1 .. Len(entries) /\ entries[count] \in Entry
         /\ \A k \in DOMAIN entries :
              /\ k > count \/ Waits(k) => entries[k] = Was(k)
              /\ k < count /\ ~Waits(k) => Kept(entries[k], Was(k))
<1>1. /\ pc = "lumps" /\ entries \in Seq(Entry) /\ count \in DOMAIN entries
      /\ new \in Seq(Word) /\ HeaderRoom(new)
  BY DEF MoreLumps, PassInv, TypeOK, FirstPass
<1>2. \A k \in DOMAIN entries :
         IF k < count /\ ~Waits(k) THEN Kept(entries[k], Was(k))
         ELSE entries[k] = Was(k)
  BY <1>1 DEF PassInv, PassesKeep, Waits, Was
<1> QED
  BY <1>1, <1>2 DEF Lump, Waits

\* A lump is written at its turn.
LEMMA OneWritten ==
  ASSUME PassInv, MoreLumps, ~Packed(count), ~Deferred(count),
         NEW data \in Seq(Word), SameThing(data, Lump(count)), WriteWadLump(data),
         count' = count + 1, UNCHANGED <<pc, cmd, old, psx_format>>
  PROVE  /\ new' \in Seq(Word) /\ entries' \in Seq(Entry)
         /\ Len(entries') = Len(entries)
         /\ FirstPass' /\ PassesKeep'
<1> DEFINE e == entries'[count]
<1>1. /\ new' = WithLump(new, data) /\ new' \in Seq(Word) /\ HeaderRoom(new')
      /\ Tell(new) \in Nat /\ Len(data) \in Nat
  BY Untouched, LumpAppended DEF WriteWadLump
<1>2. /\ entries' \in Seq(Entry) /\ Len(entries') = Len(entries)
      /\ e.offset = Tell(new) /\ e.length = Len(data) /\ e.name = entries[count].name
      /\ \A k \in DOMAIN entries \ {count} : entries'[k] = entries[k]
  <2>1. entries[count] \in Entry /\ entries \in Seq(Entry) /\ count \in 1 .. Len(entries)
    BY Untouched
  <2>2. Written(entries[count], new, data) \in Entry
    BY <1>1, <2>1 DEF Written, Entry
  <2>3. /\ entries' \in Seq(Entry) /\ Len(entries') = Len(entries)
        /\ e = Written(entries[count], new, data)
        /\ \A k \in DOMAIN entries \ {count} : entries'[k] = entries[k]
    BY <2>1, <2>2 DEF WriteWadLump
  <2> QED
    BY <2>1, <2>3 DEF Written, Entry
<1>3. \A k \in DOMAIN entries : entries'[k].name = entries[k].name
  BY <1>2
<1>4. ASSUME NEW k \in DOMAIN entries
      PROVE  IF k <= count /\ ~(k = count /\ Deferred(k))
             THEN /\ InFile(new', entries'[k])
                  /\ SameThing(CacheLump(new', entries'[k]), CacheLump(old, Was(k)))
             ELSE entries'[k] = Was(k)
  <2>1. CASE k = count
    <3>1. InFile(new', e) /\ CacheLump(new', e) = data
      BY <1>1, <1>2, Untouched, LumpReads
    <3> QED
      BY <2>1, <3>1, Untouched
  <2>2. CASE k < count
    <3>1. ~Waits(k)
      BY Untouched, WaitsForPacked DEF Waits
    <3>2. Kept(entries[k], Was(k)) /\ entries[k] \in Entry
      BY <2>2, <3>1, Untouched
    <3>3. entries'[k] = entries[k]
      BY <1>2, <2>2, Untouched
    <3> QED
      BY <1>1, <2>2, <3>2, <3>3, Untouched, KeptStays
  <2>3. CASE k > count
    BY <1>2, <2>3, Untouched
  <2> QED
    BY <2>1, <2>2, <2>3, Untouched
<1> QED
  BY <1>1, <1>2, <1>3, <1>4, FirstPassStep

\* The two lumps of a level are written when the second has its turn.
LEMMA TwoWritten ==
  ASSUME PassInv, Pack, count' = count + 1, UNCHANGED <<pc, cmd, old, psx_format>>
  PROVE  /\ new' \in Seq(Word) /\ entries' \in Seq(Entry)
         /\ Len(entries') = Len(entries)
         /\ FirstPass' /\ PassesKeep'
<1> DEFINE ld == Level(count)[1]
           sd == Level(count)[2]
           then == WithLump(new, ld)
           d == entries'[count - 1]
           e == entries'[count]
<1>1. MoreLumps /\ Packed(count) /\ count - 1 \in DOMAIN entries
  <2>1. MoreLumps /\ Packed(count)
    BY DEF Pack
  <2> QED
    BY <2>1, Untouched DEF Packed, IsSidedefs
<1>2. count \in Nat /\ count - 1 \in Nat /\ ~Deferred(count) /\ Waits(count - 1)
  <2>1. count \in Nat /\ count - 1 \in Nat /\ (count - 1) + 1 = count
    BY <1>1, Untouched
  <2> QED
    BY <1>1, <2>1, NotBoth DEF Packed, Deferred, Waits
<1>3. /\ entries[count - 1] = Was(count - 1)
      /\ Lump(count - 1) = CacheLump(old, Was(count - 1))
  BY <1>1, <1>2, Untouched DEF Lump
<1>4. /\ ld \in Seq(Word) /\ SameThing(ld, Lump(count - 1))
      /\ sd \in Seq(Word) /\ SameThing(sd, Lump(count))
  <2>1. InFile(old, entries[count]) /\ InFile(old, entries[count - 1])
    BY <1>1 DEF Pack, CannotAdd
  <2>2. entries[count] \in Entry /\ entries[count - 1] \in Entry /\ old \in Seq(Word)
    BY <1>1, Untouched DEF PassInv, TypeOK
  <2>3. Lump(count) \in Seq(Word) /\ Lump(count - 1) \in Seq(Word)
    BY <2>1, <2>2, LumpTyped DEF Lump, Entry
  <2> QED
    BY <1>1, <2>3, LevelSame DEF Packed
<1>5. /\ entries' = [entries EXCEPT ![count - 1] = Written(@, new, ld),
                                    ![count] = Written(@, then, sd)]
      /\ new' = WithLump(then, sd)
  BY DEF Pack
<1> HIDE DEF ld, sd
<1>6. /\ then \in Seq(Word) /\ HeaderRoom(then)
      /\ Tell(new) \in Nat /\ Len(ld) \in Nat
  BY <1>1, <1>4, Untouched, LumpAppended
<1> HIDE DEF then
<1>7. /\ new' \in Seq(Word) /\ HeaderRoom(new')
      /\ Tell(then) \in Nat /\ Len(sd) \in Nat
  BY <1>4, <1>5, <1>6, LumpAppended
<1>8. /\ entries' \in Seq(Entry) /\ Len(entries') = Len(entries)
      /\ d.offset = Tell(new) /\ d.length = Len(ld)
      /\ d.name = entries[count - 1].name
      /\ e.offset = Tell(then) /\ e.length = Len(sd) /\ e.name = entries[count].name
      /\ \A k \in DOMAIN entries \ {count, count - 1} : entries'[k] = entries[k]
  <2>0. entries[count] \in Entry /\ entries[count - 1] \in Entry
    BY <1>1, Untouched
  <2>1. Written(entries[count - 1], new, ld) \in Entry
    BY <1>6, <2>0 DEF Written, Entry
  <2>2. Written(entries[count], then, sd) \in Entry
    BY <1>7, <2>0 DEF Written, Entry
  <2>3. /\ entries' \in Seq(Entry) /\ Len(entries') = Len(entries)
        /\ entries'[count - 1] = Written(entries[count - 1], new, ld)
        /\ entries'[count] = Written(entries[count], then, sd)
        /\ \A k \in DOMAIN entries \ {count, count - 1} : entries'[k] = entries[k]
    BY <1>1, <1>2, <1>5, <2>1, <2>2, Untouched
  <2> QED
    BY <2>0, <2>3 DEF Written, Entry
<1>9. \A k \in DOMAIN entries : entries'[k].name = entries[k].name
  BY <1>8
<1>10. ASSUME NEW k \in DOMAIN entries
       PROVE  IF k <= count /\ ~(k = count /\ Deferred(k))
              THEN /\ InFile(new', entries'[k])
                   /\ SameThing(CacheLump(new', entries'[k]), CacheLump(old, Was(k)))
              ELSE entries'[k] = Was(k)
  <2>1. CASE k = count
    <3>1. InFile(new', e) /\ CacheLump(new', e) = sd
      BY <1>4, <1>5, <1>6, <1>8, LumpReads
    <3> QED
      BY <1>1, <1>2, <1>4, <2>1, <3>1, Untouched
  <2>2. CASE k = count - 1
    <3>1. InFile(then, d) /\ CacheLump(then, d) = ld
      BY <1>1, <1>4, <1>8, Untouched, LumpReads DEF then
    <3>2. d.offset \in Nat /\ d.length \in Nat
      BY <1>6, <1>8
    <3>3. InFile(new', d) /\ CacheLump(new', d) = ld
      BY <1>4, <1>5, <1>6, <3>1, <3>2, LumpStays
    <3> QED
      BY <1>2, <1>3, <1>4, <2>2, <3>3
  <2>3. CASE k < count - 1
    <3>1. Kept(entries[k], Was(k)) /\ entries[k] \in Entry
      BY <1>1, <1>2, <2>3, Untouched DEF Waits
    <3>2. /\ InFile(then, entries[k])
          /\ SameThing(CacheLump(then, entries[k]), CacheLump(old, Was(k)))
      BY <1>1, <1>4, <3>1, Untouched, KeptStays DEF then
    <3>3. entries[k].offset \in Nat /\ entries[k].length \in Nat
      BY <3>1 DEF Entry
    <3>4. /\ InFile(new', entries[k])
          /\ CacheLump(new', entries[k]) = CacheLump(then, entries[k])
      BY <1>4, <1>5, <1>6, <3>2, <3>3, LumpStays
    <3>5. entries'[k] = entries[k] /\ k <= count /\ k # count
      BY <1>2, <1>8, <2>3
    <3> QED
      BY <3>2, <3>4, <3>5
  <2>4. CASE k > count
    BY <1>1, <1>2, <1>8, <2>4, Untouched
  <2> QED
    BY <1>1, <1>2, <2>1, <2>2, <2>3, <2>4, Untouched
<1> QED
  BY <1>1, <1>7, <1>8, <1>9, <1>10, FirstPassStep

\* A lump that is not written: one that waits, or is empty.
LEMMA NoneWritten ==
  ASSUME PassInv, Defer \/ LeaveEmpty, count' = count + 1,
         UNCHANGED <<pc, cmd, old, psx_format>>
  PROVE  /\ new' \in Seq(Word) /\ entries' \in Seq(Entry)
         /\ Len(entries') = Len(entries)
         /\ FirstPass' /\ PassesKeep'
<1>1. MoreLumps /\ new' = new
  BY DEF Defer, LeaveEmpty
<1>2. ASSUME NEW k \in DOMAIN entries, k < count
      PROVE  Kept(entries[k], Was(k))
  <2>1. k \in Nat /\ count \in Nat
    BY <1>1, Untouched
  <2>2. Waits(k) => Packed(count)
    BY <2>1, WaitsForPacked DEF Waits
  <2>3. ~Packed(count)
    BY <2>1, NotBoth DEF Defer, LeaveEmpty, Empty, Stored
  <2> QED
    BY <1>1, <1>2, <2>2, <2>3, Untouched
<1>3. CASE Defer
  <2>1. entries' = entries /\ Deferred(count)
    BY <1>3 DEF Defer
  <2>2. ASSUME NEW k \in DOMAIN entries
        PROVE  IF k <= count /\ ~(k = count /\ Deferred(k))
               THEN /\ InFile(new', entries'[k])
                    /\ SameThing(CacheLump(new', entries'[k]), CacheLump(old, Was(k)))
               ELSE entries'[k] = Was(k)
    BY <1>1, <1>2, <2>1, Untouched DEF Kept
  <2> QED
    BY <1>1, <2>1, <2>2, Untouched, FirstPassStep
<1>4. CASE LeaveEmpty
  <2>1. /\ entries' = [entries EXCEPT ![count].offset = 0]
        /\ entries[count].length = 0 /\ ~Deferred(count)
    BY <1>4 DEF LeaveEmpty, NoOffset, Empty, Stored
  <2>2. /\ entries' \in Seq(Entry) /\ Len(entries') = Len(entries)
        /\ entries'[count].length = 0
        /\ \A k \in DOMAIN entries : entries'[k].name = entries[k].name
        /\ \A k \in DOMAIN entries \ {count} : entries'[k] = entries[k]
    <3>1. [entries[count] EXCEPT !.offset = 0] \in Entry
      BY <1>1, Untouched DEF Entry
    <3> QED
      BY <1>1, <2>1, <3>1, Untouched, SMTT(60) DEF Entry
  <2>3. ASSUME NEW k \in DOMAIN entries
        PROVE  IF k <= count /\ ~(k = count /\ Deferred(k))
               THEN /\ InFile(new', entries'[k])
                    /\ SameThing(CacheLump(new', entries'[k]), CacheLump(old, Was(k)))
               ELSE entries'[k] = Was(k)
    <3>1. CASE k = count
      <4>1. InFile(new', entries'[k])
        BY <2>2, <3>1 DEF InFile
      <4>2. CacheLump(new', entries'[k]) = CacheLump(old, Was(k))
        <5>1. entries'[k].length = 0 /\ Was(k).length = 0
          BY <1>1, <2>1, <2>2, <3>1, Untouched
        <5>2. 1 .. 0 = {}
          OBVIOUS
        <5> QED
          BY <5>1, <5>2 DEF CacheLump
      <4> QED
        BY <1>1, <2>1, <3>1, <4>1, <4>2, Untouched DEF SameThing
    <3>2. CASE k # count
      BY <1>1, <1>2, <2>2, <3>2, Untouched DEF Kept
    <3> QED
      BY <3>1, <3>2
  <2> QED
    BY <1>1, <2>2, <2>3, Untouched, FirstPassStep
<1> QED
  BY <1>3, <1>4

\* Each step of the first pass.
LEMMA NextLumpKeeps == PassInv /\ NextLump => PassInv'
<1> SUFFICES ASSUME PassInv, NextLump PROVE PassInv'
  OBVIOUS
<1>1. /\ count' = count + 1 /\ MoreLumps
      /\ UNCHANGED <<wad, pc, cmd, type, psx_format, old, lumps, past, trail>>
      /\ UNCHANGED sortvars
  BY DEF NextLump, merge, history, Defer, Pack, Stack, Squash, Store, LeaveEmpty
<1>2. /\ new' \in Seq(Word) /\ entries' \in Seq(Entry)
      /\ Len(entries') = Len(entries)
      /\ FirstPass' /\ PassesKeep'
  <2>1. CASE Defer \/ LeaveEmpty
    BY <1>1, <2>1, NoneWritten
  <2>2. CASE Pack
    BY <1>1, <2>2, TwoWritten
  <2>3. CASE Stack \/ Squash \/ Store
    <3>1. /\ ~Packed(count) /\ ~Deferred(count) /\ ~CannotAdd /\ ~Empty(count)
          /\ \/ WriteWadLump(Restacked(Lump(count))) /\ cmd.allowstack
             \/ WriteWadLump(Resquashed(Lump(count)))
             \/ WriteWadLump(Lump(count))
      BY <2>3 DEF Stack, Squash, Store, Stored, Empty, Stacked
    <3>2. Lump(count) \in Seq(Word)
      <4>1. InFile(old, entries[count]) /\ old \in Seq(Word)
        BY <3>1 DEF CannotAdd, PassInv, TypeOK
      <4>2. entries[count].offset \in Nat /\ entries[count].length \in Nat
        BY <1>1, Untouched DEF Entry
      <4> QED
        BY <4>1, <4>2, LumpTyped DEF Lump
    <3>3. SameThing(Lump(count), Lump(count))
      BY DEF SameThing
    <3>4. /\ cmd.allowstack => /\ Restacked(Lump(count)) \in Seq(Word)
                               /\ SameThing(Restacked(Lump(count)), Lump(count))
          /\ Resquashed(Lump(count)) \in Seq(Word)
          /\ SameThing(Resquashed(Lump(count)), Lump(count))
      BY <3>2, RestackedSame, ResquashedSame
    <3> QED
      BY <1>1, <3>1, <3>2, <3>3, <3>4, OneWritten
  <2> QED
    BY <2>1, <2>2, <2>3 DEF NextLump
<1>3. SortInv'
  BY <1>1, SortStepKeeps DEF PassInv
<1>4. TypeOK'
  <2>1. DOMAIN stats' = DOMAIN NoStats
    BY DEF NextLump, Defer, Pack, Stack, Squash, Store, LeaveEmpty, Saving,
           PassInv, TypeOK
  <2>2. count' \in 1 .. Len(entries') + 1
    BY <1>1, <1>2, Untouched
  <2>3. pc' = "lumps"
    BY <1>1 DEF MoreLumps
  <2> QED
    BY <1>1, <1>2, <1>3, <2>1, <2>2, <2>3 DEF PassInv, TypeOK, SortInv
<1>5. SecondPass'
  BY <1>1 DEF SecondPass, MoreLumps
<1> QED
  BY <1>2, <1>3, <1>4, <1>5 DEF PassInv

-----------------------------------------------------------------------------
(* The second pass and what surrounds it *)

\* The directory closes the first pass.
LEMMA EndFirstPassKeeps == PassInv /\ EndFirstPass => PassInv'
<1> SUFFICES ASSUME PassInv, EndFirstPass PROVE PassInv'
  OBVIOUS
<1>1. /\ new' = WithDirectory(new) /\ pc' \in {"reopen", "rename"}
      /\ InRange(new) /\ DOMAIN stats' = DOMAIN stats
      /\ UNCHANGED <<wad, cmd, type, entries, psx_format, old, count, lumps,
                     past, trail>>
      /\ UNCHANGED sortvars
  BY DEF EndFirstPass, Goto, wadfile, merge, history
<1>2. new' \in Seq(Word) /\ DirOffset(new') <= MaxPos
  BY <1>1, DirectoryWritten DEF PassInv, TypeOK, InRange
<1>3. SortInv'
  BY <1>1, SortStepKeeps DEF PassInv
<1>4. TypeOK'
  BY <1>1, <1>2, <1>3 DEF PassInv, TypeOK, SortInv
<1> QED
  BY <1>1, <1>3, <1>4 DEF PassInv, FirstPass, SecondPass, PassesKeep

\* The place of a name in the alphabet is a number.
LEMMA RankTyped == \A e : Rank(e) \in Int
<1>1. DOMAIN NameOrder \subseteq Nat
  BY NamesAssumption
<1> QED
  BY <1>1 DEF Rank

\* The file of the first pass is read again.
LEMMA ReopenKeeps == PassInv /\ Reopen => PassInv'
<1> SUFFICES ASSUME PassInv, Reopen PROVE PassInv'
  OBVIOUS
<1> DEFINE keys == [k \in DOMAIN entries' |-> Rank(entries'[k])]
<1>1. /\ pc = "reopen" /\ Opens(new) /\ OpenWadFile(new) /\ MakeSortedMap(keys)
      /\ new' = <<>> /\ count' = 1 /\ lumps' = <<>> /\ pc' = "merge"
      /\ UNCHANGED <<wad, cmd, psx_format, stats, past, trail>>
  BY DEF Reopen, Goto, history
<1>2. /\ Directory(new) \in Seq(Entry) /\ NumEntries(new) \in Nat
      /\ Len(Directory(new)) = NumEntries(new) /\ new \in Seq(Word)
  BY <1>1, DirectoryTyped DEF Directory, PassInv, TypeOK
<1>3. /\ old' = new /\ entries' = Directory(new) /\ type' \in Type
  BY <1>1 DEF OpenWadFile, Opens, Magic
<1>4. keys \in Seq(Int) /\ Len(keys) = Len(entries')
  BY <1>2, <1>3, RankTyped
<1> HIDE DEF keys
<1>5. SortInv' /\ key' = keys
  BY <1>1, <1>4, SortStarts DEF PassInv, MakeSortedMap
<1>6. TypeOK'
  BY <1>1, <1>2, <1>3, <1>5 DEF PassInv, TypeOK, SortInv
<1>7. FirstPass' /\ SecondPass' /\ PassesKeep'
  <2>1. SecondPass'
    BY <1>1, <1>2, <1>3, <1>4, <1>5 DEF SecondPass, HeaderRoom
  <2>2. DOMAIN elements' = DOMAIN entries'
    <3>1. elements' \in [1 .. Len(key') -> 1 .. Len(key')]
      BY <1>5 DEF SortInv, SortTypeOK, Element
    <3> QED
      BY <1>2, <1>3, <1>4, <1>5, <3>1
  <2>3. \A j \in DOMAIN elements' : ~(j < count')
    BY <1>1, <1>2, <1>3, <2>2
  <2> QED
    BY <1>1, <1>3, <2>1, <2>3 DEF FirstPass, PassesKeep
<1> QED
  BY <1>5, <1>6, <1>7 DEF PassInv

\* While the map is sorted nothing is read or written.
LEMMA SortMapElementsKeeps == PassInv /\ SortMapElements => PassInv'
<1> SUFFICES ASSUME PassInv, SortMapElements PROVE PassInv'
  OBVIOUS
<1>1. /\ pc = "merge" /\ SortStep
      /\ UNCHANGED <<wad, pc, cmd, type, entries, psx_format, old, new, count,
                     lumps, stats, past, trail>>
  BY DEF SortMapElements, wadfile, history
<1>2. SortInv'
  BY <1>1, SortStepKeeps DEF PassInv
<1>3. TypeOK'
  BY <1>1, <1>2 DEF PassInv, TypeOK, SortInv
<1>4. ~Sorted /\ key' = key
  BY <1>1 DEF PassInv, SortInv, Partitioned, Sorted, SortStep, Return, ChoosePivot,
              Partition, PlacePivot
<1>5. FirstPass' /\ SecondPass'
  BY <1>1, <1>4 DEF PassInv, FirstPass, SecondPass
<1>6. PassesKeep'
  <2>1. count = 1 /\ entries = Directory(old)
    BY <1>1, <1>4 DEF PassInv, SecondPass
  <2>2. elements' \in [1 .. Len(key') -> 1 .. Len(key')] /\ Len(key') \in Nat
    BY <1>2 DEF SortInv, SortTypeOK, Element
  <2>3. \A j \in DOMAIN elements' : ~(j < count)
    BY <2>1, <2>2
  <2> QED
    BY <1>1, <2>1, <2>3 DEF PassesKeep
<1> QED
  BY <1>2, <1>3, <1>5, <1>6 DEF PassInv

\* A step to where neither pass is at work keeps what is said of them.
LEMMA EndRunKeeps ==
  ASSUME PassInv, NEW f \in Seq(Word), NEW done \in BOOLEAN, EndRun(cmd, f, done),
         UNCHANGED <<cmd, wadfile, new, count, merge, stats>>
  PROVE  PassInv'
<1>1. SortInv'
  BY SortStepKeeps DEF PassInv, merge
<1>2. TypeOK'
  BY <1>1 DEF PassInv, TypeOK, EndRun, Goto, wadfile, merge, SortInv
<1> QED
  BY <1>1, <1>2 DEF PassInv, EndRun, Goto, FirstPass, SecondPass, PassesKeep

\* The directory closes the second pass.
LEMMA EndSecondPassKeeps == PassInv /\ EndSecondPass => PassInv'
<1> SUFFICES ASSUME PassInv, EndSecondPass PROVE PassInv'
  OBVIOUS
<1>1. /\ new' = WithDirectory(new) /\ pc' = "rename"
      /\ InRange(new) /\ DOMAIN stats' = DOMAIN stats
      /\ UNCHANGED <<wad, cmd, type, entries, psx_format, old, count, lumps,
                     past, trail>>
      /\ UNCHANGED sortvars
  BY DEF EndSecondPass, Goto, wadfile, merge, history
<1>2. new' \in Seq(Word) /\ DirOffset(new') <= MaxPos
  BY <1>1, DirectoryWritten DEF PassInv, TypeOK, InRange
<1>3. SortInv'
  BY <1>1, SortStepKeeps DEF PassInv
<1>4. TypeOK'
  BY <1>1, <1>2, <1>3 DEF PassInv, TypeOK, SortInv
<1> QED
  BY <1>1, <1>3, <1>4 DEF PassInv, FirstPass, SecondPass, PassesKeep

\* The second pass in one lemma: the lump of this turn is at "pos".
LEMMA SecondPassStep ==
  ASSUME PassInv, pc = "merge", Sorted, count \in DOMAIN elements,
         NEW pos \in Nat, UNCHANGED <<pc, old, sortvars>>, count' = count + 1,
         entries' = [entries EXCEPT ![elements[count]].offset = pos],
         HeaderRoom(new'),
         \A e : /\ e.offset \in Nat /\ e.length \in Nat /\ InFile(new, e)
               => /\ InFile(new', e)
                  /\ CacheLump(new', e) = CacheLump(new, e),
         \A e : /\ e.offset = pos /\ e.length = entries[elements[count]].length
               => /\ InFile(new', e)
                  /\ CacheLump(new', e) = CacheLump(old, entries[elements[count]]),
         \A k \in DOMAIN lumps' :
           /\ InFile(new', Where(lumps'[k]))
           /\ CacheLump(new', Where(lumps'[k])) = lumps'[k].data
  PROVE  /\ entries' \in Seq(Entry) /\ Len(entries') = Len(entries)
         /\ SecondPass' /\ PassesKeep'
<1> DEFINE m == elements[count]
<1>1. /\ entries \in Seq(Entry) /\ Len(key) = Len(entries) /\ Len(key) \in Nat
      /\ Element = 1 .. Len(key) /\ elements \in [Element -> Element]
      /\ DOMAIN entries = Element /\ DOMAIN elements = Element
      /\ count \in Element /\ m \in Element /\ m \in DOMAIN entries
  <2>1. entries \in Seq(Entry) /\ Len(key) = Len(entries)
    BY DEF PassInv, TypeOK, SecondPass
  <2>2. /\ elements \in [Element -> Element] /\ Element = 1 .. Len(key)
    BY DEF PassInv, SortInv, SortTypeOK, Element
  <2> QED
    BY <2>1, <2>2
<1>2. /\ entries' \in Seq(Entry) /\ Len(entries') = Len(entries)
      /\ entries'[m].offset = pos /\ entries'[m].length = entries[m].length
      /\ \A k \in Element \ {m} : entries'[k] = entries[k]
  <2>1. entries[m] \in Entry
    BY <1>1
  <2>2. [entries[m] EXCEPT !.offset = pos] \in Entry
    BY <2>1 DEF Entry
  <2> QED
    BY <1>1, <2>1, <2>2 DEF Entry
<1>3. SecondPass'
  BY <1>1, <1>2 DEF SecondPass, PassInv, Sorted, sortvars
<1>4. \A j \in Element :
         IF j < count
         THEN /\ InFile(new, entries[elements[j]])
              /\ CacheLump(new, entries[elements[j]])
                   = CacheLump(old, Was(elements[j]))
         ELSE entries[elements[j]] = Was(elements[j])
  BY <1>1 DEF PassInv, PassesKeep, Was
<1>5. ASSUME NEW j \in Element
      PROVE  IF j < count'
             THEN /\ InFile(new', entries'[elements[j]])
                  /\ CacheLump(new', entries'[elements[j]])
                       = CacheLump(old, Was(elements[j]))
             ELSE entries'[elements[j]] = Was(elements[j])
  <2>1. CASE j = count
    <3>1. entries[m] = Was(m)
      BY <1>1, <1>4
    <3>2. /\ InFile(new', entries'[m])
          /\ CacheLump(new', entries'[m]) = CacheLump(old, entries[m])
      BY <1>2
    <3>3. j < count'
      BY <1>1, <2>1
    <3> QED
      BY <2>1, <3>1, <3>2, <3>3
  <2>2. CASE j # count
    <3>1. elements[j] \in Element /\ elements[j] # m
      BY <1>1, <2>2, SortedOnce DEF PassInv
    <3>2. entries'[elements[j]] = entries[elements[j]]
      BY <1>2, <3>1
    <3>3. CASE j < count
      <4>1. entries[elements[j]] \in Entry
        BY <1>1, <3>1
      <4>2. /\ InFile(new', entries[elements[j]])
            /\ CacheLump(new', entries[elements[j]])
                 = CacheLump(new, entries[elements[j]])
        BY <1>4, <3>3, <4>1 DEF Entry
      <4>3. j < count'
        BY <1>1, <3>3
      <4> QED
        BY <1>4, <3>2, <3>3, <4>2, <4>3
    <3>4. CASE j > count
      <4>1. ~(j < count') /\ ~(j < count)
        BY <1>1, <3>4
      <4> QED
        BY <1>4, <3>2, <4>1
    <3> QED
      BY <1>1, <2>2, <3>3, <3>4
  <2> QED
    BY <2>1, <2>2
<1>6. PassesKeep'
  <2>1. pc' = "merge" /\ elements' = elements /\ old' = old
    BY DEF sortvars
  <2> QED
    BY <1>1, <1>5, <2>1 DEF PassesKeep, Was
<1> QED
  BY <1>2, <1>3, <1>6

\* A lump that is there already is found, any other is written.
LEMMA MergeLumpKeeps == PassInv /\ MergeLump => PassInv'
<1> SUFFICES ASSUME PassInv, MergeLump PROVE PassInv'
  OBVIOUS
<1> DEFINE m == elements[count]
           data == CacheLump(old, entries[m])
<1>1. /\ pc = "merge" /\ Sorted /\ count \in DOMAIN elements
      /\ InFile(old, entries[m]) /\ InRange(new) /\ count' = count + 1
      /\ UNCHANGED <<wad, pc, cmd, type, psx_format, old, sortvars, stats, past, trail>>
  BY DEF MergeLump, history
<1>2. /\ entries \in Seq(Entry) /\ new \in Seq(Word) /\ old \in Seq(Word)
      /\ HeaderRoom(new) /\ m \in DOMAIN entries /\ entries[m] \in Entry
      /\ count \in 1 .. Len(entries)
      /\ \A k \in DOMAIN lumps :
           /\ InFile(new, Where(lumps[k]))
           /\ CacheLump(new, Where(lumps[k])) = lumps[k].data
      /\ lumps \in Seq(Placed)
  <2>1. /\ entries \in Seq(Entry) /\ new \in Seq(Word) /\ old \in Seq(Word)
        /\ lumps \in Seq(Placed)
    BY DEF PassInv, TypeOK
  <2>2. /\ HeaderRoom(new) /\ Len(key) = Len(entries)
        /\ \A k \in DOMAIN lumps :
             /\ InFile(new, Where(lumps[k]))
             /\ CacheLump(new, Where(lumps[k])) = lumps[k].data
    BY <1>1 DEF PassInv, SecondPass
  <2>3. elements \in [1 .. Len(key) -> 1 .. Len(key)]
    BY DEF PassInv, SortInv, SortTypeOK, Element
  <2>4. count \in 1 .. Len(entries) /\ m \in 1 .. Len(entries)
    BY <1>1, <2>2, <2>3
  <2>5. m \in DOMAIN entries /\ entries[m] \in Entry
    BY <2>1, <2>4
  <2> QED
    BY <2>1, <2>2, <2>4, <2>5
<1>3. data \in Seq(Word) /\ Len(data) = entries[m].length
  BY <1>1, <1>2, LumpTyped DEF Entry
<1>4. \A k \in DOMAIN lumps :
         /\ lumps[k].offset \in Nat /\ lumps[k].data \in Seq(Word)
         /\ Where(lumps[k]).offset = lumps[k].offset
         /\ Where(lumps[k]).length = Len(lumps[k].data)
  <2> SUFFICES ASSUME NEW k \in DOMAIN lumps
               PROVE  lumps[k].offset \in Nat /\ lumps[k].data \in Seq(Word)
    BY DEF Where
  <2>1. lumps[k] \in Placed
    BY <1>2
  <2> QED
    BY <2>1, MaxPosAssumption DEF Placed, WAD_HEADER_SIZE
<1>5. /\ entries' \in Seq(Entry) /\ Len(entries') = Len(entries)
      /\ SecondPass' /\ PassesKeep' /\ new' \in Seq(Word)
      /\ lumps' \in Seq(Placed)
  <2>1. CASE /\ UNCHANGED <<lumps, new>>
             /\ \E k \in Existing(data) :
                  entries' = [entries EXCEPT ![m].offset = FoundOffset(k)]
    <3>1. PICK l \in DOMAIN lumps :
            /\ lumps[l].data = data
            /\ entries' = [entries EXCEPT ![m].offset = lumps[l].offset]
      BY <2>1 DEF Existing, FoundOffset
    <3>2. ASSUME NEW e, e.offset = lumps[l].offset, e.length = entries[m].length
          PROVE  InFile(new, e) /\ CacheLump(new, e) = data
      <4>1. /\ e.offset = Where(lumps[l]).offset /\ e.length = Where(lumps[l]).length
            /\ InFile(new, Where(lumps[l])) /\ CacheLump(new, Where(lumps[l])) = data
        BY <1>2, <1>3, <1>4, <3>1, <3>2
      <4> QED
        BY <4>1 DEF InFile, CacheLump
    <3> QED
      BY <1>1, <1>2, <1>4, <2>1, <3>1, <3>2, SecondPassStep
  <2>2. CASE /\ Existing(data) = {} /\ new' = WithLump(new, data)
             /\ lumps' = Append(lumps, [data |-> data, offset |-> Tell(new)])
             /\ entries' = [entries EXCEPT ![m].offset = FoundOffset(Len(lumps'))]
    <3> DEFINE l == [data |-> data, offset |-> Tell(new)]
    <3>1. /\ new' \in Seq(Word) /\ HeaderRoom(new') /\ Tell(new) \in Nat
      BY <1>2, <1>3, <2>2, LumpAppended
    <3>2. Tell(new) \in (0 .. WAD_HEADER_SIZE) \cup (0 .. MaxPos)
      BY <1>1, <1>2 DEF Tell, InRange, WAD_HEADER_SIZE
    <3>3. /\ lumps' \in Seq(Placed)
          /\ Len(lumps') = Len(lumps) + 1 /\ lumps'[Len(lumps')] = l
          /\ \A k \in DOMAIN lumps' :
               k # Len(lumps') => k \in DOMAIN lumps /\ lumps'[k] = lumps[k]
      <4>1. l \in Placed
        BY <1>3, <3>2 DEF Placed
      <4> QED
        BY <1>2, <2>2, <4>1
    <3>4. entries' = [entries EXCEPT ![m].offset = Tell(new)]
      <4>1. lumps'[Len(lumps')].offset = Tell(new)
        BY <3>3
      <4> QED
        BY <2>2, <4>1 DEF FoundOffset
    <3>5. \A e : /\ e.offset \in Nat /\ e.length \in Nat /\ InFile(new, e)
                => InFile(new', e) /\ CacheLump(new', e) = CacheLump(new, e)
      BY <1>2, <1>3, <2>2, LumpStays
    <3>6. \A e : /\ e.offset = Tell(new) /\ e.length = Len(data)
                => InFile(new', e) /\ CacheLump(new', e) = data
      BY <1>2, <1>3, <2>2, LumpReads
    <3>7. ASSUME NEW k \in DOMAIN lumps'
          PROVE  /\ InFile(new', Where(lumps'[k]))
                 /\ CacheLump(new', Where(lumps'[k])) = lumps'[k].data
      <4>1. CASE k = Len(lumps')
        <5>1. Where(l).offset = Tell(new) /\ Where(l).length = Len(data)
          BY DEF Where
        <5> QED
          BY <3>3, <3>6, <4>1, <5>1
      <4>2. CASE k # Len(lumps')
        <5>1. k \in DOMAIN lumps /\ lumps'[k] = lumps[k]
          BY <3>3, <4>2
        <5>2. Where(lumps[k]).offset \in Nat /\ Where(lumps[k]).length \in Nat
          BY <1>4, <5>1
        <5> QED
          BY <1>2, <3>5, <5>1, <5>2
      <4> QED
        BY <4>1, <4>2
    <3> QED
      BY <1>1, <1>3, <3>1, <3>3, <3>4, <3>5, <3>6, <3>7, SecondPassStep
  <2> QED
    BY <2>1, <2>2 DEF MergeLump
<1>6. SortInv'
  BY <1>1, SortStepKeeps DEF PassInv
<1>7. TypeOK'
  BY <1>1, <1>2, <1>5, <1>6 DEF PassInv, TypeOK, SortInv
<1> QED
  BY <1>1, <1>5, <1>6, <1>7 DEF PassInv, FirstPass

\* What holds in the passes, from any state to the next.
LEMMA NextKeeps == PassInv /\ [Next]_vars => PassInv'
<1> SUFFICES ASSUME PassInv, [Next]_vars PROVE PassInv'
  OBVIOUS
<1>1. ASSUME NEW c \in Allowed, Begin(c) PROVE PassInv'
  BY <1>1, BeginKeeps DEF Allowed
<1>2. CASE Rename
  <2>1. EndRun(cmd, new, TRUE) /\ UNCHANGED <<cmd, wadfile, new, count, merge, stats>>
    BY <1>2 DEF Rename
  <2> QED
    BY <2>1, EndRunKeeps DEF PassInv, TypeOK
<1>3. CASE ErrorExit
  <2>1. EndRun(cmd, wad, FALSE) /\ UNCHANGED <<cmd, wadfile, new, count, merge, stats>>
    BY <1>3 DEF ErrorExit
  <2> QED
    BY <2>1, EndRunKeeps DEF PassInv, TypeOK
<1>4. CASE UNCHANGED vars
  <2>1. SortInv'
    BY <1>4, SortStepKeeps DEF PassInv, vars, merge
  <2>2. TypeOK'
    BY <1>4, <2>1 DEF PassInv, TypeOK, vars, wadfile, merge, history, SortInv
  <2>3. UNCHANGED <<pc, old, new, entries, count, lumps, key, elements, calls, cmd,
                    psx_format>>
    BY <1>4 DEF vars, wadfile, merge, sortvars
  <2>4. FirstPass' /\ SecondPass'
    BY <2>3 DEF PassInv, FirstPass, SecondPass, Sorted
  <2>5. PassesKeep'
    BY <2>3, SameThingStays
    DEF PassInv, PassesKeep, Kept, Sorted, Deferred, Packs, IsSidedefs, HasName
  <2> QED
    BY <2>1, <2>2, <2>4, <2>5 DEF PassInv
<1> QED
  BY <1>1, <1>2, <1>3, <1>4, NextLumpKeeps, EndFirstPassKeeps, ReopenKeeps,
     SortMapElementsKeeps, MergeLumpKeeps, EndSecondPassKeeps DEF Next, Done

THEOREM PassInvariance == Spec => []PassInv
BY InitPassInv, NextKeeps, PTL DEF Spec

\* The variables have their types, and no position that is written to a file is
\* beyond what an offset can be (waddir.c:172), for any bound.
THEOREM WadFileTypeOK == Spec => []TypeOK
<1>1. PassInv => TypeOK
  BY DEF PassInv
<1> QED
  BY <1>1, PassInvariance, PTL

\* Neither pass loses a lump or reads one that it has overwritten
\* (wadmerge.c:66, main.c:378).
THEOREM NoLumpIsLost == Spec => []PassesKeep
<1>1. PassInv => PassesKeep
  BY DEF PassInv
<1> QED
  BY <1>1, PassInvariance, PTL
=============================================================================
