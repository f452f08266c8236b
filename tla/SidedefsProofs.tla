--------------------------- MODULE SidedefsProofs ---------------------------
(***************************************************************************)
(* Packing and unpacking keep what a level shows, for any level, limits    *)
(* and sequence of runs.                                                   *)
(***************************************************************************)
EXTENDS Sidedefs, Ranks

\* The level as it was when the run began.
was == trail[Len(trail)]

Side == {1, 2}
SideRef(ld, s) == IF s = 1 THEN ld.sidedef1 ELSE ld.sidedef2

\* Sidedefs that differ in their spelling at most.
Alike(s, t) ==
  /\ s.middle = t.middle /\ s.trim = t.trim
  /\ s.place = t.place /\ s.domain = t.domain

\* The sidedef that a side of the i-th line is to have.
Given(i, s) ==
  CopyOf(orig.linedefs[i], SideRef(orig.linedefs[i], s),
         s = 1 /\ Wipes(orig.linedefs[i]))

\* A side has a sidedef in "sides" like the one it is to have, or none.
Stands(i, s) ==
  LET before == SideRef(orig.linedefs[i], s)
      now == SideRef(lines[i], s)
  IN IF before = NO_SIDEDEF THEN now = NO_SIDEDEF
     ELSE /\ before \in 0 .. Len(orig.sidedefs) - 1
          /\ now \in 0 .. Len(sides) - 1
          /\ Alike(sides[now + 1], Given(i, s))

SameLines ==
  /\ Len(lines) = Len(orig.linedefs)
  /\ \A i \in DOMAIN lines : /\ lines[i].type = orig.linedefs[i].type
                             /\ lines[i].tag = orig.linedefs[i].tag

\* No sidedef without a line.
Used(n) == \A r \in 0 .. Len(sides) - 1 :
             \E i \in 1 .. n, s \in Side : SideRef(lines[i], s) = r

\* The first n lines have a sidedef for each side, and no others are left.
Rebuilt(n) ==
  /\ SameLines /\ Used(n)
  /\ \A i \in n + 1 .. Len(lines) : lines[i] = orig.linedefs[i]
  /\ \A i \in 1 .. n, s \in Side : Stands(i, s)
  /\ \A i, j \in 1 .. n, s, t \in Side :
       SideRef(lines[i], s) = SideRef(lines[j], t) /\ SideRef(lines[i], s) # NO_SIDEDEF
         => i = j /\ s = t

Rebuilding == pc = "rebuild" => at \in 1 .. Len(lines) + 1 /\ Rebuilt(at - 1)

Mapped(k) == sides[map[k] + 1]
Special(k) == Mapped(k).domain = MERGE_DOMAIN_SPECIAL

\* The map has every sidedef once, in order.
MapSorted ==
  /\ Len(map) = Len(sides)
  /\ \A k \in 1 .. Len(map) : map[k] \in 0 .. Len(sides) - 1
  /\ \A j, k \in 1 .. Len(map) : j < k => Precedes(map[j], map[k])
  /\ \A j, k \in 1 .. Len(map) : map[j] = map[k] => j = k
  /\ \A r \in 0 .. Len(sides) - 1 : \E k \in 1 .. Len(map) : map[k] = r

\* The first n of them have a number in "packed": alike ones have the same, and
\* special ones have one to themselves.
Numbered(n) ==
  /\ DOMAIN newindex = 0 .. Len(sides) - 1
  /\ \A k \in 1 .. n : /\ newindex[map[k]] \in 0 .. Len(packed) - 1
                       /\ Alike(packed[newindex[map[k]] + 1], Mapped(k))
  /\ \A r \in 0 .. Len(packed) - 1 : \E k \in 1 .. n : newindex[map[k]] = r
  /\ \A j, k \in 1 .. n : j < k =>
       (newindex[map[j]] = newindex[map[k]]
          <=> Alike(Mapped(j), Mapped(k)) /\ ~Special(k))
  /\ n > 0 => newindex[map[n]] = Len(packed) - 1

Merging ==
  pc = "merge" =>
    /\ cmd.op = "pack" /\ at \in 1 .. Len(map) + 1
    /\ Rebuilt(Len(lines)) /\ MapSorted /\ Numbered(at - 1)

\* A result that is kept.
Made ==
  /\ SameLines /\ Used(Len(lines))
  /\ Len(sides) <= SidedefsLimit
  /\ \A i \in DOMAIN lines, s \in Side : Stands(i, s)
  /\ \A i, j \in DOMAIN lines, s, t \in Side :
       /\ <<i, s>> # <<j, t>>
       /\ SideRef(lines[i], s) # NO_SIDEDEF /\ SideRef(lines[j], t) # NO_SIDEDEF
       => (SideRef(lines[i], s) = SideRef(lines[j], t)
             <=> /\ cmd.op = "pack" /\ Alike(Given(i, s), Given(j, t))
                 /\ Given(i, s).domain # MERGE_DOMAIN_SPECIAL)

Outcome ==
  pc \in {"linedefs", "sidedefs"} =>
    \/ success /\ Made
    \/ /\ lines = orig.linedefs /\ sides = orig.sidedefs
       /\ success => ~RefsInLevel(was)

\* The level on disk, and what was read.
OnDisk ==
  /\ Len(trail) = Len(past) + 1
  /\ level = IF pc = "sidedefs" THEN [was EXCEPT !.linedefs = DiskLinedefs(lines)]
             ELSE was
  /\ pc \notin {"idle", "errorexit"} =>
       orig = [hexen |-> was.hexen, linedefs |-> ReadLinedefs(was),
               sidedefs |-> ReadSidedefs(was)]

\* What the lines of one level showed they show in another.
Keeps(l, m, wiped) ==
  /\ DOMAIN m.linedefs = DOMAIN l.linedefs
  /\ \A u \in LineSides(l) :
       /\ m.linedefs[u[1]].type = l.linedefs[u[1]].type
       /\ m.linedefs[u[1]].tag = l.linedefs[u[1]].tag
       /\ \/ Shows(m, u) = Shows(l, u)
          \/ /\ wiped /\ OneSided(l, u) /\ Len(Shows(l, u)) = 3
             /\ Shows(m, u) = [Shows(l, u) EXCEPT ![2] = Wiped]

Signed(l) == \A u \in LineSides(l) :
               RefOf(l, u) \in 0 .. NoIndex \div 2 \/ RefOf(l, u) = NoIndex

\* The runs so far.
SoFar ==
  /\ Keeps(trail[1], was, \E i \in DOMAIN past : past[i].wipesides)
  /\ (\A i \in DOMAIN past : ~past[i].extsides) => (Signed(trail[1]) => Signed(was))

SidedefsInv ==
  /\ TypeOK /\ OnDisk /\ SoFar
  /\ Rebuilding /\ Merging /\ Outcome
  /\ OnlyAlikeShare /\ FullyPacked /\ FullyUnpacked

-----------------------------------------------------------------------------
(* Reading, writing and copying *)

LEMMA SameFields ==
  ASSUME NEW S, NEW a \in Linedef(S), NEW b \in Linedef(S),
         a.type = b.type, a.tag = b.tag,
         a.sidedef1 = b.sidedef1, a.sidedef2 = b.sidedef2
  PROVE  a = b
BY DEF Linedef

LEMMA SameElements ==
  ASSUME NEW S, NEW a \in Seq(S), NEW b \in Seq(S), Len(a) = Len(b),
         \A i \in 1 .. Len(a) : a[i] = b[i]
  PROVE  a = b
OBVIOUS

LEMMA Joined ==
  ASSUME NEW S, NEW a \in Seq(S), NEW b \in Seq(S)
  PROVE  /\ a \o b \in Seq(S) /\ Len(a \o b) = Len(a) + Len(b)
         /\ \A i \in 1 .. Len(a) : (a \o b)[i] = a[i]
         /\ \A i \in Len(a) + 1 .. Len(a) + Len(b) : (a \o b)[i] = b[i - Len(a)]
OBVIOUS

LEMMA RefsMapped ==
  ASSUME NEW ld \in Linedef(DiskRef)
  PROVE  /\ WithRefs(ld, MapSidedefRef) \in Linedef(MemRef)
         /\ WithRefs(ld, MapSidedefRef).type = ld.type
         /\ WithRefs(ld, MapSidedefRef).tag = ld.tag
         /\ WithRefs(ld, MapSidedefRef).sidedef1 = MapSidedefRef(ld.sidedef1)
         /\ WithRefs(ld, MapSidedefRef).sidedef2 = MapSidedefRef(ld.sidedef2)
         /\ WithRefs(WithRefs(ld, MapSidedefRef), DiskRefOf) = ld
<1>1. \A r \in DiskRef : /\ MapSidedefRef(r) \in MemRef
                         /\ DiskRefOf(MapSidedefRef(r)) = r
  BY NoIndexAssumption DEF DiskRef, MemRef, MapSidedefRef, DiskRefOf, NO_SIDEDEF
<1>2. ld.sidedef1 \in DiskRef /\ ld.sidedef2 \in DiskRef
  BY DEF Linedef
<1>3. PICK m : m = WithRefs(ld, MapSidedefRef)
  OBVIOUS
<1>4. /\ m \in Linedef(MemRef) /\ m.type = ld.type /\ m.tag = ld.tag
      /\ m.sidedef1 = MapSidedefRef(ld.sidedef1)
      /\ m.sidedef2 = MapSidedefRef(ld.sidedef2)
  BY <1>1, <1>2, <1>3 DEF WithRefs, Linedef
<1>5. DiskRefOf(m.sidedef1) = ld.sidedef1 /\ DiskRefOf(m.sidedef2) = ld.sidedef2
  BY <1>1, <1>2, <1>4
<1>6. PICK d : d = WithRefs(m, DiskRefOf)
  OBVIOUS
<1>7. /\ d \in Linedef(DiskRef) /\ d.type = ld.type /\ d.tag = ld.tag
      /\ d.sidedef1 = ld.sidedef1 /\ d.sidedef2 = ld.sidedef2
  <2>1. d = [m EXCEPT !.sidedef1 = ld.sidedef1, !.sidedef2 = ld.sidedef2]
    BY <1>5, <1>6 DEF WithRefs
  <2> QED
    BY <1>2, <1>4, <2>1 DEF Linedef
<1>8. d = ld
  BY <1>7, SameFields
<1> QED
  BY <1>3, <1>4, <1>6, <1>8

LEMMA ReadTyped ==
  ASSUME NEW l \in Level
  PROVE  /\ ReadLinedefs(l) \in Seq(Linedef(MemRef))
         /\ Len(ReadLinedefs(l)) = Len(l.linedefs)
         /\ \A i \in 1 .. Len(l.linedefs) :
              ReadLinedefs(l)[i] = WithRefs(l.linedefs[i], MapSidedefRef)
         /\ ReadSidedefs(l) \in Seq(MemSidedef)
         /\ Len(ReadSidedefs(l)) = Len(l.sidedefs)
         /\ \A i \in 1 .. Len(l.sidedefs) :
              /\ ReadSidedefs(l)[i].middle = l.sidedefs[i].middle
              /\ ReadSidedefs(l)[i].trim = l.sidedefs[i].trim
              /\ ReadSidedefs(l)[i].place = l.sidedefs[i].place
<1>1. /\ l.linedefs \in Seq(Linedef(DiskRef)) /\ l.sidedefs \in Seq(Sidedef)
  BY DEF Level
<1>2. PICK n \in Nat, m \in Nat :
        /\ n = Len(l.linedefs) /\ DOMAIN l.linedefs = 1 .. n
        /\ m = Len(l.sidedefs) /\ DOMAIN l.sidedefs = 1 .. m
  BY <1>1
<1>3. \A i \in 1 .. n : l.linedefs[i] \in Linedef(DiskRef)
  BY <1>1, <1>2
<1>4. ReadLinedefs(l) = [i \in 1 .. n |-> WithRefs(l.linedefs[i], MapSidedefRef)]
  BY <1>2 DEF ReadLinedefs
<1>5. \A i \in 1 .. n : ReadLinedefs(l)[i] \in Linedef(MemRef)
  BY <1>3, <1>4, RefsMapped
<1>6. ReadLinedefs(l) \in [1 .. n -> Linedef(MemRef)]
  BY <1>4, <1>5
<1>7. \A i \in 1 .. m : l.sidedefs[i] \in Sidedef
  BY <1>1, <1>2
<1>8. \A i \in 1 .. m : [middle |-> l.sidedefs[i].middle,
                         spelling |-> l.sidedefs[i].spelling,
                         trim |-> l.sidedefs[i].trim, place |-> l.sidedefs[i].place,
                         domain |-> 0] \in MemSidedef
  BY <1>7 DEF Sidedef, MemSidedef, MergeDomain
<1>9. ReadSidedefs(l) \in [1 .. m -> MemSidedef]
  BY <1>2, <1>8 DEF ReadSidedefs
<1>10. \A i \in 1 .. m : /\ ReadSidedefs(l)[i].middle = l.sidedefs[i].middle
                         /\ ReadSidedefs(l)[i].trim = l.sidedefs[i].trim
                         /\ ReadSidedefs(l)[i].place = l.sidedefs[i].place
  BY <1>2 DEF ReadSidedefs
<1>11. /\ ReadLinedefs(l) \in Seq(Linedef(MemRef)) /\ Len(ReadLinedefs(l)) = n
       /\ ReadSidedefs(l) \in Seq(MemSidedef) /\ Len(ReadSidedefs(l)) = m
  BY <1>2, <1>6, <1>9
<1>12. \A i \in 1 .. n :
         ReadLinedefs(l)[i] = WithRefs(l.linedefs[i], MapSidedefRef)
  BY <1>4
<1> QED
  BY <1>2, <1>10, <1>11, <1>12

LEMMA DiskTyped ==
  ASSUME NEW lds \in Seq(Linedef(MemRef)), NEW sds \in Seq(MemSidedef)
  PROVE  /\ DiskLinedefs(lds) \in Seq(Linedef(DiskRef))
         /\ Len(DiskLinedefs(lds)) = Len(lds)
         /\ \A i \in 1 .. Len(lds) :
              DiskLinedefs(lds)[i] = WithRefs(lds[i], DiskRefOf)
         /\ \A i \in 1 .. Len(lds) :
              /\ DiskLinedefs(lds)[i].type = lds[i].type
              /\ DiskLinedefs(lds)[i].tag = lds[i].tag
              /\ DiskLinedefs(lds)[i].sidedef1 = DiskRefOf(lds[i].sidedef1)
              /\ DiskLinedefs(lds)[i].sidedef2 = DiskRefOf(lds[i].sidedef2)
         /\ DiskSidedefs(sds) \in Seq(Sidedef)
         /\ Len(DiskSidedefs(sds)) = Len(sds)
         /\ \A i \in 1 .. Len(sds) :
              /\ DiskSidedefs(sds)[i].middle = sds[i].middle
              /\ DiskSidedefs(sds)[i].trim = sds[i].trim
              /\ DiskSidedefs(sds)[i].place = sds[i].place
<1>1. PICK n \in Nat, m \in Nat :
        /\ n = Len(lds) /\ DOMAIN lds = 1 .. n
        /\ m = Len(sds) /\ DOMAIN sds = 1 .. m
  OBVIOUS
<1>2. \A r \in MemRef : DiskRefOf(r) \in DiskRef
  BY NoIndexAssumption DEF MemRef, DiskRef, DiskRefOf, NO_SIDEDEF
<1>3. ASSUME NEW ld \in Linedef(MemRef)
      PROVE  /\ WithRefs(ld, DiskRefOf) \in Linedef(DiskRef)
             /\ WithRefs(ld, DiskRefOf).type = ld.type
             /\ WithRefs(ld, DiskRefOf).tag = ld.tag
             /\ WithRefs(ld, DiskRefOf).sidedef1 = DiskRefOf(ld.sidedef1)
             /\ WithRefs(ld, DiskRefOf).sidedef2 = DiskRefOf(ld.sidedef2)
  <2>1. DiskRefOf(ld.sidedef1) \in DiskRef /\ DiskRefOf(ld.sidedef2) \in DiskRef
    BY <1>2 DEF Linedef
  <2> QED
    BY <2>1 DEF WithRefs, Linedef
<1>4. \A i \in 1 .. n : lds[i] \in Linedef(MemRef)
  BY <1>1
<1>5. DiskLinedefs(lds) = [i \in 1 .. n |-> WithRefs(lds[i], DiskRefOf)]
  BY <1>1 DEF DiskLinedefs
<1>6. \A i \in 1 .. n :
        /\ DiskLinedefs(lds)[i] = WithRefs(lds[i], DiskRefOf)
        /\ DiskLinedefs(lds)[i] \in Linedef(DiskRef)
        /\ DiskLinedefs(lds)[i].type = lds[i].type
        /\ DiskLinedefs(lds)[i].tag = lds[i].tag
        /\ DiskLinedefs(lds)[i].sidedef1 = DiskRefOf(lds[i].sidedef1)
        /\ DiskLinedefs(lds)[i].sidedef2 = DiskRefOf(lds[i].sidedef2)
  BY <1>3, <1>4, <1>5
<1>7. DiskLinedefs(lds) \in [1 .. n -> Linedef(DiskRef)]
  BY <1>5, <1>6
<1>8. \A i \in 1 .. m :
        [middle |-> sds[i].middle, spelling |-> sds[i].spelling,
         trim |-> sds[i].trim, place |-> sds[i].place] \in Sidedef
  <2>1. \A i \in 1 .. m : sds[i] \in MemSidedef
    BY <1>1
  <2> QED
    BY <2>1 DEF Sidedef, MemSidedef
<1>9. DiskSidedefs(sds) \in [1 .. m -> Sidedef]
  BY <1>1, <1>8 DEF DiskSidedefs
<1>10. \A i \in 1 .. m : /\ DiskSidedefs(sds)[i].middle = sds[i].middle
                         /\ DiskSidedefs(sds)[i].trim = sds[i].trim
                         /\ DiskSidedefs(sds)[i].place = sds[i].place
  BY <1>1 DEF DiskSidedefs
<1>11. /\ DiskLinedefs(lds) \in Seq(Linedef(DiskRef)) /\ Len(DiskLinedefs(lds)) = n
       /\ DiskSidedefs(sds) \in Seq(Sidedef) /\ Len(DiskSidedefs(sds)) = m
  BY <1>7, <1>9
<1> QED
  BY <1>1, <1>6, <1>10, <1>11

\* What is written as it was read is what was there.
LEMMA ReadBack ==
  ASSUME NEW l \in Level
  PROVE  /\ DiskLinedefs(ReadLinedefs(l)) = l.linedefs
         /\ DiskSidedefs(ReadSidedefs(l)) = l.sidedefs
<1>1. /\ l.linedefs \in Seq(Linedef(DiskRef)) /\ l.sidedefs \in Seq(Sidedef)
  BY DEF Level
<1>2. PICK n \in Nat, m \in Nat :
        /\ n = Len(l.linedefs) /\ DOMAIN l.linedefs = 1 .. n
        /\ m = Len(l.sidedefs) /\ DOMAIN l.sidedefs = 1 .. m
  BY <1>1
<1>3. PICK lds \in Seq(Linedef(MemRef)), sds \in Seq(MemSidedef) :
        lds = ReadLinedefs(l) /\ sds = ReadSidedefs(l)
  BY ReadTyped
<1>4. Len(lds) = n /\ Len(sds) = m
  BY <1>2, <1>3, ReadTyped
<1>5. ASSUME NEW i \in 1 .. n PROVE DiskLinedefs(lds)[i] = l.linedefs[i]
  <2>1. l.linedefs[i] \in Linedef(DiskRef)
    BY <1>1, <1>2
  <2>2. lds[i] = WithRefs(l.linedefs[i], MapSidedefRef)
    BY <1>2, <1>3, ReadTyped
  <2>3. DiskLinedefs(lds)[i] = WithRefs(lds[i], DiskRefOf)
    BY <1>4, DiskTyped
  <2> QED
    BY <2>1, <2>2, <2>3, RefsMapped
<1>6. ASSUME NEW i \in 1 .. m PROVE DiskSidedefs(sds)[i] = l.sidedefs[i]
  <2>1. PICK s \in Sidedef : s = l.sidedefs[i]
    BY <1>1, <1>2
  <2>2. sds[i] = [middle |-> s.middle, spelling |-> s.spelling, trim |-> s.trim,
                  place |-> s.place, domain |-> 0]
    BY <1>2, <1>3, <2>1 DEF ReadSidedefs
  <2>3. DOMAIN sds = 1 .. m
    BY <1>4
  <2>4. DiskSidedefs(sds)[i] = [middle |-> s.middle, spelling |-> s.spelling,
                                trim |-> s.trim, place |-> s.place]
    BY <2>2, <2>3 DEF DiskSidedefs
  <2>5. s = [middle |-> s.middle, spelling |-> s.spelling, trim |-> s.trim,
             place |-> s.place]
    BY DEF Sidedef
  <2> QED
    BY <2>1, <2>4, <2>5
<1>7. /\ DiskLinedefs(lds) \in Seq(Linedef(DiskRef)) /\ Len(DiskLinedefs(lds)) = n
      /\ DiskSidedefs(sds) \in Seq(Sidedef) /\ Len(DiskSidedefs(sds)) = m
  BY <1>4, DiskTyped
<1>8. DiskLinedefs(lds) = l.linedefs
  BY <1>1, <1>2, <1>5, <1>7, SameElements, ZenonT(60)
<1>9. DiskSidedefs(sds) = l.sidedefs
  BY <1>1, <1>2, <1>6, <1>7, SameElements
<1> QED
  BY <1>3, <1>8, <1>9

LEMMA DomainTyped ==
  ASSUME NEW ld \in Linedef(MemRef) PROVE LinedefMergeDomain(ld) \in MergeDomain
<1>1. ld.tag \in Nat
  BY DEF Linedef
<1> QED
  BY <1>1 DEF LinedefMergeDomain, UntaggedDomain, TagDomain, InMergeRange, MergeDomain,
              MERGE_RANGE_START, MERGE_RANGE_END, MERGE_DOMAIN_SPECIAL

LEMMA CopyTyped ==
  ASSUME orig.sidedefs \in Seq(MemSidedef), NEW ld \in Linedef(MemRef),
         NEW r \in 0 .. Len(orig.sidedefs) - 1, NEW wipe \in BOOLEAN
  PROVE  /\ CopyOf(ld, r, wipe) \in MemSidedef
         /\ CopyOf(ld, r, wipe).middle = orig.sidedefs[r + 1].middle
         /\ CopyOf(ld, r, wipe).trim
              = IF wipe THEN Wiped ELSE orig.sidedefs[r + 1].trim
         /\ CopyOf(ld, r, wipe).place = orig.sidedefs[r + 1].place
         /\ CopyOf(ld, r, wipe).domain = LinedefMergeDomain(ld)
<1>1. PICK s \in MemSidedef : s = orig.sidedefs[r + 1]
  OBVIOUS
<1>2. PICK d \in MergeDomain : d = LinedefMergeDomain(ld)
  BY DomainTyped
<1>3. PICK t \in Nat : t = IF wipe THEN Wiped ELSE s.trim
  BY DEF MemSidedef, Wiped
<1>4. CopyOf(ld, r, wipe) = [s EXCEPT !.domain = d, !.trim = t]
  BY <1>1, <1>2, <1>3 DEF CopyOf
<1>5. /\ [s EXCEPT !.domain = d, !.trim = t] \in MemSidedef
      /\ [s EXCEPT !.domain = d, !.trim = t].middle = s.middle
      /\ [s EXCEPT !.domain = d, !.trim = t].trim = t
      /\ [s EXCEPT !.domain = d, !.trim = t].place = s.place
      /\ [s EXCEPT !.domain = d, !.trim = t].domain = d
  BY DEF MemSidedef
<1> QED
  BY <1>1, <1>2, <1>3, <1>4, <1>5

\* The line as it is with sidedefs of its own, and the sidedefs it then has.
LEMMA RedirectedTyped ==
  ASSUME NEW ld \in Linedef(MemRef), NEW n \in Nat
  PROVE  /\ Redirected(ld, n) \in Linedef(MemRef)
         /\ Redirected(ld, n).type = ld.type
         /\ Redirected(ld, n).tag = ld.tag
         /\ SideRef(Redirected(ld, n), 1)
              = IF SideRef(ld, 1) = NO_SIDEDEF THEN NO_SIDEDEF ELSE n
         /\ SideRef(Redirected(ld, n), 2)
              = IF SideRef(ld, 2) = NO_SIDEDEF THEN NO_SIDEDEF
                ELSE IF SideRef(ld, 1) = NO_SIDEDEF THEN n ELSE n + 1
<1> DEFINE a == IF ld.sidedef1 = NO_SIDEDEF THEN ld.sidedef1 ELSE n
           b == IF ld.sidedef2 = NO_SIDEDEF THEN ld.sidedef2
                ELSE IF ld.sidedef1 = NO_SIDEDEF THEN n ELSE n + 1
<1>1. a \in MemRef /\ b \in MemRef
  <2>1. ld.sidedef1 \in MemRef /\ ld.sidedef2 \in MemRef
    BY DEF Linedef
  <2> QED
    BY <2>1 DEF MemRef
<1>2. Redirected(ld, n) = [ld EXCEPT !.sidedef1 = a, !.sidedef2 = b]
  BY DEF Redirected
<1>3. /\ [ld EXCEPT !.sidedef1 = a, !.sidedef2 = b] \in Linedef(MemRef)
      /\ [ld EXCEPT !.sidedef1 = a, !.sidedef2 = b].type = ld.type
      /\ [ld EXCEPT !.sidedef1 = a, !.sidedef2 = b].tag = ld.tag
      /\ [ld EXCEPT !.sidedef1 = a, !.sidedef2 = b].sidedef1 = a
      /\ [ld EXCEPT !.sidedef1 = a, !.sidedef2 = b].sidedef2 = b
  <2> HIDE DEF a, b
  <2> QED
    BY <1>1 DEF Linedef
<1> QED
  BY <1>2, <1>3 DEF SideRef

LEMMA CopiesTyped ==
  ASSUME orig.sidedefs \in Seq(MemSidedef), NEW ld \in Linedef(MemRef), NEW n \in Nat,
         RefsValid(ld, Len(orig.sidedefs))
  PROVE  /\ Copies(ld) \in Seq(MemSidedef)
         /\ \A r \in n .. n + Len(Copies(ld)) - 1 :
              \E s \in Side : SideRef(Redirected(ld, n), s) = r
         /\ SideRef(Redirected(ld, n), 1) = SideRef(Redirected(ld, n), 2)
              => SideRef(Redirected(ld, n), 1) = NO_SIDEDEF
         /\ \A s \in Side :
              LET new == SideRef(Redirected(ld, n), s) IN
              IF SideRef(ld, s) = NO_SIDEDEF THEN new = NO_SIDEDEF
              ELSE /\ SideRef(ld, s) \in 0 .. Len(orig.sidedefs) - 1
                   /\ new \in n .. n + Len(Copies(ld)) - 1
                   /\ Copies(ld)[new - n + 1]
                        = CopyOf(ld, SideRef(ld, s), s = 1 /\ Wipes(ld))
<1> DEFINE a == SideRef(ld, 1)
           b == SideRef(ld, 2)
           A == CopyOf(ld, a, Wipes(ld))
           B == CopyOf(ld, b, FALSE)
<1>1. /\ a # NO_SIDEDEF => a \in 0 .. Len(orig.sidedefs) - 1
      /\ b # NO_SIDEDEF => b \in 0 .. Len(orig.sidedefs) - 1
  <2>1. a \in MemRef /\ b \in MemRef
    BY DEF Linedef, SideRef
  <2> QED
    BY <2>1 DEF RefsValid, CheckSidedefIndex, MemRef, SideRef
<1>2. /\ a # NO_SIDEDEF => A \in MemSidedef
      /\ b # NO_SIDEDEF => B \in MemSidedef
  BY <1>1, CopyTyped DEF Wipes
<1>3. Copies(ld) = (IF a = NO_SIDEDEF THEN <<>> ELSE <<A>>)
                   \o (IF b = NO_SIDEDEF THEN <<>> ELSE <<B>>)
  BY DEF Copies, SideRef
<1>4. A = CopyOf(ld, a, 1 = 1 /\ Wipes(ld)) /\ B = CopyOf(ld, b, 2 = 1 /\ Wipes(ld))
  BY DEF CopyOf
<1>5. PICK x, y : /\ x = SideRef(Redirected(ld, n), 1)
                  /\ y = SideRef(Redirected(ld, n), 2)
                  /\ x = IF a = NO_SIDEDEF THEN NO_SIDEDEF ELSE n
                  /\ y = IF b = NO_SIDEDEF THEN NO_SIDEDEF
                         ELSE IF a = NO_SIDEDEF THEN n ELSE n + 1
  BY RedirectedTyped
<1>6. PICK cs : cs = Copies(ld)
  OBVIOUS
<1>7. SUFFICES
        /\ cs \in Seq(MemSidedef)
        /\ \A r \in n .. n + Len(cs) - 1 : x = r \/ y = r
        /\ x = y => x = NO_SIDEDEF
        /\ a = NO_SIDEDEF => x = NO_SIDEDEF
        /\ a # NO_SIDEDEF => x \in n .. n + Len(cs) - 1 /\ cs[x - n + 1] = A
        /\ b = NO_SIDEDEF => y = NO_SIDEDEF
        /\ b # NO_SIDEDEF => y \in n .. n + Len(cs) - 1 /\ cs[y - n + 1] = B
  BY <1>1, <1>4, <1>5, <1>6 DEF Side
<1> HIDE DEF a, b, A, B
<1>8. CASE a = NO_SIDEDEF /\ b = NO_SIDEDEF
  <2>1. cs = <<>>
    BY <1>3, <1>6, <1>8
  <2> QED
    BY <1>5, <1>8, <2>1
<1>9. CASE a = NO_SIDEDEF /\ b # NO_SIDEDEF
  <2>1. cs = <<B>>
    BY <1>3, <1>6, <1>9
  <2> QED
    BY <1>2, <1>5, <1>9, <2>1 DEF NO_SIDEDEF
<1>10. CASE a # NO_SIDEDEF /\ b = NO_SIDEDEF
  <2>1. cs = <<A>>
    BY <1>3, <1>6, <1>10
  <2> QED
    BY <1>2, <1>5, <1>10, <2>1 DEF NO_SIDEDEF
<1>11. CASE a # NO_SIDEDEF /\ b # NO_SIDEDEF
  <2>1. cs = <<A>> \o <<B>>
    BY <1>3, <1>6, <1>11
  <2>2. /\ cs \in Seq(MemSidedef) /\ Len(cs) = 2 /\ cs[1] = A /\ cs[2] = B
    BY <1>2, <1>11, <2>1
  <2>3. /\ x = n /\ y = n + 1 /\ x - n + 1 = 1 /\ y - n + 1 = 2
    BY <1>5, <1>11
  <2> QED
    BY <1>11, <2>2, <2>3
<1> QED
  BY <1>8, <1>9, <1>10, <1>11

-----------------------------------------------------------------------------
(* The order of the sorted map *)

LEMMA SameIsAlike ==
  ASSUME NEW s \in MemSidedef, NEW t \in MemSidedef
  PROVE  Same(s, t) <=> Alike(s, t)
<1>1. /\ s.middle \in Nat /\ s.trim \in Nat /\ s.domain \in Int /\ s.place \in Nat
      /\ t.middle \in Nat /\ t.trim \in Nat /\ t.domain \in Int /\ t.place \in Nat
  BY DEF MemSidedef, MergeDomain
<1> QED
  BY <1>1 DEF Same, Sooner, Alike

LEMMA SoonerOrders ==
  ASSUME NEW s \in MemSidedef, NEW t \in MemSidedef, NEW u \in MemSidedef
  PROVE  /\ ~Sooner(s, s)
         /\ Sooner(s, t) => ~Sooner(t, s)
         /\ Sooner(s, t) /\ Sooner(t, u) => Sooner(s, u)
         /\ Same(s, t) /\ Sooner(t, u) => Sooner(s, u)
         /\ Sooner(s, t) /\ Same(t, u) => Sooner(s, u)
         /\ Same(s, t) /\ Same(t, u) => Same(s, u)
<1>1. /\ s.middle \in Nat /\ s.trim \in Nat /\ s.domain \in Int /\ s.place \in Nat
      /\ t.middle \in Nat /\ t.trim \in Nat /\ t.domain \in Int /\ t.place \in Nat
      /\ u.middle \in Nat /\ u.trim \in Nat /\ u.domain \in Int /\ u.place \in Nat
  BY DEF MemSidedef, MergeDomain
<1> QED
  BY <1>1 DEF Sooner, Same

LEMMA PrecedesOrders ==
  ASSUME sides \in Seq(MemSidedef)
  PROVE  LET S == 0 .. Len(sides) - 1 IN
         TotalOrder(S, {p \in S \X S : Precedes(p[1], p[2])})
<1> DEFINE S == 0 .. Len(sides) - 1
           R == {p \in S \X S : Precedes(p[1], p[2])}
<1>1. \A i \in S : sides[i + 1] \in MemSidedef
  OBVIOUS
<1>2. \A i, j \in S : <<i, j>> \in R <=> Precedes(i, j)
  OBVIOUS
<1>3. ASSUME NEW i \in S PROVE ~Precedes(i, i)
  BY <1>1, SoonerOrders DEF Precedes
<1>4. ASSUME NEW i \in S, NEW j \in S, NEW k \in S, Precedes(i, j), Precedes(j, k)
      PROVE  Precedes(i, k)
  <2>1. PICK s \in MemSidedef, t \in MemSidedef, u \in MemSidedef :
          s = sides[i + 1] /\ t = sides[j + 1] /\ u = sides[k + 1]
    BY <1>1
  <2>2. i \in Int /\ j \in Int /\ k \in Int
    OBVIOUS
  <2> QED
    BY <1>4, <2>1, <2>2, SoonerOrders DEF Precedes
<1>5. ASSUME NEW i \in S, NEW j \in S, i # j
      PROVE  Precedes(i, j) \/ Precedes(j, i)
  BY <1>5 DEF Precedes, Same
<1>6. TotalOrder(S, R)
  <2> HIDE DEF S, R
  <2> QED
    BY <1>2, <1>3, <1>4, <1>5 DEF TotalOrder
<1> QED
  BY <1>6

LEMMA SortedMapSorts ==
  ASSUME sides \in Seq(MemSidedef)
  PROVE  LET m == SortedMap
             S == 0 .. Len(sides) - 1
         IN
         /\ m \in Seq(Nat) /\ Len(m) = Len(sides)
         /\ \A k \in 1 .. Len(m) : m[k] \in S
         /\ \A j, k \in 1 .. Len(m) : j < k => Precedes(m[j], m[k])
         /\ \A j, k \in 1 .. Len(m) : m[j] = m[k] => j = k
         /\ \A r \in S : \E k \in 1 .. Len(m) : m[k] = r
<1> DEFINE n == Len(sides)
           S == 0 .. n - 1
           R == {p \in S \X S : Precedes(p[1], p[2])}
<1>1. n \in Nat
  OBVIOUS
<1>2. IsFiniteSet(S) /\ Cardinality(S) = n
  <2> HIDE DEF n
  <2>1. 0 \in Int /\ n - 1 \in Int
    BY <1>1
  <2>2. IsFiniteSet(0 .. n - 1)
        /\ Cardinality(0 .. n - 1) = IF 0 > n - 1 THEN 0 ELSE n - 1 - 0 + 1
    BY <2>1, FS_Interval
  <2> QED
    BY <1>1, <2>2
<1>3. TotalOrder(S, R)
  BY PrecedesOrders
<1>4. \A e \in S : Ahead(S, R, e) = {j \in S : Precedes(j, e)}
  BY DEF Ahead
<1>5. PICK m : m = SortedMap
  OBVIOUS
<1>6. m = [k \in 1 .. n |-> CHOOSE i \in S : Cardinality({j \in S : Precedes(j, i)}) = k - 1]
  BY <1>5 DEF SortedMap
<1> HIDE DEF n, S, R
<1>7. ASSUME NEW k \in 1 .. n
      PROVE  m[k] \in S /\ Cardinality(Ahead(S, R, m[k])) = k - 1
  <2>1. \E i \in S : Cardinality(Ahead(S, R, i)) = k - 1
    BY <1>2, <1>3, EveryRankIsTaken
  <2>2. \E i \in S : Cardinality({j \in S : Precedes(j, i)}) = k - 1
    BY <1>4, <2>1
  <2>3. m[k] = CHOOSE i \in S : Cardinality({j \in S : Precedes(j, i)}) = k - 1
    BY <1>6
  <2>4. m[k] \in S /\ Cardinality({j \in S : Precedes(j, m[k])}) = k - 1
    BY <2>2, <2>3
  <2> QED
    BY <1>4, <2>4
<1>8. m \in [1 .. n -> S]
  BY <1>6, <1>7
<1>9. /\ \A j, k \in 1 .. n : j < k => <<m[j], m[k]>> \in R
      /\ \A j, k \in 1 .. n : m[j] = m[k] => j = k
      /\ \A e \in S : \E k \in 1 .. n : m[k] = e
  <2>1. ByRank(S, R, m)
    BY <1>2, <1>7, <1>8 DEF ByRank
  <2> QED
    BY <1>2, <1>3, <2>1, RanksSort
<1>10. m \in Seq(Nat) /\ Len(m) = n
  BY <1>1, <1>8 DEF S
<1>11. \A j, k \in S : <<j, k>> \in R => Precedes(j, k)
  BY DEF R
<1> QED
  BY <1>5, <1>7, <1>9, <1>10, <1>11 DEF n, S

-----------------------------------------------------------------------------
(* The steps of a run *)

LEMMA WhileRunning ==
  pc' # "idle" => OnlyAlikeShare' /\ FullyPacked' /\ FullyUnpacked'
BY DEF OnlyAlikeShare, FullyPacked, FullyUnpacked, Ended

LEMMA InitInv == Init => SidedefsInv
<1> SUFFICES ASSUME Init PROVE SidedefsInv
  OBVIOUS
<1>1. level \in Level
  BY LevelsAssumption DEF Init
<1>2. TypeOK
  BY <1>1 DEF Init, TypeOK, Command, MemRef
<1>3. trail = <<level>> /\ past = <<>> /\ was = level
  BY DEF Init, was
<1>4. Keeps(level, level, \E i \in DOMAIN past : past[i].wipesides)
  BY DEF Keeps
<1>5. OnDisk /\ SoFar
  <2>1. trail[1] = level /\ Len(trail) = Len(past) + 1
    BY <1>3
  <2>2. OnDisk
    BY <1>3, <2>1 DEF Init, OnDisk
  <2>3. SoFar
    BY <1>3, <1>4, <2>1, Zenon DEF SoFar
  <2> QED
    BY <2>2, <2>3
<1>6. ~Ended("pack") /\ ~Ended("unpack")
  BY DEF Init, Ended
<1> QED
  BY <1>2, <1>5, <1>6 DEF SidedefsInv, Init, Rebuilding, Merging, Outcome, OnlyAlikeShare,
                          FullyPacked, FullyUnpacked

LEMMA StartKeeps ==
  ASSUME SidedefsInv, NEW c \in Allowed, Start(c) PROVE SidedefsInv'
<1>1. /\ pc = "idle" /\ cmd' = c /\ UNCHANGED <<level, past, trail>>
      /\ TypeOK /\ level = was /\ c \in Command
  BY DEF SidedefsInv, Start, history, OnDisk, Allowed
<1>2. was' = was /\ SoFar'
  BY <1>1 DEF SidedefsInv, SoFar, was
<1>3. level \in Level
  BY <1>1 DEF TypeOK
<1>4. CASE ~level.whole
  <2>1. /\ pc' = "errorexit"
        /\ UNCHANGED <<orig, lines, sides, size, at, map, newindex, packed, success>>
    BY <1>4 DEF Start, Goto
  <2>2. TypeOK'
    BY <1>1, <2>1 DEF TypeOK
  <2>3. OnDisk'
    BY <1>1, <1>2, <2>1 DEF SidedefsInv, OnDisk
  <2> QED
    BY <1>2, <2>1, <2>2, <2>3, WhileRunning
       DEF SidedefsInv, Rebuilding, Merging, Outcome
<1>5. CASE level.whole
  <2>1. /\ pc' = "rebuild"
        /\ orig' = [hexen |-> level.hexen, linedefs |-> ReadLinedefs(level),
                    sidedefs |-> ReadSidedefs(level)]
        /\ lines' = ReadLinedefs(level) /\ sides' = <<>>
        /\ size' = Len(level.sidedefs) /\ at' = 1
        /\ UNCHANGED <<map, newindex, packed, success>>
    BY <1>5 DEF Start, Goto
  <2>2. /\ orig'.linedefs \in Seq(Linedef(MemRef)) /\ orig'.sidedefs \in Seq(MemSidedef)
        /\ lines' = orig'.linedefs /\ Len(level.sidedefs) \in Nat
    BY <1>3, <2>1, ReadTyped DEF Level
  <2>3. TypeOK'
    BY <1>1, <2>1, <2>2 DEF TypeOK
  <2>4. OnDisk'
    BY <1>1, <1>2, <2>1 DEF SidedefsInv, OnDisk
  <2>5. at' \in 1 .. Len(lines') + 1 /\ Rebuilt(0)'
    BY <2>1, <2>2 DEF Rebuilt, SameLines, Used
  <2>6. Rebuilding'
    BY <2>1, <2>5 DEF Rebuilding
  <2> QED
    BY <1>2, <2>1, <2>3, <2>4, <2>6, WhileRunning DEF SidedefsInv, Merging, Outcome
<1> QED
  BY <1>4, <1>5

\* The lines and sidedefs after one more line was rebuilt.
LEMMA RebuiltOneMore ==
  ASSUME TypeOK, NEW k \in DOMAIN lines, Rebuilt(k - 1),
         RefsValid(lines[k], Len(orig.sidedefs)),
         sides' = sides \o Copies(lines[k]),
         lines' = [lines EXCEPT ![k] = Redirected(lines[k], Len(sides))],
         UNCHANGED <<orig, cmd>>
  PROVE  /\ lines' \in Seq(Linedef(MemRef)) /\ sides' \in Seq(MemSidedef)
         /\ Rebuilt(k)'
<1> DEFINE ld == lines[k]
           n == Len(sides)
           new == Redirected(ld, n)
           cs == Copies(ld)
<1>1. /\ lines \in Seq(Linedef(MemRef)) /\ sides \in Seq(MemSidedef)
      /\ orig.sidedefs \in Seq(MemSidedef) /\ n \in Nat /\ k \in Nat
      /\ k \in 1 .. Len(lines) /\ ld \in Linedef(MemRef)
  BY SMTT(60) DEF TypeOK
<1>2. ld = orig.linedefs[k]
  BY <1>1 DEF Rebuilt
<1>3. /\ new \in Linedef(MemRef) /\ new.type = ld.type /\ new.tag = ld.tag
  BY <1>1, RedirectedTyped
<1>4. /\ cs \in Seq(MemSidedef)
      /\ \A r \in n .. n + Len(cs) - 1 : \E s \in Side : SideRef(new, s) = r
      /\ SideRef(new, 1) = SideRef(new, 2) => SideRef(new, 1) = NO_SIDEDEF
  BY <1>1, CopiesTyped
<1>5. ASSUME NEW s \in Side
      PROVE  IF SideRef(ld, s) = NO_SIDEDEF THEN SideRef(new, s) = NO_SIDEDEF
             ELSE /\ SideRef(ld, s) \in 0 .. Len(orig.sidedefs) - 1
                  /\ SideRef(new, s) \in n .. n + Len(cs) - 1
                  /\ cs[SideRef(new, s) - n + 1]
                       = CopyOf(ld, SideRef(ld, s), s = 1 /\ Wipes(ld))
  BY <1>1, CopiesTyped
<1> HIDE DEF new, cs
<1>6. /\ sides' \in Seq(MemSidedef) /\ Len(sides') = n + Len(cs)
      /\ \A r \in 0 .. n - 1 : sides'[r + 1] = sides[r + 1]
      /\ \A r \in n .. n + Len(cs) - 1 : sides'[r + 1] = cs[r - n + 1]
  <2>1. sides' = sides \o cs
    BY DEF cs
  <2>2. /\ sides' \in Seq(MemSidedef) /\ Len(sides') = n + Len(cs)
        /\ \A i \in 1 .. n : sides'[i] = sides[i]
        /\ \A i \in n + 1 .. n + Len(cs) : sides'[i] = cs[i - n]
    BY <1>1, <1>4, <2>1, Joined
  <2>3. Len(cs) \in Nat
    BY <1>4
  <2> HIDE DEF n
  <2>4. ASSUME NEW r \in n .. n + Len(cs) - 1
        PROVE  sides'[r + 1] = cs[r - n + 1]
    <3>1. r + 1 \in n + 1 .. n + Len(cs) /\ (r + 1) - n = r - n + 1
      BY <1>1, <2>3, SMTT(60)
    <3> QED
      BY <2>2, <3>1
  <2>5. ASSUME NEW r \in 0 .. n - 1
        PROVE  sides'[r + 1] = sides[r + 1]
    <3>1. r + 1 \in 1 .. n
      BY <1>1
    <3> QED
      BY <2>2, <3>1
  <2> QED
    BY <2>2, <2>4, <2>5
<1>7. /\ lines' \in Seq(Linedef(MemRef)) /\ Len(lines') = Len(lines)
      /\ lines'[k] = new
      /\ \A i \in 1 .. Len(lines) : i # k => lines'[i] = lines[i]
  BY <1>1, <1>3 DEF new
<1> HIDE DEF ld, n
<1>8. SameLines'
  BY <1>1, <1>2, <1>3, <1>7 DEF Rebuilt, SameLines
<1>9. Used(k)'
  <2> SUFFICES ASSUME NEW r \in 0 .. Len(sides') - 1
               PROVE  \E i \in 1 .. k, s \in Side : SideRef(lines'[i], s) = r
    BY DEF Used, SideRef
  <2>1. CASE r \in 0 .. n - 1
    <3>1. PICK i \in 1 .. k - 1, s \in Side : SideRef(lines[i], s) = r
      BY <1>1, <2>1 DEF Rebuilt, Used, n
    <3>2. i \in 1 .. k /\ lines'[i] = lines[i]
      BY <1>1, <1>7
    <3> QED
      BY <3>1, <3>2
  <2>2. CASE r \in n .. n + Len(cs) - 1
    <3>1. PICK s \in Side : SideRef(new, s) = r
      BY <1>4, <2>2
    <3>2. SideRef(lines'[k], s) = r /\ k \in 1 .. k
      BY <1>1, <1>7, <3>1
    <3> QED
      BY <3>2
  <2> QED
    BY <1>1, <1>4, <1>6, <2>1, <2>2
<1>10. \A i \in k + 1 .. Len(lines') : lines'[i] = orig'.linedefs[i]
  BY <1>1, <1>7 DEF Rebuilt
<1>11. ASSUME NEW i \in 1 .. k - 1, NEW s \in Side
       PROVE  /\ Stands(i, s)' /\ Stands(i, s)
              /\ lines'[i] = lines[i]
              /\ SideRef(lines[i], s) # NO_SIDEDEF => SideRef(lines[i], s) \in 0 .. n - 1
  <2>1. lines'[i] = lines[i]
    BY <1>1, <1>7
  <2>2. Stands(i, s)
    BY DEF Rebuilt
  <2>3. SideRef(lines[i], s) # NO_SIDEDEF => SideRef(lines[i], s) \in 0 .. n - 1
    BY <2>2 DEF Stands, n
  <2>4. CASE SideRef(orig.linedefs[i], s) = NO_SIDEDEF
    BY <2>1, <2>2, <2>4 DEF Stands, SideRef
  <2>5. CASE SideRef(orig.linedefs[i], s) # NO_SIDEDEF
    <3>1. PICK r : r = SideRef(lines[i], s)
      OBVIOUS
    <3>2. /\ r \in 0 .. n - 1 /\ Alike(sides[r + 1], Given(i, s))
          /\ SideRef(orig.linedefs[i], s) \in 0 .. Len(orig.sidedefs) - 1
      BY <2>2, <2>5, <3>1 DEF Stands, n
    <3>3. r \in 0 .. Len(sides') - 1 /\ sides'[r + 1] = sides[r + 1]
      <4>1. Len(cs) \in Nat
        BY <1>4
      <4>2. r \in 0 .. n + Len(cs) - 1
        BY <1>1, <3>2, <4>1, SMTT(60)
      <4>3. Len(sides') = n + Len(cs) /\ sides'[r + 1] = sides[r + 1]
        BY <1>6, <3>2
      <4>4. PICK m : m = Len(sides')
        OBVIOUS
      <4>5. r \in 0 .. m - 1
        BY <1>1, <4>1, <4>2, <4>3, <4>4
      <4> QED
        BY <4>3, <4>4, <4>5
    <3>4. Given(i, s)' = Given(i, s)
      BY DEF Given, CopyOf, Wipes, SideRef, LinedefMergeDomain
    <3>5. Alike(sides'[r + 1], Given(i, s)')
      BY <3>2, <3>3, <3>4
    <3>6. SideRef(lines'[i], s) = r
      BY <2>1, <3>1
    <3> QED
      BY <2>1, <2>2, <2>3, <2>5, <3>2, <3>3, <3>5, <3>6 DEF Stands, SideRef
  <2> QED
    BY <2>1, <2>2, <2>3, <2>4, <2>5
<1>12. ASSUME NEW s \in Side PROVE Stands(k, s)'
  <2>1. CASE SideRef(ld, s) = NO_SIDEDEF
    BY <1>2, <1>5, <1>7, <2>1 DEF Stands, SideRef
  <2>2. CASE SideRef(ld, s) # NO_SIDEDEF
    <3>1. PICK r : r = SideRef(new, s)
      OBVIOUS
    <3>2. /\ r \in n .. n + Len(cs) - 1
          /\ SideRef(ld, s) \in 0 .. Len(orig.sidedefs) - 1
          /\ cs[r - n + 1] = CopyOf(ld, SideRef(ld, s), s = 1 /\ Wipes(ld))
      BY <1>5, <2>2, <3>1
    <3>3. r \in 0 .. Len(sides') - 1 /\ sides'[r + 1] = cs[r - n + 1]
      <4>1. Len(cs) \in Nat
        BY <1>4
      <4>2. r \in 0 .. n + Len(cs) - 1
        BY <1>1, <3>2, <4>1
      <4>3. Len(sides') = n + Len(cs) /\ sides'[r + 1] = cs[r - n + 1]
        BY <1>6, <3>2
      <4>4. PICK m : m = Len(sides')
        OBVIOUS
      <4>5. r \in 0 .. m - 1
        BY <1>1, <4>1, <4>2, <4>3, <4>4
      <4> QED
        BY <4>3, <4>4, <4>5
    <3>4. Given(k, s)' = CopyOf(ld, SideRef(ld, s), s = 1 /\ Wipes(ld))
      BY <1>2 DEF Given, CopyOf, Wipes, SideRef, LinedefMergeDomain
    <3>5. Alike(sides'[r + 1], Given(k, s)')
      BY <3>2, <3>3, <3>4 DEF Alike
    <3>6. SideRef(lines'[k], s) = r
      BY <1>7, <3>1
    <3> QED
      BY <1>2, <2>2, <3>2, <3>3, <3>5, <3>6 DEF Stands, SideRef, Alike
  <2> QED
    BY <2>1, <2>2
<1>13. ASSUME NEW i \in 1 .. k, NEW j \in 1 .. k, NEW s \in Side, NEW t \in Side,
              SideRef(lines'[i], s) = SideRef(lines'[j], t),
              SideRef(lines'[i], s) # NO_SIDEDEF
       PROVE  i = j /\ s = t
  <2>1. CASE i # k /\ j # k
    <3>1. i \in 1 .. k - 1 /\ j \in 1 .. k - 1
      BY <1>1, <2>1
    <3>2. lines'[i] = lines[i] /\ lines'[j] = lines[j]
      BY <1>11, <3>1
    <3> QED
      BY <1>13, <3>1, <3>2 DEF Rebuilt
  <2>2. CASE i = k /\ j = k
    BY <1>4, <1>7, <1>13, <2>2 DEF Side
  <2>3. ASSUME NEW h \in 1 .. k - 1, NEW u \in Side, NEW v \in Side,
               SideRef(lines'[h], u) # NO_SIDEDEF,
               SideRef(lines'[k], v) # NO_SIDEDEF
        PROVE  SideRef(lines'[h], u) # SideRef(lines'[k], v)
    <3>1. SideRef(lines'[h], u) \in 0 .. n - 1
      BY <1>11, <2>3
    <3>2. SideRef(lines'[k], v) \in n .. n + Len(cs) - 1
      BY <1>5, <1>7, <2>3
    <3> QED
      BY <1>1, <3>1, <3>2
  <2>4. CASE i # k /\ j = k
    <3>1. i \in 1 .. k - 1
      BY <1>1, <2>4
    <3> QED
      BY <1>13, <2>3, <2>4, <3>1
  <2>5. CASE i = k /\ j # k
    <3>1. j \in 1 .. k - 1
      BY <1>1, <2>5
    <3> QED
      BY <1>13, <2>3, <2>5, <3>1
  <2> QED
    BY <2>1, <2>2, <2>4, <2>5
<1>14. \A i \in 1 .. k, s \in Side : Stands(i, s)'
  <2> SUFFICES ASSUME NEW i \in 1 .. k, NEW s \in Side PROVE Stands(i, s)'
    OBVIOUS
  <2>1. i = k \/ i \in 1 .. k - 1
    BY <1>1
  <2> QED
    BY <1>11, <1>12, <2>1
<1>15. Rebuilt(k)'
  BY <1>8, <1>9, <1>10, <1>13, <1>14 DEF Rebuilt
<1> QED
  BY <1>6, <1>7, <1>15

LEMMA RebuiltStays ==
  ASSUME UNCHANGED <<orig, cmd, lines, sides>>, NEW n, Rebuilt(n) PROVE Rebuilt(n)'
<1>1. \A i, s : Stands(i, s)' <=> Stands(i, s)
  BY DEF Stands, Given, CopyOf, Wipes, SideRef, LinedefMergeDomain, Alike
<1> QED
  BY <1>1 DEF Rebuilt, SameLines, Used, SideRef

LEMMA MadeStays ==
  ASSUME UNCHANGED <<orig, cmd, lines, sides>>, Made PROVE Made'
<1>1. \A i, s : Stands(i, s)' <=> Stands(i, s)
  BY DEF Stands, Given, CopyOf, Wipes, SideRef, LinedefMergeDomain, Alike
<1>2. \A i, s : Given(i, s)' = Given(i, s)
  BY DEF Given, CopyOf, Wipes, SideRef, LinedefMergeDomain
<1>3. SameLines' /\ Used(Len(lines))' /\ SidedefsLimit' = SidedefsLimit
  BY DEF Made, SameLines, Used, SideRef, SidedefsLimit
<1>4. (\A i \in DOMAIN lines, s \in Side : Stands(i, s))'
  BY <1>1 DEF Made
<1> QED
  BY <1>2, <1>3, <1>4 DEF Made, SideRef, Alike, Used

LEMMA MapSortedStays ==
  ASSUME UNCHANGED <<sides, map>>, MapSorted PROVE MapSorted'
BY DEF MapSorted, Precedes

\* A bad reference that was read is on disk.
LEMMA BadRefs ==
  ASSUME NEW l \in Level, NEW i \in 1 .. Len(l.linedefs),
         ~RefsValid(ReadLinedefs(l)[i], Len(ReadSidedefs(l)))
  PROVE  ~RefsInLevel(l)
<1>1. /\ l.linedefs \in Seq(Linedef(DiskRef)) /\ l.sidedefs \in Seq(Sidedef)
      /\ Len(l.sidedefs) \in Nat
  BY DEF Level
<1>2. PICK ld \in Linedef(DiskRef) : ld = l.linedefs[i]
  BY <1>1
<1>3. PICK m : m = ReadLinedefs(l)[i]
  OBVIOUS
<1>4. m.sidedef1 = MapSidedefRef(ld.sidedef1) /\ m.sidedef2 = MapSidedefRef(ld.sidedef2)
  BY <1>2, <1>3, ReadTyped, RefsMapped
<1>5. ~RefsValid(m, Len(l.sidedefs))
  BY <1>3, ReadTyped
<1>6. \/ ld.sidedef1 # NoIndex /\ ~(ld.sidedef1 < Len(l.sidedefs))
      \/ ld.sidedef2 # NoIndex /\ ~(ld.sidedef2 < Len(l.sidedefs))
  BY <1>4, <1>5 DEF RefsValid, CheckSidedefIndex, MapSidedefRef
<1>7. <<i, 1>> \in LineSides(l) /\ <<i, 2>> \in LineSides(l)
  BY <1>1 DEF LineSides
<1>8. RefOf(l, <<i, 1>>) = ld.sidedef1 /\ RefOf(l, <<i, 2>>) = ld.sidedef2
  BY <1>2 DEF RefOf
<1> QED
  BY <1>6, <1>7, <1>8 DEF RefsInLevel

LEMMA WasTyped ==
  ASSUME TypeOK, OnDisk PROVE was \in Level /\ Len(trail) \in Nat \ {0}
BY DEF TypeOK, OnDisk, was

LEMMA BadLine ==
  ASSUME TypeOK, OnDisk, pc \notin {"idle", "errorexit"}, NEW k \in DOMAIN lines,
         Rebuilt(k - 1), ~RefsValid(lines[k], Len(orig.sidedefs))
  PROVE  ~RefsInLevel(was)
<1>1. k \in 1 .. Len(lines) /\ Len(lines) \in Nat
  BY DEF TypeOK
<1>2. /\ orig.linedefs = ReadLinedefs(was) /\ orig.sidedefs = ReadSidedefs(was)
  BY DEF OnDisk
<1>3. lines[k] = orig.linedefs[k] /\ Len(lines) = Len(orig.linedefs)
  BY <1>1 DEF Rebuilt, SameLines
<1>4. was \in Level
  BY WasTyped
<1>5. k \in 1 .. Len(was.linedefs)
  BY <1>1, <1>2, <1>3, <1>4, ReadTyped
<1> QED
  BY <1>2, <1>3, <1>4, <1>5, BadRefs

LEMMA RebuildLineKeeps ==
  ASSUME SidedefsInv, RebuildLine PROVE SidedefsInv'
<1>1. /\ pc = "rebuild" /\ at \in DOMAIN lines
      /\ UNCHANGED <<level, cmd, orig, size, map, newindex, packed, past, trail>>
      /\ TypeOK /\ OnDisk /\ SoFar /\ Rebuilt(at - 1) /\ at \in 1 .. Len(lines)
  BY DEF SidedefsInv, RebuildLine, history, Rebuilding, TypeOK
<1>2. was' = was /\ SoFar'
  BY <1>1 DEF SoFar, was
<1>3. CASE ~RefsValid(lines[at], Len(orig.sidedefs)) /\ GiveUp /\ UNCHANGED at
  <2>1. /\ lines' = orig.linedefs /\ sides' = orig.sidedefs /\ success' = TRUE
        /\ pc' = "linedefs"
    BY <1>3 DEF GiveUp, Goto
  <2>2. TypeOK'
    BY <1>1, <1>3, <2>1 DEF TypeOK
  <2>3. OnDisk'
    BY <1>1, <1>2, <2>1 DEF OnDisk
  <2>4. ~RefsInLevel(was)
    BY <1>1, <1>3, BadLine
  <2>5. Outcome'
    BY <1>1, <1>2, <2>1, <2>4 DEF Outcome
  <2> QED
    BY <1>2, <2>1, <2>2, <2>3, <2>5, WhileRunning DEF SidedefsInv, Rebuilding, Merging
<1>4. CASE /\ RefsValid(lines[at], Len(orig.sidedefs))
           /\ sides' = sides \o Copies(lines[at])
           /\ lines' = [lines EXCEPT ![at] = Redirected(lines[at], Len(sides))]
           /\ at' = at + 1 /\ UNCHANGED <<success, pc>>
  <2>1. PICK k : k = at
    OBVIOUS
  <2>2. /\ lines' \in Seq(Linedef(MemRef)) /\ sides' \in Seq(MemSidedef) /\ Rebuilt(k)'
    BY <1>1, <1>4, <2>1, RebuiltOneMore
  <2>3. /\ at' \in Nat \ {0} /\ at' \in 1 .. Len(lines') + 1 /\ at' - 1 = k
    BY <1>1, <1>4, <2>1, SMTT(60) DEF TypeOK
  <2>4. TypeOK'
    BY <1>1, <1>4, <2>2, <2>3 DEF TypeOK
  <2>5. OnDisk'
    BY <1>1, <1>2, <1>4 DEF OnDisk
  <2>6. Rebuilding'
    BY <2>2, <2>3 DEF Rebuilding
  <2> QED
    BY <1>1, <1>2, <1>4, <2>4, <2>5, <2>6, WhileRunning DEF SidedefsInv, Merging, Outcome
<1>5. CASE UNCHANGED <<sides, lines, at, success, pc>>
  <2>1. TypeOK'
    BY <1>1, <1>5 DEF TypeOK
  <2>2. OnDisk'
    BY <1>1, <1>2, <1>5 DEF OnDisk
  <2>3. Rebuilding'
    <3>1. PICK n : n = at - 1
      OBVIOUS
    <3>2. Rebuilt(n)'
      BY <1>1, <1>5, <3>1, RebuiltStays
    <3> QED
      BY <1>1, <1>5, <3>1, <3>2 DEF Rebuilding
  <2> QED
    BY <1>1, <1>2, <1>5, <2>1, <2>2, <2>3, WhileRunning DEF SidedefsInv, Merging, Outcome
<1> QED
  BY <1>3, <1>4, <1>5 DEF RebuildLine

LEMMA SortKeeps ==
  ASSUME SidedefsInv, Sort PROVE SidedefsInv'
<1>1. /\ pc = "rebuild" /\ at = Len(lines) + 1 /\ pc' = "merge" /\ at' = 1
      /\ cmd.op = "pack"
      /\ map' = SortedMap /\ newindex' = [i \in 0 .. Len(sides) - 1 |-> NO_SIDEDEF]
      /\ packed' = <<>> /\ size' = Len(sides)
      /\ UNCHANGED <<level, cmd, orig, lines, sides, success, past, trail>>
      /\ TypeOK /\ OnDisk /\ SoFar /\ Rebuilt(at - 1)
  BY DEF SidedefsInv, Sort, history, Rebuilding, PackedSize, Goto
<1>2. was' = was /\ SoFar'
  BY <1>1 DEF SoFar, was
<1>3. sides \in Seq(MemSidedef) /\ Len(sides) \in Nat /\ Len(lines) \in Nat
  BY <1>1 DEF TypeOK
<1>4. map' \in Seq(Nat) /\ MapSorted'
  <2>1. PICK m : m = map'
    OBVIOUS
  <2>2. /\ m \in Seq(Nat) /\ Len(m) = Len(sides)
        /\ \A k \in 1 .. Len(m) : m[k] \in 0 .. Len(sides) - 1
        /\ \A j, k \in 1 .. Len(m) : j < k => Precedes(m[j], m[k])
        /\ \A j, k \in 1 .. Len(m) : m[j] = m[k] => j = k
        /\ \A r \in 0 .. Len(sides) - 1 : \E k \in 1 .. Len(m) : m[k] = r
    BY <1>1, <1>3, <2>1, SortedMapSorts
  <2>3. \A i, j : Precedes(i, j)' <=> Precedes(i, j)
    BY <1>1 DEF Precedes
  <2> QED
    BY <1>1, <2>1, <2>2, <2>3 DEF MapSorted
<1>5. TypeOK'
  <2>1. newindex' \in [DOMAIN newindex' -> MemRef]
    BY <1>1 DEF MemRef
  <2> QED
    BY <1>1, <1>3, <1>4, <2>1 DEF TypeOK
<1>6. OnDisk'
  BY <1>1, <1>2 DEF OnDisk
<1>7. Numbered(0)'
  BY <1>1, <1>3 DEF Numbered
<1>8. Rebuilt(Len(lines))'
  <2>1. PICK n : n = Len(lines)
    OBVIOUS
  <2>2. at - 1 = n
    BY <1>1, <1>3, <2>1
  <2>3. Rebuilt(n)'
    BY <1>1, <2>2, RebuiltStays
  <2> QED
    BY <1>1, <2>1, <2>3
<1>9. Merging'
  <2>1. at' \in 1 .. Len(map') + 1 /\ at' - 1 = 0 /\ cmd'.op = "pack"
    BY <1>1, <1>4
  <2> QED
    BY <1>4, <1>7, <1>8, <2>1 DEF Merging
<1> QED
  BY <1>1, <1>2, <1>5, <1>6, <1>9, WhileRunning DEF SidedefsInv, Rebuilding, Outcome

LEMMA MappedTyped ==
  ASSUME TypeOK, MapSorted
  PROVE  /\ Len(map) \in Nat /\ Len(map) = Len(sides)
         /\ \A i \in 1 .. Len(map) : /\ map[i] \in 0 .. Len(sides) - 1
                                     /\ map[i] \in Int /\ Mapped(i) \in MemSidedef
<1>1. sides \in Seq(MemSidedef) /\ map \in Seq(Nat)
  BY DEF TypeOK
<1>2. \A i \in 1 .. Len(map) : map[i] \in 0 .. Len(sides) - 1
  BY DEF MapSorted
<1>3. \A r \in 0 .. Len(sides) - 1 : r \in Int /\ sides[r + 1] \in MemSidedef
  BY <1>1
<1> QED
  BY <1>1, <1>2, <1>3 DEF Mapped, MapSorted

\* Sidedefs alike are neighbours in the map, or have only others alike between.
LEMMA Neighbours ==
  ASSUME TypeOK, MapSorted, NEW j \in 1 .. Len(map), NEW k \in 1 .. Len(map),
         j < k, Alike(Mapped(j), Mapped(k))
  PROVE  k - 1 \in 1 .. Len(map) /\ Alike(Mapped(k - 1), Mapped(k))
<1>1. /\ \A i \in 1 .. Len(map) : Mapped(i) \in MemSidedef /\ map[i] \in Int
      /\ Len(map) \in Nat
  BY MappedTyped
<1>2. k - 1 \in 1 .. Len(map) /\ k - 1 < k
  BY <1>1
<1>3. CASE j = k - 1
  BY <1>2, <1>3
<1>4. CASE j # k - 1
  <2>1. PICK h : h = k - 1
    OBVIOUS
  <2>2. h \in 1 .. Len(map) /\ j < h /\ h < k
    BY <1>1, <1>2, <1>4, <2>1
  <2>3. Precedes(map[j], map[h]) /\ Precedes(map[h], map[k])
    BY <2>2 DEF MapSorted
  <2>4. PICK s \in MemSidedef, t \in MemSidedef, u \in MemSidedef :
          s = Mapped(j) /\ t = Mapped(h) /\ u = Mapped(k)
    BY <1>1, <2>2
  <2>5. (Sooner(s, t) \/ Same(s, t)) /\ (Sooner(t, u) \/ Same(t, u)) /\ Same(s, u)
    BY <2>3, <2>4, SameIsAlike DEF Precedes, Mapped
  <2>6. Same(t, u)
    BY <2>5, SoonerOrders DEF Same
  <2> QED
    BY <1>2, <2>1, <2>4, <2>6, SameIsAlike
<1> QED
  BY <1>3, <1>4

\* The sidedef that is next in the map, with the number it is given.
LEMMA NumberedOneMore ==
  ASSUME TypeOK, MapSorted, NEW k \in 1 .. Len(map), Numbered(k - 1),
         UNCHANGED <<sides, map>>,
         \/ /\ MergesAt(k) /\ UNCHANGED packed
            /\ newindex' = [newindex EXCEPT ![map[k]] = newindex[map[k - 1]]]
         \/ /\ ~MergesAt(k)
            /\ newindex' = [newindex EXCEPT ![map[k]] = Len(packed)]
            /\ packed' = Append(packed, Mapped(k))
  PROVE  /\ packed' \in Seq(MemSidedef) /\ newindex' \in [DOMAIN newindex' -> MemRef]
         /\ Numbered(k)'
<1>1. /\ \A i \in 1 .. Len(map) : Mapped(i) \in MemSidedef /\ map[i] \in 0 .. Len(sides) - 1
      /\ Len(map) \in Nat /\ Len(packed) \in Nat /\ k \in Nat
      /\ packed \in Seq(MemSidedef)
      /\ newindex \in [0 .. Len(sides) - 1 -> MemRef]
  <2>1. packed \in Seq(MemSidedef) /\ newindex \in [0 .. Len(sides) - 1 -> MemRef]
    BY DEF TypeOK, Numbered
  <2> QED
    BY <2>1, MappedTyped
<1>2. \A i : Mapped(i)' = Mapped(i) /\ (Special(i)' <=> Special(i))
  BY DEF Mapped, Special
<1>3. \A i \in 1 .. Len(map) : i # k => map[i] # map[k]
  BY DEF MapSorted
<1>4. PICK v : /\ v = IF MergesAt(k) THEN newindex[map[k - 1]] ELSE Len(packed)
               /\ newindex' = [newindex EXCEPT ![map[k]] = v]
  OBVIOUS
<1>5. /\ k > 1 => /\ newindex[map[k - 1]] = Len(packed) - 1
                  /\ newindex[map[k - 1]] \in 0 .. Len(packed) - 1
                  /\ Alike(packed[newindex[map[k - 1]] + 1], Mapped(k - 1))
  <2> SUFFICES ASSUME k > 1
               PROVE  /\ newindex[map[k - 1]] = Len(packed) - 1
                      /\ newindex[map[k - 1]] \in 0 .. Len(packed) - 1
                      /\ Alike(packed[newindex[map[k - 1]] + 1], Mapped(k - 1))
    OBVIOUS
  <2>1. k - 1 \in 1 .. k - 1 /\ k - 1 > 0
    BY <1>1
  <2> QED
    BY <2>1 DEF Numbered
<1>6. MergesAt(k) => k > 1 /\ ~Special(k) /\ Alike(Mapped(k - 1), Mapped(k))
  <2> SUFFICES ASSUME MergesAt(k)
               PROVE  k > 1 /\ ~Special(k) /\ Alike(Mapped(k - 1), Mapped(k))
    OBVIOUS
  <2>1. k > 1 /\ ~Special(k) /\ Same(Mapped(k), Mapped(k - 1))
    BY DEF MergesAt, Special, Mapped
  <2>2. k - 1 \in 1 .. Len(map)
    BY <1>1, <2>1
  <2> QED
    BY <1>1, <2>1, <2>2, SameIsAlike DEF Alike
<1>7. /\ \A i \in 1 .. k - 1 : newindex'[map[i]] = newindex[map[i]]
      /\ newindex'[map[k]] = v
      /\ DOMAIN newindex' = 0 .. Len(sides) - 1
  <2>1. \A i \in 1 .. k - 1 : i \in 1 .. Len(map) /\ i # k
    BY <1>1
  <2> QED
    BY <1>1, <1>3, <1>4, <2>1
<1>8. /\ packed' \in Seq(MemSidedef) /\ Len(packed') \in Nat
      /\ v \in 0 .. Len(packed') - 1 /\ Alike(packed'[v + 1], Mapped(k))
      /\ v = Len(packed') - 1
      /\ \A r \in 0 .. Len(packed) - 1 :
           r \in 0 .. Len(packed') - 1 /\ packed'[r + 1] = packed[r + 1]
      /\ \A r \in 0 .. Len(packed') - 1 : r \in 0 .. Len(packed) - 1 \/ r = v
  <2>1. CASE MergesAt(k)
    <3>1. packed' = packed /\ v = newindex[map[k - 1]]
      BY <1>4, <2>1
    <3>2. Alike(packed[v + 1], Mapped(k))
      BY <1>5, <1>6, <2>1, <3>1 DEF Alike
    <3> QED
      BY <1>1, <1>5, <1>6, <2>1, <3>1, <3>2
  <2>2. CASE ~MergesAt(k)
    <3>1. packed' = Append(packed, Mapped(k)) /\ v = Len(packed)
      BY <1>4, <2>2
    <3> QED
      BY <1>1, <3>1 DEF Alike
  <2> QED
    BY <2>1, <2>2
<1>9. newindex' \in [DOMAIN newindex' -> MemRef]
  <2>1. v \in MemRef
    BY <1>8 DEF MemRef
  <2> QED
    BY <1>1, <1>4, <1>7, <2>1
<1>10. ASSUME NEW i \in 1 .. k
       PROVE  /\ newindex'[map[i]] \in 0 .. Len(packed') - 1
              /\ Alike(packed'[newindex'[map[i]] + 1], Mapped(i))
  <2>1. CASE i = k
    BY <1>7, <1>8, <2>1
  <2>2. CASE i # k
    <3>1. i \in 1 .. k - 1
      BY <1>1, <2>2
    <3>2. PICK r : r = newindex[map[i]]
      OBVIOUS
    <3>3. r \in 0 .. Len(packed) - 1 /\ Alike(packed[r + 1], Mapped(i))
      BY <3>1, <3>2 DEF Numbered
    <3>4. newindex'[map[i]] = r
      BY <1>7, <3>1, <3>2
    <3> QED
      BY <1>8, <3>3, <3>4
  <2> QED
    BY <2>1, <2>2
<1>11. ASSUME NEW r \in 0 .. Len(packed') - 1
       PROVE  \E i \in 1 .. k : newindex'[map[i]] = r
  <2>1. CASE r = v
    BY <1>1, <1>7, <2>1
  <2>2. CASE r \in 0 .. Len(packed) - 1
    <3>1. PICK i \in 1 .. k - 1 : newindex[map[i]] = r
      BY <2>2 DEF Numbered
    <3>2. i \in 1 .. k
      BY <1>1
    <3> QED
      BY <1>7, <3>1, <3>2
  <2> QED
    BY <1>8, <2>1, <2>2
<1>12. ASSUME NEW j \in 1 .. k - 1
       PROVE  newindex[map[j]] = v <=> Alike(Mapped(j), Mapped(k)) /\ ~Special(k)
  <2>1. j \in 1 .. Len(map) /\ j < k /\ k > 1
    BY <1>1
  <2>2. CASE MergesAt(k)
    <3>1. v = newindex[map[k - 1]] /\ ~Special(k) /\ Alike(Mapped(k - 1), Mapped(k))
      BY <1>4, <1>6, <2>2
    <3>2. ~Special(k - 1)
      BY <3>1 DEF Alike, Special
    <3>3. CASE j = k - 1
      BY <3>1, <3>3
    <3>4. CASE j # k - 1
      <4>1. j < k - 1 /\ k - 1 \in 1 .. k - 1
        BY <1>1, <2>1, <3>4
      <4>2. newindex[map[j]] = newindex[map[k - 1]]
              <=> Alike(Mapped(j), Mapped(k - 1)) /\ ~Special(k - 1)
        BY <4>1 DEF Numbered
      <4> QED
        BY <3>1, <3>2, <4>2 DEF Alike
    <3> QED
      BY <3>3, <3>4
  <2>3. CASE ~MergesAt(k)
    <3>1. v = Len(packed)
      BY <1>4, <2>3
    <3>2. newindex[map[j]] \in 0 .. Len(packed) - 1
      BY DEF Numbered
    <3>3. newindex[map[j]] # v
      BY <1>1, <3>1, <3>2
    <3>4. ASSUME Alike(Mapped(j), Mapped(k)), ~Special(k) PROVE FALSE
      <4>1. k - 1 \in 1 .. Len(map) /\ Alike(Mapped(k - 1), Mapped(k))
        BY <2>1, <3>4, Neighbours
      <4>2. Same(Mapped(k), Mapped(k - 1))
        BY <1>1, <4>1, SameIsAlike DEF Alike
      <4> QED
        BY <2>1, <2>3, <3>4, <4>2 DEF MergesAt, Special, Mapped
    <3> QED
      BY <3>3, <3>4
  <2> QED
    BY <2>2, <2>3
<1>13. ASSUME NEW i \in 1 .. k, NEW j \in 1 .. k, i < j
       PROVE  newindex'[map[i]] = newindex'[map[j]]
                <=> Alike(Mapped(i), Mapped(j)) /\ ~Special(j)
  <2>1. i \in 1 .. k - 1
    BY <1>1, <1>13
  <2>2. CASE j = k
    BY <1>7, <1>12, <2>1, <2>2
  <2>3. CASE j # k
    <3>1. j \in 1 .. k - 1
      BY <1>1, <2>3
    <3> QED
      BY <1>7, <1>13, <2>1, <3>1, ZenonT(60) DEF Numbered
  <2> QED
    BY <2>2, <2>3
<1>14. Numbered(k)'
  <2>1. \A s, t : Alike(s, t)' <=> Alike(s, t)
    BY DEF Alike
  <2> QED
    BY <1>2, <1>7, <1>8, <1>10, <1>11, <1>13, <2>1 DEF Numbered
<1> QED
  BY <1>8, <1>9, <1>14

LEMMA MergeSidedefKeeps ==
  ASSUME SidedefsInv, MergeSidedef PROVE SidedefsInv'
<1>1. /\ pc = "merge" /\ at \in DOMAIN map
      /\ UNCHANGED <<level, pc, cmd, orig, lines, sides, size, map, success, past, trail>>
      /\ TypeOK /\ OnDisk /\ SoFar /\ MapSorted /\ Numbered(at - 1)
      /\ Rebuilt(Len(lines)) /\ at \in 1 .. Len(map) /\ cmd.op = "pack"
  <2>1. /\ pc = "merge" /\ at \in DOMAIN map
        /\ UNCHANGED <<level, pc, cmd, orig, lines, sides, size, map, success>>
        /\ UNCHANGED <<past, trail>>
    BY DEF MergeSidedef, history
  <2>2. TypeOK /\ OnDisk /\ SoFar /\ Merging
    BY DEF SidedefsInv
  <2>3. map \in Seq(Nat)
    BY <2>2 DEF TypeOK
  <2> QED
    BY <2>1, <2>2, <2>3 DEF Merging
<1>2. was' = was /\ SoFar' /\ OnDisk' /\ MapSorted'
  BY <1>1, MapSortedStays DEF SoFar, was, OnDisk
<1>3. Rebuilt(Len(lines))'
  <2>1. PICK n : n = Len(lines)
    OBVIOUS
  <2>2. Rebuilt(n)'
    BY <1>1, <2>1, RebuiltStays
  <2> QED
    BY <1>1, <2>1, <2>2
<1>4. PICK k : k = at
  OBVIOUS
<1>5. CASE /\ at' = at + 1
           /\ \/ /\ MergesAt(at) /\ UNCHANGED packed
                 /\ newindex' = [newindex EXCEPT ![map[at]] = newindex[map[at - 1]]]
              \/ /\ ~MergesAt(at)
                 /\ newindex' = [newindex EXCEPT ![map[at]] = Len(packed)]
                 /\ packed' = Append(packed, Mapped(at))
  <2>1. /\ packed' \in Seq(MemSidedef) /\ newindex' \in [DOMAIN newindex' -> MemRef]
        /\ Numbered(k)'
    BY <1>1, <1>4, <1>5, NumberedOneMore
  <2>2. at' \in Nat \ {0} /\ at' \in 1 .. Len(map') + 1 /\ at' - 1 = k
    <3>1. Len(map) \in Nat /\ at \in Nat \ {0}
      BY <1>1 DEF TypeOK
    <3> QED
      BY <1>1, <1>4, <1>5, <3>1
  <2>3. TypeOK'
    BY <1>1, <2>1, <2>2 DEF TypeOK
  <2>4. Merging'
    BY <1>1, <1>2, <1>3, <2>1, <2>2 DEF Merging
  <2> QED
    BY <1>1, <1>2, <2>3, <2>4, WhileRunning DEF SidedefsInv, Rebuilding, Outcome
<1>6. CASE UNCHANGED <<newindex, packed, at>>
  <2>1. TypeOK'
    BY <1>1, <1>6 DEF TypeOK
  <2>2. Numbered(at - 1)'
    <3>1. UNCHANGED <<sides, map, packed, newindex, at>> /\ Numbered(at - 1)
      BY <1>1, <1>6
    <3> QED
      BY <3>1 DEF Numbered, Mapped, Special, Alike
  <2>3. Merging'
    BY <1>1, <1>2, <1>3, <1>6, <2>2 DEF Merging
  <2> QED
    BY <1>1, <1>2, <2>1, <2>3, WhileRunning DEF SidedefsInv, Rebuilding, Outcome
<1> QED
  BY <1>5, <1>6 DEF MergeSidedef, Mapped

\* A line with its references renumbered.
LEMMA Remapped ==
  ASSUME TypeOK, NEW ld \in Linedef(MemRef),
         \A s \in Side : SideRef(ld, s) # NO_SIDEDEF => SideRef(ld, s) \in DOMAIN newindex
  PROVE  /\ Remap(ld) \in Linedef(MemRef)
         /\ Remap(ld).type = ld.type /\ Remap(ld).tag = ld.tag
         /\ \A s \in Side :
              SideRef(Remap(ld), s)
                = IF SideRef(ld, s) = NO_SIDEDEF THEN NO_SIDEDEF
                  ELSE newindex[SideRef(ld, s)]
<1> DEFINE a == NewIndex(ld.sidedef1)
           b == NewIndex(ld.sidedef2)
<1>1. a \in MemRef /\ b \in MemRef
  <2>1. newindex \in [DOMAIN newindex -> MemRef]
    BY DEF TypeOK
  <2>2. /\ ld.sidedef1 = NO_SIDEDEF \/ ld.sidedef1 \in DOMAIN newindex
        /\ ld.sidedef2 = NO_SIDEDEF \/ ld.sidedef2 \in DOMAIN newindex
    BY DEF Side, SideRef
  <2> QED
    BY <2>1, <2>2 DEF NewIndex, MemRef
<1>2. Remap(ld) = [ld EXCEPT !.sidedef1 = a, !.sidedef2 = b]
  BY DEF Remap, WithRefs
<1> HIDE DEF a, b
<1>3. /\ [ld EXCEPT !.sidedef1 = a, !.sidedef2 = b] \in Linedef(MemRef)
      /\ [ld EXCEPT !.sidedef1 = a, !.sidedef2 = b].type = ld.type
      /\ [ld EXCEPT !.sidedef1 = a, !.sidedef2 = b].tag = ld.tag
      /\ [ld EXCEPT !.sidedef1 = a, !.sidedef2 = b].sidedef1 = a
      /\ [ld EXCEPT !.sidedef1 = a, !.sidedef2 = b].sidedef2 = b
  BY <1>1 DEF Linedef
<1> QED
  BY <1>2, <1>3 DEF SideRef, Side, a, b, NewIndex

\* What DoPack() makes of rebuilt lines.
LEMMA PackMakes ==
  ASSUME TypeOK, Rebuilt(Len(lines)), MapSorted, Numbered(Len(map)), cmd.op = "pack",
         Fits(Len(packed)), sides' = packed,
         lines' = [i \in DOMAIN lines |-> Remap(lines[i])], UNCHANGED <<orig, cmd>>
  PROVE  lines' \in Seq(Linedef(MemRef)) /\ Made'
<1>1. /\ lines \in Seq(Linedef(MemRef)) /\ DOMAIN lines = 1 .. Len(lines)
      /\ Len(lines) \in Nat /\ Len(map) \in Nat
      /\ DOMAIN newindex = 0 .. Len(sides) - 1
  BY DEF TypeOK, Numbered
<1> DEFINE n == Len(lines)
<1>2. ASSUME NEW i \in 1 .. n, NEW s \in Side, SideRef(lines[i], s) # NO_SIDEDEF
      PROVE  /\ SideRef(orig.linedefs[i], s) # NO_SIDEDEF
             /\ SideRef(orig.linedefs[i], s) \in 0 .. Len(orig.sidedefs) - 1
             /\ SideRef(lines[i], s) \in 0 .. Len(sides) - 1
             /\ Alike(sides[SideRef(lines[i], s) + 1], Given(i, s))
  BY <1>2 DEF Rebuilt, Stands
<1>3. ASSUME NEW i \in 1 .. n, NEW s \in Side, SideRef(lines[i], s) # NO_SIDEDEF
      PROVE  \E k \in 1 .. Len(map) : map[k] = SideRef(lines[i], s)
  BY <1>2, <1>3 DEF MapSorted
<1>4. ASSUME NEW i \in 1 .. n
      PROVE  /\ lines[i] \in Linedef(MemRef) /\ lines'[i] = Remap(lines[i])
             /\ lines'[i] \in Linedef(MemRef)
             /\ lines'[i].type = lines[i].type /\ lines'[i].tag = lines[i].tag
             /\ \A s \in Side :
                  SideRef(lines'[i], s)
                    = IF SideRef(lines[i], s) = NO_SIDEDEF THEN NO_SIDEDEF
                      ELSE newindex[SideRef(lines[i], s)]
  <2>1. lines[i] \in Linedef(MemRef) /\ lines'[i] = Remap(lines[i])
    BY <1>1
  <2>2. \A s \in Side :
          SideRef(lines[i], s) # NO_SIDEDEF => SideRef(lines[i], s) \in DOMAIN newindex
    BY <1>1, <1>2
  <2> QED
    BY <2>1, <2>2, Remapped
<1>5. lines' \in Seq(Linedef(MemRef)) /\ Len(lines') = n /\ DOMAIN lines' = 1 .. n
  <2>1. lines' \in [1 .. n -> Linedef(MemRef)]
    BY <1>1, <1>4
  <2> QED
    BY <1>1, <2>1
<1>6. ASSUME NEW i \in 1 .. n, NEW s \in Side, SideRef(lines'[i], s) # NO_SIDEDEF
      PROVE  /\ SideRef(lines[i], s) # NO_SIDEDEF
             /\ SideRef(lines'[i], s) = newindex[SideRef(lines[i], s)]
  BY <1>4, <1>6
<1>7. SameLines'
  BY <1>1, <1>4, <1>5, ZenonT(60) DEF Rebuilt, SameLines
<1>8. Used(Len(lines))'
  <2> SUFFICES ASSUME NEW r \in 0 .. Len(packed) - 1
               PROVE  \E i \in 1 .. n, s \in Side : SideRef(lines'[i], s) = r
    BY <1>5 DEF Used, SideRef
  <2>1. PICK k \in 1 .. Len(map) : newindex[map[k]] = r
    BY DEF Numbered
  <2>2. map[k] \in 0 .. Len(sides) - 1
    BY DEF MapSorted
  <2>3. PICK i \in 1 .. n, s \in Side : SideRef(lines[i], s) = map[k]
    BY <2>2 DEF Rebuilt, Used
  <2>4. map[k] # NO_SIDEDEF
    BY <2>2 DEF NO_SIDEDEF
  <2>5. SideRef(lines'[i], s) = r
    BY <1>4, <2>1, <2>3, <2>4
  <2> QED
    BY <2>5
<1>9. (Len(sides) <= SidedefsLimit)'
  BY DEF Fits, SidedefsLimit
<1>10. \A i, s : Given(i, s)' = Given(i, s)
  BY DEF Given, CopyOf, Wipes, SideRef, LinedefMergeDomain
<1>11. ASSUME NEW i \in 1 .. n, NEW s \in Side
       PROVE  Stands(i, s)'
  <2>1. CASE SideRef(lines[i], s) = NO_SIDEDEF
    <3>1. SideRef(lines'[i], s) = NO_SIDEDEF
      BY <1>4, <2>1
    <3>2. SideRef(orig.linedefs[i], s) = NO_SIDEDEF
      BY <2>1 DEF Rebuilt, Stands, NO_SIDEDEF
    <3> QED
      BY <3>1, <3>2 DEF Stands, SideRef
  <2>2. CASE SideRef(lines[i], s) # NO_SIDEDEF
    <3>1. PICK k \in 1 .. Len(map) : map[k] = SideRef(lines[i], s)
      BY <1>3, <2>2
    <3>2. PICK r : r = newindex[map[k]]
      OBVIOUS
    <3>3. r \in 0 .. Len(packed) - 1 /\ Alike(packed[r + 1], Mapped(k))
      BY <3>2 DEF Numbered
    <3>4. Alike(Mapped(k), Given(i, s))
      BY <1>2, <2>2, <3>1 DEF Mapped
    <3>5. Alike(packed[r + 1], Given(i, s))
      BY <3>3, <3>4 DEF Alike
    <3>6. SideRef(lines'[i], s) = r
      BY <1>4, <2>2, <3>1, <3>2
    <3>7. /\ SideRef(orig.linedefs[i], s) # NO_SIDEDEF
          /\ SideRef(orig.linedefs[i], s) \in 0 .. Len(orig.sidedefs) - 1
      BY <1>2, <2>2
    <3>8. Alike(sides'[r + 1], Given(i, s)')
      BY <1>10, <3>5
    <3>9. r \in 0 .. Len(sides') - 1
      BY <3>3
    <3> QED
      BY <3>6, <3>7, <3>8, <3>9 DEF Stands, SideRef, Alike
  <2> QED
    BY <2>1, <2>2
<1>12. ASSUME NEW i \in 1 .. n, NEW j \in 1 .. n, NEW s \in Side, NEW t \in Side,
              <<i, s>> # <<j, t>>,
              SideRef(lines'[i], s) # NO_SIDEDEF, SideRef(lines'[j], t) # NO_SIDEDEF
       PROVE  SideRef(lines'[i], s) = SideRef(lines'[j], t)
                <=> /\ Alike(Given(i, s), Given(j, t))
                    /\ Given(i, s).domain # MERGE_DOMAIN_SPECIAL
  <2>1. /\ SideRef(lines[i], s) # NO_SIDEDEF /\ SideRef(lines[j], t) # NO_SIDEDEF
        /\ SideRef(lines'[i], s) = newindex[SideRef(lines[i], s)]
        /\ SideRef(lines'[j], t) = newindex[SideRef(lines[j], t)]
    BY <1>6, <1>12
  <2>2. PICK k \in 1 .. Len(map) : map[k] = SideRef(lines[i], s)
    BY <1>3, <2>1
  <2>3. PICK h \in 1 .. Len(map) : map[h] = SideRef(lines[j], t)
    BY <1>3, <2>1
  <2>4. k # h
    BY <1>12, <2>1, <2>2, <2>3 DEF Rebuilt
  <2>5. Alike(Mapped(k), Given(i, s)) /\ Alike(Mapped(h), Given(j, t))
    BY <1>2, <2>1, <2>2, <2>3 DEF Mapped
  <2>6. newindex[map[k]] = newindex[map[h]] <=> Alike(Mapped(k), Mapped(h)) /\ ~Special(k)
    <3>1. CASE k < h
      BY <3>1, SMTT(60) DEF Numbered, Alike, Special
    <3>2. CASE h < k
      BY <3>2 DEF Numbered, Alike, Special
    <3> QED
      BY <1>1, <2>4, <3>1, <3>2
  <2> QED
    BY <2>1, <2>2, <2>3, <2>5, <2>6 DEF Alike, Special
<1>13. Made'
  BY <1>5, <1>7, <1>8, <1>9, <1>10, <1>11, <1>12 DEF Made, SideRef, Alike
<1> QED
  BY <1>5, <1>13

LEMMA FinishPackKeeps ==
  ASSUME SidedefsInv, FinishPack PROVE SidedefsInv'
<1>1. /\ pc = "merge" /\ at = Len(map) + 1 /\ pc' = "linedefs"
      /\ UNCHANGED <<level, cmd, orig, size, at, map, newindex, packed, past, trail>>
      /\ TypeOK /\ OnDisk /\ SoFar /\ Rebuilt(Len(lines)) /\ MapSorted /\ Numbered(at - 1)
  BY DEF SidedefsInv, FinishPack, history, Merging, Goto
<1>2. was' = was /\ SoFar' /\ OnDisk'
  BY <1>1 DEF SoFar, was, OnDisk
<1>3. CASE TooLong
  <2>1. TypeOK'
    BY <1>1, <1>3 DEF TypeOK, TooLong, OriginalLines
  <2>2. Outcome'
    BY <1>1, <1>2, <1>3 DEF Outcome, TooLong, OriginalLines
  <2> QED
    BY <1>1, <1>2, <2>1, <2>2, WhileRunning DEF SidedefsInv, Rebuilding, Merging
<1>4. CASE /\ Fits(Len(packed)) /\ sides' = packed /\ success' = TRUE
           /\ lines' = [i \in DOMAIN lines |-> Remap(lines[i])]
  <2>1. Numbered(Len(map))
    <3>1. Len(map) \in Nat
      BY <1>1 DEF TypeOK
    <3>2. at - 1 = Len(map)
      BY <1>1, <3>1
    <3> QED
      BY <1>1, <3>2
  <2>2. cmd.op = "pack"
    BY <1>1 DEF SidedefsInv, Merging
  <2>3. lines' \in Seq(Linedef(MemRef)) /\ Made'
    BY <1>1, <1>4, <2>1, <2>2, PackMakes
  <2>4. TypeOK'
    BY <1>1, <1>4, <2>3 DEF TypeOK
  <2>5. Outcome'
    BY <1>4, <2>3 DEF Outcome
  <2> QED
    BY <1>1, <1>2, <2>4, <2>5, WhileRunning DEF SidedefsInv, Rebuilding, Merging
<1> QED
  BY <1>3, <1>4 DEF FinishPack

LEMMA FinishUnpackKeeps ==
  ASSUME SidedefsInv, FinishUnpack PROVE SidedefsInv'
<1>1. /\ pc = "rebuild" /\ at = Len(lines) + 1 /\ pc' = "linedefs" /\ cmd.op = "unpack"
      /\ UNCHANGED <<level, cmd, orig, size, at, map, newindex, packed, past, trail>>
      /\ TypeOK /\ OnDisk /\ SoFar /\ Rebuilt(at - 1)
  BY DEF SidedefsInv, FinishUnpack, history, Rebuilding, Goto
<1>2. was' = was /\ SoFar' /\ OnDisk'
  BY <1>1 DEF SoFar, was, OnDisk
<1>3. CASE TooLong
  <2>1. TypeOK'
    BY <1>1, <1>3 DEF TypeOK, TooLong, OriginalLines
  <2>2. Outcome'
    BY <1>1, <1>2, <1>3 DEF Outcome, TooLong, OriginalLines
  <2> QED
    BY <1>1, <1>2, <2>1, <2>2, WhileRunning DEF SidedefsInv, Rebuilding, Merging
<1>4. CASE Fits(Len(sides)) /\ success' = TRUE /\ UNCHANGED <<lines, sides>>
  <2>1. Rebuilt(Len(lines))
    <3>1. Len(lines) \in Nat
      BY <1>1 DEF TypeOK
    <3>2. at - 1 = Len(lines)
      BY <1>1, <3>1
    <3> QED
      BY <1>1, <3>2
  <2>2. Made'
    <3>1. Rebuilt(Len(lines))'
      <4>1. PICK n : n = Len(lines)
        OBVIOUS
      <4>2. Rebuilt(n)'
        BY <1>1, <1>4, <2>1, <4>1, RebuiltStays
      <4> QED
        BY <1>4, <4>1, <4>2
    <3>2. /\ lines' \in Seq(Linedef(MemRef)) /\ (Len(sides) <= SidedefsLimit)'
      BY <1>1, <1>4 DEF TypeOK, Fits, SidedefsLimit
    <3>3. DOMAIN lines' = 1 .. Len(lines') /\ cmd'.op = "unpack"
      BY <1>1, <3>2
    <3> QED
      BY <3>1, <3>2, <3>3 DEF Rebuilt, Made
  <2>3. TypeOK'
    BY <1>1, <1>4 DEF TypeOK
  <2>4. Outcome'
    BY <1>4, <2>2 DEF Outcome
  <2> QED
    BY <1>1, <1>2, <2>3, <2>4, WhileRunning DEF SidedefsInv, Rebuilding, Merging
<1> QED
  BY <1>3, <1>4 DEF FinishUnpack

-----------------------------------------------------------------------------
(* What the next level shows *)

\* The level as it will be when the run has ended.
Written == [was EXCEPT !.linedefs = DiskLinedefs(lines), !.sidedefs = DiskSidedefs(sides)]

LEMMA WrittenTyped ==
  ASSUME TypeOK, OnDisk
  PROVE  /\ Written \in Level /\ Written.hexen = was.hexen
         /\ Written.linedefs = DiskLinedefs(lines)
         /\ Written.sidedefs = DiskSidedefs(sides)
<1>1. was \in Level
  BY WasTyped
<1>2. /\ DiskLinedefs(lines) \in Seq(Linedef(DiskRef))
      /\ DiskSidedefs(sides) \in Seq(Sidedef)
  BY DiskTyped DEF TypeOK
<1> QED
  BY <1>1, <1>2 DEF Written, Level

\* Nothing changes if the lumps are kept.
LEMMA WrittenBack ==
  ASSUME TypeOK, OnDisk, pc \notin {"idle", "errorexit"},
         lines = orig.linedefs, sides = orig.sidedefs
  PROVE  Written = was
<1>1. was \in Level
  BY WasTyped
<1>2. lines = ReadLinedefs(was) /\ sides = ReadSidedefs(was)
  BY DEF OnDisk
<1>3. Written = [was EXCEPT !.linedefs = was.linedefs, !.sidedefs = was.sidedefs]
  BY <1>1, <1>2, ReadBack DEF Written
<1> QED
  BY <1>1, <1>3 DEF Level

\* One side of a line, in the level that was.
LEMMA SideAsRead ==
  ASSUME TypeOK, OnDisk, pc \notin {"idle", "errorexit"},
         NEW i \in DOMAIN orig.linedefs, NEW s \in Side
  PROVE  LET r == SideRef(orig.linedefs[i], s)
             u == <<i, s>>
         IN
         /\ RefOf(was, u) = IF r = NO_SIDEDEF THEN NoIndex ELSE r
         /\ orig.linedefs[i].type = was.linedefs[i].type
         /\ orig.linedefs[i].tag = was.linedefs[i].tag
         /\ orig.hexen = was.hexen
         /\ Len(orig.sidedefs) = Len(was.sidedefs)
         /\ r = NO_SIDEDEF => Shows(was, u) = <<>>
         /\ r # NO_SIDEDEF => r # NoIndex
         /\ r \in 0 .. Len(orig.sidedefs) - 1 =>
              Shows(was, u) = <<orig.sidedefs[r + 1].middle, orig.sidedefs[r + 1].trim,
                                orig.sidedefs[r + 1].place>>
<1>1. /\ was \in Level /\ orig.linedefs = ReadLinedefs(was)
      /\ orig.sidedefs = ReadSidedefs(was) /\ orig.hexen = was.hexen
  BY WasTyped DEF OnDisk
<1>2. /\ was.linedefs \in Seq(Linedef(DiskRef)) /\ was.sidedefs \in Seq(Sidedef)
      /\ i \in 1 .. Len(was.linedefs) /\ Len(was.sidedefs) \in Nat
      /\ Len(orig.sidedefs) = Len(was.sidedefs)
  BY <1>1, ReadTyped, SMTT(60) DEF Level, TypeOK
<1>3. PICK ld \in Linedef(DiskRef) : ld = was.linedefs[i]
  BY <1>2
<1>4. orig.linedefs[i] = WithRefs(ld, MapSidedefRef)
  BY <1>1, <1>2, <1>3, ReadTyped
<1>5. /\ orig.linedefs[i].type = ld.type /\ orig.linedefs[i].tag = ld.tag
      /\ orig.linedefs[i].sidedef1 = MapSidedefRef(ld.sidedef1)
      /\ orig.linedefs[i].sidedef2 = MapSidedefRef(ld.sidedef2)
  BY <1>4, RefsMapped
<1>6. PICK r, d : r = SideRef(orig.linedefs[i], s) /\ d = RefOf(was, <<i, s>>)
  OBVIOUS
<1>7. r = MapSidedefRef(d) /\ d \in DiskRef
  <2>1. ld.sidedef1 \in DiskRef /\ ld.sidedef2 \in DiskRef
    BY DEF Linedef
  <2> QED
    BY <1>3, <1>5, <1>6, <2>1 DEF SideRef, RefOf, Side
<1>8. /\ d = IF r = NO_SIDEDEF THEN NoIndex ELSE r
      /\ r # NO_SIDEDEF => r # NoIndex
  BY <1>7, NoIndexAssumption DEF MapSidedefRef, DiskRef, NO_SIDEDEF
<1>9. r = NO_SIDEDEF => Shows(was, <<i, s>>) = <<>>
  BY <1>6, <1>8 DEF Shows
<1>10. ASSUME r \in 0 .. Len(orig.sidedefs) - 1
       PROVE  Shows(was, <<i, s>>)
                = <<orig.sidedefs[r + 1].middle, orig.sidedefs[r + 1].trim,
                    orig.sidedefs[r + 1].place>>
  <2>1. r # NO_SIDEDEF /\ d = r /\ r # NoIndex /\ ~(r >= Len(was.sidedefs))
        /\ r + 1 \in 1 .. Len(was.sidedefs)
    BY <1>2, <1>8, <1>10 DEF NO_SIDEDEF
  <2>2. Shows(was, <<i, s>>)
          = <<was.sidedefs[r + 1].middle, was.sidedefs[r + 1].trim,
              was.sidedefs[r + 1].place>>
    BY <1>6, <2>1 DEF Shows
  <2> QED
    BY <1>1, <2>1, <2>2, ReadTyped
<1> QED
  BY <1>1, <1>2, <1>3, <1>5, <1>6, <1>8, <1>9, <1>10

\* And in the level that will be, when it is not what it was.
LEMMA SideAsWritten ==
  ASSUME TypeOK, OnDisk, pc \notin {"idle", "errorexit"}, Made,
         NEW i \in DOMAIN lines, NEW s \in Side
  PROVE  LET r == SideRef(lines[i], s)
             u == <<i, s>>
         IN
         /\ i \in DOMAIN orig.linedefs
         /\ Written.linedefs[i].type = orig.linedefs[i].type
         /\ Written.linedefs[i].tag = orig.linedefs[i].tag
         /\ RefOf(Written, u) = IF r = NO_SIDEDEF THEN NoIndex ELSE r
         /\ r = NO_SIDEDEF <=> SideRef(orig.linedefs[i], s) = NO_SIDEDEF
         /\ r # NO_SIDEDEF => r \in 0 .. Len(sides) - 1 /\ r \in 0 .. SidedefsLimit - 1
         /\ r # NO_SIDEDEF => r # NoIndex
         /\ r = NO_SIDEDEF => Shows(Written, u) = <<>>
         /\ r # NO_SIDEDEF =>
              /\ SideRef(orig.linedefs[i], s) \in 0 .. Len(orig.sidedefs) - 1
              /\ Shows(Written, u) = <<Given(i, s).middle, Given(i, s).trim,
                                       Given(i, s).place>>
<1>1. /\ lines \in Seq(Linedef(MemRef)) /\ sides \in Seq(MemSidedef)
      /\ orig.linedefs \in Seq(Linedef(MemRef))
      /\ i \in 1 .. Len(lines) /\ Len(sides) \in Nat /\ lines[i] \in Linedef(MemRef)
  BY DEF TypeOK
<1>2. /\ i \in DOMAIN orig.linedefs
      /\ lines[i].type = orig.linedefs[i].type /\ lines[i].tag = orig.linedefs[i].tag
  BY <1>1 DEF Made, SameLines
<1>3. /\ Written.linedefs[i].type = lines[i].type
      /\ Written.linedefs[i].tag = lines[i].tag
      /\ Written.linedefs[i].sidedef1 = DiskRefOf(lines[i].sidedef1)
      /\ Written.linedefs[i].sidedef2 = DiskRefOf(lines[i].sidedef2)
      /\ Len(Written.sidedefs) = Len(sides)
      /\ \A k \in 1 .. Len(sides) : /\ Written.sidedefs[k].middle = sides[k].middle
                                    /\ Written.sidedefs[k].trim = sides[k].trim
                                    /\ Written.sidedefs[k].place = sides[k].place
  <2>1. Written.linedefs = DiskLinedefs(lines) /\ Written.sidedefs = DiskSidedefs(sides)
    BY WrittenTyped
  <2>2. /\ DiskLinedefs(lines)[i].type = lines[i].type
        /\ DiskLinedefs(lines)[i].tag = lines[i].tag
        /\ DiskLinedefs(lines)[i].sidedef1 = DiskRefOf(lines[i].sidedef1)
        /\ DiskLinedefs(lines)[i].sidedef2 = DiskRefOf(lines[i].sidedef2)
    BY <1>1, DiskTyped
  <2>3. /\ Len(DiskSidedefs(sides)) = Len(sides)
        /\ \A k \in 1 .. Len(sides) : /\ DiskSidedefs(sides)[k].middle = sides[k].middle
                                      /\ DiskSidedefs(sides)[k].trim = sides[k].trim
                                      /\ DiskSidedefs(sides)[k].place = sides[k].place
    BY <1>1, DiskTyped
  <2> QED
    BY <2>1, <2>2, <2>3
<1>4. PICK r, d : r = SideRef(lines[i], s) /\ d = RefOf(Written, <<i, s>>)
  OBVIOUS
<1>5. d = DiskRefOf(r)
  BY <1>3, <1>4 DEF SideRef, RefOf, Side
<1>6. /\ Len(sides) <= SidedefsLimit /\ SidedefsLimit \in Int /\ SidedefsLimit < NoIndex
  <2>1. NoIndex \div 2 \in Int /\ NoIndex \div 2 < NoIndex
    BY NoIndexAssumption
  <2> QED
    BY <2>1, NoIndexAssumption
       DEF Made, SidedefsLimit, MAX_EXT_SIDEDEFS, MAX_VANILLA_SIDEDEFS
<1>7. Stands(i, s)
  BY DEF Made
<1>8. r = NO_SIDEDEF <=> SideRef(orig.linedefs[i], s) = NO_SIDEDEF
  BY <1>4, <1>7 DEF Stands, NO_SIDEDEF
<1>9. CASE r = NO_SIDEDEF
  <2>1. d = NoIndex
    BY <1>5, <1>9, NoIndexAssumption DEF DiskRefOf, NO_SIDEDEF
  <2>2. Shows(Written, <<i, s>>) = <<>>
    BY <1>4, <2>1 DEF Shows
  <2> QED
    BY <1>2, <1>3, <1>4, <1>8, <1>9, <2>1, <2>2
<1>10. CASE r # NO_SIDEDEF
  <2>1. /\ r \in 0 .. Len(sides) - 1 /\ Alike(sides[r + 1], Given(i, s))
        /\ SideRef(orig.linedefs[i], s) \in 0 .. Len(orig.sidedefs) - 1
    BY <1>4, <1>7, <1>8, <1>10 DEF Stands
  <2>2. r \in 0 .. SidedefsLimit - 1 /\ r < NoIndex /\ r \in Nat /\ r # NoIndex
    BY <1>1, <1>6, <2>1, NoIndexAssumption
  <2>3. d = r
    BY <1>5, <2>2, NoIndexAssumption DEF DiskRefOf
  <2>4. ~(r >= Len(Written.sidedefs)) /\ r + 1 \in 1 .. Len(sides)
    BY <1>1, <1>3, <2>1
  <2>5. Shows(Written, <<i, s>>)
          = <<Written.sidedefs[r + 1].middle, Written.sidedefs[r + 1].trim,
              Written.sidedefs[r + 1].place>>
    BY <1>4, <2>2, <2>3, <2>4 DEF Shows
  <2>6. Shows(Written, <<i, s>>) = <<Given(i, s).middle, Given(i, s).trim,
                                     Given(i, s).place>>
    BY <1>3, <2>1, <2>4, <2>5 DEF Alike
  <2> QED
    BY <1>2, <1>3, <1>4, <1>8, <1>10, <2>1, <2>2, <2>3, <2>6
<1> QED
  BY <1>9, <1>10

LEMMA Pairs ==
  ASSUME NEW A, NEW B, NEW u \in A \X B PROVE \E a \in A, b \in B : u = <<a, b>>
OBVIOUS

LEMMA SidesOfLines == \A l : LineSides(l) = (DOMAIN l.linedefs) \X Side
BY DEF LineSides, Side

LEMMA WrittenLines ==
  ASSUME TypeOK, OnDisk, pc \notin {"idle", "errorexit"}, Made
  PROVE  /\ DOMAIN Written.linedefs = DOMAIN lines
         /\ DOMAIN was.linedefs = DOMAIN lines
         /\ DOMAIN orig.linedefs = DOMAIN lines
         /\ LineSides(Written) = (DOMAIN lines) \X Side
         /\ LineSides(was) = (DOMAIN lines) \X Side
         /\ Len(Written.sidedefs) = Len(sides)
<1>1. /\ Written.linedefs = DiskLinedefs(lines) /\ Written.sidedefs = DiskSidedefs(sides)
  BY WrittenTyped
<1>2. /\ lines \in Seq(Linedef(MemRef)) /\ sides \in Seq(MemSidedef)
      /\ orig.linedefs \in Seq(Linedef(MemRef))
  BY DEF TypeOK
<1>3. /\ DiskLinedefs(lines) \in Seq(Linedef(DiskRef))
      /\ Len(DiskLinedefs(lines)) = Len(lines)
      /\ Len(DiskSidedefs(sides)) = Len(sides)
  BY <1>2, DiskTyped
<1>4. /\ was \in Level /\ orig.linedefs = ReadLinedefs(was)
  BY WasTyped DEF OnDisk
<1>5. was.linedefs \in Seq(Linedef(DiskRef)) /\ Len(orig.linedefs) = Len(was.linedefs)
  BY <1>4, ReadTyped DEF Level
<1>6. Len(lines) = Len(orig.linedefs)
  BY DEF Made, SameLines
<1>7. /\ DOMAIN Written.linedefs = DOMAIN lines
      /\ DOMAIN was.linedefs = DOMAIN lines
      /\ DOMAIN orig.linedefs = DOMAIN lines
  BY <1>1, <1>2, <1>3, <1>5, <1>6
<1>8. /\ LineSides(Written) = (DOMAIN Written.linedefs) \X Side
      /\ LineSides(was) = (DOMAIN was.linedefs) \X Side
  BY SidesOfLines
<1>9. Len(Written.sidedefs) = Len(sides)
  BY <1>1, <1>3
<1> QED
  BY <1>7, <1>8, <1>9

LEMMA ReadKeepsNothingElse ==
  ASSUME TypeOK, OnDisk, pc \notin {"idle", "errorexit"}, Made,
         NEW i \in DOMAIN lines, NEW s \in Side, SideRef(lines[i], s) # NO_SIDEDEF
  PROVE  LET ld == orig.linedefs[i]
             r == SideRef(ld, s)
         IN
         /\ r \in 0 .. Len(orig.sidedefs) - 1
         /\ Given(i, s).middle = orig.sidedefs[r + 1].middle
         /\ Given(i, s).place = orig.sidedefs[r + 1].place
         /\ Given(i, s).trim = IF s = 1 /\ Wipes(ld) THEN Wiped
                               ELSE orig.sidedefs[r + 1].trim
         /\ Given(i, s).domain = LinedefMergeDomain(ld)
<1>1. SideRef(orig.linedefs[i], s) \in 0 .. Len(orig.sidedefs) - 1
      /\ i \in DOMAIN orig.linedefs
  BY SideAsWritten
<1>2. orig.sidedefs \in Seq(MemSidedef) /\ orig.linedefs[i] \in Linedef(MemRef)
  BY <1>1 DEF TypeOK
<1>3. (s = 1 /\ Wipes(orig.linedefs[i])) \in BOOLEAN
  BY DEF Wipes
<1> QED
  BY <1>1, <1>2, <1>3, CopyTyped DEF Given

\* A run keeps what is shown.
LEMMA RunKeeps ==
  ASSUME TypeOK, OnDisk, Outcome, pc \in {"linedefs", "sidedefs"}
  PROVE  Keeps(was, Written, cmd.wipesides)
<1>1. CASE lines = orig.linedefs /\ sides = orig.sidedefs
  BY <1>1, WrittenBack DEF Keeps
<1>2. CASE Made
  <2>1. DOMAIN Written.linedefs = DOMAIN was.linedefs
    BY <1>2, WrittenLines
  <2>2. ASSUME NEW i \in DOMAIN lines, NEW s \in Side
        PROVE  LET u == <<i, s>> IN
               /\ Written.linedefs[i].type = was.linedefs[i].type
               /\ Written.linedefs[i].tag = was.linedefs[i].tag
               /\ \/ Shows(Written, u) = Shows(was, u)
                  \/ /\ cmd.wipesides /\ OneSided(was, u) /\ Len(Shows(was, u)) = 3
                     /\ Shows(Written, u) = [Shows(was, u) EXCEPT ![2] = Wiped]
    <3> DEFINE u == <<i, s>>
               ld == orig.linedefs[i]
               r == SideRef(ld, s)
    <3>1. /\ i \in DOMAIN orig.linedefs
          /\ Written.linedefs[i].type = was.linedefs[i].type
          /\ Written.linedefs[i].tag = was.linedefs[i].tag
      BY <1>2, SideAsWritten, SideAsRead
    <3>2. CASE SideRef(lines[i], s) = NO_SIDEDEF
      <4>1. Shows(Written, u) = <<>> /\ r = NO_SIDEDEF
        BY <1>2, <3>2, SideAsWritten
      <4>2. Shows(was, u) = <<>>
        BY <3>1, <4>1, SideAsRead
      <4> QED
        BY <3>1, <4>1, <4>2
    <3>3. CASE SideRef(lines[i], s) # NO_SIDEDEF
      <4>1. PICK o : o = orig.sidedefs[r + 1]
        OBVIOUS
      <4>2. /\ r \in 0 .. Len(orig.sidedefs) - 1
            /\ Given(i, s).middle = o.middle /\ Given(i, s).place = o.place
            /\ Given(i, s).trim = IF s = 1 /\ Wipes(ld) THEN Wiped ELSE o.trim
        BY <1>2, <3>3, <4>1, ReadKeepsNothingElse
      <4>3. Shows(was, u) = <<o.middle, o.trim, o.place>>
        BY <3>1, <4>1, <4>2, SideAsRead
      <4>4. Shows(Written, u) = <<Given(i, s).middle, Given(i, s).trim, Given(i, s).place>>
        BY <1>2, <3>3, SideAsWritten
      <4>5. CASE s = 1 /\ Wipes(ld)
        <5>1. Shows(Written, u) = <<o.middle, Wiped, o.place>>
          BY <4>2, <4>4, <4>5
        <5>2. cmd.wipesides /\ SideRef(ld, 2) = NO_SIDEDEF
          BY <4>5 DEF Wipes, SideRef
        <5>3. RefOf(was, <<i, 2>>) = NoIndex
          BY <3>1, <5>2, SideAsRead DEF Side
        <5>4. OneSided(was, u)
          BY <4>5, <5>3 DEF OneSided
        <5>5. /\ Len(Shows(was, u)) = 3
              /\ [Shows(was, u) EXCEPT ![2] = Wiped] = <<o.middle, Wiped, o.place>>
          BY <4>3
        <5> QED
          BY <3>1, <5>1, <5>2, <5>4, <5>5
      <4>6. CASE ~(s = 1 /\ Wipes(ld))
        BY <3>1, <4>2, <4>3, <4>4, <4>6
      <4> QED
        BY <4>5, <4>6
    <3> QED
      BY <3>2, <3>3
  <2>3. ASSUME NEW u \in LineSides(was)
        PROVE  /\ Written.linedefs[u[1]].type = was.linedefs[u[1]].type
               /\ Written.linedefs[u[1]].tag = was.linedefs[u[1]].tag
               /\ \/ Shows(Written, u) = Shows(was, u)
                  \/ /\ cmd.wipesides /\ OneSided(was, u) /\ Len(Shows(was, u)) = 3
                     /\ Shows(Written, u) = [Shows(was, u) EXCEPT ![2] = Wiped]
    <3>1. u \in (DOMAIN lines) \X Side
      BY <1>2, WrittenLines
    <3>2. PICK i \in DOMAIN lines, s \in Side : u = <<i, s>>
      BY <3>1, Pairs
    <3>3. u[1] = i
      BY <3>2
    <3> QED
      BY <2>2, <3>2, <3>3
  <2> QED
    BY <2>1, <2>3 DEF Keeps
<1> QED
  BY <1>1, <1>2 DEF Outcome

\* And so do the runs, one after another.
LEMMA KeepsOn ==
  ASSUME NEW l, NEW m, NEW n, NEW v \in BOOLEAN, NEW w \in BOOLEAN,
         Keeps(l, m, v), Keeps(m, n, w)
  PROVE  Keeps(l, n, v \/ w)
<1>1. DOMAIN m.linedefs = DOMAIN l.linedefs /\ DOMAIN n.linedefs = DOMAIN m.linedefs
  BY DEF Keeps
<1>2. LineSides(m) = LineSides(l)
  BY <1>1 DEF LineSides
<1>3. ASSUME NEW u \in LineSides(l)
      PROVE  /\ n.linedefs[u[1]].type = l.linedefs[u[1]].type
             /\ n.linedefs[u[1]].tag = l.linedefs[u[1]].tag
             /\ \/ Shows(n, u) = Shows(l, u)
                \/ /\ v \/ w
                   /\ OneSided(l, u) /\ Len(Shows(l, u)) = 3
                   /\ Shows(n, u) = [Shows(l, u) EXCEPT ![2] = Wiped]
  <2>1. /\ m.linedefs[u[1]].type = l.linedefs[u[1]].type
        /\ m.linedefs[u[1]].tag = l.linedefs[u[1]].tag
        /\ \/ Shows(m, u) = Shows(l, u)
           \/ /\ v /\ OneSided(l, u) /\ Len(Shows(l, u)) = 3
              /\ Shows(m, u) = [Shows(l, u) EXCEPT ![2] = Wiped]
    BY DEF Keeps
  <2>2. /\ n.linedefs[u[1]].type = m.linedefs[u[1]].type
        /\ n.linedefs[u[1]].tag = m.linedefs[u[1]].tag
        /\ \/ Shows(n, u) = Shows(m, u)
           \/ /\ w /\ OneSided(m, u) /\ Len(Shows(m, u)) = 3
              /\ Shows(n, u) = [Shows(m, u) EXCEPT ![2] = Wiped]
    BY <1>2 DEF Keeps
  <2>3. CASE Shows(n, u) = Shows(m, u)
    BY <2>1, <2>2, <2>3
  <2>4. CASE /\ w /\ OneSided(m, u) /\ Len(Shows(m, u)) = 3
             /\ Shows(n, u) = [Shows(m, u) EXCEPT ![2] = Wiped]
    <3>1. OneSided(l, u)
      <4> DEFINE u2 == <<u[1], 2>>
      <4>1. u2 \in LineSides(l) /\ u2[2] = 2
        BY DEF LineSides
      <4>2. Shows(m, u2) = Shows(l, u2)
        BY <4>1 DEF Keeps, OneSided
      <4>3. Shows(m, u2) = <<>>
        BY <2>4 DEF OneSided, Shows
      <4>4. RefOf(l, u2) = NoIndex
        <5> HIDE DEF u2
        <5> SUFFICES ASSUME RefOf(l, u2) # NoIndex PROVE FALSE
          OBVIOUS
        <5>1. Shows(l, u2) # <<>>
          <6>1. \A a, b, c : <<a>> # <<>> /\ <<a, b, c>> # <<>>
            OBVIOUS
          <6> QED
            BY <6>1 DEF Shows
        <5> QED
          BY <4>2, <4>3, <5>1
      <4> QED
        BY <2>4, <4>4 DEF OneSided
    <3>2. CASE Shows(m, u) = Shows(l, u)
      BY <2>1, <2>2, <2>4, <3>1, <3>2
    <3>3. CASE Len(Shows(l, u)) = 3 /\ Shows(m, u) = [Shows(l, u) EXCEPT ![2] = Wiped]
      <4>1. [Shows(m, u) EXCEPT ![2] = Wiped] = [Shows(l, u) EXCEPT ![2] = Wiped]
        <5>1. PICK f : f = Shows(l, u)
          OBVIOUS
        <5>2. [[f EXCEPT ![2] = Wiped] EXCEPT ![2] = Wiped] = [f EXCEPT ![2] = Wiped]
          OBVIOUS
        <5> QED
          BY <3>3, <5>1, <5>2
      <4> QED
        BY <2>1, <2>2, <2>4, <3>1, <3>3, <4>1
    <3> QED
      BY <2>1, <3>2, <3>3
  <2> QED
    BY <2>2, <2>3, <2>4
<1> QED
  BY <1>1, <1>3 DEF Keeps

\* Two lines may share a sidedef just if they are in the same group.
LEMMA DomainsAreGroups ==
  ASSUME TypeOK, OnDisk, pc \notin {"idle", "errorexit"}, Made,
         NEW i \in DOMAIN lines, NEW j \in DOMAIN lines, NEW s \in Side, NEW t \in Side
  PROVE  /\ LinedefMergeDomain(orig.linedefs[i]) = LinedefMergeDomain(orig.linedefs[j])
         /\ LinedefMergeDomain(orig.linedefs[i]) # MERGE_DOMAIN_SPECIAL
         <=> /\ Group(Written, <<i, s>>) = Group(Written, <<j, t>>)
             /\ Group(Written, <<i, s>>) # -1
<1>1. ASSUME NEW k \in DOMAIN lines
      PROVE  /\ k \in DOMAIN orig.linedefs
             /\ Written.linedefs[k].type = orig.linedefs[k].type
             /\ Written.linedefs[k].tag = orig.linedefs[k].tag
             /\ orig.linedefs[k].tag \in Nat
  <2>1. k \in DOMAIN orig.linedefs
    BY WrittenLines
  <2>2. orig.linedefs[k] \in Linedef(MemRef)
    BY <2>1 DEF TypeOK
  <2> QED
    BY <2>1, <2>2, SideAsWritten DEF Side, Linedef
<1>2. Written.hexen = orig.hexen
  BY WrittenTyped DEF OnDisk
<1>3. PICK p, q : p = orig.linedefs[i] /\ q = orig.linedefs[j]
  OBVIOUS
<1>4. /\ Group(Written, <<i, s>>)
           = IF ~orig.hexen /\ p.tag \in 9700 .. 9799 THEN p.tag
             ELSE IF p.type # 0 THEN -1 ELSE 0
      /\ Group(Written, <<j, t>>)
           = IF ~orig.hexen /\ q.tag \in 9700 .. 9799 THEN q.tag
             ELSE IF q.type # 0 THEN -1 ELSE 0
  BY <1>1, <1>2, <1>3 DEF Group, Tagged
<1>5. /\ LinedefMergeDomain(p)
           = IF ~orig.hexen /\ p.tag \in 9700 .. 9799 THEN p.tag - 9698
             ELSE IF p.type # 0 THEN 0 ELSE 1
      /\ LinedefMergeDomain(q)
           = IF ~orig.hexen /\ q.tag \in 9700 .. 9799 THEN q.tag - 9698
             ELSE IF q.type # 0 THEN 0 ELSE 1
  BY <1>1, <1>3 DEF LinedefMergeDomain, InMergeRange, TagDomain, UntaggedDomain,
     MERGE_RANGE_START, MERGE_RANGE_END, MERGE_DOMAIN_SPECIAL
<1>6. p.tag \in Nat /\ q.tag \in Nat
  BY <1>1, <1>3
<1> QED
  BY <1>3, <1>4, <1>5, <1>6, SMTT(60) DEF MERGE_DOMAIN_SPECIAL

\* Which sides of the lines have the same sidedef in the end.
LEMMA WrittenShares ==
  ASSUME TypeOK, OnDisk, pc \notin {"idle", "errorexit"}, Made,
         NEW i \in DOMAIN lines, NEW j \in DOMAIN lines, NEW s \in Side, NEW t \in Side,
         <<i, s>> # <<j, t>>,
         RefOf(Written, <<i, s>>) # NoIndex, RefOf(Written, <<j, t>>) # NoIndex
  PROVE  /\ RefOf(Written, <<i, s>>) = RefOf(Written, <<j, t>>)
              <=> /\ cmd.op = "pack" /\ Alike(Given(i, s), Given(j, t))
                  /\ Given(i, s).domain # MERGE_DOMAIN_SPECIAL
         /\ (Given(i, s).domain = Given(j, t).domain
             /\ Given(i, s).domain # MERGE_DOMAIN_SPECIAL)
              <=> /\ Group(Written, <<i, s>>) = Group(Written, <<j, t>>)
                  /\ Group(Written, <<i, s>>) # -1
<1>1. /\ SideRef(lines[i], s) # NO_SIDEDEF
      /\ RefOf(Written, <<i, s>>) = SideRef(lines[i], s)
  BY SideAsWritten
<1>2. /\ SideRef(lines[j], t) # NO_SIDEDEF
      /\ RefOf(Written, <<j, t>>) = SideRef(lines[j], t)
  BY SideAsWritten
<1>3. SideRef(lines[i], s) = SideRef(lines[j], t)
        <=> /\ cmd.op = "pack" /\ Alike(Given(i, s), Given(j, t))
            /\ Given(i, s).domain # MERGE_DOMAIN_SPECIAL
  BY <1>1, <1>2 DEF Made
<1>4. /\ Given(i, s).domain = LinedefMergeDomain(orig.linedefs[i])
      /\ Given(j, t).domain = LinedefMergeDomain(orig.linedefs[j])
  BY <1>1, <1>2, ReadKeepsNothingElse
<1>5. /\ LinedefMergeDomain(orig.linedefs[i]) = LinedefMergeDomain(orig.linedefs[j])
      /\ LinedefMergeDomain(orig.linedefs[i]) # MERGE_DOMAIN_SPECIAL
      <=> /\ Group(Written, <<i, s>>) = Group(Written, <<j, t>>)
          /\ Group(Written, <<i, s>>) # -1
  BY DomainsAreGroups
<1> QED
  BY <1>1, <1>2, <1>3, <1>4, <1>5

LEMMA WrittenPacked ==
  ASSUME TypeOK, OnDisk, pc \notin {"idle", "errorexit"}, Made
  PROVE  /\ \A u, v \in LineSides(Written) :
              u # v /\ RefOf(Written, u) = RefOf(Written, v) /\ RefOf(Written, u) # NoIndex
                => /\ cmd.op = "pack"
                   /\ Group(Written, u) = Group(Written, v) /\ Group(Written, u) # -1
         /\ \A r \in 0 .. Len(Written.sidedefs) - 1 :
              r # NoIndex /\ Users(Written, r) # {}
         /\ cmd.op = "pack" =>
              \A u, v \in LineSides(Written) :
                /\ Shows(Written, u) # <<>> /\ Shows(Written, u) = Shows(Written, v)
                /\ Group(Written, u) = Group(Written, v) /\ Group(Written, u) # -1
                => RefOf(Written, u) = RefOf(Written, v)
<1>1. ASSUME NEW u \in LineSides(Written)
      PROVE  \E i \in DOMAIN lines, s \in Side : u = <<i, s>>
  BY WrittenLines, Pairs
<1>2. ASSUME NEW u \in LineSides(Written), NEW v \in LineSides(Written),
             u # v, RefOf(Written, u) = RefOf(Written, v), RefOf(Written, u) # NoIndex
      PROVE  /\ cmd.op = "pack"
             /\ Group(Written, u) = Group(Written, v) /\ Group(Written, u) # -1
  <2>1. PICK i \in DOMAIN lines, s \in Side : u = <<i, s>>
    BY <1>1
  <2>2. PICK j \in DOMAIN lines, t \in Side : v = <<j, t>>
    BY <1>1
  <2> QED
    BY <1>2, <2>1, <2>2, WrittenShares DEF Alike
<1>3. ASSUME NEW r \in 0 .. Len(Written.sidedefs) - 1
      PROVE  r # NoIndex /\ Users(Written, r) # {}
  <2>1. /\ r \in 0 .. Len(sides) - 1 /\ r # NO_SIDEDEF
        /\ DOMAIN lines = 1 .. Len(lines)
    BY WrittenLines DEF TypeOK, NO_SIDEDEF
  <2>2. PICK i \in DOMAIN lines, s \in Side : SideRef(lines[i], s) = r
    BY <2>1 DEF Made, Used
  <2>3. RefOf(Written, <<i, s>>) = r /\ r # NoIndex
    BY <2>1, <2>2, SideAsWritten
  <2>4. <<i, s>> \in LineSides(Written)
    BY WrittenLines
  <2> QED
    BY <2>3, <2>4 DEF Users
<1>4. ASSUME cmd.op = "pack",
             NEW u \in LineSides(Written), NEW v \in LineSides(Written),
             Shows(Written, u) # <<>>, Shows(Written, u) = Shows(Written, v),
             Group(Written, u) = Group(Written, v), Group(Written, u) # -1
      PROVE  RefOf(Written, u) = RefOf(Written, v)
  <2>1. PICK i \in DOMAIN lines, s \in Side : u = <<i, s>>
    BY <1>1
  <2>2. PICK j \in DOMAIN lines, t \in Side : v = <<j, t>>
    BY <1>1
  <2>3. /\ RefOf(Written, u) # NoIndex /\ SideRef(lines[i], s) # NO_SIDEDEF
        /\ RefOf(Written, v) # NoIndex /\ SideRef(lines[j], t) # NO_SIDEDEF
    BY <1>4, <2>1, <2>2, SideAsWritten
  <2>4. /\ Shows(Written, u) = <<Given(i, s).middle, Given(i, s).trim, Given(i, s).place>>
        /\ Shows(Written, v) = <<Given(j, t).middle, Given(j, t).trim, Given(j, t).place>>
    BY <2>1, <2>2, <2>3, SideAsWritten
  <2>5. /\ Given(i, s).middle = Given(j, t).middle /\ Given(i, s).trim = Given(j, t).trim
        /\ Given(i, s).place = Given(j, t).place
    <3>1. <<Given(i, s).middle, Given(i, s).trim, Given(i, s).place>>
            = <<Given(j, t).middle, Given(j, t).trim, Given(j, t).place>>
      BY <1>4, <2>4
    <3> QED
      BY <3>1
  <2>6. CASE u # v
    <3>1. Given(i, s).domain = Given(j, t).domain
          /\ Given(i, s).domain # MERGE_DOMAIN_SPECIAL
      BY <1>4, <2>1, <2>2, <2>3, <2>6, WrittenShares
    <3> QED
      BY <1>4, <2>1, <2>2, <2>3, <2>5, <2>6, <3>1, WrittenShares DEF Alike
  <2> QED
    BY <2>6
<1> QED
  BY <1>2, <1>3, <1>4

LEMMA WrittenUnpacked ==
  ASSUME TypeOK, OnDisk, pc \notin {"idle", "errorexit"}, Made, cmd.op = "unpack"
  PROVE  /\ ~IsPacked(Written)
         /\ \A r \in 0 .. Len(Written.sidedefs) - 1 : Cardinality(Users(Written, r)) = 1
<1>1. \A u, v \in LineSides(Written) :
        RefOf(Written, u) = RefOf(Written, v) /\ RefOf(Written, u) # NoIndex => u = v
  BY WrittenPacked
<1>2. ASSUME NEW r \in 0 .. Len(Written.sidedefs) - 1
      PROVE  Cardinality(Users(Written, r)) = 1
  <2>1. r # NoIndex /\ Users(Written, r) # {}
    BY WrittenPacked
  <2>2. PICK u : u \in Users(Written, r)
    BY <2>1
  <2>3. Users(Written, r) = {u}
    BY <1>1, <2>1, <2>2 DEF Users
  <2> QED
    BY <2>3, FS_Singleton
<1> QED
  BY <1>1, <1>2 DEF IsPacked

\* Without -extsides, references are within what a signed number can be.
LEMMA WrittenSigned ==
  ASSUME TypeOK, OnDisk, Outcome, pc \in {"linedefs", "sidedefs"}, ~cmd.extsides,
         Signed(was)
  PROVE  Signed(Written)
<1>1. CASE lines = orig.linedefs /\ sides = orig.sidedefs
  BY <1>1, WrittenBack
<1>2. CASE Made
  <2> SUFFICES ASSUME NEW u \in LineSides(Written), RefOf(Written, u) # NoIndex
               PROVE  RefOf(Written, u) \in 0 .. NoIndex \div 2
    BY DEF Signed
  <2>1. PICK i \in DOMAIN lines, s \in Side : u = <<i, s>>
    BY <1>2, WrittenLines, Pairs
  <2>2. RefOf(Written, u) \in 0 .. SidedefsLimit - 1
    BY <1>2, <2>1, SideAsWritten
  <2>3. SidedefsLimit = NoIndex \div 2 /\ NoIndex \div 2 \in Int
    BY NoIndexAssumption DEF SidedefsLimit, MAX_VANILLA_SIDEDEFS
  <2> QED
    BY <2>2, <2>3
<1> QED
  BY <1>1, <1>2 DEF Outcome

-----------------------------------------------------------------------------
(* The end of a run *)

LEMMA WriteLinedefsKeeps ==
  ASSUME SidedefsInv, WriteLinedefs PROVE SidedefsInv'
<1>1. /\ pc = "linedefs" /\ pc' = "sidedefs"
      /\ level' = [level EXCEPT !.linedefs = DiskLinedefs(lines)]
      /\ UNCHANGED <<local, history>>
      /\ TypeOK /\ OnDisk /\ SoFar /\ Outcome /\ level = was
  BY DEF SidedefsInv, WriteLinedefs, Goto, OnDisk
<1>2. /\ UNCHANGED <<cmd, orig, lines, sides, size, at, map, newindex, packed, success>>
      /\ UNCHANGED <<past, trail>>
  BY <1>1 DEF local, history
<1>3. was' = was /\ SoFar'
  BY <1>1, <1>2 DEF SoFar, was
<1>4. level' \in Level
  <2>1. DiskLinedefs(lines) \in Seq(Linedef(DiskRef))
    BY <1>1, DiskTyped DEF TypeOK
  <2>2. level \in Level
    BY <1>1 DEF TypeOK
  <2> QED
    BY <1>1, <2>1, <2>2 DEF Level
<1>5. TypeOK'
  BY <1>1, <1>2, <1>4 DEF TypeOK
<1>6. OnDisk'
  BY <1>1, <1>2, <1>3 DEF OnDisk, DiskLinedefs
<1>7. Outcome'
  <2>1. CASE success /\ Made
    <3>1. Made'
      BY <1>2, <2>1, MadeStays
    <3> QED
      BY <1>2, <2>1, <3>1 DEF Outcome
  <2>2. CASE /\ lines = orig.linedefs /\ sides = orig.sidedefs
             /\ success => ~RefsInLevel(was)
    BY <1>2, <1>3, <2>2 DEF Outcome
  <2> QED
    BY <1>1, <2>1, <2>2 DEF Outcome
<1> QED
  BY <1>1, <1>3, <1>5, <1>6, <1>7, WhileRunning DEF SidedefsInv, Rebuilding, Merging

LEMMA WriteSidedefsKeeps ==
  ASSUME SidedefsInv, WriteSidedefs PROVE SidedefsInv'
<1>1. /\ pc = "sidedefs" /\ pc' = "idle"
      /\ level' = [level EXCEPT !.sidedefs = DiskSidedefs(sides)]
      /\ past' = Append(past, cmd) /\ trail' = Append(trail, level')
      /\ TypeOK /\ OnDisk /\ SoFar /\ Outcome
      /\ level = [was EXCEPT !.linedefs = DiskLinedefs(lines)]
      /\ UNCHANGED <<cmd, orig, lines, sides, size, at, map, newindex, packed, success>>
  BY DEF SidedefsInv, WriteSidedefs, Goto, OnDisk, local
<1>2. level' = Written /\ level' \in Level
  BY <1>1, WrittenTyped DEF Written
<1>3. /\ past \in Seq(Command) /\ trail \in Seq(Level) /\ cmd \in Command
      /\ Len(trail) = Len(past) + 1 /\ Len(past) \in Nat
      /\ cmd.wipesides \in BOOLEAN
  BY <1>1 DEF TypeOK, OnDisk, Command
<1>4. /\ Len(past') = Len(past) + 1 /\ DOMAIN past' = 1 .. Len(past) + 1
      /\ past'[Len(past) + 1] = cmd /\ \A i \in DOMAIN past : past'[i] = past[i]
      /\ DOMAIN past = 1 .. Len(past) /\ past' \in Seq(Command)
      /\ Len(trail') = Len(trail) + 1 /\ trail'[Len(trail')] = level'
      /\ trail'[1] = trail[1] /\ trail' \in Seq(Level)
  BY <1>1, <1>2, <1>3
<1>5. was' = Written
  BY <1>2, <1>4 DEF was
<1>6. TypeOK'
  BY <1>1, <1>2, <1>4 DEF TypeOK
<1>7. OnDisk'
  BY <1>1, <1>2, <1>3, <1>4, <1>5 DEF OnDisk
<1>8. SoFar'
  <2> DEFINE wiped == \E i \in DOMAIN past : past[i].wipesides
             wiped1 == \E i \in DOMAIN past' : past'[i].wipesides
  <2>1. wiped1 <=> wiped \/ cmd.wipesides
    BY <1>3, <1>4, SMTT(60)
  <2>2. Keeps(was, Written, cmd.wipesides)
    BY <1>1, RunKeeps
  <2>3. Keeps(trail[1], was, wiped)
    BY <1>1 DEF SoFar
  <2>4. Keeps(trail[1], Written, wiped \/ cmd.wipesides)
    <3>1. wiped \in BOOLEAN
      OBVIOUS
    <3> HIDE DEF wiped
    <3> QED
      BY <1>3, <2>2, <2>3, <3>1, KeepsOn
  <2>5. Keeps(trail[1], Written, wiped1)
    <3> HIDE DEF wiped, wiped1
    <3> QED
      BY <2>1, <2>4 DEF Keeps
  <2>6. ASSUME \A i \in DOMAIN past' : ~past'[i].extsides, Signed(trail[1])
        PROVE  Signed(Written)
    <3>1. ~cmd.extsides /\ \A i \in DOMAIN past : ~past[i].extsides
      BY <1>3, <1>4, <2>6, SMTT(60)
    <3>2. Signed(was)
      BY <1>1, <2>6, <3>1 DEF SoFar
    <3> QED
      BY <1>1, <3>1, <3>2, WrittenSigned
  <2> QED
    BY <1>4, <1>5, <2>5, <2>6 DEF SoFar, Keeps, Signed
<1>9. ASSUME NEW op, Ended(op)' PROVE Made /\ cmd.op = op
  <2>1. success /\ RefsInLevel(Written) /\ cmd.op = op
    <3>1. Last(past') = cmd
      BY <1>4 DEF Last
    <3> QED
      BY <1>1, <1>2, <1>9, <3>1 DEF Ended
  <2>2. CASE lines = orig.linedefs /\ sides = orig.sidedefs /\ ~RefsInLevel(was)
    BY <1>1, <2>1, <2>2, WrittenBack
  <2> QED
    BY <1>1, <2>1, <2>2 DEF Outcome
<1>10. OnlyAlikeShare'
  <2>1. CASE Made
    BY <1>1, <1>2, <2>1, WrittenPacked DEF OnlyAlikeShare
  <2> QED
    BY <1>9, <2>1 DEF OnlyAlikeShare
<1>11. FullyPacked'
  <2>1. CASE Made /\ cmd.op = "pack"
    BY <1>1, <1>2, <2>1, WrittenPacked DEF FullyPacked
  <2> QED
    BY <1>9, <2>1 DEF FullyPacked
<1>12. FullyUnpacked'
  <2>1. CASE Made /\ cmd.op = "unpack"
    BY <1>1, <1>2, <2>1, WrittenUnpacked DEF FullyUnpacked
  <2> QED
    BY <1>9, <2>1 DEF FullyUnpacked
<1> QED
  BY <1>1, <1>6, <1>7, <1>8, <1>10, <1>11, <1>12
     DEF SidedefsInv, Rebuilding, Merging, Outcome

LEMMA NextKeeps == SidedefsInv /\ [Next]_vars => SidedefsInv'
<1> SUFFICES ASSUME SidedefsInv, [Next]_vars PROVE SidedefsInv'
  OBVIOUS
<1>1. CASE UNCHANGED vars
  <2>1. /\ UNCHANGED <<level, pc, cmd, orig, lines, sides, size, at, map, newindex>>
        /\ UNCHANGED <<packed, success, past, trail>>
    BY <1>1 DEF vars, local, history
  <2>2. TypeOK' /\ OnDisk' /\ SoFar'
    BY <2>1 DEF SidedefsInv, TypeOK, OnDisk, SoFar, was
  <2>3. Rebuilding'
    <3>1. PICK n : n = at - 1
      OBVIOUS
    <3> QED
      BY <2>1, <3>1, RebuiltStays DEF SidedefsInv, Rebuilding
  <2>4. Merging'
    <3>1. PICK n, m : n = Len(lines) /\ m = at - 1
      OBVIOUS
    <3>2. Numbered(m) => Numbered(m)'
      BY <2>1 DEF Numbered, Mapped, Special, Alike
    <3> QED
      BY <2>1, <3>1, <3>2, RebuiltStays, MapSortedStays DEF SidedefsInv, Merging
  <2>5. Outcome'
    <3>1. Made => Made'
      BY <2>1, MadeStays
    <3> QED
      BY <2>1, <3>1 DEF SidedefsInv, Outcome, was
  <2>6. OnlyAlikeShare' /\ FullyPacked' /\ FullyUnpacked'
    BY <2>1 DEF SidedefsInv, OnlyAlikeShare, FullyPacked, FullyUnpacked, Ended
  <2> QED
    BY <2>2, <2>3, <2>4, <2>5, <2>6 DEF SidedefsInv
<1> QED
  BY <1>1, StartKeeps, RebuildLineKeeps, SortKeeps, MergeSidedefKeeps, FinishPackKeeps,
     FinishUnpackKeeps, WriteLinedefsKeeps, WriteSidedefsKeeps DEF Next, Done

-----------------------------------------------------------------------------
(* What a run makes of a level *)

\* The sides that have a sidedef, and the order of all sides.
Taken(l) == {u \in LineSides(l) : RefOf(l, u) # NoIndex}
Before(u, v) == u[1] < v[1] \/ (u[1] = v[1] /\ u[2] < v[2])

GroupDomain(l, i) ==
  IF ~l.hexen /\ InMergeRange(l.linedefs[i]) THEN TagDomain(l.linedefs[i])
  ELSE UntaggedDomain(l.linedefs[i])

\* The sidedef that c gives a side of l, and what is written of it.
Due(c, l, u) ==
  [middle |-> l.sidedefs[RefOf(l, u) + 1].middle,
   spelling |-> l.sidedefs[RefOf(l, u) + 1].spelling,
   trim |-> IF c.wipesides /\ OneSided(l, u) THEN Wiped
            ELSE l.sidedefs[RefOf(l, u) + 1].trim,
   place |-> l.sidedefs[RefOf(l, u) + 1].place,
   domain |-> GroupDomain(l, u[1])]

Plain(s) == [middle |-> s.middle, spelling |-> s.spelling, trim |-> s.trim,
             place |-> s.place]

\* The sidedef of u comes before that of v.
Sorts(c, l, u, v) ==
  IF c.op = "unpack" THEN Before(u, v)
  ELSE \/ Sooner(Due(c, l, u), Due(c, l, v))
       \/ /\ Same(Due(c, l, u), Due(c, l, v)) /\ Before(u, v)
          /\ Due(c, l, u).domain = MERGE_DOMAIN_SPECIAL

\* The n numbers f of the sidedefs are in this order, and sides have the same
\* number if neither comes first.
Numbers(c, l, f, n) ==
  /\ n \in Nat /\ f \in [Taken(l) -> 0 .. n - 1]
  /\ \A r \in 0 .. n - 1 : \E u \in Taken(l) : f[u] = r
  /\ \A u, v \in Taken(l) : f[u] < f[v] <=> Sorts(c, l, u, v)

RefsOf(l) == [u \in Taken(l) |-> RefOf(l, u)]

LimitOf(c) == IF c.extsides THEN MAX_EXT_SIDEDEFS ELSE MAX_VANILLA_SIDEDEFS

\* The same lines, but for the sidedefs that they refer to.
SameSides(l, n) ==
  /\ n.hexen = l.hexen /\ n.whole = l.whole
  /\ Len(n.linedefs) = Len(l.linedefs)
  /\ \A i \in 1 .. Len(l.linedefs) : /\ n.linedefs[i].type = l.linedefs[i].type
                                     /\ n.linedefs[i].tag = l.linedefs[i].tag
  /\ \A u \in LineSides(l) : RefOf(n, u) = NoIndex <=> RefOf(l, u) = NoIndex

\* n is what c makes of l, if that is within the limit; or else l is left alone.
Makes(c, l, n) ==
  /\ RefsInLevel(l) /\ SameSides(l, n)
  /\ Numbers(c, l, RefsOf(n), Len(n.sidedefs))
  /\ Len(n.sidedefs) <= LimitOf(c)
  /\ \A r \in 0 .. Len(n.sidedefs) - 1 :
       \E v \in Taken(l) : RefOf(n, v) = r /\ n.sidedefs[r + 1] = Plain(Due(c, l, v))

NoneFits(c, l) ==
  RefsInLevel(l) /\ \E f, n : Numbers(c, l, f, n) /\ ~(n <= LimitOf(c))

Ran(c, l, n) == Makes(c, l, n) \/ (n = l /\ (RefsInLevel(l) => NoneFits(c, l)))

\* A level that is already what c makes of it.
Settled(c, n) ==
  /\ RefsInLevel(n) /\ Numbers(c, n, RefsOf(n), Len(n.sidedefs))
  /\ Len(n.sidedefs) <= LimitOf(c)
  /\ \A u \in Taken(n) : n.sidedefs[RefOf(n, u) + 1] = Plain(Due(c, n, u))

\* Elements that are numbered in the same order have the same numbers.
LEMMA OneNumbering ==
  ASSUME NEW S, NEW n \in Nat, NEW m \in Nat,
         NEW f \in [S -> 0 .. n - 1], NEW g \in [S -> 0 .. m - 1],
         \A r \in 0 .. n - 1 : \E u \in S : f[u] = r,
         \A r \in 0 .. m - 1 : \E u \in S : g[u] = r,
         \A u, v \in S : f[u] < f[v] <=> g[u] < g[v]
  PROVE  f = g /\ n = m
<1>1. \A u \in S : f[u] \in Nat /\ f[u] < n /\ g[u] \in Nat /\ g[u] < m
  OBVIOUS
<1>2. ASSUME NEW t \in S PROVE f[t] = g[t]
  <2> DEFINE Odd(d, u) == \/ f[u] = d /\ g[u] # d
                          \/ g[u] = d /\ f[u] # d
             Bad == {d \in Nat : \E u \in S : Odd(d, u)}
  <2> SUFFICES ASSUME f[t] # g[t] PROVE FALSE
    OBVIOUS
  <2>1. Bad # {} /\ Bad \subseteq Nat
    <3>1. f[t] \in Bad
      BY <1>1
    <3> QED
      BY <3>1
  <2>2. PICK d \in Bad : \A e \in Bad : d <= e
    <3> HIDE DEF Bad
    <3> QED
      BY <2>1, LeastNumber
  <2>3. d \in Nat
    OBVIOUS
  <2>4. PICK u \in S : Odd(d, u)
    OBVIOUS
  <2>5. ASSUME NEW e \in Nat, e < d, NEW v \in S PROVE f[v] = e <=> g[v] = e
    <3>1. e \notin Bad
      <4> HIDE DEF Bad
      <4> QED
        BY <2>2, <2>3, <2>5
    <3> QED
      BY <3>1
  <2> HIDE DEF Bad
  <2>6. CASE f[u] = d /\ g[u] # d
    <3>1. d < g[u] /\ d \in 0 .. m - 1
      BY <1>1, <2>3, <2>5, <2>6
    <3>2. PICK v \in S : g[v] = d
      BY <3>1
    <3>3. f[v] < d
      BY <2>6, <3>1, <3>2
    <3> QED
      BY <1>1, <2>3, <2>5, <3>2, <3>3
  <2>7. CASE g[u] = d /\ f[u] # d
    <3>1. d < f[u] /\ d \in 0 .. n - 1
      BY <1>1, <2>3, <2>5, <2>7
    <3>2. PICK v \in S : f[v] = d
      BY <3>1
    <3>3. g[v] < d
      BY <2>7, <3>1, <3>2
    <3> QED
      BY <1>1, <2>3, <2>5, <3>2, <3>3
  <2> QED
    BY <2>4, <2>6, <2>7
<1>3. f = g
  BY <1>2
<1>4. ~(n < m)
  <2> SUFFICES ASSUME n < m PROVE FALSE
    OBVIOUS
  <2>1. PICK u \in S : g[u] = n
    OBVIOUS
  <2> QED
    BY <1>1, <1>2, <2>1
<1>5. ~(m < n)
  <2> SUFFICES ASSUME m < n PROVE FALSE
    OBVIOUS
  <2>1. PICK u \in S : f[u] = m
    OBVIOUS
  <2> QED
    BY <1>1, <1>2, <2>1
<1> QED
  BY <1>3, <1>4, <1>5

\* And they have at most as many as those that are numbered one by one.
LEMMA FewerNumbers ==
  ASSUME NEW S, NEW n \in Nat, NEW m \in Nat,
         NEW f \in [S -> 0 .. n - 1], NEW g \in [S -> 0 .. m - 1],
         \A r \in 0 .. n - 1 : \E u \in S : f[u] = r,
         \A r \in 0 .. m - 1 : \E u \in S : g[u] = r,
         \A u, v \in S : g[u] = g[v] => u = v
  PROVE  n <= m
<1> DEFINE M == 0 .. m - 1
           N == 0 .. n - 1
           h == [r \in M |-> f[CHOOSE u \in S : g[u] = r]]
<1>1. ASSUME NEW u \in S PROVE g[u] \in M /\ h[g[u]] = f[u]
  <2>1. (CHOOSE v \in S : g[v] = g[u]) = u
    OBVIOUS
  <2> QED
    BY <2>1
<1>2. h \in [M -> N]
  <2>1. ASSUME NEW r \in M PROVE h[r] \in N
    <3>1. PICK u \in S : g[u] = r
      OBVIOUS
    <3> QED
      BY <1>1, <3>1
  <2> QED
    BY <2>1
<1>3. ASSUME NEW r \in N PROVE \E s \in M : h[s] = r
  <2>1. PICK u \in S : f[u] = r
    OBVIOUS
  <2>2. g[u] \in M /\ h[g[u]] = r
    BY <1>1, <2>1
  <2> HIDE DEF M, N, h
  <2> QED
    BY <2>2
<1> HIDE DEF h
<1>4. h \in Surjection(M, N)
  BY <1>2, <1>3 DEF Surjection
<1>5. /\ IsFiniteSet(M) /\ IsFiniteSet(N)
      /\ Cardinality(M) = m /\ Cardinality(N) = n
  <2>1. ASSUME NEW k \in Nat
        PROVE  IsFiniteSet(0 .. k - 1) /\ Cardinality(0 .. k - 1) = k
    <3>1. 0 \in Int /\ k - 1 \in Int
      OBVIOUS
    <3>2. IsFiniteSet(0 .. k - 1)
          /\ Cardinality(0 .. k - 1) = IF 0 > k - 1 THEN 0 ELSE k - 1 - 0 + 1
      BY <3>1, FS_Interval
    <3> QED
      BY <3>2
  <2> QED
    BY <2>1
<1> HIDE DEF M, N
<1> QED
  BY <1>4, <1>5, FS_Surjection

LEMMA SidesTyped ==
  ASSUME NEW l \in Level, NEW u \in LineSides(l)
  PROVE  /\ u[1] \in 1 .. Len(l.linedefs) /\ u[2] \in Side /\ u = <<u[1], u[2]>>
         /\ Len(l.linedefs) \in Nat /\ Len(l.sidedefs) \in Nat
         /\ l.linedefs[u[1]] \in Linedef(DiskRef) /\ RefOf(l, u) \in DiskRef
         /\ <<u[1], 2>> \in LineSides(l)
<1>1. l.linedefs \in Seq(Linedef(DiskRef)) /\ l.sidedefs \in Seq(Sidedef)
  BY DEF Level
<1>2. u \in (1 .. Len(l.linedefs)) \X {1, 2}
  BY <1>1 DEF LineSides
<1>3. u[1] \in 1 .. Len(l.linedefs) /\ u[2] \in Side /\ u = <<u[1], u[2]>>
  BY <1>2 DEF Side
<1>4. l.linedefs[u[1]] \in Linedef(DiskRef)
  BY <1>1, <1>3
<1>5. RefOf(l, u) \in DiskRef
  BY <1>4 DEF RefOf, Linedef
<1>6. <<u[1], 2>> \in LineSides(l)
  BY <1>1, <1>3 DEF LineSides
<1> QED
  BY <1>1, <1>3, <1>4, <1>5, <1>6

LEMMA TakenTyped ==
  ASSUME NEW l \in Level, RefsInLevel(l), NEW c, NEW u \in Taken(l)
  PROVE  /\ RefOf(l, u) \in 0 .. Len(l.sidedefs) - 1 /\ RefOf(l, u) \in Nat
         /\ l.sidedefs[RefOf(l, u) + 1] \in Sidedef
         /\ Due(c, l, u) \in MemSidedef /\ Plain(Due(c, l, u)) \in Sidedef
<1>1. u \in LineSides(l) /\ RefOf(l, u) # NoIndex
  BY DEF Taken
<1>2. /\ u[1] \in 1 .. Len(l.linedefs) /\ Len(l.sidedefs) \in Nat
      /\ l.linedefs[u[1]] \in Linedef(DiskRef) /\ RefOf(l, u) \in DiskRef
  BY <1>1, SidesTyped
<1>3. PICK r \in Nat : r = RefOf(l, u) /\ r \in 0 .. Len(l.sidedefs) - 1
  BY <1>1, <1>2, NoIndexAssumption DEF RefsInLevel, DiskRef
<1>4. PICK s \in Sidedef : s = l.sidedefs[r + 1]
  BY <1>3 DEF Level
<1>5. PICK t \in Nat : t = l.linedefs[u[1]].tag
  BY <1>2 DEF Linedef
<1>6. GroupDomain(l, u[1]) \in MergeDomain
  BY <1>5, SMTT(60) DEF GroupDomain, UntaggedDomain, TagDomain, InMergeRange, MergeDomain,
              MERGE_RANGE_START, MERGE_RANGE_END, MERGE_DOMAIN_SPECIAL
<1>7. PICK d \in MergeDomain : d = GroupDomain(l, u[1])
  BY <1>6
<1>8. PICK w \in Nat : w = IF c.wipesides /\ OneSided(l, u) THEN Wiped ELSE s.trim
  BY DEF Sidedef, Wiped
<1>9. Due(c, l, u) = [middle |-> s.middle, spelling |-> s.spelling, trim |-> w,
                      place |-> s.place, domain |-> d]
  BY <1>3, <1>4, <1>7, <1>8 DEF Due
<1>10. Due(c, l, u) \in MemSidedef
  BY <1>9 DEF MemSidedef, Sidedef
<1>11. Plain(Due(c, l, u)) \in Sidedef
  BY <1>10 DEF MemSidedef, Sidedef, Plain
<1> QED
  BY <1>3, <1>4, <1>10, <1>11

LEMMA BeforeOrders ==
  ASSUME NEW l \in Level, NEW u \in LineSides(l), NEW v \in LineSides(l)
  PROVE  /\ ~Before(u, u)
         /\ u # v => Before(u, v) \/ Before(v, u)
         /\ Before(u, v) => ~Before(v, u)
<1>1. ASSUME NEW w \in LineSides(l)
      PROVE  w[1] \in Nat /\ w[2] \in Nat /\ w = <<w[1], w[2]>>
  <2>1. /\ w[1] \in 1 .. Len(l.linedefs) /\ w[2] \in Side /\ w = <<w[1], w[2]>>
        /\ Len(l.linedefs) \in Nat
    BY SidesTyped
  <2> QED
    BY <2>1 DEF Side
<1>2. u # v => u[1] # v[1] \/ u[2] # v[2]
  BY <1>1
<1> QED
  BY <1>1, <1>2 DEF Before

LEMMA SortsAlike ==
  ASSUME NEW c, NEW l, NEW n, NEW u, NEW v,
         Alike(Due(c, l, u), Due(c, n, u)), Alike(Due(c, l, v), Due(c, n, v))
  PROVE  Sorts(c, l, u, v) <=> Sorts(c, n, u, v)
BY DEF Sorts, Alike, Sooner, Same

LEMMA SameTaken ==
  ASSUME NEW l \in Level, NEW n \in Level, SameSides(l, n)
  PROVE  /\ LineSides(n) = LineSides(l) /\ Taken(n) = Taken(l)
         /\ \A u \in LineSides(l) : /\ OneSided(n, u) <=> OneSided(l, u)
                                    /\ GroupDomain(n, u[1]) = GroupDomain(l, u[1])
<1>1. DOMAIN n.linedefs = 1 .. Len(l.linedefs) /\ DOMAIN l.linedefs = 1 .. Len(l.linedefs)
  BY DEF Level, SameSides
<1>2. LineSides(n) = LineSides(l)
  BY <1>1 DEF LineSides
<1>3. Taken(n) = Taken(l)
  BY <1>2 DEF Taken, SameSides
<1>4. ASSUME NEW u \in LineSides(l)
      PROVE  /\ OneSided(n, u) <=> OneSided(l, u)
             /\ GroupDomain(n, u[1]) = GroupDomain(l, u[1])
  <2>1. u[1] \in 1 .. Len(l.linedefs) /\ <<u[1], 2>> \in LineSides(l)
    BY SidesTyped
  <2>2. OneSided(n, u) <=> OneSided(l, u)
    BY <2>1 DEF OneSided, SameSides
  <2>3. /\ n.hexen = l.hexen /\ n.linedefs[u[1]].type = l.linedefs[u[1]].type
        /\ n.linedefs[u[1]].tag = l.linedefs[u[1]].tag
    BY <2>1 DEF SameSides
  <2>4. GroupDomain(n, u[1]) = GroupDomain(l, u[1])
    BY <2>3 DEF GroupDomain, InMergeRange, TagDomain, UntaggedDomain
  <2> QED
    BY <2>2, <2>4
<1> QED
  BY <1>2, <1>3, <1>4

\* Sides with the same number are to have the same, but for the spelling.
LEMMA SharersAlike ==
  ASSUME NEW c \in Command, NEW l \in Level, RefsInLevel(l), NEW f, NEW n,
         Numbers(c, l, f, n), NEW u \in Taken(l), NEW v \in Taken(l), f[u] = f[v]
  PROVE  /\ Alike(Due(c, l, u), Due(c, l, v))
         /\ c.op = "unpack" => u = v
<1>1. ~Sorts(c, l, u, v) /\ ~Sorts(c, l, v, u)
  <2>1. n \in Nat /\ f[u] \in 0 .. n - 1 /\ f[v] \in 0 .. n - 1
    BY DEF Numbers
  <2>2. ~(f[u] < f[v]) /\ ~(f[v] < f[u])
    BY <2>1
  <2> QED
    BY <2>2 DEF Numbers
<1>2. CASE c.op = "unpack"
  <2>1. u = v
    BY <1>1, <1>2, BeforeOrders DEF Sorts, Taken
  <2> QED
    BY <2>1 DEF Alike
<1>3. CASE c.op # "unpack"
  <2>1. Same(Due(c, l, u), Due(c, l, v))
    BY <1>1, <1>3 DEF Sorts, Same
  <2>2. Due(c, l, u) \in MemSidedef /\ Due(c, l, v) \in MemSidedef
    BY TakenTyped
  <2> QED
    BY <1>3, <2>1, <2>2, SameIsAlike
<1> QED
  BY <1>2, <1>3

\* What a sidedef says of a side that has it.
LEMMA DueAgain ==
  ASSUME NEW c, NEW l \in Level, NEW n \in Level, SameSides(l, n),
         NEW u \in Taken(l), NEW s, n.sidedefs[RefOf(n, u) + 1] = Plain(s),
         s.trim = IF c.wipesides /\ OneSided(l, u) THEN Wiped ELSE s.trim
  PROVE  Due(c, n, u) = [middle |-> s.middle, spelling |-> s.spelling,
                         trim |-> s.trim, place |-> s.place,
                         domain |-> GroupDomain(l, u[1])]
<1>1. u \in LineSides(l)
  BY DEF Taken
<1>2. /\ OneSided(n, u) <=> OneSided(l, u)
      /\ GroupDomain(n, u[1]) = GroupDomain(l, u[1])
  BY <1>1, SameTaken
<1>3. /\ n.sidedefs[RefOf(n, u) + 1].middle = s.middle
      /\ n.sidedefs[RefOf(n, u) + 1].spelling = s.spelling
      /\ n.sidedefs[RefOf(n, u) + 1].trim = s.trim
      /\ n.sidedefs[RefOf(n, u) + 1].place = s.place
  BY DEF Plain
<1> QED
  BY <1>2, <1>3 DEF Due

\* Packing and unpacking leave nothing for another run to do.
LEMMA MakesSettled ==
  ASSUME NEW c \in Command, NEW l \in Level, NEW n \in Level, Makes(c, l, n)
  PROVE  Settled(c, n)
<1>1. /\ RefsInLevel(l) /\ SameSides(l, n) /\ Numbers(c, l, RefsOf(n), Len(n.sidedefs))
      /\ Len(n.sidedefs) <= LimitOf(c)
  BY DEF Makes
<1>2. LineSides(n) = LineSides(l) /\ Taken(n) = Taken(l)
  BY <1>1, SameTaken
<1>3. ASSUME NEW u \in Taken(l)
      PROVE  /\ RefOf(n, u) \in 0 .. Len(n.sidedefs) - 1
             /\ RefsOf(n)[u] = RefOf(n, u)
  <2>1. RefsOf(n)[u] = RefOf(n, u)
    BY <1>2 DEF RefsOf
  <2>2. RefsOf(n)[u] \in 0 .. Len(n.sidedefs) - 1
    BY <1>1 DEF Numbers
  <2> QED
    BY <2>1, <2>2
<1>4. ASSUME NEW u \in Taken(l)
      PROVE  /\ n.sidedefs[RefOf(n, u) + 1] = Plain(Due(c, n, u))
             /\ Alike(Due(c, l, u), Due(c, n, u))
  <2>1. PICK v \in Taken(l) : /\ RefOf(n, v) = RefOf(n, u)
                              /\ n.sidedefs[RefOf(n, u) + 1] = Plain(Due(c, l, v))
    BY <1>3 DEF Makes
  <2>2. RefsOf(n)[u] = RefsOf(n)[v]
    BY <1>3, <2>1
  <2>3. Alike(Due(c, l, u), Due(c, l, v))
    BY <1>1, <2>2, SharersAlike
  <2>4. PICK s : s = Due(c, l, v)
    OBVIOUS
  <2>5. Due(c, l, u).trim
          = IF c.wipesides /\ OneSided(l, u) THEN Wiped ELSE Due(c, l, u).trim
    BY DEF Due
  <2>6. s.trim = IF c.wipesides /\ OneSided(l, u) THEN Wiped ELSE s.trim
    BY <2>3, <2>4, <2>5 DEF Alike
  <2>7. n.sidedefs[RefOf(n, u) + 1] = Plain(s)
    BY <2>1, <2>4
  <2>8. Due(c, n, u) = [middle |-> s.middle, spelling |-> s.spelling, trim |-> s.trim,
                        place |-> s.place, domain |-> GroupDomain(l, u[1])]
    BY <1>1, <2>6, <2>7, DueAgain
  <2>9. Plain(Due(c, n, u)) = Plain(s)
    BY <2>8 DEF Plain
  <2>10. Alike(Due(c, l, u), Due(c, n, u))
    <3>1. Due(c, l, u).domain = GroupDomain(l, u[1])
      BY DEF Due
    <3> QED
      BY <2>3, <2>4, <2>8, <3>1 DEF Alike
  <2> QED
    BY <2>7, <2>9, <2>10
<1>5. RefsInLevel(n)
  <2> SUFFICES ASSUME NEW u \in LineSides(n), RefOf(n, u) # NoIndex
               PROVE  RefOf(n, u) < Len(n.sidedefs)
    BY DEF RefsInLevel
  <2>1. u \in Taken(l) /\ Len(n.sidedefs) \in Nat
    BY <1>2 DEF Taken, Level
  <2> QED
    BY <1>3, <2>1
<1>6. Numbers(c, n, RefsOf(n), Len(n.sidedefs))
  <2>1. \A u, v \in Taken(n) : Sorts(c, n, u, v) <=> Sorts(c, l, u, v)
    BY <1>2, <1>4, SortsAlike
  <2> QED
    BY <1>1, <1>2, <2>1 DEF Numbers
<1> QED
  BY <1>1, <1>2, <1>4, <1>5, <1>6 DEF Settled

\* m has for each side of n what n has.
Spread(c, n, m) ==
  /\ SameSides(n, m) /\ RefsInLevel(m)
  /\ \A u \in Taken(n) : Due(c, m, u) = Due(c, n, u)

LEMMA SpreadItself ==
  ASSUME NEW c, NEW n, Settled(c, n) PROVE Spread(c, n, n)
BY DEF Settled, Spread, SameSides

\* Unpacking loses nothing of a packed level.
LEMMA UnpackedSpread ==
  ASSUME NEW c \in Command, NEW w \in Command, w.op = "unpack", w.wipesides = c.wipesides,
         NEW n \in Level, NEW m \in Level, Settled(c, n), Makes(w, n, m)
  PROVE  Spread(c, n, m)
<1>1. /\ SameSides(n, m) /\ Numbers(w, n, RefsOf(m), Len(m.sidedefs))
      /\ RefsInLevel(n)
  BY DEF Makes
<1>2. RefsInLevel(m)
  BY MakesSettled DEF Settled
<1>3. Taken(m) = Taken(n)
  BY <1>1, SameTaken
<1>4. ASSUME NEW u \in Taken(n) PROVE Due(c, m, u) = Due(c, n, u)
  <2>1. PICK v \in Taken(n) : /\ RefOf(m, v) = RefOf(m, u)
                              /\ m.sidedefs[RefOf(m, u) + 1] = Plain(Due(w, n, v))
    <3>1. RefOf(m, u) \in 0 .. Len(m.sidedefs) - 1
      BY <1>2, <1>3, TakenTyped
    <3> QED
      BY <3>1 DEF Makes
  <2>2. RefsOf(m)[u] = RefsOf(m)[v]
    BY <1>3, <2>1 DEF RefsOf
  <2>3. u = v
    BY <1>1, <2>2, SharersAlike
  <2>4. Due(w, n, u) = Due(c, n, u)
    BY DEF Due
  <2>5. PICK s : s = Due(c, n, u)
    OBVIOUS
  <2>6. /\ m.sidedefs[RefOf(m, u) + 1] = Plain(s)
        /\ s.trim = IF c.wipesides /\ OneSided(n, u) THEN Wiped ELSE s.trim
    BY <2>1, <2>3, <2>4, <2>5 DEF Due
  <2>7. Due(c, m, u) = [middle |-> s.middle, spelling |-> s.spelling, trim |-> s.trim,
                        place |-> s.place, domain |-> GroupDomain(n, u[1])]
    BY <1>1, <2>6, DueAgain
  <2>8. s = [middle |-> s.middle, spelling |-> s.spelling, trim |-> s.trim,
             place |-> s.place, domain |-> GroupDomain(n, u[1])]
    BY <2>5 DEF Due
  <2> QED
    BY <2>5, <2>7, <2>8
<1> QED
  BY <1>1, <1>2, <1>4 DEF Spread

\* There is only one numbering.
LEMMA NumbersOnce ==
  ASSUME NEW c, NEW l, NEW f, NEW n, NEW g, NEW m, Numbers(c, l, f, n), Numbers(c, l, g, m)
  PROVE  f = g /\ n = m
<1> DEFINE S == Taken(l)
<1>1. /\ n \in Nat /\ m \in Nat /\ f \in [S -> 0 .. n - 1] /\ g \in [S -> 0 .. m - 1]
      /\ \A r \in 0 .. n - 1 : \E u \in S : f[u] = r
      /\ \A r \in 0 .. m - 1 : \E u \in S : g[u] = r
  BY DEF Numbers
<1>2. \A u, v \in S : f[u] < f[v] <=> g[u] < g[v]
  BY DEF Numbers
<1> HIDE DEF S
<1> QED
  BY <1>1, <1>2, OneNumbering, SMTT(60)

LEMMA SpreadNumbers ==
  ASSUME NEW c, NEW n \in Level, NEW m \in Level, Spread(c, n, m), NEW f, NEW k
  PROVE  Numbers(c, m, f, k) <=> Numbers(c, n, f, k)
<1>1. Taken(m) = Taken(n)
  BY SameTaken DEF Spread
<1>2. \A u, v \in Taken(n) : Sorts(c, m, u, v) <=> Sorts(c, n, u, v)
  BY DEF Sorts, Spread
<1> QED
  BY <1>1, <1>2 DEF Numbers

LEMMA SameLevels ==
  ASSUME NEW m \in Level, NEW n \in Level, SameSides(m, n),
         \A u \in LineSides(m) : RefOf(n, u) = RefOf(m, u),
         n.sidedefs = m.sidedefs
  PROVE  n = m
<1>1. /\ m.linedefs \in Seq(Linedef(DiskRef)) /\ n.linedefs \in Seq(Linedef(DiskRef))
      /\ Len(n.linedefs) = Len(m.linedefs)
  BY DEF Level, SameSides
<1>2. ASSUME NEW i \in 1 .. Len(m.linedefs) PROVE n.linedefs[i] = m.linedefs[i]
  <2>1. <<i, 1>> \in LineSides(m) /\ <<i, 2>> \in LineSides(m)
    BY <1>1 DEF LineSides
  <2>2. PICK a \in Linedef(DiskRef), b \in Linedef(DiskRef) :
          a = n.linedefs[i] /\ b = m.linedefs[i]
    BY <1>1
  <2>3. a.type = b.type /\ a.tag = b.tag
    BY <2>2 DEF SameSides
  <2>4. RefOf(n, <<i, 1>>) = RefOf(m, <<i, 1>>) /\ RefOf(n, <<i, 2>>) = RefOf(m, <<i, 2>>)
    BY <2>1
  <2>5. a.sidedef1 = b.sidedef1 /\ a.sidedef2 = b.sidedef2
    BY <2>2, <2>4 DEF RefOf
  <2> QED
    BY <2>2, <2>3, <2>5, SameFields
<1>3. n.linedefs = m.linedefs
  BY <1>1, <1>2, SameElements
<1> QED
  BY <1>3 DEF Level, SameSides

\* What is made of a level that has been made is that level.
LEMMA SettledStays ==
  ASSUME NEW c \in Command, NEW n \in Level, NEW m \in Level, NEW k \in Level,
         Settled(c, n), Spread(c, n, m), Ran(c, m, k)
  PROVE  k = n
<1>1. /\ RefsInLevel(n) /\ RefsInLevel(m) /\ SameSides(n, m)
      /\ Numbers(c, n, RefsOf(n), Len(n.sidedefs)) /\ Len(n.sidedefs) <= LimitOf(c)
  BY DEF Settled, Spread
<1>2. ~NoneFits(c, m)
  <2> SUFFICES ASSUME NEW f, NEW h, Numbers(c, m, f, h), ~(h <= LimitOf(c)) PROVE FALSE
    BY DEF NoneFits
  <2>1. Numbers(c, n, f, h)
    BY SpreadNumbers
  <2>2. h = Len(n.sidedefs)
    BY <1>1, <2>1, NumbersOnce
  <2> QED
    BY <1>1, <2>2
<1>3. /\ Makes(c, m, k) /\ SameSides(m, k) /\ Numbers(c, m, RefsOf(k), Len(k.sidedefs))
  BY <1>1, <1>2 DEF Ran, Makes
<1>4. /\ LineSides(m) = LineSides(n) /\ Taken(m) = Taken(n)
      /\ LineSides(k) = LineSides(n) /\ Taken(k) = Taken(n)
  BY <1>1, <1>3, SameTaken
<1>5. RefsOf(k) = RefsOf(n) /\ Len(k.sidedefs) = Len(n.sidedefs)
  <2>1. Numbers(c, n, RefsOf(k), Len(k.sidedefs))
    BY <1>3, SpreadNumbers
  <2> QED
    BY <1>1, <2>1, NumbersOnce
<1>6. ASSUME NEW u \in Taken(n) PROVE RefOf(k, u) = RefOf(n, u)
  <2>1. RefsOf(k)[u] = RefOf(k, u) /\ RefsOf(n)[u] = RefOf(n, u)
    BY <1>4 DEF RefsOf
  <2> QED
    BY <1>5, <2>1
<1>7. SameSides(n, k)
  BY <1>1, <1>3, <1>4 DEF SameSides
<1>8. ASSUME NEW u \in LineSides(n) PROVE RefOf(k, u) = RefOf(n, u)
  <2>1. CASE u \in Taken(n)
    BY <1>6, <2>1
  <2>2. CASE RefOf(n, u) = NoIndex
    BY <1>7, <2>2 DEF SameSides
  <2> QED
    BY <2>1, <2>2 DEF Taken
<1>9. ASSUME NEW i \in 1 .. Len(n.sidedefs) PROVE k.sidedefs[i] = n.sidedefs[i]
  <2>1. PICK r \in 0 .. Len(n.sidedefs) - 1 : i = r + 1
    <3>1. Len(n.sidedefs) \in Nat
      BY DEF Level
    <3>2. i - 1 \in 0 .. Len(n.sidedefs) - 1 /\ i = (i - 1) + 1
      BY <3>1
    <3> QED
      BY <3>2
  <2>2. PICK v \in Taken(n) : RefOf(k, v) = r /\ k.sidedefs[r + 1] = Plain(Due(c, m, v))
    BY <1>3, <1>4, <1>5 DEF Makes
  <2>3. RefOf(n, v) = r
    BY <1>6, <2>2
  <2>4. n.sidedefs[r + 1] = Plain(Due(c, n, v))
    BY <2>3 DEF Settled
  <2>5. Due(c, m, v) = Due(c, n, v)
    BY DEF Spread
  <2> QED
    BY <2>1, <2>2, <2>4, <2>5
<1>10. k.sidedefs = n.sidedefs
  BY <1>5, <1>9, SameElements DEF Level
<1> QED
  BY <1>7, <1>8, <1>10, SameLevels

\* A level that is left alone is left alone again.
LEMMA AloneStays ==
  ASSUME NEW c, NEW l, NEW k, NoneFits(c, l), Ran(c, l, k) PROVE k = l
<1>1. PICK f, n : Numbers(c, l, f, n) /\ ~(n <= LimitOf(c))
  BY DEF NoneFits
<1>2. ASSUME Makes(c, l, k) PROVE FALSE
  BY <1>1, <1>2, NumbersOnce DEF Makes
<1> QED
  BY <1>2 DEF Ran

\* When packing does not fit, unpacking does not.
LEMMA UnpackedLonger ==
  ASSUME NEW c \in Command, NEW w \in Command, w.op = "unpack", w.extsides = c.extsides,
         NEW l \in Level, NEW m, NoneFits(c, l), Makes(w, l, m)
  PROVE  FALSE
<1>1. PICK f, n : Numbers(c, l, f, n) /\ ~(n <= LimitOf(c))
  BY DEF NoneFits
<1>2. PICK g, k : /\ g = RefsOf(m) /\ k = Len(m.sidedefs) /\ Numbers(w, l, g, k)
                  /\ k <= LimitOf(w) /\ RefsInLevel(l)
  BY DEF Makes
<1> DEFINE S == Taken(l)
<1>3. /\ n \in Nat /\ k \in Nat /\ f \in [S -> 0 .. n - 1] /\ g \in [S -> 0 .. k - 1]
      /\ \A r \in 0 .. n - 1 : \E u \in S : f[u] = r
      /\ \A r \in 0 .. k - 1 : \E u \in S : g[u] = r
  BY <1>1, <1>2 DEF Numbers
<1>4. \A u, v \in S : g[u] = g[v] => u = v
  BY <1>2, SharersAlike
<1>5. n <= k
  <2> HIDE DEF S
  <2> QED
    BY <1>3, <1>4, FewerNumbers
<1>6. LimitOf(w) = LimitOf(c) /\ LimitOf(c) \in Int
  BY NoIndexAssumption DEF LimitOf, MAX_EXT_SIDEDEFS, MAX_VANILLA_SIDEDEFS
<1> QED
  BY <1>1, <1>2, <1>3, <1>5, <1>6

LEMMA RunAgain ==
  ASSUME NEW c \in Command, NEW l \in Level, NEW n \in Level, NEW m \in Level,
         Ran(c, l, n), Ran(c, n, m)
  PROVE  m = n
<1>1. CASE Makes(c, l, n)
  BY <1>1, MakesSettled, SpreadItself, SettledStays
<1>2. CASE n = l /\ (RefsInLevel(l) => NoneFits(c, l))
  <2>1. CASE RefsInLevel(l)
    BY <1>2, <2>1, AloneStays
  <2>2. CASE ~RefsInLevel(l)
    BY <1>2, <2>2 DEF Ran, Makes
  <2> QED
    BY <2>1, <2>2
<1> QED
  BY <1>1, <1>2 DEF Ran

LEMMA ThereAndBack ==
  ASSUME NEW c \in Command, NEW w \in Command, w.op = "unpack",
         w.wipesides = c.wipesides, w.extsides = c.extsides,
         NEW l \in Level, NEW n \in Level, NEW m \in Level, NEW k \in Level,
         Ran(c, l, n), Ran(w, n, m), Ran(c, m, k)
  PROVE  k = n
<1>1. CASE m = n
  BY <1>1, RunAgain
<1>2. CASE Makes(w, n, m)
  <2>1. RefsInLevel(n)
    BY <1>2 DEF Makes
  <2>2. ASSUME n = l, NoneFits(c, l) PROVE FALSE
    BY <1>2, <2>2, UnpackedLonger
  <2>3. Makes(c, l, n)
    BY <2>1, <2>2 DEF Ran
  <2>4. Settled(c, n)
    BY <2>3, MakesSettled
  <2>5. Spread(c, n, m)
    BY <1>2, <2>4, UnpackedSpread
  <2> QED
    BY <2>4, <2>5, SettledStays
<1> QED
  BY <1>1, <1>2 DEF Ran

-----------------------------------------------------------------------------
(* And that it is what the steps of a run make of it *)

\* The order of the sidedefs, by what the sides are given.
GivenSorts(i, s, j, t) ==
  IF cmd.op = "unpack" THEN Before(<<i, s>>, <<j, t>>)
  ELSE \/ Sooner(Given(i, s), Given(j, t))
       \/ /\ Same(Given(i, s), Given(j, t)) /\ Before(<<i, s>>, <<j, t>>)
          /\ Given(i, s).domain = MERGE_DOMAIN_SPECIAL

\* The first n lines have their sidedefs one after the other.
Exact(n) ==
  \A i \in 1 .. n, s \in Side : SideRef(lines[i], s) # NO_SIDEDEF =>
    sides[SideRef(lines[i], s) + 1] = Given(i, s)
OneByOne(n) ==
  \A i, j \in 1 .. n, s, t \in Side :
    SideRef(lines[i], s) # NO_SIDEDEF /\ SideRef(lines[j], t) # NO_SIDEDEF =>
      (SideRef(lines[i], s) < SideRef(lines[j], t) <=> Before(<<i, s>>, <<j, t>>))

\* The first n in the map have ascending numbers, each taken from one of them.
InTurn(n) ==
  /\ \A r \in 0 .. Len(packed) - 1 :
       \E k \in 1 .. n : newindex[map[k]] = r /\ packed[r + 1] = Mapped(k)
  /\ \A j, k \in 1 .. n : j < k => newindex[map[j]] <= newindex[map[k]]

\* A result that is kept is in order.
MadeSo ==
  /\ \A i, j \in DOMAIN lines, s, t \in Side :
       SideRef(lines[i], s) # NO_SIDEDEF /\ SideRef(lines[j], t) # NO_SIDEDEF =>
         (SideRef(lines[i], s) < SideRef(lines[j], t) <=> GivenSorts(i, s, j, t))
  /\ \A r \in 0 .. Len(sides) - 1 :
       \E i \in DOMAIN lines, s \in Side :
         SideRef(lines[i], s) = r /\ sides[r + 1] = Given(i, s)

LeftAlone == /\ lines = orig.linedefs /\ sides = orig.sidedefs
             /\ RefsInLevel(was) => NoneFits(cmd, was)

HaveRun == \A i \in DOMAIN past : Ran(past[i], trail[i], trail[i + 1])

RunInv ==
  /\ pc = "rebuild" => Exact(at - 1) /\ OneByOne(at - 1)
  /\ pc = "merge" => Exact(Len(lines)) /\ OneByOne(Len(lines)) /\ InTurn(at - 1)
  /\ pc \in {"linedefs", "sidedefs"} => (Made /\ MadeSo) \/ LeftAlone
  /\ HaveRun

AllStand == SameLines /\ \A i \in DOMAIN lines, s \in Side : Stands(i, s)

LEMMA SameSidedef ==
  ASSUME NEW a \in MemSidedef, NEW b \in MemSidedef, a.middle = b.middle,
         a.spelling = b.spelling, a.trim = b.trim, a.place = b.place,
         a.domain = b.domain
  PROVE  a = b
BY DEF MemSidedef

\* The sides of the level that have a sidedef, and what they are given.
LEMMA TakenIs ==
  ASSUME TypeOK, OnDisk, pc \notin {"idle", "errorexit"}, AllStand
  PROVE  /\ RefsInLevel(was) /\ DOMAIN was.linedefs = DOMAIN lines
         /\ DOMAIN orig.linedefs = DOMAIN lines
         /\ \A u \in Taken(was) : \E i \in DOMAIN lines, s \in Side :
              u = <<i, s>> /\ SideRef(lines[i], s) # NO_SIDEDEF
         /\ \A i \in DOMAIN lines, s \in Side :
              /\ SideRef(lines[i], s) # NO_SIDEDEF <=> <<i, s>> \in Taken(was)
              /\ SideRef(lines[i], s) # NO_SIDEDEF => Due(cmd, was, <<i, s>>) = Given(i, s)
<1>1. /\ was \in Level /\ orig.linedefs = ReadLinedefs(was)
      /\ orig.sidedefs = ReadSidedefs(was) /\ orig.hexen = was.hexen
  BY WasTyped DEF OnDisk
<1>2. /\ DOMAIN was.linedefs = DOMAIN lines /\ DOMAIN orig.linedefs = DOMAIN lines
      /\ orig.sidedefs \in Seq(MemSidedef) /\ was.sidedefs \in Seq(Sidedef)
      /\ orig.linedefs \in Seq(Linedef(MemRef))
  <2>1. was.linedefs \in Seq(Linedef(DiskRef)) /\ Len(orig.linedefs) = Len(was.linedefs)
        /\ was.sidedefs \in Seq(Sidedef)
    BY <1>1, ReadTyped DEF Level
  <2>2. /\ lines \in Seq(Linedef(MemRef)) /\ orig.linedefs \in Seq(Linedef(MemRef))
        /\ orig.sidedefs \in Seq(MemSidedef)
    BY DEF TypeOK
  <2>3. Len(lines) = Len(orig.linedefs)
    BY DEF AllStand, SameLines
  <2> QED
    BY <2>1, <2>2, <2>3
<1>3. LineSides(was) = (DOMAIN lines) \X Side
  BY <1>2, SidesOfLines
<1>4. ASSUME NEW i \in DOMAIN lines, NEW s \in Side
      PROVE  LET r == SideRef(orig.linedefs[i], s) IN
             /\ <<i, s>> \in LineSides(was)
             /\ SideRef(lines[i], s) = NO_SIDEDEF <=> r = NO_SIDEDEF
             /\ RefOf(was, <<i, s>>) = IF r = NO_SIDEDEF THEN NoIndex ELSE r
             /\ r # NO_SIDEDEF => r \in 0 .. Len(orig.sidedefs) - 1 /\ r # NoIndex
             /\ Len(orig.sidedefs) = Len(was.sidedefs)
             /\ orig.linedefs[i].type = was.linedefs[i].type
             /\ orig.linedefs[i].tag = was.linedefs[i].tag
  <2>1. i \in DOMAIN orig.linedefs /\ <<i, s>> \in LineSides(was)
    BY <1>2, <1>3
  <2>2. PICK r : r = SideRef(orig.linedefs[i], s)
    OBVIOUS
  <2>3. /\ RefOf(was, <<i, s>>) = IF r = NO_SIDEDEF THEN NoIndex ELSE r
        /\ orig.linedefs[i].type = was.linedefs[i].type
        /\ orig.linedefs[i].tag = was.linedefs[i].tag
        /\ Len(orig.sidedefs) = Len(was.sidedefs)
        /\ r # NO_SIDEDEF => r # NoIndex
    BY <2>1, <2>2, SideAsRead
  <2>4. Stands(i, s)
    BY DEF AllStand
  <2>5. /\ SideRef(lines[i], s) = NO_SIDEDEF <=> r = NO_SIDEDEF
        /\ r # NO_SIDEDEF => r \in 0 .. Len(orig.sidedefs) - 1
    BY <2>2, <2>4 DEF Stands, NO_SIDEDEF
  <2> QED
    BY <2>1, <2>2, <2>3, <2>5
<1>5. ASSUME NEW i \in DOMAIN lines, NEW s \in Side
      PROVE  SideRef(lines[i], s) # NO_SIDEDEF <=> <<i, s>> \in Taken(was)
  BY <1>4 DEF Taken
<1>6. RefsInLevel(was)
  <2> SUFFICES ASSUME NEW u \in LineSides(was), RefOf(was, u) # NoIndex
               PROVE  RefOf(was, u) < Len(was.sidedefs)
    BY DEF RefsInLevel
  <2>1. PICK i \in DOMAIN lines, s \in Side : u = <<i, s>>
    BY <1>3, Pairs
  <2>2. Len(was.sidedefs) \in Nat
    BY <1>2
  <2>3. RefOf(was, <<i, s>>) \in 0 .. Len(was.sidedefs) - 1
    BY <1>4, <2>1
  <2> QED
    BY <2>1, <2>2, <2>3
<1>7. ASSUME NEW u \in Taken(was)
      PROVE  \E i \in DOMAIN lines, s \in Side :
               u = <<i, s>> /\ SideRef(lines[i], s) # NO_SIDEDEF
  <2>1. PICK i \in DOMAIN lines, s \in Side : u = <<i, s>>
    BY <1>3, Pairs DEF Taken
  <2> QED
    BY <1>5, <2>1
<1>8. ASSUME NEW i \in DOMAIN lines, NEW s \in Side, SideRef(lines[i], s) # NO_SIDEDEF
      PROVE  Due(cmd, was, <<i, s>>) = Given(i, s)
  <2> DEFINE ld == orig.linedefs[i]
             u == <<i, s>>
  <2>1. PICK r : r = SideRef(ld, s)
    OBVIOUS
  <2>2. /\ r \in 0 .. Len(orig.sidedefs) - 1 /\ RefOf(was, u) = r /\ u \in Taken(was)
        /\ Len(orig.sidedefs) = Len(was.sidedefs)
        /\ ld.type = was.linedefs[i].type /\ ld.tag = was.linedefs[i].tag
    BY <1>4, <1>5, <1>8, <2>1
  <2>3. ld \in Linedef(MemRef)
    BY <1>2
  <2>4. PICK wipe \in BOOLEAN : wipe <=> s = 1 /\ Wipes(ld)
    BY DEF Wipes
  <2>5. Given(i, s) = CopyOf(ld, r, wipe)
    BY <2>1, <2>4 DEF Given, CopyOf
  <2>6. PICK g \in MemSidedef : g = Given(i, s)
    BY <1>2, <2>2, <2>3, <2>5, CopyTyped
  <2>7. PICK d \in MemSidedef : d = Due(cmd, was, u)
    BY <1>1, <1>6, <2>2, TakenTyped
  <2>8. PICK o \in MemSidedef : o = orig.sidedefs[r + 1]
    BY <1>2, <2>2
  <2>9. PICK w \in Sidedef : w = was.sidedefs[r + 1]
    BY <1>2, <2>2
  <2>10. /\ o.middle = w.middle /\ o.spelling = w.spelling /\ o.trim = w.trim
         /\ o.place = w.place
    <3>1. r + 1 \in DOMAIN was.sidedefs
      BY <1>2, <2>2
    <3> QED
      BY <1>1, <2>8, <2>9, <3>1 DEF ReadSidedefs
  <2>11. /\ g.middle = o.middle /\ g.place = o.place
         /\ g.trim = IF wipe THEN Wiped ELSE o.trim
         /\ g.domain = LinedefMergeDomain(ld)
    BY <1>2, <2>2, <2>3, <2>5, <2>6, <2>8, CopyTyped
  <2>12. g.spelling = o.spelling
    BY <2>5, <2>6, <2>8 DEF CopyOf, MemSidedef
  <2>13. /\ d.middle = w.middle /\ d.spelling = w.spelling /\ d.place = w.place
         /\ d.trim = IF cmd.wipesides /\ OneSided(was, u) THEN Wiped ELSE w.trim
         /\ d.domain = GroupDomain(was, i)
    BY <2>2, <2>7, <2>9 DEF Due
  <2>14. GroupDomain(was, i) = LinedefMergeDomain(ld)
    BY <1>1, <2>2 DEF GroupDomain, LinedefMergeDomain, InMergeRange, TagDomain, UntaggedDomain
  <2>15. wipe <=> cmd.wipesides /\ OneSided(was, u)
    <3>1. /\ RefOf(was, <<i, 2>>) = IF SideRef(ld, 2) = NO_SIDEDEF THEN NoIndex
                                    ELSE SideRef(ld, 2)
          /\ SideRef(ld, 2) # NO_SIDEDEF => SideRef(ld, 2) # NoIndex
      BY <1>4 DEF Side
    <3> QED
      BY <2>4, <3>1 DEF Wipes, OneSided, SideRef
  <2> QED
    BY <2>6, <2>7, <2>10, <2>11, <2>12, <2>13, <2>14, <2>15, SameSidedef
<1> QED
  BY <1>2, <1>5, <1>6, <1>7, <1>8

\* Numbers for the sides in memory are numbers for the level.
LEMMA NumbersHere ==
  ASSUME TypeOK, OnDisk, pc \notin {"idle", "errorexit"}, AllStand,
         NEW n \in Nat, NEW f,
         f \in [Taken(was) -> 0 .. n - 1],
         \A r \in 0 .. n - 1 : \E i \in DOMAIN lines, s \in Side :
           SideRef(lines[i], s) # NO_SIDEDEF /\ f[<<i, s>>] = r,
         \A i, j \in DOMAIN lines, s, t \in Side :
           SideRef(lines[i], s) # NO_SIDEDEF /\ SideRef(lines[j], t) # NO_SIDEDEF =>
             (f[<<i, s>>] < f[<<j, t>>] <=> GivenSorts(i, s, j, t))
  PROVE  Numbers(cmd, was, f, n)
<1>1. ASSUME NEW r \in 0 .. n - 1 PROVE \E u \in Taken(was) : f[u] = r
  <2>1. PICK i \in DOMAIN lines, s \in Side :
          SideRef(lines[i], s) # NO_SIDEDEF /\ f[<<i, s>>] = r
    OBVIOUS
  <2>2. <<i, s>> \in Taken(was)
    BY <2>1, TakenIs
  <2> QED
    BY <2>1, <2>2
<1>2. ASSUME NEW u \in Taken(was), NEW v \in Taken(was)
      PROVE  f[u] < f[v] <=> Sorts(cmd, was, u, v)
  <2>1. PICK i \in DOMAIN lines, s \in Side :
          u = <<i, s>> /\ SideRef(lines[i], s) # NO_SIDEDEF
    BY TakenIs
  <2>2. PICK j \in DOMAIN lines, t \in Side :
          v = <<j, t>> /\ SideRef(lines[j], t) # NO_SIDEDEF
    BY TakenIs
  <2>3. Due(cmd, was, u) = Given(i, s) /\ Due(cmd, was, v) = Given(j, t)
    BY <2>1, <2>2, TakenIs
  <2>4. Sorts(cmd, was, u, v) <=> GivenSorts(i, s, j, t)
    BY <2>1, <2>2, <2>3 DEF Sorts, GivenSorts
  <2> QED
    BY <2>1, <2>2, <2>4
<1> QED
  BY <1>1, <1>2 DEF Numbers

\* A result that is kept is what the command makes of the level.
LEMMA MadeRan ==
  ASSUME TypeOK, OnDisk, pc \notin {"idle", "errorexit"}, Made, MadeSo
  PROVE  Makes(cmd, was, Written)
<1>1. AllStand /\ DOMAIN lines = 1 .. Len(lines) /\ Len(sides) \in Nat
  BY DEF AllStand, Made, TypeOK
<1>2. /\ was \in Level /\ Written \in Level /\ Written.hexen = was.hexen
      /\ Written.sidedefs = DiskSidedefs(sides) /\ Written.whole = was.whole
  <2>1. was \in Level
    BY WasTyped
  <2> QED
    BY <2>1, WrittenTyped DEF Written, Level
<1>3. /\ DOMAIN Written.linedefs = DOMAIN lines /\ DOMAIN was.linedefs = DOMAIN lines
      /\ LineSides(was) = (DOMAIN lines) \X Side /\ Len(Written.sidedefs) = Len(sides)
      /\ DOMAIN orig.linedefs = DOMAIN lines
  BY WrittenLines
<1>4. ASSUME NEW i \in DOMAIN lines, NEW s \in Side
      PROVE  /\ RefOf(Written, <<i, s>>) = IF SideRef(lines[i], s) = NO_SIDEDEF
                                           THEN NoIndex ELSE SideRef(lines[i], s)
             /\ SideRef(lines[i], s) # NO_SIDEDEF => /\ SideRef(lines[i], s) # NoIndex
                                    /\ SideRef(lines[i], s) \in 0 .. Len(sides) - 1
             /\ SideRef(lines[i], s) # NO_SIDEDEF <=> <<i, s>> \in Taken(was)
             /\ Written.linedefs[i].type = was.linedefs[i].type
             /\ Written.linedefs[i].tag = was.linedefs[i].tag
  <2>1. /\ RefOf(Written, <<i, s>>) = IF SideRef(lines[i], s) = NO_SIDEDEF
                                      THEN NoIndex ELSE SideRef(lines[i], s)
        /\ SideRef(lines[i], s) # NO_SIDEDEF => /\ SideRef(lines[i], s) # NoIndex
                                    /\ SideRef(lines[i], s) \in 0 .. Len(sides) - 1
        /\ Written.linedefs[i].type = orig.linedefs[i].type
        /\ Written.linedefs[i].tag = orig.linedefs[i].tag
    BY SideAsWritten
  <2>2. /\ orig.linedefs[i].type = was.linedefs[i].type
        /\ orig.linedefs[i].tag = was.linedefs[i].tag
    BY <1>3, SideAsRead
  <2>3. SideRef(lines[i], s) # NO_SIDEDEF <=> <<i, s>> \in Taken(was)
    BY <1>1, TakenIs
  <2> QED
    BY <2>1, <2>2, <2>3
<1>5. SameSides(was, Written)
  <2>1. Len(was.linedefs) = Len(lines) /\ Len(Written.linedefs) = Len(lines)
    BY <1>1, <1>2, <1>3 DEF Level
  <2>2. \A i \in 1 .. Len(was.linedefs) :
          /\ Written.linedefs[i].type = was.linedefs[i].type
          /\ Written.linedefs[i].tag = was.linedefs[i].tag
    BY <1>1, <1>4, <2>1 DEF Side
  <2>3. ASSUME NEW u \in LineSides(was)
        PROVE  RefOf(Written, u) = NoIndex <=> RefOf(was, u) = NoIndex
    <3>1. PICK i \in DOMAIN lines, s \in Side : u = <<i, s>>
      BY <1>3, Pairs
    <3>2. u \in Taken(was) <=> RefOf(was, u) # NoIndex
      BY DEF Taken
    <3> QED
      BY <1>4, <3>1, <3>2
  <2> QED
    BY <1>2, <2>1, <2>2, <2>3 DEF SameSides
<1>6. Taken(Written) = Taken(was)
  BY <1>2, <1>5, SameTaken
<1>7. PICK f : f = RefsOf(Written)
  OBVIOUS
<1>8. ASSUME NEW i \in DOMAIN lines, NEW s \in Side, SideRef(lines[i], s) # NO_SIDEDEF
      PROVE  f[<<i, s>>] = SideRef(lines[i], s)
  BY <1>4, <1>6, <1>7, <1>8 DEF RefsOf
<1>9. f \in [Taken(was) -> 0 .. Len(sides) - 1]
  <2>1. ASSUME NEW u \in Taken(was) PROVE f[u] \in 0 .. Len(sides) - 1
    <3>1. PICK i \in DOMAIN lines, s \in Side :
            u = <<i, s>> /\ SideRef(lines[i], s) # NO_SIDEDEF
      BY <1>1, TakenIs
    <3> QED
      BY <1>4, <1>8, <3>1
  <2>2. f = [u \in Taken(was) |-> RefOf(Written, u)]
    BY <1>6, <1>7 DEF RefsOf
  <2> QED
    BY <2>1, <2>2
<1>10. ASSUME NEW r \in 0 .. Len(sides) - 1
       PROVE  \E i \in DOMAIN lines, s \in Side :
                /\ SideRef(lines[i], s) # NO_SIDEDEF /\ SideRef(lines[i], s) = r
                /\ f[<<i, s>>] = r /\ sides[r + 1] = Given(i, s)
  <2>1. PICK i \in DOMAIN lines, s \in Side :
          SideRef(lines[i], s) = r /\ sides[r + 1] = Given(i, s)
    BY DEF MadeSo
  <2>2. r # NO_SIDEDEF
    BY DEF NO_SIDEDEF
  <2> QED
    BY <1>8, <2>1, <2>2
<1>11. \A i, j \in DOMAIN lines, s, t \in Side :
         SideRef(lines[i], s) # NO_SIDEDEF /\ SideRef(lines[j], t) # NO_SIDEDEF =>
           (f[<<i, s>>] < f[<<j, t>>] <=> GivenSorts(i, s, j, t))
  BY <1>8 DEF MadeSo
<1>12. Numbers(cmd, was, f, Len(sides))
  BY <1>1, <1>9, <1>10, <1>11, NumbersHere
<1>13. ASSUME NEW r \in 0 .. Len(sides) - 1
       PROVE  \E v \in Taken(was) : /\ RefOf(Written, v) = r
                                    /\ Written.sidedefs[r + 1] = Plain(Due(cmd, was, v))
  <2>1. PICK i \in DOMAIN lines, s \in Side :
          /\ SideRef(lines[i], s) # NO_SIDEDEF /\ SideRef(lines[i], s) = r
          /\ sides[r + 1] = Given(i, s)
    BY <1>10
  <2>2. /\ <<i, s>> \in Taken(was) /\ RefOf(Written, <<i, s>>) = r
        /\ Due(cmd, was, <<i, s>>) = Given(i, s)
    BY <1>1, <1>4, <2>1, TakenIs
  <2>3. Written.sidedefs[r + 1] = Plain(sides[r + 1])
    <3>1. r + 1 \in DOMAIN sides
      BY DEF TypeOK
    <3> QED
      BY <1>2, <3>1 DEF DiskSidedefs, Plain
  <2> QED
    BY <2>1, <2>2, <2>3
<1>14. Len(sides) <= LimitOf(cmd)
  BY DEF Made, LimitOf, SidedefsLimit
<1> QED
  BY <1>1, <1>3, <1>5, <1>7, <1>12, <1>13, <1>14, TakenIs DEF Makes

LEMMA EndingRan ==
  ASSUME TypeOK, OnDisk, pc \in {"linedefs", "sidedefs"}, RunInv
  PROVE  Ran(cmd, was, Written)
<1>1. CASE Made /\ MadeSo
  BY <1>1, MadeRan DEF Ran
<1>2. CASE LeftAlone
  BY <1>2, WrittenBack DEF Ran, LeftAlone
<1> QED
  BY <1>1, <1>2 DEF RunInv

LEMMA GivenStays ==
  ASSUME UNCHANGED <<orig, cmd>>
  PROVE  /\ \A i, s : Given(i, s)' = Given(i, s)
         /\ \A i, s, j, t : GivenSorts(i, s, j, t)' <=> GivenSorts(i, s, j, t)
<1>1. \A i, s : Given(i, s)' = Given(i, s)
  BY DEF Given, CopyOf, Wipes, SideRef, LinedefMergeDomain
<1>2. ASSUME NEW i, NEW s, NEW j, NEW t
      PROVE  GivenSorts(i, s, j, t)' <=> GivenSorts(i, s, j, t)
  <2>1. Given(i, s)' = Given(i, s) /\ Given(j, t)' = Given(j, t) /\ cmd' = cmd
    BY <1>1
  <2> QED
    BY <2>1 DEF GivenSorts, Before, Sooner, Same
<1> QED
  BY <1>1, <1>2

LEMMA RebuiltExactly ==
  ASSUME UNCHANGED <<orig, cmd, lines, sides>>, NEW n, Exact(n), OneByOne(n)
  PROVE  Exact(n)' /\ OneByOne(n)'
BY GivenStays DEF Exact, OneByOne, SideRef, Before

LEMMA MadeSoStays ==
  ASSUME UNCHANGED <<orig, cmd, lines, sides>>, MadeSo PROVE MadeSo'
<1>1. \A i, s : Given(i, s)' = Given(i, s)
  BY GivenStays
<1>2. \A i, s, j, t : GivenSorts(i, s, j, t)' <=> GivenSorts(i, s, j, t)
  BY GivenStays
<1> QED
  BY <1>1, <1>2 DEF MadeSo, SideRef

\* One more line is rebuilt.
LEMMA ExactlyOneMore ==
  ASSUME TypeOK, NEW k \in DOMAIN lines, Rebuilt(k - 1), Exact(k - 1), OneByOne(k - 1),
         RefsValid(lines[k], Len(orig.sidedefs)),
         sides' = sides \o Copies(lines[k]),
         lines' = [lines EXCEPT ![k] = Redirected(lines[k], Len(sides))],
         UNCHANGED <<orig, cmd>>
  PROVE  Exact(k)' /\ OneByOne(k)'
<1> DEFINE ld == lines[k]
           n == Len(sides)
           new == Redirected(ld, n)
           cs == Copies(ld)
<1>1. /\ lines \in Seq(Linedef(MemRef)) /\ sides \in Seq(MemSidedef)
      /\ orig.sidedefs \in Seq(MemSidedef) /\ n \in Nat /\ k \in Nat
      /\ k \in 1 .. Len(lines) /\ ld \in Linedef(MemRef)
  BY SMTT(60) DEF TypeOK
<1>2. ld = orig.linedefs[k]
  BY <1>1 DEF Rebuilt
<1>3. cs \in Seq(MemSidedef) /\ Len(cs) \in Nat
  BY <1>1, CopiesTyped
<1>4. ASSUME NEW s \in Side, SideRef(new, s) # NO_SIDEDEF
      PROVE  /\ SideRef(new, s) \in n .. n + Len(cs) - 1
             /\ cs[SideRef(new, s) - n + 1] = Given(k, s)
  <2>1. SideRef(ld, s) # NO_SIDEDEF
    BY <1>1, <1>4, CopiesTyped, ZenonT(60)
  <2>2. /\ SideRef(new, s) \in n .. n + Len(cs) - 1
        /\ cs[SideRef(new, s) - n + 1] = CopyOf(ld, SideRef(ld, s), s = 1 /\ Wipes(ld))
    BY <1>1, <2>1, CopiesTyped
  <2> QED
    BY <1>2, <2>2 DEF Given
<1>5. SideRef(new, 1) # NO_SIDEDEF /\ SideRef(new, 2) # NO_SIDEDEF
        => SideRef(new, 1) = n /\ SideRef(new, 2) = n + 1
  BY <1>1, RedirectedTyped
<1> HIDE DEF new, cs
<1>6. /\ \A r \in 0 .. n - 1 : sides'[r + 1] = sides[r + 1]
      /\ \A r \in n .. n + Len(cs) - 1 : sides'[r + 1] = cs[r - n + 1]
  <2>1. sides' = sides \o cs
    BY DEF cs
  <2>2. /\ \A i \in 1 .. n : sides'[i] = sides[i]
        /\ \A i \in n + 1 .. n + Len(cs) : sides'[i] = cs[i - n]
    BY <1>1, <1>3, <2>1, Joined
  <2> HIDE DEF n
  <2>3. ASSUME NEW r \in n .. n + Len(cs) - 1
        PROVE  sides'[r + 1] = cs[r - n + 1]
    <3>1. r + 1 \in n + 1 .. n + Len(cs) /\ (r + 1) - n = r - n + 1
      BY <1>1, <1>3, SMTT(60)
    <3> QED
      BY <2>2, <3>1
  <2>4. ASSUME NEW r \in 0 .. n - 1
        PROVE  sides'[r + 1] = sides[r + 1]
    <3>1. r + 1 \in 1 .. n
      BY <1>1
    <3> QED
      BY <2>2, <3>1
  <2> QED
    BY <2>3, <2>4
<1>7. lines'[k] = new /\ \A i \in 1 .. k - 1 : lines'[i] = lines[i]
  BY <1>1 DEF new
<1> HIDE DEF ld, n
<1>8. ASSUME NEW i \in 1 .. k - 1, NEW s \in Side, SideRef(lines'[i], s) # NO_SIDEDEF
      PROVE  /\ SideRef(lines'[i], s) = SideRef(lines[i], s)
             /\ SideRef(lines'[i], s) \in 0 .. n - 1
             /\ sides'[SideRef(lines'[i], s) + 1] = Given(i, s)
  <2>1. SideRef(lines'[i], s) = SideRef(lines[i], s)
    BY <1>7
  <2>2. Stands(i, s)
    BY DEF Rebuilt
  <2>3. SideRef(lines[i], s) \in 0 .. n - 1
    BY <1>8, <2>1, <2>2 DEF Stands, n
  <2>4. sides[SideRef(lines[i], s) + 1] = Given(i, s)
    BY <1>8, <2>1 DEF Exact
  <2> QED
    BY <1>6, <2>1, <2>3, <2>4
<1>9. ASSUME NEW s \in Side, SideRef(lines'[k], s) # NO_SIDEDEF
      PROVE  /\ SideRef(lines'[k], s) \in n .. n + Len(cs) - 1
             /\ sides'[SideRef(lines'[k], s) + 1] = Given(k, s)
  <2>1. SideRef(lines'[k], s) = SideRef(new, s)
    BY <1>7
  <2> QED
    BY <1>4, <1>6, <1>9, <2>1
<1>10. \A i \in 1 .. k : i \in 1 .. k - 1 \/ i = k
  BY <1>1
<1>11. Exact(k)'
  <2> SUFFICES ASSUME NEW i \in 1 .. k, NEW s \in Side, SideRef(lines'[i], s) # NO_SIDEDEF
               PROVE  sides'[SideRef(lines'[i], s) + 1] = Given(i, s)'
    BY DEF Exact, SideRef
  <2>1. Given(i, s)' = Given(i, s)
    BY GivenStays
  <2> QED
    BY <1>8, <1>9, <1>10, <2>1
<1>12. ASSUME NEW i \in 1 .. k, NEW j \in 1 .. k, NEW s \in Side, NEW t \in Side,
              SideRef(lines'[i], s) # NO_SIDEDEF, SideRef(lines'[j], t) # NO_SIDEDEF
       PROVE  SideRef(lines'[i], s) < SideRef(lines'[j], t) <=> Before(<<i, s>>, <<j, t>>)
  <2>1. CASE i \in 1 .. k - 1 /\ j \in 1 .. k - 1
    <3>1. /\ SideRef(lines'[i], s) = SideRef(lines[i], s)
          /\ SideRef(lines'[j], t) = SideRef(lines[j], t)
      BY <1>8, <1>12, <2>1
    <3> QED
      BY <1>12, <2>1, <3>1 DEF OneByOne
  <2>2. CASE i \in 1 .. k - 1 /\ j = k
    <3>1. SideRef(lines'[i], s) \in 0 .. n - 1 /\ SideRef(lines'[j], t) \in n .. n + Len(cs) - 1
      BY <1>8, <1>9, <1>12, <2>2
    <3>2. SideRef(lines'[i], s) < SideRef(lines'[j], t) /\ i < j
      BY <1>1, <1>3, <2>2, <3>1, SMTT(60)
    <3> QED
      BY <3>2 DEF Before
  <2>3. CASE i = k /\ j \in 1 .. k - 1
    <3>1. SideRef(lines'[j], t) \in 0 .. n - 1 /\ SideRef(lines'[i], s) \in n .. n + Len(cs) - 1
      BY <1>8, <1>9, <1>12, <2>3
    <3>2. ~(SideRef(lines'[i], s) < SideRef(lines'[j], t)) /\ ~(i < j) /\ i # j
      BY <1>1, <1>3, <2>3, <3>1, SMTT(60)
    <3> QED
      BY <3>2 DEF Before
  <2>4. CASE i = k /\ j = k
    <3>1. CASE s = t
      <4>1. SideRef(lines'[i], s) \in n .. n + Len(cs) - 1
        BY <1>9, <1>12, <2>4
      <4>2. ~(SideRef(lines'[i], s) < SideRef(lines'[j], t))
        BY <1>1, <1>3, <2>4, <3>1, <4>1
      <4>3. ~(i < j) /\ ~(s < t)
        BY <1>1, <2>4, <3>1 DEF Side
      <4> QED
        BY <4>2, <4>3 DEF Before
    <3>2. CASE s = 1 /\ t = 2
      BY <1>1, <1>5, <1>7, <1>12, <2>4, <3>2 DEF Before
    <3>3. CASE s = 2 /\ t = 1
      BY <1>1, <1>5, <1>7, <1>12, <2>4, <3>3 DEF Before
    <3> QED
      BY <3>1, <3>2, <3>3 DEF Side
  <2> QED
    BY <1>10, <2>1, <2>2, <2>3, <2>4
<1>13. OneByOne(k)'
  BY <1>12 DEF OneByOne, SideRef, Before
<1> QED
  BY <1>11, <1>13

\* One more sidedef is merged or appended.
LEMMA InTurnOneMore ==
  ASSUME TypeOK, MapSorted, NEW k \in 1 .. Len(map), Numbered(k - 1), InTurn(k - 1),
         UNCHANGED <<sides, map>>,
         \/ /\ MergesAt(k) /\ UNCHANGED packed
            /\ newindex' = [newindex EXCEPT ![map[k]] = newindex[map[k - 1]]]
         \/ /\ ~MergesAt(k)
            /\ newindex' = [newindex EXCEPT ![map[k]] = Len(packed)]
            /\ packed' = Append(packed, Mapped(k))
  PROVE  InTurn(k)'
<1>1. /\ \A i \in 1 .. Len(map) : map[i] \in 0 .. Len(sides) - 1
      /\ Len(map) \in Nat /\ Len(packed) \in Nat /\ k \in Nat
      /\ packed \in Seq(MemSidedef) /\ DOMAIN newindex = 0 .. Len(sides) - 1
      /\ newindex \in [0 .. Len(sides) - 1 -> MemRef]
  <2>1. packed \in Seq(MemSidedef) /\ newindex \in [0 .. Len(sides) - 1 -> MemRef]
    BY DEF TypeOK, Numbered
  <2> QED
    BY <2>1, MappedTyped
<1>2. \A i \in 1 .. Len(map) : i # k => map[i] # map[k]
  BY DEF MapSorted
<1>3. PICK v : /\ v = IF MergesAt(k) THEN newindex[map[k - 1]] ELSE Len(packed)
               /\ newindex' = [newindex EXCEPT ![map[k]] = v]
  OBVIOUS
<1>4. /\ \A i \in 1 .. k - 1 : newindex'[map[i]] = newindex[map[i]]
      /\ newindex'[map[k]] = v
  <2>1. \A i \in 1 .. k - 1 : i \in 1 .. Len(map) /\ i # k
    BY <1>1
  <2> QED
    BY <1>1, <1>2, <1>3, <2>1
<1>5. \A i \in 1 .. k - 1 : newindex[map[i]] \in 0 .. Len(packed) - 1
  BY DEF Numbered
<1>6. \A i : Mapped(i)' = Mapped(i)
  BY DEF Mapped
<1>7. MergesAt(k) => k - 1 > 0 /\ newindex[map[k - 1]] = Len(packed) - 1
  <2> SUFFICES ASSUME MergesAt(k)
               PROVE  k - 1 > 0 /\ newindex[map[k - 1]] = Len(packed) - 1
    OBVIOUS
  <2>1. k - 1 > 0
    BY <1>1 DEF MergesAt
  <2> QED
    BY <2>1 DEF Numbered
<1>8. ASSUME NEW i \in 1 .. k - 1 PROVE newindex'[map[i]] <= newindex'[map[k]]
  <2>1. newindex'[map[i]] \in 0 .. Len(packed) - 1
    BY <1>4, <1>5
  <2>2. newindex'[map[k]] = Len(packed) - 1 \/ newindex'[map[k]] = Len(packed)
    BY <1>3, <1>4, <1>7
  <2> QED
    BY <1>1, <2>1, <2>2, SMTT(60)
<1>9. ASSUME NEW i \in 1 .. k, NEW j \in 1 .. k, i < j
      PROVE  newindex'[map[i]] <= newindex'[map[j]]
  <2>1. i \in 1 .. k - 1
    BY <1>1, <1>9
  <2>2. CASE j = k
    BY <1>8, <2>1, <2>2
  <2>3. CASE j # k
    <3>1. j \in 1 .. k - 1
      BY <1>1, <2>3
    <3> QED
      BY <1>4, <1>9, <2>1, <3>1 DEF InTurn
  <2> QED
    BY <2>2, <2>3
<1>10. ASSUME NEW r \in 0 .. Len(packed) - 1
       PROVE  \E i \in 1 .. k : newindex'[map[i]] = r /\ packed[r + 1] = Mapped(i)
  <2>1. PICK i \in 1 .. k - 1 : newindex[map[i]] = r /\ packed[r + 1] = Mapped(i)
    BY DEF InTurn
  <2>2. i \in 1 .. k
    BY <1>1
  <2> QED
    BY <1>4, <2>1, <2>2
<1>11. ASSUME NEW r \in 0 .. Len(packed') - 1
       PROVE  \E i \in 1 .. k : newindex'[map[i]] = r /\ packed'[r + 1] = Mapped(i)
  <2>1. CASE MergesAt(k)
    <3>1. packed' = packed
      BY <2>1
    <3> QED
      BY <1>10, <3>1
  <2>2. CASE ~MergesAt(k)
    <3>1. packed' = Append(packed, Mapped(k)) /\ v = Len(packed)
      BY <1>3, <2>2
    <3>2. CASE r = Len(packed)
      <4>1. packed'[r + 1] = Mapped(k) /\ newindex'[map[k]] = r /\ k \in 1 .. k
        BY <1>1, <1>4, <3>1, <3>2
      <4> QED
        BY <4>1
    <3>3. CASE r # Len(packed)
      <4>1. r \in 0 .. Len(packed) - 1 /\ packed'[r + 1] = packed[r + 1]
        BY <1>1, <3>1, <3>3
      <4> QED
        BY <1>10, <4>1
    <3> QED
      BY <3>2, <3>3
  <2> QED
    BY <2>1, <2>2
<1> QED
  BY <1>6, <1>9, <1>11 DEF InTurn

\* The numbers that are left at the end of the merging.
LEMMA PackedSorts ==
  ASSUME TypeOK, Rebuilt(Len(lines)), MapSorted, Numbered(Len(map)), cmd.op = "pack",
         Exact(Len(lines)), OneByOne(Len(lines)), InTurn(Len(map))
  PROVE  /\ \A i \in DOMAIN lines, s \in Side : SideRef(lines[i], s) # NO_SIDEDEF =>
              newindex[SideRef(lines[i], s)] \in 0 .. Len(packed) - 1
         /\ \A i, j \in DOMAIN lines, s, t \in Side :
              SideRef(lines[i], s) # NO_SIDEDEF /\ SideRef(lines[j], t) # NO_SIDEDEF =>
                (newindex[SideRef(lines[i], s)] < newindex[SideRef(lines[j], t)]
                   <=> GivenSorts(i, s, j, t))
         /\ \A r \in 0 .. Len(packed) - 1 : \E i \in DOMAIN lines, s \in Side :
              /\ SideRef(lines[i], s) # NO_SIDEDEF
              /\ newindex[SideRef(lines[i], s)] = r /\ packed[r + 1] = Given(i, s)
<1>1. /\ DOMAIN lines = 1 .. Len(lines) /\ Len(lines) \in Nat /\ Len(packed) \in Nat
  BY DEF TypeOK
<1>2. /\ Len(map) \in Nat
      /\ \A k \in 1 .. Len(map) : /\ map[k] \in 0 .. Len(sides) - 1 /\ map[k] \in Int
                                  /\ Mapped(k) \in MemSidedef
                                  /\ newindex[map[k]] \in 0 .. Len(packed) - 1
  BY MappedTyped DEF Numbered
<1>3. ASSUME NEW i \in DOMAIN lines, NEW s \in Side, SideRef(lines[i], s) # NO_SIDEDEF
      PROVE  \E k \in 1 .. Len(map) : map[k] = SideRef(lines[i], s) /\ Mapped(k) = Given(i, s)
  <2>1. Stands(i, s)
    BY <1>1 DEF Rebuilt
  <2>2. SideRef(lines[i], s) \in 0 .. Len(sides) - 1
    BY <1>3, <2>1 DEF Stands
  <2>3. PICK k \in 1 .. Len(map) : map[k] = SideRef(lines[i], s)
    BY <2>2 DEF MapSorted
  <2>4. sides[SideRef(lines[i], s) + 1] = Given(i, s)
    BY <1>1, <1>3 DEF Exact
  <2> QED
    BY <2>3, <2>4 DEF Mapped
<1>4. ASSUME NEW j \in 1 .. Len(map), NEW k \in 1 .. Len(map)
      PROVE  newindex[map[j]] < newindex[map[k]] <=>
               \/ Sooner(Mapped(j), Mapped(k))
               \/ /\ Same(Mapped(j), Mapped(k)) /\ map[j] < map[k]
                  /\ Mapped(j).domain = MERGE_DOMAIN_SPECIAL
  <2> DEFINE S(a, b) == \/ Sooner(Mapped(a), Mapped(b))
                        \/ /\ Same(Mapped(a), Mapped(b)) /\ map[a] < map[b]
                           /\ Mapped(a).domain = MERGE_DOMAIN_SPECIAL
  <2>1. ASSUME NEW a \in 1 .. Len(map), NEW b \in 1 .. Len(map), a < b
        PROVE  /\ newindex[map[a]] < newindex[map[b]] <=> S(a, b)
               /\ ~(newindex[map[b]] < newindex[map[a]]) /\ ~S(b, a)
    <3>1. PICK s \in MemSidedef, t \in MemSidedef : s = Mapped(a) /\ t = Mapped(b)
      BY <1>2
    <3>2. PICK x \in Nat, y \in Nat : x = newindex[map[a]] /\ y = newindex[map[b]]
      BY <1>2, SMTT(60)
    <3>3. PICK p \in Int, q \in Int : p = map[a] /\ q = map[b]
      BY <1>2
    <3>4. x <= y
      BY <2>1, <3>2 DEF InTurn
    <3>5. x = y <=> Alike(s, t) /\ t.domain # MERGE_DOMAIN_SPECIAL
      BY <2>1, <3>1, <3>2, SMTT(60) DEF Numbered, Special
    <3>6. Sooner(s, t) \/ (Same(s, t) /\ p < q)
      BY <2>1, <3>1, <3>3 DEF MapSorted, Precedes, Mapped
    <3>7. /\ Same(s, t) <=> Alike(s, t)
          /\ Sooner(s, t) => ~Sooner(t, s)
      BY SameIsAlike, SoonerOrders
    <3>8. Same(t, s) <=> Same(s, t)
      BY DEF Same
    <3>9. Sooner(s, t) => ~Same(s, t)
      BY DEF Same
    <3>10. Alike(s, t) => s.domain = t.domain
      BY DEF Alike
    <3>11. Same(s, t) => ~Sooner(t, s)
      BY DEF Same
    <3>12. x < y <=> x # y
      BY <3>4
    <3>13. ~(y < x) /\ ~(p < q /\ q < p)
      BY <3>4
    <3>14. x < y <=> Sooner(s, t) \/ (Same(s, t) /\ p < q /\ s.domain = MERGE_DOMAIN_SPECIAL)
      BY <3>5, <3>6, <3>7, <3>9, <3>10, <3>12
    <3>15. ~Sooner(t, s) /\ ~(Same(t, s) /\ q < p)
      BY <3>6, <3>7, <3>8, <3>9, <3>11, <3>13
    <3> QED
      BY <3>1, <3>2, <3>3, <3>13, <3>14, <3>15
  <2>2. ASSUME NEW a \in 1 .. Len(map)
        PROVE  ~(newindex[map[a]] < newindex[map[a]]) /\ ~S(a, a)
    <3>1. PICK s \in MemSidedef, x \in Nat, p \in Int :
            s = Mapped(a) /\ x = newindex[map[a]] /\ p = map[a]
      BY <1>2
    <3>2. ~Sooner(s, s) /\ ~(x < x) /\ ~(p < p)
      BY SoonerOrders
    <3> QED
      BY <3>1, <3>2
  <2> HIDE DEF S
  <2>3. newindex[map[j]] < newindex[map[k]] <=> S(j, k)
    <3>1. CASE j < k
      BY <2>1, <3>1
    <3>2. CASE k < j
      BY <2>1, <3>2
    <3>3. CASE j = k
      BY <2>2, <3>3
    <3> QED
      BY <3>1, <3>2, <3>3
  <2> QED
    BY <2>3 DEF S
<1>5. ASSUME NEW i \in DOMAIN lines, NEW j \in DOMAIN lines, NEW s \in Side, NEW t \in Side,
             SideRef(lines[i], s) # NO_SIDEDEF, SideRef(lines[j], t) # NO_SIDEDEF
      PROVE  newindex[SideRef(lines[i], s)] < newindex[SideRef(lines[j], t)]
               <=> GivenSorts(i, s, j, t)
  <2>1. PICK k \in 1 .. Len(map) : map[k] = SideRef(lines[i], s) /\ Mapped(k) = Given(i, s)
    BY <1>3, <1>5
  <2>2. PICK h \in 1 .. Len(map) : map[h] = SideRef(lines[j], t) /\ Mapped(h) = Given(j, t)
    BY <1>3, <1>5
  <2>3. map[k] < map[h] <=> Before(<<i, s>>, <<j, t>>)
    BY <1>1, <1>5, <2>1, <2>2 DEF OneByOne
  <2> QED
    BY <1>4, <2>1, <2>2, <2>3 DEF GivenSorts
<1>6. ASSUME NEW r \in 0 .. Len(packed) - 1
      PROVE  \E i \in DOMAIN lines, s \in Side :
               /\ SideRef(lines[i], s) # NO_SIDEDEF
               /\ newindex[SideRef(lines[i], s)] = r /\ packed[r + 1] = Given(i, s)
  <2>1. PICK k \in 1 .. Len(map) : newindex[map[k]] = r /\ packed[r + 1] = Mapped(k)
    BY DEF InTurn
  <2>2. map[k] \in 0 .. Len(sides) - 1 /\ map[k] # NO_SIDEDEF
    BY <1>2 DEF NO_SIDEDEF
  <2>3. PICK i \in 1 .. Len(lines), s \in Side : SideRef(lines[i], s) = map[k]
    BY <2>2 DEF Rebuilt, Used
  <2>4. sides[map[k] + 1] = Given(i, s)
    BY <2>2, <2>3 DEF Exact
  <2> QED
    BY <1>1, <2>1, <2>2, <2>3, <2>4 DEF Mapped
<1>7. ASSUME NEW i \in DOMAIN lines, NEW s \in Side, SideRef(lines[i], s) # NO_SIDEDEF
      PROVE  newindex[SideRef(lines[i], s)] \in 0 .. Len(packed) - 1
  BY <1>2, <1>3, <1>7
<1> QED
  BY <1>5, <1>6, <1>7

-----------------------------------------------------------------------------
(* What the steps keep of that *)

\* A result that was too long for the limit, when packing and when unpacking.
LEMMA PackedTooLong ==
  ASSUME TypeOK, OnDisk, pc \notin {"idle", "errorexit"}, Rebuilt(Len(lines)),
         MapSorted, Numbered(Len(map)), cmd.op = "pack",
         Exact(Len(lines)), OneByOne(Len(lines)), InTurn(Len(map)), ~Fits(Len(packed))
  PROVE  NoneFits(cmd, was)
<1>1. /\ AllStand /\ DOMAIN lines = 1 .. Len(lines) /\ Len(packed) \in Nat
  <2>1. DOMAIN lines = 1 .. Len(lines) /\ Len(packed) \in Nat
    BY DEF TypeOK
  <2> QED
    BY <2>1 DEF AllStand, Rebuilt
<1>2. PICK f : f = [u \in Taken(was) |-> newindex[SideRef(lines[u[1]], u[2])]]
  OBVIOUS
<1>3. ASSUME NEW i \in DOMAIN lines, NEW s \in Side, SideRef(lines[i], s) # NO_SIDEDEF
      PROVE  f[<<i, s>>] = newindex[SideRef(lines[i], s)]
  <2>1. <<i, s>> \in Taken(was)
    BY <1>1, <1>3, TakenIs
  <2> QED
    BY <1>2, <2>1
<1>4. ASSUME NEW u \in Taken(was) PROVE f[u] \in 0 .. Len(packed) - 1
  <2>1. PICK i \in DOMAIN lines, s \in Side :
          u = <<i, s>> /\ SideRef(lines[i], s) # NO_SIDEDEF
    BY <1>1, TakenIs
  <2>2. newindex[SideRef(lines[i], s)] \in 0 .. Len(packed) - 1
    BY <2>1, PackedSorts
  <2> QED
    BY <1>3, <2>1, <2>2
<1>5. f \in [Taken(was) -> 0 .. Len(packed) - 1]
  BY <1>2, <1>4
<1>6. ASSUME NEW r \in 0 .. Len(packed) - 1
      PROVE  \E i \in DOMAIN lines, s \in Side :
               SideRef(lines[i], s) # NO_SIDEDEF /\ f[<<i, s>>] = r
  <2>1. PICK i \in DOMAIN lines, s \in Side :
          /\ SideRef(lines[i], s) # NO_SIDEDEF
          /\ newindex[SideRef(lines[i], s)] = r
    BY PackedSorts
  <2> QED
    BY <1>3, <2>1
<1>7. ASSUME NEW i \in DOMAIN lines, NEW j \in DOMAIN lines, NEW s \in Side, NEW t \in Side,
             SideRef(lines[i], s) # NO_SIDEDEF, SideRef(lines[j], t) # NO_SIDEDEF
      PROVE  f[<<i, s>>] < f[<<j, t>>] <=> GivenSorts(i, s, j, t)
  <2>1. newindex[SideRef(lines[i], s)] < newindex[SideRef(lines[j], t)]
          <=> GivenSorts(i, s, j, t)
    BY <1>7, PackedSorts
  <2> QED
    BY <1>3, <1>7, <2>1
<1>8. Numbers(cmd, was, f, Len(packed))
  BY <1>1, <1>5, <1>6, <1>7, NumbersHere
<1>9. ~(Len(packed) <= LimitOf(cmd)) /\ RefsInLevel(was)
  BY <1>1, TakenIs DEF Fits, LimitOf, SidedefsLimit
<1> QED
  BY <1>8, <1>9 DEF NoneFits

\* Lines that are all rebuilt are what unpacking is to make.
LEMMA UnpackedSo ==
  ASSUME TypeOK, Rebuilt(Len(lines)), Exact(Len(lines)), OneByOne(Len(lines)),
         cmd.op = "unpack"
  PROVE  MadeSo
<1>1. DOMAIN lines = 1 .. Len(lines)
  BY DEF TypeOK
<1>2. ASSUME NEW r \in 0 .. Len(sides) - 1
      PROVE  \E i \in DOMAIN lines, s \in Side :
               SideRef(lines[i], s) = r /\ sides[r + 1] = Given(i, s)
  <2>1. PICK i \in 1 .. Len(lines), s \in Side : SideRef(lines[i], s) = r
    BY DEF Rebuilt, Used
  <2>2. sides[SideRef(lines[i], s) + 1] = Given(i, s)
    BY <2>1 DEF Exact, NO_SIDEDEF
  <2> QED
    BY <1>1, <2>1, <2>2
<1>3. ASSUME NEW i \in DOMAIN lines, NEW j \in DOMAIN lines, NEW s \in Side, NEW t \in Side,
             SideRef(lines[i], s) # NO_SIDEDEF, SideRef(lines[j], t) # NO_SIDEDEF
      PROVE  SideRef(lines[i], s) < SideRef(lines[j], t) <=> GivenSorts(i, s, j, t)
  <2>1. GivenSorts(i, s, j, t) <=> Before(<<i, s>>, <<j, t>>)
    BY DEF GivenSorts
  <2> QED
    BY <1>1, <1>3, <2>1 DEF OneByOne
<1> QED
  BY <1>2, <1>3 DEF MadeSo

LEMMA UnpackedTooLong ==
  ASSUME TypeOK, OnDisk, pc \notin {"idle", "errorexit"}, Rebuilt(Len(lines)),
         MadeSo, ~Fits(Len(sides))
  PROVE  NoneFits(cmd, was)
<1>1. /\ AllStand /\ DOMAIN lines = 1 .. Len(lines) /\ Len(sides) \in Nat
  <2>1. DOMAIN lines = 1 .. Len(lines) /\ Len(sides) \in Nat
    BY DEF TypeOK
  <2> QED
    BY <2>1 DEF AllStand, Rebuilt
<1>2. PICK f : f = [u \in Taken(was) |-> SideRef(lines[u[1]], u[2])]
  OBVIOUS
<1>3. ASSUME NEW i \in DOMAIN lines, NEW s \in Side, SideRef(lines[i], s) # NO_SIDEDEF
      PROVE  f[<<i, s>>] = SideRef(lines[i], s)
  <2>1. <<i, s>> \in Taken(was)
    BY <1>1, <1>3, TakenIs
  <2> QED
    BY <1>2, <2>1
<1>4. ASSUME NEW u \in Taken(was) PROVE f[u] \in 0 .. Len(sides) - 1
  <2>1. PICK i \in DOMAIN lines, s \in Side :
          u = <<i, s>> /\ SideRef(lines[i], s) # NO_SIDEDEF
    BY <1>1, TakenIs
  <2>2. Stands(i, s)
    BY <1>1 DEF AllStand
  <2>3. SideRef(lines[i], s) \in 0 .. Len(sides) - 1
    BY <2>1, <2>2 DEF Stands
  <2> QED
    BY <1>3, <2>1, <2>3
<1>5. f \in [Taken(was) -> 0 .. Len(sides) - 1]
  BY <1>2, <1>4
<1>6. ASSUME NEW r \in 0 .. Len(sides) - 1
      PROVE  \E i \in DOMAIN lines, s \in Side :
               SideRef(lines[i], s) # NO_SIDEDEF /\ f[<<i, s>>] = r
  <2>1. PICK i \in DOMAIN lines, s \in Side : SideRef(lines[i], s) = r
    BY DEF MadeSo
  <2>2. SideRef(lines[i], s) # NO_SIDEDEF
    BY <2>1 DEF NO_SIDEDEF
  <2> QED
    BY <1>3, <2>1, <2>2
<1>7. ASSUME NEW i \in DOMAIN lines, NEW j \in DOMAIN lines, NEW s \in Side, NEW t \in Side,
             SideRef(lines[i], s) # NO_SIDEDEF, SideRef(lines[j], t) # NO_SIDEDEF
      PROVE  f[<<i, s>>] < f[<<j, t>>] <=> GivenSorts(i, s, j, t)
  BY <1>3, <1>7 DEF MadeSo
<1>8. Numbers(cmd, was, f, Len(sides))
  BY <1>1, <1>5, <1>6, <1>7, NumbersHere
<1>9. ~(Len(sides) <= LimitOf(cmd)) /\ RefsInLevel(was)
  BY <1>1, TakenIs DEF Fits, LimitOf, SidedefsLimit
<1> QED
  BY <1>8, <1>9 DEF NoneFits

\* Lines whose references are renumbered are what packing is to make.
LEMMA PackedSo ==
  ASSUME TypeOK, Rebuilt(Len(lines)), MapSorted, Numbered(Len(map)), cmd.op = "pack",
         Exact(Len(lines)), OneByOne(Len(lines)), InTurn(Len(map)),
         sides' = packed, lines' = [i \in DOMAIN lines |-> Remap(lines[i])],
         UNCHANGED <<orig, cmd>>
  PROVE  MadeSo'
<1>1. /\ DOMAIN lines = 1 .. Len(lines) /\ DOMAIN lines' = DOMAIN lines
      /\ lines \in Seq(Linedef(MemRef)) /\ DOMAIN newindex = 0 .. Len(sides) - 1
  BY DEF TypeOK, Numbered
<1>2. ASSUME NEW i \in DOMAIN lines, NEW s \in Side
      PROVE  /\ SideRef(lines'[i], s) = IF SideRef(lines[i], s) = NO_SIDEDEF THEN NO_SIDEDEF
                                        ELSE newindex[SideRef(lines[i], s)]
             /\ SideRef(lines'[i], s) # NO_SIDEDEF <=> SideRef(lines[i], s) # NO_SIDEDEF
  <2>1. ASSUME NEW t \in Side, SideRef(lines[i], t) # NO_SIDEDEF
        PROVE  SideRef(lines[i], t) \in DOMAIN newindex
    <3>1. Stands(i, t)
      BY <1>1 DEF Rebuilt
    <3> QED
      BY <1>1, <2>1, <3>1 DEF Stands
  <2>2. lines[i] \in Linedef(MemRef) /\ lines'[i] = Remap(lines[i])
    BY <1>1
  <2>3. SideRef(lines'[i], s) = IF SideRef(lines[i], s) = NO_SIDEDEF THEN NO_SIDEDEF
                                ELSE newindex[SideRef(lines[i], s)]
    BY <2>1, <2>2, Remapped
  <2>4. SideRef(lines[i], s) # NO_SIDEDEF => newindex[SideRef(lines[i], s)] # NO_SIDEDEF
    <3>1. SideRef(lines[i], s) # NO_SIDEDEF =>
            newindex[SideRef(lines[i], s)] \in 0 .. Len(packed) - 1
      BY PackedSorts
    <3> QED
      BY <3>1 DEF NO_SIDEDEF
  <2> QED
    BY <2>3, <2>4
<1>3. /\ \A i, s : Given(i, s)' = Given(i, s)
      /\ \A i, s, j, t : GivenSorts(i, s, j, t)' <=> GivenSorts(i, s, j, t)
  BY GivenStays
<1>4. ASSUME NEW i \in DOMAIN lines, NEW j \in DOMAIN lines, NEW s \in Side, NEW t \in Side,
             SideRef(lines'[i], s) # NO_SIDEDEF, SideRef(lines'[j], t) # NO_SIDEDEF
      PROVE  SideRef(lines'[i], s) < SideRef(lines'[j], t) <=> GivenSorts(i, s, j, t)
  <2>1. /\ SideRef(lines[i], s) # NO_SIDEDEF /\ SideRef(lines[j], t) # NO_SIDEDEF
        /\ SideRef(lines'[i], s) = newindex[SideRef(lines[i], s)]
        /\ SideRef(lines'[j], t) = newindex[SideRef(lines[j], t)]
    BY <1>2, <1>4
  <2>2. newindex[SideRef(lines[i], s)] < newindex[SideRef(lines[j], t)]
          <=> GivenSorts(i, s, j, t)
    BY <2>1, PackedSorts
  <2> QED
    BY <2>1, <2>2
<1>5. ASSUME NEW r \in 0 .. Len(packed) - 1
      PROVE  \E i \in DOMAIN lines, s \in Side :
               SideRef(lines'[i], s) = r /\ packed[r + 1] = Given(i, s)
  <2>1. PICK i \in DOMAIN lines, s \in Side :
          /\ SideRef(lines[i], s) # NO_SIDEDEF
          /\ newindex[SideRef(lines[i], s)] = r /\ packed[r + 1] = Given(i, s)
    BY PackedSorts
  <2>2. SideRef(lines'[i], s) = r
    BY <1>2, <2>1
  <2> QED
    BY <2>1, <2>2
<1> QED
  BY <1>1, <1>3, <1>4, <1>5 DEF MadeSo, SideRef

LEMMA HaveRunStays ==
  ASSUME HaveRun, UNCHANGED <<past, trail>> PROVE HaveRun'
BY DEF HaveRun

LEMMA LeftAloneStays ==
  ASSUME UNCHANGED <<cmd, orig, trail>>, lines' = orig.linedefs, sides' = orig.sidedefs,
         RefsInLevel(was) => NoneFits(cmd, was)
  PROVE  LeftAlone'
<1>1. was' = was
  BY DEF was
<1> QED
  BY <1>1 DEF LeftAlone

LEMMA InitRan == Init => RunInv
BY DEF Init, RunInv, HaveRun

LEMMA StartRan ==
  ASSUME RunInv, NEW c \in Allowed, Start(c) PROVE RunInv'
<1>1. HaveRun'
  BY HaveRunStays DEF RunInv, Start, history
<1>2. pc' = "errorexit" \/ (pc' = "rebuild" /\ at' = 1)
  BY DEF Start, Goto
<1>3. Exact(0)' /\ OneByOne(0)'
  BY DEF Exact, OneByOne
<1> QED
  BY <1>1, <1>2, <1>3 DEF RunInv

LEMMA RebuildLineRan ==
  ASSUME SidedefsInv, RunInv, RebuildLine PROVE RunInv'
<1>1. /\ pc = "rebuild" /\ at \in DOMAIN lines
      /\ UNCHANGED <<cmd, orig, past, trail>>
      /\ TypeOK /\ OnDisk /\ Rebuilt(at - 1) /\ Exact(at - 1) /\ OneByOne(at - 1)
      /\ HaveRun
  BY DEF SidedefsInv, RunInv, RebuildLine, history, Rebuilding
<1>2. HaveRun' /\ at \in Nat
  BY <1>1, HaveRunStays DEF TypeOK
<1>3. PICK k \in DOMAIN lines, n \in {at - 1} : k = at /\ n = at - 1
  BY <1>1
<1>4. CASE ~RefsValid(lines[at], Len(orig.sidedefs)) /\ GiveUp
  <2>1. ~RefsInLevel(was)
    BY <1>1, <1>4, BadLine
  <2>2. LeftAlone' /\ pc' = "linedefs"
    BY <1>1, <1>4, <2>1, LeftAloneStays DEF GiveUp, Goto
  <2> QED
    BY <1>2, <2>2 DEF RunInv
<1>5. CASE /\ RefsValid(lines[at], Len(orig.sidedefs))
           /\ sides' = sides \o Copies(lines[at])
           /\ lines' = [lines EXCEPT ![at] = Redirected(lines[at], Len(sides))]
           /\ at' = at + 1 /\ UNCHANGED <<success, pc>>
  <2>1. Exact(k)' /\ OneByOne(k)'
    BY <1>1, <1>3, <1>5, ExactlyOneMore
  <2>2. at' - 1 = k
    BY <1>2, <1>3, <1>5
  <2> QED
    BY <1>1, <1>2, <1>5, <2>1, <2>2 DEF RunInv
<1>6. CASE UNCHANGED <<sides, lines, at, success, pc>>
  <2>1. Exact(n)' /\ OneByOne(n)'
    BY <1>1, <1>3, <1>6, RebuiltExactly
  <2> QED
    BY <1>1, <1>2, <1>3, <1>6, <2>1 DEF RunInv
<1> QED
  BY <1>4, <1>5, <1>6 DEF RebuildLine

LEMMA SortRan ==
  ASSUME SidedefsInv, RunInv, Sort PROVE RunInv'
<1>1. /\ pc = "rebuild" /\ at = Len(lines) + 1 /\ pc' = "merge" /\ at' = 1
      /\ packed' = <<>> /\ UNCHANGED <<cmd, orig, lines, sides, past, trail>>
      /\ TypeOK /\ Exact(at - 1) /\ OneByOne(at - 1) /\ HaveRun
  BY DEF SidedefsInv, RunInv, Sort, history, Goto
<1>2. PICK n : n = Len(lines)
  OBVIOUS
<1>3. Exact(n) /\ OneByOne(n)
  <2>1. Len(lines) \in Nat
    BY <1>1 DEF TypeOK
  <2>2. at - 1 = n
    BY <1>1, <1>2, <2>1
  <2> QED
    BY <1>1, <2>2
<1>4. Exact(n)' /\ OneByOne(n)' /\ HaveRun'
  BY <1>1, <1>3, RebuiltExactly, HaveRunStays
<1>5. InTurn(0)'
  BY <1>1 DEF InTurn
<1> QED
  BY <1>1, <1>2, <1>4, <1>5 DEF RunInv

LEMMA MergeSidedefRan ==
  ASSUME SidedefsInv, RunInv, MergeSidedef PROVE RunInv'
<1>1. /\ pc = "merge" /\ at \in DOMAIN map
      /\ UNCHANGED <<pc, cmd, orig, lines, sides, map, past, trail>>
      /\ TypeOK /\ MapSorted /\ Numbered(at - 1) /\ Exact(Len(lines))
      /\ OneByOne(Len(lines)) /\ InTurn(at - 1) /\ HaveRun
  BY DEF SidedefsInv, RunInv, MergeSidedef, history, Merging
<1>2. at \in 1 .. Len(map) /\ at \in Nat
  BY <1>1, SMTT(60) DEF TypeOK
<1>3. PICK n, m : n = Len(lines) /\ m = at - 1
  OBVIOUS
<1>4. Exact(n)' /\ OneByOne(n)' /\ HaveRun'
  BY <1>1, <1>3, RebuiltExactly, HaveRunStays
<1>5. PICK k \in 1 .. Len(map) : k = at
  BY <1>2
<1>6. CASE /\ at' = at + 1
           /\ \/ /\ MergesAt(at) /\ UNCHANGED packed
                 /\ newindex' = [newindex EXCEPT ![map[at]] = newindex[map[at - 1]]]
              \/ /\ ~MergesAt(at)
                 /\ newindex' = [newindex EXCEPT ![map[at]] = Len(packed)]
                 /\ packed' = Append(packed, Mapped(at))
  <2>1. InTurn(k)'
    BY <1>1, <1>5, <1>6, InTurnOneMore
  <2>2. at' - 1 = k
    BY <1>2, <1>5, <1>6
  <2> QED
    BY <1>1, <1>3, <1>4, <2>1, <2>2 DEF RunInv
<1>7. CASE UNCHANGED <<newindex, packed, at>>
  <2>1. InTurn(m)'
    <3>1. InTurn(m) /\ UNCHANGED <<newindex, packed, map, sides>>
      BY <1>1, <1>3, <1>7
    <3> QED
      BY <3>1 DEF InTurn, Mapped
  <2> QED
    BY <1>1, <1>3, <1>4, <1>7, <2>1 DEF RunInv
<1> QED
  BY <1>6, <1>7 DEF MergeSidedef, Mapped

LEMMA FinishPackRan ==
  ASSUME SidedefsInv, RunInv, FinishPack PROVE RunInv'
<1>1. /\ pc = "merge" /\ at = Len(map) + 1 /\ pc' = "linedefs" /\ cmd.op = "pack"
      /\ UNCHANGED <<cmd, orig, past, trail>>
      /\ TypeOK /\ OnDisk /\ Rebuilt(Len(lines)) /\ MapSorted /\ Numbered(at - 1)
      /\ Exact(Len(lines)) /\ OneByOne(Len(lines)) /\ InTurn(at - 1) /\ HaveRun
  BY DEF SidedefsInv, RunInv, FinishPack, history, Merging, Goto
<1>2. Numbered(Len(map)) /\ InTurn(Len(map)) /\ HaveRun'
  <2>1. Len(map) \in Nat
    BY <1>1 DEF TypeOK
  <2>2. at - 1 = Len(map)
    BY <1>1, <2>1
  <2> QED
    BY <1>1, <2>2, HaveRunStays
<1>3. CASE ~Fits(Len(packed)) /\ TooLong
  <2>1. NoneFits(cmd, was)
    BY <1>1, <1>2, <1>3, PackedTooLong
  <2>2. LeftAlone'
    BY <1>1, <1>3, <2>1, LeftAloneStays DEF TooLong, OriginalLines
  <2> QED
    BY <1>1, <1>2, <2>2 DEF RunInv
<1>4. CASE /\ Fits(Len(packed)) /\ sides' = packed
           /\ lines' = [i \in DOMAIN lines |-> Remap(lines[i])]
  <2>1. Made'
    BY <1>1, <1>2, <1>4, PackMakes
  <2>2. MadeSo'
    BY <1>1, <1>2, <1>4, PackedSo
  <2> QED
    BY <1>1, <1>2, <2>1, <2>2 DEF RunInv
<1> QED
  BY <1>3, <1>4 DEF FinishPack

LEMMA FinishUnpackRan ==
  ASSUME SidedefsInv, RunInv, FinishUnpack PROVE RunInv'
<1>1. /\ pc = "rebuild" /\ at = Len(lines) + 1 /\ pc' = "linedefs" /\ cmd.op = "unpack"
      /\ UNCHANGED <<cmd, orig, past, trail>>
      /\ TypeOK /\ OnDisk /\ Rebuilt(at - 1) /\ Exact(at - 1) /\ OneByOne(at - 1) /\ HaveRun
  BY DEF SidedefsInv, RunInv, FinishUnpack, history, Rebuilding, Goto
<1>2. Rebuilt(Len(lines)) /\ Exact(Len(lines)) /\ OneByOne(Len(lines)) /\ HaveRun'
  <2>1. Len(lines) \in Nat
    BY <1>1 DEF TypeOK
  <2>2. at - 1 = Len(lines)
    BY <1>1, <2>1
  <2> QED
    BY <1>1, <2>2, HaveRunStays
<1>3. MadeSo
  BY <1>1, <1>2, UnpackedSo
<1>4. CASE ~Fits(Len(sides)) /\ TooLong
  <2>1. NoneFits(cmd, was)
    BY <1>1, <1>2, <1>3, <1>4, UnpackedTooLong
  <2>2. LeftAlone'
    BY <1>1, <1>4, <2>1, LeftAloneStays DEF TooLong, OriginalLines
  <2> QED
    BY <1>1, <1>2, <2>2 DEF RunInv
<1>5. CASE Fits(Len(sides)) /\ UNCHANGED <<lines, sides>>
  <2>1. Made
    <3>1. DOMAIN lines = 1 .. Len(lines)
      BY <1>1 DEF TypeOK
    <3> QED
      BY <1>1, <1>2, <1>5, <3>1 DEF Rebuilt, Made, Fits
  <2>2. Made' /\ MadeSo'
    BY <1>1, <1>3, <1>5, <2>1, MadeStays, MadeSoStays
  <2> QED
    BY <1>1, <1>2, <2>2 DEF RunInv
<1> QED
  BY <1>4, <1>5 DEF FinishUnpack

LEMMA WriteLinedefsRan ==
  ASSUME RunInv, WriteLinedefs PROVE RunInv'
<1>1. /\ pc = "linedefs" /\ pc' = "sidedefs" /\ UNCHANGED <<cmd, orig, lines, sides>>
      /\ UNCHANGED <<past, trail>> /\ HaveRun /\ ((Made /\ MadeSo) \/ LeftAlone)
  BY DEF RunInv, WriteLinedefs, Goto, local, history
<1>2. HaveRun'
  BY <1>1, HaveRunStays
<1>3. (Made' /\ MadeSo') \/ LeftAlone'
  <2>1. CASE Made /\ MadeSo
    BY <1>1, <2>1, MadeStays, MadeSoStays
  <2>2. CASE LeftAlone
    BY <1>1, <2>2, LeftAloneStays DEF LeftAlone
  <2> QED
    BY <1>1, <2>1, <2>2
<1> QED
  BY <1>1, <1>2, <1>3 DEF RunInv

LEMMA WriteSidedefsRan ==
  ASSUME SidedefsInv, RunInv, WriteSidedefs PROVE RunInv'
<1>1. /\ pc = "sidedefs" /\ pc' = "idle" /\ TypeOK /\ OnDisk /\ HaveRun
      /\ level' = [level EXCEPT !.sidedefs = DiskSidedefs(sides)]
      /\ past' = Append(past, cmd) /\ trail' = Append(trail, level')
      /\ level = [was EXCEPT !.linedefs = DiskLinedefs(lines)]
  BY DEF SidedefsInv, RunInv, WriteSidedefs, Goto, OnDisk
<1>2. level' = Written /\ Ran(cmd, was, Written)
  BY <1>1, EndingRan DEF Written
<1>3. /\ past \in Seq(Command) /\ trail \in Seq(Level)
      /\ Len(trail) = Len(past) + 1 /\ Len(past) \in Nat
  BY <1>1 DEF TypeOK, OnDisk
<1>4. /\ DOMAIN past' = 1 .. Len(past) + 1
      /\ past'[Len(past) + 1] = cmd /\ \A i \in 1 .. Len(past) : past'[i] = past[i]
      /\ DOMAIN past = 1 .. Len(past)
      /\ \A i \in 1 .. Len(past) + 1 : trail'[i] = trail[i]
      /\ trail'[Len(past) + 1 + 1] = level'
  BY <1>1, <1>3
<1>5. ASSUME NEW i \in 1 .. Len(past) + 1 PROVE Ran(past'[i], trail'[i], trail'[i + 1])
  <2>1. CASE i = Len(past) + 1
    <3>1. past'[i] = cmd /\ trail'[i] = was /\ trail'[i + 1] = Written
      BY <1>2, <1>3, <1>4, <2>1 DEF was
    <3> QED
      BY <1>2, <3>1
  <2>2. CASE i # Len(past) + 1
    <3>1. i \in 1 .. Len(past) /\ i + 1 \in 1 .. Len(past) + 1
      BY <1>3, <2>2
    <3>2. past'[i] = past[i] /\ trail'[i] = trail[i] /\ trail'[i + 1] = trail[i + 1]
      BY <1>4, <3>1
    <3>3. Ran(past[i], trail[i], trail[i + 1])
      BY <1>1, <1>4, <3>1 DEF HaveRun
    <3> QED
      BY <3>2, <3>3
  <2> QED
    BY <2>1, <2>2
<1>6. HaveRun'
  BY <1>4, <1>5 DEF HaveRun
<1> QED
  BY <1>1, <1>6 DEF RunInv

LEMMA NextRan == SidedefsInv /\ RunInv /\ [Next]_vars => RunInv'
<1> SUFFICES ASSUME SidedefsInv, RunInv, [Next]_vars PROVE RunInv'
  OBVIOUS
<1>1. CASE UNCHANGED vars
  <2>1. /\ UNCHANGED <<pc, cmd, orig, lines, sides, at, map, newindex, packed>>
        /\ UNCHANGED <<past, trail>>
    BY <1>1 DEF vars, local, history
  <2>2. PICK n, m : n = at - 1 /\ m = Len(lines)
    OBVIOUS
  <2>3. HaveRun'
    BY <2>1, HaveRunStays DEF RunInv
  <2>4. /\ Exact(n) /\ OneByOne(n) => Exact(n)' /\ OneByOne(n)'
        /\ Exact(m) /\ OneByOne(m) => Exact(m)' /\ OneByOne(m)'
        /\ Made /\ MadeSo => Made' /\ MadeSo'
    BY <2>1, RebuiltExactly, MadeStays, MadeSoStays
  <2>5. LeftAlone => LeftAlone'
    BY <2>1, LeftAloneStays DEF LeftAlone
  <2>6. InTurn(n) => InTurn(n)'
    BY <2>1 DEF InTurn, Mapped
  <2> QED
    BY <2>1, <2>2, <2>3, <2>4, <2>5, <2>6 DEF RunInv
<1> QED
  BY <1>1, StartRan, RebuildLineRan, SortRan, MergeSidedefRan, FinishPackRan,
     FinishUnpackRan, WriteLinedefsRan, WriteSidedefsRan DEF Next, Done

LEMMA RunsRepeat ==
  ASSUME TypeOK, OnDisk, HaveRun PROVE Repeatable
<1>1. /\ past \in Seq(Command) /\ trail \in Seq(Level) /\ Len(past) \in Nat
      /\ DOMAIN past = 1 .. Len(past) /\ DOMAIN trail = 1 .. Len(past) + 1
  BY DEF TypeOK, OnDisk
<1>2. ASSUME NEW i \in 1 .. Len(past)
      PROVE  /\ i \in Nat /\ past[i] \in Command /\ trail[i] \in Level
             /\ trail[i + 1] \in Level /\ Ran(past[i], trail[i], trail[i + 1])
  <2>1. i \in DOMAIN past /\ i \in DOMAIN trail /\ i + 1 \in DOMAIN trail
    BY <1>1
  <2> QED
    BY <1>1, <2>1 DEF HaveRun
<1>3. ASSUME NEW i \in 2 .. Len(past), past[i] = past[i - 1]
      PROVE  trail[i + 1] = trail[i]
  <2>1. PICK j \in 1 .. Len(past) : j = i - 1
    BY <1>1
  <2>2. i \in 1 .. Len(past) /\ j + 1 = i
    BY <1>1, <2>1
  <2>3. Ran(past[j], trail[j], trail[i]) /\ past[j] = past[i]
    BY <1>2, <1>3, <2>1, <2>2
  <2>4. trail[j] \in Level
    BY <1>2
  <2> QED
    BY <1>2, <2>2, <2>3, <2>4, RunAgain
<1>4. ASSUME NEW i \in 3 .. Len(past), past[i] = past[i - 2], past[i].op = "pack",
             past[i - 1] = [past[i] EXCEPT !.op = "unpack"]
      PROVE  trail[i + 1] = trail[i - 1]
  <2>1. PICK h \in 1 .. Len(past) : h = i - 2
    BY <1>1
  <2>2. PICK j \in 1 .. Len(past) : j = i - 1
    BY <1>1
  <2>3. i \in 1 .. Len(past) /\ h + 1 = j /\ j + 1 = i
    BY <1>1, <2>1, <2>2
  <2>4. PICK c \in Command : c = past[i]
    BY <1>2, <2>3
  <2>5. PICK w \in Command : w = past[j]
    BY <1>2
  <2>6. w.op = "unpack" /\ w.wipesides = c.wipesides /\ w.extsides = c.extsides
    <3>1. w = [c EXCEPT !.op = "unpack"]
      BY <1>4, <2>2, <2>4, <2>5
    <3> QED
      BY <3>1 DEF Command
  <2>7. /\ Ran(c, trail[h], trail[j]) /\ Ran(w, trail[j], trail[i])
        /\ Ran(c, trail[i], trail[i + 1])
    <3>1. past[h] = c
      BY <1>4, <2>1, <2>4
    <3>2. /\ Ran(past[h], trail[h], trail[h + 1]) /\ Ran(past[j], trail[j], trail[j + 1])
          /\ Ran(past[i], trail[i], trail[i + 1])
      BY <1>2, <2>3
    <3> QED
      BY <2>3, <2>4, <2>5, <3>1, <3>2
  <2>8. trail[h] \in Level /\ trail[j] \in Level /\ trail[i] \in Level /\ trail[i + 1] \in Level
    BY <1>2, <2>3
  <2>9. trail[i + 1] = trail[j]
    BY <2>6, <2>7, <2>8, ThereAndBack
  <2> QED
    BY <2>2, <2>9
<1> QED
  BY <1>3, <1>4 DEF Repeatable

-----------------------------------------------------------------------------
(* The theorems *)

\* The inductive invariant the theorems below rest on: the lines rebuilt so
\* far, the sorted map, the merged sidedefs and what the earlier runs have kept.
THEOREM SidedefsInvariance == Spec => []SidedefsInv
BY InitInv, NextKeeps, PTL DEF Spec

\* The variables have their types, for any level whatever.
THEOREM SidedefsTypeOK == Spec => []TypeOK
<1>1. SidedefsInv => TypeOK
  BY DEF SidedefsInv
<1> QED
  BY <1>1, SidedefsInvariance, PTL

\* RemapLinedefs() never looks outside its arrays, whatever references the level
\* had (sidedefs.c:478-480).
THEOREM RefsStayInArrays == Spec => []RefsInArrays
<1>1. SidedefsInv => RefsInArrays
  <2> SUFFICES ASSUME SidedefsInv PROVE RefsInArrays
    OBVIOUS
  <2>1. ASSUME NEW i, NEW s \in Side, Stands(i, s)
        PROVE  \/ SideRef(lines[i], s) = NO_SIDEDEF
               \/ SideRef(lines[i], s) \in 0 .. Len(sides) - 1
    BY <2>1 DEF Stands
  <2>2. ASSUME NEW i, \A s \in Side : Stands(i, s)
        PROVE  /\ \/ lines[i].sidedef1 = NO_SIDEDEF
                  \/ lines[i].sidedef1 \in 0 .. Len(sides) - 1
               /\ \/ lines[i].sidedef2 = NO_SIDEDEF
                  \/ lines[i].sidedef2 \in 0 .. Len(sides) - 1
    BY <2>1, <2>2 DEF Side, SideRef
  <2>3. CASE pc = "rebuild"
    BY <2>2, <2>3 DEF SidedefsInv, Rebuilding, Rebuilt, RefsInArrays
  <2>4. CASE pc = "merge"
    <3>1. DOMAIN lines = 1 .. Len(lines)
      BY DEF SidedefsInv, TypeOK
    <3> QED
      BY <2>2, <2>4, <3>1 DEF SidedefsInv, Merging, Rebuilt, Numbered, RefsInArrays
  <2> QED
    BY <2>3, <2>4 DEF RefsInArrays
<1> QED
  BY <1>1, SidedefsInvariance, PTL

\* Each side of each line shows what it showed at first, after any sequence of
\* runs on any level, but for what -wipesides takes away.
THEOREM EveryLineIsKept == Spec => []KeepsEveryLine
<1>1. SidedefsInv => KeepsEveryLine
  BY DEF SidedefsInv, OnDisk, SoFar, Keeps, KeepsEveryLine
<1> QED
  BY <1>1, SidedefsInvariance, PTL

\* Special lines share no sidedef but with those of their own magic tag
\* (sidedefs.c:532-560).
THEOREM SharingIsAlike == Spec => []OnlyAlikeShare
<1>1. SidedefsInv => OnlyAlikeShare
  BY DEF SidedefsInv
<1> QED
  BY <1>1, SidedefsInvariance, PTL

\* Packing merges all that may be merged, for any number of sidedefs.
THEOREM PackingIsFull == Spec => []FullyPacked
<1>1. SidedefsInv => FullyPacked
  BY DEF SidedefsInv
<1> QED
  BY <1>1, SidedefsInvariance, PTL

\* Unpacking gives each side of each line a sidedef of its own.
THEOREM UnpackingIsFull == Spec => []FullyUnpacked
<1>1. SidedefsInv => FullyUnpacked
  BY DEF SidedefsInv
<1> QED
  BY <1>1, SidedefsInvariance, PTL

\* Without -extsides no reference becomes a negative number for an engine that
\* reads them as signed (sidedefs.c:36-40, 203), with any width of references.
THEOREM VanillaIsSafe == Spec => []VanillaStaysVanilla
<1>1. SidedefsInv => VanillaStaysVanilla
  BY DEF SidedefsInv, OnDisk, SoFar, Signed, VanillaStaysVanilla
<1> QED
  BY <1>1, SidedefsInvariance, PTL

\* The lumps of a level are the same after a run that is repeated, and after
\* packing, unpacking and packing with the same options, for any level, limits
\* and commands before (run_tests.sh:52-55, 77-81).
THEOREM LevelsRepeatable == Spec => []Repeatable
<1>1. Init => SidedefsInv /\ RunInv
  BY InitInv, InitRan
<1>2. SidedefsInv /\ RunInv /\ [Next]_vars => (SidedefsInv /\ RunInv)'
  BY NextKeeps, NextRan
<1>3. SidedefsInv /\ RunInv => Repeatable
  BY RunsRepeat DEF SidedefsInv, RunInv
<1> QED
  BY <1>1, <1>2, <1>3, PTL DEF Spec
=============================================================================
