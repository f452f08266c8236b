# A TLA+ verification of wadptr

wadptr makes Doom WAD files smaller without changing what they mean to the
game: it packs the sidedefs of levels, stacks their blockmaps, squashes
graphics and merges identical lumps, and it undoes the first three of these.
It replaces the file it is given. Two questions matter most: can a run lose a
WAD, and does a WAD still mean the same after any number of runs? The modules
here state both as models of the code, check them with TLC on small instances,
and prove with TLAPS, for instances of any size, the answer to the first and,
for levels, for graphics and for the file as a whole, to the second.

## 1. Inventory

| Part | Code | State | Operations | Talks to |
|---|---|---|---|---|
| Command line | `main.c:178-318`, prompts `1038-1065` | options, the list of files | `main`, `ParseCommandLine`, `DoAction`, `IwadWarning` | calls the next three once per file |
| File replacement | `main.c:70-156`, `535-560`, `604-675`, `762-874` | the open input, the temporary file(s), exit status | `Compress`, `Decompress`, `OpenTempFile`, `FileSize` | the file system, other instances of itself |
| Lump loop ("pipeline") | `main.c:340-530`, `562-602`, `677-821` | the directory being rewritten, statistics | `TryPack`, `TryStack`, `TrySquash` and their inverses | one codec per lump; results kept in the codec's static variables until they are written |
| WAD files | `waddir.c` | header, directory, position in the output | `OpenWadFile`, `CacheLump`, `WriteWadLump`, `WriteWadDirectory` | stdio |
| Sidedef packing | `sidedefs.c` | `linedefs_result`, `sidedefs_result`, `newsidedef_index`, `hexen_format` | `P_Pack`, `P_Unpack`, `P_IsPacked`, `P_WriteLinedefs`, `P_WriteSidedefs` | sorted maps |
| Blockmap stacking | `blockmap.c` | `blockmap_result` | `B_Stack`, `B_Unstack`, `B_IsStacked`, `B_WriteBlockmap` | sorted maps |
| Graphic squashing | `graphics.c` | `columns`, `colsize`, `unsquash_mode` | `S_Squash`, `S_Unsquash`, `S_IsSquashed`, `S_IsGraphic` | sorted maps |
| Lump merging | `wadmerge.c` | the hashes of the lumps written | `RebuildMergedWad` | SHA-1, sorted maps, WAD files |
| Sorted maps | `sort.c` | none | `MakeSortedMap` | - |
| Listing | `main.c:876-1000` | none | `ListEntries` | `P_IsPacked`, `B_IsStacked`, `S_IsSquashed` |
| SHA-1, errors | `sha1.c`, `errors.c` | the context printed with messages | `ErrorExit`, `Warning` | `ErrorExit` ends the process |

The program is sequential. It is hard in four places.

* **Files.** Instances run at the same time in one directory (a shell loop, a
  build), each probing for a free temporary name; writes are buffered, and the
  flush that fails may be inside `rewind()` or `fclose()`, where nobody looks;
  the process can die between any two steps. *What makes it correct:* a WAD on
  the command line is at all times the old one or the new one, nobody writes
  to another's file, and success leaves nothing behind but what `remove()`
  would not remove.
* **Long histories.** A WAD is compressed, decompressed and compressed again,
  by different versions and with different options. *What makes the codecs
  correct:* the meaning of the lump is preserved over any sequence of runs,
  repeating a run changes nothing, undoing and redoing gives the same lump.
* **Changes in place.** A pass overwrites the directory it is reading lumps
  through, LINEDEFS waits for SIDEDEFS, posts are combined within the lump that
  other columns share, and the map of a sort is permuted while it is compared.
  *What makes them correct:* what has not been reached is as it was, what has
  been passed can be read where it is said to be.
* **Limits.** References and offsets are 16 bits wide, signed for the original
  engine, with one value reserved. *What makes the codecs correct:* a result
  that does not fit is given up for the original, entirely.

`PROJECT.json` lists the hazards line by line, with the properties that are
for them.

## 2. Modules

Each `MC` module only holds the values TLC gives to the constants; `MCSystems`
also joins two instances of `WadRewrite`, one for each system, in one run: `p1`
and `p2` run where nothing goes wrong, `w1` and `w2` on Windows, and those of the
other system have no files to work on. They differ in `Faults`, `Windows`, the
number of names and the files there are at first.

| Module | What it is |
|---|---|
| `AtomicReplace` | what a user of files may expect of any number of instances |
| `WadRewrite`, `MCWadRewrite`, `MCSystems` | how the files are replaced, step by step |
| `WadRewriteProofs` | the safety theorems, and that `WadRewrite` implements `AtomicReplace` |
| `Sidedefs`, `MCSidedefs` | runs of `P_Pack` and `P_Unpack` on a level |
| `Ranks` | sorting by rank, whatever the order; numbers, suffixes |
| `SidedefsProofs` | what packing and unpacking keep, for any level |
| `Blockmap`, `MCBlockmap` | runs of `B_Stack` and `B_Unstack` on a lump |
| `BlockmapProofs` | what stacking and unstacking keep, for any lump |
| `Sort` | the quicksort of `SortMapElements`, step by step |
| `SortProofs` | it computes the sorted map, for any keys; its depth |
| `Graphics`, `MCGraphics` | runs of `S_Squash` and `S_Unsquash` on a lump; extends `Sort` |
| `GraphicsProofs` | what squashing and unsquashing keep, for any lump with tidy columns |
| `WadFile`, `MCWadFile` | runs of `Compress` and `Decompress` on a file; extends `Sort` |
| `WadFileProofs` | both passes keep every lump, for any file |
| `WadFileKept` | what a file is after any sequence of runs |

They meet at these seams. `Graphics` and `WadFile` take the steps of `Sort` as
their own. `Sidedefs` and `Blockmap` use its result, the operator `SortedMap`,
which `SortIsRight` proves to be what those steps compute. What a codec does to
a lump is in `Sidedefs`, `Blockmap` and `Graphics`, and in `WadFile` a lump is
only ever in one of a few forms of one thing. When and how a file reaches the
disk is in `WadRewrite`, where a file is only ever whole or not.

A definition commented with "fault:" is the next definition with a mistake in
it, of the kind a change to the code might bring in; it is used by nothing.
Every property of a passing run is violated when one of them takes the place
of the definition it varies (`PROJECT.json`, "mutants"), which shows that the
instance is large enough for the property to bite.

### AtomicReplace

Two variables: the game each file holds, and the order each instance has, which
it gets when it reads its input. An order is carried out in one step or dropped.

### WadRewrite

A process has the program counter `pc`, the argument it is at (`pos`), its two
streams (`src`, `dst`), the buffer of the output stream (`buf`), and the names
of its temporary files (`tmp`, `old`). The file system is the map `dir` from
names to inodes and `data`, the contents of inodes in three parts: lumps,
directory, header. A file is a whole WAD of a game when the three parts agree.

| Action | Code |
|---|---|
| `Open` | `OpenWadFile` of an argument; absent files make the run fail, bad ones end the program; the user may decline to change an IWAD |
| `Probe`, `Create` | `OpenTempFile`: `FileExists` and then `fopen`, as two steps |
| `WriteLumps` | the loop over the lumps, and that of `RebuildMergedWad` |
| `WriteEntries`, `WriteHeader` | `WriteWadDirectory`, with the `rewind()` of `WriteWadHeader` |
| `CheckSize` | `FileSize`, which only `Compress` calls |
| `Close` | `fclose` and `CloseWadFile` |
| `Reopen`, `RemoveTemp` | the merging pass of `Compress` |
| `RemoveTarget`, `Rename` | the replacement; the former only with `_WIN32` |
| `Crash` | the process is killed |

`Exit` keeps what `exit()` keeps: the files. `Return` is the loop of `main()`.

Every read or write that reaches the file system is its own step, so the
instances interleave wherever the operating system could let them. A flush
fails only with `Faults` other than "none": "sticky" is a disk that is full and
stays full, "transient" one that has room again at once. With either the system
may also refuse to create, remove or rename a file: a first temporary file that
is not removed stays (`left`) and the program goes on (`main.c:632`), all else
ends it. Nobody looks at whether the first temporary file can be opened again
(`main.c:616`): if it has gone, `Reopen` goes on with a directory of no lumps,
of the game `Empty`, and the instance crashes in `Close`. `TempsAccounted` says
that it never comes to that where `fopen()` is exclusive; `RewriteSystems` has
runs on Windows in which it does. A failed flush leaves
any proper part of the buffer in the file. A failed flush in `rewind()` makes
the header go where the stream happens to be (the piece "stray").

Abstractions: each directory is a file system of its own, so a rename between
directories fails, as it does with EXDEV;
the contents of an abandoned temporary file do not matter to any property, so
the flush of open streams by `exit()` is left out; a header that only
overwrites the blank one needs no room on a full disk; an instance that
`ErrorExit`s because a codec finds a lump unacceptable is covered by `Crash`.
The failure of the machine, and what a file system then does with a rename it
has not synchronised, is not modelled.

### Sidedefs

One level, its two lumps on disk (`level`), and runs of the program on it, each
with its own options. A run is `Start` (read and check the sizes), one
`RebuildLine` for each linedef, then for packing `Sort`, one `MergeSidedef` for
each sidedef and `FinishPack`, for unpacking `FinishUnpack`, then
`WriteLinedefs` and `WriteSidedefs`. `past` and `trail` are history variables:
the commands so far, and the level before and after each.

A sidedef's names and numbers are reduced to what the code distinguishes: the
middle texture, its letter case (compared without, kept), the upper and lower
textures together (what `-wipesides` clears), and everything else. `NoIndex`
stands for 0xffff and both limits follow from it. Memory references are
unbounded, NO_SIDEDEF is -1, whose low bits are all set like those of
UINT32_MAX. The doubling of an array is reduced to what can go wrong with it:
it never ends for an array without room, and the run then stays where it is.

### Blockmap

One lump as a sequence of words, numbers below `2 * Half`, where `Half` is 2^15
in the code, with the lists it was built with
(`lists`, a history variable), and runs on it. `Check` is what comes before the
loop of `RebuildBlockmap`, `PlaceBlock` one turn of it, `Finish` the rest of
`B_Stack` or `B_Unstack`, `Write` is `B_WriteBlockmap`. Assignments to offsets
are modulo `2 * Half`, as they are in C.

The lumps are those that node builders write: lists in order, backwards,
shared, nested in each other, something after them, and too large for the
format so that the offsets have wrapped. Lumps in which a list has no end, where
the code reads outside the array, and lumps of an odd number of bytes are left
out.

In both codecs `SortedMap` is the permutation `MakeSortedMap` must return:
`SortMapElements` breaks ties by element number, so there is exactly one.

### Sort

The recursion is a stack, `calls`, of the parts still to be sorted, the current
one first, each with the depth of its frame. `ChoosePivot` takes the pivot out
of the middle, `Partition` is one turn of the loop, `PlacePivot` puts the pivot
between the two parts and makes the two calls, `Return` is the early return for
fewer than two elements. `MakeSortedMap` starts it on the identity. The keys are
integers: what `compare_fn` says of two elements is all the sort sees of them.

The comment at `sort.c:67` calls the result "an array that maps from original
element index to the index that element would be at if the array was sorted".
The function returns the inverse of that, the element at each index, and every
caller uses it so; it is what `Ascending` and `SortedMap` state.

### Graphics

One lump, as its bytes and the offsets of the columns that they spell
(`Decoded`), and runs on it. An offset may be that of any byte, of one in the
header or in the table too, as in `S_IsGraphic` and `ParseLump`. `Start` is `S_IsGraphic` and `ParseLump`; `CombinePosts` is one turn of the
loop of that function, at column `x` and offset `i`, which joins two posts or
goes on to the next, in place in `data`; `SortColumns` and `SortMapElements`
make the sorted map; `BeginColumns` and `PlaceColumn` are the loop of
`S_Squash` or `S_Unsquash`; `Finish` replaces the lump, or keeps it as
`CombinePosts` has left it if the result is larger. Bytes are bytes, so that
the lengths of joined posts can reach 255 and a pixel can look like the end of
a column. `FlatLengths` are 4096 and 4000, by which `S_IsGraphic` tells flats
and other lumps, `MaxWidth` and `MaxHeight` are 1024 and 240, beyond which it
takes nothing for a graphic. `MaxLength` bounds what is built: an offset has
four bytes, and a longer lump could not spell it.

### WadFile

A file as a sequence of words of 4 bytes, and runs on it, each with the options
of its command line. Words are tagged with what they are: a number, the magic,
half of a name, a part of a lump. A word read as a number that is none counts
as `Beyond`, larger than any file.

| Action | Code |
|---|---|
| `Begin` | `OpenWadFile`, `IsPlaystationWad`, the first statistics |
| `Defer`, `Pack` | `TryPack`, `TryUnpack`: LINEDEFS is skipped, SIDEDEFS writes both |
| `Stack`, `Squash` | `TryStack`, `TrySquash` and their inverses |
| `Store`, `LeaveEmpty` | the end of the loop of `Compress` and `Decompress` |
| `EndFirstPass`, `Reopen` | `WriteWadDirectory`, and the second pass opened |
| `SortMapElements` | a step of `Sort`, on the names of the lumps |
| `MergeLump`, `EndSecondPass` | the loop of `RebuildMergedWad` and what follows it |
| `Rename` | the file is replaced |
| `ErrorExit` | a lump cannot be read in full, or a position does not fit |

The limit on positions, INT32_MAX in the code, is `MaxPos`. A lump is a thing in
a form: a codec makes it "small" or "plain" if the thing has such a form and
the result is not larger than a lump to be compressed, and else leaves it - but
for a squashed picture that is given up, which keeps the posts that
`CombinePosts` has joined ("joined", `graphics.c:177-182`), and for a blockmap
that overflows (`Overflowed`), which `B_Stack` leaves and `B_Unstack` makes
another one of ("garbled"). A level has both of its lumps recoded or neither,
and one of a console's that is taken for Doom's is garbled. A file without
lumps may have its directory anywhere, beyond its end too.
Lumps are compared by their contents where the code compares digests. Only
`Compress` counts statistics. The question asked before an IWAD is changed is
not here, but in `WadRewrite`.

## 3. Runs

| Run | Shows | States | Time |
|---|---|---|---|
| `RewriteRace` | two instances on one file: safety and refinement | 359 000 | 40 s |
| `RewriteSystems` | nobody fails without a cause; everyone ends, on Windows too | 829 000 | 120 s |
| `SidedefsRuns` | meaning, sharing, completeness, stability, limits | 789 000 | 70 s |
| `BlockmapRuns` | meaning, completeness, stability, limits | 931 000 | 15 s |
| `GraphicsRuns` | pixels, completeness, stability, the sort | 293 000 | 10 s |
| `WadFileRuns` | lumps, layout, stability, the table of savings | 149 000 | 35 s |
| `RewriteDiskFull` | **violation**: decompressing on a full disk | - | 1 s |
| `BlockmapCorrupt` | **violation**: unstacking an overflowed blockmap | - | 1 s |
| `BlockmapSuffix` | **violation**: a suffix beyond the vanilla limit | - | 1 s |
| `GraphicsShared` | **violation**: combining posts in shared columns | - | 1 s |
| `WadFileMarkers` | **violation**: a WAD of empty lumps only | - | 1 s |
| `WadFileTable` | **violation**: the rows and the total below them | - | 1 s |

**Bounds.** *Rewriting:* two instances and two files are what a race needs; six
inodes are one for each file, the old temporary file and each instance's two or
so temporaries, enough that none is ever refused; `MaxTemp` (100 in the code)
is 3 or 4, so that names run out in the runs with old files and never in the
healthy one. *Sidedefs:* two lines with both sides have up to four sidedefs,
which is enough for two pairs to merge, cross or be kept apart; `Crowded` has
three lines, hence up to six sidedefs, with `NoIndex` = 5, so that the unpacked
list fits neither limit, one, or both, and sidedef number 5 collides with
"none" on disk. There are up to three runs, so that a round trip can be
compared with what came before it.
*Blockmaps:* `Half` is 16: the vanilla limit is 15, the extended one 30, and
four lists reach over either. `MaxRuns` is 3.
*Graphics:* two or three columns of up to three posts are enough for one to be
equal to another, to end it, and to have posts to combine; seven columns give
the recursion three levels; a post of 155 or 156 pixels before one of 100
stands just within and just beyond what fits in a byte. `MaxWidth` is 7 and
`MaxHeight` 2, and there are lumps that pass them, or reach neither a column nor
a row, or have no room for a table (`Misfits`); and columns that begin in the
header or the table and end there or behind it (`Stray`). `MaxLength` is never
reached. `MaxRuns` is 3.
*WAD files:* two items, each of up to two lumps, of which each pair of kinds
occurs, some files of four and eight lumps for duplicates and for two levels,
and some of none; `MaxPos` is 14 words, which some pass in their first run, some
only when they are decompressed, and others never. Three runs with all methods
or none, so that a round trip comes back to a file seen before.

**Fairness.** `SystemsSpec` of `MCSystems` has weak fairness of the steps of each
process, which the scheduler of the operating system gives, and none of
`Crash`. `Termination` then says that no process waits for another and that the
search for a name ends. Weak fairness in `Sidedefs` says that a sequential
program goes on as long as it can; `RunsEnd` fails if it can not.

**What the violations show.**

* *Decompressing on a full disk loses the WAD.* `Decompress` never calls
  `FileSize` on its output, whose `fseek` is where `Compress` notices
  (`main.c:607`). `rewind` reports nothing and the result of `fclose` is
  dropped, so a short file is renamed over the original and the exit status is
  0. `main.c:643` and `NEWS.md:142` promise otherwise.
* *Overflowed blockmaps are unstacked.* Only `B_Stack` looks
  (`blockmap.c:297`); `NEWS.md:81` says no attempt is made to process them.
* *A suffix can begin beyond the vanilla limit*, because the limit is compared
  with where the whole list begins (`blockmap.c:203`), against the comment at
  `blockmap.c:129`. `BlockmapRuns` has lumps at both limits but no list that
  ends another one there. With `-extblocks` the offset can wrap round, and then
  the block loses its list: `KeepsLists` fails for `Lumps <- WrappingLumps`.
* *Squashing can change a picture that is squashed already.* `CombinePosts`
  moves the bytes of a column while other columns lie on them
  (`graphics.c:89-91`). A column that is the end of another is then read from
  where it no longer is. This takes a graphic with posts to combine whose
  columns are shared, which wadptr itself does not leave behind, but a version
  before posts were combined, or another tool, may. `run_tests.sh:87-88` asks
  for the same contents after decompression.
* *A WAD of empty lumps only is destroyed.* Only `WriteWadLump` makes room for
  the header. Where no lump is written the directory goes to offset 0, and the
  header over its first entry (`waddir.c:182-190`); `-d` and `-nomerge` replace
  the file with the result. With merging the second pass cannot read the lump
  of the overwritten entry, and the program ends with the file as it was.
* *The rows of the table do not add up* for a file with junk in it that is
  merged, which is the default. The row of merging is what remains of the total
  (`main.c:626`), from which the junk is not taken though it has a row of its
  own, so that it is counted twice. `NEWS.md:36-37` says that the table lists
  how many bytes were saved through which method. What each row has instead is
  in `TableTrue`.

Four more violations appear when the constants of the runs are changed, and
follow from the same actions: with `-d -o` and an output in another file system
`RenameInDirectory` fails, because `Decompress` makes its temporary file beside
the input (`main.c:781`) and `Compress` beside the output (`main.c:560`); with
`Faults` "transient" `ReplacedWhole` fails for `Compress` too (the flush in
`rewind` fails, the one in `FileSize` does not); with `Windows` it fails
because the target is removed before the rename (`main.c:648`), where
`NEWS.md:142-144` promises an atomic rename on every system, and
`OutputsPrivate` fails because `EXCLUSIVE` is empty.

## 4. Theorems

**File replacement** (`WadRewriteProofs`), for every number of instances,
files, directories, games and temporary names, every command line, and crashes
between any two steps. The assumptions on the constants are the `ASSUME`s of
`WadRewrite`: names, inodes and None are different things, an argument list is
a sequence of files, and the check `ParseCommandLine` makes of `-o`.

* `TypeCorrect`: `TypeOK` always holds, on any system and with any faults.
* `Invariance`: the inductive invariant `IInv`, given `Posix` (not Windows).
* `OutputsArePrivate`, `TemporariesAccounted`: `OutputsPrivate` and
  `TempsAccounted`, given `Posix`. They hold whatever cannot be written,
  created, removed or renamed.
* `RenamesInDirectory`: `RenameInDirectory` on any system, given
  `OutputsBesideInputs`: `-d -o` names a file in the directory of its input, in
  which `Decompress` makes the temporary file.
* `TargetsReplacedWhole`: `ReplacedWhole`, given `Posix` and `Reliable` (no
  flush fails; or a full disk stays full and all instances compress).
* `Implements`: `WadRewrite` implements `AtomicReplace`, likewise.
* `NothingFails`: `NeverFails`, for runs of `HealthySpec` (the inputs are whole
  PWADs), given `Posix`, `OutputsBesideInputs`, `Faults` "none", a file on each
  command line and `NamesEnough`: two temporary names for each instance and one
  for each file that earlier runs have left. the healthy system of
  `RewriteSystems` has exactly four names for its two instances.

These are the cases in which the code keeps its promise: the runs that are
violated, and the variations above, are the others.

*The argument.* `ReplacedWhole` needs to know that what `Rename` moves is
whole. `Progress` says it for every `pc`: each part of the new WAD is in the
file or still in the buffer; after a failed flush the disk is full, and
`CheckSize`, which is still to come, will fail. That is about the inode an
instance writes, so nobody else may write it: `Streams` says which inode that
is, `Names` that temporary names belong to one instance each, and `NoLinks`
that different names lead to different inodes. These are not consequences of
the properties, and none of them is inductive without the others. The
preservation proof has one lemma for each action (`OpenStep`, `CreateStep`,
...); what a step of one instance leaves of the others' part is said once, in
`OthersKeep`, and `Assemble` puts the parts together.

What is about the contents of files is said on the condition that writes are
reliable, within `ProgressOf`; who has which file does not depend on it.
`TempInv` adds who a temporary file belongs to: its name was taken by `Create`,
and only its owner removes or renames it. `PlaceInv` needs none of this, only
that a temporary name keeps its directory while the argument is the same.

The refinement needs one more invariant, `Sources`: an open input keeps the
directory and header that were read, because nobody writes to the inode, though
its name may long lead elsewhere. `StepRefines` then maps the opening of a whole
input to `Begin`, the `Rename` to `Commit`, an end before it to `GiveUp`, and
all else to a stutter.

`NeverFails` rests on all of these, on `Healthy` (every target is a whole WAD,
and so is what is open), and on a search for a name that does not run out. The
names ahead of a search may be taken and given back while it goes on, so it is
not enough to count those that are taken at any one time. `SearchInv` counts
whoever has come as far as a name, with a file of that number or higher or with
a search for one: whoever goes past a name that is taken leaves its holder
behind, so k names further on there are k fewer, apart from names that litter
has.

**Sorted maps** (`SortProofs`), for any number of elements and any keys, with no
assumption.

* `SortInvariance`: the inductive invariant `SortInv`.
* `SortIsAscending`: each element of the result comes before the next ones.
* `SortIsRight`: the result is `SortedMap`, the reference by ranks. That and the
  fact that `Before` is a strict total order is all the codecs know of it.
* `SortIsShallow`: `Shallow`, the depth of the recursion for keys in order.

*The argument.* Why is the result sorted when each call only ever sorts its own
part? Because two elements that no call has in common are already in order:
this is the centre of `SortInv`. It holds at first because the one call has all
elements. `PlacePivot` splits a call, so it must know that the elements before
the pivot's place are smaller and the others are not, which is the invariant of
the loop (`Partitioned`). For a step of one call to leave the other calls alone
their parts must not meet (`CallsApart`), and for no element to be lost the map
must stay a permutation: while the pivot is out of the array, the map with the
pivot put back at the end of the part (`Whole`). When no call is left, no two
elements have one in common. For keys that are in order at first, `AtHome` says
where everything is at each point: an element is at its own place, except that
the last one of a part is in the middle while the pivot is out. So the pivot
returns to the middle, and the size of a part times `TwoTo[depth]` cannot grow.

**Sidedefs** (`SidedefsProofs`, `Ranks`), for any levels, any width of
references and any sequence of runs, with the `ASSUME`s of `Sidedefs` alone.

* `SidedefsInvariance`: the inductive invariant `SidedefsInv`.
* `SidedefsTypeOK`, `RefsStayInArrays`: `TypeOK`, and `RefsInArrays`, which
  makes the unchecked array accesses of `RemapLinedefs` safe.
* `EveryLineIsKept`: `KeepsEveryLine`, over all runs there have been.
* `SharingIsAlike`, `PackingIsFull`, `UnpackingIsFull`, `VanillaIsSafe`:
  `OnlyAlikeShare`, `FullyPacked`, `FullyUnpacked`, `VanillaStaysVanilla`.
* `LevelsRepeatable`: `Repeatable`.

*The argument.* `Rebuilt(n)` says that the first n lines have sidedefs of their
own, alike to those that they had, and that no sidedef lacks a line. The list of
a level being unpacked is that. For packing, the sorted map is a permutation in
strict order: `Ranks` proves, by the pigeonhole principle, that each rank is
that of one element. Alike sidedefs of the same domain are then neighbours, for
whatever lies between two of them in the order is alike to both, so comparing
with the previous one alone (`sidedefs.c:454`) finds all. `Numbered(n)` is what
`MergeSidedef` has done for the first n: two have the same number if and only
if they are alike and not special. Remapping carries this over to the lines
(`Made`), the checks against the limit give the originals back or a result
whose references fit, and `Outcome` keeps one of the two until it is written.
`SoFar` is the relation `Keeps` between the first level and the last: it is
transitive, also where `-wipesides` was given in some of the runs. For
`Repeatable`, `Makes(c, l, n)` says of two levels alone that `n` is what the
command `c` makes of `l`: the sidedefs are numbered in the order `Sorts`, two
sides that come in neither order have one number, and each sidedef is what one
of its sides is due. A numbering in an order is the only one (`OneNumbering`),
so a level that is already in order (`Settled`) stays (`SettledStays`), also if
it was unpacked in between (`UnpackedSpread`); and a level that is left alone
because packing does not fit cannot be unpacked, as that needs no fewer numbers
(`FewerNumbers`). `RunInv` is what the steps keep of it: copies are appended in
the order of the lines (`OneByOne`), and numbers ascend along the map
(`InTurn`).

**Blockmaps** (`BlockmapProofs`, `Ranks`), for any lumps, any width of words and
any sequence of runs, if every list has an end within the lump (`EndsFound`).

* `BlockmapInvariance`: the inductive invariant `BlockmapInv`.
* `BlockmapTypeOK`, `BlocksUnstacked`: `TypeOK` and `FullyUnstacked`.
* `StackInvariance`, `BlocksStacked`: every list that has been placed is at its
  block's offset, and `FullyStacked`, as long as `SharedFits`: where a list is
  found in another one, an offset can reach it.
* `BlockListsKept`: `KeepsLists`, likewise, for lumps that hold the lists they
  were meant to (`Meant`) unless they overflow.
* `VanillaKept`: `VanillaStaysVanilla`, as long as `SharedSigned`: without
  `-extblocks` a signed offset can reach it.
* `BlocksRepeatable`: `Repeatable`, as long as `SharedFits`.
* `OffsetsReach`, `UnnestedKept`: if no list of a lump is the end of a longer one
  (`NoneNested`), then `SharedFits` and `SharedSigned` always hold, and with them
  all of the above.

`SharedFits` and `SharedSigned` are what the code does not check
(`blockmap.c:196`): without them the theorems are false, as `BlockmapSuffix` and
`WrappingLumps` show. `NoneNested` is a sufficient reason for both that only
looks at the lumps there are at first; it can hold of lumps whose offsets have
wrapped as well. TLC has evaluated `EndsFound` and `Meant` for the lumps of each
run (`LumpsRead`), `NoneNested` for the tall ones (`TallUnnested`), and, before
the proofs, both conditions as invariants of `BlockmapRuns`.

*The argument.* `Begun` says what `Check` leaves: the header, room for the
table, and a map with each block once, which is `SortedMap` by ranks (`Ranks`)
with one element moved. `Settled(k)` says what `PlaceBlock` has done for the
k-th block: its list lies where it was appended, no further than the limit, or
its offset is the one computed from the first list that ends with its own. That
one was appended itself, since the end of an end is an end
(`FirstWasAppended`), so what is read through the offset is the list, if the
sum is still a word (`SharedLies`). Filling in one offset and appending leaves
the others settled, because no list lies in the table (`OthersStay`), and
since a list has one sentinel, at its end, what lies at an offset is what is
read there (`ListThere`). `Apart` says that when unstacking each word behind the
table is in one list. Stacking is complete because of the first match: two
blocks with the same list have the same first match, or one is the match of the
other (`SameListSamePlace`). For `Repeatable`, `Laid(c, e)` says of a lump alone
what the command `c` makes of lists: in map order, each lies behind all earlier
ones or ends where the first one that ends with it does, none beyond the limit,
and nothing else is behind the table. That determines the lump (`LaidOnce`); a
loop that gives up shows that there is no such lump (`NoRoom`); and an unstacked
lump is never taken for one that overflowed (`UnstackedFits`). `Ran` is what a
run made of the lump before it, kept by each loop (`RunInv`).

**Graphics** (`GraphicsProofs`, `SortProofs`, `Ranks`), for any lumps and any
sequence of runs. Without any assumption:

* `GraphicsTypeOK`: `TypeOK`.
* `ColumnsSorted`, `ColumnsSortedShallowly`: `SortsRight` and `Shallow`, for the
  sort of the columns by length.
* `SquashedIsListed`: `ListedRight`, what `wadptr -l` calls squashed.

And if the graphics there are at first are tidy (`LumpsTidy`):

* `PictureIsKept`: `PictureKept`, the pixels after any sequence of runs.
* `TurnsStayInLump`: `StaysInLump`, which makes the loop of `CombinePosts` safe.
* `SquashedFully`, `UnsquashedFully`: `FullySquashed` and `FullyUnsquashed`.
* `GraphicsRepeatable`: `Repeatable`.

A graphic is tidy if the posts of each column ascend without overlapping, and
only a column that shares no byte with another one, with the table or with the
header has posts to join. Without
the latter the theorems are false, as `GraphicsShared` shows; the former is the
exception named in section 5. Tools that know nothing of sharing write tidy
graphics, and wadptr leaves tidy ones. TLC has evaluated `LumpsTidy` for the
lumps of `GraphicsRuns` (`SomeTidy`).

*The argument.* A column is read by going from one post to the next, which is
recursion over its bytes: `ColumnEnd` and `Posts` are recursive functions, shown
to exist from the end of the lump downwards (`EndExists`; `Downwards` in
`Ranks`), and what is said of all posts of a column is proved in the same
direction. `FrameInv` has the types, the columns within the lump, and the sort.
`RunInv` is about the columns in memory: each shows what it shows on disk and
is no longer than there (`ColumnKept`). The loop only ever
joins a post to the first of its column, so what it has to know at offset `i` is
that a post begins there, and that if it is not the first one there is nothing
left to join to that (`Reached`). Because the column is alone on its bytes, the
move leaves the others as they were. `PlaceInv` says that each column that has
been placed has its bytes in the result where its offset is, `KeptInv` carries
the pixels over from run to run. For `Repeatable`, `HistoryInv` says of each run
that what it made is laid out as its operation lays graphics out (`Laid`), or is
the lump there was. Being laid out is a property of the lump alone and
determines it, for columns of the same contents (`LaidOnce`); so what a second
run makes is what there was already.

**WAD files** (`WadFileProofs`, `WadFileKept`), for any files, names, things and
forms, any limit and any sequence of runs. The assumptions are the `ASSUME`s of
`WadFile`.

* `WadFileTypeOK`: `TypeOK`, with the bound on every position that is written.
* `PassInvariance`: the inductive invariant `PassInv`.
* `NoLumpIsLost`: `PassesKeep`. Both passes overwrite the directory while they
  read through it, the second one in the order of the map; each lump they have
  gone over can be read in full from the new file and is the thing it was.
* `KeptInvariance`: the inductive invariant `KeptInv`.
* `WhateverRunsThereAre`: `LumpsKept`, after any sequence of runs.
* `NothingElseIsWritten`: `TightLayout`.
* `RunsRepeat`: `Repeatable`, word for word.
* `TableTold`: `TableTrue`, what each row of the table is about: the junk, what
  each codec has saved, and for merging the lumps that are not written twice,
  with the junk once more.

The last five have two hypotheses about the files there are at first.
`NotAllEmpty`: each has a lump that is not empty, without which the file is
destroyed (`WadFileMarkers`). `ConsolesMarked`: a file with a level in a
console's format has a LEAFS or LIGHTS lump, by which `IsPlaystationWad` knows
it. The files of `WadFileRuns` fulfil the second, and but for those with
nothing to write the first. `TableTold` has two more, which they fulfil too.
`AllClear`: no lump lies over the header or the directory, whose words would be
counted twice. `LinesEven`: LINEDEFS are as long packed as unpacked. `P_Pack` and
`P_Unpack` put other numbers into them and leave the rest, and only SIDEDEFS are
counted (`main.c`, `TryPack`).

*The argument.* `PassesKeep` says what has been written and that the rest of
the directory is as it was read. It is not inductive: a lump written earlier
stays readable only because a file grows at its end (`WithLump` keeps what is
there, given that it has a header, which is empty or complete); the deferral of
LINEDEFS is safe only because the next turn is that of a SIDEDEFS entry, which
writes both; a lump found by `FindExistingLump` has the contents only because
each element of `lumps` is where it is said to be; and the second pass reaches
each entry once only because the map has no element twice, which is `SortInv`,
proved in `SortProofs` for the same steps (`SortStepKeeps`). The type invariant
is part of it: an offset read from a directory is a number, because `Number`
makes it one.

For what a whole run does, `KeptInv` has the first pass keep the lumps of
levels in step (`Unison`) and write each lump to words of its own, which leave
no gap between the header and the end of the file (`LumpsApart`, `NoGaps`). The
directory that is read back is then the one that was written, because each
entry is four words and the header says where the first is. In the second pass
the map reaches every entry (`SortInv` again), each content is in the list of
lumps once, and every one in the list has an entry (`AllPlaced`, `AllOwned`,
`MergedApart`). `Ready` relates the file between runs to the first one, by a
relation that is transitive, with the magic and the marks of a console's file
kept so that the next run takes it for what it was.

For `Repeatable`, `RanAs(c, f, g)` says of two files alone that `g` is what the
command `c` makes of `f`. Each lump is what the command asks for where that can
be had (`Makes`; LINEDEFS and SIDEDEFS change together or not at all, `Moves`);
the lumps lie one behind the other in the order they are written, which when
merging is by rank of name and only the first of each content (`LaidOut`); and
the words are those of the header, the lumps and the directory (`Neat`). This
determines the file (`OneLayout`, `OneFile`), so a second run of the same
command finds nothing to change (`MadeAgain`). If runs of other commands have
come between, what no command can recode is as it was at first (`Settled`), and
all else a full run recodes again (`MadeAlike`). `FirstMade` and `SecondMade`
are what the passes keep of it, `Told` says it of every run so far, and
`RepeatInv` joins them to `KeptInv`.

For `TableTrue`, `Balance` says that what the methods have saved so far is what
the lumps amounted to in the old directory less what they amount to in the new
one: each turn changes the length of one entry (`AmountChanges`, `TurnBalances`),
the second pass none, and the directory that is read back is the one written.
`Closed` is what remains of it at the end, with the row for merging. How this
relates to the length of the file follows from `TightLayout`: the words between
the header and the directory are those of the lumps, each once, so that there are
as many as the lumps amount to, without the doubles when merged (`AmountCounts`,
`TightLong`). `Amount` is a recursive function of the number of the entry.
`SumsExist` and `SumsOf` (`Ranks`) show that such a function exists and is the
sum it is meant to be, from the least number at which it might not be; sums are
then added and split entry by entry, without induction over sequences.

What is only model-checked: liveness (`Termination`, `RunsEnd`), because it is
beyond the prover under fairness.

## 5. Not modelled

* Lists of a blockmap that have no end within the lump, and BLOCKMAP lumps of an
  odd number of bytes: what the code does then is undefined, or loses the byte.
* The failure of the machine after a rename that was not synchronised.
* SHA-1: a hash of bytes. Different lumps are assumed to have different hashes.
* The parsing of the command line, usage text, messages, progress and the
  formatting of the listing: sequential code over strings.
* `CheckedRealloc` running out of memory: it ends the program, as `Crash` does.

Where a property has an exception, its formula states it and these are the
reasons:

* *Blockmaps that overflow*: `B_Unstack` does not look for them, which is the
  finding of `BlockmapCorrupt`. `LumpsKept` and `PassesKeep` leave out what they
  hold, and `Repeatable` the runs between which one may have been unstacked.
* *Posts that overlap or go back* (`graphics.c:76-82`): the post after `i` is
  compared with the first of the column. `MCGraphics` has the posts that tools
  write, which ascend; of others the comparison may join two that do not meet.
* *A squashed graphic of 4096 or 4000 bytes* is taken for a flat and never
  unsquashed. `Repeatable` of `Graphics` leaves it out; its pixels are kept.
* *A WAD of empty lumps*: `WadFileRuns` has such files, compressed with
  merging; `WadFileMarkers` is the rest.
* *Levels that cannot be unpacked*: `Repeatable` of `WadFile` compares a run
  with an earlier one across others only if each thing in the file can be made
  small and made plain, or neither, and is never shorter than when it is small
  (`Docile`). One that can go only one way may have gone it in between.

## 6. Plan

Done, in this order: file replacement with its abstract specification and
proofs, because it decides whether a WAD survives; sidedefs and blockmaps,
because they rewrite what levels mean; the quicksort, on which both rely and
which could be proved right; graphics; the layout of files with both passes,
and the proof that neither loses a lump; then the proofs about levels, about
blockmaps, about files over many runs, and about graphics, each with what
repeated runs do, and about what the table tells. Of the safety properties
that the passing runs check none is left without a theorem.
