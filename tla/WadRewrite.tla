----------------------------- MODULE WadRewrite -----------------------------
(***************************************************************************)
(* How wadptr replaces a file (main.c, waddir.c): several instances run at *)
(* once on one file system, each working through the WADs of its command   *)
(* line.  A WAD is rewritten into a temporary file, in two passes when it  *)
(* is compressed with merging, and the temporary file is renamed over the  *)
(* output.                                                                 *)
(*                                                                         *)
(* A file is an inode with three parts - the lumps, the directory and the  *)
(* header - each holding the part of some game's WAD or not.  A file is a  *)
(* whole WAD when its three parts belong to one game.  What is written     *)
(* goes through the stdio buffer of the stream and reaches the file when   *)
(* the buffer is flushed, which may fail.                                  *)
(*                                                                         *)
(* Definitions marked "fault" are variants of the next definition with a   *)
(* mistake in them; the properties are tried against them.                 *)
(***************************************************************************)
EXTENDS Naturals, Sequences, FiniteSets, Functions

CONSTANTS Proc,       \* instances of the program
          Target,     \* WAD file names
          Dir,        \* directories, each a file system of its own
          Inode,
          Game,       \* what a WAD may hold
          Empty,      \* what a WAD without lumps holds
          Iwad,       \* the games held by IWADs
          Args,       \* Args[p]: the files on the command line of p
          Cmd,        \* Cmd[p]: "compress" or "decompress"
          OutputWad,  \* OutputWad[p]: the file named by -o, or None
          Home,       \* the directory of each WAD file
          AllowMerge, \* FALSE with -nomerge
          MaxTemp,    \* names a temporary file may have; 100 in the code
          Litter,     \* temporary files left there by earlier runs
          FirstInode, \* the inode each file has at first
          Faults,     \* may the system refuse to write, create, remove or
                      \* rename, and does what makes a write fail go away
          Windows,    \* compiled for _WIN32
          None

Commands == {"compress", "decompress"}
FaultModels == {"none", "sticky", "transient"}

ASSUME FileAssumption ==
  /\ Home \in [Target -> Dir]
  /\ None \notin Game \cup Inode \cup Target
  /\ Empty \in Game
  /\ Iwad \subseteq Game
  /\ MaxTemp \in Nat \ {0}

ASSUME CommandAssumption ==
  /\ Args \in [Proc -> Seq(Target)]
  /\ Cmd \in [Proc -> Commands]
  /\ OutputWad \in [Proc -> Target \cup {None}]
  \* main.c:307: -o takes a single input file
  /\ \A p \in Proc : OutputWad[p] # None => Len(Args[p]) <= 1
  /\ AllowMerge \in BOOLEAN
  /\ Windows \in BOOLEAN
  /\ Faults \in FaultModels

\* The names ".wadptr-temp-000" and so on, in each directory.
Temp == [in : Dir, num : 0 .. MaxTemp - 1]

ASSUME PathAssumption == Temp \cap (Target \cup {None}) = {}

Path == Target \cup Temp

\* For AtomicReplace: an order is not mistaken for its absence.
ASSUME OrderAssumption == None \notin [game : Game, dest : Target]

ASSUME LitterAssumption ==
  /\ Litter \subseteq Temp
  /\ FirstInode \in [Target \cup Litter -> Inode]
  /\ \A f, h \in Target \cup Litter : FirstInode[f] = FirstInode[h] => f = h

Part == {"lumps", "dir", "header"}

\* What a stream can have in its buffer.  "stray" is a header that was
\* written with the stream at the wrong place.
Piece == Part \cup {"stray"}

VARIABLES
  dir,    \* the inode each path names, or None
  data,   \* the contents of each inode, part by part
  full,   \* a flush has failed for want of space that never comes back
  pc,     \* where each instance is
  pos,    \* the command line argument it is at
  failed, \* main()'s !success
  pass,   \* 2 while it is writing the merged file
  tryno,  \* the number of the temporary name it is trying
  src,    \* inode open for reading
  dst,    \* inode open for writing
  buf,    \* what waits in the buffer of dst's stream
  tmp,    \* name of the temporary file being written
  old,    \* name of the first pass' temporary file, in the second pass
  game,   \* what the open input holds
  left    \* history: temporary files that could not be removed

vars == <<dir, data, full, pc, pos, failed, pass, tryno, src, dst, buf, tmp,
          old, game, left>>

Exited == {"exit0", "exit1", "crashed"}

Label == Exited \cup {"open", "probe", "create", "lumps", "entries",
                      "rewind", "size", "close", "reopen", "rmtemp",
                      "rmtarget", "rename"}

\* Where an instance has a temporary file open for writing, and where it has
\* made one that is still to be used.
Working == {"lumps", "entries", "rewind", "size", "close"}
Owning == Working \cup {"reopen", "rmtemp", "rmtarget", "rename"}

\* In the second pass there is a first temporary file, up to its removal.
NeedsOld(p) ==
  \/ pc[p] = "rmtemp"
  \/ pass[p] = 2 /\ pc[p] \in Working \cup {"probe", "create"}

TypeOK ==
  /\ dir \in [Path -> Inode \cup {None}]
  /\ data \in [Inode -> [Part -> Game \cup {None}]]
  /\ full \in BOOLEAN
  /\ pc \in [Proc -> Label]
  /\ pos \in [Proc -> Nat \ {0}]
  /\ \A p \in Proc : pc[p] \notin Exited => pos[p] \in DOMAIN Args[p]
  /\ failed \in [Proc -> BOOLEAN]
  /\ pass \in [Proc -> {1, 2}]
  /\ tryno \in [Proc -> 0 .. MaxTemp]
  /\ \A p \in Proc : pc[p] = "create" => tryno[p] < MaxTemp
  /\ src \in [Proc -> Inode \cup {None}]
  /\ dst \in [Proc -> Inode \cup {None}]
  /\ buf \in [Proc -> SUBSET Piece]
  /\ tmp \in [Proc -> Temp \cup {None}]
  /\ \A p \in Proc : pc[p] \in Owning => tmp[p] # None
  /\ old \in [Proc -> Temp \cup {None}]
  /\ \A p \in Proc : NeedsOld(p) => old[p] # None
  /\ left \subseteq Temp
  /\ game \in [Proc -> Game \cup {None}]

-----------------------------------------------------------------------------
(* The files *)

\* The inode holds the whole WAD of a game.
IsWad(i, g) == \A x \in Part : data[i][x] = g

\* The game in an inode, None unless the WAD is whole.
Holds(i) == IF IsWad(i, data[i]["header"]) THEN data[i]["header"] ELSE None

Content(t) == IF dir[t] = None THEN None ELSE Holds(dir[t])

InUse(i) == i # None /\ \E p \in Proc : i \in {src[p], dst[p]}

Unused(i) == ~InUse(i) /\ \A f \in Path : dir[f] # i

Blank == [x \in Part |-> None]

Landed(i, pieces, g) ==
  [data EXCEPT ![i] = [x \in Part |-> IF x \in pieces THEN g ELSE @[x]]]

-----------------------------------------------------------------------------
(* The command line *)

Input(p) == Args[p][pos[p]]

Output(p) == IF OutputWad[p] # None THEN OutputWad[p] ELSE Input(p)

\* The argument OpenTempFile() is given, which Decompress() and Compress()
\* do not choose alike.
\* fault: always beside the input
TempBesideInput(p) == Input(p)
TempBeside(p) == IF Cmd[p] = "compress" THEN Output(p) ELSE Input(p)

TempName(p, n) == [in |-> Home[TempBeside(p)], num |-> n]

-----------------------------------------------------------------------------
(* Steps shared by the actions *)

Goto(p, label) == pc' = [pc EXCEPT ![p] = label]

CloseFiles(p) ==
  /\ src' = [src EXCEPT ![p] = None]
  /\ dst' = [dst EXCEPT ![p] = None]
  /\ buf' = [buf EXCEPT ![p] = {}]

\* The process ends; the files it was writing stay.
Exit(p, code) ==
  /\ Goto(p, code)
  /\ CloseFiles(p)
  /\ UNCHANGED <<dir, pos, failed, pass, tryno, tmp, old, game>>

ErrorExit(p) == Exit(p, "exit1")

\* main() goes on to the next argument.
\* fault: one argument too many
MoreArgsOffByOne(p) == pos[p] <= Len(Args[p])
MoreArgs(p) == pos[p] < Len(Args[p])

\* DoAction() returns to the loop in main().
Return(p, success) ==
  LET f == failed[p] \/ ~success IN
  /\ failed' = [failed EXCEPT ![p] = f]
  /\ IF MoreArgs(p)
     THEN pos' = [pos EXCEPT ![p] = @ + 1] /\ Goto(p, "open")
     ELSE Goto(p, IF f THEN "exit1" ELSE "exit0") /\ UNCHANGED pos

\* A flush reaches the file: there is room, or what is written only
\* overwrites the blank header the file began with.
FlushWorks(p) == ~full \/ buf[p] \subseteq {"header"}

\* A flush fails: stdio forgets what did not reach the file.
FlushFails(p) ==
  /\ Faults # "none" /\ buf[p] # {}
  /\ full' = (Faults = "sticky")
  /\ \E some \in SUBSET buf[p] \ {buf[p]} :
       data' = Landed(dst[p], some, game[p])

-----------------------------------------------------------------------------
(* Opening the input and a temporary file *)

\* OpenWadFile() of the input, and IwadWarning().
Open(p) ==
  LET i == dir[Input(p)] IN
  /\ pc[p] = "open"
  /\ \/ /\ i = None
        /\ Return(p, FALSE)
        /\ UNCHANGED <<src, game, tryno, pass, dst, buf, tmp, old>>
     \/ /\ i # None
        /\ data[i]["header"] = None \/ data[i]["dir"] # data[i]["header"]
        /\ src' = src /\ ErrorExit(p)
     \/ /\ i # None /\ data[i]["header"] \in Game
        /\ data[i]["dir"] = data[i]["header"]
        /\ \/ /\ src' = [src EXCEPT ![p] = i]
              /\ game' = [game EXCEPT ![p] = data[i]["header"]]
              /\ tryno' = [tryno EXCEPT ![p] = 0]
              /\ pass' = [pass EXCEPT ![p] = 1]
              /\ Goto(p, "probe")
              /\ UNCHANGED <<pos, failed, dst, buf, tmp, old>>
           \/ /\ data[i]["header"] \in Iwad /\ OutputWad[p] = None
              /\ Return(p, FALSE)
              /\ UNCHANGED <<src, game, tryno, pass, dst, buf, tmp, old>>
  /\ UNCHANGED <<dir, data, full, left>>

\* The loop in OpenTempFile() over the names.
\* fault: the same name again
NextTryForgotten(p) == UNCHANGED tryno
NextTry(p) == tryno' = [tryno EXCEPT ![p] = @ + 1]

\* OpenTempFile(): FileExists() of the next name.
Probe(p) ==
  /\ pc[p] = "probe"
  /\ \/ /\ tryno[p] = MaxTemp
        /\ ErrorExit(p)
     \/ /\ tryno[p] < MaxTemp
        /\ IF dir[TempName(p, tryno[p])] # None
           THEN NextTry(p) /\ UNCHANGED pc
           ELSE Goto(p, "create") /\ UNCHANGED tryno
        /\ UNCHANGED <<dir, pos, failed, pass, src, dst, buf, tmp, old, game>>
  /\ UNCHANGED <<data, full, left>>

\* The "x" in the mode fopen() is given.
\* fault: the mode is "w" everywhere
NeverExclusive == FALSE
Exclusive == ~Windows

\* OpenTempFile(): fopen() of the name.
Create(p) ==
  LET name == TempName(p, tryno[p]) IN
  /\ pc[p] = "create"
  /\ \/ /\ dir[name] = None
        /\ \E i \in Inode :
             /\ Unused(i)
             /\ dir' = [dir EXCEPT ![name] = i]
             /\ dst' = [dst EXCEPT ![p] = i]
             /\ data' = [data EXCEPT ![i] = Blank]
        /\ tmp' = [tmp EXCEPT ![p] = name]
        /\ Goto(p, "lumps")
        /\ UNCHANGED <<pos, failed, pass, tryno, src, buf, old, game>>
     \/ /\ dir[name] # None /\ ~Exclusive
        /\ dst' = [dst EXCEPT ![p] = dir[name]]
        /\ data' = [data EXCEPT ![dir[name]] = Blank]
        /\ tmp' = [tmp EXCEPT ![p] = name]
        /\ Goto(p, "lumps")
        /\ UNCHANGED <<dir, pos, failed, pass, tryno, src, buf, old, game>>
     \/ /\ dir[name] # None /\ Exclusive
        /\ NextTry(p)
        /\ Goto(p, "probe")
        /\ UNCHANGED <<dir, data, pos, failed, pass, src, dst, buf, tmp, old,
                       game>>
     \/ /\ dir[name] = None /\ Faults # "none"
        /\ ErrorExit(p)
        /\ UNCHANGED data
  /\ UNCHANGED <<full, left>>

-----------------------------------------------------------------------------
(* Writing the new WAD *)

\* The loop over the lumps (Compress, Decompress, RebuildMergedWad): each is
\* read from the input and written, and what is written may stay in the
\* buffer.  A read or a write that fails ends the program.  Without an input,
\* which Reopen() makes possible, there is no lump to read or to write.
WriteLumps(p) ==
  /\ pc[p] = "lumps"
  /\ \/ /\ src[p] = None
        /\ data' = Landed(dst[p], {"lumps"}, game[p])
        /\ Goto(p, "entries")
        /\ UNCHANGED <<dir, full, pos, failed, pass, tryno, src, dst, buf, tmp,
                       old, game>>
     \/ /\ src[p] # None /\ data[src[p]]["lumps"] # game[p]
        /\ ErrorExit(p)
        /\ UNCHANGED <<data, full>>
     \/ /\ src[p] # None /\ data[src[p]]["lumps"] = game[p]
        /\ \/ buf' = [buf EXCEPT ![p] = {"lumps"}] /\ UNCHANGED data
           \/ ~full /\ data' = Landed(dst[p], {"lumps"}, game[p])
                    /\ UNCHANGED buf
        /\ Goto(p, "entries")
        /\ UNCHANGED <<dir, full, pos, failed, pass, tryno, src, dst, tmp,
                       old, game>>
     \/ /\ Faults # "none" /\ src[p] # None
        /\ full' = (Faults = "sticky")
        /\ ErrorExit(p)
        /\ UNCHANGED data
  /\ UNCHANGED left

\* WriteWadDirectory(): the entries.
WriteEntries(p) ==
  /\ pc[p] = "entries"
  /\ \/ /\ \/ buf' = [buf EXCEPT ![p] = @ \cup {"dir"}] /\ UNCHANGED data
           \/ /\ ~full
              /\ data' = Landed(dst[p], buf[p] \cup {"dir"}, game[p])
              /\ buf' = [buf EXCEPT ![p] = {}]
        /\ Goto(p, "rewind")
        /\ UNCHANGED <<dir, full, pos, failed, pass, tryno, src, dst, tmp,
                       old, game>>
     \/ /\ Faults # "none"
        /\ full' = (Faults = "sticky")
        /\ ErrorExit(p)
        /\ UNCHANGED data
  /\ UNCHANGED left

\* Only Compress() asks for the size of what it wrote.
\* fault: nobody asks
NoSizeCheck(p) == "close"
AfterHeader(p) == IF Cmd[p] = "compress" THEN "size" ELSE "close"

\* WriteWadHeader(): rewind() flushes, and nobody hears of it when it fails;
\* the header is then written wherever the stream is.
WriteHeader(p) ==
  /\ pc[p] = "rewind"
  /\ \/ /\ FlushWorks(p)
        /\ data' = Landed(dst[p], buf[p], game[p])
        /\ buf' = [buf EXCEPT ![p] = {"header"}]
        /\ UNCHANGED full
     \/ /\ FlushFails(p)
        /\ buf' = [buf EXCEPT ![p] = {"stray"}]
  /\ Goto(p, AfterHeader(p))
  /\ UNCHANGED <<dir, pos, failed, pass, tryno, src, dst, tmp, old, game,
                 left>>

\* FileSize() of the output: only Compress() calls it, and its fseek()
\* flushes.
CheckSize(p) ==
  /\ pc[p] = "size"
  /\ \/ /\ FlushWorks(p)
        /\ data' = Landed(dst[p], buf[p], game[p])
        /\ buf' = [buf EXCEPT ![p] = {}]
        /\ Goto(p, "close")
        /\ UNCHANGED <<dir, full, pos, failed, pass, tryno, src, dst, tmp,
                       old, game>>
     \/ FlushFails(p) /\ ErrorExit(p)
  /\ UNCHANGED left

\* What precedes the rename, and what follows the closing of the output.
\* fault: the target is removed everywhere
RemoveFirst == "rmtarget"
BeforeRename == IF Windows THEN "rmtarget" ELSE "rename"

\* fault: the first temporary file is not removed
KeepFirstTemp(p) ==
  IF Cmd[p] = "compress" /\ AllowMerge /\ pass[p] = 1 THEN "reopen"
  ELSE BeforeRename
AfterClose(p) ==
  IF Cmd[p] = "compress" /\ AllowMerge
  THEN IF pass[p] = 1 THEN "reopen" ELSE "rmtemp"
  ELSE BeforeRename

\* fclose() of the output, whose result nobody looks at, and CloseWadFile(),
\* which hands fclose() a null stream when there is no input.
Close(p) ==
  /\ pc[p] = "close"
  /\ \/ /\ FlushWorks(p)
        /\ data' = Landed(dst[p], buf[p], game[p])
        /\ UNCHANGED full
     \/ FlushFails(p)
  /\ CloseFiles(p)
  /\ Goto(p, IF src[p] = None THEN "crashed" ELSE AfterClose(p))
  /\ UNCHANGED <<dir, pos, failed, pass, tryno, tmp, old, game, left>>

-----------------------------------------------------------------------------
(* The merging pass, and the replacement of the output *)

\* OpenWadFile() of the first temporary file.  Nobody looks at its result:
\* when the file has gone, the program goes on with a directory of no lumps.
Reopen(p) ==
  LET i == dir[tmp[p]] IN
  /\ pc[p] = "reopen"
  /\ \/ /\ i # None
        /\ data[i]["header"] = None \/ data[i]["dir"] # data[i]["header"]
        /\ ErrorExit(p)
     \/ /\ \/ /\ i = None
              /\ game' = [game EXCEPT ![p] = Empty]
           \/ /\ i # None /\ data[i]["header"] \in Game
              /\ data[i]["dir"] = data[i]["header"]
              /\ game' = [game EXCEPT ![p] = data[i]["header"]]
        /\ src' = [src EXCEPT ![p] = i]
        /\ old' = [old EXCEPT ![p] = tmp[p]]
        /\ tmp' = [tmp EXCEPT ![p] = None]
        /\ pass' = [pass EXCEPT ![p] = 2]
        /\ tryno' = [tryno EXCEPT ![p] = 0]
        /\ Goto(p, "probe")
        /\ UNCHANGED <<dir, pos, failed, dst, buf>>
  /\ UNCHANGED <<data, full, left>>

\* On Windows a file that is open can be neither removed nor renamed.
Locked(path) == Windows /\ InUse(dir[path])

\* remove() of the first temporary file.  A failure is reported, and the
\* program carries on: the file stays.
RemoveTemp(p) ==
  /\ pc[p] = "rmtemp"
  /\ \/ /\ ~Locked(old[p])
        /\ dir' = [dir EXCEPT ![old[p]] = None]
        /\ UNCHANGED left
     \/ /\ Locked(old[p]) \/ Faults # "none"
        /\ left' = left \cup {old[p]}
        /\ UNCHANGED dir
  /\ old' = [old EXCEPT ![p] = None]
  /\ Goto(p, BeforeRename)
  /\ UNCHANGED <<data, full, pos, failed, pass, tryno, src, dst, buf, tmp,
                 game>>

\* Windows only: remove() of the output, if there is one.
RemoveTarget(p) ==
  /\ pc[p] = "rmtarget"
  /\ \/ /\ \/ Locked(Output(p))
           \/ dir[Output(p)] # None /\ Faults # "none"
        /\ ErrorExit(p)
     \/ /\ ~Locked(Output(p))
        /\ dir' = [dir EXCEPT ![Output(p)] = None]
        /\ Goto(p, "rename")
        /\ UNCHANGED <<pos, failed, pass, tryno, src, dst, buf, tmp, old,
                       game>>
  /\ UNCHANGED <<data, full, left>>

\* rename() neither crosses file systems nor, on Windows, replaces a file or
\* moves one that is open.
CanRename(p) ==
  /\ dir[tmp[p]] # None
  /\ tmp[p].in = Home[Output(p)]
  /\ Windows => dir[Output(p)] = None
  /\ ~Locked(tmp[p])

Rename(p) ==
  /\ pc[p] = "rename"
  /\ \/ /\ CanRename(p)
        /\ dir' = [dir EXCEPT ![Output(p)] = dir[tmp[p]], ![tmp[p]] = None]
        /\ tmp' = [tmp EXCEPT ![p] = None]
        /\ Return(p, TRUE)
        /\ UNCHANGED <<pass, tryno, src, dst, buf, old, game>>
     \/ /\ ~CanRename(p) \/ Faults # "none"
        /\ ErrorExit(p)
  /\ UNCHANGED <<data, full, left>>

-----------------------------------------------------------------------------
(* The system *)

\* The process is killed; also an error found in a lump by one of the
\* schemes, which ends the program while the lumps are being written.
Crash(p) ==
  /\ pc[p] \notin Exited
  /\ Exit(p, "crashed")
  /\ UNCHANGED <<data, full, left>>

Step(p) ==
  \/ Open(p) \/ Probe(p) \/ Create(p)
  \/ WriteLumps(p) \/ WriteEntries(p) \/ WriteHeader(p)
  \/ CheckSize(p) \/ Close(p)
  \/ Reopen(p) \/ RemoveTemp(p) \/ RemoveTarget(p) \/ Rename(p)

\* Every instance has ended, as it should.
Done == (\A p \in Proc : pc[p] \in Exited) /\ UNCHANGED vars

\* What the targets can be at first: absent, not a WAD, a WAD, a WAD cut
\* short of its lumps.
InitialData ==
  {Blank} \cup {[x \in Part |-> g] : g \in Game}
          \cup {[x \in Part |-> IF x = "lumps" THEN None ELSE g] : g \in Game}

Init ==
  /\ \E present \in SUBSET Target :
       dir = [f \in Path |-> IF f \in present \cup Litter THEN FirstInode[f]
                             ELSE None]
  /\ \E kind \in [Target -> InitialData] :
       data = [i \in Inode |-> IF \E t \in Target : dir[t] = i
                               THEN kind[CHOOSE t \in Target : dir[t] = i]
                               ELSE Blank]
  /\ full = FALSE
  /\ pc = [p \in Proc |-> IF Args[p] = <<>> THEN "exit1" ELSE "open"]
  /\ pos = [p \in Proc |-> 1]
  /\ failed = [p \in Proc |-> FALSE]
  /\ pass = [p \in Proc |-> 1]
  /\ tryno = [p \in Proc |-> 0]
  /\ src = [p \in Proc |-> None]
  /\ dst = [p \in Proc |-> None]
  /\ buf = [p \in Proc |-> {}]
  /\ tmp = [p \in Proc |-> None]
  /\ old = [p \in Proc |-> None]
  /\ game = [p \in Proc |-> None]
  /\ left = {}

Next == (\E p \in Proc : Step(p) \/ Crash(p)) \/ Done

Spec == Init /\ [][Next]_vars

-----------------------------------------------------------------------------
(* Properties *)

\* A file on a command line only ever changes to a whole WAD: no step of any
\* instance, and no crash between two steps, leaves a target missing, empty
\* or half written that was not so before (NEWS.md:142, main.c:643).
ReplacedWhole ==
  [][\A t \in Target : Content(t)' # Content(t) => Content(t)' # None]_vars

\* Nobody else reads or writes the file an instance is writing, and no
\* target is that file: what the exclusive fopen() of OpenTempFile() is for
\* (main.c:118).
OutputsPrivate ==
  \A p \in Proc : dst[p] # None =>
    /\ \A q \in Proc \ {p} : dst[p] \notin {dst[q], src[q]}
    /\ dst[p] # src[p]
    /\ \A t \in Target : dir[t] # dst[p]

\* A temporary file was there before, could not be removed, or belongs to an
\* instance that still runs or has failed: success leaves nothing behind but
\* what remove() would not remove (main.c:632).  And the files of an instance
\* are there: nobody removes, renames or replaces the first temporary file
\* before it has been opened again, which OpenWadFile() is not asked about
\* (main.c:616).
TempsAccounted ==
  /\ \A n \in Temp : dir[n] # None =>
       n \in Litter \cup left \/ \E p \in Proc : n \in {tmp[p], old[p]}
  /\ \A p \in Proc : pc[p] = "exit0" => tmp[p] = None /\ old[p] = None
  /\ \A p \in Proc : \A n \in {tmp[p], old[p]} \ {None} : dir[n] # None

\* The rename that ends a run is one the operating system will carry out:
\* the temporary file was made in the directory of the output
\* (OpenTempFile's parameter file_in_same_dir, main.c:90).
RenameInDirectory ==
  \A p \in Proc : pc[p] = "rename" => tmp[p].in = Home[Output(p)]

\* The refinement: an instance holds an order to replace its output from the
\* moment it has opened a whole input.
OrderOf(p) ==
  IF \/ pc[p] \in Exited \cup {"open"}
     \/ src[p] # None /\ ~IsWad(src[p], game[p])
  THEN None
  ELSE [game |-> game[p], dest |-> Output(p)]

Abstract == INSTANCE AtomicReplace WITH
  content <- [t \in Target |-> Content(t)],
  held <- [p \in Proc |-> OrderOf(p)]

\* wadptr does what AtomicReplace promises, with any number of instances at
\* once, each of which may be killed at any point.
ReplacesAtomically == Abstract!Spec

\* Each process keeps being scheduled; nothing makes it crash.
Fairness == \A p \in Proc : WF_vars(Step(p))

\* Every instance comes to an end, whatever the others do: nobody waits for
\* anybody, and the search for a temporary name is bounded.
Termination == <>(\A p \in Proc : pc[p] \in Exited)

-----------------------------------------------------------------------------
(* Runs in which nothing goes wrong from outside *)

\* Every file on a command line is there and is a whole PWAD.
HealthyInit ==
  /\ Init
  /\ \A t \in Target : Content(t) # None
  /\ Iwad = {}

HealthySpec == HealthyInit /\ [][Next]_vars /\ Fairness

\* When the inputs are whole WADs, no write fails and there are temporary
\* names to be had, no instance ends with an error, wherever its output is to
\* go and whatever the others are doing to the same files.
NeverFails == \A p \in Proc : pc[p] # "exit1"
=============================================================================
