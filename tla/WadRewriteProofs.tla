-------------------------- MODULE WadRewriteProofs --------------------------
(***************************************************************************)
(* Proofs about WadRewrite, for any number of instances, files and         *)
(* temporary names.  On a system whose fopen() can be exclusive (not       *)
(* Windows) an instance writes to nobody else's file and no temporary file *)
(* is lost track of, whatever fails; a target only ever changes to a whole *)
(* WAD provided no write fails, or every instance compresses and the cause *)
(* of a failing write does not go away.  On any system the final rename    *)
(* stays in its directory, unless "-d -o" names another one.  At the end:  *)
(* the program implements AtomicReplace; and where nothing goes wrong from *)
(* outside, no instance fails.                                             *)
(***************************************************************************)
EXTENDS WadRewrite, FiniteSetTheorems, TLAPS

\* The conditions under which the code keeps its promise.
Posix == ~Windows

Reliable ==
  \/ Faults = "none"
  \/ Faults = "sticky" /\ \A p \in Proc : Cmd[p] = "compress"

-----------------------------------------------------------------------------
(* The inductive invariant *)

\* No file has two names.
NoLinks == \A f, h \in Path : dir[f] = dir[h] /\ dir[f] # None => f = h

\* The temporary files an instance has made are there ...
NamesOf(p) ==
  /\ pc[p] # "rmtarget"
  /\ pc[p] = "rmtemp" => old[p] # None
  /\ pass[p] = 2 /\ pc[p] \in Working \cup {"probe", "create"} => old[p] # None
  /\ tmp[p] # None => dir[tmp[p]] # None
  /\ old[p] # None => dir[old[p]] # None /\ old[p] # tmp[p]

\* ... and are nobody else's.
Apart(p, q) ==
  /\ tmp[p] # None => tmp[p] # tmp[q] /\ tmp[p] # old[q]
  /\ old[p] # None => old[p] # tmp[q] /\ old[p] # old[q]

Names ==
  /\ \A p \in Proc : NamesOf(p)
  /\ \A p, q \in Proc : p # q => Apart(p, q)

\* What an instance has open: the temporary file it writes, and a file no
\* temporary name leads to but that of its own first pass.
StreamsOf(p) ==
  /\ pc[p] \in Working => dst[p] = dir[tmp[p]]
  /\ pc[p] \notin Working => dst[p] = None
  /\ pc[p] \notin Working \cup {"probe", "create"} => src[p] = None
  /\ pc[p] \in Owning \cup {"probe", "create"} => game[p] \in Game
  /\ \A n \in Temp : src[p] # None /\ dir[n] = src[p] => n = old[p]

Streams == \A p \in Proc : StreamsOf(p)

\* The file an instance is making has the part x of the game.
Has(p, x) == data[dir[tmp[p]]][x] = game[p]

\* How far an instance has come with its file, when writes are reliable.  The
\* buffer holds what the file lacks, unless the flush in rewind() has failed -
\* and then the disk is full and FileSize() is still to come.
ProgressOf(p) ==
  Reliable =>
    /\ pc[p] \notin {"entries", "rewind", "size", "close"} => buf[p] = {}
    /\ pc[p] = "entries" =>
         buf[p] \subseteq {"lumps"} /\ ("lumps" \in buf[p] \/ Has(p, "lumps"))
    /\ pc[p] = "rewind" =>
         /\ buf[p] \subseteq {"lumps", "dir"}
         /\ "lumps" \in buf[p] \/ Has(p, "lumps")
         /\ "dir" \in buf[p] \/ Has(p, "dir")
    /\ pc[p] = "size" =>
         /\ Cmd[p] = "compress"
         /\ \/ buf[p] = {"header"} /\ Has(p, "lumps") /\ Has(p, "dir")
            \/ buf[p] = {"stray"} /\ full
    /\ pc[p] = "close" =>
         /\ Has(p, "lumps") /\ Has(p, "dir")
         /\ IF Cmd[p] = "compress" THEN buf[p] = {} /\ Has(p, "header")
                                   ELSE buf[p] = {"header"}
    /\ pc[p] \in {"reopen", "rmtemp", "rename"} =>
         Has(p, "lumps") /\ Has(p, "dir") /\ Has(p, "header")

Progress == \A p \in Proc : ProgressOf(p)

IInv == TypeOK /\ NoLinks /\ Names /\ Streams /\ Progress

-----------------------------------------------------------------------------
(* Facts about the constants *)

LEMMA Constants ==
  /\ None \notin Inode /\ None \notin Target /\ None \notin Game
  /\ None \notin Temp
  /\ \A t \in Target : t \notin Temp
  /\ Temp \subseteq Path /\ Target \subseteq Path
BY FileAssumption, PathAssumption DEF Path

\* The names an instance uses are names of files.
LEMMA Files ==
  ASSUME NEW p \in Proc, TypeOK, pc[p] \notin Exited
  PROVE  /\ Input(p) \in Target
         /\ Output(p) \in Target
         /\ TempBeside(p) \in Target
         /\ \A n \in 0 .. MaxTemp - 1 : TempName(p, n) \in Temp
<1>1. pos[p] \in DOMAIN Args[p]
  BY DEF TypeOK
<1>2. Input(p) \in Target
  BY <1>1, CommandAssumption DEF Input
<1>3. Output(p) \in Target
  BY <1>2, CommandAssumption DEF Output
<1>4. TempBeside(p) \in Target
  BY <1>2, <1>3 DEF TempBeside
<1>5. Home[TempBeside(p)] \in Dir
  BY <1>4, FileAssumption
<1> QED
  BY <1>2, <1>3, <1>4, <1>5 DEF TempName, Temp

-----------------------------------------------------------------------------
(* Type correctness *)

LEMMA LandedType ==
  ASSUME TypeOK, NEW i, NEW pieces, NEW g \in Game \cup {None}
  PROVE  Landed(i, pieces, g) \in [Inode -> [Part -> Game \cup {None}]]
BY DEF TypeOK, Landed

LEMMA ExitType ==
  ASSUME TypeOK, NEW p \in Proc, NEW code \in Exited, Exit(p, code),
         data' \in [Inode -> [Part -> Game \cup {None}]], full' \in BOOLEAN,
         left' = left
  PROVE  TypeOK'
BY DEF TypeOK, NeedsOld, Exit, Goto, CloseFiles, Label, Exited, Owning, Working

LEMMA ReturnType ==
  ASSUME TypeOK, NEW p \in Proc, NEW ok \in BOOLEAN, Return(p, ok),
         pc[p] \notin Exited
  PROVE  /\ pos' \in [Proc -> Nat \ {0}]
         /\ \A q \in Proc : pc'[q] \notin Exited => pos'[q] \in DOMAIN Args[q]
         /\ pc' \in [Proc -> Label]
         /\ failed' \in [Proc -> BOOLEAN]
         /\ \A q \in Proc : pc'[q] = "create" => pc[q] = "create"
         /\ \A q \in Proc : pc'[q] \in Owning => q # p /\ pc'[q] = pc[q]
<1>1. Args[p] \in Seq(Target) /\ pos[p] \in 1 .. Len(Args[p])
  BY CommandAssumption DEF TypeOK
<1>2. CASE MoreArgs(p)
  <2>1. pos' = [pos EXCEPT ![p] = pos[p] + 1] /\ pc' = [pc EXCEPT ![p] = "open"]
    BY <1>2 DEF Return, Goto
  <2>2. pos[p] + 1 \in DOMAIN Args[p]
    BY <1>1, <1>2 DEF MoreArgs
  <2> QED BY <2>1, <2>2, <1>1 DEF TypeOK, Label, Return, Owning, Working
<1>3. CASE ~MoreArgs(p)
  <2>1. pos' = pos /\ (pc' = [pc EXCEPT ![p] = "exit1"]
                       \/ pc' = [pc EXCEPT ![p] = "exit0"])
    BY <1>3 DEF Return, Goto
  <2> QED BY <2>1, SMTT(60) DEF TypeOK, Label, Return, Exited, Owning, Working
<1> QED BY <1>2, <1>3

LEMMA FlushType ==
  ASSUME TypeOK, NEW p \in Proc, FlushFails(p)
  PROVE  /\ data' \in [Inode -> [Part -> Game \cup {None}]]
         /\ full' \in BOOLEAN
<1>1. game[p] \in Game \cup {None}
  BY DEF TypeOK
<1> QED BY <1>1, LandedType DEF FlushFails

\* An instance has a first temporary file as long as it needs one.
LEMMA OldNeeded ==
  ASSUME TypeOK, NEW p \in Proc, Step(p)
  PROVE  /\ \A q \in Proc : NeedsOld(q)' => old'[q] # None
         /\ left' \in SUBSET Temp
<1> USE DEF Goto
<1>0. /\ pc \in [Proc -> Label] /\ pass \in [Proc -> {1, 2}]
      /\ old \in [Proc -> Temp \cup {None}]
      /\ \A q \in Proc : NeedsOld(q) => old[q] # None
      /\ left \in SUBSET Temp
  BY DEF TypeOK
<1>1. ASSUME old' = old, left' = left, pass' = pass,
             \E l \in Label : /\ pc' = [pc EXCEPT ![p] = l]
                              /\ l = "rmtemp" => pass[p] = 2 /\ pc[p] \in Working
                              /\ l \in Working => pc[p] \in Working \cup {"create"}
                              /\ l \in {"probe", "create"} => pc[p] \in {"probe", "create"}
      PROVE  /\ \A q \in Proc : NeedsOld(q)' => old'[q] # None
             /\ left' \in SUBSET Temp
  BY <1>0, <1>1 DEF NeedsOld, Working, Label
<1>2. CASE \E code \in Exited : Exit(p, code) /\ left' = left
  BY <1>1, <1>2 DEF Exit, Exited, Label, Working
<1>3. CASE \E b : Return(p, b) /\ UNCHANGED <<pass, old, left>>
  BY <1>1, <1>3 DEF Return, Label, Exited, Working
<1>4. CASE Open(p)
  <2>1. CASE /\ pc' = [pc EXCEPT ![p] = "probe"] /\ old' = old /\ left' = left
             /\ pass' = [pass EXCEPT ![p] = 1]
    BY <1>0, <2>1 DEF NeedsOld
  <2> QED BY <1>2, <1>3, <1>4, <2>1 DEF Open, ErrorExit, Exited
<1>5. CASE Probe(p)
  BY <1>0, <1>1, <1>2, <1>5 DEF Probe, NextTry, ErrorExit, Exited, Label, Working
<1>6. CASE Create(p)
  BY <1>1, <1>2, <1>6 DEF Create, ErrorExit, Exited, Label, Working
<1>7. CASE WriteLumps(p) \/ WriteEntries(p)
  BY <1>1, <1>2, <1>7 DEF WriteLumps, WriteEntries, ErrorExit, Exited, Label, Working
<1>8. CASE WriteHeader(p) \/ CheckSize(p)
  BY <1>1, <1>2, <1>8
  DEF WriteHeader, CheckSize, AfterHeader, ErrorExit, Exited, Label, Working
<1>9. CASE Close(p)
  <2> DEFINE l == IF src[p] = None THEN "crashed" ELSE AfterClose(p)
  <2>1. /\ pc' = [pc EXCEPT ![p] = l] /\ pc[p] = "close"
        /\ old' = old /\ left' = left /\ pass' = pass
    BY <1>9 DEF Close
  <2>2. /\ l \in {"crashed", "reopen", "rmtemp", "rmtarget", "rename"}
        /\ l = "rmtemp" => pass[p] = 2
    BY <1>0 DEF AfterClose, BeforeRename
  <2> HIDE DEF l
  <2>3. l \in Label /\ l \notin Working \cup {"probe", "create"} /\ pc[p] \in Working
    BY <2>1, <2>2 DEF Label, Exited, Working
  <2> QED BY <1>1, <2>1, <2>2, <2>3
<1>10. CASE Reopen(p)
  <2>1. CASE /\ pc' = [pc EXCEPT ![p] = "probe"] /\ left' = left
             /\ pass' = [pass EXCEPT ![p] = 2]
             /\ old' = [old EXCEPT ![p] = tmp[p]] /\ tmp[p] # None
    BY <1>0, <2>1 DEF NeedsOld
  <2>2. tmp[p] # None
    BY <1>10 DEF Reopen, TypeOK, Owning
  <2> QED BY <1>2, <1>10, <2>1, <2>2 DEF Reopen, ErrorExit, Exited
<1>11. CASE RemoveTemp(p)
  <2>1. old[p] \in Temp
    BY <1>0, <1>11 DEF RemoveTemp, NeedsOld
  <2>2. /\ pc' = [pc EXCEPT ![p] = BeforeRename] /\ pass' = pass
        /\ old' = [old EXCEPT ![p] = None]
        /\ left' = left \/ left' = left \cup {old[p]}
    BY <1>11 DEF RemoveTemp
  <2>3. BeforeRename \in {"rmtarget", "rename"}
    BY DEF BeforeRename
  <2> QED BY <1>0, <2>1, <2>2, <2>3 DEF NeedsOld, Working
<1>12. CASE RemoveTarget(p)
  BY <1>1, <1>2, <1>12 DEF RemoveTarget, ErrorExit, Exited, Label, Working
<1>13. CASE Rename(p)
  BY <1>2, <1>3, <1>13 DEF Rename, ErrorExit, Exited
<1> QED
  BY <1>4, <1>5, <1>6, <1>7, <1>8, <1>9, <1>10, <1>11, <1>12, <1>13 DEF Step

LEMMA TypeStep ==
  ASSUME TypeOK, NEW p \in Proc, Step(p)
  PROVE  TypeOK'
<1> USE DEF Goto
<1>0. game[p] \in Game \cup {None}
  BY DEF TypeOK
<1>00. /\ \A q \in Proc : NeedsOld(q)' => old'[q] # None
       /\ left' \in SUBSET Temp
  BY OldNeeded
<1>1. CASE Open(p)
  <2>0. pc[p] \notin Exited
    BY <1>1 DEF Open, Exited
  <2>1. CASE ErrorExit(p)
    BY <1>1, <2>1, ExitType DEF ErrorExit, Open, Exited, TypeOK
  <2>2. CASE Return(p, FALSE) /\ UNCHANGED <<src, game, tryno, pass, dst, buf, tmp, old>>
    BY <1>00, <1>1, <2>0, <2>2, ReturnType DEF Open, TypeOK
  <2>3. CASE \E i \in Inode :
               /\ src' = [src EXCEPT ![p] = i]
               /\ data[i]["header"] \in Game
               /\ game' = [game EXCEPT ![p] = data[i]["header"]]
               /\ tryno' = [tryno EXCEPT ![p] = 0]
               /\ pass' = [pass EXCEPT ![p] = 1]
               /\ Goto(p, "probe")
               /\ UNCHANGED <<pos, failed, dst, buf, tmp, old>>
    BY <1>00, <1>1, <2>0, <2>3, FileAssumption DEF Open, TypeOK, Owning, Working, Label
  <2>4. dir[Input(p)] \in Inode \cup {None}
    BY <2>0, Files, Constants DEF TypeOK
  <2> QED BY <1>1, <2>1, <2>2, <2>3, <2>4, Zenon DEF Open
<1>2. CASE Probe(p)
  <2>1. CASE ErrorExit(p)
    BY <1>2, <2>1, ExitType DEF ErrorExit, Probe, Exited, TypeOK
  <2>2. CASE tryno[p] < MaxTemp /\ ~ErrorExit(p)
    <3>1. \/ tryno' = [tryno EXCEPT ![p] = @ + 1] /\ pc' = pc
          \/ tryno' = tryno /\ pc' = [pc EXCEPT ![p] = "create"]
      BY <1>2, <2>2 DEF Probe, NextTry
    <3>2. tryno' \in [Proc -> 0 .. MaxTemp]
      BY <2>2, <3>1, FileAssumption DEF TypeOK
    <3> QED BY <1>00, <1>2, <2>2, <3>1, <3>2, ZenonT(60)
            DEF Probe, TypeOK, Owning, Working, Label, Exited
  <2> QED BY <1>2, <2>1, <2>2 DEF Probe
<1>3. CASE Create(p)
  <2>0. TempName(p, tryno[p]) \in Temp
    <3>1. tryno[p] \in 0 .. MaxTemp - 1 /\ pc[p] \notin Exited
      BY <1>3, FileAssumption DEF Create, TypeOK, Exited
    <3> QED BY <3>1, Files
  <2>1. CASE ErrorExit(p)
    <3>1. data' = data /\ full' = full /\ left' = left
      BY <1>3, <2>1 DEF Create, ErrorExit, Exit, TypeOK, Label
    <3> QED BY <2>1, <3>1, ExitType DEF ErrorExit, Exited, TypeOK
  <2>2. CASE ~ErrorExit(p)
    <3> DEFINE name == TempName(p, tryno[p])
    <3>1. name \in Path /\ Blank \in [Part -> Game \cup {None}]
      BY <2>0, Constants DEF Blank
    <3>2. full' = full /\ pos' = pos /\ failed' = failed /\ src' = src
            /\ buf' = buf /\ old' = old /\ game' = game /\ pass' = pass
            /\ pc[p] = "create"
      BY <1>3, <2>2 DEF Create
    <3>3. \/ pc' = [pc EXCEPT ![p] = "lumps"] /\ tryno' = tryno
          \/ pc' = [pc EXCEPT ![p] = "probe"]
             /\ tryno' = [tryno EXCEPT ![p] = @ + 1]
      BY <1>3, <2>2 DEF Create, NextTry
    <3>4. dir' \in [Path -> Inode \cup {None}]
      BY <1>3, <2>2, <3>1 DEF Create, TypeOK
    <3>5. data' \in [Inode -> [Part -> Game \cup {None}]]
      BY <1>3, <2>2, <3>1, SMTT(60) DEF Create, TypeOK
    <3>6. dst' \in [Proc -> Inode \cup {None}]
      BY <1>3, <2>2, <3>1, SMTT(60) DEF Create, TypeOK
    <3>7. \/ tmp' = [tmp EXCEPT ![p] = name]
          \/ tmp' = tmp /\ pc' = [pc EXCEPT ![p] = "probe"]
      BY <1>3, <2>2 DEF Create
    <3>9. /\ tmp' \in [Proc -> Temp \cup {None}]
          /\ \A q \in Proc : pc'[q] \in Owning => tmp'[q] # None
      <4> HIDE DEF name
      <4>1. name \in Temp /\ name # None
        BY <2>0, Constants DEF name
      <4> QED BY <3>3, <3>7, <4>1, SMTT(60) DEF TypeOK, Owning, Working
    <3>8. tryno' \in [Proc -> 0 .. MaxTemp]
      BY <3>2, <3>3, FileAssumption DEF TypeOK
    <3> QED
      BY <1>00, <3>2, <3>3, <3>4, <3>5, <3>6, <3>8, <3>9, ZenonT(60) DEF TypeOK, Label, Exited
  <2> QED BY <2>1, <2>2
<1>4. CASE WriteLumps(p)
  <2>0. data' \in [Inode -> [Part -> Game \cup {None}]] /\ full' \in BOOLEAN
    <3>1. data' = data \/ \E pieces : data' = Landed(dst[p], pieces, game[p])
      BY <1>4 DEF WriteLumps
    <3>2. full' = full \/ full' = (Faults = "sticky")
      BY <1>4 DEF WriteLumps
    <3>3. full' \in BOOLEAN
      BY <3>2 DEF TypeOK
    <3> QED BY <1>0, <3>1, <3>3, LandedType DEF TypeOK
  <2>1. CASE ErrorExit(p)
    BY <1>4, <2>0, <2>1, ExitType DEF ErrorExit, WriteLumps, Exited
  <2>2. CASE ~ErrorExit(p)
    <3>2. buf' = buf \/ buf' = [buf EXCEPT ![p] = {"lumps"}]
      BY <1>4, <2>2 DEF WriteLumps
    <3>3. buf' \in [Proc -> SUBSET Piece]
      BY <3>2 DEF TypeOK, Piece, Part
    <3> QED BY <1>00, <1>4, <2>0, <2>2, <3>3, ZenonT(60) DEF WriteLumps, TypeOK, Owning, Working, Label, Exited
  <2> QED BY <2>1, <2>2
<1>5. CASE WriteEntries(p)
  <2>0. data' \in [Inode -> [Part -> Game \cup {None}]] /\ full' \in BOOLEAN
    <3>1. data' = data \/ \E pieces : data' = Landed(dst[p], pieces, game[p])
      BY <1>5 DEF WriteEntries
    <3>2. full' = full \/ full' = (Faults = "sticky")
      BY <1>5 DEF WriteEntries
    <3>3. full' \in BOOLEAN
      BY <3>2 DEF TypeOK
    <3> QED BY <1>0, <3>1, <3>3, LandedType DEF TypeOK
  <2>1. CASE ErrorExit(p)
    BY <1>5, <2>0, <2>1, ExitType DEF ErrorExit, WriteEntries, Exited
  <2>2. CASE ~ErrorExit(p)
    <3>2. \/ buf' = [buf EXCEPT ![p] = {}]
          \/ buf' = [buf EXCEPT ![p] = @ \cup {"dir"}]
      BY <1>5, <2>2 DEF WriteEntries
    <3>3. buf' \in [Proc -> SUBSET Piece]
      BY <3>2 DEF TypeOK, Piece, Part
    <3> QED BY <1>00, <1>5, <2>0, <2>2, <3>3, ZenonT(60) DEF WriteEntries, TypeOK, Owning, Working, Label, Exited
  <2> QED BY <2>1, <2>2
<1>6. CASE WriteHeader(p)
  <2>1. data' \in [Inode -> [Part -> Game \cup {None}]] /\ full' \in BOOLEAN
    BY <1>6, <1>0, LandedType, FlushType DEF WriteHeader, TypeOK
  <2>2. \/ buf' = [buf EXCEPT ![p] = {"header"}]
        \/ buf' = [buf EXCEPT ![p] = {"stray"}]
    BY <1>6 DEF WriteHeader
  <2>3. buf' \in [Proc -> SUBSET Piece]
    BY <2>2 DEF TypeOK, Piece, Part
  <2> QED BY <1>00, <1>6, <2>1, <2>3 DEF WriteHeader, AfterHeader, TypeOK, Owning, Working, Label, Exited
<1>7. CASE CheckSize(p)
  <2>1. CASE ErrorExit(p)
    BY <1>7, <2>1, ExitType, FlushType, LandedType, <1>0
    DEF ErrorExit, CheckSize, Exited, TypeOK
  <2>2. CASE ~ErrorExit(p)
    <3>1. data' \in [Inode -> [Part -> Game \cup {None}]]
      BY <1>7, <2>2, <1>0, LandedType DEF CheckSize, TypeOK
    <3> QED BY <1>00, <1>7, <2>2, <3>1, ZenonT(60) DEF CheckSize, TypeOK, Owning, Working, Label, Exited
  <2> QED BY <2>1, <2>2
<1>8. CASE Close(p)
  <2>1. data' \in [Inode -> [Part -> Game \cup {None}]] /\ full' \in BOOLEAN
    BY <1>8, <1>0, LandedType, FlushType DEF Close, TypeOK
  <2>2. AfterClose(p) \in {"reopen", "rmtemp", "rmtarget", "rename"}
    BY DEF AfterClose, BeforeRename
  <2> QED
    BY <1>00, <1>8, <2>1, <2>2 DEF Close, CloseFiles, TypeOK, Owning, Working, Label, Exited
<1>9. CASE Reopen(p)
  <2>1. CASE \E code \in Exited : Exit(p, code)
    BY <1>9, <2>1, ExitType DEF Reopen, TypeOK
  <2>2. CASE \E i : /\ i = dir[tmp[p]]
                    /\ src' = [src EXCEPT ![p] = i]
                    /\ \E g \in Game : game' = [game EXCEPT ![p] = g]
                    /\ old' = [old EXCEPT ![p] = tmp[p]]
                    /\ tmp' = [tmp EXCEPT ![p] = None]
                    /\ pass' = [pass EXCEPT ![p] = 2]
                    /\ tryno' = [tryno EXCEPT ![p] = 0]
                    /\ Goto(p, "probe")
                    /\ UNCHANGED <<dir, pos, failed, dst, buf>>
    <3>1. tmp[p] \in Path /\ dir[tmp[p]] \in Inode \cup {None}
      BY <1>9, <2>2, Constants DEF Reopen, TypeOK, Owning
    <3> QED BY <1>00, <1>9, <2>2, <3>1, FileAssumption
            DEF Reopen, TypeOK, Owning, Working, Label, Exited
  <2>3. Empty \in Game
    BY FileAssumption
  <2> QED BY <1>9, <2>1, <2>2, <2>3, Zenon DEF Reopen, ErrorExit, Exited
<1>10. CASE RemoveTemp(p)
  <2>1. BeforeRename \in {"rmtarget", "rename"}
    BY DEF BeforeRename
  <2>2. dir' \in [Path -> Inode \cup {None}]
    BY <1>10 DEF RemoveTemp, TypeOK
  <2> QED BY <1>00, <1>10, <2>1, <2>2 DEF RemoveTemp, TypeOK, Owning, Working, Label, Exited
<1>11. CASE RemoveTarget(p)
  <2>1. CASE ErrorExit(p)
    BY <1>11, <2>1, ExitType DEF ErrorExit, RemoveTarget, Exited, TypeOK
  <2>2. CASE ~ErrorExit(p)
    BY <1>00, <1>11, <2>2, ZenonT(60) DEF RemoveTarget, TypeOK, Owning, Working, Label, Exited
  <2> QED BY <2>1, <2>2
<1>12. CASE Rename(p)
  <2>1. CASE ErrorExit(p)
    BY <1>12, <2>1, ExitType DEF ErrorExit, Rename, Exited, TypeOK
  <2>2. CASE ~ErrorExit(p)
    <3>1. tmp[p] \in Path /\ dir[tmp[p]] \in Inode \cup {None}
      BY <1>12, <2>2, Constants DEF Rename, TypeOK, Owning
    <3>2. dir' \in [Path -> Inode \cup {None}]
      BY <1>12, <2>2, <3>1 DEF Rename, TypeOK
    <3>3. Return(p, TRUE) /\ pc[p] \notin Exited
      BY <1>12, <2>2 DEF Rename, Exited
    <3> QED BY <1>00, <1>12, <2>2, <3>2, <3>3, ReturnType, ZenonT(60) DEF Rename, TypeOK
  <2> QED BY <2>1, <2>2
<1> QED
  BY <1>1, <1>2, <1>3, <1>4, <1>5, <1>6, <1>7, <1>8, <1>9, <1>10, <1>11,
     <1>12 DEF Step

-----------------------------------------------------------------------------
(* What a step leaves alone *)

\* The variables of another instance.
Unmoved(q) ==
  <<pc[q], pos[q], pass[q], src[q], dst[q], buf[q], tmp[q], old[q], game[q]>>'
    = <<pc[q], pos[q], pass[q], src[q], dst[q], buf[q], tmp[q], old[q], game[q]>>

\* Also the file it is making.
Untouched(q) ==
  /\ Unmoved(q)
  /\ tmp[q] # None => /\ dir'[tmp[q]] = dir[tmp[q]]
                      /\ data'[dir[tmp[q]]] = data[dir[tmp[q]]]
  /\ old[q] # None => dir'[old[q]] = dir[old[q]]
  /\ Reliable => (full => full')
  /\ \A n \in Temp : src[q] # None /\ dir'[n] = src[q] => dir[n] = src[q]

LEMMA OthersUnmoved ==
  ASSUME TypeOK, NEW p \in Proc, Step(p) \/ Crash(p), NEW q \in Proc, q # p
  PROVE  Unmoved(q)
<1> USE DEF Goto, Unmoved
<1>0. ASSUME NEW code, Exit(p, code)
      PROVE  Unmoved(q)
  BY <1>0 DEF Exit, CloseFiles, TypeOK
<1>1. CASE Open(p)
  BY <1>0, <1>1 DEF Open, ErrorExit, Return, TypeOK
<1>2. CASE Probe(p)
  BY <1>0, <1>2 DEF Probe, ErrorExit, TypeOK
<1>3. CASE Create(p)
  BY <1>0, <1>3 DEF Create, ErrorExit, TypeOK
<1>4. CASE WriteLumps(p)
  BY <1>0, <1>4 DEF WriteLumps, ErrorExit, TypeOK
<1>5. CASE WriteEntries(p)
  BY <1>0, <1>5 DEF WriteEntries, ErrorExit, TypeOK
<1>6. CASE WriteHeader(p)
  BY <1>0, <1>6 DEF WriteHeader, TypeOK
<1>7. CASE CheckSize(p)
  BY <1>0, <1>7 DEF CheckSize, ErrorExit, TypeOK
<1>8. CASE Close(p)
  BY <1>0, <1>8 DEF Close, CloseFiles, TypeOK
<1>9. CASE Reopen(p)
  BY <1>0, <1>9 DEF Reopen, ErrorExit, TypeOK
<1>10. CASE RemoveTemp(p)
  BY <1>0, <1>10 DEF RemoveTemp, TypeOK
<1>11. CASE RemoveTarget(p)
  BY <1>0, <1>11 DEF RemoveTarget, ErrorExit, TypeOK
<1>12. CASE Rename(p)
  BY <1>0, <1>12 DEF Rename, ErrorExit, Return, TypeOK
<1>13. CASE Crash(p)
  BY <1>0, <1>13 DEF Crash
<1> QED
  BY <1>1, <1>2, <1>3, <1>4, <1>5, <1>6, <1>7, <1>8, <1>9, <1>10, <1>11,
     <1>12, <1>13 DEF Step

LEMMA OthersKeep ==
  ASSUME NEW q \in Proc, TypeOK, NamesOf(q), StreamsOf(q), ProgressOf(q),
         Untouched(q)
  PROVE  NamesOf(q)' /\ StreamsOf(q)' /\ ProgressOf(q)'
<1>0. pc[q] \in Owning => tmp[q] # None
  BY DEF TypeOK
<1>1. NamesOf(q)'
  BY DEF NamesOf, Untouched, Unmoved
<1>2. StreamsOf(q)'
  BY <1>0 DEF StreamsOf, Untouched, Unmoved, Owning
<1>3. ProgressOf(q)'
  <2>1. tmp[q] # None => \A x : Has(q, x)' <=> Has(q, x)
    BY DEF Untouched, Unmoved, Has
  <2> QED BY <1>0, <2>1 DEF ProgressOf, Untouched, Unmoved, Owning, Working
<1> QED BY <1>1, <1>2, <1>3

\* A step that leaves the others and their files alone keeps the invariant if
\* it keeps the actor's own part of it.
LEMMA Assemble ==
  ASSUME IInv, TypeOK', NoLinks', NEW p \in Proc,
         NamesOf(p)', StreamsOf(p)', ProgressOf(p)',
         \A q \in Proc : q # p => Untouched(q) /\ Apart(p, q)'
  PROVE  IInv'
<1>1. \A q \in Proc : NamesOf(q)' /\ StreamsOf(q)' /\ ProgressOf(q)'
  BY OthersKeep DEF IInv, Names, Streams, Progress
<1>2. ASSUME NEW q \in Proc, NEW r \in Proc, q # r
      PROVE  Apart(q, r)'
  <2>1. CASE q = p
    BY <1>2, <2>1
  <2>2. CASE r = p
    BY <1>2, <2>2 DEF Apart
  <2>3. CASE q # p /\ r # p
    BY <1>2, <2>3 DEF Apart, IInv, Names, Untouched, Unmoved
  <2> QED BY <2>1, <2>2, <2>3
<1> QED BY <1>1, <1>2 DEF IInv, Names, Streams, Progress

LEMMA LandedElsewhere ==
  ASSUME TypeOK, NEW i, NEW pieces, NEW g, NEW j \in Inode, j # i
  PROVE  Landed(i, pieces, g)[j] = data[j]
BY DEF Landed, TypeOK

\* A step that changes no name and at most the file it writes.
LEMMA SameNames ==
  ASSUME IInv, TypeOK', NEW p \in Proc, Step(p) \/ Crash(p),
         dir' = dir, tmp' = tmp, old' = old, Reliable => (full => full'),
         \A i \in Inode : i # dst[p] => data'[i] = data[i],
         NamesOf(p)', StreamsOf(p)', ProgressOf(p)'
  PROVE  IInv'
<1>1. ASSUME NEW q \in Proc, q # p
      PROVE  Untouched(q) /\ Apart(p, q)'
  <2>1. Unmoved(q)
    BY <1>1, OthersUnmoved DEF IInv
  <2>2. ASSUME tmp[q] # None
        PROVE  data'[dir[tmp[q]]] = data[dir[tmp[q]]]
    <3>1. dir[tmp[q]] \in Inode /\ tmp[q] \in Path
      BY <2>2, Constants DEF IInv, TypeOK, Names, NamesOf
    <3>2. dir[tmp[q]] # dst[p]
      <4>1. CASE pc[p] \in Working
        <5>1. tmp[p] \in Path /\ dst[p] = dir[tmp[p]] /\ tmp[p] # tmp[q]
          BY <1>1, <2>2, <4>1, Constants
          DEF IInv, TypeOK, Owning, Names, Apart, Streams, StreamsOf
        <5> QED BY <3>1, <5>1, Constants DEF IInv, NoLinks
      <4>2. CASE pc[p] \notin Working
        BY <4>2, <3>1, Constants DEF IInv, Streams, StreamsOf
      <4> QED BY <4>1, <4>2
    <3> QED BY <3>1, <3>2
  <2>3. Untouched(q)
    BY <2>1, <2>2 DEF Untouched
  <2> QED BY <1>1, <2>3 DEF Apart, IInv, Names
<1>2. NoLinks'
  BY DEF IInv, NoLinks
<1> QED BY <1>1, <1>2, Assemble

-----------------------------------------------------------------------------
(* The steps keep the invariant *)

LEMMA ExitStep ==
  ASSUME IInv, TypeOK', NEW p \in Proc, Step(p) \/ Crash(p),
         NEW code \in Exited \ {"exit0"}, Exit(p, code), Reliable => (full => full'),
         \A i \in Inode : i # dst[p] => data'[i] = data[i]
  PROVE  IInv'
<1>1. /\ pc'[p] = code /\ dst'[p] = None /\ src'[p] = None /\ buf'[p] = {}
      /\ dir' = dir /\ tmp' = tmp /\ old' = old /\ pass' = pass
  BY DEF IInv, TypeOK, Exit, CloseFiles, Goto
<1>2. NamesOf(p)'
  BY <1>1 DEF IInv, Names, NamesOf, Exited, Working
<1>3. StreamsOf(p)'
  BY <1>1 DEF IInv, Streams, StreamsOf, Exited, Working, Owning
<1>4. ProgressOf(p)'
  BY <1>1 DEF ProgressOf, Exited
<1> QED BY <1>1, <1>2, <1>3, <1>4, SameNames

\* The inode a target names is nobody's temporary file.
LEMMA TargetInode ==
  ASSUME NoLinks, NEW t \in Target, dir[t] # None, NEW n \in Temp
  PROVE  dir[n] # dir[t]
BY Constants DEF NoLinks

LEMMA OpenStep ==
  ASSUME IInv, TypeOK', NEW p \in Proc, Open(p)
  PROVE  IInv'
<1>0. /\ pc[p] = "open" /\ Step(p)
      /\ dir' = dir /\ data' = data /\ full' = full /\ tmp' = tmp /\ old' = old
  BY DEF Open, Step, ErrorExit, Exit
<1>1. CASE ErrorExit(p)
  BY <1>0, <1>1, ExitStep DEF ErrorExit, Exited
<1>2. CASE Return(p, FALSE) /\ UNCHANGED <<src, game, tryno, pass, dst, buf, tmp, old>>
  <2>1. pc'[p] \in {"open", "exit1"}
    BY <1>2 DEF Return, Goto, IInv, TypeOK
  <2>2. NamesOf(p)'
    BY <1>0, <1>2, <2>1 DEF IInv, Names, NamesOf, Working
  <2>3. StreamsOf(p)'
    BY <1>0, <1>2, <2>1 DEF IInv, Streams, StreamsOf, Working, Owning
  <2>4. ProgressOf(p)'
    BY <1>0, <1>2, <2>1 DEF ProgressOf, IInv, Progress
  <2> QED BY <1>0, <2>2, <2>3, <2>4, SameNames
<1>3. CASE \E i : /\ i = dir[Input(p)] /\ i # None
                  /\ src' = [src EXCEPT ![p] = i]
                  /\ data[i]["header"] \in Game
                  /\ game' = [game EXCEPT ![p] = data[i]["header"]]
                  /\ pass' = [pass EXCEPT ![p] = 1]
                  /\ Goto(p, "probe")
                  /\ UNCHANGED <<dst, buf>>
  <2>1. /\ pc'[p] = "probe" /\ src'[p] = dir[Input(p)] /\ dir[Input(p)] # None
        /\ game'[p] \in Game /\ pass'[p] = 1 /\ dst' = dst
    BY <1>3 DEF IInv, TypeOK, Goto
  <2>2. NamesOf(p)'
    BY <1>0, <2>1 DEF IInv, Names, NamesOf, Working
  <2>3. StreamsOf(p)'
    <3>1. Input(p) \in Target
      BY <1>0, Files DEF IInv, Exited
    <3>2. \A n \in Temp : dir[n] # dir[Input(p)]
      BY <2>1, <3>1, TargetInode DEF IInv
    <3> QED BY <1>0, <2>1, <3>2 DEF IInv, Streams, StreamsOf, Working
  <2>4. ProgressOf(p)'
    BY <1>0, <1>3, <2>1 DEF ProgressOf, IInv, Progress
  <2> QED BY <1>0, <2>2, <2>3, <2>4, SameNames
<1> QED BY <1>1, <1>2, <1>3, Zenon DEF Open

LEMMA ProbeStep ==
  ASSUME IInv, TypeOK', NEW p \in Proc, Probe(p)
  PROVE  IInv'
<1>0. /\ pc[p] = "probe" /\ Step(p) /\ data' = data /\ full' = full
  BY DEF Probe, Step
<1>1. CASE ErrorExit(p)
  BY <1>0, <1>1, ExitStep DEF ErrorExit, Exited
<1>2. CASE ~ErrorExit(p)
  <2>1. /\ pc'[p] \in {"probe", "create"}
        /\ dir' = dir /\ tmp' = tmp /\ old' = old /\ pass' = pass /\ src' = src
        /\ dst' = dst /\ game' = game /\ buf' = buf
    BY <1>0, <1>2 DEF Probe, Goto, IInv, TypeOK
  <2>2. NamesOf(p)'
    BY <1>0, <2>1 DEF IInv, Names, NamesOf, Working
  <2>3. StreamsOf(p)'
    BY <1>0, <2>1 DEF IInv, Streams, StreamsOf, Working, Owning
  <2>4. ProgressOf(p)'
    BY <1>0, <2>1 DEF ProgressOf, IInv, Progress
  <2> QED BY <1>0, <2>1, <2>2, <2>3, <2>4, SameNames
<1> QED BY <1>1, <1>2

LEMMA CreateStep ==
  ASSUME Posix, IInv, TypeOK', NEW p \in Proc, Create(p)
  PROVE  IInv'
<1> DEFINE name == TempName(p, tryno[p])
<1>0. /\ pc[p] = "create" /\ Step(p) /\ full' = full
      /\ name \in Temp /\ name \in Path /\ name # None
  <2>1. tryno[p] \in 0 .. MaxTemp - 1 /\ pc[p] = "create"
    BY FileAssumption DEF Create, IInv, TypeOK
  <2> QED BY <2>1, Files, Constants DEF Create, Exited, IInv, Step
<1>1. CASE ErrorExit(p)
  <2>1. data' = data
    BY <1>1 DEF Create, ErrorExit, Exit, Goto, IInv, TypeOK, Label
  <2> QED BY <1>0, <1>1, <2>1, ExitStep DEF ErrorExit, Exited
<1>2. CASE pc'[p] = "probe" /\ ~ErrorExit(p)
  <2>1. /\ dir' = dir /\ tmp' = tmp /\ old' = old /\ pass' = pass /\ src' = src
        /\ dst' = dst /\ game' = game /\ data' = data /\ buf' = buf
    BY <1>0, <1>2 DEF Create, Goto, IInv, TypeOK, Posix, Exclusive
  <2>2. NamesOf(p)'
    BY <1>0, <1>2, <2>1 DEF IInv, Names, NamesOf, Working
  <2>3. StreamsOf(p)'
    BY <1>0, <1>2, <2>1 DEF IInv, Streams, StreamsOf, Working, Owning
  <2>4. ProgressOf(p)'
    BY <1>0, <1>2, <2>1 DEF ProgressOf, IInv, Progress
  <2> QED BY <1>0, <2>1, <2>2, <2>3, <2>4, SameNames
<1>3. CASE \E i \in Inode :
             /\ dir[name] = None
             /\ Unused(i)
             /\ dir' = [dir EXCEPT ![name] = i]
             /\ dst' = [dst EXCEPT ![p] = i]
             /\ data' = [data EXCEPT ![i] = Blank]
             /\ tmp' = [tmp EXCEPT ![p] = name]
             /\ pc' = [pc EXCEPT ![p] = "lumps"]
             /\ UNCHANGED <<pass, src, buf, old, game>>
  <2>1. PICK i \in Inode :
          /\ dir[name] = None
          /\ Unused(i)
          /\ dir' = [dir EXCEPT ![name] = i]
          /\ dst' = [dst EXCEPT ![p] = i]
          /\ data' = [data EXCEPT ![i] = Blank]
          /\ tmp' = [tmp EXCEPT ![p] = name]
          /\ pc' = [pc EXCEPT ![p] = "lumps"]
          /\ UNCHANGED <<pass, src, buf, old, game>>
    BY <1>3
  <2> HIDE DEF name
  <2>2. /\ dir'[name] = i /\ \A f \in Path \ {name} : dir'[f] = dir[f]
        /\ \A f \in Path : dir[f] # i
        /\ i # None /\ \A q \in Proc : src[q] # i /\ dst[q] # i
        /\ pc'[p] = "lumps" /\ dst'[p] = i /\ tmp'[p] = name
        /\ \A q \in Proc \ {p} : tmp'[q] = tmp[q]
    BY <2>1, <1>0, Constants DEF IInv, TypeOK, Unused, InUse
  <2>3. NoLinks'
    BY <2>2 DEF IInv, NoLinks
  <2>4. NamesOf(p)'
    BY <2>1, <2>2, <1>0, Constants
    DEF IInv, Names, NamesOf, TypeOK, Working
  <2>5. StreamsOf(p)'
    BY <2>1, <2>2, <1>0, Constants
    DEF IInv, Streams, StreamsOf, Working, Owning
  <2>6. ProgressOf(p)'
    BY <2>2, <2>1, <1>0 DEF ProgressOf, IInv, Progress
  <2>7. ASSUME NEW q \in Proc, q # p
        PROVE  Untouched(q) /\ Apart(p, q)'
    <3>1. Unmoved(q)
      BY <2>7, <1>0, OthersUnmoved DEF IInv
    <3>2. /\ tmp[q] # None => tmp[q] \in Path /\ dir[tmp[q]] \in Inode \ {i}
                              /\ tmp[q] # name
          /\ old[q] # None => old[q] \in Path /\ old[q] # name
      BY <2>1, <2>2, Constants DEF IInv, TypeOK, Names, NamesOf
    <3>3. Untouched(q)
      <4>1. tmp[q] # None => /\ dir'[tmp[q]] = dir[tmp[q]]
                             /\ data'[dir[tmp[q]]] = data[dir[tmp[q]]]
        BY <2>1, <2>2, <3>2 DEF IInv, TypeOK
      <4>2. old[q] # None => dir'[old[q]] = dir[old[q]]
        BY <2>2, <3>2
      <4>3. \A n \in Temp : dir'[n] = src[q] => dir[n] = src[q]
        BY <2>2, Constants
      <4> QED BY <3>1, <4>1, <4>2, <4>3, <1>0 DEF Untouched
    <3>4. Apart(p, q)'
      BY <2>1, <2>2, <2>7, <3>2, <1>0
      DEF Apart, IInv, Names
    <3> QED BY <3>3, <3>4
  <2> QED BY <2>3, <2>4, <2>5, <2>6, <2>7, Assemble
<1>4. CASE dir[name] # None
  <2>1. pc'[p] = "probe"
    BY <1>0, <1>4 DEF Create, Goto, Posix, Exclusive, IInv, TypeOK
  <2> QED BY <1>2, <2>1, <1>1
<1> QED
  BY <1>1, <1>3, <1>4, Zenon DEF Create, Goto

\* What a flush adds to the file an instance is making.
LEMMA LandedHas ==
  ASSUME IInv, NEW p \in Proc, pc[p] \in Working, NEW pieces,
         data' = Landed(dst[p], pieces, game[p]),
         dir' = dir, tmp' = tmp, game' = game
  PROVE  /\ \A x \in Part : Has(p, x)' <=> x \in pieces \/ Has(p, x)
         /\ \A i \in Inode : i # dst[p] => data'[i] = data[i]
<1>1. tmp[p] \in Path /\ dst[p] = dir[tmp[p]] /\ dst[p] \in Inode
  BY Constants
  DEF IInv, TypeOK, Owning, Names, NamesOf, Streams, StreamsOf
<1>2. dst[p] \in DOMAIN data /\ DOMAIN data[dst[p]] = Part
  BY <1>1 DEF IInv, TypeOK
<1>3. \A x \in Part : data'[dst[p]][x] = IF x \in pieces THEN game[p]
                                         ELSE data[dst[p]][x]
  BY <1>1, <1>2 DEF Landed, IInv, TypeOK
<1> QED BY <1>1, <1>3, LandedElsewhere DEF Has, IInv

\* A step that goes on with the same file.
LEMMA WorkStep ==
  ASSUME IInv, TypeOK', NEW p \in Proc, Step(p), pc[p] \in Working,
         pc'[p] \in Working, UNCHANGED <<dir, pass, tmp, old, src, dst, game>>,
         Reliable => (full => full'), \A i \in Inode : i # dst[p] => data'[i] = data[i],
         ProgressOf(p)'
  PROVE  IInv'
<1>1. NamesOf(p)'
  BY DEF IInv, Names, NamesOf, Working
<1>2. StreamsOf(p)'
  BY DEF IInv, Streams, StreamsOf, Working, Owning
<1> QED BY <1>1, <1>2, SameNames

\* A disk that has filled up stays full.
LEMMA StaysFull ==
  ASSUME Reliable,
         UNCHANGED full \/ (Faults # "none" /\ full' = (Faults = "sticky"))
  PROVE  full => full'
<1>1. Faults # "none" => Faults = "sticky"
  BY DEF Reliable
<1> QED BY <1>1, Zenon

LEMMA WriteLumpsStep ==
  ASSUME IInv, TypeOK', NEW p \in Proc, WriteLumps(p)
  PROVE  IInv'
<1>0. /\ pc[p] = "lumps" /\ Step(p) /\ pc[p] \in Working
      /\ Reliable => (full => full')
  <2>1. UNCHANGED full \/ (Faults # "none" /\ full' = (Faults = "sticky"))
    BY DEF WriteLumps
  <2> QED BY <2>1, StaysFull DEF WriteLumps, Step, Working
<1>1. CASE ErrorExit(p)
  <2>1. pc'[p] = "exit1"
    BY <1>1 DEF ErrorExit, Exit, Goto, IInv, TypeOK
  <2>2. data' = data
    BY <1>1, <2>1 DEF WriteLumps, Goto, IInv, TypeOK
  <2> QED BY <1>0, <1>1, <2>2, ExitStep DEF ErrorExit, Exited
<1>2. CASE ~ErrorExit(p)
  <2>1. /\ pc'[p] = "entries" /\ pc'[p] \in Working
        /\ UNCHANGED <<dir, pass, tmp, old, src, dst, game>>
    BY <1>2 DEF WriteLumps, Goto, IInv, TypeOK, Working
  <2>2. Reliable => buf[p] = {}
    BY <1>0 DEF IInv, Progress, ProgressOf
  <2>3. CASE data' = data /\ buf' = [buf EXCEPT ![p] = {"lumps"}]
    <3>1. buf'[p] = {"lumps"}
      BY <2>3 DEF IInv, TypeOK
    <3>2. ProgressOf(p)'
      BY <2>1, <3>1 DEF ProgressOf
    <3> QED BY <1>0, <2>1, <2>3, <3>2, WorkStep
  <2>4. CASE data' = Landed(dst[p], {"lumps"}, game[p]) /\ buf' = buf
    <3>1. /\ Has(p, "lumps")'
          /\ \A i \in Inode : i # dst[p] => data'[i] = data[i]
      BY <1>0, <2>1, <2>4, LandedHas DEF Part
    <3>2. ProgressOf(p)'
      BY <2>1, <2>2, <2>4, <3>1 DEF ProgressOf
    <3> QED BY <1>0, <2>1, <3>1, <3>2, WorkStep
  <2> QED BY <1>2, <2>3, <2>4 DEF WriteLumps
<1> QED BY <1>1, <1>2

LEMMA WriteEntriesStep ==
  ASSUME IInv, TypeOK', NEW p \in Proc, WriteEntries(p)
  PROVE  IInv'
<1>0. /\ pc[p] = "entries" /\ Step(p) /\ pc[p] \in Working
      /\ Reliable => (full => full')
  <2>1. UNCHANGED full \/ (Faults # "none" /\ full' = (Faults = "sticky"))
    BY DEF WriteEntries
  <2> QED BY <2>1, StaysFull DEF WriteEntries, Step, Working
<1>1. CASE ErrorExit(p)
  <2>1. pc'[p] = "exit1"
    BY <1>1 DEF ErrorExit, Exit, Goto, IInv, TypeOK
  <2>2. data' = data
    BY <1>1, <2>1 DEF WriteEntries, Goto, IInv, TypeOK
  <2> QED BY <1>0, <1>1, <2>2, ExitStep DEF ErrorExit, Exited
<1>2. CASE ~ErrorExit(p)
  <2>1. /\ pc'[p] = "rewind" /\ pc'[p] \in Working
        /\ UNCHANGED <<dir, pass, tmp, old, src, dst, game>>
    BY <1>2 DEF WriteEntries, Goto, IInv, TypeOK, Working
  <2>2. Reliable =>
          buf[p] \subseteq {"lumps"} /\ ("lumps" \in buf[p] \/ Has(p, "lumps"))
    BY <1>0 DEF IInv, Progress, ProgressOf
  <2>3. CASE data' = data /\ buf' = [buf EXCEPT ![p] = @ \cup {"dir"}]
    <3>1. buf'[p] = buf[p] \cup {"dir"} /\ (Has(p, "lumps")' <=> Has(p, "lumps"))
      BY <2>1, <2>3 DEF IInv, TypeOK, Has
    <3>2. ProgressOf(p)'
      BY <2>1, <2>2, <3>1 DEF ProgressOf
    <3> QED BY <1>0, <2>1, <2>3, <3>2, WorkStep
  <2>4. CASE /\ data' = Landed(dst[p], buf[p] \cup {"dir"}, game[p])
             /\ buf' = [buf EXCEPT ![p] = {}]
    <3>1. /\ \A x \in Part : Has(p, x)' <=> x \in buf[p] \cup {"dir"} \/ Has(p, x)
          /\ \A i \in Inode : i # dst[p] => data'[i] = data[i]
      BY <1>0, <2>1, <2>4, LandedHas
    <3>2. Reliable => Has(p, "lumps")' /\ Has(p, "dir")' /\ buf'[p] = {}
      BY <2>2, <2>4, <3>1 DEF Part, IInv, TypeOK
    <3>3. ProgressOf(p)'
      BY <2>1, <3>2 DEF ProgressOf
    <3> QED BY <1>0, <2>1, <3>1, <3>3, WorkStep
  <2> QED BY <1>2, <2>3, <2>4 DEF WriteEntries
<1> QED BY <1>1, <1>2

\* A failing flush leaves every other file alone, and when writes are reliable
\* it fills the disk for good.
LEMMA FailedFlush ==
  ASSUME IInv, NEW p \in Proc, pc[p] \in Working, FlushFails(p)
  PROVE  /\ Reliable => Cmd[p] = "compress" /\ full' /\ buf[p] # {}
         /\ \A i \in Inode : i # dst[p] => data'[i] = data[i]
<1>1. Reliable => Faults = "sticky" /\ Cmd[p] = "compress" /\ buf[p] # {}
  BY DEF FlushFails, Reliable
<1>2. Reliable => full'
  BY <1>1, Zenon DEF FlushFails
<1>3. \A i \in Inode : i # dst[p] => data'[i] = data[i]
  BY LandedElsewhere DEF FlushFails, IInv
<1> QED BY <1>1, <1>2, <1>3

LEMMA WriteHeaderStep ==
  ASSUME IInv, TypeOK', NEW p \in Proc, WriteHeader(p)
  PROVE  IInv'
<1>0. /\ pc[p] = "rewind" /\ Step(p) /\ pc[p] \in Working
      /\ pc'[p] = (IF Cmd[p] = "compress" THEN "size" ELSE "close")
      /\ pc'[p] \in Working
      /\ UNCHANGED <<dir, pass, tmp, old, src, dst, game>>
  BY DEF WriteHeader, Step, Working, Goto, AfterHeader, IInv, TypeOK
<1>1. Reliable => /\ buf[p] \subseteq {"lumps", "dir"}
                  /\ "lumps" \in buf[p] \/ Has(p, "lumps")
                  /\ "dir" \in buf[p] \/ Has(p, "dir")
  BY <1>0 DEF IInv, Progress, ProgressOf
<1>2. CASE /\ data' = Landed(dst[p], buf[p], game[p])
           /\ buf' = [buf EXCEPT ![p] = {"header"}]
           /\ UNCHANGED full
  <2>1. /\ \A x \in Part : Has(p, x)' <=> x \in buf[p] \/ Has(p, x)
        /\ \A i \in Inode : i # dst[p] => data'[i] = data[i]
    BY <1>0, <1>2, LandedHas
  <2>2. Reliable => Has(p, "lumps")' /\ Has(p, "dir")' /\ buf'[p] = {"header"}
    BY <1>1, <1>2, <2>1 DEF Part, IInv, TypeOK
  <2>3. ProgressOf(p)'
    BY <1>0, <2>2 DEF ProgressOf
  <2> QED BY <1>0, <1>2, <2>1, <2>3, WorkStep
<1>3. CASE FlushFails(p) /\ buf' = [buf EXCEPT ![p] = {"stray"}]
  <2>1. /\ Reliable => Cmd[p] = "compress" /\ full'
        /\ \A i \in Inode : i # dst[p] => data'[i] = data[i]
        /\ buf'[p] = {"stray"}
    BY <1>0, <1>3, FailedFlush DEF IInv, TypeOK
  <2>2. ProgressOf(p)'
    BY <1>0, <2>1 DEF ProgressOf
  <2> QED BY <1>0, <2>1, <2>2, WorkStep
<1> QED BY <1>2, <1>3 DEF WriteHeader

LEMMA CheckSizeStep ==
  ASSUME IInv, TypeOK', NEW p \in Proc, CheckSize(p)
  PROVE  IInv'
<1>0. /\ pc[p] = "size" /\ Step(p) /\ pc[p] \in Working
  BY DEF CheckSize, Step, Working
<1>1. Reliable =>
        /\ Cmd[p] = "compress"
        /\ \/ buf[p] = {"header"} /\ Has(p, "lumps") /\ Has(p, "dir")
           \/ buf[p] = {"stray"} /\ full
  BY <1>0 DEF IInv, Progress, ProgressOf
<1>2. CASE /\ FlushWorks(p)
           /\ data' = Landed(dst[p], buf[p], game[p])
           /\ buf' = [buf EXCEPT ![p] = {}]
           /\ Goto(p, "close")
           /\ UNCHANGED <<dir, full, pass, src, dst, tmp, old, game>>
  <2>1. Reliable => buf[p] = {"header"} /\ Has(p, "lumps") /\ Has(p, "dir")
    BY <1>1, <1>2 DEF FlushWorks
  <2>2. /\ \A x \in Part : Has(p, x)' <=> x \in buf[p] \/ Has(p, x)
        /\ \A i \in Inode : i # dst[p] => data'[i] = data[i]
    BY <1>0, <1>2, LandedHas
  <2>3. /\ Reliable => Has(p, "lumps")' /\ Has(p, "dir")' /\ Has(p, "header")'
        /\ buf'[p] = {} /\ pc'[p] = "close" /\ pc'[p] \in Working
    BY <1>2, <2>1, <2>2 DEF Part, IInv, TypeOK, Goto, Working
  <2>4. ProgressOf(p)'
    BY <1>1, <2>3 DEF ProgressOf
  <2> QED BY <1>0, <1>2, <2>2, <2>3, <2>4, WorkStep
<1>3. CASE FlushFails(p) /\ ErrorExit(p)
  BY <1>0, <1>3, FailedFlush, ExitStep DEF ErrorExit, Exited
<1> QED BY <1>2, <1>3 DEF CheckSize

LEMMA CloseStep ==
  ASSUME Posix, IInv, TypeOK', NEW p \in Proc, Close(p)
  PROVE  IInv'
<1>0. /\ pc[p] = "close" /\ Step(p) /\ pc[p] \in Working
      /\ pc'[p] = IF src[p] = None THEN "crashed" ELSE AfterClose(p)
      /\ dst'[p] = None /\ src'[p] = None /\ buf'[p] = {}
      /\ UNCHANGED <<dir, pass, tmp, old, game>>
  BY DEF Close, Step, Working, Goto, CloseFiles, IInv, TypeOK
<1>1. Reliable =>
        /\ Has(p, "lumps") /\ Has(p, "dir")
        /\ IF Cmd[p] = "compress" THEN buf[p] = {} /\ Has(p, "header")
                                  ELSE buf[p] = {"header"}
  BY <1>0 DEF IInv, Progress, ProgressOf
<1>2. Reliable => ~FlushFails(p)
  BY <1>0, <1>1, FailedFlush
<1>3. /\ \A i \in Inode : i # dst[p] => data'[i] = data[i]
      /\ Reliable => (full => full')
  <2>1. CASE data' = Landed(dst[p], buf[p], game[p]) /\ UNCHANGED full
    BY <1>0, <2>1, LandedHas
  <2>2. CASE FlushFails(p)
    BY <1>0, <1>2, <2>2, FailedFlush
  <2> QED BY <2>1, <2>2 DEF Close
<1>5. Reliable => Has(p, "lumps")' /\ Has(p, "dir")' /\ Has(p, "header")'
  <2> SUFFICES ASSUME Reliable
               PROVE  Has(p, "lumps")' /\ Has(p, "dir")' /\ Has(p, "header")'
    OBVIOUS
  <2>1. data' = Landed(dst[p], buf[p], game[p])
    BY <1>2 DEF Close
  <2>2. \A x \in Part : Has(p, x)' <=> x \in buf[p] \/ Has(p, x)
    BY <1>0, <2>1, LandedHas
  <2> QED BY <1>1, <2>2 DEF Part
<1>6. /\ pc'[p] \in {"crashed", "reopen", "rmtemp", "rename"}
      /\ pc'[p] = "rmtemp" => pass[p] = 2
  BY <1>0 DEF AfterClose, BeforeRename, Posix, IInv, TypeOK
<1>7. NamesOf(p)'
  BY <1>0, <1>6 DEF IInv, Names, NamesOf, Working
<1>8. StreamsOf(p)'
  BY <1>0, <1>6 DEF IInv, Streams, StreamsOf, Working, Owning
<1>9. ProgressOf(p)'
  BY <1>0, <1>5, <1>6 DEF ProgressOf
<1> QED BY <1>0, <1>3, <1>7, <1>8, <1>9, SameNames

LEMMA ReopenStep ==
  ASSUME IInv, TypeOK', NEW p \in Proc, Reopen(p)
  PROVE  IInv'
<1>0. /\ pc[p] = "reopen" /\ Step(p) /\ data' = data /\ full' = full
      /\ tmp[p] \in Path /\ tmp[p] \in Temp /\ tmp[p] # None
      /\ dir[tmp[p]] # None
  BY Constants DEF Reopen, Step, Owning, IInv, TypeOK, Names, NamesOf
<1>1. CASE ErrorExit(p)
  BY <1>0, <1>1, ExitStep DEF ErrorExit, Exited
<1>2. CASE ~ErrorExit(p)
  <2>1. /\ pc'[p] = "probe" /\ src'[p] = dir[tmp[p]] /\ game'[p] \in Game
        /\ old'[p] = tmp[p] /\ tmp'[p] = None /\ pass'[p] = 2
        /\ UNCHANGED <<dir, dst, buf>>
    BY <1>0, <1>2 DEF Reopen, Goto, IInv, TypeOK
  <2>2. NamesOf(p)'
    BY <1>0, <2>1 DEF NamesOf, IInv, TypeOK
  <2>3. StreamsOf(p)'
    BY <1>0, <2>1, Constants
    DEF IInv, Streams, StreamsOf, Working, NoLinks
  <2>4. ProgressOf(p)'
    BY <1>0, <2>1 DEF ProgressOf, IInv, Progress
  <2>5. ASSUME NEW q \in Proc, q # p
        PROVE  Untouched(q) /\ Apart(p, q)'
    <3>1. Unmoved(q)
      BY <2>5, <1>0, OthersUnmoved DEF IInv
    <3>2. Untouched(q)
      BY <3>1, <1>0, <2>1 DEF Untouched
    <3>3. Apart(p, q)'
      BY <3>1, <1>0, <2>1, <2>5 DEF Apart, IInv, Names, Unmoved
    <3> QED BY <3>2, <3>3
  <2>6. NoLinks'
    BY <2>1 DEF IInv, NoLinks
  <2> QED BY <2>2, <2>3, <2>4, <2>5, <2>6, Assemble
<1> QED BY <1>1, <1>2

LEMMA RemoveTempStep ==
  ASSUME Posix, IInv, TypeOK', NEW p \in Proc, RemoveTemp(p)
  PROVE  IInv'
<1>1. /\ pc[p] = "rmtemp" /\ Step(p) /\ data' = data /\ full' = full
      /\ old[p] \in Temp /\ old[p] \in Path /\ old[p] # None
      /\ tmp[p] \in Temp /\ tmp[p] \in Path /\ tmp[p] # None
      /\ tmp[p] # old[p]
  BY Constants DEF RemoveTemp, Step, IInv, TypeOK, Owning, Names, NamesOf
<1>2. /\ dir' = dir \/ dir' = [dir EXCEPT ![old[p]] = None]
      /\ pc'[p] = "rename" /\ old'[p] = None
      /\ UNCHANGED <<pass, src, dst, buf, tmp, game>>
  BY <1>1 DEF RemoveTemp, Posix, Goto, BeforeRename, IInv, TypeOK
<1>3. /\ dir'[old[p]] \in {dir[old[p]], None}
      /\ \A f \in Path : f # old[p] => dir'[f] = dir[f]
  BY <1>1, <1>2 DEF IInv, TypeOK
<1>4. NoLinks'
  BY <1>3 DEF IInv, NoLinks
<1>5. NamesOf(p)'
  BY <1>1, <1>2, <1>3 DEF IInv, Names, NamesOf, Working
<1>6. StreamsOf(p)'
  BY <1>1, <1>2 DEF IInv, Streams, StreamsOf, Working, Owning
<1>7. ProgressOf(p)'
  BY <1>1, <1>2, <1>3 DEF IInv, Progress, ProgressOf, Has
<1>8. ASSUME NEW q \in Proc, q # p
      PROVE  Untouched(q) /\ Apart(p, q)'
  <2>1. Unmoved(q)
    BY <1>1, <1>8, OthersUnmoved DEF IInv
  <2>2. old[p] # tmp[q] /\ old[p] # old[q]
    BY <1>1, <1>8 DEF IInv, Names, Apart
  <2>3. /\ tmp[q] # None => tmp[q] \in Path
        /\ old[q] # None => old[q] \in Path
    BY Constants DEF IInv, TypeOK
  <2>4. Untouched(q)
    BY <1>1, <1>3, <2>1, <2>2, <2>3, Constants DEF Untouched
  <2>5. Apart(p, q)'
    BY <1>2, <1>8, <2>1 DEF Apart, IInv, Names, Unmoved
  <2> QED BY <2>4, <2>5
<1> QED BY <1>4, <1>5, <1>6, <1>7, <1>8, Assemble

LEMMA RenameStep ==
  ASSUME IInv, TypeOK', NEW p \in Proc, Rename(p)
  PROVE  IInv'
<1>0. pc[p] = "rename" /\ Step(p) /\ data' = data /\ full' = full
  BY DEF Rename, Step
<1>1. CASE ErrorExit(p)
  BY <1>0, <1>1, ExitStep DEF ErrorExit, Exited
<1>2. CASE ~ErrorExit(p)
  <2>1. /\ tmp[p] \in Temp /\ tmp[p] \in Path /\ tmp[p] # None
        /\ Output(p) \in Path /\ Output(p) \notin Temp /\ Output(p) # tmp[p]
    BY <1>0, Files, Constants, SMTT(60) DEF IInv, TypeOK, Owning, Exited
  <2>2. /\ dir' = [dir EXCEPT ![Output(p)] = dir[tmp[p]], ![tmp[p]] = None]
        /\ tmp'[p] = None /\ pc'[p] \in {"open", "exit0", "exit1"}
        /\ UNCHANGED <<pass, src, dst, buf, old, game>>
    BY <1>0, <1>2 DEF Rename, Return, Goto, IInv, TypeOK
  <2>3. /\ dir'[tmp[p]] = None /\ dir'[Output(p)] = dir[tmp[p]]
        /\ \A f \in Path : f \notin {tmp[p], Output(p)} => dir'[f] = dir[f]
    BY <2>1, <2>2 DEF IInv, TypeOK
  <2>4. NoLinks'
    BY <2>1, <2>3 DEF IInv, NoLinks
  <2>5. NamesOf(p)'
    BY <1>0, <2>1, <2>2, <2>3, Constants
    DEF IInv, Names, NamesOf, Working, TypeOK
  <2>6. StreamsOf(p)'
    BY <1>0, <2>2 DEF IInv, Streams, StreamsOf, Working, Owning
  <2>7. ProgressOf(p)'
    BY <1>0, <2>2 DEF IInv, Progress, ProgressOf
  <2>8. ASSUME NEW q \in Proc, q # p
        PROVE  Untouched(q) /\ Apart(p, q)'
    <3>1. Unmoved(q)
      BY <1>0, <2>8, OthersUnmoved DEF IInv
    <3>2. tmp[p] # tmp[q] /\ tmp[p] # old[q]
      BY <2>1, <2>8 DEF IInv, Names, Apart
    <3>3. /\ tmp[q] # None => tmp[q] \in Path /\ tmp[q] # Output(p)
          /\ old[q] # None => old[q] \in Path /\ old[q] # Output(p)
      BY <2>1, Constants DEF IInv, TypeOK
    <3>4. Untouched(q)
      BY <1>0, <2>1, <2>3, <3>1, <3>2, <3>3, Constants DEF Untouched
    <3>5. Apart(p, q)'
      BY <2>2, <2>8, <3>1 DEF Apart, IInv, Names, Unmoved
    <3> QED BY <3>4, <3>5
  <2> QED BY <2>4, <2>5, <2>6, <2>7, <2>8, Assemble
<1> QED BY <1>1, <1>2

-----------------------------------------------------------------------------
(* The theorems *)

LEMMA InitTyped ==
  Init => TypeOK
<1> SUFFICES ASSUME Init PROVE TypeOK
  OBVIOUS
<1>1. dir \in [Path -> Inode \cup {None}]
  BY LitterAssumption, Constants DEF Init
<1>2. data \in [Inode -> [Part -> Game \cup {None}]]
  <2>1. InitialData \subseteq [Part -> Game \cup {None}] /\ Blank \in InitialData
    BY DEF InitialData, Blank
  <2>2. PICK kind \in [Target -> InitialData] :
          data = [i \in Inode |-> IF \E t \in Target : dir[t] = i
                                  THEN kind[CHOOSE t \in Target : dir[t] = i]
                                  ELSE Blank]
    BY DEF Init
  <2>3. ASSUME NEW i \in Inode
        PROVE  data[i] \in InitialData
    <3>1. CASE \E t \in Target : dir[t] = i
      <4>1. (CHOOSE t \in Target : dir[t] = i) \in Target
        BY <3>1
      <4> QED BY <2>2, <3>1, <4>1
    <3>2. CASE ~ \E t \in Target : dir[t] = i
      BY <2>1, <2>2, <3>2
    <3> QED BY <3>1, <3>2
  <2> QED BY <2>1, <2>2, <2>3
<1>3. \A p \in Proc : pc[p] \in {"open", "exit1"}
  BY DEF Init
<1>4. \A p \in Proc : pc[p] \notin Exited => pos[p] \in DOMAIN Args[p]
  <2> SUFFICES ASSUME NEW p \in Proc, Args[p] # <<>>
               PROVE  1 \in DOMAIN Args[p]
    BY DEF Init, Exited
  <2> QED BY CommandAssumption
<1>5. pc \in [Proc -> Label]
  BY DEF Init, Label, Exited
<1>6. \A p \in Proc : pc[p] \notin Owning /\ pc[p] # "create"
  BY <1>3 DEF Owning, Working
<1>7. full \in BOOLEAN /\ failed \in [Proc -> BOOLEAN]
  BY DEF Init
<1>8. /\ pos \in [Proc -> Nat \ {0}]
      /\ pass \in [Proc -> {1, 2}]
      /\ tryno \in [Proc -> 0 .. MaxTemp]
  BY FileAssumption DEF Init
<1>9. buf \in [Proc -> SUBSET Piece]
  BY DEF Init
<1>10. /\ src \in [Proc -> Inode \cup {None}]
       /\ dst \in [Proc -> Inode \cup {None}]
       /\ tmp \in [Proc -> Temp \cup {None}]
       /\ old \in [Proc -> Temp \cup {None}]
       /\ game \in [Proc -> Game \cup {None}]
  BY DEF Init
<1>11. /\ left \subseteq Temp
       /\ \A p \in Proc : ~NeedsOld(p)
  BY DEF Init, NeedsOld
<1> QED
  BY <1>1, <1>2, <1>4, <1>5, <1>6, <1>7, <1>8, <1>9, <1>10, <1>11 DEF TypeOK

\* Every variable keeps its type, on any system and with any faults: no
\* argument beyond the last is looked at, no temporary name beyond the limit
\* is tried, and an instance that is to rename a file has one.
THEOREM TypeCorrect == Spec => []TypeOK
<1>1. Init => TypeOK
  BY InitTyped
<1>2. TypeOK /\ [Next]_vars => TypeOK'
  <2> SUFFICES ASSUME TypeOK, [Next]_vars PROVE TypeOK'
    OBVIOUS
  <2>1. CASE UNCHANGED vars
    BY <2>1 DEF vars, TypeOK, NeedsOld
  <2>2. CASE Done
    BY <2>2 DEF Done, vars, TypeOK, NeedsOld
  <2>3. ASSUME NEW p \in Proc, Step(p)
        PROVE  TypeOK'
    BY <2>3, TypeStep
  <2>4. ASSUME NEW p \in Proc, Crash(p)
        PROVE  TypeOK'
    BY <2>4, ExitType DEF Crash, TypeOK, Exited
  <2> QED BY <2>1, <2>2, <2>3, <2>4 DEF Next
<1> QED BY <1>1, <1>2, PTL DEF Spec

LEMMA InitInv == Init => IInv
<1> SUFFICES ASSUME Init PROVE IInv
  OBVIOUS
<1>1. TypeOK
  BY InitTyped
<1>2. NoLinks
  BY LitterAssumption DEF Init, NoLinks
<1>3. \A p \in Proc : /\ pc[p] \in {"open", "exit1"} /\ tmp[p] = None
                      /\ old[p] = None /\ src[p] = None /\ dst[p] = None
                      /\ buf[p] = {} /\ pass[p] = 1
  BY DEF Init
<1>4. Names
  BY <1>3 DEF Names, NamesOf, Apart, Working
<1>5. Streams
  BY <1>3 DEF Streams, StreamsOf, Working, Owning
<1>6. Progress
  BY <1>3 DEF Progress, ProgressOf
<1> QED BY <1>1, <1>2, <1>4, <1>5, <1>6 DEF IInv

LEMMA StepInv ==
  ASSUME Posix, IInv, [Next]_vars
  PROVE  IInv'
<1>0. TypeOK'
  <2>1. CASE UNCHANGED vars
    BY <2>1 DEF vars, TypeOK, NeedsOld, IInv
  <2>2. CASE Done
    BY <2>2 DEF Done, vars, TypeOK, NeedsOld, IInv
  <2>3. ASSUME NEW p \in Proc, Step(p)
        PROVE  TypeOK'
    BY <2>3, TypeStep DEF IInv
  <2>4. ASSUME NEW p \in Proc, Crash(p)
        PROVE  TypeOK'
    BY <2>4, ExitType DEF Crash, TypeOK, Exited, IInv
  <2> QED BY <2>1, <2>2, <2>3, <2>4 DEF Next
<1>1. CASE UNCHANGED vars
  BY <1>0, <1>1 DEF vars, IInv, NoLinks, Names, NamesOf, Apart, Streams,
                    StreamsOf, Progress, ProgressOf, Has
<1>2. ASSUME NEW p \in Proc, Step(p)
      PROVE  IInv'
  <2>1. CASE Open(p)          BY <1>0, <2>1, OpenStep
  <2>2. CASE Probe(p)         BY <1>0, <2>2, ProbeStep
  <2>3. CASE Create(p)        BY <1>0, <2>3, CreateStep
  <2>4. CASE WriteLumps(p)    BY <1>0, <2>4, WriteLumpsStep
  <2>5. CASE WriteEntries(p)  BY <1>0, <2>5, WriteEntriesStep
  <2>6. CASE WriteHeader(p)   BY <1>0, <2>6, WriteHeaderStep
  <2>7. CASE CheckSize(p)     BY <1>0, <2>7, CheckSizeStep
  <2>8. CASE Close(p)         BY <1>0, <2>8, CloseStep
  <2>9. CASE Reopen(p)        BY <1>0, <2>9, ReopenStep
  <2>10. CASE RemoveTemp(p)   BY <1>0, <2>10, RemoveTempStep
  <2>11. CASE RemoveTarget(p)
    BY <2>11 DEF RemoveTarget, IInv, Names, NamesOf
  <2>12. CASE Rename(p)       BY <1>0, <2>12, RenameStep
  <2> QED
    BY <1>2, <2>1, <2>2, <2>3, <2>4, <2>5, <2>6, <2>7, <2>8, <2>9, <2>10,
       <2>11, <2>12 DEF Step
<1>3. ASSUME NEW p \in Proc, Crash(p)
      PROVE  IInv'
  BY <1>0, <1>3, ExitStep DEF Crash, Exited
<1> QED BY <1>1, <1>2, <1>3 DEF Next, Done

\* The invariant the other theorems rest on.
THEOREM Invariance ==
  ASSUME Posix
  PROVE  Spec => []IInv
BY InitInv, StepInv, PTL DEF Spec

\* With an exclusive fopen(), no two instances ever share an output file, and
\* none reads or replaces the file another is writing, also when writes fail.
THEOREM OutputsArePrivate ==
  ASSUME Posix
  PROVE  Spec => []OutputsPrivate
<1>1. ASSUME IInv PROVE OutputsPrivate
  <2> SUFFICES ASSUME NEW p \in Proc, dst[p] # None
               PROVE  /\ \A q \in Proc \ {p} : dst[p] \notin {dst[q], src[q]}
                      /\ dst[p] # src[p]
                      /\ \A t \in Target : dir[t] # dst[p]
    BY DEF OutputsPrivate
  <2>1. /\ pc[p] \in Working /\ dst[p] = dir[tmp[p]]
        /\ tmp[p] \in Temp /\ tmp[p] \in Path /\ tmp[p] # None
    BY <1>1, Constants DEF IInv, Streams, StreamsOf, TypeOK, Owning
  <2>2. ASSUME NEW q \in Proc, q # p
        PROVE  dst[p] # dst[q] /\ dst[p] # src[q]
    <3>1. tmp[p] # tmp[q] /\ tmp[p] # old[q]
      BY <1>1, <2>1, <2>2 DEF IInv, Names, Apart
    <3>2. dst[q] # None => dst[q] = dir[tmp[q]] /\ tmp[q] \in Path
      BY <1>1, Constants DEF IInv, Streams, StreamsOf, TypeOK, Owning
    <3>3. dst[p] # dst[q]
      BY <1>1, <2>1, <3>1, <3>2 DEF IInv, NoLinks
    <3>4. dst[p] # src[q]
      BY <1>1, <2>1, <3>1 DEF IInv, Streams, StreamsOf
    <3> QED BY <3>3, <3>4
  <2>3. dst[p] # src[p]
    BY <1>1, <2>1 DEF IInv, Streams, StreamsOf, Names, NamesOf
  <2>4. \A t \in Target : dir[t] # dst[p]
    BY <1>1, <2>1, Constants DEF IInv, NoLinks
  <2> QED BY <2>2, <2>3, <2>4
<1> QED BY <1>1, Invariance, PTL

\* Apart from a rename over it, no step touches a target or its inode.
LEMMA TargetKept ==
  ASSUME Posix, IInv, NEW p \in Proc, Step(p) \/ Crash(p),
         NEW t \in Target, ~(Rename(p) /\ t = Output(p))
  PROVE  /\ dir'[t] = dir[t]
         /\ dir[t] # None => data'[dir[t]] = data[dir[t]]
<1>0. t \in Path /\ t \notin Temp /\ t # None
  BY Constants
<1>1. ASSUME dir[t] # None
      PROVE  dir[t] \in Inode /\ dir[t] # dst[p]
  <2>1. dir[t] \in Inode
    BY <1>0, <1>1 DEF IInv, TypeOK
  <2>2. CASE pc[p] \in Working
    <3>1. dst[p] = dir[tmp[p]] /\ tmp[p] \in Temp
      BY <2>2 DEF IInv, TypeOK, Streams, StreamsOf, Owning
    <3> QED BY <1>1, <2>1, <3>1, TargetInode DEF IInv
  <2>3. CASE pc[p] \notin Working
    BY <2>1, <2>3, Constants DEF IInv, Streams, StreamsOf
  <2> QED BY <2>1, <2>2, <2>3
<1>2. \A pieces, g : dir[t] # None => Landed(dst[p], pieces, g)[dir[t]] = data[dir[t]]
  BY <1>1, LandedElsewhere DEF IInv
<1>3. CASE Open(p)
  BY <1>3 DEF Open, ErrorExit, Exit
<1>4. CASE Probe(p)
  BY <1>4 DEF Probe, ErrorExit, Exit
<1>5. CASE Create(p)
  <2>1. TempName(p, tryno[p]) \in Temp
    <3>1. tryno[p] \in 0 .. MaxTemp - 1 /\ pc[p] = "create"
      BY <1>5, FileAssumption DEF Create, IInv, TypeOK
    <3> QED BY <3>1, Files DEF IInv, Exited
  <2>2. dir'[t] = dir[t]
    BY <1>0, <1>5, <2>1 DEF Create, ErrorExit, Exit, IInv, TypeOK
  <2>3. dir[t] # None => data'[dir[t]] = data[dir[t]]
    BY <1>0, <1>1, <1>5 DEF Create, Posix, Exclusive, Unused, IInv, TypeOK
  <2> QED BY <2>2, <2>3
<1>6. CASE WriteLumps(p)
  BY <1>2, <1>6 DEF WriteLumps, ErrorExit, Exit
<1>7. CASE WriteEntries(p)
  BY <1>2, <1>7 DEF WriteEntries, ErrorExit, Exit
<1>8. CASE WriteHeader(p)
  BY <1>2, <1>8 DEF WriteHeader, FlushFails
<1>9. CASE CheckSize(p)
  BY <1>2, <1>9 DEF CheckSize, FlushFails, ErrorExit, Exit
<1>10. CASE Close(p)
  BY <1>2, <1>10 DEF Close, FlushFails
<1>11. CASE Reopen(p)
  BY <1>11 DEF Reopen, ErrorExit, Exit
<1>12. CASE RemoveTemp(p)
  <2>1. old[p] \in Temp
    BY <1>12 DEF RemoveTemp, IInv, TypeOK, Names, NamesOf
  <2> QED BY <1>0, <1>12, <2>1 DEF RemoveTemp, IInv, TypeOK
<1>13. CASE RemoveTarget(p)
  BY <1>13 DEF RemoveTarget, IInv, Names, NamesOf
<1>14. CASE Rename(p)
  <2>1. tmp[p] \in Temp
    BY <1>14 DEF Rename, IInv, TypeOK, Owning
  <2> QED BY <1>0, <1>14, <2>1 DEF Rename, ErrorExit, Exit, IInv, TypeOK
<1>15. CASE Crash(p)
  BY <1>15 DEF Crash, Exit
<1> QED
  BY <1>3, <1>4, <1>5, <1>6, <1>7, <1>8, <1>9, <1>10, <1>11, <1>12, <1>13,
     <1>14, <1>15 DEF Step

\* The file an instance is about to rename is a whole WAD.
LEMMA RenamesWhole ==
  ASSUME Reliable, IInv, NEW p \in Proc, pc[p] = "rename"
  PROVE  IsWad(dir[tmp[p]], game[p]) /\ game[p] \in Game
BY DEF IInv, Progress, ProgressOf, Has, IsWad, Part, Streams, StreamsOf,
       Owning

\* A step changes a target to a whole WAD or not at all.
LEMMA TargetsWhole ==
  ASSUME Posix, Reliable, IInv, [Next]_vars
  PROVE  [\A t \in Target : Content(t)' # Content(t) => Content(t)' # None]_vars
<1> SUFFICES ASSUME NEW t \in Target, Content(t)' # Content(t), Next
             PROVE  Content(t)' # None
  OBVIOUS
<1>1. PICK p \in Proc : Step(p) \/ Crash(p)
  <2>1. ~Done
    BY DEF Done, vars, Content, Holds, IsWad
  <2> QED BY <2>1 DEF Next
<1>2. CASE Rename(p) /\ t = Output(p) /\ dir' # dir
  <2>1. /\ IsWad(dir[tmp[p]], game[p]) /\ game[p] \in Game
        /\ tmp[p] \in Temp /\ dir[tmp[p]] # None
    BY <1>2, RenamesWhole
    DEF Rename, IInv, TypeOK, Owning, Names, NamesOf
  <2>2. dir'[t] = dir[tmp[p]] /\ data' = data
    BY <1>2, <2>1, Constants, ZenonT(60) DEF Rename, ErrorExit, Exit, IInv, TypeOK
  <2>3. Content(t)' = game[p]
    BY <2>1, <2>2 DEF Content, Holds, IsWad, Part
  <2> QED BY <2>1, <2>3, Constants
<1>3. CASE Rename(p) /\ dir' = dir
  <2>1. Content(t)' = Content(t)
    BY <1>3 DEF Rename, Content, Holds, IsWad
  <2> QED BY <2>1
<1>4. CASE ~(Rename(p) /\ t = Output(p))
  <2>1. /\ dir'[t] = dir[t]
        /\ dir[t] # None => data'[dir[t]] = data[dir[t]]
    BY <1>1, <1>4, TargetKept
  <2>2. Content(t)' = Content(t)
    BY <2>1 DEF Content, Holds, IsWad
  <2> QED BY <2>2
<1> QED BY <1>2, <1>3, <1>4

\* No write failure that lasts, no crash and no race between instances makes
\* a target change to anything but a whole WAD.
THEOREM TargetsReplacedWhole ==
  ASSUME Posix, Reliable
  PROVE  Spec => ReplacedWhole
<1>1. IInv /\ [Next]_vars
        => [\A t \in Target : Content(t)' # Content(t) => Content(t)' # None]_vars
  BY TargetsWhole
<1> QED BY <1>1, Invariance, PTL DEF Spec, ReplacedWhole

-----------------------------------------------------------------------------
(* The names of the temporary files *)

\* Only Compress() writes a second file, when it may merge.
Merges(p) == Cmd[p] = "compress" /\ AllowMerge

Writing == Working \cup {"probe", "create"}

\* The names an instance has in its hands, at each point of a run.
TidyOf(p) ==
  /\ pc[p] \in {"open", "exit0", "probe", "create"} => tmp[p] = None
  /\ pc[p] \in {"open", "exit0", "reopen", "rmtarget", "rename"} => old[p] = None
  /\ pc[p] \in Writing /\ pass[p] = 1 => old[p] = None
  /\ pc[p] \in Writing /\ pass[p] = 2 => Merges(p)
  /\ pc[p] = "reopen" => Merges(p)

\* Every temporary name that leads to a file is in somebody's hands, or could
\* not be removed.
Claimed ==
  \A n \in Temp :
    dir[n] # None =>
      n \in Litter \cup left \/ \E p \in Proc : n \in {tmp[p], old[p]}

TempInv ==
  /\ TypeOK /\ Claimed /\ \A p \in Proc : TidyOf(p)
  /\ Faults = "none" => left = {}

\* What could not be removed stays on record, and only a fault prevents it.
LEMMA LeftGrows ==
  ASSUME NEW p \in Proc, Step(p) \/ Crash(p)
  PROVE  /\ left \subseteq left'
         /\ Posix /\ Faults = "none" => left' = left
BY DEF Step, Open, Probe, Create, WriteLumps, WriteEntries, WriteHeader,
       CheckSize, Close, Reopen, RemoveTemp, RemoveTarget, Rename, Crash,
       Locked, Posix

LEMMA TidyExit ==
  ASSUME TempInv, NEW p \in Proc, NEW code \in {"exit1", "crashed"}, Exit(p, code),
         left \subseteq left'
  PROVE  Claimed' /\ \A q \in Proc : TidyOf(q)'
<1>1. dir' = dir /\ tmp' = tmp /\ old' = old /\ pass' = pass
  BY DEF Exit
<1>2. pc'[p] = code /\ \A q \in Proc : q # p => pc'[q] = pc[q]
  BY DEF Exit, Goto, TempInv, TypeOK
<1> QED BY <1>1, <1>2 DEF TempInv, Claimed, TidyOf, Writing, Working

\* The names of the others are the same after a step of p.
LEMMA TidyOthers ==
  ASSUME TempInv, NEW p \in Proc, Step(p) \/ Crash(p), NEW q \in Proc, q # p
  PROVE  TidyOf(q)' /\ tmp'[q] = tmp[q] /\ old'[q] = old[q]
<1>1. Unmoved(q)
  BY OthersUnmoved DEF TempInv
<1> QED BY <1>1 DEF TempInv, TidyOf, Unmoved

\* A step in which p drops no name that still leads to a file, and no file
\* gets a temporary name but in p's hands.
LEMMA StillClaimed ==
  ASSUME TempInv, NEW p \in Proc, Step(p),
         \A n \in Temp : dir'[n] # None =>
           /\ dir[n] # None \/ n \in {tmp'[p], old'[p]}
           /\ n \in {tmp[p], old[p]} => n \in {tmp'[p], old'[p]} \cup left'
  PROVE  Claimed'
<1>0. left \subseteq left'
  BY LeftGrows
<1> SUFFICES ASSUME NEW n \in Temp, dir'[n] # None, n \notin Litter, n \notin left'
             PROVE  \E q \in Proc : n \in {tmp'[q], old'[q]}
  BY DEF Claimed
<1>1. CASE n \in {tmp'[p], old'[p]}
  BY <1>1
<1>2. CASE n \notin {tmp'[p], old'[p]}
  <2>1. PICK q \in Proc : n \in {tmp[q], old[q]}
    BY <1>0, <1>2 DEF TempInv, Claimed
  <2>2. q # p
    BY <1>2, <2>1
  <2> QED BY <2>1, <2>2, TidyOthers
<1> QED BY <1>1, <1>2

LEMMA TidyStep ==
  ASSUME Posix, TempInv, NEW p \in Proc, Step(p)
  PROVE  Claimed' /\ \A q \in Proc : TidyOf(q)'
<1> USE DEF Goto
<1>0. ASSUME TidyOf(p)' PROVE \A q \in Proc : TidyOf(q)'
  BY <1>0, TidyOthers
<1>00. left \subseteq left'
  BY LeftGrows
<1>1. CASE Open(p)
  <2>1. CASE ErrorExit(p)
    BY <1>00, <2>1, TidyExit DEF ErrorExit
  <2>2. CASE ~ErrorExit(p)
    <3>1. /\ dir' = dir /\ tmp' = tmp /\ old' = old /\ tmp[p] = None /\ old[p] = None
          /\ pc'[p] \in {"open", "probe", "exit0", "exit1"}
          /\ pc'[p] = "probe" => pass'[p] = 1
      BY <1>1, <2>2 DEF Open, Return, TempInv, TypeOK, TidyOf
    <3>2. TidyOf(p)'
      BY <3>1 DEF TidyOf, Writing, Working
    <3>3. Claimed'
      BY <3>1, StillClaimed
    <3> QED BY <1>0, <3>2, <3>3
  <2> QED BY <2>1, <2>2
<1>2. CASE Probe(p)
  <2>1. CASE ErrorExit(p)
    BY <1>00, <2>1, TidyExit DEF ErrorExit
  <2>2. CASE ~ErrorExit(p)
    <3>1. /\ dir' = dir /\ tmp' = tmp /\ old' = old /\ pass' = pass
          /\ pc[p] = "probe" /\ pc'[p] \in {"probe", "create"}
      BY <1>2, <2>2 DEF Probe, TempInv, TypeOK
    <3>2. TidyOf(p)'
      BY <3>1 DEF TempInv, TidyOf, Writing, Working
    <3>3. Claimed'
      BY <3>1, StillClaimed
    <3> QED BY <1>0, <3>2, <3>3
  <2> QED BY <2>1, <2>2
<1>3. CASE Create(p)
  <2>1. CASE ErrorExit(p)
    BY <1>00, <2>1, TidyExit DEF ErrorExit
  <2>2. CASE ~ErrorExit(p)
    <3> DEFINE name == TempName(p, tryno[p])
    <3>1. name \in Temp /\ name \in Path
      <4>1. tryno[p] \in 0 .. MaxTemp - 1 /\ pc[p] = "create"
        BY <1>3, FileAssumption DEF Create, TempInv, TypeOK
      <4> QED BY <4>1, Files, Constants DEF TempInv, Exited
    <3>2. /\ pc[p] = "create" /\ tmp[p] = None /\ old' = old /\ pass' = pass
          /\ \/ dir' = dir /\ tmp' = tmp /\ pc'[p] = "probe"
             \/ /\ \E i \in Inode : dir' = [dir EXCEPT ![name] = i]
                /\ tmp'[p] = name /\ pc'[p] = "lumps"
      BY <1>3, <2>2 DEF Create, Posix, Exclusive, TempInv, TypeOK, TidyOf
    <3> HIDE DEF name
    <3>3. TidyOf(p)'
      BY <3>2 DEF TempInv, TidyOf, Writing, Working
    <3>4. tmp[p] \notin Temp
      BY <3>2, Constants
    <3>5. ASSUME NEW n \in Temp, dir'[n] # None
          PROVE  dir[n] # None \/ n = tmp'[p]
      <4>1. n \in Path /\ dir \in [Path -> Inode \cup {None}]
        BY Constants DEF TempInv, TypeOK
      <4> QED BY <3>2, <3>5, <4>1
    <3>6. \A n \in Temp : n \in {tmp[p], old[p]} => n \in {tmp'[p], old'[p]}
      BY <3>2, <3>4
    <3>7. Claimed'
      BY <1>3, <3>5, <3>6, StillClaimed DEF Step
    <3> QED BY <1>0, <3>3, <3>7
  <2> QED BY <2>1, <2>2
<1>4. CASE WriteLumps(p) \/ WriteEntries(p) \/ WriteHeader(p) \/ CheckSize(p)
  <2>1. CASE ErrorExit(p)
    BY <1>00, <2>1, TidyExit DEF ErrorExit
  <2>2. CASE ~ErrorExit(p)
    <3>1. /\ dir' = dir /\ tmp' = tmp /\ old' = old /\ pass' = pass
          /\ pc[p] \in Working /\ pc'[p] \in Working
      BY <1>4, <2>2
      DEF WriteLumps, WriteEntries, WriteHeader, CheckSize, AfterHeader, TempInv,
          TypeOK, Working
    <3>2. TidyOf(p)'
      BY <3>1 DEF TempInv, TidyOf, Writing, Working
    <3>3. Claimed'
      BY <3>1, StillClaimed
    <3> QED BY <1>0, <3>2, <3>3
  <2> QED BY <2>1, <2>2
<1>5. CASE Close(p)
  <2>1. /\ dir' = dir /\ tmp' = tmp /\ old' = old /\ pass' = pass
        /\ pc[p] = "close" /\ pc'[p] \in {"crashed", AfterClose(p)} /\ pass[p] \in {1, 2}
    BY <1>5 DEF Close, TempInv, TypeOK
  <2>2. /\ pass[p] = 1 => old[p] = None
        /\ pass[p] = 2 => Merges(p)
    BY <2>1 DEF TempInv, TidyOf, Writing, Working
  <2>3. TidyOf(p)'
    BY <2>1, <2>2
    DEF TidyOf, AfterClose, BeforeRename, Merges, Writing, Working
  <2>4. Claimed'
    BY <2>1, StillClaimed
  <2> QED BY <1>0, <2>3, <2>4
<1>6. CASE Reopen(p)
  <2>1. CASE ErrorExit(p)
    BY <1>00, <2>1, TidyExit DEF ErrorExit
  <2>2. CASE ~ErrorExit(p)
    <3>1. /\ dir' = dir /\ tmp'[p] = None /\ old'[p] = tmp[p] /\ pass'[p] = 2
          /\ pc[p] = "reopen" /\ pc'[p] = "probe" /\ old[p] = None /\ Merges(p)
      BY <1>6, <2>2 DEF Reopen, TempInv, TypeOK, TidyOf
    <3>2. TidyOf(p)'
      BY <3>1 DEF TidyOf, Merges, Writing, Working
    <3>3. Claimed'
      BY <3>1, Constants, StillClaimed
    <3> QED BY <1>0, <3>2, <3>3
  <2> QED BY <2>1, <2>2
<1>7. CASE RemoveTemp(p)
  <2>1. /\ \/ dir' = [dir EXCEPT ![old[p]] = None]
           \/ dir' = dir /\ left' = left \cup {old[p]}
        /\ tmp' = tmp /\ old'[p] = None
        /\ pc'[p] = "rename" /\ old[p] \in Temp \cup {None}
    BY <1>7 DEF RemoveTemp, BeforeRename, Posix, TempInv, TypeOK
  <2>2. TidyOf(p)'
    BY <2>1 DEF TidyOf, Writing, Working
  <2>3. \A n \in Temp : dir'[n] # None =>
          dir[n] # None /\ (n # old[p] \/ n \in left')
    BY <2>1, Constants DEF TempInv, TypeOK
  <2>4. Claimed'
    BY <2>1, <2>3, StillClaimed
  <2> QED BY <1>0, <2>2, <2>4
<1>8. CASE RemoveTarget(p)
  <2>1. CASE ErrorExit(p)
    BY <1>00, <2>1, TidyExit DEF ErrorExit
  <2>2. CASE ~ErrorExit(p)
    <3>1. /\ dir' = [dir EXCEPT ![Output(p)] = None] /\ tmp' = tmp /\ old' = old
          /\ pass' = pass /\ pc[p] = "rmtarget" /\ pc'[p] = "rename"
      BY <1>8, <2>2 DEF RemoveTarget, TempInv, TypeOK
    <3>2. TidyOf(p)'
      BY <3>1 DEF TempInv, TidyOf, Writing, Working
    <3>3. \A n \in Temp : dir'[n] # None => dir[n] # None
      BY <3>1, Constants DEF TempInv, TypeOK
    <3>4. Claimed'
      BY <3>1, <3>3, StillClaimed
    <3> QED BY <1>0, <3>2, <3>4
  <2> QED BY <2>1, <2>2
<1>9. CASE Rename(p)
  <2>1. CASE ErrorExit(p)
    BY <1>00, <2>1, TidyExit DEF ErrorExit
  <2>2. CASE ~ErrorExit(p)
    <3>1. /\ dir' = [dir EXCEPT ![Output(p)] = dir[tmp[p]], ![tmp[p]] = None]
          /\ tmp'[p] = None /\ old' = old /\ old[p] = None
          /\ pc[p] = "rename" /\ pc'[p] \in {"open", "exit0", "exit1"}
      BY <1>9, <2>2 DEF Rename, Return, TempInv, TypeOK, TidyOf
    <3>2. TidyOf(p)'
      BY <3>1 DEF TidyOf, Writing, Working
    <3>3. Output(p) \in Target
      BY <3>1, Files DEF TempInv, Exited
    <3>4. \A n \in Temp : dir'[n] # None => dir[n] # None /\ n # tmp[p]
      BY <3>1, <3>3, Constants DEF TempInv, TypeOK
    <3>5. Claimed'
      BY <3>1, <3>4, Constants, StillClaimed
    <3> QED BY <1>0, <3>2, <3>5
  <2> QED BY <2>1, <2>2
<1> QED
  BY <1>1, <1>2, <1>3, <1>4, <1>5, <1>6, <1>7, <1>8, <1>9 DEF Step

LEMMA TempInvariance ==
  ASSUME Posix
  PROVE  Spec => []TempInv
<1>1. Init => TempInv
  <2> SUFFICES ASSUME Init PROVE TempInv
    OBVIOUS
  <2>1. TypeOK
    BY InitTyped
  <2>2. Claimed /\ left = {}
    BY PathAssumption DEF Init, Claimed, Path
  <2>3. \A p \in Proc : TidyOf(p)
    BY DEF Init, TidyOf, Writing, Working
  <2> QED BY <2>1, <2>2, <2>3 DEF TempInv
<1>2. TempInv /\ [Next]_vars /\ TypeOK' => TempInv'
  <2> SUFFICES ASSUME TempInv, [Next]_vars, TypeOK' PROVE TempInv'
    OBVIOUS
  <2>1. CASE UNCHANGED vars
    BY <2>1 DEF vars, TempInv, Claimed, TidyOf
  <2>2. ASSUME NEW p \in Proc, Step(p)
        PROVE  TempInv'
    BY <2>2, TidyStep, LeftGrows DEF TempInv
  <2>3. ASSUME NEW p \in Proc, Crash(p)
        PROVE  TempInv'
    BY <2>3, TidyExit, LeftGrows DEF Crash, TempInv
  <2> QED BY <2>1, <2>2, <2>3 DEF Next, Done
<1> QED BY <1>1, <1>2, TypeCorrect, PTL DEF Spec

\* No instance loses track of a temporary file: each one there is was there
\* before, could not be removed, or belongs to an instance that runs, failed or
\* was killed; those that succeed have none; and no instance loses the file it
\* has yet to open again, remove or rename, whatever the instances race for
\* and whatever cannot be written, created, removed or renamed.
THEOREM TemporariesAccounted ==
  ASSUME Posix
  PROVE  Spec => []TempsAccounted
<1>1. TempInv /\ IInv => TempsAccounted
  BY DEF TempInv, Claimed, TempsAccounted, TidyOf, IInv, Names, NamesOf
<1> QED BY <1>1, TempInvariance, Invariance, PTL

-----------------------------------------------------------------------------
(* The directory of the temporary files *)

\* Decompress() makes its temporary file beside the input: -o names a file in
\* the same directory.
OutputsBesideInputs ==
  \A p \in Proc : Cmd[p] = "decompress" /\ OutputWad[p] # None =>
    \A k \in DOMAIN Args[p] : Home[Args[p][k]] = Home[OutputWad[p]]

BesideOf(p) ==
  /\ pc[p] = "open" => tmp[p] = None
  /\ tmp[p] # None /\ pc[p] \notin Exited => tmp[p].in = Home[TempBeside(p)]

PlaceInv == TypeOK /\ \A p \in Proc : BesideOf(p)

LEMMA BesideStep ==
  ASSUME PlaceInv, NEW p \in Proc, Step(p) \/ Crash(p)
  PROVE  \A q \in Proc : BesideOf(q)'
<1> USE DEF Goto
<1>1. ASSUME NEW q \in Proc, q # p
      PROVE  BesideOf(q)'
  <2>1. Unmoved(q)
    BY <1>1, OthersUnmoved DEF PlaceInv
  <2>2. TempBeside(q)' = TempBeside(q)
    BY <2>1 DEF Unmoved, TempBeside, Input, Output
  <2> QED BY <2>1, <2>2 DEF PlaceInv, BesideOf, Unmoved
<1>2. CASE pc'[p] \in Exited
  BY <1>1, <1>2 DEF BesideOf, Exited
<1>3. CASE tmp'[p] = None
  BY <1>1, <1>3 DEF BesideOf
<1>4. CASE /\ tmp' = tmp /\ pos' = pos /\ pc[p] \notin Exited
           /\ pc'[p] = "open" => pc[p] = "open"
  <2>1. TempBeside(p)' = TempBeside(p)
    BY <1>4 DEF TempBeside, Input, Output
  <2> QED BY <1>1, <1>4, <2>1 DEF PlaceInv, BesideOf
<1>5. CASE Create(p) /\ tmp' = [tmp EXCEPT ![p] = TempName(p, tryno[p])]
                     /\ pos' = pos /\ pc'[p] = "lumps"
  <2>1. TempBeside(p)' = TempBeside(p)
    BY <1>5 DEF TempBeside, Input, Output
  <2>2. tmp'[p] = TempName(p, tryno[p])
    BY <1>5 DEF PlaceInv, TypeOK
  <2>3. tmp'[p].in = Home[TempBeside(p)]
    BY <2>2 DEF TempName
  <2> QED BY <1>1, <1>5, <2>1, <2>3 DEF BesideOf
<1>6. CASE Open(p)
  <2>1. tmp[p] = None
    BY <1>6 DEF Open, PlaceInv, BesideOf
  <2> QED BY <1>3, <1>6, <2>1 DEF Open, Return, ErrorExit, Exit
<1>7. CASE Probe(p)
  BY <1>2, <1>4, <1>7 DEF Probe, ErrorExit, Exit, Exited, PlaceInv, TypeOK
<1>8. CASE Create(p)
  <2>1. CASE ErrorExit(p)
    BY <1>2, <2>1 DEF ErrorExit, Exit, Exited, PlaceInv, TypeOK
  <2>2. CASE pc'[p] = "probe" /\ ~ErrorExit(p)
    <3>1. pc[p] = "create" /\ tmp' = tmp /\ pos' = pos
      BY <1>8, <2>2 DEF Create, PlaceInv, TypeOK
    <3> QED BY <1>4, <2>2, <3>1 DEF Exited
  <2>3. CASE pc'[p] # "probe" /\ ~ErrorExit(p)
    BY <1>5, <1>8, <2>3 DEF Create, PlaceInv, TypeOK
  <2> QED BY <2>1, <2>2, <2>3
<1>9. CASE WriteLumps(p) \/ WriteEntries(p) \/ WriteHeader(p) \/ CheckSize(p)
  <2>1. CASE ErrorExit(p)
    BY <1>2, <2>1 DEF ErrorExit, Exit, Exited, PlaceInv, TypeOK
  <2>2. CASE ~ErrorExit(p)
    BY <1>4, <1>9, <2>2
    DEF WriteLumps, WriteEntries, WriteHeader, CheckSize, AfterHeader, PlaceInv,
        TypeOK, Exited
  <2> QED BY <2>1, <2>2
<1>10. CASE Close(p)
  BY <1>4, <1>10 DEF Close, AfterClose, BeforeRename, PlaceInv, TypeOK, Exited
<1>11. CASE Reopen(p)
  BY <1>2, <1>3, <1>11 DEF Reopen, ErrorExit, Exit, Exited, PlaceInv, TypeOK
<1>12. CASE RemoveTemp(p)
  BY <1>4, <1>12 DEF RemoveTemp, BeforeRename, PlaceInv, TypeOK, Exited
<1>13. CASE RemoveTarget(p)
  BY <1>2, <1>4, <1>13 DEF RemoveTarget, ErrorExit, Exit, PlaceInv, TypeOK, Exited
<1>14. CASE Rename(p)
  BY <1>2, <1>3, <1>14 DEF Rename, ErrorExit, Exit, Exited, PlaceInv, TypeOK
<1>15. CASE Crash(p)
  BY <1>2, <1>15 DEF Crash, Exit, Exited, PlaceInv, TypeOK
<1> QED
  BY <1>6, <1>7, <1>8, <1>9, <1>10, <1>11, <1>12, <1>13, <1>14, <1>15 DEF Step

LEMMA PlaceInvariance == Spec => []PlaceInv
<1>1. Init => PlaceInv
  <2> SUFFICES ASSUME Init PROVE PlaceInv
    OBVIOUS
  <2>1. TypeOK
    BY InitTyped
  <2>2. \A p \in Proc : BesideOf(p)
    BY DEF Init, BesideOf
  <2> QED BY <2>1, <2>2 DEF PlaceInv
<1>2. PlaceInv /\ [Next]_vars /\ TypeOK' => PlaceInv'
  <2> SUFFICES ASSUME PlaceInv, [Next]_vars, TypeOK' PROVE PlaceInv'
    OBVIOUS
  <2>1. CASE UNCHANGED vars
    BY <2>1 DEF vars, PlaceInv, BesideOf, TempBeside, Input, Output
  <2>2. ASSUME NEW p \in Proc, Step(p) \/ Crash(p)
        PROVE  PlaceInv'
    BY <2>2, BesideStep DEF PlaceInv
  <2> QED BY <2>1, <2>2 DEF Next, Done
<1> QED BY <1>1, <1>2, TypeCorrect, PTL DEF Spec

LEMMA PlacesRename ==
  ASSUME OutputsBesideInputs, PlaceInv
  PROVE  RenameInDirectory
<1> SUFFICES ASSUME PlaceInv, NEW p \in Proc, pc[p] = "rename"
             PROVE  tmp[p].in = Home[Output(p)]
  BY DEF RenameInDirectory
<1>1. tmp[p].in = Home[TempBeside(p)] /\ pos[p] \in DOMAIN Args[p]
  BY DEF PlaceInv, TypeOK, BesideOf, Owning, Exited
<1>2. Home[TempBeside(p)] = Home[Output(p)]
  BY <1>1, CommandAssumption
  DEF TempBeside, Output, Input, OutputsBesideInputs, Commands
<1> QED BY <1>1, <1>2

\* The rename at the end of a run stays in one directory, with any number of
\* instances and on any system, as long as what is decompressed is not sent to
\* another directory.
THEOREM RenamesInDirectory ==
  ASSUME OutputsBesideInputs
  PROVE  Spec => []RenameInDirectory
BY PlaceInvariance, PlacesRename, PTL

-----------------------------------------------------------------------------
(* WadRewrite implements AtomicReplace: each step of an instance either      *)
(* changes nothing a user of the files can see, or is one of the three steps *)
(* that AtomicReplace allows.                                               *)

\* What an instance reads stays what it was when it was opened.
SourceOf(p) ==
  /\ pc[p] \in Working \cup {"probe", "create"} => src[p] # None
  /\ src[p] # None => /\ data[src[p]]["header"] = game[p]
                      /\ data[src[p]]["dir"] = game[p]
  /\ src[p] # None /\ pc[p] \in {"entries", "rewind", "size", "close"}
       => data[src[p]]["lumps"] = game[p]

Sources == \A p \in Proc : SourceOf(p)

\* No step changes a file that is open for reading.
LEMMA SourceKept ==
  ASSUME Posix, IInv, NEW p \in Proc, Step(p) \/ Crash(p),
         NEW q \in Proc, src[q] # None
  PROVE  data'[src[q]] = data[src[q]]
<1>1. src[q] \in Inode
  BY DEF IInv, TypeOK
<1>2. src[q] # dst[p]
  <2>1. CASE pc[p] \in Working
    <3>1. dst[p] = dir[tmp[p]] /\ tmp[p] \in Temp /\ tmp[p] # None
      BY <2>1 DEF IInv, TypeOK, Streams, StreamsOf, Owning
    <3>2. tmp[p] # old[q]
      BY <3>1 DEF IInv, Names, NamesOf, Apart
    <3> QED BY <1>1, <3>1, <3>2 DEF IInv, Streams, StreamsOf
  <2>2. CASE pc[p] \notin Working
    BY <2>2 DEF IInv, Streams, StreamsOf
  <2> QED BY <2>1, <2>2
<1>3. \A pieces, g : Landed(dst[p], pieces, g)[src[q]] = data[src[q]]
  BY <1>1, <1>2, LandedElsewhere DEF IInv
<1>4. CASE Open(p)          BY <1>4 DEF Open
<1>5. CASE Probe(p)         BY <1>5 DEF Probe
<1>6. CASE Create(p)
  BY <1>1, <1>6 DEF Create, Posix, Exclusive, Unused, InUse, IInv, TypeOK
<1>7. CASE WriteLumps(p)    BY <1>3, <1>7 DEF WriteLumps
<1>8. CASE WriteEntries(p)  BY <1>3, <1>8 DEF WriteEntries
<1>9. CASE WriteHeader(p)   BY <1>3, <1>9 DEF WriteHeader, FlushFails
<1>10. CASE CheckSize(p)    BY <1>3, <1>10 DEF CheckSize, FlushFails
<1>11. CASE Close(p)        BY <1>3, <1>11 DEF Close, FlushFails
<1>12. CASE Reopen(p)       BY <1>12 DEF Reopen
<1>13. CASE RemoveTemp(p)   BY <1>13 DEF RemoveTemp
<1>14. CASE RemoveTarget(p) BY <1>14 DEF RemoveTarget
<1>15. CASE Rename(p)       BY <1>15 DEF Rename
<1>16. CASE Crash(p)        BY <1>16 DEF Crash
<1> QED
  BY <1>4, <1>5, <1>6, <1>7, <1>8, <1>9, <1>10, <1>11, <1>12, <1>13, <1>14,
     <1>15, <1>16 DEF Step

\* The ways an instance can go on: it ends, it returns to main(), it opens
\* its input, it goes on with the input it has, it closes its files, it opens
\* its own temporary file.
Ends(p) == pc'[p] \in Exited \cup {"open"} /\ src'[p] = None

Opens(p) ==
  LET i == dir[Input(p)] IN
  /\ pc[p] = "open" /\ pc'[p] = "probe" /\ pos'[p] = pos[p]
  /\ i # None /\ src'[p] = i
  /\ data[i]["header"] \in Game /\ game'[p] = data[i]["header"]
  /\ data[i]["dir"] = game'[p]

GoesOn(p) ==
  /\ pc[p] \notin Exited \cup {"open"} /\ pc'[p] \notin Exited \cup {"open"}
  /\ pos'[p] = pos[p] /\ src'[p] = src[p] /\ game'[p] = game[p]
  /\ pc'[p] \in Working \cup {"probe", "create"}
       => pc[p] \in Working \cup {"probe", "create"}
  /\ pc'[p] \in {"entries", "rewind", "size", "close"}
       => \/ pc[p] \in {"entries", "rewind", "size", "close"}
          \/ src[p] = None
          \/ data[src[p]]["lumps"] = game[p]

Closes(p) ==
  /\ pc[p] = "close" /\ pc'[p] \in {"reopen", "rmtemp", "rename"}
  /\ pos'[p] = pos[p] /\ src'[p] = None /\ game'[p] = game[p]

Reopens(p) ==
  LET i == dir[tmp[p]] IN
  /\ pc[p] = "reopen" /\ pc'[p] = "probe" /\ pos'[p] = pos[p]
  /\ src'[p] = i /\ i # None
  /\ game'[p] = data[i]["header"] /\ data[i]["dir"] = game'[p]

LEMMA Ways ==
  ASSUME Posix, IInv, NEW p \in Proc, Step(p) \/ Crash(p)
  PROVE  Ends(p) \/ Opens(p) \/ GoesOn(p) \/ Closes(p) \/ Reopens(p)
<1> USE DEF Goto
<1>0. ASSUME NEW code \in Exited, Exit(p, code)
      PROVE  Ends(p)
  BY <1>0 DEF Exit, CloseFiles, Ends, IInv, TypeOK
<1>1. CASE Open(p)
  <2>1. ASSUME Return(p, FALSE), src' = src
        PROVE  Ends(p)
    BY <1>1, <2>1
    DEF Open, Return, Ends, Exited, IInv, TypeOK, Streams, StreamsOf, Working
  <2> QED BY <1>0, <1>1, <2>1, ZenonT(60) DEF Open, ErrorExit, Opens, Exited, IInv, TypeOK
<1>2. CASE Probe(p)
  <2>1. CASE ErrorExit(p)
    BY <1>0, <2>1 DEF ErrorExit, Exited
  <2> QED BY <1>2, <2>1 DEF Probe, GoesOn, Exited, Working, IInv, TypeOK
<1>3. CASE Create(p)
  <2>1. CASE ErrorExit(p)
    BY <1>0, <2>1 DEF ErrorExit, Exited
  <2> QED BY <1>3, <2>1 DEF Create, GoesOn, Exited, Working, IInv, TypeOK
<1>4. CASE WriteLumps(p)
  <2>1. CASE ErrorExit(p)
    BY <1>0, <2>1 DEF ErrorExit, Exited
  <2> QED BY <1>4, <2>1 DEF WriteLumps, GoesOn, Exited, Working, IInv, TypeOK
<1>5. CASE WriteEntries(p)
  <2>1. CASE ErrorExit(p)
    BY <1>0, <2>1 DEF ErrorExit, Exited
  <2> QED BY <1>5, <2>1 DEF WriteEntries, GoesOn, Exited, Working, IInv, TypeOK
<1>6. CASE WriteHeader(p)
  BY <1>6 DEF WriteHeader, AfterHeader, GoesOn, Exited, Working, IInv, TypeOK
<1>7. CASE CheckSize(p)
  <2>1. CASE ErrorExit(p)
    BY <1>0, <2>1 DEF ErrorExit, Exited
  <2> QED BY <1>7, <2>1 DEF CheckSize, GoesOn, Exited, Working, IInv, TypeOK
<1>8. CASE Close(p)
  BY <1>8 DEF Close, CloseFiles, AfterClose, BeforeRename, Posix, Closes,
              Ends, Exited, IInv, TypeOK
<1>9. CASE Reopen(p)
  <2>1. dir[tmp[p]] # None
    BY <1>9 DEF Reopen, IInv, TypeOK, Owning, Names, NamesOf
  <2> QED
    BY <1>0, <1>9, <2>1 DEF Reopen, ErrorExit, Reopens, Exited, IInv, TypeOK
<1>10. CASE RemoveTemp(p)
  BY <1>10 DEF RemoveTemp, BeforeRename, Posix, GoesOn, Exited, Working,
               IInv, TypeOK
<1>11. CASE RemoveTarget(p)
  BY <1>11 DEF RemoveTarget, IInv, Names, NamesOf
<1>12. CASE Rename(p)
  <2>1. ASSUME Return(p, TRUE), src' = src
        PROVE  Ends(p)
    BY <1>12, <2>1
    DEF Rename, Return, Ends, Exited, IInv, TypeOK, Streams, StreamsOf, Working
  <2> QED BY <1>0, <1>12, <2>1 DEF Rename, ErrorExit, Exited
<1>13. CASE Crash(p)
  BY <1>0, <1>13 DEF Crash, Exited
<1> QED
  BY <1>1, <1>2, <1>3, <1>4, <1>5, <1>6, <1>7, <1>8, <1>9, <1>10, <1>11,
     <1>12, <1>13 DEF Step

LEMMA SourcesStep ==
  ASSUME Posix, IInv, IInv', Sources, [Next]_vars
  PROVE  Sources'
<1>1. CASE UNCHANGED vars
  BY <1>1 DEF vars, Sources, SourceOf
<1>2. ASSUME NEW p \in Proc, Step(p) \/ Crash(p)
      PROVE  Sources'
  <2>1. ASSUME NEW q \in Proc, q # p
        PROVE  SourceOf(q)'
    <3>1. Unmoved(q)
      BY <1>2, <2>1, OthersUnmoved DEF IInv
    <3>2. src[q] # None => data'[src[q]] = data[src[q]]
      BY <1>2, SourceKept
    <3> QED BY <3>1, <3>2 DEF Unmoved, Sources, SourceOf
  <2>2. SourceOf(p)'
    <3>0. src[p] # None => data'[src[p]] = data[src[p]]
      BY <1>2, SourceKept
    <3>1. CASE Ends(p)
      BY <3>1 DEF Ends, SourceOf, Working, Exited
    <3>2. CASE Opens(p)
      <4>1. data' = data
        BY <1>2, <3>2
        DEF Opens, Step, Open, Probe, Create, WriteLumps, WriteEntries,
            WriteHeader, CheckSize, Close, Reopen, RemoveTemp, RemoveTarget,
            Rename, Crash
      <4> QED BY <3>2, <4>1 DEF Opens, SourceOf
    <3>3. CASE GoesOn(p)
      BY <3>0, <3>3 DEF GoesOn, Sources, SourceOf, Working
    <3>4. CASE Closes(p)
      BY <3>4 DEF Closes, SourceOf, Working
    <3>5. CASE Reopens(p)
      <4>1. data' = data
        BY <1>2, <3>5
        DEF Reopens, Step, Open, Probe, Create, WriteLumps, WriteEntries,
            WriteHeader, CheckSize, Close, Reopen, RemoveTemp, RemoveTarget,
            Rename, Crash
      <4> QED BY <3>5, <4>1 DEF Reopens, SourceOf
    <3> QED BY <1>2, <3>1, <3>2, <3>3, <3>4, <3>5, Ways
  <2> QED BY <2>1, <2>2 DEF Sources
<1>3. CASE Done
  BY <1>3 DEF Done, vars, Sources, SourceOf
<1> QED BY <1>1, <1>2, <1>3 DEF Next

LEMMA InitSources == Init => Sources
BY DEF Init, Sources, SourceOf, Working

LEMMA SourcesInvariance ==
  ASSUME Posix
  PROVE  Spec => []Sources
<1>1. IInv /\ IInv' /\ Sources /\ [Next]_vars => Sources'
  BY SourcesStep
<1> QED BY <1>1, InitSources, Invariance, PTL DEF Spec

-----------------------------------------------------------------------------
(* The refinement *)

Contents == [t \in Target |-> Content(t)]
Orders == [p \in Proc |-> OrderOf(p)]

LEMMA ContentType ==
  ASSUME TypeOK, NEW t \in Target
  PROVE  Content(t) \in Game \cup {None}
BY Constants DEF Content, Holds, TypeOK, Part

LEMMA OutputKept ==
  ASSUME NEW p \in Proc, pos'[p] = pos[p]
  PROVE  Output(p)' = Output(p)
BY DEF Output, Input

\* A step is seen through the file it renames, and through the order of the
\* instance that takes it.
LEMMA Seen ==
  ASSUME Posix, IInv, NEW p \in Proc, Step(p) \/ Crash(p)
  PROVE  /\ ~(Rename(p) /\ dir' # dir) => Contents' = Contents
         /\ \A q \in Proc : q # p => OrderOf(q)' = OrderOf(q)
<1>1. ASSUME ~(Rename(p) /\ dir' # dir), NEW t \in Target
      PROVE  Content(t)' = Content(t)
  <2>1. CASE Rename(p)
    BY <1>1, <2>1 DEF Rename, Content, Holds, IsWad
  <2>2. CASE ~Rename(p)
    <3>1. /\ dir'[t] = dir[t]
          /\ dir[t] # None => data'[dir[t]] = data[dir[t]]
      BY <2>2, TargetKept
    <3> QED BY <3>1 DEF Content, Holds, IsWad
  <2> QED BY <2>1, <2>2
<1>2. ASSUME NEW q \in Proc, q # p
      PROVE  OrderOf(q)' = OrderOf(q)
  <2>1. Unmoved(q)
    BY <1>2, OthersUnmoved DEF IInv
  <2>2. src[q] # None => data'[src[q]] = data[src[q]]
    BY SourceKept
  <2>3. Output(q)' = Output(q)
    BY <2>1, OutputKept DEF Unmoved
  <2> QED BY <2>1, <2>2, <2>3 DEF OrderOf, Unmoved, IsWad
<1> QED BY <1>1, <1>2 DEF Contents

LEMMA OrdersStep ==
  ASSUME NEW p \in Proc, \A q \in Proc : q # p => OrderOf(q)' = OrderOf(q)
  PROVE  Orders' = [Orders EXCEPT ![p] = OrderOf(p)']
BY DEF Orders

\* What a step does to the order of the instance that takes it.
LEMMA OwnOrder ==
  ASSUME Posix, Reliable, IInv, IInv', Sources, NEW p \in Proc, Step(p) \/ Crash(p)
  PROVE  \/ OrderOf(p)' = OrderOf(p)
         \/ OrderOf(p)' = None
         \/ /\ OrderOf(p) = None
            /\ Input(p) \in Target /\ Output(p) \in Target
            /\ Content(Input(p)) \in Game
            /\ OrderOf(p)' = [game |-> Content(Input(p)), dest |-> Output(p)]
<1>0. src[p] # None => data'[src[p]] = data[src[p]]
  BY SourceKept
<1>1. CASE Ends(p)
  BY <1>1 DEF Ends, OrderOf
<1>2. CASE Opens(p)
  <2>1. OrderOf(p) = None /\ Input(p) \in Target /\ Output(p) \in Target
    BY <1>2, Files DEF Opens, OrderOf, IInv, Exited
  <2>2. Output(p)' = Output(p)
    BY <1>2, OutputKept DEF Opens
  <2>3. data' = data
    BY <1>2
    DEF Opens, Step, Open, Probe, Create, WriteLumps, WriteEntries,
        WriteHeader, CheckSize, Close, Reopen, RemoveTemp, RemoveTarget,
        Rename, Crash
  <2>4. CASE IsWad(src[p], game[p])'
    <3>1. Content(Input(p)) = game'[p] /\ game'[p] \in Game
      BY <1>2, <2>3, <2>4 DEF Opens, Content, Holds, IsWad, Part
    <3>2. OrderOf(p)' = [game |-> game'[p], dest |-> Output(p)]
      BY <1>2, <2>2, <2>4 DEF Opens, OrderOf, Exited
    <3> QED BY <2>1, <3>1, <3>2
  <2>5. CASE ~IsWad(src[p], game[p])'
    BY <1>2, <2>5 DEF Opens, OrderOf
  <2> QED BY <2>4, <2>5
<1>3. CASE GoesOn(p)
  <2>1. Output(p)' = Output(p)
    BY <1>3, OutputKept DEF GoesOn
  <2>2. src[p] # None => (IsWad(src[p], game[p])' <=> IsWad(src[p], game[p]))
    BY <1>0, <1>3 DEF GoesOn, IsWad
  <2> QED BY <1>3, <2>1, <2>2 DEF GoesOn, OrderOf
<1>4. CASE Closes(p)
  <2>1. Output(p)' = Output(p)
    BY <1>4, OutputKept DEF Closes
  <2>2. src[p] # None /\ IsWad(src[p], game[p])
    BY <1>4 DEF Closes, Sources, SourceOf, Working, IsWad, Part
  <2> QED BY <1>4, <2>1, <2>2 DEF Closes, OrderOf, Exited
<1>5. CASE Reopens(p)
  <2>1. Output(p)' = Output(p)
    BY <1>5, OutputKept DEF Reopens
  <2>2. src[p] = None /\ game[p] = data[dir[tmp[p]]]["header"]
          /\ IsWad(dir[tmp[p]], game[p])
    BY <1>5
    DEF Reopens, IInv, Streams, StreamsOf, Working, Progress, ProgressOf,
        Has, IsWad, Part
  <2>3. data' = data
    BY <1>5
    DEF Reopens, Step, Open, Probe, Create, WriteLumps, WriteEntries,
        WriteHeader, CheckSize, Close, Reopen, RemoveTemp, RemoveTarget,
        Rename, Crash
  <2>4. IsWad(src[p], game[p])' /\ game'[p] = game[p]
    BY <1>5, <2>2, <2>3 DEF Reopens, IsWad
  <2> QED BY <1>5, <2>1, <2>2, <2>4 DEF Reopens, OrderOf, Exited
<1> QED BY <1>1, <1>2, <1>3, <1>4, <1>5, Ways

LEMMA Renames ==
  ASSUME Reliable, IInv, NEW p \in Proc, Rename(p), dir' # dir
  PROVE  /\ OrderOf(p) = [game |-> game[p], dest |-> Output(p)]
         /\ OrderOf(p)' = None
         /\ Output(p) \in Target
         /\ Contents' = [Contents EXCEPT ![Output(p)] = game[p]]
<1>1. /\ pc[p] = "rename" /\ src[p] = None /\ Output(p) \in Target
      /\ tmp[p] \in Temp /\ tmp[p] # None /\ dir[tmp[p]] # None
      /\ IsWad(dir[tmp[p]], game[p])
  BY Files, RenamesWhole, SMTT(60)
  DEF Rename, IInv, TypeOK, Exited, Owning, Names, NamesOf, Streams,
      StreamsOf, Working
<1>2. /\ dir' = [dir EXCEPT ![Output(p)] = dir[tmp[p]], ![tmp[p]] = None]
      /\ data' = data /\ pc'[p] \in {"open", "exit0", "exit1"}
  BY DEF Rename, ErrorExit, Exit, Return, Goto, IInv, TypeOK
<1>3. /\ dir'[Output(p)] = dir[tmp[p]]
      /\ \A t \in Target : t # Output(p) => dir'[t] = dir[t]
  BY <1>1, <1>2, Constants DEF IInv, TypeOK
<1>4. \A t \in Target : t = Output(p) => Content(t)' = game[p]
  <2>1. dir'[Output(p)] # None /\ \A x \in Part : data[dir'[Output(p)]][x] = game[p]
    BY <1>1, <1>3 DEF IsWad
  <2> QED BY <1>2, <2>1 DEF Content, Holds, IsWad, Part
<1>5. \A t \in Target : t # Output(p) => Content(t)' = Content(t)
  <2>1. data' = data
    BY <1>2
  <2> QED BY <2>1, <1>3 DEF Content, Holds, IsWad
<1>6. Contents' = [Contents EXCEPT ![Output(p)] = game[p]]
  <2>1. \A t \in Target : Content(t)' = IF t = Output(p) THEN game[p] ELSE Content(t)
    BY <1>4, <1>5
  <2>2. Contents' = [t \in Target |-> IF t = Output(p) THEN game[p] ELSE Content(t)]
    BY <2>1 DEF Contents
  <2> QED BY <1>1, <2>2 DEF Contents
<1>7. OrderOf(p) = [game |-> game[p], dest |-> Output(p)] /\ OrderOf(p)' = None
  BY <1>1, <1>2 DEF OrderOf, Exited
<1> QED BY <1>1, <1>6, <1>7

LEMMA StepRefines ==
  ASSUME Posix, Reliable, IInv, IInv', Sources, [Next]_vars
  PROVE  [Abstract!Next]_<<Contents, Orders>>
<1> USE DEF Contents, Orders
<1>1. CASE UNCHANGED vars
  <2>1. Contents' = Contents /\ Orders' = Orders
    BY <1>1 DEF vars, Content, Holds, IsWad, OrderOf, Output, Input
  <2> QED BY <2>1
<1>2. ASSUME NEW p \in Proc, Step(p) \/ Crash(p)
      PROVE  [Abstract!Next]_<<Contents, Orders>>
  <2> HIDE DEF Contents, Orders
  <2>1. Orders' = [Orders EXCEPT ![p] = OrderOf(p)']
    BY <1>2, Seen, OrdersStep
  <2>2. Orders[p] = OrderOf(p)
    BY DEF Orders
  <2>3. CASE Rename(p) /\ dir' # dir
    <3>1. /\ OrderOf(p) = [game |-> game[p], dest |-> Output(p)]
          /\ OrderOf(p)' = None
          /\ Contents' = [Contents EXCEPT ![Output(p)] = game[p]]
      BY <2>3, Renames
    <3>2. Abstract!Commit(p)
      <4>1. OrderOf(p) # None
        <5>1. game[p] \in Game /\ Output(p) \in Target
          BY <2>3, RenamesWhole, Renames DEF Rename
        <5> QED BY <3>1, <5>1, OrderAssumption
      <4>2. /\ Orders[p] = [game |-> game[p], dest |-> Output(p)]
            /\ Orders' = [Orders EXCEPT ![p] = None]
        BY <2>1, <2>2, <3>1
      <4>3. Orders[p].game = game[p] /\ Orders[p].dest = Output(p)
        BY <4>2
      <4>4. Contents' = [Contents EXCEPT ![Orders[p].dest] = Orders[p].game]
        BY <3>1, <4>3
      <4> QED
        BY <4>1, <4>2, <4>4, <2>2 DEF Abstract!Commit, Contents, Orders
    <3> QED BY <3>2 DEF Abstract!Next
  <2>4. CASE ~(Rename(p) /\ dir' # dir)
    <3>1. Contents' = Contents
      BY <1>2, <2>4, Seen
    <3>2. CASE OrderOf(p)' = OrderOf(p)
      <4>1. Orders' = Orders
        BY <2>1, <3>2 DEF Orders
      <4> QED BY <3>1, <4>1
    <3>3. CASE OrderOf(p)' = None /\ OrderOf(p) # None
      <4>1. Abstract!GiveUp(p)
        BY <2>1, <2>2, <3>1, <3>3 DEF Abstract!GiveUp, Contents, Orders
      <4> QED BY <4>1 DEF Abstract!Next
    <3>4. CASE /\ OrderOf(p) = None
               /\ Input(p) \in Target /\ Output(p) \in Target
               /\ Content(Input(p)) \in Game
               /\ OrderOf(p)' = [game |-> Content(Input(p)), dest |-> Output(p)]
      <4>1. Contents[Input(p)] = Content(Input(p))
        BY <3>4 DEF Contents
      <4>2. Abstract!Begin(p)
        BY <2>1, <2>2, <3>1, <3>4, <4>1, Constants
        DEF Abstract!Begin, Contents, Orders
      <4> QED BY <4>2 DEF Abstract!Next
    <3> QED BY <1>2, <3>2, <3>3, <3>4, OwnOrder
  <2> QED BY <2>3, <2>4
<1>3. CASE Done
  <2>1. Contents' = Contents /\ Orders' = Orders
    BY <1>3 DEF Done, vars, Content, Holds, IsWad, OrderOf, Output, Input
  <2> QED BY <2>1
<1> QED BY <1>1, <1>2, <1>3 DEF Next

LEMMA InitRefines ==
  ASSUME Init
  PROVE  Abstract!Init
<1>1. TypeOK
  BY InitTyped
<1>2. Contents \in [Target -> Game \cup {None}]
  BY <1>1, ContentType DEF Contents
<1>3. Orders = [p \in Proc |-> None]
  BY DEF Init, Orders, OrderOf, Exited
<1> QED BY <1>2, <1>3 DEF Abstract!Init, Contents, Orders

\* Any number of instances at once, each of which may be killed at any point
\* or run into a disk that fills up, replace their outputs as AtomicReplace
\* says, where the system's fopen() can be exclusive: a target takes, in one
\* step, the game its writer read, or nothing happens to it.
THEOREM Implements ==
  ASSUME Posix, Reliable
  PROVE  Spec => ReplacesAtomically
<1>1. Init => Abstract!Init
  BY InitRefines
<1>2. IInv /\ IInv' /\ Sources /\ [Next]_vars
        => [Abstract!Next]_<<Contents, Orders>>
  BY StepRefines
<1>3. Spec => [][Abstract!Next]_<<Contents, Orders>>
  BY <1>2, SourcesInvariance, Invariance, PTL DEF Spec
<1> QED
  BY <1>1, <1>3, PTL
  DEF Spec, ReplacesAtomically, Abstract!Spec, Abstract!vars, Contents, Orders

-----------------------------------------------------------------------------
(* Enough names: how far an instance gets in its search for a free one        *)

\* An instance has at most two temporary files at once.
Slot == Proc \X {"tmp", "old"}

Searches(p) == pc[p] \in {"probe", "create"}

\* A file has a name with that number in the directory, or a higher one.
At(n, d, k) == n # None /\ n.in = d /\ n.num >= k

\* So has what is in a slot, or the search for it has come as far.
Beyond(s, d, k) ==
  IF s[2] = "old" THEN At(old[s[1]], d, k)
  ELSE \/ At(tmp[s[1]], d, k)
       \/ Searches(s[1]) /\ Home[TempBeside(s[1])] = d /\ tryno[s[1]] >= k

High(d, k) == {s \in Slot : Beyond(s, d, k)}

Lower(d, k) == {n \in Litter : n.in = d /\ n.num < k}

\* Whoever comes as far as a name leaves somebody behind at each name before
\* it, or finds it taken by litter.
SearchInv ==
  \A d \in Dir, k \in Nat :
    High(d, k) # {} =>
      Cardinality(High(d, k)) + k <= Cardinality(Slot) + Cardinality(Lower(d, k))

LEMMA SlotCount ==
  ASSUME IsFiniteSet(Proc)
  PROVE  /\ IsFiniteSet(Slot)
         /\ Cardinality(Slot) = 2 * Cardinality(Proc)
         /\ Cardinality(Proc) \in Nat /\ Cardinality(Slot) \in Nat
<1>1. IsFiniteSet({"tmp"}) /\ Cardinality({"tmp"}) = 1
  BY FS_Singleton
<1>2. IsFiniteSet({"tmp"} \cup {"old"}) /\ Cardinality({"tmp"} \cup {"old"}) = 2
  BY <1>1, FS_AddElement
<1>3. {"tmp"} \cup {"old"} = {"tmp", "old"}
  OBVIOUS
<1>4. Cardinality(Proc) \in Nat
  BY FS_CardinalityType
<1>5. /\ IsFiniteSet(Slot)
      /\ Cardinality(Slot) = Cardinality(Proc) * Cardinality({"tmp", "old"})
  BY <1>2, <1>3, FS_Product DEF Slot
<1> QED
  BY <1>2, <1>3, <1>4, <1>5

LEMMA Counts ==
  ASSUME IsFiniteSet(Proc), IsFiniteSet(Litter), NEW d, NEW k
  PROVE  /\ IsFiniteSet(High(d, k)) /\ Cardinality(High(d, k)) \in Nat
         /\ Cardinality(High(d, k)) <= Cardinality(Slot)
         /\ IsFiniteSet(Lower(d, k)) /\ Cardinality(Lower(d, k)) \in Nat
         /\ Cardinality(Lower(d, k)) <= Cardinality(Litter)
<1>1. High(d, k) \in SUBSET Slot /\ Lower(d, k) \in SUBSET Litter
  BY DEF High, Lower
<1>2. IsFiniteSet(Slot)
  BY SlotCount
<1> QED
  BY <1>1, <1>2, FS_Subset, FS_CardinalityType

\* One more comes to a name when one stays behind that it passed, or when the
\* name it passed was litter's.
LEMMA OneComes ==
  ASSUME NEW A, IsFiniteSet(A), NEW B \in SUBSET A, NEW x \in A,
         NEW C \in SUBSET (B \cup {x}),
         NEW K, IsFiniteSet(K), NEW L \in SUBSET K,
         (\E r \in A : r # x /\ r \notin B) \/ (\E n \in K : n \notin L)
  PROVE  Cardinality(C) + 1 + Cardinality(L) <= Cardinality(A) + Cardinality(K)
<1>1. /\ Cardinality(A) \in Nat /\ Cardinality(K) \in Nat
      /\ IsFiniteSet(L) /\ Cardinality(L) \in Nat
      /\ Cardinality(L) <= Cardinality(K)
  BY FS_Subset, FS_CardinalityType
<1>2. C \in SUBSET A
  OBVIOUS
<1>3. IsFiniteSet(C) /\ Cardinality(C) \in Nat /\ Cardinality(C) <= Cardinality(A)
  BY <1>2, FS_Subset, FS_CardinalityType
<1>4. ASSUME NEW r \in A, r # x, r \notin B
      PROVE  Cardinality(C) <= Cardinality(A) - 1
  <2>1. C \in SUBSET (A \ {r})
    BY <1>4
  <2>2. IsFiniteSet(A \ {r}) /\ Cardinality(A \ {r}) = Cardinality(A) - 1
    BY FS_RemoveElement
  <2> QED
    BY <2>1, <2>2, FS_Subset
<1>5. ASSUME NEW n \in K, n \notin L
      PROVE  Cardinality(L) <= Cardinality(K) - 1
  <2>1. L \in SUBSET (K \ {n})
    BY <1>5
  <2>2. IsFiniteSet(K \ {n}) /\ Cardinality(K \ {n}) = Cardinality(K) - 1
    BY FS_RemoveElement
  <2> QED
    BY <2>1, <2>2, FS_Subset
<1> QED
  BY <1>1, <1>3, <1>4, <1>5

\* What a step does to the slots of its instance: they come no further, but
\* that a new search begins; the first file is put aside for the second; or
\* a name is found taken.
NoFurther(p) ==
  /\ \/ tmp'[p] \in {tmp[p], None}
     \/ Searches(p) /\ tmp'[p] = TempName(p, tryno[p])
  /\ old'[p] \in {old[p], None}
  /\ Searches(p)' => \/ tryno'[p] = 0
                     \/ /\ Searches(p)
                        /\ tryno'[p] = tryno[p] /\ pos'[p] = pos[p]

PutsAside(p) == tmp'[p] = None /\ old'[p] = tmp[p] /\ tryno'[p] = 0

FindsTaken(p) ==
  /\ Searches(p) /\ tryno[p] < MaxTemp /\ dir[TempName(p, tryno[p])] # None
  /\ tryno'[p] = tryno[p] + 1
  /\ tmp'[p] = tmp[p] /\ old'[p] = old[p] /\ pos'[p] = pos[p]

LEMMA SlotSteps ==
  ASSUME Posix, IInv, TempInv, NEW p \in Proc, Step(p) \/ Crash(p)
  PROVE  /\ NoFurther(p) \/ PutsAside(p) \/ FindsTaken(p)
         /\ \A q \in Proc : q # p => tryno'[q] = tryno[q]
<1> USE DEF Goto
<1>0. TypeOK
  BY DEF IInv
<1>1. ASSUME NEW code \in Exited, Exit(p, code)
      PROVE  NoFurther(p) /\ tryno' = tryno
  BY <1>0, <1>1 DEF Exit, NoFurther, Searches, Exited, TypeOK
<1>2. CASE Open(p)
  <2>1. CASE ErrorExit(p)
    BY <1>1, <2>1 DEF ErrorExit, Exited
  <2>2. CASE ~ErrorExit(p)
    <3>1. tmp' = tmp /\ old' = old
      BY <1>2, <2>2 DEF Open, Return
    <3>2. \/ tryno' = tryno /\ pc'[p] \in {"open", "exit0", "exit1"}
          \/ tryno' = [tryno EXCEPT ![p] = 0]
      BY <1>0, <1>2, <2>2 DEF Open, Return, TypeOK
    <3> QED
      BY <1>0, <3>1, <3>2 DEF NoFurther, Searches, TypeOK
  <2> QED
    BY <2>1, <2>2
<1>3. CASE Probe(p)
  <2>1. CASE ErrorExit(p)
    BY <1>1, <2>1 DEF ErrorExit, Exited
  <2>2. CASE ~ErrorExit(p)
    BY <1>0, <1>3, <2>2 DEF Probe, NextTry, FindsTaken, NoFurther, Searches, TypeOK
  <2> QED
    BY <2>1, <2>2
<1>4. CASE Create(p)
  <2>1. CASE ErrorExit(p)
    BY <1>1, <2>1 DEF ErrorExit, Exited
  <2>2. CASE ~ErrorExit(p) /\ pc'[p] = "probe"
    <3>1. /\ pc[p] = "create" /\ dir[TempName(p, tryno[p])] # None
          /\ tryno' = [tryno EXCEPT ![p] = @ + 1]
          /\ tmp' = tmp /\ old' = old /\ pos' = pos
      BY <1>0, <1>4, <2>2 DEF Create, NextTry, TypeOK
    <3>2. tryno[p] < MaxTemp
      BY <1>0, <3>1 DEF TypeOK
    <3> QED
      BY <1>0, <3>1, <3>2 DEF FindsTaken, Searches, TypeOK
  <2>3. CASE ~ErrorExit(p) /\ pc'[p] # "probe"
    <3>1. /\ pc[p] = "create" /\ pc'[p] = "lumps"
          /\ tmp' = [tmp EXCEPT ![p] = TempName(p, tryno[p])]
          /\ old' = old /\ tryno' = tryno
      BY <1>0, <1>4, <2>3 DEF Create, TypeOK
    <3> QED
      BY <1>0, <3>1 DEF NoFurther, Searches, TypeOK
  <2> QED
    BY <2>1, <2>2, <2>3
<1>5. CASE WriteLumps(p) \/ WriteEntries(p) \/ WriteHeader(p) \/ CheckSize(p)
  <2>1. CASE ErrorExit(p)
    BY <1>1, <2>1 DEF ErrorExit, Exited
  <2>2. CASE ~ErrorExit(p)
    <3>1. tmp' = tmp /\ old' = old /\ tryno' = tryno /\ ~Searches(p)'
      BY <1>0, <1>5, <2>2
      DEF WriteLumps, WriteEntries, WriteHeader, CheckSize, AfterHeader, Searches,
          TypeOK
    <3> QED
      BY <3>1 DEF NoFurther
  <2> QED
    BY <2>1, <2>2
<1>6. CASE Close(p)
  <2>1. tmp' = tmp /\ old' = old /\ tryno' = tryno /\ ~Searches(p)'
    BY <1>0, <1>6 DEF Close, AfterClose, BeforeRename, Searches, TypeOK
  <2> QED
    BY <2>1 DEF NoFurther
<1>7. CASE Reopen(p)
  <2>1. CASE \E code \in Exited : Exit(p, code)
    BY <1>1, <2>1
  <2>2. CASE ~ \E code \in Exited : Exit(p, code)
    <3>1. /\ tmp' = [tmp EXCEPT ![p] = None] /\ old' = [old EXCEPT ![p] = tmp[p]]
          /\ tryno' = [tryno EXCEPT ![p] = 0]
      BY <1>7, <2>2 DEF Reopen, ErrorExit, Exited
    <3> QED
      BY <1>0, <3>1 DEF PutsAside, TypeOK
  <2> QED
    BY <2>1, <2>2
<1>8. CASE RemoveTemp(p)
  <2>1. tmp' = tmp /\ old'[p] = None /\ tryno' = tryno /\ ~Searches(p)'
    BY <1>0, <1>8 DEF RemoveTemp, BeforeRename, Searches, TypeOK
  <2> QED
    BY <2>1 DEF NoFurther
<1>9. CASE RemoveTarget(p)
  BY <1>9 DEF RemoveTarget, IInv, Names, NamesOf
<1>10. CASE Rename(p)
  <2>1. CASE ErrorExit(p)
    BY <1>1, <2>1 DEF ErrorExit, Exited
  <2>2. CASE ~ErrorExit(p)
    <3>1. tmp'[p] = None /\ old' = old /\ tryno' = tryno /\ ~Searches(p)'
      BY <1>0, <1>10, <2>2 DEF Rename, Return, Searches, TypeOK
    <3> QED
      BY <3>1 DEF NoFurther
  <2> QED
    BY <2>1, <2>2
<1>11. CASE Crash(p)
  BY <1>1, <1>11 DEF Crash, Exited
<1> QED
  BY <1>2, <1>3, <1>4, <1>5, <1>6, <1>7, <1>8, <1>9, <1>10, <1>11 DEF Step

\* The slots of the others stay where they are.
LEMMA OtherSlots ==
  ASSUME Posix, IInv, TempInv, NEW p \in Proc, Step(p) \/ Crash(p),
         NEW q \in Proc, q # p, NEW w \in {"tmp", "old"}, NEW d, NEW k
  PROVE  Beyond(<<q, w>>, d, k)' = Beyond(<<q, w>>, d, k)
<1>1. Unmoved(q) /\ tryno'[q] = tryno[q]
  BY OthersUnmoved, SlotSteps DEF IInv
<1>2. Output(q)' = Output(q) /\ Input(q)' = Input(q)
  BY <1>1 DEF Unmoved, Output, Input
<1>3. TempBeside(q)' = TempBeside(q)
  BY <1>2 DEF TempBeside
<1> QED
  BY <1>1, <1>3 DEF Beyond, Searches, Unmoved

LEMMA InHigh ==
  ASSUME NEW p \in Proc, NEW w \in {"tmp", "old"}, NEW d, NEW k
  PROVE  <<p, w>> \in High(d, k) <=> Beyond(<<p, w>>, d, k)
BY DEF High, Slot

\* A slot that is new beyond a name is one of the instance that takes the step.
LEMMA NewHigh ==
  ASSUME Posix, IInv, TempInv, NEW p \in Proc, Step(p) \/ Crash(p), NEW d, NEW k,
         NEW X, \A w \in {"tmp", "old"} :
                  Beyond(<<p, w>>, d, k)' => <<p, w>> \in X
  PROVE  \A s \in High(d, k)' : s \in High(d, k) \cup X
<1> SUFFICES ASSUME NEW s \in Slot, Beyond(s, d, k)', s \notin X
             PROVE  s \in High(d, k)
  BY DEF High
<1>1. PICK q \in Proc, w \in {"tmp", "old"} : s = <<q, w>>
  BY DEF Slot
<1>2. q # p
  BY <1>1
<1>3. Beyond(<<q, w>>, d, k)' = Beyond(<<q, w>>, d, k)
  BY <1>2, OtherSlots
<1>4. Beyond(<<q, w>>, d, k)'
  BY <1>1 DEF Beyond
<1>5. Beyond(<<q, w>>, d, k)
  BY <1>3, <1>4, Zenon
<1> QED
  BY <1>1, <1>5, InHigh

LEMMA SameBeside ==
  ASSUME NEW p \in Proc, pos'[p] = pos[p]
  PROVE  TempBeside(p)' = TempBeside(p)
BY DEF TempBeside, Input, Output

\* Who finds a name taken comes to the next one, but leaves behind whoever has
\* taken it.
LEMMA PassesName ==
  ASSUME IsFiniteSet(Proc), IsFiniteSet(Litter),
         Posix, Faults = "none", IInv, TempInv, SearchInv,
         NEW p \in Proc, Step(p) \/ Crash(p),
         FindsTaken(p), NEW d \in Dir, d = Home[TempBeside(p)],
         NEW j \in Nat, j = tryno[p], NEW k \in Nat, k = j + 1
  PROVE  Cardinality(High(d, k)') + k
           <= Cardinality(Slot) + Cardinality(Lower(d, k))
<1> DEFINE x == <<p, "tmp">>
           name == TempName(p, tryno[p])
<1>1. /\ tryno[p] \in 0 .. MaxTemp - 1 /\ tryno[p] \in Nat /\ tryno[p] + 1 \in Nat
      /\ pc[p] \in {"probe", "create"}
  BY FileAssumption DEF FindsTaken, IInv, TypeOK, Searches
<1>2. name \in Temp /\ name.in = d /\ name.num = tryno[p] /\ dir[name] # None
      /\ name # None
  <2>1. name \in Temp
    BY <1>1, Files DEF IInv, Exited
  <2> QED
    BY <2>1, Constants DEF FindsTaken, TempName
<1>3. Beyond(<<p, "tmp">>, d, j)
  BY DEF Beyond, FindsTaken
<1>4. x \in High(d, j)
  BY <1>3, InHigh
<1>5. High(d, k) \in SUBSET High(d, j) /\ Lower(d, j) \in SUBSET Lower(d, k)
  <2>1. ASSUME NEW s \in Slot, Beyond(s, d, k)
        PROVE  Beyond(s, d, j)
    <3>1. /\ s[1] \in Proc /\ tryno[s[1]] \in Nat
          /\ tmp[s[1]] # None => tmp[s[1]].num \in Nat
          /\ old[s[1]] # None => old[s[1]].num \in Nat
      BY FileAssumption DEF Slot, IInv, TypeOK, Temp
    <3> QED
      BY <2>1, <3>1 DEF Beyond, At
  <2>2. \A n \in Litter : n.num \in Nat
    BY LitterAssumption, FileAssumption DEF Temp
  <2> QED
    BY <2>1, <2>2 DEF High, Lower
<1>6. High(d, k)' \in SUBSET (High(d, k) \cup {x})
  <2>1. \A w \in {"tmp", "old"} :
          Beyond(<<p, w>>, d, k)' => <<p, w>> \in High(d, k) \cup {x}
    <3>1. Beyond(<<p, "old">>, d, k)' => Beyond(<<p, "old">>, d, k)
      BY DEF Beyond, FindsTaken
    <3> QED
      BY <3>1, InHigh
  <2>2. \A s \in High(d, k)' : s \in High(d, k) \cup (High(d, k) \cup {x})
    <3> DEFINE X == High(d, k) \cup {x}
    <3>1. \A w \in {"tmp", "old"} : Beyond(<<p, w>>, d, k)' => <<p, w>> \in X
      BY <2>1
    <3> HIDE DEF X
    <3>2. \A s \in High(d, k)' : s \in High(d, k) \cup X
      BY <3>1, NewHigh
    <3> QED
      BY <3>2 DEF X
  <2> QED
    BY <2>2
<1>7. \/ \E r \in High(d, j) : r # x /\ r \notin High(d, k)
      \/ \E n \in Lower(d, k) : n \notin Lower(d, j)
  <2>1. CASE name \in Litter
    BY <1>2, <2>1 DEF Lower
  <2>2. CASE name \notin Litter
    <3>1. PICK q \in Proc : name \in {tmp[q], old[q]}
      BY <1>2, <2>2 DEF TempInv, Claimed
    <3>2. CASE name = tmp[q]
      <4>1. ~Searches(q)
        BY <1>2, <3>2 DEF TempInv, TidyOf, Searches
      <4>2. Beyond(<<q, "tmp">>, d, j) /\ ~Beyond(<<q, "tmp">>, d, k)
        BY <1>2, <3>2, <4>1 DEF Beyond, At
      <4>3. <<q, "tmp">> # x
        BY <4>1 DEF FindsTaken
      <4> QED
        BY <4>2, <4>3, InHigh
    <3>3. CASE name = old[q]
      <4>1. Beyond(<<q, "old">>, d, j) /\ ~Beyond(<<q, "old">>, d, k)
        BY <1>2, <3>3 DEF Beyond, At
      <4> QED
        BY <4>1, InHigh
    <3> QED
      BY <3>1, <3>2, <3>3
  <2> QED
    BY <2>1, <2>2
<1>8. /\ IsFiniteSet(High(d, j)) /\ Cardinality(High(d, j)) \in Nat
      /\ IsFiniteSet(Lower(d, k)) /\ Cardinality(Lower(d, k)) \in Nat
      /\ Cardinality(Lower(d, j)) \in Nat /\ Cardinality(Slot) \in Nat
  BY Counts, SlotCount
<1>9. Cardinality(High(d, j)) + j <= Cardinality(Slot) + Cardinality(Lower(d, j))
  BY <1>4 DEF SearchInv
<1>10. Cardinality(High(d, k)') + 1 + Cardinality(Lower(d, j))
         <= Cardinality(High(d, j)) + Cardinality(Lower(d, k))
  <2> DEFINE C == High(d, k)'
             B == High(d, k)
             A == High(d, j)
             K == Lower(d, k)
             L == Lower(d, j)
  <2>1. B \in SUBSET A /\ C \in SUBSET (B \cup {x}) /\ L \in SUBSET K /\ x \in A
        /\ IsFiniteSet(A) /\ IsFiniteSet(K)
        /\ ((\E r \in A : r # x /\ r \notin B) \/ (\E n \in K : n \notin L))
    BY <1>4, <1>5, <1>6, <1>7, <1>8
  <2> HIDE DEF A, B, C, K, L, x
  <2>2. Cardinality(C) + 1 + Cardinality(L) <= Cardinality(A) + Cardinality(K)
    BY <2>1, OneComes
  <2> QED
    BY <2>2 DEF A, B, C, K, L
<1>11. Cardinality(High(d, k)') \in Nat
  <2>1. High(d, k)' \in SUBSET Slot
    BY DEF High
  <2> QED
    BY <2>1, SlotCount, FS_Subset, FS_CardinalityType
<1> QED
  BY <1>8, <1>9, <1>10, <1>11

LEMMA SearchStep ==
  ASSUME IsFiniteSet(Proc), IsFiniteSet(Litter),
         Posix, Faults = "none", IInv, TempInv, SearchInv,
         NEW p \in Proc, Step(p) \/ Crash(p)
  PROVE  SearchInv'
<1> SUFFICES ASSUME NEW d \in Dir, NEW k \in Nat, High(d, k)' # {}
             PROVE  Cardinality(High(d, k)') + k
                      <= Cardinality(Slot) + Cardinality(Lower(d, k))
  BY DEF SearchInv, Slot, Lower
<1>1. /\ IsFiniteSet(High(d, k)) /\ Cardinality(High(d, k)) \in Nat
      /\ Cardinality(Lower(d, k)) \in Nat /\ Cardinality(Slot) \in Nat
      /\ IsFiniteSet(Slot)
  BY Counts, SlotCount
<1>2. High(d, k)' \in SUBSET Slot
  BY DEF High
<1>3. /\ IsFiniteSet(High(d, k)') /\ Cardinality(High(d, k)') \in Nat
      /\ Cardinality(High(d, k)') <= Cardinality(Slot)
  BY <1>1, <1>2, FS_Subset, FS_CardinalityType
<1>4. CASE k = 0
  BY <1>1, <1>3, <1>4
<1>5. ASSUME High(d, k)' \in SUBSET High(d, k)
      PROVE  Cardinality(High(d, k)') + k
               <= Cardinality(Slot) + Cardinality(Lower(d, k))
  <2>1. High(d, k) # {}
    BY <1>5
  <2>2. Cardinality(High(d, k)) + k <= Cardinality(Slot) + Cardinality(Lower(d, k))
    BY <2>1 DEF SearchInv
  <2>3. Cardinality(High(d, k)') <= Cardinality(High(d, k))
    BY <1>1, <1>5, FS_Subset
  <2> QED
    BY <1>1, <1>3, <2>2, <2>3
<1>6. CASE k > 0 /\ NoFurther(p)
  <2>1. \A w \in {"tmp", "old"} :
          Beyond(<<p, w>>, d, k)' => <<p, w>> \in High(d, k)
    <3>1. Beyond(<<p, "old">>, d, k)' => Beyond(<<p, "old">>, d, k)
      BY <1>6 DEF NoFurther, Beyond, At
    <3>2. At(tmp[p], d, k)' => Beyond(<<p, "tmp">>, d, k)
      <4>1. At(TempName(p, tryno[p]), d, k)
              => Home[TempBeside(p)] = d /\ tryno[p] >= k
        BY DEF At, TempName
      <4> QED
        BY <1>6, <4>1 DEF NoFurther, Beyond, At
    <3>3. (Searches(p) /\ Home[TempBeside(p)] = d /\ tryno[p] >= k)'
            => Beyond(<<p, "tmp">>, d, k)
      BY <1>6, SameBeside DEF NoFurther, Beyond
    <3>4. Beyond(<<p, "tmp">>, d, k)' => Beyond(<<p, "tmp">>, d, k)
      BY <3>2, <3>3 DEF Beyond
    <3> QED
      BY <3>1, <3>4, InHigh
  <2> DEFINE X == High(d, k)
  <2>2. \A w \in {"tmp", "old"} : Beyond(<<p, w>>, d, k)' => <<p, w>> \in X
    BY <2>1
  <2> HIDE DEF X
  <2>3. \A s \in High(d, k)' : s \in High(d, k) \cup X
    BY <2>2, NewHigh
  <2> QED
    BY <1>5, <2>3 DEF X
<1>7. CASE k > 0 /\ PutsAside(p)
  <2> DEFINE x == <<p, "tmp">>
             y == <<p, "old">>
  <2>1. ~Beyond(x, d, k)'
    BY <1>7 DEF PutsAside, Beyond, At
  <2>2. Beyond(y, d, k)' => At(tmp[p], d, k)
    BY <1>7 DEF PutsAside, Beyond, At
  <2>3. At(tmp[p], d, k) => x \in High(d, k)
    BY InHigh DEF Beyond
  <2> DEFINE X == IF x \in High(d, k) THEN {y} ELSE {}
  <2>4. \A w \in {"tmp", "old"} : Beyond(<<p, w>>, d, k)' => <<p, w>> \in X
    BY <2>1, <2>2, <2>3
  <2> HIDE DEF X
  <2>5. \A s \in High(d, k)' : s \in High(d, k) \cup X
    BY <2>4, NewHigh
  <2>6. x \notin High(d, k)'
    BY <2>1 DEF High
  <2>7. CASE x \notin High(d, k)
    BY <1>5, <2>5, <2>7 DEF X
  <2>8. CASE x \in High(d, k)
    <3> HIDE DEF x, y
    <3>1. High(d, k)' \in SUBSET ((High(d, k) \ {x}) \cup {y})
      BY <2>5, <2>6, <2>8 DEF X
    <3> DEFINE R == High(d, k) \ {x}
    <3>2. IsFiniteSet(R) /\ Cardinality(R) = Cardinality(High(d, k)) - 1
      BY <1>1, <2>8, FS_RemoveElement
    <3> HIDE DEF R
    <3>3. /\ IsFiniteSet(R \cup {y})
          /\ Cardinality(R \cup {y}) = IF y \in R THEN Cardinality(R) ELSE Cardinality(R) + 1
      BY <3>2, FS_AddElement
    <3>4. Cardinality(High(d, k)') <= Cardinality(R \cup {y})
      <4>1. High(d, k)' \in SUBSET (R \cup {y})
        BY <3>1 DEF R
      <4> QED
        BY <3>3, <4>1, FS_Subset
    <3>5. Cardinality(High(d, k)) + k <= Cardinality(Slot) + Cardinality(Lower(d, k))
      BY <2>8 DEF SearchInv
    <3>6. Cardinality(R \cup {y}) <= Cardinality(High(d, k))
      BY <1>1, <3>2, <3>3
    <3>7. Cardinality(R \cup {y}) \in Nat
      BY <3>3, FS_CardinalityType
    <3> QED
      BY <1>1, <1>3, <3>4, <3>5, <3>6, <3>7
  <2> QED
    BY <2>7, <2>8
<1>8. CASE k > 0 /\ FindsTaken(p)
  <2>1. tryno[p] \in Nat /\ tryno'[p] = tryno[p] + 1
    BY <1>8, FileAssumption DEF FindsTaken, IInv, TypeOK
  <2>2. CASE d = Home[TempBeside(p)] /\ k = tryno[p] + 1
    <3>1. PICK j \in Nat : j = tryno[p]
      BY <2>1
    <3> QED
      BY <1>8, <2>2, <3>1, PassesName
  <2>3. CASE ~(d = Home[TempBeside(p)] /\ k = tryno[p] + 1)
    <3>1. \A w \in {"tmp", "old"} :
            Beyond(<<p, w>>, d, k)' => <<p, w>> \in High(d, k)
      <4>1. Beyond(<<p, "old">>, d, k)' => Beyond(<<p, "old">>, d, k)
        BY <1>8 DEF FindsTaken, Beyond, At
      <4>2. TempBeside(p)' = TempBeside(p)
        BY <1>8, SameBeside DEF FindsTaken
      <4>3. tryno'[p] >= k /\ d = Home[TempBeside(p)] => tryno[p] >= k
        BY <2>1, <2>3
      <4>4. Beyond(<<p, "tmp">>, d, k)' => Beyond(<<p, "tmp">>, d, k)
        BY <1>8, <4>2, <4>3 DEF FindsTaken, Beyond, At
      <4> QED
        BY <4>1, <4>4, InHigh
    <3> DEFINE X == High(d, k)
    <3>2. \A w \in {"tmp", "old"} : Beyond(<<p, w>>, d, k)' => <<p, w>> \in X
      BY <3>1
    <3> HIDE DEF X
    <3>3. \A s \in High(d, k)' : s \in High(d, k) \cup X
      BY <3>2, NewHigh
    <3> QED
      BY <1>5, <3>3 DEF X
  <2> QED
    BY <2>2, <2>3
<1> QED
  BY <1>4, <1>6, <1>7, <1>8, SlotSteps

LEMMA InitSearch == Init => SearchInv
<1> SUFFICES ASSUME Init, NEW d \in Dir, NEW k \in Nat
             PROVE  High(d, k) = {}
  BY DEF SearchInv
<1>1. \A p \in Proc : ~Searches(p) /\ tmp[p] = None /\ old[p] = None
  BY DEF Init, Searches
<1> QED
  BY <1>1 DEF High, Slot, Beyond, At

\* There are as many temporary names as all instances may need and litter may
\* take.
NamesEnough ==
  /\ IsFiniteSet(Proc) /\ IsFiniteSet(Litter)
  /\ 2 * Cardinality(Proc) + Cardinality(Litter) <= MaxTemp

\* With enough names there is always one to be had.
LEMMA SearchEnds ==
  ASSUME NamesEnough, IInv, SearchInv, NEW p \in Proc, Searches(p)
  PROVE  tryno[p] # MaxTemp
<1> SUFFICES ASSUME tryno[p] = MaxTemp
             PROVE  FALSE
  OBVIOUS
<1> DEFINE d == Home[TempBeside(p)]
           S == High(d, MaxTemp)
<1>1. d \in Dir /\ MaxTemp \in Nat
  <2>1. TempBeside(p) \in Target
    BY Files DEF IInv, Searches, Exited
  <2> QED
    BY <2>1, FileAssumption
<1>2. <<p, "tmp">> \in S
  <2>1. Beyond(<<p, "tmp">>, d, MaxTemp)
    BY <1>1 DEF Beyond
  <2> QED
    BY <2>1, InHigh
<1>3. /\ IsFiniteSet(S) /\ Cardinality(S) \in Nat
      /\ Cardinality(Lower(d, MaxTemp)) \in Nat
      /\ Cardinality(Lower(d, MaxTemp)) <= Cardinality(Litter)
      /\ Cardinality(Slot) = 2 * Cardinality(Proc)
      /\ Cardinality(Proc) \in Nat /\ Cardinality(Litter) \in Nat
  BY Counts, SlotCount, FS_CardinalityType DEF NamesEnough
<1>4. Cardinality(S) # 0
  <2> HIDE DEF S
  <2> QED
    BY <1>2, <1>3, FS_EmptySet
<1>5. Cardinality(S) + MaxTemp <= Cardinality(Slot) + Cardinality(Lower(d, MaxTemp))
  BY <1>1, <1>2 DEF SearchInv
<1> QED
  BY <1>1, <1>3, <1>4, <1>5 DEF NamesEnough

-----------------------------------------------------------------------------
(* Without faults no instance ends with an error                             *)

\* Every WAD is whole, those that are open as well, and there is room.
Healthy ==
  /\ Iwad = {} /\ full = FALSE
  /\ \A t \in Target : Content(t) # None
  /\ \A p \in Proc :
       /\ pc[p] # "exit1" /\ failed[p] = FALSE
       /\ src[p] # None => data[src[p]]["lumps"] = game[p]

\* What every step may use of the instances.
Sound == IInv /\ TempInv /\ PlaceInv /\ Sources /\ SearchInv /\ Healthy

LEMMA Fine ==
  ASSUME Posix, Faults = "none", NamesEnough, OutputsBesideInputs,
         Sound, NEW p \in Proc, Step(p)
  PROVE  /\ ~ErrorExit(p) /\ full' = full /\ failed'[p] = FALSE
         /\ pc'[p] # "exit1"
         /\ src'[p] # None => data'[src'[p]]["lumps"] = game'[p]
<1> USE DEF Goto
<1>0. /\ TypeOK /\ full = FALSE /\ failed[p] = FALSE /\ Iwad = {}
      /\ pc[p] # "exit1"
      /\ src[p] # None => data[src[p]]["lumps"] = game[p]
  BY DEF Sound, IInv, Healthy
<1>1. ASSUME pc'[p] # "exit1"
      PROVE  ~ErrorExit(p)
  BY <1>0, <1>1 DEF ErrorExit, Exit, TypeOK
<1>2. ASSUME src'[p] = src[p], game'[p] = game[p]
      PROVE  src'[p] # None => data'[src'[p]]["lumps"] = game'[p]
  BY <1>0, <1>2, SourceKept DEF Sound
<1>3. ~FlushFails(p)
  BY DEF FlushFails
<1>4. CASE Open(p)
  <2> DEFINE i == dir[Input(p)]
  <2>1. pc[p] = "open" /\ Input(p) \in Target
    BY <1>0, <1>4, Files DEF Open, Exited
  <2>2. /\ i # None /\ i \in Inode
        /\ data[i]["header"] # None
        /\ data[i]["dir"] = data[i]["header"] /\ data[i]["lumps"] = data[i]["header"]
    <3>1. Content(Input(p)) # None
      BY <2>1 DEF Sound, Healthy
    <3>2. i \in Inode \cup {None}
      BY <1>0, <2>1, Constants DEF TypeOK
    <3> QED
      BY <3>1, <3>2 DEF Content, Holds, IsWad, Part
  <2>3. /\ src' = [src EXCEPT ![p] = i] /\ pc' = [pc EXCEPT ![p] = "probe"]
        /\ game' = [game EXCEPT ![p] = data[i]["header"]]
        /\ failed' = failed /\ data' = data /\ full' = full
    BY <1>0, <1>4, <2>2 DEF Open
  <2> QED
    BY <1>0, <1>1, <2>2, <2>3 DEF TypeOK
<1>5. CASE Probe(p)
  <2>1. tryno[p] # MaxTemp
    BY <1>5, SearchEnds DEF Sound, Probe, Searches
  <2> QED
    BY <1>0, <1>1, <1>2, <1>5, <2>1 DEF Probe, TypeOK
<1>6. CASE Create(p)
  BY <1>0, <1>1, <1>2, <1>6 DEF Create, TypeOK
<1>7. CASE WriteLumps(p)
  <2>1. src[p] # None
    BY <1>7 DEF WriteLumps, Working, Sound, Sources, SourceOf
  <2> QED
    BY <1>0, <1>1, <1>2, <1>7, <2>1 DEF WriteLumps, TypeOK
<1>8. CASE WriteEntries(p)
  BY <1>0, <1>1, <1>2, <1>8 DEF WriteEntries, TypeOK
<1>9. CASE WriteHeader(p)
  BY <1>0, <1>1, <1>2, <1>3, <1>9 DEF WriteHeader, AfterHeader, TypeOK
<1>10. CASE CheckSize(p)
  BY <1>0, <1>1, <1>2, <1>3, <1>10 DEF CheckSize, TypeOK
<1>11. CASE Close(p)
  BY <1>0, <1>1, <1>3, <1>11 DEF Close, CloseFiles, AfterClose, BeforeRename, TypeOK
<1>12. CASE Reopen(p)
  <2> DEFINE i == dir[tmp[p]]
  <2>1. /\ pc[p] = "reopen" /\ tmp[p] # None /\ i # None
        /\ tmp[p] \in Path /\ i \in Inode
    BY <1>0, <1>12, Constants DEF Reopen, TypeOK, Owning, Sound, IInv, Names, NamesOf
  <2>2. /\ data[i]["header"] = game[p] /\ data[i]["dir"] = game[p]
        /\ data[i]["lumps"] = game[p] /\ game[p] \in Game
    BY <2>1 DEF Sound, IInv, Progress, ProgressOf, Reliable, Has, Streams, StreamsOf,
                Owning
  <2>3. data[i]["header"] # None
    BY <2>2, Constants
  <2>4. /\ src' = [src EXCEPT ![p] = i] /\ pc' = [pc EXCEPT ![p] = "probe"]
        /\ game' = [game EXCEPT ![p] = data[i]["header"]]
        /\ failed' = failed /\ data' = data /\ full' = full
    BY <1>12, <2>1, <2>2, <2>3 DEF Reopen
  <2> QED
    BY <1>0, <1>1, <2>2, <2>4 DEF TypeOK
<1>13. CASE RemoveTemp(p)
  BY <1>0, <1>1, <1>2, <1>13 DEF RemoveTemp, BeforeRename, TypeOK
<1>14. CASE RemoveTarget(p)
  BY <1>14 DEF RemoveTarget, Sound, IInv, Names, NamesOf
<1>15. CASE Rename(p)
  <2>1. pc[p] = "rename" /\ tmp[p] # None /\ dir[tmp[p]] # None
    BY <1>0, <1>15 DEF Rename, TypeOK, Owning, Sound, IInv, Names, NamesOf
  <2>2. tmp[p].in = Home[Output(p)]
    BY <2>1, PlacesRename DEF Sound, RenameInDirectory
  <2>3. CanRename(p)
    BY <2>1, <2>2 DEF CanRename, Locked, Posix
  <2>4. Return(p, TRUE) /\ src' = src /\ game' = game /\ full' = full
    BY <1>15, <2>3 DEF Rename
  <2> QED
    BY <1>0, <1>1, <1>2, <2>4 DEF Return, TypeOK
<1> QED
  BY <1>4, <1>5, <1>6, <1>7, <1>8, <1>9, <1>10, <1>11, <1>12, <1>13, <1>14,
     <1>15 DEF Step

LEMMA OthersSucceed ==
  ASSUME TypeOK, NEW p \in Proc, Step(p), NEW q \in Proc, q # p
  PROVE  failed'[q] = failed[q]
<1>1. failed' = failed \/ \E b : failed' = [failed EXCEPT ![p] = b]
  BY DEF Step, Open, Probe, Create, WriteLumps, WriteEntries, WriteHeader,
         CheckSize, Close, Reopen, RemoveTemp, RemoveTarget, Rename, ErrorExit,
         Exit, Return
<1> QED
  BY <1>1 DEF TypeOK

LEMMA HealthyStep ==
  ASSUME Posix, Faults = "none", NamesEnough, OutputsBesideInputs,
         Sound, [Next]_vars
  PROVE  Healthy'
<1>0. IInv /\ Healthy
  BY DEF Sound
<1>1. Reliable
  BY DEF Reliable
<1>2. ASSUME NEW t \in Target
      PROVE  Content(t)' # None
  <2>1. CASE UNCHANGED vars
    BY <1>0, <2>1 DEF vars, Healthy, Content, Holds, IsWad
  <2>2. CASE ~UNCHANGED vars
    BY <1>0, <1>1, <2>2, TargetsWhole DEF Healthy
  <2> QED
    BY <2>1, <2>2
<1>3. ASSUME NEW p \in Proc, Step(p)
      PROVE  Healthy'
  <2>1. /\ full' = full /\ failed'[p] = FALSE /\ pc'[p] # "exit1"
        /\ src'[p] # None => data'[src'[p]]["lumps"] = game'[p]
    BY <1>3, Fine
  <2>2. ASSUME NEW q \in Proc, q # p
        PROVE  /\ pc'[q] # "exit1" /\ failed'[q] = FALSE
               /\ src'[q] # None => data'[src'[q]]["lumps"] = game'[q]
    <3>1. Unmoved(q)
      BY <1>0, <1>3, <2>2, OthersUnmoved DEF IInv
    <3>2. failed'[q] = failed[q]
      BY <1>0, <1>3, <2>2, OthersSucceed DEF IInv
    <3>3. src[q] # None => data'[src[q]] = data[src[q]]
      BY <1>0, <1>3, SourceKept
    <3> QED
      BY <1>0, <3>1, <3>2, <3>3 DEF Healthy, Unmoved
  <2> QED
    BY <1>0, <1>2, <2>1, <2>2 DEF Healthy
<1>4. ASSUME NEW p \in Proc, Crash(p)
      PROVE  Healthy'
  <2>1. /\ failed' = failed /\ full' = full /\ data' = data /\ game' = game
        /\ pc' = [pc EXCEPT ![p] = "crashed"] /\ src' = [src EXCEPT ![p] = None]
    BY <1>4 DEF Crash, Exit, CloseFiles, Goto
  <2> QED
    BY <1>0, <1>2, <2>1 DEF Healthy, IInv, TypeOK
<1>5. CASE UNCHANGED vars
  BY <1>0, <1>2, <1>5 DEF vars, Healthy
<1> QED
  BY <1>3, <1>4, <1>5 DEF Next, Done

\* When the inputs are whole WADs that are no IWADs, every write works and
\* there are two temporary names for each instance besides litter, no instance
\* ends with an error, whatever the others do to the same files, if each has a
\* file to work on and no decompressed file is sent to another directory.
THEOREM NothingFails ==
  ASSUME Posix, Faults = "none", NamesEnough, OutputsBesideInputs,
         \A p \in Proc : Args[p] # <<>>
  PROVE  HealthySpec => []NeverFails
<1>1. HealthyInit => Healthy /\ Init
  BY DEF HealthyInit, Healthy, Init
<1>2. Spec => []SearchInv
  <2>1. IInv /\ TempInv /\ SearchInv /\ [Next]_vars => SearchInv'
    <3> SUFFICES ASSUME IInv, TempInv, SearchInv, [Next]_vars
                 PROVE  SearchInv'
      OBVIOUS
    <3>1. CASE UNCHANGED vars
      BY <3>1 DEF vars, SearchInv, High, Lower, Beyond, At, Searches, TempBeside,
                  Input, Output
    <3>2. ASSUME NEW p \in Proc, Step(p) \/ Crash(p)
          PROVE  SearchInv'
      BY <3>2, SearchStep DEF NamesEnough
    <3> QED
      BY <3>1, <3>2 DEF Next, Done
  <2> QED
    BY <2>1, InitSearch, Invariance, TempInvariance, PTL DEF Spec
<1>3. IInv /\ TempInv /\ PlaceInv /\ Sources /\ SearchInv /\ Healthy /\ [Next]_vars
        => Healthy'
  BY HealthyStep DEF Sound
<1>4. Healthy => NeverFails
  BY DEF Healthy, NeverFails
<1>5. HealthySpec => Spec /\ HealthyInit
  BY DEF HealthySpec, HealthyInit, Spec
<1>6. HealthySpec => []Healthy
  BY <1>1, <1>2, <1>3, <1>5, Invariance, TempInvariance, PlaceInvariance,
     SourcesInvariance, PTL DEF Spec
<1> QED
  BY <1>4, <1>6, PTL
=============================================================================
