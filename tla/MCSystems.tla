------------------------------ MODULE MCSystems ------------------------------
(***************************************************************************)
(* The same command lines on two systems for TLC: on one p1 and p2 run and *)
(* nothing goes wrong; on the other, Windows, which is the one that the    *)
(* configuration describes, w1 and w2 do, names are scarce, the files may  *)
(* be anything, and whatever may fail does.  The instances of the other    *)
(* system have no files to work on, and end at once.                       *)
(***************************************************************************)
EXTENDS MCWadRewrite

CONSTANTS w1, w2

\* On both systems one instance packs a file into the one that the other
\* replaces first, to go on with the file the first one reads.
First == {p1, w1}
BothFiles == [p \in Proc |-> IF p \in First THEN <<t1>> ELSE <<t2, t1>>]
Mixed == [p \in Proc |-> IF p \in First THEN "compress" ELSE "decompress"]
FirstToSecond == [p \in Proc |-> IF p \in First THEN t2 ELSE None]

FilesOf(running) == [p \in Proc |-> IF p \in running THEN Args[p] ELSE <<>>]

WindowsProc == {w1, w2}
OnWindows == INSTANCE WadRewrite WITH Args <- FilesOf(WindowsProc)

HealthyProc == {p1, p2}
Healthy == INSTANCE WadRewrite WITH
  Args <- FilesOf(HealthyProc), Windows <- FALSE, Faults <- "none",
  Game <- {g1, g2}, Empty <- g2, MaxTemp <- 4, Litter <- {},
  FirstInode <- (t1 :> 1) @@ (t2 :> 2)

\* Where nothing goes wrong the files are whole; which game is which makes no
\* difference.
SystemsInit ==
  \/ OnWindows!Init
  \/ Healthy!HealthyInit /\ Content(t1) = g1 /\ Content(t2) = g2

SystemsNext ==
  \/ \E p \in WindowsProc : Step(p) \/ Crash(p)
  \/ \E p \in HealthyProc : Healthy!Step(p) \/ Healthy!Crash(p)
  \/ Done

\* Each process keeps being scheduled.
SystemsSpec ==
  /\ SystemsInit /\ [][SystemsNext]_vars
  /\ WF_vars(Step(w1) \/ Healthy!Step(p1)) /\ WF_vars(Step(w2) \/ Healthy!Step(p2))

\* The systems differ in the names a temporary file may have.
NothingWrong == DOMAIN dir = Healthy!Path

\* Where nothing goes wrong outside, no instance ends with an error, whatever the
\* others are doing to the files it reads (main.c:655, errors.c:52).
HealthyNeverFails == NothingWrong => \A p \in HealthyProc : pc[p] # "exit1"
=============================================================================
