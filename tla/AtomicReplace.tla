--------------------------- MODULE AtomicReplace ---------------------------
(***************************************************************************)
(* What one run of wadptr promises about the files it is given, whatever  *)
(* else is running: the file it writes to goes, in a single step, from     *)
(* what it was to a complete WAD holding the same game as the input did    *)
(* when it was opened; or it does not change at all.                       *)
(*                                                                         *)
(* "Game" stands for what a WAD means to the engine: compressing or        *)
(* decompressing a WAD keeps its game.                                     *)
(***************************************************************************)
EXTENDS FiniteSets

CONSTANTS Proc,    \* running instances of the program
          Target,  \* names of WAD files given on command lines
          Game,    \* what a WAD may hold
          None     \* neither a game nor an order: no file, or a file that is
                   \* not a whole WAD; a run that has read nothing

\* What a run that has read its input is to do.
Order == [game : Game, dest : Target]

VARIABLES content, \* the game each file holds
          held     \* the input a run has read, and where it is to be written

vars == <<content, held>>

TypeOK ==
  /\ content \in [Target -> Game \cup {None}]
  /\ held \in [Proc -> Order \cup {None}]

Init ==
  /\ content \in [Target -> Game \cup {None}]
  /\ held = [p \in Proc |-> None]

\* A run reads its input file, which must hold a game.
Begin(p) ==
  /\ held[p] = None
  /\ \E from, dest \in Target :
       /\ content[from] # None
       /\ held' = [held EXCEPT ![p] = [game |-> content[from], dest |-> dest]]
  /\ UNCHANGED content

\* The output file changes, all at once, to the game that was read.
Commit(p) ==
  /\ held[p] # None
  /\ content' = [content EXCEPT ![held[p].dest] = held[p].game]
  /\ held' = [held EXCEPT ![p] = None]

\* A run stops before it commits: error, crash, refusal.
GiveUp(p) ==
  /\ held[p] # None
  /\ held' = [held EXCEPT ![p] = None]
  /\ UNCHANGED content

Next == \E p \in Proc : Begin(p) \/ Commit(p) \/ GiveUp(p)

Spec == Init /\ [][Next]_vars
=============================================================================
