---------------------------- MODULE MCWadRewrite ----------------------------
(***************************************************************************)
(* Instances of WadRewrite for TLC: two WADs, in one directory or in two,  *)
(* and one or two instances of the program with various command lines.     *)
(***************************************************************************)
EXTENDS WadRewrite, TLC

CONSTANTS p1, p2, t1, t2, d1, d2, g1, g2

\* Where the WADs are.
OneDir == (t1 :> d1) @@ (t2 :> d1)
TwoDirs == (t1 :> d1) @@ (t2 :> d2)

\* Inodes are numbers; t1 and t2 have the first two, litter the third.
Inodes == 1 .. 6
NoLitter == {}
OldTemp == {[in |-> d1, num |-> 0]}
TempOfSecond == {[in |-> d2, num |-> 0]}
InodesOf == [f \in {t1, t2} \cup Litter |->
               IF f = t1 THEN 1 ELSE IF f = t2 THEN 2 ELSE 3]

\* One argument each, the same file: the two instances race for it.
SameFile == (p1 :> <<t1>>) @@ (p2 :> <<t1>>)
\* A single instance with one argument.
JustOne == p1 :> <<t1>>

NoOutput == [p \in Proc |-> None]
ToSecond == [p \in Proc |-> IF p = p1 THEN t2 ELSE None]

Compressing == [p \in Proc |-> "compress"]
Decompressing == [p \in Proc |-> "decompress"]
=============================================================================
