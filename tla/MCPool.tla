-------------------------------- MODULE MCPool --------------------------------
(***************************************************************************)
(* Instances of Pool for TLC.                                              *)
(***************************************************************************)
EXTENDS Pool

CONSTANTS j1, j2, j3

\* No job is delegated by another one.
Flat == [j \in Jobs |-> NoJob]

\* j1's run delegates j2, j2's run delegates j3.
Chain == [j \in Jobs |-> IF j = j2 THEN j1 ELSE IF j = j3 THEN j2 ELSE NoJob]

NoPath == [j \in Jobs |-> 0]

\* j3 is submitted with a parentPath of two segments.
LongPath == [j \in Jobs |-> IF j = j3 THEN 2 ELSE 0]

MergedOnly == {Merged}

MergedAndJ2 == {Merged, j2}
===============================================================================
