------------------------------- MODULE MCEngine -------------------------------
(* Values for the constants of Engine.                                     *)
EXTENDS Engine, TLC

CONSTANTS a, b, c1, c2

(* Chunks a of one byte and b of two: a volume can be mostly dead.         *)
MCClen == (a :> 1) @@ (b :> 2)

MCContents == {{a}, {a, b}}

(* Room for both chunks and no more.                                       *)
MCThreshold == [v \in 1 .. NumVolumes |-> 3]
=============================================================================
