------------------------------- MODULE MCMirror -------------------------------
(* Values for the constants of Mirror.                                     *)
EXTENDS Mirror, TLC

CONSTANTS a, b, c1

MCClen == (a :> 1) @@ (b :> 2)

MCContents == {{a}, {a, b}}

MCThreshold == [v \in 1 .. NumVolumes |-> 3]
=============================================================================
