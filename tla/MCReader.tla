------------------------------- MODULE MCReader -------------------------------
(* Values for the constants of Reader.                                     *)
EXTENDS Reader, TLC

CONSTANTS a, b, c1, c2, r1

MCClen == (a :> 1) @@ (b :> 2)

MCContents == {{a}, {a, b}}

(* Clients are interchangeable.                                            *)
Alike == Permutations({c1, c2})

MCThreshold == [v \in 1 .. NumVolumes |-> 3]
=============================================================================
