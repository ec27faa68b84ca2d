------------------------------- MODULE MCChunker -------------------------------
(* Values for the constants of Chunker.                                    *)
EXTENDS Chunker, TLC, SequencesExt

CONSTANTS a, b

(* After an a the hash is odd, and no mask is hit; after a b it is even,   *)
(* which the easy mask takes for a hit and the hard mask seldom does.      *)
MCGear == (a :> 15) @@ (b :> 2)

(* Any beginning and any end with a stretch between them that the hash     *)
(* never cuts, from nothing to more than a chunk.                          *)
MCInputs ==
  {p \o [i \in 1 .. n |-> a] \o s :
     p \in BoundedSeq({a, b}, 4), n \in {0, 15, 32}, s \in BoundedSeq({a, b}, 3)}
=============================================================================
