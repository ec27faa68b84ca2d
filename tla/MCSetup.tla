-------------------------------- MODULE MCSetup --------------------------------
(* Values for the constants of Setup.                                      *)
EXTENDS Setup, TLC

CONSTANTS p1, p2, f1, f2

(* A local repository, and one on a host.                                  *)
MCScheme == <<"file", "https">>

(* The greater the size and the more is declared, the longer the text.     *)
MCLength == [c \in Config |-> c.avg + IF c.place = "declared" THEN 2 ELSE 0]

Alike == Permutations({p1, p2}) \cup Permutations({f1, f2})
=============================================================================
