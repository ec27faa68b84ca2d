------------------------------- MODULE MCHalfway -------------------------------
(* Two volumes, and one file with chunks a and b or with a alone.          *)
EXTENDS Engine, TLC

CONSTANTS a, b, c1

MCClen == (a :> 1) @@ (b :> 2)

MCContents == {{a}, {a, b}}

MCThreshold == [v \in 1 .. NumVolumes |-> 3]

(* The search leaves out the passing of time, compactions that have        *)
(* nothing to do, and crashes other than in a removal.                     *)
Undisturbed ==
  /\ ~Age
  /\ \A c \in Clients :
       /\ pc[c] = "idle" => pc'[c] # "sweep.load"
       /\ (pc[c] # "idle" /\ pc'[c] = "idle")
            => \/ log' # log
               \/ repo' # repo
               \/ refs' # refs
               \/ pc[c] = "sweep.volume" /\ job[c].next = NumVolumes
=============================================================================
