------------------------------- MODULE RefStore -------------------------------
(***************************************************************************)
(* What the methods that write a ref of a remote repository promise their  *)
(* callers (the trait `Backend` of src/src/backend.rs), however often git  *)
(* is run and whatever happens on the way.                                 *)
(*                                                                         *)
(* A call that was made may take effect: a swap at most once, and only on  *)
(* the value it expects; a set only where there is no ref; a delete at any *)
(* time.  A call that reports success has taken effect.  One that failed,  *)
(* or whose caller died, may have, and may still.                          *)
(***************************************************************************)
EXTENDS Naturals

CONSTANTS
  Clients,  \* the processes that call
  Ids       \* the names of the calls: numbers, but not None

VARIABLES
  remote,  \* the commit the ref is at
  issued,  \* the calls made so far
  landed,  \* those that took effect
  call,    \* call[c]: the call c is in
  result   \* result[c]: the call c ended last, and whether it succeeded

vars == <<remote, issued, landed, call, result>>

(* No commit: a ref that does not exist.  A commit is the id of the call   *)
(* that publishes it, since no two commits are the same.                   *)
None == 0

Call == [id : Ids, op : {"swap", "set", "delete"}, old : Ids \cup {None}]

NoCall == [id |-> None, op |-> "none", old |-> None]

NoResult == [of |-> NoCall, ok |-> FALSE]

Init ==
  /\ remote = None
  /\ issued = {}
  /\ landed = {}
  /\ call = [c \in Clients |-> NoCall]
  /\ result = [c \in Clients |-> NoResult]

Invoke(c) ==
  /\ call[c] = NoCall
  /\ result' = [result EXCEPT ![c] = NoResult]
  /\ \E k \in Call :
       /\ \A j \in issued : j.id # k.id
       /\ call' = [call EXCEPT ![c] = k]
       /\ issued' = issued \cup {k}
  /\ UNCHANGED <<remote, landed>>

Effect(k) ==
  /\ k \in issued
  /\ \/ /\ k.op = "swap"
        /\ k \notin landed
        /\ remote = k.old
        /\ remote' = k.id
     \/ /\ k.op = "set"
        /\ remote = None
        /\ remote' = k.id
     \/ /\ k.op = "delete"
        /\ remote' = None
  /\ landed' = landed \cup {k}
  /\ UNCHANGED <<issued, call, result>>

Answer(c, ok) ==
  /\ call[c] # NoCall
  /\ ok => call[c] \in landed
  /\ result' = [result EXCEPT ![c] = [of |-> call[c], ok |-> ok]]
  /\ call' = [call EXCEPT ![c] = NoCall]
  /\ UNCHANGED <<remote, issued, landed>>

Next ==
  \/ \E c \in Clients : Invoke(c) \/ \E ok \in BOOLEAN : Answer(c, ok)
  \/ \E k \in issued : Effect(k)

Spec == Init /\ [][Next]_vars
=============================================================================
