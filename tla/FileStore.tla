------------------------------- MODULE FileStore -------------------------------
(***************************************************************************)
(* What a store promises to the processes that use it: a map from names to *)
(* file contents.  A process calls put or rm; some time before the call    *)
(* ends, or never when the process dies, the map changes in one step by    *)
(* exactly that call.  Nothing else changes the map.                       *)
(***************************************************************************)
CONSTANTS
  Clients, Names, Contents,
  NoFile,    \* what a name that is not in the store maps to
  MayRepeat  \* whether a call can take effect more than once before it ends

VARIABLES
  files,  \* files[n]: the content of the file n
  calls   \* calls[c]: the call process c is in

NoCall == [op |-> "none"]

Call == [op : {"put"}, name : Names, content : Contents]
          \cup [op : {"rm"}, name : Names]

Init ==
  /\ files = [n \in Names |-> NoFile]
  /\ calls = [c \in Clients |-> NoCall]

Begin(c) ==
  /\ calls[c] = NoCall
  /\ \E call \in Call : calls' = [calls EXCEPT ![c] = call]
  /\ UNCHANGED files

End(c) == calls' = [calls EXCEPT ![c] = NoCall]

(* The call takes effect and ends, or takes effect and does not know.      *)
Effect(c) ==
  /\ \/ calls[c].op = "put" /\ files' = [files EXCEPT ![calls[c].name] = calls[c].content]
     \/ calls[c].op = "rm" /\ files' = [files EXCEPT ![calls[c].name] = NoFile]
  /\ End(c) \/ (MayRepeat /\ UNCHANGED calls)

Return(c) == End(c) /\ UNCHANGED files

Next == \E c \in Clients : Begin(c) \/ Effect(c) \/ Return(c)

Spec == Init /\ [][Next]_<<files, calls>>
=============================================================================
