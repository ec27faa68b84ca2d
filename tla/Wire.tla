--------------------------------- MODULE Wire ---------------------------------
(***************************************************************************)
(* src/src/backend.rs, RemoteBackend: cas_ref, set_ref and delete_ref over *)
(* the network, through net_git_retrying.                                  *)
(*                                                                         *)
(* A call runs `git push` again while the failure looks like a rate limit. *)
(* A push is an exchange: git reads the refs the server advertises,        *)
(* decides on its own side whether the update is wanted and allowed, and   *)
(* sends it with the value it saw, which the server compares once more     *)
(* when it moves the ref.  The connection may break at any point: the      *)
(* client then counts a failure, and the request it sent may be lost, may  *)
(* have been carried out, or may be carried out later.                     *)
(*                                                                         *)
(* The ref is the log's, which is swapped, or a segment's, which is set    *)
(* and deleted (a rewrite has a name derived from its content, so a ref    *)
(* that was deleted may be set again, by another process).                 *)
(***************************************************************************)
EXTENDS Naturals

CONSTANTS
  Clients,     \* the client processes
  MaxRetries,  \* MAX_RATE_LIMIT_RETRIES
  MaxCalls     \* bound: the number of calls that are made

ASSUME WireAssumption == MaxRetries \in Nat /\ MaxCalls \in Nat

VARIABLES
  remote,    \* the commit the ref is at on the server
  requests,  \* the updates sent and not handled
  pc,        \* pc[c]: "idle", or where c is in a call
  call,      \* call[c]: the call c is in
  tries,     \* tries[c]: `attempt`
  calls,     \* the number of calls made
  issued,    \* the calls made so far
  landed,    \* history: the calls that took effect
  result     \* result[c]: the call c ended last, and whether it succeeded

vars == <<remote, requests, pc, call, tries, calls, issued, landed, result>>

None == 0

Ids == 1..MaxCalls

Call == [id : Ids, op : {"swap", "set", "delete"}, old : Ids \cup {None}]

NoCall == [id |-> None, op |-> "none", old |-> None]

NoResult == [of |-> NoCall, ok |-> FALSE]

(* An update on its way: the call it is for, the attempt that sent it, and *)
(* the value the server advertised.                                        *)
Request == [by : Clients, of : Call, try : 0..MaxRetries, seen : Ids \cup {None}]

(* Every variable keeps to its type; an attempt is one of those allowed.   *)
TypeOK ==
  /\ remote \in Ids \cup {None}
  /\ requests \subseteq Request
  /\ pc \in [Clients -> {"idle", "try", "sent", "ok", "failed"}]
  /\ call \in [Clients -> Call \cup {NoCall}]
  /\ tries \in [Clients -> 0..MaxRetries]
  /\ calls \in 0..MaxCalls
  /\ issued \subseteq Call
  /\ landed \subseteq issued
  /\ result \in [Clients -> [of : Call \cup {NoCall}, ok : BOOLEAN]]

Init ==
  /\ remote = None
  /\ requests = {}
  /\ pc = [c \in Clients |-> "idle"]
  /\ call = [c \in Clients |-> NoCall]
  /\ tries = [c \in Clients |-> 0]
  /\ calls = 0
  /\ issued = {}
  /\ landed = {}
  /\ result = [c \in Clients |-> NoResult]

-----------------------------------------------------------------------------
(* The caller read the tip (read_ref; retrying that changes nothing) when  *)
(* the call begins, and the push comes later.  A commit to publish is new: *)
(* it is named after the call.                                             *)
Invoke(c) ==
  /\ pc[c] = "idle"
  /\ calls < MaxCalls
  /\ calls' = calls + 1
  /\ \E op \in {"swap", "set", "delete"} :
       LET k == [id |-> calls + 1, op |-> op, old |-> IF op = "swap" THEN remote ELSE None]
       IN /\ \A j \in issued : (j.op = "swap") = (op = "swap")
          /\ call' = [call EXCEPT ![c] = k]
          /\ issued' = issued \cup {k}
  /\ pc' = [pc EXCEPT ![c] = "try"]
  /\ tries' = [tries EXCEPT ![c] = 0]
  /\ result' = [result EXCEPT ![c] = NoResult]
  /\ UNCHANGED <<remote, requests, landed>>

(* The ref is already where the push would take it.                        *)
UpToDate(k) == k.op # "delete" /\ remote = k.id

(* Mutant: a push without the lease.                                       *)
Allowed_NoLease(k) ==
  CASE k.op = "swap" -> TRUE
    [] k.op = "set" -> remote = None
    [] k.op = "delete" -> TRUE

(* --force-with-lease, and the refusal of what is no fast-forward (the     *)
(* commit of a segment has no parent).                                     *)
Allowed(k) ==
  CASE k.op = "swap" -> remote = k.old
    [] k.op = "set" -> remote = None
    [] k.op = "delete" -> TRUE

(* One run of git, up to the request it sends.                             *)
Send(c) ==
  /\ pc[c] = "try"
  /\ LET k == call[c]
     IN \/ /\ UpToDate(k)
           /\ pc' = [pc EXCEPT ![c] = "ok"]
           /\ UNCHANGED requests
        \/ /\ ~UpToDate(k) /\ ~Allowed(k)
           /\ pc' = [pc EXCEPT ![c] = "failed"]
           /\ UNCHANGED requests
        \/ /\ ~UpToDate(k) /\ Allowed(k)
           /\ pc' = [pc EXCEPT ![c] = "sent"]
           /\ requests' = requests \cup
                {[by |-> c, of |-> k, try |-> tries[c], seen |-> remote]}
  /\ UNCHANGED <<remote, call, tries, calls, issued, landed, result>>

(* The client is still there for the answer.                               *)
Awaited(r) == pc[r.by] = "sent" /\ call[r.by] = r.of /\ tries[r.by] = r.try

Reply(r, step) == pc' = IF Awaited(r) THEN [pc EXCEPT ![r.by] = step] ELSE pc

(* Mutant: the server does not compare when it moves the ref.              *)
Unmoved_Unchecked(r) == TRUE

(* The ref is still where it was advertised.  The deletion of a ref that   *)
(* was not there is not compared with anything.                            *)
Unmoved(r) == remote = r.seen \/ (r.of.op = "delete" /\ r.seen = None)

(* The server carries the update out.                                      *)
Land(r) ==
  /\ Unmoved(r)
  /\ remote' = IF r.of.op = "delete" THEN None ELSE r.of.id
  /\ landed' = landed \cup {r.of}
  /\ requests' = requests \ {r}
  /\ Reply(r, "ok")
  /\ UNCHANGED <<call, tries, calls, issued, result>>

(* The server refuses it: the ref has moved, or is locked; or the request  *)
(* never arrives.                                                          *)
Refuse(r) ==
  /\ requests' = requests \ {r}
  /\ Reply(r, "failed")
  /\ UNCHANGED <<remote, call, tries, calls, issued, landed, result>>

(* The connection breaks.  Nothing tells the client what became of its     *)
(* request.                                                                *)
HangUp(c) ==
  /\ pc[c] = "sent"
  /\ pc' = [pc EXCEPT ![c] = "failed"]
  /\ UNCHANGED <<remote, requests, call, tries, calls, issued, landed, result>>

-----------------------------------------------------------------------------
Answer(c, ok) ==
  /\ result' = [result EXCEPT ![c] = [of |-> call[c], ok |-> ok]]
  /\ pc' = [pc EXCEPT ![c] = "idle"]
  /\ call' = [call EXCEPT ![c] = NoCall]
  /\ tries' = [tries EXCEPT ![c] = 0]
  /\ UNCHANGED <<remote, requests, calls, issued, landed>>

Succeed(c) == pc[c] = "ok" /\ Answer(c, TRUE)

(* Mutants: attempts that are not counted; one attempt too many.           *)
Again_Uncounted(c) ==
  /\ pc' = [pc EXCEPT ![c] = "try"]
  /\ UNCHANGED <<remote, requests, call, tries, calls, issued, landed, result>>

Again_OneMore(c) ==
  /\ tries[c] <= MaxRetries
  /\ tries' = [tries EXCEPT ![c] = @ + 1]
  /\ pc' = [pc EXCEPT ![c] = "try"]
  /\ UNCHANGED <<remote, requests, call, calls, issued, landed, result>>

(* Back off and run git again.                                             *)
Again(c) ==
  /\ tries[c] < MaxRetries
  /\ tries' = [tries EXCEPT ![c] = @ + 1]
  /\ pc' = [pc EXCEPT ![c] = "try"]
  /\ UNCHANGED <<remote, requests, call, calls, issued, landed, result>>

(* HTTP 429: the server did nothing.                                       *)
RateLimited(c) ==
  /\ pc[c] = "try"
  /\ \/ Again(c)
     \/ tries[c] = MaxRetries /\ Answer(c, FALSE)

(* Any other failure.  Its text carries the name of the ref, the commit    *)
(* and the URL, and the test for "429" goes by the text: a failure of any  *)
(* kind may be taken for a rate limit.                                     *)
Fail(c) ==
  /\ pc[c] = "failed"
  /\ Again(c) \/ Answer(c, FALSE)

(* The process ends in the middle of a call.                               *)
Crash(c) == pc[c] # "idle" /\ Answer(c, FALSE)

Step(c) == Send(c) \/ HangUp(c) \/ Succeed(c) \/ RateLimited(c) \/ Fail(c)

Next ==
  \/ \E c \in Clients : Invoke(c) \/ Step(c) \/ Crash(c)
  \/ \E r \in requests : Land(r) \/ Refuse(r)

Spec == Init /\ [][Next]_vars

(* A process goes on with its call; a connection is answered or breaks.    *)
FairSpec == Spec /\ \A c \in Clients : WF_vars(Step(c))

-----------------------------------------------------------------------------
(* Of all the swaps that expect one value of the log at most one ever      *)
(* takes effect, and it does so once: no commit is built on a tip that     *)
(* another one has replaced, whatever was retried, lost or late.           *)
OneWinner ==
  \A j, k \in landed : j.op = "swap" /\ k.op = "swap" /\ j.old = k.old => j = k

(* The calls are those of RefStore: retries, broken connections, requests  *)
(* carried out late and failures taken for rate limits are invisible.      *)
RS == INSTANCE RefStore

ImplementsRefStore == RS!Spec

(* Every call returns.                                                     *)
CallsEnd == \A c \in Clients : pc[c] # "idle" ~> pc[c] = "idle"
=============================================================================
