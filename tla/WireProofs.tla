------------------------------ MODULE WireProofs ------------------------------
(***************************************************************************)
(* For any number of clients, calls and retries: of the swaps that expect  *)
(* one value of the log at most one takes effect, and the calls over the   *)
(* network are those of RefStore.                                          *)
(*                                                                         *)
(* The argument: commits are named in the order in which their calls were  *)
(* made, and a swap expects a value read when its call began, so a swap    *)
(* moves the log to a larger name.  A name the log has left therefore      *)
(* never comes back, and what arrives late finds its value gone.           *)
(***************************************************************************)
EXTENDS Wire, TLAPS

(* Calls are named apart and in order.                                     *)
Names ==
  /\ \A k \in issued : k.id <= calls /\ (k.op = "swap" => k.old < k.id)
  /\ \A j, k \in issued : j.id = k.id => j = k

(* The log is swapped, a segment is set and deleted.                       *)
OneKind == \A j, k \in issued : (j.op = "swap") = (k.op = "swap")

(* A client is in a call from its beginning to its end, and the answer     *)
(* "ok" waits only for what took effect.                                   *)
InCall ==
  \A c \in Clients :
    /\ (pc[c] = "idle") = (call[c] = NoCall)
    /\ call[c] # NoCall => call[c] \in issued
    /\ pc[c] = "ok" => call[c] \in landed

(* A request is for a call, and asks for no more than that call does.      *)
Asked ==
  \A r \in requests :
    /\ r.of \in issued
    /\ r.of.op = "swap" => r.seen = r.of.old
    /\ r.of.op = "set" => r.seen = None

(* The ref is where a swap or a set that landed took it.                   *)
Published ==
  remote = None \/ \E k \in landed : k.id = remote /\ k.op # "delete"

(* The log moved on from every value a swap replaced.                      *)
Forward == \A k \in landed : k.op = "swap" => k.id <= remote

Inv == TypeOK /\ Names /\ OneKind /\ InCall /\ Asked /\ Published /\ Forward /\ OneWinner

-----------------------------------------------------------------------------
(* Bounds and names of calls are numbers, and None is no call's name.      *)
LEMMA Constants == MaxRetries \in Nat /\ MaxCalls \in Nat /\ Ids \subseteq Nat /\ None \notin Ids
  BY WireAssumption DEF WireAssumption, Ids, None

(* A client without a call is told from one with a call.                   *)
LEMMA NoCallIsNone == NoCall \notin Call
  BY DEF NoCall, Call

(* The fields of a call.                                                   *)
LEMMA CallTypes ==
  ASSUME NEW k \in Call
  PROVE  /\ k.id \in Ids /\ k.id \in Nat /\ k.id # None
         /\ k.op \in {"swap", "set", "delete"}
         /\ k.old \in Nat
  <1>1. k.id \in Ids /\ k.op \in {"swap", "set", "delete"} /\ k.old \in Ids \cup {None}
    BY DEF Call
  <1>2. None \in Nat
    BY DEF None
  <1> QED BY <1>1, <1>2, Constants

(* At first there are no calls and no requests.                            *)
LEMMA Inits == Init => Inv
  <1> SUFFICES ASSUME Init PROVE Inv
    OBVIOUS
  <1>1. TypeOK
    BY Constants DEF Init, TypeOK, NoResult
  <1>2. Names /\ OneKind /\ InCall /\ Asked /\ Published /\ Forward /\ OneWinner
    BY DEF Init, Names, OneKind, InCall, Asked, Published, Forward, OneWinner
  <1> QED BY <1>1, <1>2 DEF Inv

(* A step of c that begins no call and moves no ref, and that ends c's     *)
(* call if it takes c to "idle".                                           *)
LEMMA Moves ==
  ASSUME Inv, NEW c \in Clients,
         NEW step \in {"idle", "try", "sent", "ok", "failed"},
         pc' = [pc EXCEPT ![c] = step],
         call' = [call EXCEPT ![c] = IF step = "idle" THEN NoCall ELSE call[c]],
         pc[c] # "idle",
         step = "ok" => call[c] \in landed,
         tries' \in [Clients -> 0..MaxRetries],
         result' \in [Clients -> [of : Call \cup {NoCall}, ok : BOOLEAN]],
         requests' \subseteq Request,
         Asked',
         UNCHANGED <<remote, calls, issued, landed>>
  PROVE  Inv'
  <1>1. TypeOK'
    BY DEF Inv, TypeOK
  <1>2. InCall'
    <2> SUFFICES ASSUME NEW d \in Clients
                 PROVE  /\ (pc'[d] = "idle") = (call'[d] = NoCall)
                        /\ call'[d] # NoCall => call'[d] \in issued
                        /\ pc'[d] = "ok" => call'[d] \in landed
      BY DEF InCall
    <2>1. pc \in [Clients -> {"idle", "try", "sent", "ok", "failed"}] /\ DOMAIN call = Clients
      BY DEF Inv, TypeOK
    <2>2. CASE d = c
      BY <2>1, <2>2 DEF Inv, InCall
    <2>3. CASE d # c
      BY <2>1, <2>3 DEF Inv, InCall
    <2> QED BY <2>2, <2>3
  <1>3. Names' /\ OneKind' /\ Published' /\ Forward' /\ OneWinner'
    BY DEF Inv, Names, OneKind, Published, Forward, OneWinner
  <1> QED BY <1>1, <1>2, <1>3 DEF Inv

(* A call that returns, whatever it reports, leaves its requests where     *)
(* they are; one that answers ok has landed.                               *)
LEMMA AnswerKeeps ==
  ASSUME Inv, NEW c \in Clients, NEW ok \in BOOLEAN, pc[c] # "idle", Answer(c, ok)
  PROVE  Inv'
  <1>1. /\ tries' \in [Clients -> 0..MaxRetries]
        /\ result' \in [Clients -> [of : Call \cup {NoCall}, ok : BOOLEAN]]
    BY Constants DEF Answer, Inv, TypeOK
  <1>2. requests' \subseteq Request /\ Asked'
    BY DEF Answer, Inv, TypeOK, Asked
  <1> QED BY <1>1, <1>2, Moves DEF Answer

(* A retry starts the same call once more, on the value its client may     *)
(* expect.                                                                 *)
LEMMA AgainKeeps ==
  ASSUME Inv, NEW c \in Clients, pc[c] # "idle", Again(c)
  PROVE  Inv'
  <1>1. tries' \in [Clients -> 0..MaxRetries]
    BY Constants DEF Again, Inv, TypeOK
  <1>2. /\ requests' \subseteq Request /\ Asked'
        /\ result' \in [Clients -> [of : Call \cup {NoCall}, ok : BOOLEAN]]
        /\ call' = [call EXCEPT ![c] = call[c]]
    BY DEF Again, Inv, TypeOK, Asked
  <1> QED BY <1>1, <1>2, Moves DEF Again

(* A new call has a name that no request, commit or earlier call has.      *)
LEMMA InvokeKeeps ==
  ASSUME Inv, NEW c \in Clients, Invoke(c)
  PROVE  Inv'
  <1>1. PICK op \in {"swap", "set", "delete"} :
          LET k == [id |-> calls + 1, op |-> op, old |-> IF op = "swap" THEN remote ELSE None]
          IN /\ \A j \in issued : (j.op = "swap") = (op = "swap")
             /\ call' = [call EXCEPT ![c] = k]
             /\ issued' = issued \cup {k}
    BY DEF Invoke
  <1> DEFINE k == [id |-> calls + 1, op |-> op, old |-> IF op = "swap" THEN remote ELSE None]
  <1>2. calls \in Nat /\ calls + 1 \in Ids /\ remote \in Ids \cup {None}
    BY Constants DEF Invoke, Inv, TypeOK, Ids
  <1>3. k \in Call /\ k.id = calls + 1 /\ k.op = op /\ (op = "swap" => k.old = remote)
    BY <1>2 DEF Call
  <1>4. \A j \in issued : j \in Call /\ j.id <= calls
    BY DEF Inv, TypeOK, Names
  <1>5. k \notin issued
    BY <1>2, <1>3, <1>4
  <1>6. remote <= calls
    <2>1. CASE remote = None
      BY <2>1, <1>2 DEF None
    <2>2. CASE remote # None
      <3>1. PICK j \in landed : j.id = remote
        BY <2>2 DEF Inv, Published
      <3> QED BY <3>1, <1>4 DEF Inv, TypeOK
    <2> QED BY <2>1, <2>2
  <1>7. TypeOK'
    <2>1. calls' \in 0..MaxCalls
      BY <1>2, Constants DEF Invoke, Ids
    <2>2. call' \in [Clients -> Call \cup {NoCall}]
      BY <1>1, <1>3 DEF Inv, TypeOK
    <2>3. tries' \in [Clients -> 0..MaxRetries]
      BY Constants DEF Invoke, Inv, TypeOK
    <2>4. result' \in [Clients -> [of : Call \cup {NoCall}, ok : BOOLEAN]]
      BY DEF Invoke, Inv, TypeOK, NoResult
    <2>5. issued' \subseteq Call /\ landed' \subseteq issued'
      BY <1>1, <1>3 DEF Invoke, Inv, TypeOK
    <2> QED BY <2>1, <2>2, <2>3, <2>4, <2>5 DEF Invoke, Inv, TypeOK
  <1>8. Names'
    <2>1. ASSUME NEW j \in issued' PROVE j.id <= calls' /\ (j.op = "swap" => j.old < j.id)
      <3>1. CASE j = k
        <4>1. j.id = calls + 1 /\ (j.op = "swap" => j.old = remote)
          BY <3>1, <1>3
        <4>2. remote \in Nat
          BY <1>2, Constants DEF None
        <4> QED BY <4>1, <4>2, <1>2, <1>6 DEF Invoke
      <3>2. CASE j \in issued
        BY <3>2, <1>2, <1>4, CallTypes DEF Invoke, Inv, Names
      <3> QED BY <3>1, <3>2, <1>1
    <2>2. \A i, j \in issued' : i.id = j.id => i = j
      BY <1>1, <1>2, <1>3, <1>4, CallTypes DEF Inv, Names
    <2> QED BY <2>1, <2>2 DEF Names
  <1>9. OneKind'
    BY <1>1, <1>3 DEF Inv, OneKind
  <1>10. InCall'
    <2> SUFFICES ASSUME NEW d \in Clients
                 PROVE  /\ (pc'[d] = "idle") = (call'[d] = NoCall)
                        /\ call'[d] # NoCall => call'[d] \in issued'
                        /\ pc'[d] = "ok" => call'[d] \in landed'
      BY DEF InCall
    <2>1. pc' = [pc EXCEPT ![c] = "try"] /\ landed' = landed
      BY DEF Invoke
    <2>2. DOMAIN pc = Clients /\ DOMAIN call = Clients
      BY DEF Inv, TypeOK
    <2>3. CASE d = c
      BY <2>1, <2>2, <2>3, <1>1, <1>3, NoCallIsNone
    <2>4. CASE d # c
      BY <2>1, <2>2, <2>4, <1>1 DEF Inv, InCall
    <2> QED BY <2>3, <2>4
  <1>11. Asked'
    BY <1>1 DEF Invoke, Inv, Asked
  <1>12. Published' /\ Forward' /\ OneWinner'
    BY DEF Invoke, Inv, Published, Forward, OneWinner
  <1> QED BY <1>7, <1>8, <1>9, <1>10, <1>11, <1>12 DEF Inv

(* A ref that is where the push would take it was taken there by it.       *)
LEMMA AlreadyThere ==
  ASSUME Inv, NEW k \in issued, UpToDate(k)
  PROVE  k \in landed
  <1>1. k \in Call /\ remote # None
    BY CallTypes DEF Inv, TypeOK, UpToDate
  <1>2. PICK j \in landed : j.id = remote
    BY <1>1 DEF Inv, Published
  <1> QED BY <1>2 DEF Inv, TypeOK, Names, UpToDate

(* A request carries a value that its client found allowed: for a swap,    *)
(* the one the call expects.                                               *)
LEMMA SendKeeps ==
  ASSUME Inv, NEW c \in Clients, Send(c)
  PROVE  Inv'
  <1> DEFINE k == call[c]
             r == [by |-> c, of |-> k, try |-> tries[c], seen |-> remote]
  <1>1. pc[c] = "try" /\ k \in issued /\ k \in Call
    BY DEF Send, Inv, InCall, TypeOK
  <1>2. /\ tries' \in [Clients -> 0..MaxRetries]
        /\ result' \in [Clients -> [of : Call \cup {NoCall}, ok : BOOLEAN]]
        /\ call' = [call EXCEPT ![c] = call[c]]
        /\ UNCHANGED <<remote, calls, issued, landed>>
    BY DEF Send, Inv, TypeOK
  <1>3. CASE UpToDate(k) /\ pc' = [pc EXCEPT ![c] = "ok"] /\ UNCHANGED requests
    <2>1. requests' \subseteq Request /\ Asked'
      BY <1>2, <1>3 DEF Inv, TypeOK, Asked
    <2> QED BY <2>1, <1>1, <1>2, <1>3, AlreadyThere, Moves
  <1>4. CASE pc' = [pc EXCEPT ![c] = "failed"] /\ UNCHANGED requests
    <2>1. requests' \subseteq Request /\ Asked'
      BY <1>2, <1>4 DEF Inv, TypeOK, Asked
    <2> QED BY <2>1, <1>1, <1>2, <1>4, Moves
  <1>5. CASE /\ Allowed(k) /\ pc' = [pc EXCEPT ![c] = "sent"]
             /\ requests' = requests \cup {r}
    <2>1. r \in Request
      BY <1>1 DEF Inv, TypeOK, Request
    <2>2. requests' \subseteq Request
      BY <2>1, <1>5 DEF Inv, TypeOK
    <2>3. Asked'
      <3>1. (k.op = "swap" => remote = k.old) /\ (k.op = "set" => remote = None)
        BY <1>5 DEF Allowed
      <3>2. r.of = k /\ r.seen = remote
        OBVIOUS
      <3> HIDE DEF r
      <3> QED BY <3>1, <3>2, <1>1, <1>2, <1>5 DEF Inv, Asked
    <2> QED BY <2>2, <2>3, <1>1, <1>2, <1>5, Moves
  <1> QED BY <1>3, <1>4, <1>5 DEF Send

-----------------------------------------------------------------------------
(* The server *)

(* The reply to a request that has left the wire.                          *)
LEMMA Replied ==
  ASSUME Inv, NEW r \in requests, NEW step \in {"ok", "failed"}, Reply(r, step),
         step = "ok" => r.of \in landed',
         landed \subseteq landed', UNCHANGED <<call, issued>>
  PROVE  InCall' /\ (pc \in [Clients -> {"idle", "try", "sent", "ok", "failed"}])'
  <1>1. r.by \in Clients /\ r.of \in Call
    BY DEF Inv, TypeOK, Request
  <1>2. pc \in [Clients -> {"idle", "try", "sent", "ok", "failed"}]
    BY DEF Inv, TypeOK
  <1>3. CASE ~Awaited(r)
    BY <1>2, <1>3 DEF Reply, Inv, InCall
  <1>4. CASE Awaited(r)
    <2>1. pc' = [pc EXCEPT ![r.by] = step] /\ call[r.by] = r.of /\ pc[r.by] = "sent"
      BY <1>4 DEF Reply, Awaited
    <2> QED BY <2>1, <1>1, <1>2, NoCallIsNone DEF Inv, InCall
  <1> QED BY <1>3, <1>4

(* A request that is refused, or never arrives, changes nothing but that   *)
(* it is gone.                                                             *)
LEMMA RefuseKeeps ==
  ASSUME Inv, NEW r \in requests, Refuse(r)
  PROVE  Inv'
  <1>1. InCall' /\ (pc \in [Clients -> {"idle", "try", "sent", "ok", "failed"}])'
    BY Replied DEF Refuse
  <1>2. TypeOK'
    BY <1>1 DEF Refuse, Inv, TypeOK
  <1>3. /\ Names' /\ OneKind' /\ Asked' /\ Published' /\ Forward' /\ OneWinner'
    BY DEF Refuse, Inv, Names, OneKind, Asked, Published, Forward, OneWinner
  <1> QED BY <1>1, <1>2, <1>3 DEF Inv

(* A swap that lands finds a value no other swap has replaced.             *)
LEMMA Fresh ==
  ASSUME Inv, NEW r \in requests, Unmoved(r), r.of.op = "swap",
         NEW j \in landed, j.op = "swap"
  PROVE  j.old # r.of.old /\ j # r.of /\ j.id < r.of.id
  <1>1. remote = r.of.old /\ r.of \in issued
    BY DEF Inv, Asked, Unmoved
  <1>2. r.of.old < r.of.id /\ j.old < j.id /\ j.id <= remote
    BY <1>1 DEF Inv, Names, Forward, TypeOK
  <1>3. j \in Call /\ r.of \in Call
    BY <1>1 DEF Inv, TypeOK
  <1> QED BY <1>1, <1>2, <1>3, CallTypes

(* The crux: a request that lands moves the ref from the value it carries, *)
(* a swap therefore once only, however late it is.                         *)
LEMMA LandKeeps ==
  ASSUME Inv, NEW r \in requests, Land(r)
  PROVE  Inv'
  <1> DEFINE k == r.of
  <1>1. /\ k \in issued /\ k \in Call /\ Unmoved(r)
        /\ remote' = IF k.op = "delete" THEN None ELSE k.id
        /\ landed' = landed \cup {k}
        /\ UNCHANGED <<call, tries, calls, issued, result>>
    BY DEF Land, Inv, TypeOK, Asked
  <1>2. InCall' /\ (pc \in [Clients -> {"idle", "try", "sent", "ok", "failed"}])'
    BY <1>1, Replied DEF Land
  <1>3. TypeOK'
    <2>1. remote' \in Ids \cup {None} /\ landed' \subseteq issued'
      BY <1>1, CallTypes DEF Inv, TypeOK
    <2> QED BY <2>1, <1>1, <1>2 DEF Land, Inv, TypeOK
  <1>4. Names' /\ OneKind'
    BY <1>1 DEF Inv, Names, OneKind
  <1>5. Asked'
    BY <1>1 DEF Land, Inv, Asked
  <1>6. Published'
    BY <1>1 DEF Published
  <1>7. Forward' /\ OneWinner'
    <2>1. CASE k.op = "swap"
      <3>1. \A j \in landed : j.op = "swap" => j.old # k.old /\ j.id < k.id
        BY <2>1, <1>1, Fresh
      <3>2. remote' = k.id /\ k.id \in Nat
        BY <2>1, <1>1, CallTypes
      <3>3. \A j \in landed : j.id \in Nat
        BY CallTypes DEF Inv, TypeOK
      <3>4. Forward'
        BY <3>1, <3>2, <3>3, <1>1 DEF Forward
      <3>5. OneWinner'
        BY <3>1, <1>1 DEF Inv, OneWinner
      <3> QED BY <3>4, <3>5
    <2>2. CASE k.op # "swap"
      <3>1. \A j \in landed' : j.op # "swap"
        BY <2>2, <1>1 DEF Inv, OneKind, TypeOK
      <3> QED BY <3>1 DEF Forward, OneWinner
    <2> QED BY <2>1, <2>2
  <1> QED BY <1>2, <1>3, <1>4, <1>5, <1>6, <1>7 DEF Inv

(* Every step of clients, server and network keeps the invariant.          *)
LEMMA NextKeeps ==
  ASSUME Inv, [Next]_vars
  PROVE  Inv'
  <1>1. CASE UNCHANGED vars
    BY <1>1 DEF vars, Inv, TypeOK, Names, OneKind, InCall, Asked, Published, Forward, OneWinner
  <1>2. ASSUME NEW c \in Clients, Invoke(c) \/ Step(c) \/ Crash(c) PROVE Inv'
    <2>1. CASE HangUp(c)
      <3>1. /\ requests' \subseteq Request /\ Asked'
            /\ tries' \in [Clients -> 0..MaxRetries]
            /\ result' \in [Clients -> [of : Call \cup {NoCall}, ok : BOOLEAN]]
            /\ call' = [call EXCEPT ![c] = call[c]]
        BY <2>1 DEF HangUp, Inv, TypeOK, Asked
      <3> QED BY <2>1, <3>1, Moves DEF HangUp
    <2>2. CASE Succeed(c)
      BY <2>2, AnswerKeeps DEF Succeed
    <2>3. CASE RateLimited(c)
      BY <2>3, AnswerKeeps, AgainKeeps DEF RateLimited
    <2>4. CASE Fail(c)
      BY <2>4, AnswerKeeps, AgainKeeps DEF Fail
    <2>5. CASE Crash(c)
      BY <2>5, AnswerKeeps DEF Crash
    <2> QED BY <1>2, <2>1, <2>2, <2>3, <2>4, <2>5, InvokeKeeps, SendKeeps DEF Step
  <1>3. ASSUME NEW r \in requests, Land(r) \/ Refuse(r) PROVE Inv'
    BY <1>3, LandKeeps, RefuseKeeps
  <1> QED BY <1>1, <1>2, <1>3 DEF Next

(* So it holds of every behaviour.                                         *)
LEMMA Invariant == Spec => []Inv
  BY Inits, NextKeeps, PTL DEF Spec

(* However often pushes are retried, lost or late: two swaps never both    *)
(* replace the same value of the log.                                      *)
THEOREM SwapsHaveOneWinner == Spec => []OneWinner
  <1>1. Inv => OneWinner
    BY DEF Inv
  <1> QED BY <1>1, Invariant, PTL

-----------------------------------------------------------------------------
(* The refinement *)

(* The abstract specification has the constants of this one.               *)
LEMMA SameNames ==
  /\ RS!None = None /\ RS!NoCall = NoCall /\ RS!NoResult = NoResult /\ RS!Call = Call
  BY DEF RS!None, None, RS!NoCall, NoCall, RS!NoResult, NoResult, RS!Call, Call

(* Every step is a step of the abstract specification or a stutter: a      *)
(* landing is the effect of its call, an answer its return, and sends,     *)
(* breaks and retries are invisible.                                       *)
LEMMA StepsRefine ==
  ASSUME Inv, [Next]_vars
  PROVE  [RS!Next]_(RS!vars)
  <1>1. CASE UNCHANGED vars
    BY <1>1 DEF vars, RS!vars
  <1>2. ASSUME NEW c \in Clients, Invoke(c) PROVE RS!Next
    <2>1. PICK op \in {"swap", "set", "delete"} :
            LET k == [id |-> calls + 1, op |-> op, old |-> IF op = "swap" THEN remote ELSE None]
            IN /\ call' = [call EXCEPT ![c] = k]
               /\ issued' = issued \cup {k}
      BY <1>2 DEF Invoke
    <2> DEFINE k == [id |-> calls + 1, op |-> op, old |-> IF op = "swap" THEN remote ELSE None]
    <2>2. calls \in Nat /\ calls + 1 \in Ids /\ remote \in Ids \cup {None}
      BY <1>2, Constants DEF Invoke, Inv, TypeOK, Ids
    <2>3. k \in Call
      BY <2>2 DEF Call
    <2>4. \A j \in issued : j.id # k.id
      BY <2>2, CallTypes DEF Inv, TypeOK, Names
    <2>5. call[c] = NoCall
      BY <1>2 DEF Invoke, Inv, InCall
    <2>6. result' = [result EXCEPT ![c] = NoResult] /\ UNCHANGED <<remote, landed>>
      BY <1>2 DEF Invoke
    <2>7. RS!Invoke(c)
      <3> HIDE DEF k
      <3> QED BY <2>1, <2>3, <2>4, <2>5, <2>6, SameNames DEF RS!Invoke, k
    <2> QED BY <2>7 DEF RS!Next
  <1>3. ASSUME NEW c \in Clients, NEW ok \in BOOLEAN, pc[c] # "idle", Answer(c, ok),
               ok => pc[c] = "ok"
        PROVE  RS!Next
    <2>1. call[c] # NoCall /\ (ok => call[c] \in landed)
      BY <1>3 DEF Inv, InCall
    <2>2. RS!Answer(c, ok)
      BY <1>3, <2>1, SameNames DEF Answer, RS!Answer
    <2> QED BY <2>2 DEF RS!Next
  <1>4. ASSUME NEW c \in Clients, Again(c) \/ Send(c) \/ HangUp(c) PROVE UNCHANGED RS!vars
    BY <1>4 DEF Again, Send, HangUp, RS!vars
  <1>5. ASSUME NEW c \in Clients, Step(c) \/ Crash(c) PROVE RS!Next \/ UNCHANGED RS!vars
    BY <1>3, <1>4, <1>5 DEF Step, Crash, Succeed, RateLimited, Fail
  <1>6. ASSUME NEW r \in requests, Refuse(r) PROVE UNCHANGED RS!vars
    BY <1>6 DEF Refuse, RS!vars
  <1>7. ASSUME NEW r \in requests, Land(r) PROVE RS!Next
    <2> DEFINE k == r.of
    <2>1. /\ k \in issued /\ k \in Call /\ Unmoved(r)
          /\ remote' = IF k.op = "delete" THEN None ELSE k.id
          /\ landed' = landed \cup {k}
          /\ UNCHANGED <<issued, call, result>>
      BY <1>7 DEF Land, Inv, TypeOK, Asked
    <2>2. CASE k.op = "swap"
      <3>1. remote = k.old
        BY <2>1, <2>2 DEF Inv, Asked, Unmoved
      <3>2. k \notin landed
        BY <2>1, <2>2, Fresh
      <3>3. RS!Effect(k)
        BY <2>1, <2>2, <3>1, <3>2 DEF RS!Effect
      <3> QED BY <2>1, <3>3 DEF RS!Next
    <2>3. CASE k.op = "set"
      <3>1. remote = None
        BY <2>1, <2>3 DEF Inv, Asked, Unmoved
      <3>2. RS!Effect(k)
        BY <2>1, <2>3, <3>1, SameNames DEF RS!Effect
      <3> QED BY <2>1, <3>2 DEF RS!Next
    <2>4. CASE k.op = "delete"
      <3>1. RS!Effect(k)
        BY <2>1, <2>4, SameNames DEF RS!Effect
      <3> QED BY <2>1, <3>1 DEF RS!Next
    <2> QED BY <2>1, <2>2, <2>3, <2>4, CallTypes
  <1> QED BY <1>1, <1>2, <1>5, <1>6, <1>7 DEF Next

(* What the engine builds on holds over the network, for any number of     *)
(* clients, calls and retries: a swap takes effect at most once and only   *)
(* on the value it expects, a set creates only, and success is never       *)
(* reported for what did not happen.                                       *)
THEOREM WireImplementsRefStore == Spec => ImplementsRefStore
  <1>1. Init => RS!Init
    BY SameNames DEF Init, RS!Init
  <1> QED BY <1>1, StepsRefine, Invariant, PTL DEF Spec, ImplementsRefStore, RS!Spec

(* Calls, requests and answers keep to their types.                        *)
THEOREM WireTypes == Spec => []TypeOK
  <1>1. Inv => TypeOK
    BY DEF Inv
  <1> QED BY <1>1, Invariant, PTL
=============================================================================
