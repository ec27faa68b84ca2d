------------------------------ MODULE SetupProofs ------------------------------
(***************************************************************************)
(* However many processes open a store that is new, with whichever         *)
(* keyfiles, a log never holds transactions sealed with two keys: a commit *)
(* is a swap on a tip whose whole log opened with the key that seals it.   *)
(* A configuration points at repositories that are there; and, unless      *)
(* first commands overlap, what was committed lies where it points, in     *)
(* chunks of the size that it pins.                                        *)
(***************************************************************************)
EXTENDS Setup, TLAPS

Places == {"local", "declared"}

(* What a process that is about to commit has read of its log: as long as  *)
(* the tip is the one it read, all of it opens with its key.               *)
Opened(p) ==
  pc[p] = "commit" =>
    LET j == job[p]
    IN /\ j.tip <= log[j.config.place].tip
       /\ j.tip = log[j.config.place].tip => Opens(j.key, j.config.place)

(* A process at work has the locals of its command.                        *)
Placed(p) == pc[p] # "idle" => job[p] \in Job

LogType == log \in [Places -> [tip : Nat, txns : SUBSET Txn]]

FileType ==
  /\ keyfile \in [Paths -> Key \cup {Absent, Empty}]
  /\ config \in Config \cup Garbled \cup {Absent, Empty}
  /\ pc \in [Processes -> Steps]
  /\ job \in [Processes -> Job \cup {NoJob}]
  /\ ops \in 0 .. MaxOps

Inv ==
  /\ LogType
  /\ FileType
  /\ \A p \in Processes : Placed(p) /\ Opened(p)
  /\ OneKey

-----------------------------------------------------------------------------
(* A new store has no transactions, so that nothing needs a key.           *)
LEMMA Inits == Init => Inv
  <1> SUFFICES ASSUME Init PROVE Inv
    OBVIOUS
  <1>1. LogType /\ OneKey
    BY DEF Init, LogType, OneKey, Places
  <1>2. FileType
    BY SetupAssumption DEF Init, FileType, Steps
  <1>3. \A p \in Processes : Placed(p) /\ Opened(p)
    BY DEF Init, Placed, Opened
  <1> QED BY <1>1, <1>2, <1>3 DEF Inv

(* What a command would write is a configuration.                          *)
LEMMA NewConfigs ==
  ASSUME NEW asked \in Asked, NEW place \in Places
  PROVE  NewConfig(asked, place) \in Config
  BY SetupAssumption DEF NewConfig, Config, Asked, Places

(* A step that leaves the log alone keeps what the other processes know,   *)
(* and the process that takes it may go anywhere but to the commit.        *)
LEMMA Moves ==
  ASSUME Inv, NEW p \in Processes, NEW step \in Steps \ {"commit"}, NEW j \in Job \cup {NoJob},
         step = "idle" \/ j \in Job, GoTo(p, step, j), UNCHANGED log,
         (keyfile \in [Paths -> Key \cup {Absent, Empty}])',
         (config \in Config \cup Garbled \cup {Absent, Empty})',
         (ops \in 0 .. MaxOps)'
  PROVE  Inv'
  <1>1. /\ pc' = [pc EXCEPT ![p] = step] /\ job' = [job EXCEPT ![p] = j]
        /\ pc \in [Processes -> Steps] /\ job \in [Processes -> Job \cup {NoJob}]
    BY DEF GoTo, Inv, FileType
  <1>2. LogType' /\ OneKey' /\ FileType'
    BY <1>1 DEF Inv, LogType, OneKey, FileType
  <1>3. ASSUME NEW q \in Processes PROVE Placed(q)' /\ Opened(q)'
    <2>1. CASE q = p
      BY <2>1, <1>1 DEF Placed, Opened
    <2>2. CASE q # p
      BY <2>2, <1>1 DEF Inv, Placed, Opened, Opens
    <2> QED BY <2>1, <2>2
  <1> QED BY <1>2, <1>3 DEF Inv

(* The types that Inv gives a process at work.                             *)
LEMMA AtWork ==
  ASSUME Inv, NEW p \in Processes, pc[p] # "idle"
  PROVE  /\ job[p] \in Job
         /\ job[p].path \in Paths /\ job[p].key \in Key /\ job[p].config \in Config
         /\ job[p].config.place \in Places
  <1>1. job[p] \in Job
    BY DEF Inv, Placed
  <1> QED BY <1>1 DEF Job, Config, Places

(* A command that ends and changes no log keeps the invariant.             *)
LEMMA Ends ==
  ASSUME Inv, NEW p \in Processes, Finish(p), UNCHANGED log,
         (keyfile \in [Paths -> Key \cup {Absent, Empty}])',
         (config \in Config \cup Garbled \cup {Absent, Empty})',
         (ops \in 0 .. MaxOps)'
  PROVE  Inv'
  BY Moves DEF Finish, Steps

(* A command that begins has read no log yet.                              *)
LEMMA BeginKeeps ==
  ASSUME Inv, NEW p \in Processes, Begin(p)
  PROVE  Inv'
  <1>1. PICK cmd \in {"init", "put"}, path \in Paths, asked \in Asked :
          GoTo(p, IF cmd = "init" THEN "provision" ELSE "key.look",
               [cmd |-> cmd, path |-> path, asked |-> asked,
                new |-> cmd = "init" \/ config = Absent, key |-> [key |-> ops'],
                config |-> NewConfig(asked, IF cmd = "init" THEN "declared" ELSE "local"),
                at |-> 1, tip |-> 0])
    BY DEF Begin
  <1>2. ops' \in 1 .. MaxOps /\ UNCHANGED <<keyfile, config, log>>
    BY SetupAssumption DEF Begin, Inv, FileType
  <1>3. [key |-> ops'] \in Key
    BY <1>2 DEF Key
  <1>4. NewConfig(asked, IF cmd = "init" THEN "declared" ELSE "local") \in Config
    BY NewConfigs DEF Places
  <1> DEFINE step == IF cmd = "init" THEN "provision" ELSE "key.look"
             j == [cmd |-> cmd, path |-> path, asked |-> asked,
                   new |-> cmd = "init" \/ config = Absent, key |-> [key |-> ops'],
                   config |-> NewConfig(asked, IF cmd = "init" THEN "declared" ELSE "local"),
                   at |-> 1, tip |-> 0]
  <1>5. (cmd = "init" \/ config = Absent) \in BOOLEAN
    OBVIOUS
  <1>6. j \in Job
    BY <1>3, <1>4, <1>5 DEF Job
  <1>7. step \in Steps \ {"commit"}
    BY DEF Steps
  <1>8. GoTo(p, step, j)
    BY <1>1
  <1>9. /\ (keyfile \in [Paths -> Key \cup {Absent, Empty}])'
        /\ (config \in Config \cup Garbled \cup {Absent, Empty})'
        /\ (ops \in 0 .. MaxOps)'
    BY <1>2 DEF Inv, FileType
  <1> HIDE DEF step, j
  <1> QED BY <1>2, <1>6, <1>7, <1>8, <1>9, Moves

-----------------------------------------------------------------------------
(* init *)

(* Steps that write no file keep the types of the files.                   *)
LEMMA FilesKept ==
  ASSUME Inv, UNCHANGED <<keyfile, config, ops>>
  PROVE  /\ (keyfile \in [Paths -> Key \cup {Absent, Empty}])'
         /\ (config \in Config \cup Garbled \cup {Absent, Empty})'
         /\ (ops \in 0 .. MaxOps)'
  BY DEF Inv, FileType

(* Going on to the next declared repository keeps the locals' type.        *)
LEMMA NextRepo ==
  ASSUME Inv, NEW p \in Processes, pc[p] # "idle"
  PROVE  [job[p] EXCEPT !.at = @ + 1] \in Job
  BY AtWork DEF Job

(* Provisioning, one repository: no log and no key changes.                *)
LEMMA ProvisionKeeps ==
  ASSUME Inv, NEW p \in Processes, Provision(p)
  PROVE  Inv'
  <1>1. job[p] \in Job /\ UNCHANGED <<keyfile, config, ops, log>>
    BY AtWork DEF Provision
  <1>2. GoTo(p, "config.refuse", job[p]) \/ ProvisionNext(p)
          \/ GoTo(p, "create", job[p]) \/ Finish(p)
    BY DEF Provision, EnsureRepo
  <1>3. {"config.refuse", "create", "provision"} \subseteq Steps \ {"commit"}
    BY DEF Steps
  <1>4. CASE GoTo(p, "config.refuse", job[p])
    BY <1>1, <1>3, <1>4, Moves, FilesKept
  <1>5. CASE GoTo(p, "create", job[p])
    BY <1>1, <1>3, <1>5, Moves, FilesKept
  <1>6. CASE ProvisionNext(p)
    <2>1. [job[p] EXCEPT !.at = @ + 1] \in Job
      BY NextRepo DEF Provision
    <2> QED BY <2>1, <1>1, <1>3, <1>6, Moves, FilesKept DEF ProvisionNext
  <1>7. CASE Finish(p)
    BY <1>1, <1>7, Ends, FilesKept
  <1> QED BY <1>2, <1>4, <1>5, <1>6, <1>7

(* The creation of a hosted repository, whatever becomes of its answer.    *)
LEMMA CreateKeeps ==
  ASSUME Inv, NEW p \in Processes, Create(p)
  PROVE  Inv'
  <1>1. UNCHANGED <<keyfile, config, ops, log>> /\ (ProvisionNext(p) \/ Finish(p))
    BY DEF Create
  <1>2. CASE ProvisionNext(p)
    <2>1. [job[p] EXCEPT !.at = @ + 1] \in Job
      BY NextRepo DEF Create
    <2>2. "provision" \in Steps \ {"commit"}
      BY DEF Steps
    <2> QED BY <2>1, <2>2, <1>1, <1>2, Moves, FilesKept DEF ProvisionNext
  <1>3. CASE Finish(p)
    BY <1>1, <1>3, Ends, FilesKept
  <1> QED BY <1>1, <1>2, <1>3

(* The check of init for an earlier configuration.                         *)
LEMMA InitConfigKeeps ==
  ASSUME Inv, NEW p \in Processes, InitConfig(p)
  PROVE  Inv'
  <1>1. UNCHANGED <<keyfile, config, ops, log>> /\ job[p] \in Job
    BY AtWork DEF InitConfig
  <1>2. CASE config = Absent
    <2>1. "config.open" \in Steps \ {"commit"} /\ GoTo(p, "config.open", job[p])
      BY <1>2 DEF Steps, InitConfig
    <2> QED BY <2>1, <1>1, Moves, FilesKept
  <1>3. CASE config # Absent
    <2>1. Finish(p)
      BY <1>3 DEF InitConfig
    <2> QED BY <2>1, <1>1, Ends, FilesKept
  <1> QED BY <1>2, <1>3

-----------------------------------------------------------------------------
(* The files. *)

(* A process that has its key goes on to the configuration, or ends where  *)
(* it is an init; either way it has not read its log.                      *)
LEMMA HavingKey ==
  ASSUME Inv, NEW p \in Processes, NEW j \in Job, HaveKey(p, j), UNCHANGED <<config, ops, log>>,
         (keyfile \in [Paths -> Key \cup {Absent, Empty}])'
  PROVE  Inv'
  <1>1. (config \in Config \cup Garbled \cup {Absent, Empty})' /\ (ops \in 0 .. MaxOps)'
    BY DEF Inv, FileType
  <1>2. CASE j.cmd = "init"
    BY <1>1, <1>2, Ends DEF HaveKey
  <1>3. CASE j.cmd # "init"
    <2>1. "config.look" \in Steps \ {"commit"}
      BY DEF Steps
    <2> QED BY <2>1, <1>1, <1>3, Moves DEF HaveKey
  <1> QED BY <1>2, <1>3

(* Looking for the keyfile: taken as it is, to be created, or refused.     *)
LEMMA KeyLookKeeps ==
  ASSUME Inv, NEW p \in Processes, KeyLook(p)
  PROVE  Inv'
  <1>1. /\ UNCHANGED <<keyfile, config, ops, log>> /\ job[p] \in Job
    BY AtWork DEF KeyLook
  <1>2. CASE /\ keyfile[job[p].path] \in Key
             /\ HaveKey(p, [job[p] EXCEPT !.key = keyfile[job[p].path]])
    <2>1. [job[p] EXCEPT !.key = keyfile[job[p].path]] \in Job
      BY <1>1, <1>2 DEF Job
    <2> QED BY <2>1, <1>1, <1>2, HavingKey, FilesKept
  <1>3. CASE GoTo(p, "key.open", job[p])
    <2>1. "key.open" \in Steps \ {"commit"}
      BY DEF Steps
    <2> QED BY <2>1, <1>1, <1>3, Moves, FilesKept
  <1>4. CASE Finish(p)
    BY <1>1, <1>4, Ends, FilesKept
  <1> QED BY <1>2, <1>3, <1>4 DEF KeyLook

(* The keyfile is truncated: it has no key for a while.                    *)
LEMMA KeyOpenKeeps ==
  ASSUME Inv, NEW p \in Processes, KeyOpen(p)
  PROVE  Inv'
  <1>1. /\ UNCHANGED <<config, ops, log>> /\ job[p] \in Job
        /\ "key.write" \in Steps \ {"commit"} /\ GoTo(p, "key.write", job[p])
    BY AtWork DEF KeyOpen, Steps
  <1>2. (keyfile \in [Paths -> Key \cup {Absent, Empty}])'
    BY AtWork DEF KeyOpen, Inv, FileType
  <1>3. (config \in Config \cup Garbled \cup {Absent, Empty})' /\ (ops \in 0 .. MaxOps)'
    BY <1>1 DEF Inv, FileType
  <1> QED BY <1>1, <1>2, <1>3, Moves

(* The keyfile is filled with the key of the process, a key.               *)
LEMMA KeyWriteKeeps ==
  ASSUME Inv, NEW p \in Processes, KeyWrite(p)
  PROVE  Inv'
  <1>1. UNCHANGED <<config, ops, log>> /\ job[p] \in Job /\ HaveKey(p, job[p])
    BY AtWork DEF KeyWrite
  <1>2. (keyfile \in [Paths -> Key \cup {Absent, Empty}])'
    BY AtWork DEF KeyWrite, Inv, FileType
  <1> QED BY <1>1, <1>2, HavingKey

(* Looking for the configuration: the process takes what is pinned, or is  *)
(* refused, or is to write its own.                                        *)
LEMMA ConfigLookKeeps ==
  ASSUME Inv, NEW p \in Processes, ConfigLook(p)
  PROVE  Inv'
  <1>1. UNCHANGED <<keyfile, config, ops, log>> /\ job[p] \in Job
    BY AtWork DEF ConfigLook
  <1>2. CASE config \in Config /\ GoTo(p, "load", [job[p] EXCEPT !.config = config])
    <2>1. [job[p] EXCEPT !.config = config] \in Job /\ "load" \in Steps \ {"commit"}
      BY <1>1, <1>2 DEF Job, Steps
    <2> QED BY <2>1, <1>1, <1>2, Moves, FilesKept
  <1>3. CASE GoTo(p, "config.open", job[p])
    <2>1. "config.open" \in Steps \ {"commit"}
      BY DEF Steps
    <2> QED BY <2>1, <1>1, <1>3, Moves, FilesKept
  <1>4. CASE Finish(p)
    BY <1>1, <1>4, Ends, FilesKept
  <1> QED BY <1>2, <1>3, <1>4 DEF ConfigLook, Pinned

(* The configuration is truncated.                                         *)
LEMMA ConfigOpenKeeps ==
  ASSUME Inv, NEW p \in Processes, ConfigOpen(p)
  PROVE  Inv'
  <1>1. /\ UNCHANGED <<keyfile, ops, log>> /\ job[p] \in Job /\ config' = Empty
        /\ "config.write" \in Steps \ {"commit"} /\ GoTo(p, "config.write", job[p])
    BY AtWork DEF ConfigOpen, Steps
  <1>2. /\ (keyfile \in [Paths -> Key \cup {Absent, Empty}])' /\ (ops \in 0 .. MaxOps)'
        /\ (config \in Config \cup Garbled \cup {Absent, Empty})'
    BY <1>1 DEF Inv, FileType
  <1> QED BY <1>1, <1>2, Moves

(* The marks for a file that is absent, empty or garbled are no            *)
(* configurations, and differ.                                             *)
LEMMA NoConfig ==
  /\ \A text \in Garbled \cup {Absent, Empty} : text \notin Config
  /\ Absent # Empty /\ Absent \notin Garbled /\ Empty \notin Garbled
  BY DEF Absent, Empty, Garbled, Config

(* What is written is there, or the rest of a longer text garbles it;      *)
(* nothing does in an empty file.                                          *)
LEMMA OverlaidIs ==
  ASSUME config \in Config \cup Garbled \cup {Absent, Empty}, NEW new \in Config
  PROVE  /\ Overlaid(new) = new \/ Overlaid(new) \in Garbled
         /\ config = Empty => Overlaid(new) = new
  <1>1. LengthOf(config) \in Nat /\ Length[new] \in Nat
    BY SetupAssumption DEF LengthOf, Garbled
  <1>2. config = Empty => LengthOf(config) = 0
    BY NoConfig DEF LengthOf
  <1> QED BY <1>1, <1>2 DEF Overlaid, Garbled

(* The configuration is filled; what an overlapping, longer text leaves of *)
(* it is garbled at worst.                                                 *)
LEMMA ConfigWriteKeeps ==
  ASSUME Inv, NEW p \in Processes, ConfigWrite(p)
  PROVE  Inv'
  <1>1. /\ UNCHANGED <<keyfile, ops, log>> /\ job[p] \in Job /\ job[p].config \in Config
        /\ config' = Overlaid(job[p].config)
        /\ GoTo(p, IF job[p].cmd = "init" THEN "key.look" ELSE "load", job[p])
    BY AtWork DEF ConfigWrite
  <1>2. (IF job[p].cmd = "init" THEN "key.look" ELSE "load") \in Steps \ {"commit"}
    BY DEF Steps
  <1>3. Overlaid(job[p].config) \in Config \cup Garbled \cup {Absent, Empty}
    BY <1>1, OverlaidIs DEF Inv, FileType
  <1>4. /\ (keyfile \in [Paths -> Key \cup {Absent, Empty}])' /\ (ops \in 0 .. MaxOps)'
        /\ (config \in Config \cup Garbled \cup {Absent, Empty})'
    BY <1>1, <1>3 DEF Inv, FileType
  <1> QED BY <1>1, <1>2, <1>4, Moves

-----------------------------------------------------------------------------
(* The commit. *)

(* A load that succeeds has opened every transaction of the log at the tip *)
(* it remembers: this establishes Opened.                                  *)
LEMMA LoadKeeps ==
  ASSUME Inv, NEW p \in Processes, Load(p)
  PROVE  Inv'
  <1> DEFINE place == job[p].config.place
             j == [job[p] EXCEPT !.tip = log[place].tip]
  <1>1. /\ UNCHANGED <<keyfile, config, ops, log>> /\ job[p] \in Job /\ place \in Places
        /\ log[place].tip \in Nat
    BY AtWork DEF Load, Inv, LogType
  <1>2. CASE Opens(job[p].key, place)
    <2>1. /\ pc' = [pc EXCEPT ![p] = "commit"] /\ job' = [job EXCEPT ![p] = j]
          /\ pc \in [Processes -> Steps] /\ job \in [Processes -> Job \cup {NoJob}]
      BY <1>2 DEF Load, GoTo, Inv, FileType
    <2>2. j \in Job /\ j.tip = log[place].tip /\ j.key = job[p].key /\ j.config = job[p].config
      BY <1>1 DEF Job
    <2>3. LogType' /\ OneKey' /\ FileType'
      <3>1. "commit" \in Steps
        BY DEF Steps
      <3> QED BY <2>1, <2>2, <3>1, <1>1 DEF Inv, LogType, OneKey, FileType
    <2>4. Placed(p)' /\ Opened(p)'
      BY <2>1, <2>2, <1>1, <1>2 DEF Placed, Opened, Opens
    <2>5. ASSUME NEW q \in Processes, q # p PROVE Placed(q)' /\ Opened(q)'
      BY <2>1, <2>5, <1>1 DEF Inv, Placed, Opened, Opens
    <2> QED BY <2>3, <2>4, <2>5 DEF Inv
  <1>3. CASE ~Opens(job[p].key, place)
    BY <1>1, <1>3, Ends, FilesKept DEF Load
  <1> QED BY <1>2, <1>3

(* The crux: the swap takes effect on the remembered tip only, whose       *)
(* transactions all open with the key of the one that is added.            *)
LEMMA CommitKeeps ==
  ASSUME Inv, NEW p \in Processes, Commit(p)
  PROVE  Inv'
  <1> DEFINE j == job[p]
             place == j.config.place
             l == log[place]
             txn == [key |-> j.key, avg |-> j.config.avg]
  <1>1. /\ UNCHANGED <<keyfile, config, ops>> /\ j \in Job /\ place \in Places
        /\ l.tip \in Nat /\ l.txns \in SUBSET Txn /\ txn \in Txn
        /\ log \in [Places -> [tip : Nat, txns : SUBSET Txn]]
    BY AtWork DEF Commit, Inv, LogType, Txn, Config
  <1>2. CASE l.tip # j.tip
    <2>1. GoTo(p, "load", j) /\ UNCHANGED log /\ "load" \in Steps \ {"commit"}
      BY <1>2 DEF Commit, Steps
    <2> QED BY <2>1, <1>1, Moves, FilesKept
  <1>3. CASE l.tip = j.tip
    <2>1. /\ log' = [log EXCEPT ![place] = [tip |-> l.tip + 1, txns |-> l.txns \cup {txn}]]
          /\ pc' = [pc EXCEPT ![p] = "idle"] /\ job' = [job EXCEPT ![p] = NoJob]
          /\ pc \in [Processes -> Steps] /\ job \in [Processes -> Job \cup {NoJob}]
      BY <1>3 DEF Commit, Finish, GoTo, Inv, FileType
    <2>2. \A t \in l.txns : t.key = j.key
      BY <1>3 DEF Commit, Inv, Opened, Opens
    <2>3. LogType'
      BY <2>1, <1>1 DEF LogType
    <2>4. FileType'
      BY <2>1, <1>1 DEF Inv, FileType, Steps
    <2>5. OneKey'
      <3>1. \A t \in log'[place].txns : t.key = j.key
        BY <2>1, <2>2, <1>1
      <3>2. \A q \in Places \ {place} : log'[q] = log[q]
        BY <2>1, <1>1
      <3>3. DOMAIN log' = Places /\ DOMAIN log = Places
        BY <2>1, <1>1
      <3> QED BY <3>1, <3>2, <3>3 DEF Inv, OneKey
    <2>6. Placed(p)' /\ Opened(p)'
      BY <2>1 DEF Placed, Opened
    <2>7. ASSUME NEW q \in Processes, q # p PROVE Placed(q)' /\ Opened(q)'
      <3>1. pc'[q] = pc[q] /\ job'[q] = job[q]
        BY <2>1, <2>7
      <3>2. Placed(q)'
        BY <3>1 DEF Inv, Placed
      <3>3. CASE pc[q] = "commit"
        <4> DEFINE other == job[q].config.place
        <4>1. job[q].tip \in Nat /\ other \in Places /\ job[q].tip <= log[other].tip
          BY <3>3, AtWork DEF Inv, Opened, Job
        <4>2. CASE other = place
          <5>1. log'[other].tip = l.tip + 1
            BY <4>2, <2>1, <1>1
          <5>2. job[q].tip <= log'[other].tip /\ job[q].tip # log'[other].tip
            BY <5>1, <4>1, <4>2, <1>1
          <5> QED BY <5>2, <3>1, <3>2, <3>3 DEF Opened
        <4>3. CASE other # place
          <5>1. log'[other] = log[other]
            BY <4>1, <4>3, <2>1, <1>1
          <5> QED BY <5>1, <3>1, <3>2, <3>3 DEF Inv, Opened, Opens
        <4> QED BY <4>2, <4>3
      <3>4. CASE pc[q] # "commit"
        BY <3>1, <3>2, <3>4 DEF Opened
      <3> QED BY <3>3, <3>4
    <2> QED BY <2>3, <2>4, <2>5, <2>6, <2>7 DEF Inv
  <1> QED BY <1>2, <1>3

(* Every step of every process keeps the invariant.                        *)
LEMMA NextKeeps ==
  ASSUME Inv, [Next]_vars
  PROVE  Inv'
  <1>1. CASE UNCHANGED vars
    BY <1>1
      DEF vars, Inv, LogType, FileType, Placed, Opened, Opens, OneKey
  <1>2. ASSUME NEW p \in Processes, Step(p) PROVE Inv'
    <2>1. CASE Crash(p)
      BY <2>1, Ends, FilesKept DEF Crash
    <2> QED BY <1>2, <2>1, BeginKeeps, ProvisionKeeps, CreateKeeps, InitConfigKeeps,
               KeyLookKeeps, KeyOpenKeeps, KeyWriteKeeps, ConfigLookKeeps, ConfigOpenKeeps,
               ConfigWriteKeeps, LoadKeeps, CommitKeeps DEF Step
  <1> QED BY <1>1, <1>2 DEF Next

(* Whatever races at its creation, with whichever keyfiles: a log never    *)
(* mixes keys, so a reader that opens one transaction opens them all.      *)
THEOREM OneKeyAlways == Spec => []OneKey
  <1>1. Inv => OneKey
    BY DEF Inv
  <1> QED BY <1>1, Inits, NextKeeps, PTL DEF Spec

-----------------------------------------------------------------------------
(* The declared repositories.                                              *)

(* A declared repository is what a store needs: on a host it was created   *)
(* or looked empty, a local one is there.                                  *)
Ready(u) ==
  CASE Scheme[u] = "https" -> repo[u] \in {"empty", "unreported"}
    [] Scheme[u] = "file" -> repo[u] # "absent"
    [] OTHER -> TRUE

AllReady == \A u \in Repos : Ready(u)

(* An init has readied the repositories behind it, and all of them before  *)
(* it writes a configuration.  A put makes no declared configuration.      *)
Readied(p) ==
  /\ pc[p] \in {"provision", "create"} =>
       job[p].at \in Nat \ {0} /\ \A u \in Repos : u < job[p].at => Ready(u)
  /\ pc[p] = "create" => Scheme[job[p].at] = "https" /\ job[p].at \in Repos
  /\ pc[p] = "config.refuse" => AllReady
  /\ pc[p] \in {"config.open", "config.write"} /\ job[p].config.place = "declared" => AllReady
  /\ pc[p] \in {"key.look", "key.open", "key.write", "config.look"} /\ job[p].cmd = "put"
       => job[p].config.place = "local"
  /\ pc[p] = "config.look" => job[p].cmd = "put"
  /\ pc[p] \in {"provision", "create", "config.refuse"} => job[p].cmd = "init"

RepoInv ==
  /\ Inv
  /\ repo \in [Repos -> RepoState]
  /\ overlap \in BOOLEAN
  /\ \A p \in Processes : Readied(p)
  /\ DeclaredAreProvisioned

(* What is ready stays ready: nothing un-creates a repository.             *)
LEMMA ReadyStays ==
  ASSUME RepoInv, NEW p \in Processes, Step(p)
  PROVE  /\ repo' \in [Repos -> RepoState]
         /\ \A u \in Repos : Ready(u) => Ready(u)'
  <1>1. CASE repo' = repo
    BY <1>1 DEF RepoInv, Ready
  <1>2. ASSUME NEW u \in Repos, repo' = [repo EXCEPT ![u] = IF @ = "absent" THEN "empty" ELSE @]
        PROVE  /\ repo' \in [Repos -> RepoState]
               /\ \A w \in Repos : Ready(w) => Ready(w)'
    BY <1>2 DEF RepoInv, Ready, RepoState
  <1>3. repo' = repo \/ \E u \in Repos : repo' = [repo EXCEPT ![u] = IF @ = "absent" THEN "empty" ELSE @]
    <2>1. CASE Provision(p)
      <3>1. job[p].at \in Nat \ {0}
        BY <2>1 DEF Provision, RepoInv, Readied
      <3>2. \/ repo' = repo
            \/ /\ job[p].at <= NumRepos
               /\ repo' = [repo EXCEPT ![job[p].at] = IF @ = "absent" THEN "empty" ELSE @]
        BY <2>1 DEF Provision
      <3> QED BY <3>1, <3>2, SetupAssumption DEF Repos
    <2>2. CASE Create(p)
      <3>1. job[p].at \in Repos
        BY <2>2 DEF Create, RepoInv, Readied
      <3> QED BY <2>2, <3>1 DEF Create
    <2> QED BY <2>1, <2>2 DEF Step, Begin, InitConfig, KeyLook, KeyOpen, KeyWrite, ConfigLook,
               ConfigOpen, ConfigWrite, Load, Commit, Crash
  <1> QED BY <1>1, <1>2, <1>3

(* A step of p leaves the other processes where they are.                  *)
LEMMA OthersStay ==
  ASSUME Inv, NEW p \in Processes, Step(p), NEW q \in Processes, q # p
  PROVE  pc'[q] = pc[q] /\ job'[q] = job[q]
  <1>1. pc \in [Processes -> Steps] /\ job \in [Processes -> Job \cup {NoJob}]
    BY DEF Inv, FileType
  <1>2. \E step, j : GoTo(p, step, j)
    BY DEF Step, Begin, Provision, Create, InitConfig, KeyLook, KeyOpen, KeyWrite, ConfigLook,
           ConfigOpen, ConfigWrite, Load, Commit, Crash, Finish, HaveKey, ProvisionNext, EnsureRepo
  <1> QED BY <1>1, <1>2 DEF GoTo

(* Where a step of p takes it.                                             *)
LEMMA ItGoes ==
  ASSUME Inv, NEW p \in Processes, NEW step, NEW j, GoTo(p, step, j)
  PROVE  pc'[p] = step /\ job'[p] = j
  BY DEF GoTo, Inv, FileType

(* A process that goes past a declared repository leaves it ready, by its  *)
(* own probe, creation or choice of scheme.                                *)
LEMMA ReadiedSteps ==
  ASSUME RepoInv, NEW p \in Processes, Step(p)
  PROVE  Readied(p)'
  <1>1. Inv /\ \A u \in Repos : Ready(u) => Ready(u)'
    BY ReadyStays DEF RepoInv
  <1>2. AllReady => AllReady'
    BY <1>1 DEF AllReady
  <1>3. ASSUME Finish(p) PROVE Readied(p)'
    <2>1. pc'[p] = "idle"
      BY <1>1, <1>3, ItGoes DEF Finish
    <2> QED BY <2>1 DEF Readied
  <1>4. CASE Begin(p)
    <2>1. PICK cmd \in {"init", "put"}, path \in Paths, asked \in Asked :
            GoTo(p, IF cmd = "init" THEN "provision" ELSE "key.look",
                 [cmd |-> cmd, path |-> path, asked |-> asked,
                  new |-> cmd = "init" \/ config = Absent, key |-> [key |-> ops'],
                  config |-> NewConfig(asked, IF cmd = "init" THEN "declared" ELSE "local"),
                  at |-> 1, tip |-> 0])
      BY <1>4 DEF Begin
    <2>2. /\ pc'[p] = IF cmd = "init" THEN "provision" ELSE "key.look"
          /\ job'[p].cmd = cmd /\ job'[p].at = 1
          /\ job'[p].config = NewConfig(asked, IF cmd = "init" THEN "declared" ELSE "local")
      BY <1>1, <2>1, ItGoes
    <2>3. CASE cmd = "init"
      <3>1. \A u \in Repos : ~(u < 1)
        BY SetupAssumption DEF Repos
      <3> QED BY <2>2, <2>3, <3>1 DEF Readied
    <2>4. CASE cmd = "put"
      <3>1. job'[p].config.place = "local"
        BY <2>2, <2>4 DEF NewConfig
      <3> QED BY <2>2, <2>4, <3>1 DEF Readied
    <2> QED BY <2>3, <2>4
  <1>5. ASSUME ProvisionNext(p), pc[p] \in {"provision", "create"},
               NEW u \in Repos, u = job[p].at, Ready(u)'
        PROVE  Readied(p)'
    <2>1. job[p] \in Job /\ job[p].at \in Nat \ {0} /\ job[p].cmd = "init"
      BY <1>1, <1>5, AtWork DEF RepoInv, Readied
    <2>2. pc'[p] = "provision" /\ job'[p].at = job[p].at + 1 /\ job'[p].cmd = "init"
      BY <1>1, <1>5, <2>1, ItGoes DEF ProvisionNext, Job
    <2>3. \A w \in Repos : w < u + 1 => w = u \/ w < u
      BY SetupAssumption DEF Repos
    <2>4. \A w \in Repos : w < u + 1 => Ready(w)'
      BY <1>1, <1>5, <2>3 DEF RepoInv, Readied
    <2>5. job'[p].at \in Nat \ {0} /\ job'[p].at = u + 1
      BY <1>5, <2>1, <2>2
    <2> QED BY <2>2, <2>4, <2>5 DEF Readied
  <1>6. CASE Provision(p)
    <2>0. PICK u : u = job[p].at
      OBVIOUS
    <2>1. u \in Nat \ {0} /\ job[p].cmd = "init" /\ \A w \in Repos : w < u => Ready(w)
      BY <1>6, <2>0 DEF Provision, RepoInv, Readied
    <2>2. CASE u > NumRepos
      <3>1. AllReady
        BY <2>1, <2>2, SetupAssumption DEF AllReady, Repos
      <3>2. pc'[p] = "config.refuse" /\ job'[p] = job[p]
        BY <1>1, <1>6, <2>0, <2>1, <2>2, SetupAssumption, ItGoes DEF Provision
      <3> QED BY <1>2, <2>1, <3>1, <3>2 DEF Readied
    <2>3. CASE u <= NumRepos
      <3>1. u \in Repos
        BY <2>1, <2>3, SetupAssumption DEF Repos
      <3>2. \/ Scheme[u] = "https" /\ EnsureRepo(p, u) /\ UNCHANGED repo
            \/ /\ Scheme[u] = "file" /\ ProvisionNext(p)
               /\ repo' = [repo EXCEPT ![u] = IF @ = "absent" THEN "empty" ELSE @]
            \/ Scheme[u] = "ssh" /\ ProvisionNext(p)
        BY <1>6, <2>0, <2>1, <2>3, SetupAssumption DEF Provision
      <3>3. CASE Scheme[u] = "https" /\ repo[u] = "absent" /\ GoTo(p, "create", job[p])
        <4>1. pc'[p] = "create" /\ job'[p] = job[p]
          BY <1>1, <3>3, ItGoes
        <4> QED BY <1>1, <2>0, <2>1, <3>1, <3>3, <4>1 DEF Readied
      <3>4. CASE /\ Scheme[u] = "https" /\ repo[u] \in {"empty", "unreported"}
                 /\ repo' = repo /\ ProvisionNext(p)
        <4>1. Ready(u)'
          BY <3>4 DEF Ready
        <4> QED BY <1>5, <1>6, <2>0, <3>1, <3>4, <4>1 DEF Provision
      <3>5. CASE /\ Scheme[u] = "file" /\ ProvisionNext(p)
                 /\ repo' = [repo EXCEPT ![u] = IF @ = "absent" THEN "empty" ELSE @]
        <4>1. Ready(u)'
          BY <3>1, <3>5 DEF Ready, RepoInv
        <4> QED BY <1>5, <1>6, <2>0, <3>1, <3>5, <4>1 DEF Provision
      <3>6. CASE Scheme[u] = "ssh" /\ ProvisionNext(p)
        <4>1. Ready(u)'
          BY <3>6 DEF Ready
        <4> QED BY <1>5, <1>6, <2>0, <3>1, <3>6, <4>1 DEF Provision
      <3> QED BY <1>3, <3>2, <3>3, <3>4, <3>5, <3>6 DEF EnsureRepo
    <2> QED BY <2>1, <2>2, <2>3, SetupAssumption
  <1>7. CASE Create(p)
    <2>1. PICK u \in Repos : u = job[p].at /\ Scheme[u] = "https"
      BY <1>7 DEF Create, RepoInv, Readied
    <2>2. CASE /\ repo' = [repo EXCEPT ![u] = "empty"] /\ ProvisionNext(p)
      <3>1. Ready(u)'
        BY <2>1, <2>2 DEF Ready, RepoInv
      <3> QED BY <1>5, <1>7, <2>1, <2>2, <3>1 DEF Create
    <2> QED BY <1>3, <1>7, <2>1, <2>2 DEF Create
  <1>8. CASE InitConfig(p)
    <2>1. CASE config = Absent
      <3>1. pc'[p] = "config.open" /\ job'[p] = job[p]
        BY <1>1, <1>8, <2>1, ItGoes DEF InitConfig
      <3> QED BY <1>2, <1>8, <3>1 DEF InitConfig, RepoInv, Readied
    <2> QED BY <1>3, <1>8, <2>1 DEF InitConfig
  <1>9. ASSUME NEW j \in Job, HaveKey(p, j), pc[p] \in {"key.look", "key.write"},
               j.cmd = job[p].cmd, j.config = job[p].config
        PROVE  Readied(p)'
    <2>1. CASE j.cmd # "init"
      <3>1. pc'[p] = "config.look" /\ job'[p] = j /\ j.cmd = "put"
        BY <1>1, <1>9, <2>1, ItGoes DEF HaveKey, Job
      <3> QED BY <1>9, <3>1 DEF RepoInv, Readied
    <2> QED BY <1>3, <1>9, <2>1 DEF HaveKey
  <1>10. CASE KeyLook(p)
    <2>1. job[p] \in Job
      BY <1>1, <1>10, AtWork DEF KeyLook
    <2>2. CASE /\ keyfile[job[p].path] \in Key
               /\ HaveKey(p, [job[p] EXCEPT !.key = keyfile[job[p].path]])
      <3> DEFINE j == [job[p] EXCEPT !.key = keyfile[job[p].path]]
      <3>1. j \in Job /\ j.cmd = job[p].cmd /\ j.config = job[p].config
        BY <2>1, <2>2 DEF Job
      <3>2. pc[p] \in {"key.look", "key.write"} /\ HaveKey(p, j)
        BY <1>10, <2>2 DEF KeyLook
      <3> HIDE DEF j
      <3> QED BY <1>9, <3>1, <3>2
    <2>3. CASE GoTo(p, "key.open", job[p])
      <3>1. pc'[p] = "key.open" /\ job'[p] = job[p]
        BY <1>1, <2>3, ItGoes
      <3> QED BY <1>10, <3>1 DEF KeyLook, RepoInv, Readied
    <2> QED BY <1>3, <1>10, <2>2, <2>3 DEF KeyLook
  <1>11. CASE KeyOpen(p)
    <2>1. pc'[p] = "key.write" /\ job'[p] = job[p]
      BY <1>1, <1>11, ItGoes DEF KeyOpen
    <2> QED BY <1>11, <2>1 DEF KeyOpen, RepoInv, Readied
  <1>12. CASE KeyWrite(p)
    <2>1. job[p] \in Job
      BY <1>1, <1>12, AtWork DEF KeyWrite
    <2> QED BY <1>9, <1>12, <2>1 DEF KeyWrite
  <1>13. CASE ConfigLook(p)
    <2>1. job[p] \in Job
      BY <1>1, <1>13, AtWork DEF ConfigLook
    <2>2. CASE GoTo(p, "load", [job[p] EXCEPT !.config = config])
      <3>1. pc'[p] = "load"
        BY <1>1, <2>2, ItGoes
      <3> QED BY <3>1 DEF Readied
    <2>3. CASE GoTo(p, "config.open", job[p])
      <3>1. pc'[p] = "config.open" /\ job'[p] = job[p]
        BY <1>1, <2>3, ItGoes
      <3> QED BY <1>13, <3>1 DEF ConfigLook, RepoInv, Readied
    <2> QED BY <1>3, <1>13, <2>2, <2>3 DEF ConfigLook, Pinned
  <1>14. CASE ConfigOpen(p)
    <2>1. pc'[p] = "config.write" /\ job'[p] = job[p]
      BY <1>1, <1>14, ItGoes DEF ConfigOpen
    <2> QED BY <1>2, <1>14, <2>1 DEF ConfigOpen, RepoInv, Readied
  <1>15. CASE ConfigWrite(p)
    <2>1. pc'[p] = (IF job[p].cmd = "init" THEN "key.look" ELSE "load") /\ job'[p] = job[p]
      BY <1>1, <1>15, ItGoes DEF ConfigWrite
    <2> QED BY <2>1 DEF Readied
  <1>16. CASE Load(p) \/ Commit(p)
    <2>1. pc'[p] \in {"commit", "load", "idle"}
      BY <1>1, <1>16, ItGoes DEF Load, Commit, Finish
    <2> QED BY <2>1 DEF Readied
  <1> QED BY <1>3, <1>4, <1>6, <1>7, <1>8, <1>10, <1>11, <1>12, <1>13, <1>14, <1>15, <1>16
          DEF Step, Crash

(* A configuration with declared repositories is only written by an init   *)
(* that has them all.                                                      *)
LEMMA RepoKeeps ==
  ASSUME RepoInv, [Next]_vars
  PROVE  RepoInv'
  <1>1. CASE UNCHANGED vars
    BY <1>1, NextKeeps
      DEF vars, RepoInv, Readied, AllReady, Ready, DeclaredAreProvisioned
  <1>2. ASSUME NEW p \in Processes, Step(p) PROVE RepoInv'
    <2>1. Inv' /\ Inv
      BY <1>2, NextKeeps DEF RepoInv, Next
    <2>2. /\ repo' \in [Repos -> RepoState]
          /\ \A u \in Repos : Ready(u) => Ready(u)'
      BY <1>2, ReadyStays
    <2>3. overlap' \in BOOLEAN
      BY <1>2 DEF RepoInv, Step, Begin, Provision, Create, InitConfig, KeyLook, KeyOpen, KeyWrite,
                  ConfigLook, ConfigOpen, ConfigWrite, Load, Commit, Crash
    <2>4. ASSUME NEW q \in Processes PROVE Readied(q)'
      <3>1. CASE q = p
        BY <1>2, <3>1, ReadiedSteps
      <3>2. CASE q # p
        <4>1. pc'[q] = pc[q] /\ job'[q] = job[q]
          BY <1>2, <2>1, <3>2, OthersStay
        <4> QED BY <2>2, <4>1 DEF RepoInv, Readied, AllReady
      <3> QED BY <3>1, <3>2
    <2>5. AllReady => AllReady'
      BY <2>2 DEF AllReady
    <2>6. DeclaredAreProvisioned'
      <3>1. DeclaredAreProvisioned <=>
              ((config \in Config /\ config.place = "declared") => AllReady)
        BY DEF DeclaredAreProvisioned, AllReady, Ready
      <3>2. DeclaredAreProvisioned' <=>
              ((config' \in Config /\ config'.place = "declared") => AllReady')
        BY DEF DeclaredAreProvisioned, AllReady, Ready
      <3>3. CASE config' = config
        BY <2>5, <3>1, <3>2, <3>3 DEF RepoInv
      <3>4. CASE ConfigOpen(p)
        BY <3>2, <3>4 DEF ConfigOpen, Empty, Config
      <3>5. CASE ConfigWrite(p)
        <4>1. config' = job[p].config \/ config' \notin Config
          BY <3>5, AtWork, OverlaidIs, NoConfig DEF ConfigWrite, RepoInv, Inv, FileType
        <4> QED BY <2>5, <3>2, <3>5, <4>1 DEF ConfigWrite, RepoInv, Readied
      <3> QED BY <1>2, <3>3, <3>4, <3>5
              DEF Step, Begin, Provision, Create, InitConfig, KeyLook, KeyOpen, KeyWrite,
                  ConfigLook, Load, Commit, Crash
    <2> QED BY <2>1, <2>2, <2>3, <2>4, <2>6 DEF RepoInv
  <1> QED BY <1>1, <1>2 DEF Next

(* At first nothing is declared and no init is under way.                  *)
LEMMA RepoInits == Init => RepoInv
  BY Inits DEF Init, RepoInv, Readied, DeclaredAreProvisioned, Config, Absent

(* Whichever step of whichever init fails, and however many of them run:   *)
(* a configuration that declares repositories is there only once they are. *)
THEOREM DeclaredHaveRepos == Spec => []DeclaredAreProvisioned
  <1>1. RepoInv => DeclaredAreProvisioned
    BY DEF RepoInv
  <1> QED BY <1>1, RepoInits, RepoKeeps, PTL DEF Spec

(* The files, the repositories, the logs and the locals of every process   *)
(* keep their types.                                                       *)
THEOREM SetupTypes == Spec => []TypeOK
  <1>1. RepoInv => TypeOK
    BY DEF RepoInv, Inv, FileType, LogType, Places, TypeOK
  <1> QED BY <1>1, RepoInits, RepoKeeps, PTL DEF Spec

-----------------------------------------------------------------------------
(* One founder.  As long as no command found no store while another ran,   *)
(* one process at a time makes the files of the store; what it has made    *)
(* nobody makes again, and what a commit is sealed and chunked with is     *)
(* what the files hold.                                                    *)

(* A process that is making the configuration or a keyfile.                *)
Founding(p) ==
  \/ pc[p] \in {"config.open", "config.write", "key.open", "key.write"}
  \/ pc[p] = "key.look" /\ job[p].new

OneFounder == \A p, q \in Processes : Founding(p) /\ Founding(q) => p = q

(* Before there is a configuration commands run one by one.                *)
OneByOne ==
  config = Absent => \A p, q \in Processes : pc[p] # "idle" /\ pc[q] # "idle" => p = q

(* What a process knows of the files at its step: the founder finds them   *)
(* as it left them, and a put holds the key of its keyfile, then the       *)
(* configuration of the store.                                             *)
Knows(p) ==
  /\ pc[p] = "config.open" => config = Absent
  /\ pc[p] = "config.write" => config = Empty
  /\ pc[p] = "key.open" => keyfile[job[p].path] = Absent
  /\ pc[p] = "key.write" => keyfile[job[p].path] = Empty
  /\ (pc[p] \in {"config.look", "config.open", "config.write", "load", "commit"}
        /\ job[p].cmd = "put") => keyfile[job[p].path] = job[p].key
  /\ pc[p] \in {"load", "commit"} =>
       job[p].cmd = "put" /\ config \in Config /\ job[p].config = config

(* What is committed lies where the configuration says, with its size, and *)
(* under a key that a keyfile holds.                                       *)
Kept(place) ==
  log[place].txns # {} =>
    /\ config \in Config /\ config.place = place
    /\ \A t \in log[place].txns : t.avg = config.avg
    /\ \E f \in Paths : \A t \in log[place].txns : Holds(f, t)

Founded ==
  /\ OneFounder
  /\ OneByOne
  /\ config \notin Garbled
  /\ \A p \in Processes : Knows(p)
  /\ \A place \in Places : Kept(place)

ReachInv == RepoInv /\ (~overlap => Founded)

(* The marks for a file that is absent or empty are no keys.               *)
LEMMA NoKey == Absent \notin Key /\ Empty \notin Key
  BY DEF Absent, Empty, Key

(* A step that only fills what was not filled, and that makes something    *)
(* only for the founder, keeps what the others know and what is kept.      *)
LEMMA FounderSteps ==
  ASSUME ReachInv, ~overlap, NEW p \in Processes, Step(p), Knows(p)',
         config' \notin Garbled, config' = config \/ (Founding(p) /\ config \notin Config /\ config' # Absent),
         \A f \in Paths : keyfile'[f] = keyfile[f] \/ (Founding(p) /\ keyfile[f] \notin Key),
         config' = Absent => pc[p] # "idle" \/ \A q \in Processes : pc[q] = "idle",
         Founding(p)' => Founding(p) \/ \A q \in Processes : q # p => pc[q] = "idle",
         log' = log \/ \A place \in Places : Kept(place)'
  PROVE  Founded'
  <1>1. /\ OneFounder /\ OneByOne
        /\ \A q \in Processes : Knows(q)
        /\ \A place \in Places : Kept(place)
        /\ Inv
    BY DEF ReachInv, Founded, RepoInv
  <1>2. \A q \in Processes : q # p => pc'[q] = pc[q] /\ job'[q] = job[q]
    BY <1>1, OthersStay
  <1>3. \A q \in Processes : q # p => (Founding(q)' <=> Founding(q))
    BY <1>2 DEF Founding
  <1>4. OneFounder'
    <2> SUFFICES ASSUME NEW q \in Processes, NEW r \in Processes, Founding(q)', Founding(r)'
                 PROVE  q = r
      BY DEF OneFounder
    <2>1. ASSUME NEW o \in Processes, o # p, Founding(o)', Founding(p)' PROVE FALSE
      <3>1. Founding(o) /\ pc[o] # "idle"
        BY <1>3, <2>1 DEF Founding
      <3>2. Founding(p)
        BY <2>1, <3>1
      <3> QED BY <1>1, <2>1, <3>1, <3>2 DEF OneFounder
    <2>2. CASE q # p /\ r # p
      BY <1>1, <1>3, <2>2 DEF OneFounder
    <2> QED BY <2>1, <2>2
  <1>5. OneByOne'
    <2> SUFFICES ASSUME config' = Absent PROVE \A q, r \in Processes :
                          pc'[q] # "idle" /\ pc'[r] # "idle" => q = r
      BY DEF OneByOne
    <2>1. config = Absent
      OBVIOUS
    <2>2. \A q \in Processes : q # p => pc[q] = "idle"
      BY <1>1, <2>1 DEF OneByOne
    <2> QED BY <1>2, <2>2
  <1>6. ASSUME NEW q \in Processes PROVE Knows(q)'
    <2>1. CASE q = p
      BY <2>1
    <2>2. CASE q # p
      <3>1. pc'[q] = pc[q] /\ job'[q] = job[q] /\ Knows(q)
        BY <1>1, <1>2, <2>2
      <3>2. Founding(q) => config' = config /\ \A f \in Paths : keyfile'[f] = keyfile[f]
        BY <1>1, <2>2 DEF OneFounder
      <3>3. config \in Config => config' = config
        OBVIOUS
      <3>4. CASE pc[q] # "idle"
        <4>1. job[q].path \in Paths /\ job[q].key \in Key
          BY <1>1, <3>4, AtWork
        <4>2. /\ pc[q] = "config.open" => config' = Absent
              /\ pc[q] = "config.write" => config' = Empty
              /\ pc[q] = "key.open" => keyfile'[job[q].path] = Absent
              /\ pc[q] = "key.write" => keyfile'[job[q].path] = Empty
          BY <3>1, <3>2, <4>1 DEF Founding, Knows
        <4>3. (pc[q] \in {"config.look", "config.open", "config.write", "load", "commit"}
                 /\ job[q].cmd = "put") => keyfile'[job[q].path] = job[q].key
          BY <3>1, <4>1 DEF Knows
        <4>4. pc[q] \in {"load", "commit"} =>
                job[q].cmd = "put" /\ config' \in Config /\ job[q].config = config'
          BY <3>1, <3>3 DEF Knows
        <4> QED BY <3>1, <4>2, <4>3, <4>4 DEF Knows
      <3>5. CASE pc[q] = "idle"
        BY <3>1, <3>5 DEF Knows
      <3> QED BY <3>4, <3>5
    <2> QED BY <2>1, <2>2
  <1>7. ASSUME NEW place \in Places, log' = log PROVE Kept(place)'
    <2> SUFFICES ASSUME log[place].txns # {}
                 PROVE  /\ config' \in Config /\ config'.place = place
                        /\ \A t \in log[place].txns : t.avg = config'.avg
                        /\ \E f \in Paths : \A t \in log[place].txns : keyfile'[f] = t.key
      BY <1>7 DEF Kept, Holds
    <2>1. Kept(place)
      BY <1>1
    <2>2. config \in Config /\ config' = config
      BY <2>1 DEF Kept
    <2>3. PICK f \in Paths : \A t \in log[place].txns : keyfile[f] = t.key
      BY <2>1 DEF Kept, Holds
    <2>4. \A t \in log[place].txns : t.key \in Key
      BY <1>1 DEF Inv, LogType, Txn
    <2>5. keyfile'[f] = keyfile[f]
      BY <2>3, <2>4
    <2> QED BY <2>1, <2>2, <2>3, <2>5 DEF Kept
  <1> QED BY <1>4, <1>5, <1>6, <1>7 DEF Founded

(* The steps that change no file and no log.                               *)
LEMMA LooksKeep ==
  ASSUME ReachInv, ~overlap, NEW p \in Processes, Step(p), pc[p] # "idle",
         UNCHANGED <<keyfile, config, log>>, Knows(p)',
         Founding(p)' => Founding(p) \/ config = Absent
  PROVE  Founded'
  <1>1. config \notin Garbled /\ OneByOne
    BY DEF ReachInv, Founded
  <1>2. config = Absent => \A q \in Processes : q # p => pc[q] = "idle"
    BY <1>1 DEF OneByOne
  <1> QED BY <1>1, <1>2, FounderSteps

(* A command that ends leaves files and logs, and with them what is        *)
(* founded.                                                                *)
LEMMA EndsFounded ==
  ASSUME ReachInv, ~overlap, NEW p \in Processes, Step(p), pc[p] # "idle",
         UNCHANGED <<keyfile, config, log>>, Finish(p)
  PROVE  Founded'
  <1>1. pc'[p] = "idle"
    BY ItGoes DEF Finish, ReachInv, RepoInv
  <1>2. Knows(p)' /\ ~Founding(p)'
    BY <1>1 DEF Knows, Founding
  <1> QED BY <1>2, LooksKeep

(* A command begins: alone where nothing is configured yet, or with a      *)
(* configuration that it will find.                                        *)
LEMMA BeginFounds ==
  ASSUME ReachInv, ~overlap', NEW p \in Processes, Begin(p)
  PROVE  Founded'
  <1>1. Inv /\ ~overlap /\ UNCHANGED <<keyfile, config, log>> /\ Step(p) /\ config \notin Garbled
    BY DEF Begin, ReachInv, RepoInv, Founded, Step
  <1>2. config = Absent => \A q \in Processes : pc[q] = "idle"
    BY DEF Begin
  <1>3. PICK cmd \in {"init", "put"}, path \in Paths, asked \in Asked :
          GoTo(p, IF cmd = "init" THEN "provision" ELSE "key.look",
               [cmd |-> cmd, path |-> path, asked |-> asked,
                new |-> cmd = "init" \/ config = Absent, key |-> [key |-> ops'],
                config |-> NewConfig(asked, IF cmd = "init" THEN "declared" ELSE "local"),
                at |-> 1, tip |-> 0])
    BY DEF Begin
  <1>4. /\ pc'[p] = IF cmd = "init" THEN "provision" ELSE "key.look"
        /\ job'[p].new = (cmd = "init" \/ config = Absent)
    BY <1>1, <1>3, ItGoes
  <1>5. Knows(p)'
    BY <1>4 DEF Knows
  <1>6. Founding(p)' => config = Absent
    BY <1>4 DEF Founding
  <1> QED BY <1>1, <1>2, <1>5, <1>6, FounderSteps

(* Provisioning goes on while nothing is configured, or ends at a          *)
(* configuration; neither writes a file.                                   *)
LEMMA ProvisioningFounds ==
  ASSUME ReachInv, ~overlap, NEW p \in Processes, Provision(p) \/ Create(p) \/ InitConfig(p)
  PROVE  Founded'
  <1>1. /\ Inv /\ UNCHANGED <<keyfile, config, log>> /\ Step(p) /\ pc[p] # "idle"
    BY DEF Provision, Create, InitConfig, ReachInv, RepoInv, Step
  <1>2. CASE Finish(p)
    BY <1>1, <1>2, EndsFounded
  <1>3. CASE GoTo(p, "config.open", job[p]) /\ config = Absent /\ InitConfig(p)
    <2>1. pc'[p] = "config.open" /\ job'[p] = job[p] /\ pc[p] = "config.refuse"
      BY <1>1, <1>3, ItGoes DEF InitConfig
    <2>2. job[p].cmd = "init"
      BY <2>1 DEF ReachInv, RepoInv, Readied
    <2>3. Knows(p)'
      BY <1>1, <1>3, <2>1, <2>2 DEF Knows
    <2> QED BY <1>1, <1>3, <2>3, LooksKeep
  <1>4. CASE ProvisionNext(p) \/ GoTo(p, "create", job[p]) \/ GoTo(p, "config.refuse", job[p])
    <2>1. pc'[p] \in {"provision", "create", "config.refuse"}
      BY <1>1, <1>4, ItGoes DEF ProvisionNext
    <2>2. Knows(p)' /\ ~Founding(p)'
      BY <2>1 DEF Knows, Founding
    <2> QED BY <1>1, <2>2, LooksKeep
  <1> QED BY <1>2, <1>3, <1>4 DEF Provision, EnsureRepo, Create, InitConfig

(* The keyfile is written by the founder of the store only, before         *)
(* anything was committed.                                                 *)
LEMMA KeyFounds ==
  ASSUME ReachInv, ~overlap, NEW p \in Processes, KeyLook(p) \/ KeyOpen(p) \/ KeyWrite(p)
  PROVE  Founded'
  <1>1. /\ Inv /\ UNCHANGED <<config, log>> /\ Step(p) /\ pc[p] # "idle" /\ config \notin Garbled
        /\ job[p] \in Job /\ Knows(p)
        /\ keyfile \in [Paths -> Key \cup {Absent, Empty}]
    BY AtWork DEF KeyLook, KeyOpen, KeyWrite, ReachInv, RepoInv, Inv, FileType, Step, Founded
  <1>2. ASSUME NEW j \in Job, HaveKey(p, j), keyfile'[j.path] = j.key
        PROVE  Knows(p)' /\ ~Founding(p)'
    <2>1. pc'[p] = "idle" \/ (pc'[p] = "config.look" /\ job'[p] = j)
      BY <1>1, <1>2, ItGoes DEF HaveKey, Finish
    <2> QED BY <1>2, <2>1 DEF Knows, Founding
  <1>3. CASE KeyLook(p)
    <2>1. CASE /\ keyfile[job[p].path] \in Key
               /\ HaveKey(p, [job[p] EXCEPT !.key = keyfile[job[p].path]])
      <3>1. PICK j : j = [job[p] EXCEPT !.key = keyfile[job[p].path]]
        OBVIOUS
      <3>2. /\ j \in Job /\ j.path = job[p].path /\ j.key = keyfile[j.path] /\ HaveKey(p, j)
            /\ keyfile' = keyfile
        BY <1>1, <1>3, <2>1, <3>1 DEF Job, KeyLook
      <3>3. Knows(p)' /\ ~Founding(p)'
        BY <1>2, <3>2
      <3> QED BY <1>1, <3>2, <3>3, LooksKeep
    <2>2. CASE keyfile[job[p].path] = Absent /\ job[p].new /\ GoTo(p, "key.open", job[p])
      <3>1. pc'[p] = "key.open" /\ job'[p] = job[p] /\ keyfile' = keyfile /\ pc[p] = "key.look"
        BY <1>1, <1>3, <2>2, ItGoes DEF KeyLook
      <3>2. Knows(p)' /\ Founding(p)
        BY <2>2, <3>1 DEF Knows, Founding
      <3> QED BY <1>1, <3>1, <3>2, LooksKeep
    <2>3. CASE Finish(p)
      BY <1>1, <1>3, <2>3, EndsFounded DEF KeyLook
    <2> QED BY <1>3, <2>1, <2>2, <2>3 DEF KeyLook
  <1>4. ASSUME KeyOpen(p) \/ KeyWrite(p), Knows(p)',
               \A f \in Paths : f # job[p].path => keyfile'[f] = keyfile[f]
        PROVE  Founded'
    <2>1. Founding(p) /\ keyfile[job[p].path] \notin Key
      BY <1>1, <1>4, NoKey DEF KeyOpen, KeyWrite, Founding, Knows
    <2>2. \A f \in Paths : keyfile'[f] = keyfile[f] \/ keyfile[f] \notin Key
      BY <1>4, <2>1
    <2> QED BY <1>1, <1>4, <2>1, <2>2, FounderSteps
  <1>5. CASE KeyOpen(p)
    <2>1. /\ pc'[p] = "key.write" /\ job'[p] = job[p]
          /\ keyfile' = [keyfile EXCEPT ![job[p].path] = Empty]
      BY <1>1, <1>5, ItGoes DEF KeyOpen
    <2>2. keyfile'[job[p].path] = Empty /\ \A f \in Paths : f # job[p].path => keyfile'[f] = keyfile[f]
      BY <1>1, <2>1 DEF Job
    <2>3. Knows(p)'
      BY <2>1, <2>2 DEF Knows
    <2> QED BY <1>4, <1>5, <2>2, <2>3
  <1>6. CASE KeyWrite(p)
    <2>1. HaveKey(p, job[p]) /\ keyfile' = [keyfile EXCEPT ![job[p].path] = job[p].key]
      BY <1>6 DEF KeyWrite
    <2>2. keyfile'[job[p].path] = job[p].key /\ \A f \in Paths : f # job[p].path => keyfile'[f] = keyfile[f]
      BY <1>1, <2>1 DEF Job
    <2>3. Knows(p)'
      BY <1>1, <1>2, <2>1, <2>2
    <2> QED BY <1>4, <1>6, <2>2, <2>3
  <1> QED BY <1>3, <1>5, <1>6

(* So is the configuration; everybody else takes what is pinned there.     *)
LEMMA ConfigFounds ==
  ASSUME ReachInv, ~overlap, NEW p \in Processes, ConfigLook(p) \/ ConfigOpen(p) \/ ConfigWrite(p)
  PROVE  Founded'
  <1>1. /\ Inv /\ UNCHANGED <<keyfile, log>> /\ Step(p) /\ pc[p] # "idle" /\ config \notin Garbled
        /\ job[p] \in Job /\ Knows(p) /\ job[p].config \in Config
    BY AtWork DEF ConfigLook, ConfigOpen, ConfigWrite, ReachInv, RepoInv, Step, Founded
  <1>2. CASE ConfigLook(p)
    <2>1. config' = config /\ pc[p] = "config.look" /\ job[p].cmd = "put"
      BY <1>2 DEF ConfigLook, ReachInv, RepoInv, Readied
    <2>2. CASE config \in Config /\ GoTo(p, "load", [job[p] EXCEPT !.config = config])
      <3>1. PICK j : j = [job[p] EXCEPT !.config = config]
        OBVIOUS
      <3>2. pc'[p] = "load" /\ job'[p] = j
        BY <1>1, <2>2, <3>1, ItGoes
      <3>3. j.path = job[p].path /\ j.key = job[p].key /\ j.cmd = "put" /\ j.config = config
        BY <1>1, <2>1, <3>1 DEF Job
      <3>4. Knows(p)' /\ ~Founding(p)'
        BY <1>1, <2>1, <2>2, <3>2, <3>3 DEF Knows, Founding
      <3> QED BY <1>1, <2>1, <3>4, LooksKeep
    <2>3. CASE config = Absent /\ GoTo(p, "config.open", job[p])
      <3>1. pc'[p] = "config.open" /\ job'[p] = job[p]
        BY <1>1, <2>3, ItGoes
      <3>2. Knows(p)'
        BY <1>1, <2>1, <2>3, <3>1 DEF Knows
      <3> QED BY <1>1, <2>1, <2>3, <3>2, LooksKeep
    <2>4. CASE Finish(p)
      BY <1>1, <2>1, <2>4, EndsFounded
    <2> QED BY <1>2, <2>2, <2>3, <2>4 DEF ConfigLook, Pinned
  <1>3. CASE ConfigOpen(p)
    <2>1. pc'[p] = "config.write" /\ job'[p] = job[p] /\ config' = Empty /\ config = Absent
      BY <1>1, <1>3, ItGoes DEF ConfigOpen, Knows
    <2>2. Founding(p) /\ Knows(p)'
      BY <1>1, <1>3, <2>1 DEF ConfigOpen, Founding, Knows
    <2> QED BY <1>1, <2>1, <2>2, NoConfig, FounderSteps
  <1>4. CASE ConfigWrite(p)
    <2>1. pc'[p] = (IF job[p].cmd = "init" THEN "key.look" ELSE "load") /\ job'[p] = job[p]
      BY <1>1, <1>4, ItGoes DEF ConfigWrite
    <2>2. config = Empty /\ config' = job[p].config /\ pc[p] = "config.write"
      BY <1>1, <1>4, AtWork, OverlaidIs DEF ConfigWrite, Knows, Inv, FileType
    <2>3. Founding(p) /\ job[p].cmd \in {"init", "put"}
      BY <1>1, <2>2 DEF Founding, Job
    <2>4. Knows(p)'
      BY <1>1, <2>1, <2>2, <2>3 DEF Knows
    <2> QED BY <1>1, <2>2, <2>3, <2>4, NoConfig, FounderSteps
  <1> QED BY <1>2, <1>3, <1>4

(* A commit is sealed with the key that is in a keyfile and made with the  *)
(* size that is pinned, in the log the configuration leads to.             *)
LEMMA CommitFounds ==
  ASSUME ReachInv, ~overlap, NEW p \in Processes, Load(p) \/ Commit(p)
  PROVE  Founded'
  <1>1. /\ Inv /\ UNCHANGED <<keyfile, config>> /\ Step(p) /\ pc[p] # "idle" /\ config \notin Garbled
        /\ job[p] \in Job /\ Knows(p) /\ pc[p] \in {"load", "commit"}
    BY AtWork DEF Load, Commit, ReachInv, RepoInv, Step, Founded
  <1>2. /\ job[p].cmd = "put" /\ config \in Config /\ job[p].config = config
        /\ keyfile[job[p].path] = job[p].key
    BY <1>1 DEF Knows
  <1>3. ASSUME NEW step \in {"load", "commit"}, NEW j, GoTo(p, step, j),
               j.cmd = "put", j.config = config, j.path = job[p].path, j.key = job[p].key,
               UNCHANGED log
        PROVE  Founded'
    <2>1. pc'[p] = step /\ job'[p] = j
      BY <1>1, <1>3, ItGoes
    <2>2. Knows(p)' /\ ~Founding(p)'
      BY <1>1, <1>2, <1>3, <2>1 DEF Knows, Founding
    <2> QED BY <1>1, <1>3, <2>2, LooksKeep
  <1>4. CASE Load(p)
    <2>1. PICK j : j = [job[p] EXCEPT !.tip = log[job[p].config.place].tip]
      OBVIOUS
    <2>2. j.cmd = "put" /\ j.config = config /\ j.path = job[p].path /\ j.key = job[p].key
      BY <1>1, <1>2, <2>1 DEF Job
    <2>3. CASE GoTo(p, "commit", j)
      BY <1>3, <1>4, <2>2, <2>3 DEF Load
    <2>4. CASE Finish(p)
      BY <1>1, <1>4, <2>4, EndsFounded DEF Load
    <2> QED BY <1>4, <2>1, <2>3, <2>4 DEF Load
  <1>5. CASE Commit(p)
    <2> DEFINE place == job[p].config.place
    <2>1. CASE log[place].tip = job[p].tip
      <3>1. /\ log' = [log EXCEPT ![place] =
                         [tip |-> log[place].tip + 1,
                          txns |-> log[place].txns \cup {[key |-> job[p].key, avg |-> job[p].config.avg]}]]
            /\ Finish(p)
        BY <1>5, <2>1 DEF Commit
      <3>2. /\ place \in Places /\ place = config.place /\ log \in [Places -> [tip : Nat, txns : SUBSET Txn]]
            /\ job[p].path \in Paths
        BY <1>1, <1>2, AtWork DEF Inv, LogType
      <3>3. \A t \in log[place].txns : t.key = job[p].key
        BY <1>5, <2>1 , <1>1 DEF Commit, Inv, Opened, Opens
      <3>4. \A q \in Places : Kept(q)
        BY DEF ReachInv, Founded
      <3>5. \A t \in log'[place].txns : t.key = job[p].key /\ t.avg = config.avg
        BY <3>1, <3>2, <3>3, <3>4, <1>2 DEF Kept
      <3>6. \A t \in log'[place].txns : keyfile'[job[p].path] = t.key
        BY <1>1, <1>2, <3>5
      <3>7. ASSUME NEW q \in Places PROVE Kept(q)'
        <4>1. CASE q = place
          BY <1>1, <1>2, <3>2, <3>5, <3>6, <4>1 DEF Kept, Holds
        <4>2. CASE q # place
          <5>1. log'[q] = log[q] /\ config.place # q
            BY <3>1, <3>2, <4>2
          <5>2. log[q].txns = {}
            BY <3>4, <5>1 DEF Kept
          <5> QED BY <5>1, <5>2 DEF Kept
        <4> QED BY <4>1, <4>2
      <3>8. pc'[p] = "idle"
        BY <1>1, <3>1, ItGoes DEF Finish
      <3>9. Knows(p)' /\ ~Founding(p)'
        BY <3>8 DEF Knows, Founding
      <3> QED BY <1>1, <3>7, <3>9, FounderSteps
    <2>2. CASE log[place].tip # job[p].tip
      <3>1. GoTo(p, "load", job[p]) /\ UNCHANGED log
        BY <1>5, <2>2 DEF Commit
      <3> QED BY <1>2, <1>3, <3>1
    <2> QED BY <2>1, <2>2
  <1> QED BY <1>4, <1>5

(* Every step keeps the store within reach, or is the beginning of a first *)
(* command beside another.                                                 *)
LEMMA ReachKeeps ==
  ASSUME ReachInv, [Next]_vars
  PROVE  ReachInv'
  <1>1. RepoInv'
    BY RepoKeeps DEF ReachInv
  <1>2. CASE UNCHANGED vars
    BY <1>1, <1>2
      DEF vars, ReachInv, Founded, OneFounder, Founding, OneByOne, Knows, Kept, Holds
  <1>3. ASSUME NEW p \in Processes, Step(p), ~overlap' PROVE Founded'
    <2>1. ~overlap
      BY <1>3 DEF ReachInv, RepoInv, Step, Begin, Provision, Create, InitConfig, KeyLook, KeyOpen,
                  KeyWrite, ConfigLook, ConfigOpen, ConfigWrite, Load, Commit, Crash
    <2>2. CASE Crash(p)
      BY <1>3, <2>1, <2>2, EndsFounded DEF Crash
    <2> QED BY <1>3, <2>1, <2>2, BeginFounds, ProvisioningFounds, KeyFounds, ConfigFounds,
               CommitFounds DEF Step
  <1> QED BY <1>1, <1>2, <1>3 DEF Next, ReachInv

(* A new store has nothing to reach.                                       *)
LEMMA ReachInits == Init => ReachInv
  <1> SUFFICES ASSUME Init PROVE ReachInv
    OBVIOUS
  <1>1. RepoInv
    BY RepoInits
  <1>2. Founded
    BY NoConfig DEF Init, Founded, OneFounder, Founding, OneByOne, Knows, Kept, Places
  <1> QED BY <1>1, <1>2 DEF ReachInv

(* Unless two first commands ran at once, whatever is interrupted, refused *)
(* or run beside it: what was committed lies where the configuration says  *)
(* it does, under a key that a keyfile holds.                              *)
THEOREM CommittedIsInReach == Spec => []DataInReach
  <1>1. ReachInv => DataInReach
    BY DEF ReachInv, RepoInv, Inv, LogType, Founded, Kept, DataInReach
  <1> QED BY <1>1, ReachInits, ReachKeeps, PTL DEF Spec

(* And all of it was chunked with the size that the configuration pins,    *)
(* whatever size a later command asks for.                                 *)
THEOREM SizeStaysPinned == Spec => []ChunkSizePinned
  <1>1. ReachInv => ChunkSizePinned
    BY DEF ReachInv, RepoInv, Inv, LogType, Founded, Kept, ChunkSizePinned
  <1> QED BY <1>1, ReachInits, ReachKeeps, PTL DEF Spec
=============================================================================
