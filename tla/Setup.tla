--------------------------------- MODULE Setup ---------------------------------
(***************************************************************************)
(* How a store comes to be, and is opened: `init` and `open_engine` of     *)
(* src/src/main.rs with the keyfile (crypto.rs), config.json (engine.rs)   *)
(* and the repositories of the declared volumes (backend/provision.rs).    *)
(*                                                                         *)
(* Keyfile and configuration are plain files that are looked for, then     *)
(* written, by any number of processes, in opposite orders by `init` and   *)
(* by a first `put`, without a lock or a rename.                           *)
(***************************************************************************)
EXTENDS Naturals

CONSTANTS
  Processes,
  Paths,    \* the keyfile paths users name
  Avgs,     \* the average chunk sizes users ask for
  Default,  \* DEFAULT_AVG_SIZE
  Length,   \* Length[c]: how long the text of the configuration c is
  NumRepos, \* the repositories an init declares, in order, the index last
  Scheme,   \* Scheme[u]: "file", "https" or "ssh"
  MaxOps    \* bound: the number of commands that run

Repos == 1 .. NumRepos

(* The average size, and whether the volumes and the index are the         *)
(* declared ones or the local ones of a store that was never init-ed.      *)
Config == [avg : Avgs, place : {"local", "declared"}]

ASSUME SetupAssumption ==
  /\ Default \in Avgs /\ 0 \notin Avgs
  /\ Length \in [Config -> Nat]
  /\ NumRepos \in Nat
  /\ Scheme \in [Repos -> {"file", "https", "ssh"}]
  /\ MaxOps \in Nat

(* A file that is not there, one that fs::write has truncated and not yet  *)
(* filled, and ones that hold the rest of a longer text after a shorter.   *)
Absent == [file |-> "absent"]
Empty == [file |-> "empty"]
Garbled == [file : {"garbled"}, length : Nat]

(* There is none, it is empty, or it has a stranger's data; of unreported  *)
(* data the host says that its size is 0.                                  *)
RepoState == {"absent", "empty", "unreported", "foreign"}

(* A master key is known by the number of the command that drew it.        *)
Key == [key : 1 .. MaxOps]

Txn == [key : Key, avg : Avgs]

VARIABLES
  keyfile,  \* keyfile[f]: what is at path f
  config,   \* config.json
  repo,     \* repo[u]: what there is at the address of repository u
  log,      \* log[p]: the log at p, its tip and what its commits are sealed with
  pc, job,  \* pc[p], job[p]: the next step and the locals of process p
  ops,      \* the number of commands begun
  overlap   \* a command found no store while another was running

vars == <<keyfile, config, repo, log, pc, job, ops, overlap>>

Asked == Avgs \cup {0}

(* cmd and its arguments; whether the store was new; the key and the       *)
(* configuration in hand; the repository at hand; the tip read.            *)
Job == [cmd : {"init", "put"}, path : Paths, asked : Asked, new : BOOLEAN,
        key : Key, config : Config, at : Nat, tip : Nat]

NoJob == [cmd |-> "none"]

Steps == {"idle", "provision", "create", "config.refuse", "key.look", "key.open", "key.write",
          "config.look", "config.open", "config.write", "load", "commit"}

TypeOK ==
  /\ keyfile \in [Paths -> Key \cup {Absent, Empty}]
  /\ config \in Config \cup Garbled \cup {Absent, Empty}
  /\ repo \in [Repos -> RepoState]
  /\ log \in [{"local", "declared"} -> [tip : Nat, txns : SUBSET Txn]]
  /\ pc \in [Processes -> Steps]
  /\ job \in [Processes -> Job \cup {NoJob}]
  /\ ops \in 0 .. MaxOps
  /\ overlap \in BOOLEAN

Init ==
  /\ keyfile = [f \in Paths |-> Absent]
  /\ config = Absent
  /\ repo \in [Repos -> RepoState]
  /\ log = [p \in {"local", "declared"} |-> [tip |-> 0, txns |-> {}]]
  /\ pc = [p \in Processes |-> "idle"]
  /\ job = [p \in Processes |-> NoJob]
  /\ ops = 0
  /\ overlap = FALSE

-----------------------------------------------------------------------------
GoTo(p, step, j) ==
  /\ pc' = [pc EXCEPT ![p] = step]
  /\ job' = [job EXCEPT ![p] = j]

Finish(p) == GoTo(p, "idle", NoJob)

(* Mutant: without a default.                                              *)
NewConfig_AsAsked(asked, place) == [avg |-> asked, place |-> place]

(* requested_avg.unwrap_or(DEFAULT_AVG_SIZE)                               *)
NewConfig(asked, place) == [avg |-> IF asked = 0 THEN Default ELSE asked, place |-> place]

(* Both commands: `put` looks for the store at once.                       *)
Begin(p) ==
  /\ pc[p] = "idle"
  /\ ops < MaxOps
  /\ ops' = ops + 1
  /\ overlap' = (overlap \/ (config = Absent /\ \E q \in Processes : pc[q] # "idle"))
  /\ \E cmd \in {"init", "put"}, path \in Paths, asked \in Asked :
       GoTo(p, IF cmd = "init" THEN "provision" ELSE "key.look",
            [cmd |-> cmd, path |-> path, asked |-> asked,
             new |-> cmd = "init" \/ config = Absent, key |-> [key |-> ops'],
             config |-> NewConfig(asked, IF cmd = "init" THEN "declared" ELSE "local"),
             at |-> 1, tip |-> 0])
  /\ UNCHANGED <<keyfile, config, repo, log>>

-----------------------------------------------------------------------------
(* init: provision_volume for one repository after the other.              *)

ProvisionNext(p) == GoTo(p, "provision", [job[p] EXCEPT !.at = @ + 1])

(* ensure_repo: a repository that is there must look empty, which it does  *)
(* when the host says so or gives the size 0; one that is not is created.  *)
EnsureRepo(p, u) ==
  \/ repo[u] = "absent" /\ GoTo(p, "create", job[p])
  \/ repo[u] \in {"empty", "unreported"} /\ ProvisionNext(p)
  \/ repo[u] = "foreign" /\ Finish(p)

(* A local repository is created if need be and opened otherwise; one that *)
(* is neither local nor behind an API is assumed to be there.              *)
Provision(p) ==
  /\ pc[p] = "provision"
  /\ LET u == job[p].at
     IN \/ u > NumRepos /\ GoTo(p, "config.refuse", job[p]) /\ UNCHANGED repo
        \/ u <= NumRepos /\ Scheme[u] = "https" /\ EnsureRepo(p, u) /\ UNCHANGED repo
        \/ /\ u <= NumRepos /\ Scheme[u] = "file"
           /\ repo' = [repo EXCEPT ![u] = IF @ = "absent" THEN "empty" ELSE @]
           /\ ProvisionNext(p)
        \/ u <= NumRepos /\ Scheme[u] = "ssh" /\ ProvisionNext(p) /\ UNCHANGED repo
  /\ UNCHANGED <<keyfile, config, log, ops, overlap>>

(* Mutant: the status of the answer is not looked at.                      *)
Create_AnyStatus(p) ==
  /\ pc[p] = "create"
  /\ LET u == job[p].at
     IN /\ repo' \in {repo, [repo EXCEPT ![u] = IF @ = "absent" THEN "empty" ELSE @]}
        /\ Finish(p) \/ ProvisionNext(p)
  /\ UNCHANGED <<keyfile, config, log, ops, overlap>>

(* The request creates the repository, unless another did meanwhile, and   *)
(* its answer may be lost: the command fails then.                         *)
Create(p) ==
  /\ pc[p] = "create"
  /\ LET u == job[p].at
     IN \/ /\ repo[u] = "absent"
           /\ repo' = [repo EXCEPT ![u] = "empty"]
           /\ ProvisionNext(p) \/ Finish(p)
        \/ Finish(p) /\ UNCHANGED repo
  /\ UNCHANGED <<keyfile, config, log, ops, overlap>>

(* init_config_with_volumes: only where there is no configuration.         *)
InitConfig(p) ==
  /\ pc[p] = "config.refuse"
  /\ IF config = Absent THEN GoTo(p, "config.open", job[p]) ELSE Finish(p)
  /\ UNCHANGED <<keyfile, config, repo, log, ops, overlap>>

-----------------------------------------------------------------------------
(* keyfile::load_or_create: the first thing of a put, the last of an init. *)

HaveKey(p, j) ==
  IF j.cmd = "init" THEN Finish(p) ELSE GoTo(p, "config.look", j)

(* Mutant: a keyfile that cannot be parsed is replaced.                    *)
KeyLook_Replaces(p) ==
  /\ pc[p] = "key.look"
  /\ LET j == job[p]
     IN IF keyfile[j.path] \in Key
        THEN HaveKey(p, [j EXCEPT !.key = keyfile[j.path]])
        ELSE GoTo(p, "key.open", j)
  /\ UNCHANGED <<keyfile, config, repo, log, ops, overlap>>

KeyLook(p) ==
  /\ pc[p] = "key.look"
  /\ LET j == job[p]
     IN \/ keyfile[j.path] \in Key /\ HaveKey(p, [j EXCEPT !.key = keyfile[j.path]])
        \/ keyfile[j.path] = Absent /\ j.new /\ GoTo(p, "key.open", j)
        \/ keyfile[j.path] = Absent /\ ~j.new /\ Finish(p)
        \/ keyfile[j.path] = Empty /\ Finish(p)
  /\ UNCHANGED <<keyfile, config, repo, log, ops, overlap>>

(* fs::write: truncate or create, then fill.                               *)
KeyOpen(p) ==
  /\ pc[p] = "key.open"
  /\ keyfile' = [keyfile EXCEPT ![job[p].path] = Empty]
  /\ GoTo(p, "key.write", job[p])
  /\ UNCHANGED <<config, repo, log, ops, overlap>>

KeyWrite(p) ==
  /\ pc[p] = "key.write"
  /\ keyfile' = [keyfile EXCEPT ![job[p].path] = job[p].key]
  /\ HaveKey(p, job[p])
  /\ UNCHANGED <<config, repo, log, ops, overlap>>

-----------------------------------------------------------------------------
(* load_or_init_config, and the writing that init shares.                  *)

(* Mutant: what was asked for goes before what is pinned.                  *)
Pinned_Asked(j) == [config EXCEPT !.avg = IF j.asked = 0 THEN @ ELSE j.asked]

Pinned(j) == config

ConfigLook(p) ==
  /\ pc[p] = "config.look"
  /\ LET j == job[p]
     IN \/ /\ config \in Config
           /\ IF j.asked \in {0, Pinned(j).avg}
              THEN GoTo(p, "load", [j EXCEPT !.config = Pinned(j)])
              ELSE Finish(p)
        \/ config = Absent /\ GoTo(p, "config.open", j)
        \/ config \in Garbled \cup {Empty} /\ Finish(p)
  /\ UNCHANGED <<keyfile, config, repo, log, ops, overlap>>

ConfigOpen(p) ==
  /\ pc[p] = "config.open"
  /\ config' = Empty
  /\ GoTo(p, "config.write", job[p])
  /\ UNCHANGED <<keyfile, repo, log, ops, overlap>>

LengthOf(text) ==
  CASE text \in Config -> Length[text]
    [] text \in Garbled -> text.length
    [] OTHER -> 0

(* The text goes over what another process wrote since the file was        *)
(* truncated; of a longer one, the rest sticks out.                        *)
Overlaid(new) ==
  IF LengthOf(config) <= Length[new]
  THEN new
  ELSE [file |-> "garbled", length |-> LengthOf(config)]

ConfigWrite(p) ==
  /\ pc[p] = "config.write"
  /\ config' = Overlaid(job[p].config)
  /\ GoTo(p, IF job[p].cmd = "init" THEN "key.look" ELSE "load", job[p])
  /\ UNCHANGED <<keyfile, repo, log, ops, overlap>>

-----------------------------------------------------------------------------
(* The put itself, as far as the key and the pinned size go.               *)

(* Mutant: transactions that cannot be opened are passed over.             *)
Opens_Any(k, p) == TRUE

(* Every transaction the reader of a log walks over must open with its     *)
(* key.                                                                    *)
Opens(k, p) == \A t \in log[p].txns : t.key = k

Load(p) ==
  /\ pc[p] = "load"
  /\ LET j == job[p]
     IN IF Opens(j.key, j.config.place)
        THEN GoTo(p, "commit", [j EXCEPT !.tip = log[j.config.place].tip])
        ELSE Finish(p)
  /\ UNCHANGED <<keyfile, config, repo, log, ops, overlap>>

Commit(p) ==
  /\ pc[p] = "commit"
  /\ LET j == job[p]
         l == log[j.config.place]
     IN IF l.tip = j.tip
        THEN /\ log' = [log EXCEPT ![j.config.place] =
                          [tip |-> l.tip + 1,
                           txns |-> l.txns \cup {[key |-> j.key, avg |-> j.config.avg]}]]
             /\ Finish(p)
        ELSE GoTo(p, "load", j) /\ UNCHANGED log
  /\ UNCHANGED <<keyfile, config, repo, ops, overlap>>

(* A process dies, or fails at its step.                                   *)
Crash(p) ==
  /\ pc[p] # "idle"
  /\ Finish(p)
  /\ UNCHANGED <<keyfile, config, repo, log, ops, overlap>>

Step(p) ==
  \/ Begin(p) \/ Provision(p) \/ Create(p) \/ InitConfig(p)
  \/ KeyLook(p) \/ KeyOpen(p) \/ KeyWrite(p)
  \/ ConfigLook(p) \/ ConfigOpen(p) \/ ConfigWrite(p)
  \/ Load(p) \/ Commit(p) \/ Crash(p)

Next == \E p \in Processes : Step(p)

Spec == Init /\ [][Next]_vars

-----------------------------------------------------------------------------
(* Properties.                                                             *)

(* A log is sealed with one key, whichever keyfiles its users name and     *)
(* whichever of them came first.                                           *)
OneKey == \A p \in DOMAIN log : \A t, u \in log[p].txns : t.key = u.key

Holds(f, t) == keyfile[f] = t.key

(* The keyfile is "never silently regenerated for existing data": when     *)
(* nothing runs, what the commits are sealed with is in a keyfile.         *)
KeyKept ==
  (\A q \in Processes : pc[q] = "idle") =>
    \A p \in DOMAIN log : \A t \in log[p].txns : \E f \in Paths : Holds(f, t)

(* Unless two first commands ran at once, data once committed stays within *)
(* reach, whatever was interrupted, refused or run beside it: its key is   *)
(* in a keyfile, and the configuration leads to its log.                   *)
DataInReach ==
  ~overlap =>
    \A p \in DOMAIN log : log[p].txns # {} =>
      /\ \E f \in Paths : \A t \in log[p].txns : Holds(f, t)
      /\ config \in Config /\ config.place = p

(* "A store MUST chunk identically for its whole lifetime": unless two     *)
(* first commands ran at once, all that is committed was chunked with the  *)
(* size the configuration pins.                                            *)
ChunkSizePinned ==
  ~overlap =>
    \A p \in DOMAIN log : \A t \in log[p].txns : config \in Config => t.avg = config.avg

(* A store that declares repositories has them: those on a host were       *)
(* created or looked empty, whichever step of whichever init failed before.*)
DeclaredAreProvisioned ==
  (config \in Config /\ config.place = "declared") =>
    \A u \in Repos :
      CASE Scheme[u] = "https" -> repo[u] \in {"empty", "unreported"}
        [] Scheme[u] = "file" -> repo[u] # "absent"
        [] OTHER -> TRUE
=============================================================================
