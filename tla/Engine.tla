-------------------------------- MODULE Engine --------------------------------
(***************************************************************************)
(* src/src/engine.rs: the commands `put`, `rm` and `compact` of any number *)
(* of clients (processes) that share one store, and the crashes between    *)
(* their steps.                                                            *)
(*                                                                         *)
(* The shared state is the log (`refs/heads/log` of the index repository)  *)
(* and one repository of segment refs per volume.  A command reads the log *)
(* tip, works on what it read, and commits with a compare-and-swap on the  *)
(* tip.  A step below is what a client does between two points at which    *)
(* another client's action can matter: a read of the log, a push of a      *)
(* segment, the compare-and-swap, the removal of a repository or of refs.  *)
(*                                                                         *)
(* Only the newest state of the log is kept here.  That a client which     *)
(* walks the commit chain from a tip gets exactly that state is the        *)
(* subject of module TxnLog.                                               *)
(***************************************************************************)
EXTENDS StoreState

CONSTANTS
  Clients,        \* the client processes
  Commands,       \* the commands they issue, of "put", "rm", "compact"
  Contents,       \* the files put: sets of chunks
  Transport,      \* where the volumes live: "local", "file" or "hosted"
  MaxCasRetries,  \* MAX_CAS_RETRIES
  HalfRemovals,   \* whether a repository's removal may stop half way
  MaxOps          \* bound: the number of commands that run

ASSUME EngineAssumption ==
  /\ Commands \subseteq {"put", "rm", "compact"}
  /\ Contents \subseteq SUBSET Chunks
  /\ Transport \in {"local", "file", "hosted"}
  /\ MaxCasRetries \in Nat \ {0}
  /\ HalfRemovals \in BOOLEAN
  /\ MaxOps \in Nat

VARIABLES
  log,   \* the tip, the state it stands for, whether it has a Compact commit
  refs,  \* refs[v]: the segments of volume v, each with the chunks it holds
  repo,  \* repo[v]: what there is of the repository of volume v
  pc,    \* pc[c]: the next step of client c
  job,   \* job[c]: the local variables of the command c runs
  seen,  \* seen[c]: what c read of the log when it built its transaction
  ops    \* the number of commands begun

vars == <<log, refs, repo, pc, job, seen, ops>>

Log == [tip : Nat, compacted : BOOLEAN, st : State]

EmptyLog == [tip |-> 0, compacted |-> FALSE, st |-> EmptyState]

(* old: the segment's commit is older than the orphan window.  Without     *)
(* chunks it is hollow: its ref outlived its objects.                      *)
Segment == [seg : SegId, ids : SUBSET Chunks, old : BOOLEAN]

(* headless: there is a directory without HEAD.  torn: there is HEAD, and  *)
(* something else is missing without which git sees no repository.         *)
RepoState == {"up", "headless", "torn", "gone"}

PutJob == [cmd : {"put"}, name : Names, manifest : Manifest, staged : SUBSET Chunks,
           vol : Volumes \cup {NoVolume}, seg : PutSegId, tries : Nat]

RemoveJob == [cmd : {"rm"}, name : Names, tries : Nat]

(* base is the state `compact` loaded once for all its candidates, later   *)
(* the candidates still to come, listed the refs still to delete.          *)
CompactJob == [cmd : {"compact"}, base : State, later : SUBSET Volumes,
               vol : Volumes, dest : Volumes, live : SUBSET Chunks,
               listed : SUBSET Segment, tries : Nat]

(* listed are the orphans of the volume `next` still to delete.            *)
SweepJob == [cmd : {"sweep"}, referenced : SUBSET (Volumes \X SegId), next : Nat,
             listed : SUBSET Segment]

NoJob == [cmd |-> "none"]

Steps == {"idle", "put.push", "put.load", "put.cas", "rm.load", "rm.cas",
          "compact.rewrite", "compact.load", "compact.cas", "compact.reclaim",
          "compact.recreate", "compact.delete", "sweep.load", "sweep.volume",
          "sweep.delete"}

(* Every variable keeps to its type, and every client to a known step.     *)
TypeOK ==
  /\ log \in Log
  /\ refs \in [Volumes -> SUBSET Segment]
  /\ repo \in [Volumes -> RepoState]
  /\ pc \in [Clients -> Steps]
  /\ job \in [Clients -> PutJob \cup RemoveJob \cup CompactJob \cup SweepJob \cup {NoJob}]
  /\ seen \in [Clients -> Log]
  /\ ops \in Nat

Init ==
  /\ log = EmptyLog
  /\ refs = [v \in Volumes |-> {}]
  /\ repo = [v \in Volumes |-> "up"]
  /\ pc = [c \in Clients |-> "idle"]
  /\ job = [c \in Clients |-> NoJob]
  /\ seen = [c \in Clients |-> EmptyLog]
  /\ ops = 0

-----------------------------------------------------------------------------
(* Helpers.                                                                *)

(* The chunk can be read where r says it is.                               *)
HasChunk(r) == \E s \in refs[r.vol] : s.seg = r.seg /\ r.id \in s.ids

HasSegment(v, seg) == \E s \in refs[v] : s.seg = seg

(* Mutant: one ref per volume, overwritten by each segment.                *)
Publish_OneRef(v, seg, ids) ==
  refs' = [refs EXCEPT ![v] = {[seg |-> seg, ids |-> ids, old |-> FALSE]}]

(* set_ref under a name no other segment has.                              *)
Publish(v, seg, ids) ==
  refs' = [refs EXCEPT ![v] = @ \cup {[seg |-> seg, ids |-> ids, old |-> FALSE]}]

(* delete_ref: by name, whatever the ref is at; a ref that is gone already *)
(* is no error.                                                            *)
Unpublish(v, seg) == refs' = [refs EXCEPT ![v] = {s \in @ : s.seg # seg}]

(* The volumes whose repository can be used.                               *)
up == {v \in Volumes : repo[v] = "up"}

(* `git init` where there is no HEAD, and nothing where there is one.      *)
Initialised(state) == IF state \in {"headless", "gone"} THEN "up" ELSE state

(* Mutant: opening a store repairs nothing.                                *)
Opened_AsIs == repo

(* Opening a store initialises the local repositories; a remote one is     *)
(* created only by an operator.                                            *)
Opened ==
  IF Transport = "local" THEN [v \in Volumes |-> Initialised(repo[v])] ELSE repo

Begin(c, cmd) ==
  /\ pc[c] = "idle"
  /\ cmd \in Commands
  /\ ops < MaxOps
  /\ ops' = ops + 1
  /\ repo' = Opened

GoTo(c, step, j) ==
  /\ pc' = [pc EXCEPT ![c] = step]
  /\ job' = [job EXCEPT ![c] = j]

(* What was read goes out of scope.                                        *)
Forget(c) == seen' = [seen EXCEPT ![c] = EmptyLog]

Finish(c) == GoTo(c, "idle", NoJob) /\ Forget(c)

(* log_tip() and load_full_state(tip) on the way to the commit.            *)
Load(c) == seen' = [seen EXCEPT ![c] = log]

(* Mutant: the swap does not compare.                                      *)
OnTip_Always(c) == TRUE

OnTip(c) == seen[c].tip = log.tip

(* Mutant: a plain update of the ref, to a commit on top of the one read.  *)
Commit_Unguarded(c, txn) ==
  log' = [tip |-> seen[c].tip + 1,
          compacted |-> seen[c].compacted \/ txn.kind = "compact",
          st |-> apply_txn(seen[c].st, txn)]

(* The commit point: the new tip is a commit on top of the one c read.     *)
Commit(c, txn) ==
  /\ OnTip(c)
  /\ log' = [tip |-> log.tip + 1,
             compacted |-> seen[c].compacted \/ txn.kind = "compact",
             st |-> apply_txn(seen[c].st, txn)]

(* A push over the wire can move the ref and still be reported as failed.  *)
Acks == IF Transport = "local" THEN {TRUE} ELSE BOOLEAN

-----------------------------------------------------------------------------
(* put                                                                     *)

(* Mutant: the first attempt takes the seal, a retry commits without it.   *)
PutTxn_SealTaken(j) ==
  DeltaPut(j.name, j.manifest,
           IF j.staged = {} \/ j.tries > 0 THEN {} ELSE Seal(j.vol, j.seg, j.staged))

(* Mutant: every attempt seals under a name of its own.                    *)
PutTxn_SealAnew(j) ==
  DeltaPut(j.name, j.manifest,
           IF j.staged = {} THEN {}
           ELSE Seal(j.vol, [j.seg EXCEPT !.n = @ + MaxOps * j.tries], j.staged))

PutTxn(j) ==
  DeltaPut(j.name, j.manifest, IF j.staged = {} THEN {} ELSE Seal(j.vol, j.seg, j.staged))

(* Read the log, chunk the stream, reuse the placements of the chunks the  *)
(* store knows, choose a volume for the others.  A re-put of the same      *)
(* manifest and a refusal by the budget wall end here: see Open.           *)
PutStart(c) ==
  /\ Begin(c, "put")
  /\ \E name \in Names, S \in Contents :
       LET reused == {r \in Known(log.st.ns) : r.id \in S}
           staged == S \ Ids(reused)
           seg    == [by |-> "put", n |-> ops]
       IN \E v \in IF staged = {} THEN {NoVolume}
                   ELSE select_volume(BytesOf(staged), log.st.idx) :
            LET manifest == reused \cup {[id |-> id, vol |-> v, seg |-> seg] : id \in staged}
            IN /\ staged # {} \/ log.st.ns[name] # manifest
               /\ GoTo(c, IF staged = {} THEN "put.load" ELSE "put.push",
                       [cmd |-> "put", name |-> name, manifest |-> manifest,
                        staged |-> staged, vol |-> v, seg |-> seg, tries |-> 0])
  /\ UNCHANGED <<log, refs, seen>>

(* Phase 1: the whole segment is published by one ref update.              *)
PutPush(c) ==
  /\ pc[c] = "put.push"
  /\ job[c].vol \in up
  /\ Publish(job[c].vol, job[c].seg, job[c].staged)
  /\ GoTo(c, "put.load", job[c])
  /\ UNCHANGED <<log, repo, seen, ops>>

(* Rebase: the same manifest already there ends the command.               *)
PutLoad(c) ==
  /\ pc[c] = "put.load"
  /\ IF log.st.ns[job[c].name] = job[c].manifest
     THEN Finish(c)
     ELSE Load(c) /\ GoTo(c, "put.cas", job[c])
  /\ UNCHANGED <<log, refs, repo, ops>>

PutCas(c) ==
  /\ pc[c] = "put.cas"
  /\ Commit(c, PutTxn(job[c]))
  /\ Finish(c)
  /\ UNCHANGED <<refs, repo, ops>>

-----------------------------------------------------------------------------
(* rm                                                                      *)

RemoveStart(c) ==
  /\ Begin(c, "rm")
  /\ \E name \in Stored(log.st.ns) :
       GoTo(c, "rm.load", [cmd |-> "rm", name |-> name, tries |-> 0])
  /\ UNCHANGED <<log, refs, seen>>

RemoveLoad(c) ==
  /\ pc[c] = "rm.load"
  /\ IF job[c].name \notin Stored(log.st.ns)
     THEN Finish(c)
     ELSE Load(c) /\ GoTo(c, "rm.cas", job[c])
  /\ UNCHANGED <<log, refs, repo, ops>>

(* Mutant: rm also deletes the segments nothing references any more.       *)
RemoveCas_Eager(c) ==
  /\ pc[c] = "rm.cas"
  /\ Commit(c, DeltaRemove(job[c].name))
  /\ Finish(c)
  /\ refs' = [v \in Volumes |-> {s \in refs[v] : <<v, s.seg>> \in Referenced(log'.st.ns)}]
  /\ UNCHANGED <<repo, ops>>

RemoveCas(c) ==
  /\ pc[c] = "rm.cas"
  /\ Commit(c, DeltaRemove(job[c].name))
  /\ Finish(c)
  /\ UNCHANGED <<refs, repo, ops>>

-----------------------------------------------------------------------------
(* compact                                                                 *)

CompactDest(v, base) ==
  select_compact_dest(v, BytesOf(live_ids(base.ns, v)), base.idx)

(* Go on to the first of the volumes `todo` that some volume has room for, *)
(* or, when there is none, to the sweep.                                   *)
NextCandidate(c, base, todo) ==
  LET viable == {v \in todo : CompactDest(v, base) # {}}
  IN \/ viable = {} /\ GoTo(c, "sweep.load", NoJob)
     \/ \E v \in viable :
          /\ \A w \in viable : v <= w
          /\ \E dest \in CompactDest(v, base) :
               LET live == live_ids(base.ns, v)
               IN GoTo(c, IF live = {} THEN "compact.load" ELSE "compact.rewrite",
                       [cmd |-> "compact", base |-> base, later |-> viable \ {v},
                        vol |-> v, dest |-> dest, live |-> live,
                        listed |-> {}, tries |-> 0])

(* The interval gate can be shut only once there is a Compact commit.      *)
GatesOpen(force, elapsed) ==
  force \/ (UnderPressure(log.st) /\ (~log.compacted \/ elapsed))

CompactStart(c) ==
  /\ Begin(c, "compact")
  /\ \E force, elapsed \in BOOLEAN :
       NextCandidate(c, log.st, IF GatesOpen(force, elapsed) THEN Candidates(log.st) ELSE {})
  /\ UNCHANGED <<log, refs, seen>>

RewriteOf(j) == compact_segment_id(j.vol, j.live)

(* What the rewrite reads: each chunk where the first manifest, in name    *)
(* order, that has it on the volume says it is.                            *)
OldPlaces(j) ==
  {r \in RefsOn(j.base.ns, j.vol) :
     r \in j.base.ns[Min({n \in Stored(j.base.ns) :
                           \E q \in j.base.ns[n] : q.id = r.id /\ q.vol = j.vol})]}

(* Phase 1: push the live chunks as one segment, unless an earlier run     *)
(* left that segment behind.  From a remote volume the chunks are read     *)
(* through the client's cache, so it may succeed with what the volume no   *)
(* longer has; a read that fails is a Crash.                               *)
CompactRewrite(c) ==
  /\ pc[c] = "compact.rewrite"
  /\ LET j == job[c]
     IN /\ j.dest \in up
        /\ IF HasSegment(j.dest, RewriteOf(j))
           THEN UNCHANGED refs
           ELSE /\ Transport = "local" =>
                     j.vol \in up /\ \A r \in OldPlaces(j) : HasChunk(r)
                /\ Publish(j.dest, RewriteOf(j), j.live)
        /\ GoTo(c, "compact.load", j)
  /\ UNCHANGED <<log, repo, seen, ops>>

(* A chunk on the retiring volume that was not rewritten.                  *)
Unmoved(ns, j) == live_ids(ns, j.vol) \ j.live

(* Mutant: "no record of the volume" read as "a record of another one".    *)
Retired_AnyOther(st, v) == \E r \in st.idx : r.vol # v

Retired(st, v) == live_ids(st.ns, v) = {} /\ \A r \in st.idx : r.vol # v

(* Rebase: give the volume up, find it already retired, or go to commit.   *)
CompactLoad(c) ==
  /\ pc[c] = "compact.load"
  /\ LET j == job[c]
     IN \/ /\ Unmoved(log.st.ns, j) # {}
           /\ NextCandidate(c, j.base, j.later)
           /\ UNCHANGED seen
        \/ /\ Unmoved(log.st.ns, j) = {}
           /\ Retired(log.st, j.vol)
           /\ GoTo(c, "compact.reclaim", j)
           /\ UNCHANGED seen
        \/ /\ Unmoved(log.st.ns, j) = {}
           /\ ~Retired(log.st, j.vol)
           /\ GoTo(c, "compact.cas", j)
           /\ Load(c)
  /\ UNCHANGED <<log, refs, repo, ops>>

CompactionOf(c, j) ==
  CompactTxn(j.vol, IF j.live = {} THEN {} ELSE Seal(j.dest, RewriteOf(j), j.live),
          Repointed(seen[c].st.ns, j.vol, j.dest, RewriteOf(j)))

CompactCas(c) ==
  /\ pc[c] = "compact.cas"
  /\ Commit(c, CompactionOf(c, job[c]))
  /\ GoTo(c, "compact.reclaim", job[c])
  /\ Forget(c)
  /\ UNCHANGED <<refs, repo, ops>>

(* Phase 3: remove the repository.  A hosted one cannot be removed: list   *)
(* its segment refs, to delete each.                                       *)
CompactReclaim(c) ==
  /\ pc[c] = "compact.reclaim"
  /\ repo[job[c].vol] # "gone"
  /\ IF Transport = "hosted"
     THEN /\ GoTo(c, "compact.delete", [job[c] EXCEPT !.listed = refs[job[c].vol]])
          /\ UNCHANGED <<refs, repo>>
     ELSE /\ refs' = [refs EXCEPT ![job[c].vol] = {}]
          /\ repo' = [repo EXCEPT ![job[c].vol] = "gone"]
          /\ GoTo(c, "compact.recreate", job[c])
  /\ UNCHANGED <<log, seen, ops>>

(* What a removal that stops leaves of some segments: each is there, gone  *)
(* or hollow; one that lost some chunks is taken to have lost them all.    *)
Remains(segments) ==
  UNION {{kept \cup {[s EXCEPT !.ids = {}] : s \in hollow} :
             hollow \in SUBSET (segments \ kept)} : kept \in SUBSET segments}

(* The process is killed while it removes the files of the repository, in  *)
(* whatever order the directory lists them, or it cannot remove one and    *)
(* goes on to delete the refs that are left.                               *)
RemovalStops(c) ==
  /\ HalfRemovals
  /\ pc[c] = "compact.reclaim"
  /\ Transport # "hosted"
  /\ repo[job[c].vol] # "gone"
  /\ LET v == job[c].vol
         after == {"headless"} \cup (IF repo[v] = "headless" THEN {} ELSE {"torn", repo[v]})
     IN \E left \in Remains(refs[v]), state \in after :
          /\ refs' = [refs EXCEPT ![v] = left]
          /\ repo' = [repo EXCEPT ![v] = state]
          /\ \/ Finish(c)
             \/ /\ state = "up"
                /\ GoTo(c, "compact.delete", [job[c] EXCEPT !.listed = left])
                /\ UNCHANGED seen
  /\ UNCHANGED <<log, ops>>

CompactRecreate(c) ==
  /\ pc[c] = "compact.recreate"
  /\ repo' = [repo EXCEPT ![job[c].vol] = Initialised(@)]
  /\ NextCandidate(c, job[c].base, job[c].later)
  /\ UNCHANGED <<log, refs, seen, ops>>

(* One listed ref after the other.                                         *)
CompactDelete(c) ==
  /\ pc[c] = "compact.delete"
  /\ LET j == job[c]
     IN \/ /\ j.listed = {}
           /\ NextCandidate(c, j.base, j.later)
           /\ UNCHANGED refs
        \/ \E s \in j.listed :
             /\ Unpublish(j.vol, s.seg)
             /\ GoTo(c, "compact.delete", [j EXCEPT !.listed = @ \ {s}])
  /\ UNCHANGED <<log, repo, seen, ops>>

-----------------------------------------------------------------------------
(* The compare-and-swap that does not report success.                      *)

AtCas(c) == pc[c] \in {"put.cas", "rm.cas", "compact.cas"}

(* Mutant: the attempts are not counted.                                   *)
Retry_Uncounted(c) ==
  /\ GoTo(c, CASE pc[c] = "put.cas" -> "put.load"
              [] pc[c] = "rm.cas" -> "rm.load"
              [] pc[c] = "compact.cas" -> "compact.load", job[c])
  /\ Forget(c)

(* Build the transaction again on a newer tip, or give up: put and rm with *)
(* an error, compact by leaving this volume alone.                         *)
Retry(c) ==
  LET j == [job[c] EXCEPT !.tries = @ + 1]
  IN /\ \/ /\ j.tries < MaxCasRetries
           /\ GoTo(c, CASE pc[c] = "put.cas" -> "put.load"
                       [] pc[c] = "rm.cas" -> "rm.load"
                       [] pc[c] = "compact.cas" -> "compact.load", j)
        \/ /\ j.tries = MaxCasRetries
           /\ IF pc[c] = "compact.cas" THEN NextCandidate(c, j.base, j.later)
                                       ELSE GoTo(c, "idle", NoJob)
     /\ Forget(c)

(* Another commit came first, another process holds the ref's lock, or the *)
(* push failed on the way.                                                 *)
CasRejected(c) ==
  /\ AtCas(c)
  /\ \/ ~OnTip(c)
     \/ Transport # "local"
     \/ \E d \in Clients \ {c} : pc[d] # "idle"
  /\ Retry(c)
  /\ UNCHANGED <<log, refs, repo, ops>>

(* The push landed and its answer was lost ("failed to push some refs").   *)
CasAnswerLost(c) ==
  /\ AtCas(c)
  /\ FALSE \in Acks
  /\ Commit(c, CASE pc[c] = "put.cas" -> PutTxn(job[c])
                 [] pc[c] = "rm.cas" -> DeltaRemove(job[c].name)
                 [] pc[c] = "compact.cas" -> CompactionOf(c, job[c]))
  /\ Retry(c)
  /\ UNCHANGED <<refs, repo, ops>>

-----------------------------------------------------------------------------
(* The sweep at the end of every compact.                                  *)

SweepLoad(c) ==
  /\ pc[c] = "sweep.load"
  /\ GoTo(c, "sweep.volume",
          [cmd |-> "sweep", referenced |-> Referenced(log.st.ns), next |-> 1,
           listed |-> {}])
  /\ UNCHANGED <<log, refs, repo, seen, ops>>

(* Mutant: age alone makes an orphan.                                      *)
Orphans_AnyOld(c, v) == {s \in refs[v] : s.old}

Orphans(c, v) == {s \in refs[v] : s.old /\ <<v, s.seg>> \notin job[c].referenced}

NextVolume(c, j) ==
  IF j.next = NumVolumes
  THEN Finish(c)
  ELSE /\ GoTo(c, "sweep.volume", [j EXCEPT !.next = @ + 1, !.listed = {}])
       /\ UNCHANGED seen

(* List the refs of a volume, once.                                        *)
SweepList(c) ==
  /\ pc[c] = "sweep.volume"
  /\ job[c].next \in up
  /\ LET orphans == Orphans(c, job[c].next)
     IN IF orphans = {}
        THEN NextVolume(c, job[c])
        ELSE /\ GoTo(c, "sweep.delete", [job[c] EXCEPT !.listed = orphans])
             /\ UNCHANGED seen
  /\ UNCHANGED <<log, refs, repo, ops>>

(* Delete one listed orphan after the other.  Its age is read just before: *)
(* of a local volume the ref's of that moment, of a remote one maybe that  *)
(* of the commit in the cache.                                             *)
SweepDelete(c) ==
  /\ pc[c] = "sweep.delete"
  /\ LET j == job[c]
         v == j.next
     IN /\ v \in up
        /\ \E s \in j.listed :
             LET old == \E t \in refs[v] : t.seg = s.seg /\ t.old
             IN /\ \/ (old \/ Transport # "local") /\ Unpublish(v, s.seg)
                   \/ ~old /\ UNCHANGED refs
                /\ IF j.listed = {s}
                   THEN NextVolume(c, j)
                   ELSE /\ GoTo(c, "sweep.delete", [j EXCEPT !.listed = @ \ {s}])
                        /\ UNCHANGED seen
  /\ UNCHANGED <<log, repo, ops>>

-----------------------------------------------------------------------------
(* A command that changes nothing (a read, a refused or empty put) still   *)
(* opens the store.                                                        *)
Open ==
  /\ repo # Opened
  /\ \E c \in Clients : pc[c] = "idle"
  /\ repo' = Opened
  /\ UNCHANGED <<log, refs, pc, job, seen, ops>>

(* The orphan window passes over a segment.  Commands are short against    *)
(* the window: a segment stays young while the commands run that were      *)
(* running when it was pushed, and those that overlap them.                *)
Age ==
  /\ \A c \in Clients : pc[c] = "idle"
  /\ \E v \in Volumes : \E s \in refs[v] :
       /\ ~s.old
       /\ refs' = [refs EXCEPT ![v] = (@ \ {s}) \cup {[s EXCEPT !.old = TRUE]}]
  /\ UNCHANGED <<log, repo, pc, job, seen, ops>>

(* Power loss, a kill, or a step that fails: the process ends and leaves   *)
(* what it has done.                                                       *)
Crash(c) ==
  /\ pc[c] # "idle"
  /\ Finish(c)
  /\ UNCHANGED <<log, refs, repo, ops>>

Start(c) == PutStart(c) \/ RemoveStart(c) \/ CompactStart(c)

Step(c) ==
  \/ PutPush(c) \/ PutLoad(c) \/ PutCas(c)
  \/ RemoveLoad(c) \/ RemoveCas(c)
  \/ CompactRewrite(c) \/ CompactLoad(c) \/ CompactCas(c)
  \/ CompactReclaim(c) \/ RemovalStops(c) \/ CompactRecreate(c) \/ CompactDelete(c)
  \/ CasRejected(c) \/ CasAnswerLost(c)
  \/ SweepLoad(c) \/ SweepList(c) \/ SweepDelete(c)

Next == Open \/ Age \/ \E c \in Clients : Start(c) \/ Step(c) \/ Crash(c)

Spec == Init /\ [][Next]_vars

(* A process that runs takes its next step, or fails at it.                *)
FairSpec == Spec /\ \A c \in Clients : WF_vars(Step(c) \/ Crash(c))

-----------------------------------------------------------------------------
(* Properties.                                                             *)

(* INV-1, "data first, manifest last": every chunk a file of the store     *)
(* names can be read where its manifest says.                              *)
NoDangling == \A r \in ChunkRefs(log.st.ns) : HasChunk(r)

(* Where removals may stop half way: a chunk a file names can be read, or  *)
(* it was in a segment that such a removal left as a ref without objects.  *)
(* Nothing else loses data, and no ref is deleted that a file needs.       *)
OnlyHollowDangle ==
  \A r \in ChunkRefs(log.st.ns) : \E s \in refs[r.vol] :
    s.seg = r.seg /\ (r.id \in s.ids \/ s.ids = {})

(* The log is the single authority for byte accounting: every placement in *)
(* the namespace has its record in the segment index, with the chunk's     *)
(* bytes in it.                                                            *)
Accounted ==
  \A r \in ChunkRefs(log.st.ns) : \E rec \in log.st.idx :
    rec.vol = r.vol /\ rec.seg = r.seg /\ rec.bytes >= Clen[r.id]

(* No volume is ever charged with more than its volume-full threshold.     *)
BudgetWall == \A v \in Volumes : volume_used(v, log.st.idx) <= Threshold[v]

(* Puts that overlap choose from the same accounting and may overfill a    *)
(* volume together, however they are retried: by what one segment can hold *)
(* for each client but one, and no more.                                   *)
OverrunBounded ==
  \A v \in Volumes :
    volume_used(v, log.st.idx)
      <= Threshold[v] + (Cardinality(Clients) - 1) * Max({BytesOf(S) : S \in Contents})

(* `dead = total.saturating_sub(live)` never has to saturate: a volume     *)
(* holds at least the bytes of the chunks alive on it.                     *)
LiveWithinTotal ==
  \A v \in Volumes : live_bytes(log.st.ns, v) <= volume_used(v, log.st.idx)

(* What a client read of the log is the log's state for as long as the tip *)
(* is the one it read: the premise of building a commit from it.           *)
SnapshotFresh ==
  \A c \in Clients : /\ seen[c].tip <= log.tip
                     /\ seen[c].tip = log.tip => seen[c] = log

(* A compaction that commits frees bytes: the index it leaves charges less *)
(* in all than the one it replaces, whatever ran since it read the log.    *)
AllBytes(st) == MapThenSumSet(LAMBDA v : volume_used(v, st.idx), Volumes)

CompactionFrees ==
  [][(\E c \in Clients : pc[c] = "compact.cas" /\ log'.tip # log.tip /\ pc'[c] # "compact.cas")
       => AllBytes(log'.st) < AllBytes(log.st)]_vars

(* A repository is emptied only when nothing references it: between the    *)
(* commit that retires a volume and the removal of its segments, no        *)
(* manifest may come to point at it again.                                 *)
ReclaimsGarbage ==
  \A c \in Clients :
    pc[c] \in {"compact.reclaim", "compact.delete"} => RefsOn(log.st.ns, job[c].vol) = {}

(* Every command ends.                                                     *)
CommandsEnd == \A c \in Clients : pc[c] # "idle" ~> pc[c] = "idle"

(* A local put never finds its volume without a HEAD, whichever compaction *)
(* died while it removed the repository or before it recreated it: opening *)
(* the store repairs that.                                                 *)
PutFindsVolume ==
  \A c \in Clients : pc[c] = "put.push" => repo[job[c].vol] \notin {"headless", "gone"}

-----------------------------------------------------------------------------
(* The engine implements FileStore: puts and removals take effect at their *)
(* commit, one after the other, on exactly the file they name; compaction, *)
(* the sweep and crashes are invisible.                                    *)
files == [n \in Names |-> IF log.st.ns[n] = NoFile THEN NoFile ELSE Ids(log.st.ns[n])]

calls ==
  [c \in Clients |->
     CASE job[c].cmd = "put" ->
            [op |-> "put", name |-> job[c].name, content |-> Ids(job[c].manifest)]
       [] job[c].cmd = "rm" -> [op |-> "rm", name |-> job[c].name]
       [] OTHER -> [op |-> "none"]]

FS == INSTANCE FileStore WITH MayRepeat <- Transport # "local"

(* Every behaviour of the engine is one of the store FileStore promises.   *)
ImplementsFileStore == FS!Spec
=============================================================================
