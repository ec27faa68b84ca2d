----------------------------- MODULE EngineProofs -----------------------------
(***************************************************************************)
(* Proofs about Engine, for every value of its constants that satisfies    *)
(* the named assumptions and any number of clients that put, remove and    *)
(* compact: types, snapshots, and that the engine implements FileStore.    *)
(***************************************************************************)
EXTENDS Engine, StateProofs

Job == PutJob \cup RemoveJob \cup CompactJob \cup SweepJob \cup {NoJob}

(* Which command's locals a client has, and what is known of them, follows *)
(* from the step it is at.                                                 *)
Suits(step, j) ==
  /\ step \in {"idle", "sweep.load"} => j = NoJob
  /\ step = "put.push" => j \in PutJob /\ j.vol \in Volumes
  /\ step \in {"put.load", "put.cas"} => j \in PutJob /\ (j.staged = {} \/ j.vol \in Volumes)
  /\ step \in {"rm.load", "rm.cas"} => j \in RemoveJob
  /\ step \in {"compact.rewrite", "compact.load", "compact.cas", "compact.reclaim",
              "compact.recreate", "compact.delete"} => j \in CompactJob /\ j.dest # j.vol
  /\ step \in {"sweep.volume", "sweep.delete"} => j \in SweepJob /\ j.next \in Volumes

JobsSuit == \A c \in Clients : Suits(pc[c], job[c])

TypeInv == TypeOK /\ JobsSuit

-----------------------------------------------------------------------------
(* The steps of a client keep TypeInv.                                     *)

(* The destination of a compaction is another volume.                      *)
LEMMA DestIsOther ==
  ASSUME NEW v, NEW base, NEW dest \in CompactDest(v, base)
  PROVE  dest \in Volumes /\ dest # v
  BY DEF CompactDest, select_compact_dest, Roomiest

(* A client that goes to a step with locals that suit it.                  *)
LEMMA GoToKeeps ==
  ASSUME TypeInv, NEW c \in Clients, NEW step \in Steps, NEW j \in Job,
         Suits(step, j), GoTo(c, step, j)
  PROVE  /\ pc' \in [Clients -> Steps]
         /\ job' \in [Clients -> Job]
         /\ JobsSuit'
  <1>1. pc \in [Clients -> Steps] /\ job \in [Clients -> Job]
    BY DEF TypeInv, TypeOK, Job
  <1>2. pc' \in [Clients -> Steps] /\ job' \in [Clients -> Job]
    BY <1>1 DEF GoTo
  <1>3. ASSUME NEW d \in Clients PROVE Suits(pc'[d], job'[d])
    BY <1>1 DEF GoTo, TypeInv, JobsSuit
  <1> QED BY <1>2, <1>3 DEF JobsSuit

(* A client that ends its command.                                         *)
LEMMA FinishKeeps ==
  ASSUME TypeInv, NEW c \in Clients, Finish(c)
  PROVE  /\ pc' \in [Clients -> Steps]
         /\ job' \in [Clients -> Job]
         /\ JobsSuit'
  <1>1. "idle" \in Steps /\ NoJob \in Job /\ Suits("idle", NoJob)
    BY DEF Steps, Job, Suits
  <1> QED BY <1>1, GoToKeeps DEF Finish

(* A compaction that goes on to its next candidate, or to the sweep.       *)
LEMMA NextCandidateKeeps ==
  ASSUME TypeInv, NEW c \in Clients, NEW base \in State, NEW todo \in SUBSET Volumes,
         NextCandidate(c, base, todo)
  PROVE  /\ pc' \in [Clients -> Steps]
         /\ job' \in [Clients -> Job]
         /\ JobsSuit'
  <1> DEFINE viable == {v \in todo : CompactDest(v, base) # {}}
  <1>1. CASE GoTo(c, "sweep.load", NoJob)
    <2>1. "sweep.load" \in Steps /\ NoJob \in Job /\ Suits("sweep.load", NoJob)
      BY DEF Steps, Job, Suits
    <2> QED BY <1>1, <2>1, GoToKeeps
  <1>2. ASSUME NEW v \in viable, NEW dest \in CompactDest(v, base),
               GoTo(c, IF live_ids(base.ns, v) = {} THEN "compact.load" ELSE "compact.rewrite",
                       [cmd |-> "compact", base |-> base, later |-> viable \ {v},
                        vol |-> v, dest |-> dest, live |-> live_ids(base.ns, v),
                        listed |-> {}, tries |-> 0])
        PROVE  /\ pc' \in [Clients -> Steps]
               /\ job' \in [Clients -> Job]
               /\ JobsSuit'
    <2> DEFINE step == IF live_ids(base.ns, v) = {} THEN "compact.load" ELSE "compact.rewrite"
               j == [cmd |-> "compact", base |-> base, later |-> viable \ {v},
                     vol |-> v, dest |-> dest, live |-> live_ids(base.ns, v),
                     listed |-> {}, tries |-> 0]
    <2>1. live_ids(base.ns, v) \subseteq Chunks
      BY RefsType DEF State
    <2>2. j \in CompactJob /\ j.dest # j.vol
      BY <2>1, DestIsOther DEF CompactJob
    <2>3. step \in Steps /\ Suits(step, j) /\ j \in Job
      BY <2>2 DEF Steps, Suits, Job
    <2> HIDE DEF step, j
    <2>4. GoTo(c, step, j)
      BY <1>2 DEF step, j
    <2> QED BY <2>3, <2>4, GoToKeeps
  <1> QED BY <1>1, <1>2 DEF NextCandidate

(* The transactions a client builds.                                       *)
LEMMA PutTxnType ==
  ASSUME NEW j \in PutJob, j.staged = {} \/ j.vol \in Volumes
  PROVE  PutTxn(j) \in Txn
  <1>1. j.name \in Names /\ j.manifest \in Manifest /\ j.seg \in SegId
        /\ j.staged \in SUBSET Chunks
    BY DEF PutJob, SegId
  <1>2. (IF j.staged = {} THEN {} ELSE Seal(j.vol, j.seg, j.staged)) \in SUBSET SegRec
    BY <1>1, SealType
  <1> QED BY <1>1, <1>2 DEF PutTxn, DeltaPut, Txn

(* What a compaction commits is a transaction.                             *)
LEMMA CompactionType ==
  ASSUME TypeInv, NEW c \in Clients, NEW j \in CompactJob
  PROVE  CompactionOf(c, j) \in Txn
  <1>1. j.vol \in Volumes /\ j.dest \in Volumes /\ j.live \in SUBSET Chunks
    BY DEF CompactJob
  <1>2. RewriteOf(j) \in SegId
    BY <1>1 DEF RewriteOf, compact_segment_id, SegId, CompactSegId
  <1>3. (IF j.live = {} THEN {} ELSE Seal(j.dest, RewriteOf(j), j.live)) \in SUBSET SegRec
    BY <1>1, <1>2, SealType
  <1>4. Repointed(seen[c].st.ns, j.vol, j.dest, RewriteOf(j)) \in Namespace
    BY <1>1, <1>2, RepointedType DEF TypeInv, TypeOK, Log, State
  <1> QED BY <1>1, <1>3, <1>4 DEF CompactionOf, CompactTxn, Txn

(* A commit leaves a log behind.                                           *)
LEMMA CommitType ==
  ASSUME TypeInv, NEW c \in Clients, NEW txn \in Txn, Commit(c, txn)
  PROVE  log' \in Log
  <1>1. seen[c] \in Log /\ log \in Log
    BY DEF TypeInv, TypeOK
  <1>2. apply_txn(seen[c].st, txn) \in State
    BY <1>1, ApplyType DEF Log
  <1> QED BY <1>1, <1>2 DEF Commit, Log

(* The log of a new store is a log.                                        *)
LEMMA EmptyLogType == EmptyLog \in Log
  BY DEF EmptyLog, Log, EmptyState, State, Namespace

(* A published segment is a segment.                                       *)
LEMMA PublishType ==
  ASSUME TypeInv, NEW v \in Volumes, NEW seg \in SegId, NEW ids \in SUBSET Chunks,
         Publish(v, seg, ids)
  PROVE  refs' \in [Volumes -> SUBSET Segment]
  <1>1. refs \in [Volumes -> SUBSET Segment]
    BY DEF TypeInv, TypeOK
  <1>2. [seg |-> seg, ids |-> ids, old |-> FALSE] \in Segment
    BY DEF Segment
  <1> QED BY <1>1, <1>2 DEF Publish

(* A client whose compare-and-swap did not report success.                 *)
LEMMA RetryKeeps ==
  ASSUME TypeInv, NEW c \in Clients, AtCas(c), Retry(c)
  PROVE  /\ pc' \in [Clients -> Steps]
         /\ job' \in [Clients -> Job]
         /\ seen' \in [Clients -> Log]
         /\ JobsSuit'
  <1> DEFINE j == [job[c] EXCEPT !.tries = @ + 1]
  <1>1. seen' \in [Clients -> Log]
    BY EmptyLogType DEF Retry, Forget, TypeInv, TypeOK
  <1>2. Suits(pc[c], job[c])
    BY DEF TypeInv, JobsSuit
  <1>3. CASE pc[c] = "put.cas"
    <2>1. job[c] \in PutJob /\ (job[c].staged = {} \/ job[c].vol \in Volumes)
      BY <1>2, <1>3 DEF Suits
    <2>2. j \in PutJob /\ (j.staged = {} \/ j.vol \in Volumes)
      BY <2>1 DEF PutJob
    <2>3. "put.load" \in Steps /\ j \in Job /\ Suits("put.load", j)
      BY <2>2 DEF Steps, Job, Suits
    <2>4. GoTo(c, "put.load", j) \/ GoTo(c, "idle", NoJob)
      BY <1>3 DEF Retry
    <2>5. "idle" \in Steps /\ NoJob \in Job /\ Suits("idle", NoJob)
      BY DEF Steps, Job, Suits
    <2> HIDE DEF j
    <2> QED BY <1>1, <2>3, <2>4, <2>5, GoToKeeps
  <1>4. CASE pc[c] = "rm.cas"
    <2>1. job[c] \in RemoveJob
      BY <1>2, <1>4 DEF Suits
    <2>2. j \in RemoveJob
      BY <2>1 DEF RemoveJob
    <2>3. "rm.load" \in Steps /\ j \in Job /\ Suits("rm.load", j)
      BY <2>2 DEF Steps, Job, Suits
    <2>4. GoTo(c, "rm.load", j) \/ GoTo(c, "idle", NoJob)
      BY <1>4 DEF Retry
    <2>5. "idle" \in Steps /\ NoJob \in Job /\ Suits("idle", NoJob)
      BY DEF Steps, Job, Suits
    <2> HIDE DEF j
    <2> QED BY <1>1, <2>3, <2>4, <2>5, GoToKeeps
  <1>5. CASE pc[c] = "compact.cas"
    <2>1. job[c] \in CompactJob /\ job[c].dest # job[c].vol
      BY <1>2, <1>5 DEF Suits
    <2>2. j \in CompactJob /\ j.dest # j.vol
      BY <2>1 DEF CompactJob
    <2>3. "compact.load" \in Steps /\ j \in Job /\ Suits("compact.load", j)
      BY <2>2 DEF Steps, Job, Suits
    <2>4. j.base \in State /\ j.later \in SUBSET Volumes
      BY <2>2 DEF CompactJob
    <2>5. GoTo(c, "compact.load", j) \/ NextCandidate(c, j.base, j.later)
      BY <1>5 DEF Retry
    <2> HIDE DEF j
    <2> QED BY <1>1, <2>3, <2>4, <2>5, GoToKeeps, NextCandidateKeeps
  <1> QED BY <1>3, <1>4, <1>5 DEF AtCas

-----------------------------------------------------------------------------
(* Types are an invariant.  TypeOK is not inductive by itself: that PutCas *)
(* finds the locals of a put is what JobsSuit adds.                        *)

(* A new store is type correct.                                            *)
LEMMA InitTypes == Init => TypeInv
  <1> SUFFICES ASSUME Init PROVE TypeInv
    OBVIOUS
  <1>1. log \in Log /\ seen \in [Clients -> Log]
    BY EmptyLogType DEF Init
  <1>2. refs \in [Volumes -> SUBSET Segment] /\ repo \in [Volumes -> RepoState] /\ ops \in Nat
    BY DEF Init, RepoState
  <1>3. pc \in [Clients -> Steps] /\ job \in [Clients -> Job]
    BY DEF Init, Steps, Job
  <1>4. JobsSuit
    BY DEF Init, JobsSuit, Suits
  <1> QED BY <1>1, <1>2, <1>3, <1>4 DEF TypeInv, TypeOK, Job

(* The steps of a put keep the types.                                      *)
LEMMA PutKeepsTypes ==
  ASSUME TypeInv, NEW c \in Clients,
         PutStart(c) \/ PutPush(c) \/ PutLoad(c) \/ PutCas(c)
  PROVE  TypeInv'
  <1> USE DEF TypeInv
  <1>0. /\ log \in Log /\ seen \in [Clients -> Log] /\ repo \in [Volumes -> RepoState] /\ ops \in Nat
        /\ refs \in [Volumes -> SUBSET Segment]
        /\ log.st.ns \in Namespace /\ log.st.idx \in SUBSET SegRec
        /\ Suits(pc[c], job[c])
    BY DEF TypeOK, JobsSuit, Log, State
  <1>1. CASE PutStart(c)
    <2>1. PICK name \in Names, S \in Contents :
            LET reused == {r \in Known(log.st.ns) : r.id \in S}
                staged == S \ Ids(reused)
                seg    == [by |-> "put", n |-> ops]
            IN \E v \in IF staged = {} THEN {NoVolume}
                        ELSE select_volume(BytesOf(staged), log.st.idx) :
                 LET manifest == reused \cup {[id |-> id, vol |-> v, seg |-> seg] : id \in staged}
                 IN /\ staged # {} \/ log.st.ns[name] # manifest
                    /\ GoTo(c, IF staged = {} THEN "put.load" ELSE "put.push",
                            [cmd |-> "put", name |-> name, manifest |-> manifest,
                             staged |-> staged, vol |-> v, seg |-> seg, tries |-> 0])
      BY <1>1 DEF PutStart
    <2> DEFINE reused == {r \in Known(log.st.ns) : r.id \in S}
               staged == S \ Ids(reused)
               seg    == [by |-> "put", n |-> ops]
    <2>2. PICK v \in IF staged = {} THEN {NoVolume}
                      ELSE select_volume(BytesOf(staged), log.st.idx) :
            GoTo(c, IF staged = {} THEN "put.load" ELSE "put.push",
                 [cmd |-> "put", name |-> name,
                  manifest |-> reused \cup {[id |-> id, vol |-> v, seg |-> seg] : id \in staged},
                  staged |-> staged, vol |-> v, seg |-> seg, tries |-> 0])
      BY <2>1
    <2> DEFINE manifest == reused \cup {[id |-> id, vol |-> v, seg |-> seg] : id \in staged}
               step == IF staged = {} THEN "put.load" ELSE "put.push"
               j == [cmd |-> "put", name |-> name, manifest |-> manifest,
                     staged |-> staged, vol |-> v, seg |-> seg, tries |-> 0]
    <2>3. S \subseteq Chunks /\ staged \subseteq Chunks
      BY EngineAssumption
    <2>4. seg \in PutSegId /\ seg \in SegId
      BY <1>0 DEF PutSegId, SegId
    <2>5. (staged = {} /\ v = NoVolume) \/ v \in Volumes
      BY DEF select_volume, Roomiest
    <2>6. manifest \in Manifest
      <3>1. reused \subseteq ChunkRef
        BY <1>0, RefsType
      <3>2. \A id \in staged : [id |-> id, vol |-> v, seg |-> seg] \in ChunkRef
        BY <2>3, <2>4, <2>5 DEF ChunkRef
      <3> QED BY <3>1, <3>2 DEF Manifest
    <2> HIDE DEF manifest, staged, seg
    <2>7. j \in PutJob
      BY <2>3, <2>4, <2>5, <2>6 DEF PutJob
    <2>8. step \in Steps /\ j \in Job /\ Suits(step, j)
      BY <2>5, <2>7 DEF Steps, Job, Suits
    <2>9. GoTo(c, step, j)
      BY <2>2 DEF manifest, staged, seg
    <2> HIDE DEF step, j
    <2>10. repo' \in [Volumes -> RepoState] /\ ops' \in Nat
      BY <1>0, <1>1 DEF PutStart, Begin, Opened, Initialised, RepoState
    <2> QED BY <1>0, <1>1, <2>8, <2>9, <2>10, GoToKeeps DEF PutStart, TypeOK, Job
  <1>2. CASE PutPush(c)
    <2>1. job[c] \in PutJob /\ job[c].vol \in Volumes
      BY <1>0, <1>2 DEF PutPush, Suits
    <2>2. refs' \in [Volumes -> SUBSET Segment]
      BY <1>2, <2>1, PublishType DEF PutPush, PutJob, SegId
    <2>3. "put.load" \in Steps /\ job[c] \in Job /\ Suits("put.load", job[c])
      BY <2>1 DEF Steps, Job, Suits
    <2> QED BY <1>0, <1>2, <2>2, <2>3, GoToKeeps DEF PutPush, TypeOK, Job
  <1>3. CASE PutLoad(c)
    <2>1. job[c] \in PutJob /\ (job[c].staged = {} \/ job[c].vol \in Volumes)
      BY <1>0, <1>3 DEF PutLoad, Suits
    <2>2. "put.cas" \in Steps /\ job[c] \in Job /\ Suits("put.cas", job[c])
      BY <2>1 DEF Steps, Job, Suits
    <2>3. Finish(c) \/ (Load(c) /\ GoTo(c, "put.cas", job[c]))
      BY <1>3 DEF PutLoad
    <2>4. seen' \in [Clients -> Log]
      BY <1>0, <2>3, EmptyLogType DEF Finish, Forget, Load
    <2> QED BY <1>0, <1>3, <2>2, <2>3, <2>4, GoToKeeps, FinishKeeps DEF PutLoad, TypeOK, Job
  <1>4. CASE PutCas(c)
    <2>1. PutTxn(job[c]) \in Txn
      BY <1>0, <1>4, PutTxnType DEF PutCas, Suits
    <2>2. log' \in Log
      BY <1>4, <2>1, CommitType DEF PutCas
    <2>3. seen' \in [Clients -> Log]
      BY <1>0, <1>4, EmptyLogType DEF PutCas, Finish, Forget
    <2> QED BY <1>0, <1>4, <2>2, <2>3, FinishKeeps DEF PutCas, TypeOK, Job
  <1> QED BY <1>1, <1>2, <1>3, <1>4

(* The steps of a removal keep the types.                                  *)
LEMMA RemoveKeepsTypes ==
  ASSUME TypeInv, NEW c \in Clients, RemoveStart(c) \/ RemoveLoad(c) \/ RemoveCas(c)
  PROVE  TypeInv'
  <1> USE DEF TypeInv
  <1>0. /\ log \in Log /\ seen \in [Clients -> Log] /\ repo \in [Volumes -> RepoState] /\ ops \in Nat
        /\ refs \in [Volumes -> SUBSET Segment]
        /\ Suits(pc[c], job[c])
    BY DEF TypeOK, JobsSuit
  <1>1. CASE RemoveStart(c)
    <2>1. PICK name \in Stored(log.st.ns) :
            GoTo(c, "rm.load", [cmd |-> "rm", name |-> name, tries |-> 0])
      BY <1>1 DEF RemoveStart
    <2> DEFINE j == [cmd |-> "rm", name |-> name, tries |-> 0]
    <2>2. "rm.load" \in Steps /\ j \in Job /\ Suits("rm.load", j)
      BY DEF Steps, Job, Suits, RemoveJob, Stored
    <2>3. repo' \in [Volumes -> RepoState] /\ ops' \in Nat
      BY <1>0, <1>1 DEF RemoveStart, Begin, Opened, Initialised, RepoState
    <2> HIDE DEF j
    <2>4. GoTo(c, "rm.load", j)
      BY <2>1 DEF j
    <2> QED BY <1>0, <1>1, <2>2, <2>3, <2>4, GoToKeeps DEF RemoveStart, TypeOK, Job
  <1>2. CASE RemoveLoad(c)
    <2>1. job[c] \in RemoveJob
      BY <1>0, <1>2 DEF RemoveLoad, Suits
    <2>2. "rm.cas" \in Steps /\ job[c] \in Job /\ Suits("rm.cas", job[c])
      BY <2>1 DEF Steps, Job, Suits
    <2>3. Finish(c) \/ (Load(c) /\ GoTo(c, "rm.cas", job[c]))
      BY <1>2 DEF RemoveLoad
    <2>4. seen' \in [Clients -> Log]
      BY <1>0, <2>3, EmptyLogType DEF Finish, Forget, Load
    <2> QED BY <1>0, <1>2, <2>2, <2>3, <2>4, GoToKeeps, FinishKeeps DEF RemoveLoad, TypeOK, Job
  <1>3. CASE RemoveCas(c)
    <2>1. job[c] \in RemoveJob
      BY <1>0, <1>3 DEF RemoveCas, Suits
    <2>2. DeltaRemove(job[c].name) \in Txn
      BY <2>1 DEF RemoveJob, DeltaRemove, Txn
    <2>3. log' \in Log
      BY <1>3, <2>2, CommitType DEF RemoveCas
    <2>4. seen' \in [Clients -> Log]
      BY <1>0, <1>3, EmptyLogType DEF RemoveCas, Finish, Forget
    <2> QED BY <1>0, <1>3, <2>3, <2>4, FinishKeeps DEF RemoveCas, TypeOK, Job
  <1> QED BY <1>1, <1>2, <1>3

(* What a removal leaves of a set of segments is some of them, and hollow  *)
(* ones.                                                                   *)
LEMMA RemainsType ==
  ASSUME NEW segments \in SUBSET Segment, NEW left \in Remains(segments)
  PROVE  /\ left \subseteq Segment
         /\ \A s \in left : s \in segments \/ s.ids = {}
  <1>1. PICK kept \in SUBSET segments, hollow \in SUBSET segments :
          left = kept \cup {[s EXCEPT !.ids = {}] : s \in hollow}
    <2> DEFINE Left(kept) == {kept \cup {[s EXCEPT !.ids = {}] : s \in hollow} :
                                hollow \in SUBSET (segments \ kept)}
    <2>1. left \in UNION {Left(kept) : kept \in SUBSET segments}
      BY DEF Remains
    <2>2. PICK kept \in SUBSET segments : left \in Left(kept)
      <3> HIDE DEF Left
      <3> QED BY <2>1
    <2>3. PICK hollow \in SUBSET segments : left = kept \cup {[s EXCEPT !.ids = {}] : s \in hollow}
      BY <2>2
    <2> QED BY <2>3
  <1>2. \A s \in hollow : [s EXCEPT !.ids = {}] \in Segment /\ [s EXCEPT !.ids = {}].ids = {}
    BY DEF Segment
  <1> QED BY <1>1, <1>2

(* The steps of a compaction keep the types.                               *)
LEMMA CompactKeepsTypes ==
  ASSUME TypeInv, NEW c \in Clients,
         \/ CompactStart(c) \/ CompactRewrite(c) \/ CompactLoad(c) \/ CompactCas(c)
         \/ CompactReclaim(c) \/ RemovalStops(c) \/ CompactRecreate(c) \/ CompactDelete(c)
  PROVE  TypeInv'
  <1> USE DEF TypeInv
  <1> DEFINE j == job[c]
  <1>0. /\ log \in Log /\ seen \in [Clients -> Log] /\ repo \in [Volumes -> RepoState] /\ ops \in Nat
        /\ refs \in [Volumes -> SUBSET Segment]
        /\ Suits(pc[c], j)
    BY DEF TypeOK, JobsSuit
  <1>1. CASE CompactStart(c)
    <2>1. PICK todo \in {{}, Candidates(log.st)} : NextCandidate(c, log.st, todo)
      BY <1>1 DEF CompactStart
    <2>2. todo \in SUBSET Volumes
      BY DEF Candidates
    <2>3. log.st \in State
      BY <1>0 DEF Log
    <2>4. repo' \in [Volumes -> RepoState] /\ ops' \in Nat
      BY <1>0, <1>1 DEF CompactStart, Begin, Opened, Initialised, RepoState
    <2> QED BY <1>0, <1>1, <2>1, <2>2, <2>3, <2>4, NextCandidateKeeps
            DEF CompactStart, TypeOK, Job
  <1>2. ASSUME pc[c] \in {"compact.rewrite", "compact.load", "compact.cas", "compact.reclaim",
                          "compact.recreate", "compact.delete"}
        PROVE  /\ j \in CompactJob /\ j.dest # j.vol
               /\ j.base \in State /\ j.later \in SUBSET Volumes
               /\ j.vol \in Volumes /\ j.dest \in Volumes /\ j.live \in SUBSET Chunks
               /\ RewriteOf(j) \in SegId
               /\ j \in Job
               /\ Suits("compact.load", j) /\ Suits("compact.cas", j)
               /\ Suits("compact.reclaim", j) /\ Suits("compact.recreate", j)
    <2>1. j \in CompactJob /\ j.dest # j.vol
      BY <1>0, <1>2 DEF Suits
    <2>2. /\ j.base \in State /\ j.later \in SUBSET Volumes
          /\ j.vol \in Volumes /\ j.dest \in Volumes /\ j.live \in SUBSET Chunks
      BY <2>1 DEF CompactJob
    <2>3. RewriteOf(j) \in SegId
      BY <2>2 DEF RewriteOf, compact_segment_id, SegId, CompactSegId
    <2>4. /\ j \in Job
          /\ Suits("compact.load", j) /\ Suits("compact.cas", j)
          /\ Suits("compact.reclaim", j) /\ Suits("compact.recreate", j)
      BY <2>1 DEF Job, Suits
    <2> QED BY <2>1, <2>2, <2>3, <2>4
  <1>3. {"compact.load", "compact.cas", "compact.reclaim", "compact.recreate",
         "compact.delete"} \subseteq Steps
    BY DEF Steps
  <1>4. CASE CompactRewrite(c)
    <2>1. UNCHANGED refs \/ Publish(j.dest, RewriteOf(j), j.live)
      BY <1>4 DEF CompactRewrite
    <2>2. refs' \in [Volumes -> SUBSET Segment]
      BY <1>0, <1>2, <1>4, <2>1, PublishType DEF CompactRewrite
    <2> QED BY <1>0, <1>2, <1>3, <1>4, <2>2, GoToKeeps DEF CompactRewrite, TypeOK, Job
  <1>5. CASE CompactLoad(c)
    <2>1. \/ NextCandidate(c, j.base, j.later) /\ UNCHANGED seen
          \/ GoTo(c, "compact.reclaim", j) /\ UNCHANGED seen
          \/ GoTo(c, "compact.cas", j) /\ Load(c)
      BY <1>5 DEF CompactLoad
    <2>2. pc[c] = "compact.load"
      BY <1>5 DEF CompactLoad
    <2>3. seen' \in [Clients -> Log]
      BY <1>0, <2>1 DEF Load
    <2>4. pc' \in [Clients -> Steps] /\ job' \in [Clients -> Job] /\ JobsSuit'
      BY <1>2, <1>3, <2>1, <2>2, GoToKeeps, NextCandidateKeeps
    <2> QED BY <1>0, <1>5, <2>3, <2>4 DEF CompactLoad, TypeOK, Job
  <1>6. CASE CompactCas(c)
    <2>1. pc[c] = "compact.cas"
      BY <1>6 DEF CompactCas
    <2>2. CompactionOf(c, j) \in Txn
      BY <1>2, <2>1, CompactionType
    <2>3. log' \in Log
      BY <1>6, <2>2, CommitType DEF CompactCas
    <2>4. seen' \in [Clients -> Log]
      BY <1>0, <1>6, EmptyLogType DEF CompactCas, Forget
    <2> QED BY <1>0, <1>2, <1>3, <1>6, <2>1, <2>3, <2>4, GoToKeeps DEF CompactCas, TypeOK, Job
  <1>7. CASE CompactReclaim(c)
    <2>1. pc[c] = "compact.reclaim"
      BY <1>7 DEF CompactReclaim
    <2>2. CASE Transport = "hosted"
      <3> DEFINE k == [j EXCEPT !.listed = refs[j.vol]]
      <3>1. k \in CompactJob /\ k.dest # k.vol
        BY <1>0, <1>2, <2>1 DEF CompactJob
      <3>2. k \in Job /\ Suits("compact.delete", k)
        BY <3>1 DEF Job, Suits
      <3>3. GoTo(c, "compact.delete", k) /\ UNCHANGED <<refs, repo>>
        BY <1>7, <2>2 DEF CompactReclaim
      <3> HIDE DEF k
      <3> QED BY <1>0, <1>3, <1>7, <3>2, <3>3, GoToKeeps DEF CompactReclaim, TypeOK, Job
    <2>3. CASE Transport # "hosted"
      <3>1. /\ refs' = [refs EXCEPT ![j.vol] = {}] /\ repo' = [repo EXCEPT ![j.vol] = "gone"]
            /\ GoTo(c, "compact.recreate", j)
        BY <1>7, <2>3 DEF CompactReclaim
      <3>2. refs' \in [Volumes -> SUBSET Segment] /\ repo' \in [Volumes -> RepoState]
        BY <1>0, <3>1 DEF RepoState
      <3> QED BY <1>0, <1>2, <1>3, <1>7, <2>1, <3>1, <3>2, GoToKeeps
              DEF CompactReclaim, TypeOK, Job
    <2> QED BY <2>2, <2>3
  <1>8. CASE CompactRecreate(c)
    <2>1. pc[c] = "compact.recreate" /\ NextCandidate(c, j.base, j.later)
      BY <1>8 DEF CompactRecreate
    <2>2. repo' \in [Volumes -> RepoState]
      BY <1>0, <1>2, <1>8, <2>1 DEF CompactRecreate, Initialised, RepoState
    <2> QED BY <1>0, <1>2, <1>8, <2>1, <2>2, NextCandidateKeeps DEF CompactRecreate, TypeOK, Job
  <1>9. CASE CompactDelete(c)
    <2>1. pc[c] = "compact.delete"
      BY <1>9 DEF CompactDelete
    <2>2. CASE NextCandidate(c, j.base, j.later) /\ UNCHANGED refs
      BY <1>0, <1>2, <1>9, <2>1, <2>2, NextCandidateKeeps DEF CompactDelete, TypeOK, Job
    <2>3. ASSUME NEW s \in j.listed,
                 Unpublish(j.vol, s.seg),
                 GoTo(c, "compact.delete", [j EXCEPT !.listed = @ \ {s}])
          PROVE  TypeInv'
      <3> DEFINE k == [j EXCEPT !.listed = @ \ {s}]
      <3>1. k \in CompactJob /\ k.dest # k.vol
        BY <1>0, <1>2, <2>1 DEF CompactJob
      <3>2. k \in Job /\ Suits("compact.delete", k)
        BY <3>1 DEF Job, Suits
      <3>3. refs' \in [Volumes -> SUBSET Segment]
        BY <1>0, <2>3 DEF Unpublish
      <3>4. GoTo(c, "compact.delete", k)
        BY <2>3
      <3> HIDE DEF k
      <3> QED BY <1>0, <1>3, <1>9, <3>2, <3>3, <3>4, GoToKeeps DEF CompactDelete, TypeOK, Job
    <2> QED BY <1>9, <2>2, <2>3 DEF CompactDelete
  <1>10. CASE RemovalStops(c)
    <2>1. pc[c] = "compact.reclaim" /\ UNCHANGED <<log, ops>>
      BY <1>10 DEF RemovalStops
    <2>2. PICK left \in Remains(refs[j.vol]), state \in {"headless", "torn", repo[j.vol]} :
            /\ refs' = [refs EXCEPT ![j.vol] = left]
            /\ repo' = [repo EXCEPT ![j.vol] = state]
            /\ \/ Finish(c)
               \/ /\ GoTo(c, "compact.delete", [j EXCEPT !.listed = left])
                  /\ UNCHANGED seen
      BY <1>10 DEF RemovalStops
    <2>3. left \subseteq Segment /\ j.vol \in Volumes
      BY <1>0, <1>2, <2>1, RemainsType
    <2>4. refs' \in [Volumes -> SUBSET Segment] /\ repo' \in [Volumes -> RepoState]
      BY <1>0, <2>2, <2>3 DEF RepoState
    <2>5. CASE Finish(c)
      <3>1. seen' \in [Clients -> Log]
        BY <1>0, <2>5, EmptyLogType DEF Finish, Forget
      <3> QED BY <2>1, <2>4, <2>5, <3>1, <1>0, FinishKeeps DEF TypeOK, Job
    <2>6. CASE GoTo(c, "compact.delete", [j EXCEPT !.listed = left]) /\ UNCHANGED seen
      <3> DEFINE k == [j EXCEPT !.listed = left]
      <3>1. k \in CompactJob /\ k.dest # k.vol
        BY <1>2, <2>1, <2>3 DEF CompactJob
      <3>2. k \in Job /\ Suits("compact.delete", k)
        BY <3>1 DEF Job, Suits
      <3>3. GoTo(c, "compact.delete", k)
        BY <2>6
      <3> HIDE DEF k
      <3> QED BY <1>0, <1>3, <2>1, <2>4, <2>6, <3>2, <3>3, GoToKeeps DEF TypeOK, Job
    <2> QED BY <2>2, <2>5, <2>6
  <1> QED BY <1>1, <1>4, <1>5, <1>6, <1>7, <1>8, <1>9, <1>10

(* A compare-and-swap that does not report success keeps the types.        *)
LEMMA CasKeepsTypes ==
  ASSUME TypeInv, NEW c \in Clients, CasRejected(c) \/ CasAnswerLost(c)
  PROVE  TypeInv'
  <1> USE DEF TypeInv
  <1>0. /\ log \in Log /\ repo \in [Volumes -> RepoState] /\ ops \in Nat
        /\ refs \in [Volumes -> SUBSET Segment]
        /\ Suits(pc[c], job[c])
    BY DEF TypeOK, JobsSuit
  <1>1. CASE CasRejected(c)
    BY <1>0, <1>1, RetryKeeps DEF CasRejected, TypeOK, Job
  <1>2. CASE CasAnswerLost(c)
    <2>1. AtCas(c)
      BY <1>2 DEF CasAnswerLost
    <2>2. CASE pc[c] = "put.cas"
      <3>1. PutTxn(job[c]) \in Txn
        BY <1>0, <2>2, PutTxnType DEF Suits
      <3>2. Commit(c, PutTxn(job[c]))
        BY <1>2, <2>2 DEF CasAnswerLost
      <3>3. log' \in Log
        BY <3>1, <3>2, CommitType
      <3> QED BY <1>0, <1>2, <2>1, <3>3, RetryKeeps DEF CasAnswerLost, TypeOK, Job
    <2>3. CASE pc[c] = "rm.cas"
      <3>1. DeltaRemove(job[c].name) \in Txn
        BY <1>0, <2>3 DEF Suits, RemoveJob, DeltaRemove, Txn
      <3>2. Commit(c, DeltaRemove(job[c].name))
        BY <1>2, <2>3 DEF CasAnswerLost
      <3>3. log' \in Log
        BY <3>1, <3>2, CommitType
      <3> QED BY <1>0, <1>2, <2>1, <3>3, RetryKeeps DEF CasAnswerLost, TypeOK, Job
    <2>4. CASE pc[c] = "compact.cas"
      <3>1. CompactionOf(c, job[c]) \in Txn
        BY <1>0, <2>4, CompactionType DEF Suits
      <3>2. Commit(c, CompactionOf(c, job[c]))
        BY <1>2, <2>4 DEF CasAnswerLost
      <3>3. log' \in Log
        BY <3>1, <3>2, CommitType
      <3> QED BY <1>0, <1>2, <2>1, <3>3, RetryKeeps DEF CasAnswerLost, TypeOK, Job
    <2> QED BY <2>1, <2>2, <2>3, <2>4 DEF AtCas
  <1> QED BY <1>1, <1>2

(* A step of the sweep over the volumes: the sweep ends, or it goes on     *)
(* with the same references, to delete no more than it had listed or lists *)
(* now.                                                                    *)
LEMMA SweepGoesOn ==
  ASSUME TypeInv, NEW c \in Clients, SweepList(c) \/ SweepDelete(c)
  PROVE  /\ job[c] \in SweepJob /\ job[c].next \in Volumes
         /\ \/ Finish(c)
            \/ \E step \in {"sweep.volume", "sweep.delete"}, k \in SweepJob :
                 /\ GoTo(c, step, k)
                 /\ UNCHANGED seen
                 /\ k.next \in Volumes
                 /\ k.referenced = job[c].referenced
                 /\ step = "sweep.delete" =>
                      /\ k.next = job[c].next
                      /\ k.listed \subseteq (IF SweepList(c) THEN Orphans(c, k.next)
                                                            ELSE job[c].listed)
  <1> DEFINE j == job[c]
  <1>1. j \in SweepJob /\ j.next \in Volumes
    BY DEF TypeInv, JobsSuit, Suits, SweepList, SweepDelete
  <1>2. ASSUME NextVolume(c, j)
        PROVE  \/ Finish(c)
               \/ \E k \in SweepJob : /\ GoTo(c, "sweep.volume", k) /\ UNCHANGED seen
                                       /\ k.next \in Volumes /\ k.referenced = j.referenced
    <2> DEFINE k == [j EXCEPT !.next = @ + 1, !.listed = {}]
    <2>1. CASE j.next = NumVolumes
      BY <1>2, <2>1 DEF NextVolume
    <2>2. CASE j.next # NumVolumes
      <3>1. GoTo(c, "sweep.volume", k) /\ UNCHANGED seen
        BY <1>2, <2>2 DEF NextVolume
      <3>2. j.next + 1 \in Volumes
        BY <1>1, <2>2, VolumesAssumption DEF Volumes
      <3> DEFINE i == [j EXCEPT !.next = j.next + 1]
      <3>3. i \in SweepJob /\ i.next = j.next + 1 /\ i.referenced = j.referenced
        BY <1>1, <3>2 DEF SweepJob, Volumes
      <3>4. k = [i EXCEPT !.listed = {}]
        OBVIOUS
      <3> HIDE DEF i, k
      <3>5. k \in SweepJob /\ k.next \in Volumes /\ k.referenced = j.referenced
        BY <3>2, <3>3, <3>4 DEF SweepJob
      <3> QED BY <3>1, <3>5
    <2> QED BY <2>1, <2>2
  <1>3. CASE SweepList(c)
    <2> DEFINE L == Orphans(c, j.next)
               k == [j EXCEPT !.listed = L]
    <2>1. \/ NextVolume(c, j)
          \/ GoTo(c, "sweep.delete", k) /\ UNCHANGED seen
      BY <1>3 DEF SweepList
    <2>2. L \in SUBSET Segment
      BY <1>1 DEF Orphans, TypeInv, TypeOK
    <2>3. k \in SweepJob /\ k.next = j.next /\ k.referenced = j.referenced /\ k.listed = L
      BY <1>1, <2>2 DEF SweepJob
    <2> HIDE DEF k, L
    <2>4. CASE GoTo(c, "sweep.delete", k) /\ UNCHANGED seen
      <3>1. k.listed \subseteq (IF SweepList(c) THEN Orphans(c, k.next) ELSE j.listed)
        BY <1>3, <2>3 DEF L
      <3> QED BY <1>1, <2>3, <2>4, <3>1
    <2> QED BY <1>1, <1>2, <2>1, <2>4
  <1>4. CASE ~SweepList(c)
    <2>1. PICK s \in j.listed : \/ NextVolume(c, j)
                                \/ /\ GoTo(c, "sweep.delete", [j EXCEPT !.listed = @ \ {s}])
                                   /\ UNCHANGED seen
      BY <1>4 DEF SweepDelete
    <2> DEFINE k == [j EXCEPT !.listed = @ \ {s}]
    <2>2. k \in SweepJob /\ k.next = j.next /\ k.referenced = j.referenced
      BY <1>1 DEF SweepJob
    <2>3. k.listed \subseteq j.listed
      BY <1>1 DEF SweepJob
    <2>4. \/ NextVolume(c, j)
          \/ GoTo(c, "sweep.delete", k) /\ UNCHANGED seen
      BY <2>1
    <2> HIDE DEF k
    <2>5. CASE GoTo(c, "sweep.delete", k) /\ UNCHANGED seen
      BY <1>1, <1>4, <2>2, <2>3, <2>5
    <2> QED BY <1>1, <1>2, <2>4, <2>5
  <1> QED BY <1>3, <1>4

(* A step of the sweep over the volumes deletes at most one ref, which it  *)
(* had listed.                                                             *)
LEMMA SweepUnpublishes ==
  ASSUME NEW c, SweepList(c) \/ SweepDelete(c)
  PROVE  /\ UNCHANGED <<log, repo, ops>>
         /\ \/ UNCHANGED refs
            \/ /\ pc[c] = "sweep.delete"
               /\ \E s \in job[c].listed : Unpublish(job[c].next, s.seg)
  BY DEF SweepList, SweepDelete

(* Where a sweep goes on.                                                  *)
LEMMA SweepMoves ==
  ASSUME NEW c, SweepLoad(c) \/ SweepList(c) \/ SweepDelete(c)
  PROVE  /\ log' = log
         /\ Finish(c) \/ \E j : GoTo(c, "sweep.volume", j) \/ GoTo(c, "sweep.delete", j)
  BY DEF SweepLoad, SweepList, SweepDelete, NextVolume

(* The steps of the sweep keep the types.                                  *)
LEMMA SweepKeepsTypes ==
  ASSUME TypeInv, NEW c \in Clients, SweepLoad(c) \/ SweepList(c) \/ SweepDelete(c)
  PROVE  TypeInv'
  <1> USE DEF TypeInv
  <1>0. /\ log \in Log /\ seen \in [Clients -> Log] /\ repo \in [Volumes -> RepoState] /\ ops \in Nat
        /\ refs \in [Volumes -> SUBSET Segment]
    BY DEF TypeOK
  <1>1. "sweep.volume" \in Steps /\ "sweep.delete" \in Steps
    BY DEF Steps
  <1>2. CASE SweepLoad(c)
    <2> DEFINE j == [cmd |-> "sweep", referenced |-> Referenced(log.st.ns), next |-> 1,
                     listed |-> {}]
    <2>1. Referenced(log.st.ns) \in SUBSET (Volumes \X SegId)
      BY <1>0, RefsType DEF Log, State, Referenced, ChunkRef
    <2>2. j \in SweepJob /\ 1 \in Volumes
      BY <2>1, VolumesAssumption DEF SweepJob, Volumes
    <2>3. j \in Job /\ Suits("sweep.volume", j)
      BY <2>2 DEF Job, Suits
    <2>4. GoTo(c, "sweep.volume", j)
      BY <1>2 DEF SweepLoad
    <2> HIDE DEF j
    <2> QED BY <1>0, <1>1, <1>2, <2>3, <2>4, GoToKeeps DEF SweepLoad, TypeOK, Job
  <1>3. CASE SweepList(c) \/ SweepDelete(c)
    <2>1. UNCHANGED <<log, repo, ops>> /\ refs' \in [Volumes -> SUBSET Segment]
      BY <1>0, <1>3, SweepUnpublishes DEF Unpublish
    <2>2. CASE Finish(c)
      <3>1. seen' \in [Clients -> Log]
        BY <1>0, <2>2, EmptyLogType DEF Finish, Forget
      <3> QED BY <1>0, <2>1, <2>2, <3>1, FinishKeeps DEF TypeOK, Job
    <2>3. CASE ~Finish(c)
      <3>1. PICK step \in {"sweep.volume", "sweep.delete"}, k \in SweepJob :
              GoTo(c, step, k) /\ UNCHANGED seen /\ k.next \in Volumes
        BY <1>3, <2>3, SweepGoesOn
      <3>2. k \in Job /\ Suits(step, k)
        BY <3>1 DEF Job, Suits
      <3> QED BY <1>0, <1>1, <2>1, <3>1, <3>2, GoToKeeps DEF TypeOK, Job
    <2> QED BY <2>2, <2>3
  <1> QED BY <1>2, <1>3

(* Opening a store, time, a crash and a stutter keep the types.            *)
LEMMA OtherStepsKeepTypes ==
  ASSUME TypeInv, Open \/ Age \/ (\E c \in Clients : Crash(c)) \/ UNCHANGED vars
  PROVE  TypeInv'
  <1> USE DEF TypeInv
  <1>0. /\ seen \in [Clients -> Log] /\ repo \in [Volumes -> RepoState]
        /\ refs \in [Volumes -> SUBSET Segment]
    BY DEF TypeOK
  <1>1. CASE Open
    <2>1. repo' \in [Volumes -> RepoState]
      BY <1>0, <1>1 DEF Open, Opened, Initialised, RepoState
    <2>2. UNCHANGED <<log, refs, pc, job, seen, ops>>
      BY <1>1 DEF Open
    <2>3. JobsSuit'
      BY <2>2 DEF JobsSuit, Suits
    <2> QED BY <2>1, <2>2, <2>3 DEF TypeOK
  <1>2. CASE Age
    <2>1. PICK v \in Volumes : \E s \in refs[v] :
            refs' = [refs EXCEPT ![v] = (@ \ {s}) \cup {[s EXCEPT !.old = TRUE]}]
      BY <1>2 DEF Age
    <2>2. ASSUME NEW s \in refs[v] PROVE [s EXCEPT !.old = TRUE] \in Segment
      <3>1. s \in Segment
        BY <1>0
      <3> QED BY <3>1 DEF Segment
    <2>3. refs' \in [Volumes -> SUBSET Segment]
      BY <1>0, <2>1, <2>2
    <2>4. UNCHANGED <<log, repo, pc, job, seen, ops>>
      BY <1>2 DEF Age
    <2>5. JobsSuit'
      BY <2>4 DEF JobsSuit, Suits
    <2> QED BY <2>3, <2>4, <2>5 DEF TypeOK
  <1>3. ASSUME NEW c \in Clients, Crash(c) PROVE TypeInv'
    <2>1. seen' \in [Clients -> Log]
      BY <1>0, <1>3, EmptyLogType DEF Crash, Finish, Forget
    <2> QED BY <1>3, <2>1, FinishKeeps DEF Crash, TypeOK, Job
  <1>4. CASE UNCHANGED vars
    BY <1>4 DEF vars, TypeOK, JobsSuit, Suits
  <1> QED BY <1>1, <1>2, <1>3, <1>4

(* TypeInv is inductive.                                                   *)
LEMMA StepKeepsTypes == TypeInv /\ [Next]_vars => TypeInv'
  BY PutKeepsTypes, RemoveKeepsTypes, CompactKeepsTypes, CasKeepsTypes, SweepKeepsTypes,
     OtherStepsKeepTypes DEF Next, Start, Step

(* Every variable keeps its type, and the locals of a client are those of  *)
(* the command it runs, whatever the clients do and wherever they die.     *)
THEOREM TypesHold == Spec => []TypeInv
  BY InitTypes, StepKeepsTypes, PTL DEF Spec

(* TypeOK, the type invariant of Engine, holds in every reachable state.   *)
THEOREM TypeCorrect == Spec => []TypeOK
  BY TypesHold, PTL DEF TypeInv

-----------------------------------------------------------------------------
(* What a client read of the log is current while the tip is.  A tip of 0  *)
(* must stand for the empty log, since that is what an idle client's seen  *)
(* is compared with.                                                       *)
SnapshotInv ==
  /\ TypeInv
  /\ SnapshotFresh
  /\ log.tip = 0 => log = EmptyLog

(* The log moves by commits only, and a client that moves it does not keep *)
(* what it read.                                                           *)
LEMMA LogMoves ==
  ASSUME TypeInv, [Next]_vars
  PROVE  \/ log' = log /\ \A d \in Clients : seen'[d] \in {seen[d], EmptyLog, log}
         \/ log'.tip = log.tip + 1 /\ \A d \in Clients : seen'[d] \in {seen[d], EmptyLog}
  <1>0. seen \in [Clients -> Log]
    BY DEF TypeInv, TypeOK
  <1> DEFINE Still == log' = log /\ \A d \in Clients : seen'[d] \in {seen[d], EmptyLog, log}
             Moved == log'.tip = log.tip + 1
                        /\ \A d \in Clients : seen'[d] \in {seen[d], EmptyLog}
  <1>1. ASSUME Open \/ Age \/ UNCHANGED vars PROVE Still
    BY <1>1 DEF Open, Age, vars
  <1>2. ASSUME NEW c \in Clients, Start(c) PROVE Still
    BY <1>2 DEF Start, PutStart, RemoveStart, CompactStart
  <1>3. ASSUME NEW c \in Clients, Crash(c) PROVE Still
    BY <1>0, <1>3 DEF Crash, Finish, Forget
  <1>4. ASSUME NEW c \in Clients, PutLoad(c) \/ RemoveLoad(c) \/ CompactLoad(c) PROVE Still
    BY <1>0, <1>4 DEF PutLoad, RemoveLoad, CompactLoad, Load, Finish, Forget
  <1>5. ASSUME NEW c \in Clients, PutCas(c) \/ RemoveCas(c) \/ CompactCas(c) PROVE Moved
    BY <1>0, <1>5 DEF PutCas, RemoveCas, CompactCas, Commit, Finish, Forget
  <1>6. ASSUME NEW c \in Clients, CasRejected(c) PROVE Still
    BY <1>0, <1>6 DEF CasRejected, Retry, Forget
  <1>7. ASSUME NEW c \in Clients, CasAnswerLost(c) PROVE Moved
    BY <1>0, <1>7 DEF CasAnswerLost, Commit, Retry, Forget
  <1>8. ASSUME NEW c \in Clients,
               \/ PutPush(c) \/ CompactRewrite(c) \/ CompactReclaim(c)
               \/ CompactRecreate(c) \/ CompactDelete(c) \/ SweepLoad(c)
        PROVE  Still
    BY <1>8 DEF PutPush, CompactRewrite, CompactReclaim, CompactRecreate, CompactDelete, SweepLoad
  <1>9. ASSUME NEW c \in Clients, SweepList(c) \/ SweepDelete(c) PROVE Still
    BY <1>0, <1>9 DEF SweepList, SweepDelete, NextVolume, Finish, Forget
  <1>11. ASSUME NEW c \in Clients, RemovalStops(c) PROVE Still
    BY <1>0, <1>11 DEF RemovalStops, Finish, Forget
  <1> HIDE DEF Still, Moved
  <1>10. Still \/ Moved
    BY <1>1, <1>2, <1>3, <1>4, <1>5, <1>6, <1>7, <1>8, <1>9, <1>11 DEF Next, Step
  <1> QED BY <1>10 DEF Still, Moved

(* SnapshotInv is inductive.                                               *)
LEMMA SnapshotStep == SnapshotInv /\ [Next]_vars => SnapshotInv'
  <1> SUFFICES ASSUME SnapshotInv, [Next]_vars PROVE SnapshotInv'
    OBVIOUS
  <1>1. TypeInv' /\ TypeInv
    BY StepKeepsTypes DEF SnapshotInv
  <1>2. log.tip \in Nat /\ EmptyLog.tip = 0 /\ \A d \in Clients : seen[d].tip \in Nat
    BY <1>1 DEF TypeInv, TypeOK, Log, EmptyLog
  <1>3. CASE log' = log /\ \A d \in Clients : seen'[d] \in {seen[d], EmptyLog, log}
    BY <1>1, <1>2, <1>3 DEF SnapshotInv, SnapshotFresh
  <1>4. CASE log'.tip = log.tip + 1 /\ \A d \in Clients : seen'[d] \in {seen[d], EmptyLog}
    BY <1>1, <1>2, <1>4 DEF SnapshotInv, SnapshotFresh
  <1> QED BY <1>1, <1>3, <1>4, LogMoves

(* SnapshotInv holds in every reachable state.                             *)
LEMMA SnapshotsHold == Spec => []SnapshotInv
  <1>1. ASSUME Init PROVE SnapshotInv
    <2>1. log = EmptyLog /\ log.tip = 0 /\ \A c \in Clients : seen[c] = EmptyLog
      BY <1>1 DEF Init, EmptyLog
    <2> QED BY <1>1, <2>1, InitTypes DEF SnapshotInv, SnapshotFresh
  <1> QED BY <1>1, SnapshotStep, PTL DEF Spec

(* No client ever builds a commit from anything but the state it replaces: *)
(* equal tips mean equal states.                                           *)
THEOREM SnapshotsFresh == Spec => []SnapshotFresh
  BY SnapshotsHold, PTL DEF SnapshotInv

-----------------------------------------------------------------------------
(* For the proofs to come: what a put and a removal add to the references  *)
(* of a state, and what the passing of time leaves as it was.              *)

(* A put adds to the references of the store those of its manifest only.   *)
LEMMA PutAddsManifest ==
  ASSUME NEW st \in State, NEW j \in PutJob, j.staged = {} \/ j.vol \in Volumes
  PROVE  ChunkRefs(apply_txn(st, PutTxn(j)).ns) \subseteq ChunkRefs(st.ns) \cup j.manifest
  <1>1. apply_txn(st, PutTxn(j)).ns = [st.ns EXCEPT ![j.name] = j.manifest]
    BY DEF apply_txn, PutTxn, DeltaPut
  <1>2. st.ns \in Namespace /\ j.name \in Names
    BY DEF State, PutJob
  <1> QED BY <1>1, <1>2 DEF ChunkRefs, Stored, Namespace

(* A removal adds no reference.                                            *)
LEMMA RemoveAddsNothing ==
  ASSUME NEW st \in State, NEW name \in Names
  PROVE  ChunkRefs(apply_txn(st, DeltaRemove(name)).ns) \subseteq ChunkRefs(st.ns)
  <1>1. apply_txn(st, DeltaRemove(name)).ns = [st.ns EXCEPT ![name] = NoFile]
    BY DEF apply_txn, DeltaRemove
  <1>2. st.ns \in Namespace
    BY DEF State
  <1> QED BY <1>1, <1>2 DEF ChunkRefs, Stored, Namespace

(* Time takes no chunk away.                                               *)
LEMMA AgeKeepsChunks ==
  ASSUME refs \in [Volumes -> SUBSET Segment], Age, NEW r \in ChunkRef, HasChunk(r)
  PROVE  HasChunk(r)'
  <1>1. PICK v \in Volumes : \E s \in refs[v] :
          refs' = [refs EXCEPT ![v] = (@ \ {s}) \cup {[s EXCEPT !.old = TRUE]}]
    BY DEF Age
  <1>2. PICK s \in refs[v] :
          refs' = [refs EXCEPT ![v] = (@ \ {s}) \cup {[s EXCEPT !.old = TRUE]}]
    BY <1>1
  <1>3. PICK q \in refs[r.vol] : q.seg = r.seg /\ r.id \in q.ids
    BY DEF HasChunk
  <1>4. r.vol \in Volumes /\ q \in Segment
    BY <1>3 DEF ChunkRef
  <1>5. CASE r.vol = v /\ q = s
    <2>1. [q EXCEPT !.old = TRUE] \in refs'[r.vol]
      BY <1>2, <1>4, <1>5
    <2>2. [q EXCEPT !.old = TRUE].seg = q.seg /\ [q EXCEPT !.old = TRUE].ids = q.ids
      BY <1>4 DEF Segment
    <2> QED BY <1>3, <2>1, <2>2 DEF HasChunk
  <1>6. CASE ~(r.vol = v /\ q = s)
    <2>1. q \in refs'[r.vol]
      BY <1>2, <1>3, <1>4, <1>6
    <2> QED BY <1>3, <2>1 DEF HasChunk
  <1> QED BY <1>5, <1>6

-----------------------------------------------------------------------------
(* The engine implements FileStore: every step is a step of FileStore, or  *)
(* changes neither the files nor the calls.                                *)

CallOf(j) ==
  CASE j.cmd = "put" -> [op |-> "put", name |-> j.name, content |-> Ids(j.manifest)]
    [] j.cmd = "rm" -> [op |-> "rm", name |-> j.name]
    [] OTHER -> [op |-> "none"]

FilesOf(ns) == [n \in Names |-> IF ns[n] = NoFile THEN NoFile ELSE Ids(ns[n])]

-----------------------------------------------------------------------------
(* What the steps do to the files and the calls.                           *)

(* The refinement mapping, in terms of the log and of the jobs.            *)
LEMMA Mapping == files = FilesOf(log.st.ns) /\ calls = [c \in Clients |-> CallOf(job[c])]
  BY DEF files, calls, FilesOf, CallOf

(* The call a job stands for, for each kind of job.                        *)
LEMMA CallsByKind ==
  /\ \A j \in PutJob : CallOf(j) = [op |-> "put", name |-> j.name, content |-> Ids(j.manifest)]
  /\ \A j \in RemoveJob : CallOf(j) = [op |-> "rm", name |-> j.name]
  /\ \A j \in CompactJob \cup SweepJob \cup {NoJob} : CallOf(j) = FS!NoCall
  <1>1. \A j \in PutJob : j.cmd = "put"
    BY DEF PutJob
  <1>2. \A j \in RemoveJob : j.cmd = "rm"
    BY DEF RemoveJob
  <1>3. \A j \in CompactJob \cup SweepJob \cup {NoJob} : j.cmd \in {"compact", "sweep", "none"}
    BY DEF CompactJob, SweepJob, NoJob
  <1> QED BY <1>1, <1>2, <1>3 DEF CallOf, FS!NoCall

(* When a client's job changes, so does its call and no other.             *)
LEMMA CallsMove ==
  ASSUME TypeInv, NEW c \in Clients, NEW step, NEW j, GoTo(c, step, j)
  PROVE  calls' = [calls EXCEPT ![c] = CallOf(j)]
  <1>1. DOMAIN job = Clients
    BY DEF TypeInv, TypeOK
  <1>2. job' = [job EXCEPT ![c] = j]
    BY DEF GoTo
  <1>3. calls = [d \in Clients |-> CallOf(job[d])] /\ calls' = [d \in Clients |-> CallOf(job'[d])]
    BY DEF calls, CallOf
  <1> QED BY <1>1, <1>2, <1>3

(* A new job for the same call leaves the calls as they were.              *)
LEMMA CallsStay ==
  ASSUME TypeInv, NEW c \in Clients, NEW step, NEW j, GoTo(c, step, j), CallOf(j) = CallOf(job[c])
  PROVE  calls' = calls
  <1>1. calls = [d \in Clients |-> CallOf(job[d])] /\ calls[c] = CallOf(j)
    BY Mapping
  <1> QED BY <1>1, CallsMove

(* Applying a put changes the file it names, to its content.               *)
LEMMA PutChangesFile ==
  ASSUME NEW st \in State, NEW j \in PutJob
  PROVE  FilesOf(apply_txn(st, PutTxn(j)).ns) = [FilesOf(st.ns) EXCEPT ![j.name] = Ids(j.manifest)]
  <1>1. apply_txn(st, PutTxn(j)).ns = [st.ns EXCEPT ![j.name] = j.manifest]
    BY DEF apply_txn, PutTxn, DeltaPut
  <1>2. st.ns \in Namespace /\ j.manifest # NoFile
    BY NoFileIsNoManifest DEF State, PutJob
  <1> QED BY <1>1, <1>2 DEF FilesOf, Namespace

(* Applying a removal takes away the file it names.                        *)
LEMMA RemoveChangesFile ==
  ASSUME NEW st \in State, NEW name \in Names
  PROVE  FilesOf(apply_txn(st, DeltaRemove(name)).ns) = [FilesOf(st.ns) EXCEPT ![name] = NoFile]
  <1>1. apply_txn(st, DeltaRemove(name)).ns = [st.ns EXCEPT ![name] = NoFile]
    BY DEF apply_txn, DeltaRemove
  <1>2. st.ns \in Namespace
    BY DEF State
  <1> QED BY <1>1, <1>2 DEF FilesOf, Namespace

(* A file keeps its chunks when a compaction points it elsewhere.          *)
LEMMA CompactionChangesNoFile ==
  ASSUME NEW st \in State, NEW v \in Volumes, NEW dest \in Volumes, NEW seg \in SegId, NEW txn,
         txn.kind = "compact", txn.repoint = Repointed(st.ns, v, dest, seg)
  PROVE  FilesOf(apply_txn(st, txn).ns) = FilesOf(st.ns)
  <1> DEFINE rep == Repointed(st.ns, v, dest, seg)
             new == [n \in Names |-> IF rep[n] # NoFile THEN rep[n] ELSE st.ns[n]]
             moved(n) == {IF q.vol = v THEN [id |-> q.id, vol |-> dest, seg |-> seg] ELSE q : q \in st.ns[n]}
  <1>1. apply_txn(st, txn).ns = new
    BY DEF apply_txn
  <1>2. rep \in Namespace /\ st.ns \in Namespace
    BY RepointedType DEF State
  <1>3. ASSUME NEW n \in Names
        PROVE  /\ new[n] = NoFile <=> st.ns[n] = NoFile
               /\ st.ns[n] # NoFile => Ids(new[n]) = Ids(st.ns[n])
    <2>1. CASE rep[n] = NoFile
      BY <2>1
    <2>2. CASE rep[n] # NoFile
      <3>1. n \in Stored(st.ns) /\ rep[n] = moved(n)
        BY <2>2 DEF Repointed
      <3>2. Ids(moved(n)) = Ids(st.ns[n])
        <4> DEFINE at(q) == IF q.vol = v THEN [id |-> q.id, vol |-> dest, seg |-> seg] ELSE q
        <4>1. \A q : at(q).id = q.id
          OBVIOUS
        <4>2. moved(n) = {at(q) : q \in st.ns[n]}
          OBVIOUS
        <4> HIDE DEF at, moved
        <4>3. Ids(moved(n)) = {at(q).id : q \in st.ns[n]}
          BY <4>2 DEF Ids
        <4> QED BY <4>1, <4>3 DEF Ids
      <3> HIDE DEF moved
      <3> QED BY <2>2, <3>1, <3>2 DEF Stored
    <2> QED BY <2>1, <2>2
  <1> HIDE DEF new
  <1> QED BY <1>1, <1>3 DEF FilesOf

-----------------------------------------------------------------------------
(* Each step is one of FileStore's, or none.                               *)
Quiet == UNCHANGED <<files, calls>>

(* A command that ends is a call that returns.                             *)
LEMMA FinishReturns ==
  ASSUME TypeInv, NEW c \in Clients, Finish(c), files' = files
  PROVE  FS!Return(c)
  BY CallsMove, CallsByKind DEF Finish, FS!Return, FS!End

(* Any step that leaves the log alone leaves the files alone.              *)
LEMMA FilesStay == ASSUME log' = log PROVE files' = files
  BY DEF files

(* Going on to the next candidate is invisible.                            *)
LEMMA NextCandidateQuiet ==
  ASSUME TypeInv, NEW c \in Clients, CallOf(job[c]) = FS!NoCall, NEW base, NEW todo,
         NextCandidate(c, base, todo)
  PROVE  calls' = calls
  <1>1. CASE GoTo(c, "sweep.load", NoJob)
    BY <1>1, CallsByKind, CallsStay
  <1>2. CASE ~GoTo(c, "sweep.load", NoJob)
    <2>1. PICK step, v, dest, viable :
            GoTo(c, step,
                 [cmd |-> "compact", base |-> base, later |-> viable \ {v},
                  vol |-> v, dest |-> dest, live |-> live_ids(base.ns, v),
                  listed |-> {}, tries |-> 0])
      BY <1>2 DEF NextCandidate
    <2> DEFINE j == [cmd |-> "compact", base |-> base, later |-> viable \ {v},
                     vol |-> v, dest |-> dest, live |-> live_ids(base.ns, v),
                     listed |-> {}, tries |-> 0]
    <2>2. CallOf(j) = FS!NoCall
      BY DEF CallOf, FS!NoCall
    <2>3. GoTo(c, step, j)
      BY <2>1
    <2> HIDE DEF j
    <2> QED BY <2>2, <2>3, CallsStay
  <1> QED BY <1>1, <1>2

(* A command that starts is a call that begins, or nothing.                *)
LEMMA StartRefines ==
  ASSUME SnapshotInv, NEW c \in Clients, Start(c)
  PROVE  FS!Begin(c) \/ Quiet
  <1>1. TypeInv /\ log' = log /\ pc[c] = "idle"
    BY DEF SnapshotInv, Start, PutStart, RemoveStart, CompactStart, Begin
  <1>2. job[c] = NoJob
    BY <1>1 DEF TypeInv, JobsSuit, Suits
  <1>3. calls[c] = FS!NoCall /\ CallOf(job[c]) = FS!NoCall
    BY <1>2, CallsByKind, Mapping
  <1>4. CASE PutStart(c)
    <2>1. PICK name \in Names, S \in Contents :
            LET reused == {r \in Known(log.st.ns) : r.id \in S}
                staged == S \ Ids(reused)
                seg    == [by |-> "put", n |-> ops]
            IN \E v \in IF staged = {} THEN {NoVolume}
                        ELSE select_volume(BytesOf(staged), log.st.idx) :
                 LET manifest == reused \cup {[id |-> id, vol |-> v, seg |-> seg] : id \in staged}
                 IN /\ staged # {} \/ log.st.ns[name] # manifest
                    /\ GoTo(c, IF staged = {} THEN "put.load" ELSE "put.push",
                            [cmd |-> "put", name |-> name, manifest |-> manifest,
                             staged |-> staged, vol |-> v, seg |-> seg, tries |-> 0])
      BY <1>4 DEF PutStart
    <2> DEFINE reused == {r \in Known(log.st.ns) : r.id \in S}
               staged == S \ Ids(reused)
               seg    == [by |-> "put", n |-> ops]
    <2>2. PICK v, step :
            GoTo(c, step,
                 [cmd |-> "put", name |-> name,
                  manifest |-> reused \cup {[id |-> id, vol |-> v, seg |-> seg] : id \in staged},
                  staged |-> staged, vol |-> v, seg |-> seg, tries |-> 0])
      BY <2>1
    <2> DEFINE new == {[id |-> id, vol |-> v, seg |-> seg] : id \in staged}
               j == [cmd |-> "put", name |-> name, manifest |-> reused \cup new,
                     staged |-> staged, vol |-> v, seg |-> seg, tries |-> 0]
    <2>3. Ids(reused \cup new) = S
      <3>1. Ids(new) = staged
        <4> DEFINE at(id) == [id |-> id, vol |-> v, seg |-> seg]
        <4>1. \A id : at(id).id = id
          OBVIOUS
        <4>2. new = {at(id) : id \in staged}
          OBVIOUS
        <4> HIDE DEF at, new, staged
        <4>3. Ids(new) = {at(id).id : id \in staged}
          BY <4>2 DEF Ids
        <4> QED BY <4>1, <4>3
      <3>2. Ids(reused \cup new) = Ids(reused) \cup Ids(new)
        BY DEF Ids
      <3>3. Ids(reused) \subseteq S
        BY DEF Ids
      <3> QED BY <3>1, <3>2, <3>3
    <2>4. CallOf(j) = [op |-> "put", name |-> name, content |-> S]
      BY <2>3 DEF CallOf
    <2>5. GoTo(c, step, j)
      BY <2>2
    <2> HIDE DEF j
    <2>6. calls' = [calls EXCEPT ![c] = [op |-> "put", name |-> name, content |-> S]]
      BY <1>1, <2>4, <2>5, CallsMove
    <2>7. [op |-> "put", name |-> name, content |-> S] \in FS!Call
      BY DEF FS!Call
    <2> QED BY <1>1, <1>3, <2>6, <2>7, FilesStay DEF FS!Begin
  <1>5. CASE RemoveStart(c)
    <2>1. PICK name \in Names : GoTo(c, "rm.load", [cmd |-> "rm", name |-> name, tries |-> 0])
      BY <1>5 DEF RemoveStart, Stored
    <2> DEFINE j == [cmd |-> "rm", name |-> name, tries |-> 0]
    <2>2. CallOf(j) = [op |-> "rm", name |-> name]
      BY DEF CallOf
    <2>3. GoTo(c, "rm.load", j)
      BY <2>1
    <2> HIDE DEF j
    <2>4. calls' = [calls EXCEPT ![c] = [op |-> "rm", name |-> name]]
      BY <1>1, <2>2, <2>3, CallsMove
    <2>5. [op |-> "rm", name |-> name] \in FS!Call
      BY DEF FS!Call
    <2> QED BY <1>1, <1>3, <2>4, <2>5, FilesStay DEF FS!Begin
  <1>6. CASE CompactStart(c)
    <2>1. PICK todo \in {{}, Candidates(log.st)} : NextCandidate(c, log.st, todo)
      BY <1>6 DEF CompactStart
    <2> QED BY <1>1, <1>3, <2>1, NextCandidateQuiet, FilesStay DEF Quiet
  <1> QED BY <1>4, <1>5, <1>6 DEF Start

(* A commit takes effect on exactly the file the call names.               *)
LEMMA CommitRefines ==
  ASSUME SnapshotInv, NEW c \in Clients
  PROVE  /\ pc[c] = "put.cas" /\ Commit(c, PutTxn(job[c])) =>
              calls[c].op = "put" /\ files' = [files EXCEPT ![calls[c].name] = calls[c].content]
         /\ pc[c] = "rm.cas" /\ Commit(c, DeltaRemove(job[c].name)) =>
              calls[c].op = "rm" /\ files' = [files EXCEPT ![calls[c].name] = NoFile]
         /\ pc[c] = "compact.cas" /\ Commit(c, CompactionOf(c, job[c])) => files' = files
  <1>1. log.st \in State /\ Suits(pc[c], job[c])
    BY DEF SnapshotInv, TypeInv, TypeOK, Log, JobsSuit
  <1>2. ASSUME NEW txn, Commit(c, txn) PROVE seen[c] = log /\ log'.st = apply_txn(log.st, txn)
    BY <1>2 DEF Commit, OnTip, SnapshotInv, SnapshotFresh
  <1>3. files = FilesOf(log.st.ns) /\ files' = FilesOf(log'.st.ns) /\ calls[c] = CallOf(job[c])
    BY Mapping DEF files, FilesOf
  <1>4. ASSUME pc[c] = "put.cas", Commit(c, PutTxn(job[c]))
        PROVE  calls[c].op = "put" /\ files' = [files EXCEPT ![calls[c].name] = calls[c].content]
    <2>1. job[c] \in PutJob
      BY <1>1, <1>4 DEF Suits
    <2>2. calls[c] = [op |-> "put", name |-> job[c].name, content |-> Ids(job[c].manifest)]
      BY <1>3, <2>1, CallsByKind
    <2>3. files' = [files EXCEPT ![job[c].name] = Ids(job[c].manifest)]
      BY <1>1, <1>2, <1>3, <1>4, <2>1, PutChangesFile
    <2> QED BY <2>2, <2>3
  <1>5. ASSUME pc[c] = "rm.cas", Commit(c, DeltaRemove(job[c].name))
        PROVE  calls[c].op = "rm" /\ files' = [files EXCEPT ![calls[c].name] = NoFile]
    <2>1. job[c] \in RemoveJob /\ job[c].name \in Names
      BY <1>1, <1>5 DEF Suits, RemoveJob
    <2>2. calls[c] = [op |-> "rm", name |-> job[c].name]
      BY <1>3, <2>1, CallsByKind
    <2>3. log'.st = apply_txn(log.st, DeltaRemove(job[c].name))
      BY <1>2, <1>5
    <2>4. files' = [files EXCEPT ![job[c].name] = NoFile]
      BY <1>1, <1>3, <2>1, <2>3, RemoveChangesFile
    <2> QED BY <2>2, <2>4
  <1>6. ASSUME pc[c] = "compact.cas", Commit(c, CompactionOf(c, job[c])) PROVE files' = files
    <2> DEFINE j == job[c]
               txn == CompactionOf(c, j)
    <2>1. j.vol \in Volumes /\ j.dest \in Volumes /\ RewriteOf(j) \in SegId
      BY <1>1, <1>6 DEF Suits, CompactJob, RewriteOf, compact_segment_id, SegId, CompactSegId
    <2>2. seen[c] = log /\ log'.st = apply_txn(log.st, txn)
      BY <1>2, <1>6
    <2>3. txn.kind = "compact" /\ txn.repoint = Repointed(log.st.ns, j.vol, j.dest, RewriteOf(j))
      BY <2>2 DEF CompactionOf, CompactTxn
    <2> HIDE DEF txn, j
    <2> QED BY <1>1, <1>3, <2>1, <2>2, <2>3, CompactionChangesNoFile
  <1> QED BY <1>4, <1>5, <1>6

(* A retry goes on with the call or ends it.                               *)
LEMMA RetryCalls ==
  ASSUME TypeInv, NEW c \in Clients, AtCas(c), Retry(c)
  PROVE  calls' = calls \/ FS!End(c)
  <1> DEFINE j == [job[c] EXCEPT !.tries = @ + 1]
  <1>1. Suits(pc[c], job[c])
    BY DEF TypeInv, JobsSuit
  <1>2. GoTo(c, "idle", NoJob) => FS!End(c)
    BY CallsMove, CallsByKind DEF FS!End
  <1>3. CASE pc[c] = "put.cas"
    <2>1. j \in PutJob /\ j.name = job[c].name /\ j.manifest = job[c].manifest /\ job[c] \in PutJob
      BY <1>1, <1>3 DEF Suits, PutJob
    <2>2. CallOf(j) = CallOf(job[c])
      BY <2>1, CallsByKind
    <2>3. GoTo(c, "put.load", j) \/ GoTo(c, "idle", NoJob)
      BY <1>3 DEF Retry
    <2> HIDE DEF j
    <2> QED BY <1>2, <2>2, <2>3, CallsStay
  <1>4. CASE pc[c] = "rm.cas"
    <2>1. j \in RemoveJob /\ j.name = job[c].name /\ job[c] \in RemoveJob
      BY <1>1, <1>4 DEF Suits, RemoveJob
    <2>2. CallOf(j) = CallOf(job[c])
      BY <2>1, CallsByKind
    <2>3. GoTo(c, "rm.load", j) \/ GoTo(c, "idle", NoJob)
      BY <1>4 DEF Retry
    <2> HIDE DEF j
    <2> QED BY <1>2, <2>2, <2>3, CallsStay
  <1>5. CASE pc[c] = "compact.cas"
    <2>1. j \in CompactJob /\ job[c] \in CompactJob
      BY <1>1, <1>5 DEF Suits, CompactJob
    <2>2. CallOf(j) = CallOf(job[c]) /\ CallOf(job[c]) = FS!NoCall
      BY <2>1, CallsByKind
    <2>3. GoTo(c, "compact.load", j) \/ NextCandidate(c, j.base, j.later)
      BY <1>5 DEF Retry
    <2> HIDE DEF j
    <2> QED BY <2>2, <2>3, CallsStay, NextCandidateQuiet
  <1> QED BY <1>3, <1>4, <1>5 DEF AtCas

(* The steps of put and rm: a stutter, an effect or a return.              *)
LEMMA WriteRefines ==
  ASSUME SnapshotInv, NEW c \in Clients,
         PutPush(c) \/ PutLoad(c) \/ PutCas(c) \/ RemoveLoad(c) \/ RemoveCas(c)
  PROVE  FS!Effect(c) \/ FS!Return(c) \/ Quiet
  <1>1. TypeInv
    BY DEF SnapshotInv
  <1>2. ASSUME Finish(c) PROVE FS!End(c)
    BY <1>1, <1>2, CallsMove, CallsByKind DEF Finish, FS!End
  <1>3. CASE PutPush(c)
    BY <1>1, <1>3, CallsStay, FilesStay DEF PutPush, Quiet
  <1>4. CASE PutLoad(c) \/ RemoveLoad(c)
    <2>1. log' = log /\ (Finish(c) \/ GoTo(c, "put.cas", job[c]) \/ GoTo(c, "rm.cas", job[c]))
      BY <1>4 DEF PutLoad, RemoveLoad
    <2> QED BY <1>1, <1>2, <2>1, CallsStay, FilesStay DEF FS!Return, Quiet
  <1>5. CASE PutCas(c)
    BY <1>2, <1>5, CommitRefines DEF PutCas, FS!Effect
  <1>6. CASE RemoveCas(c)
    BY <1>2, <1>6, CommitRefines DEF RemoveCas, FS!Effect
  <1> QED BY <1>3, <1>4, <1>5, <1>6

(* The steps of compact are invisible.                                     *)
LEMMA CompactRefines ==
  ASSUME SnapshotInv, NEW c \in Clients,
         \/ CompactRewrite(c) \/ CompactLoad(c) \/ CompactCas(c)
         \/ CompactReclaim(c) \/ RemovalStops(c) \/ CompactRecreate(c) \/ CompactDelete(c)
  PROVE  Quiet
  <1> DEFINE j == job[c]
  <1>1. TypeInv /\ j \in CompactJob
    BY DEF SnapshotInv, TypeInv, JobsSuit, Suits, CompactRewrite, CompactLoad, CompactCas,
           CompactReclaim, RemovalStops, CompactRecreate, CompactDelete
  <1>2. CallOf(j) = FS!NoCall
    BY <1>1, CallsByKind
  <1>3. files' = files
    BY FilesStay, CommitRefines DEF CompactRewrite, CompactLoad, CompactCas,
       CompactReclaim, RemovalStops, CompactRecreate, CompactDelete
  <1>4. ASSUME NEW step, NEW L, GoTo(c, step, [j EXCEPT !.listed = L]) PROVE calls' = calls
    <2> DEFINE k == [j EXCEPT !.listed = L]
    <2>1. k.cmd = "compact"
      BY <1>1 DEF CompactJob
    <2>2. CallOf(k) = FS!NoCall
      BY <2>1 DEF CallOf, FS!NoCall
    <2>3. GoTo(c, step, k)
      BY <1>4
    <2> HIDE DEF k
    <2> QED BY <1>1, <1>2, <2>2, <2>3, CallsStay
  <1>5. \/ \E step : GoTo(c, step, j)
        \/ \E step, L : GoTo(c, step, [j EXCEPT !.listed = L])
        \/ NextCandidate(c, j.base, j.later)
        \/ GoTo(c, "idle", NoJob)
    <2>1. CASE RemovalStops(c)
      BY <2>1 DEF RemovalStops, Finish
    <2>2. CASE ~RemovalStops(c)
      BY <2>2 DEF CompactRewrite, CompactLoad, CompactCas, CompactReclaim, CompactRecreate,
                  CompactDelete
    <2> QED BY <2>1, <2>2
  <1>6. calls' = calls
    BY <1>1, <1>2, <1>4, <1>5, CallsStay, CallsByKind, NextCandidateQuiet
  <1> QED BY <1>3, <1>6 DEF Quiet

(* A compare-and-swap that does not report success: a return, a stutter,   *)
(* or an effect that may be repeated.                                      *)
LEMMA CasRefines ==
  ASSUME SnapshotInv, NEW c \in Clients, CasRejected(c) \/ CasAnswerLost(c)
  PROVE  FS!Effect(c) \/ FS!Return(c) \/ Quiet
  <1>1. AtCas(c) /\ (calls' = calls \/ FS!End(c))
    BY RetryCalls DEF CasRejected, CasAnswerLost, SnapshotInv
  <1>2. CASE CasRejected(c)
    BY <1>1, <1>2, FilesStay DEF CasRejected, FS!Return, Quiet
  <1>3. CASE CasAnswerLost(c)
    <2>1. Transport # "local"
      BY <1>3 DEF CasAnswerLost, Acks
    <2>2. CASE pc[c] \in {"put.cas", "rm.cas"}
      BY <1>1, <1>3, <2>1, <2>2, CommitRefines DEF CasAnswerLost, FS!Effect
    <2>3. CASE pc[c] = "compact.cas"
      BY <1>1, <1>3, <2>3, CommitRefines DEF CasAnswerLost, FS!Return, Quiet
    <2> QED BY <1>1, <2>2, <2>3 DEF AtCas
  <1> QED BY <1>2, <1>3

(* The sweep is invisible.                                                 *)
LEMMA SweepRefines ==
  ASSUME SnapshotInv, NEW c \in Clients, SweepLoad(c) \/ SweepList(c) \/ SweepDelete(c)
  PROVE  FS!Return(c) \/ Quiet
  <1>1. TypeInv /\ Suits(pc[c], job[c])
    BY DEF SnapshotInv, TypeInv, JobsSuit
  <1>2. files' = files
    BY FilesStay DEF SweepLoad, SweepList, SweepDelete
  <1>3. CASE SweepLoad(c)
    <2> DEFINE j == [cmd |-> "sweep", referenced |-> Referenced(log.st.ns), next |-> 1,
                     listed |-> {}]
    <2>1. CallOf(j) = FS!NoCall
      BY DEF CallOf, FS!NoCall
    <2>2. GoTo(c, "sweep.volume", j) /\ job[c] = NoJob
      BY <1>1, <1>3 DEF SweepLoad, Suits
    <2> HIDE DEF j
    <2> QED BY <1>1, <1>2, <2>1, <2>2, CallsByKind, CallsStay DEF Quiet
  <1>4. CASE SweepList(c) \/ SweepDelete(c)
    <2>1. CASE Finish(c)
      BY <1>1, <1>2, <2>1, FinishReturns
    <2>2. CASE ~Finish(c)
      <3>1. PICK step \in {"sweep.volume", "sweep.delete"}, k \in SweepJob : GoTo(c, step, k)
        BY <1>1, <1>4, <2>2, SweepGoesOn
      <3>2. CallOf(k) = FS!NoCall /\ CallOf(job[c]) = FS!NoCall
        BY <1>1, <1>4, SweepGoesOn, CallsByKind
      <3> QED BY <1>1, <1>2, <3>1, <3>2, CallsStay DEF Quiet
    <2> QED BY <2>1, <2>2
  <1> QED BY <1>3, <1>4

(* Every step of the engine is a step of FileStore or a stutter.           *)
LEMMA NextRefines == SnapshotInv /\ [Next]_vars => [FS!Next]_<<files, calls>>
  <1> SUFFICES ASSUME SnapshotInv, [Next]_vars PROVE FS!Next \/ Quiet
    BY DEF Quiet
  <1>1. CASE Open \/ Age \/ UNCHANGED vars
    <2>1. UNCHANGED <<log, job>>
      BY <1>1 DEF Open, Age, vars
    <2> QED BY <2>1 DEF Quiet, files, calls
  <1>2. ASSUME NEW c \in Clients, Start(c) PROVE FS!Next \/ Quiet
    BY <1>2, StartRefines DEF FS!Next
  <1>3. ASSUME NEW c \in Clients, Step(c) PROVE FS!Next \/ Quiet
    BY <1>3, WriteRefines, CompactRefines, CasRefines, SweepRefines DEF Step, FS!Next
  <1>4. ASSUME NEW c \in Clients, Crash(c) PROVE FS!Next \/ Quiet
    BY <1>4, FilesStay, FinishReturns DEF Crash, SnapshotInv, FS!Next
  <1> QED BY <1>1, <1>2, <1>3, <1>4 DEF Next

(* A new store is an empty FileStore.                                      *)
LEMMA InitRefines == Init => FS!Init
  <1> SUFFICES ASSUME Init PROVE FS!Init
    OBVIOUS
  <1>1. files = [n \in Names |-> NoFile]
    BY DEF Init, EmptyLog, EmptyState, files
  <1>2. calls = [c \in Clients |-> FS!NoCall]
    BY Mapping, CallsByKind DEF Init
  <1> QED BY <1>1, <1>2 DEF FS!Init

(* Puts and removals are atomic at their commit and touch only the file    *)
(* they name; compactions, sweeps, retries and crashes do not show.        *)
THEOREM EngineImplementsFileStore == Spec => ImplementsFileStore
  BY InitRefines, NextRefines, SnapshotsHold, PTL DEF Spec, ImplementsFileStore, FS!Spec
=============================================================================
