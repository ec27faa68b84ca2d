------------------------------ MODULE DataProofs ------------------------------
(***************************************************************************)
(* INV-1 and the accounting, where they hold: for any number of clients    *)
(* that put and remove files, die, retry and lose answers; and for the     *)
(* single logical writer of the design, one client that compacts as well.  *)
(* With several clients, compaction and its sweep break INV-1 (see the     *)
(* runs).  In the same settings the accounts are kept: what is referenced  *)
(* is charged, and no volume beyond its threshold where no compaction has  *)
(* a choice of destinations, and little beyond it where many put at once;  *)
(* opening the store repairs what a put will need; and a compaction frees  *)
(* more than it writes.                                                    *)
(***************************************************************************)
EXTENDS EngineProofs

-----------------------------------------------------------------------------
(* Writers: no manifest is left that points at nothing.                    *)

WritersOnly == Commands \subseteq {"put", "rm"}

WriterSteps == {"idle", "put.push", "put.load", "put.cas", "rm.load", "rm.cas"}

(* "Data first": the manifest of a put is readable from its push on, and   *)
(* before it the push is all that is missing.                              *)
DataFirst(c) ==
  /\ pc[c] \in WriterSteps
  /\ pc[c] = "put.push" =>
       \A r \in job[c].manifest :
         HasChunk(r) \/ (r.vol = job[c].vol /\ r.seg = job[c].seg /\ r.id \in job[c].staged)
  /\ pc[c] \in {"put.load", "put.cas"} => \A r \in job[c].manifest : HasChunk(r)

WritersInv == WritersOnly /\ SnapshotInv /\ NoDangling /\ \A c \in Clients : DataFirst(c)

-----------------------------------------------------------------------------
(* Nothing a writer, or the passing of time, does takes a segment away.    *)
LEMMA WritersKeepSegments ==
  ASSUME WritersInv, [Next]_vars, NEW r \in ChunkRef, HasChunk(r)
  PROVE  HasChunk(r)'
  <1>0. /\ refs \in [Volumes -> SUBSET Segment] /\ r.vol \in Volumes
        /\ \A c \in Clients : pc[c] \in WriterSteps
    BY DEF WritersInv, SnapshotInv, TypeInv, TypeOK, DataFirst, ChunkRef
  <1>1. CASE UNCHANGED refs
    BY <1>1 DEF HasChunk
  <1>2. ASSUME NEW c \in Clients, PutPush(c) PROVE HasChunk(r)'
    BY <1>0, <1>2 DEF PutPush, Publish, HasChunk
  <1>3. CASE Age
    BY <1>0, <1>3, AgeKeepsChunks
  <1>4. UNCHANGED refs \/ Age \/ \E c \in Clients : PutPush(c)
    <2>1. CASE Open \/ UNCHANGED vars
      BY <2>1 DEF Open, vars
    <2>2. ASSUME NEW c \in Clients, Start(c) PROVE UNCHANGED refs
      BY <2>2 DEF Start, PutStart, RemoveStart, CompactStart
    <2>3. ASSUME NEW c \in Clients, Crash(c) PROVE UNCHANGED refs
      BY <2>3 DEF Crash
    <2>4. ASSUME NEW c \in Clients, Step(c) PROVE PutPush(c) \/ UNCHANGED refs
      BY <1>0, <2>4 DEF Step, WriterSteps, PutLoad, PutCas, RemoveLoad, RemoveCas,
         CompactRewrite, CompactLoad, CompactCas, CompactReclaim, RemovalStops, CompactRecreate,
         CompactDelete, CasRejected, CasAnswerLost, SweepLoad, SweepList, SweepDelete
    <2> QED BY <2>1, <2>2, <2>3, <2>4 DEF Next
  <1> QED BY <1>1, <1>2, <1>3, <1>4

-----------------------------------------------------------------------------
(* Data first, at every step.                                              *)

(* The types of a put under way.                                           *)
LEMMA ManifestRefs ==
  ASSUME WritersInv, NEW c \in Clients, pc[c] \in {"put.push", "put.load", "put.cas"}
  PROVE  /\ job[c] \in PutJob
         /\ job[c].manifest \subseteq ChunkRef
         /\ job[c].staged = {} \/ job[c].vol \in Volumes
  BY DEF WritersInv, SnapshotInv, TypeInv, JobsSuit, Suits, PutJob, Manifest

(* A client that does not move keeps what it had: nothing stored is taken  *)
(* away.                                                                   *)
LEMMA BystanderKeepsDataFirst ==
  ASSUME WritersInv, [Next]_vars, NEW d \in Clients, pc'[d] = pc[d], job'[d] = job[d]
  PROVE  DataFirst(d)'
  <1>1. DataFirst(d)
    BY DEF WritersInv
  <1>2. CASE pc[d] \in {"put.push", "put.load", "put.cas"}
    <2>1. \A r \in job[d].manifest : HasChunk(r) => HasChunk(r)'
      BY <1>2, ManifestRefs, WritersKeepSegments
    <2> QED BY <1>1, <2>1 DEF DataFirst
  <1>3. CASE pc[d] \notin {"put.push", "put.load", "put.cas"}
    BY <1>1, <1>3 DEF DataFirst
  <1> QED BY <1>2, <1>3

(* A client that goes anywhere but to put.push.                            *)
LEMMA GoToKeepsDataFirst ==
  ASSUME WritersInv, [Next]_vars, NEW c \in Clients, NEW step \in WriterSteps \ {"put.push"},
         NEW j, GoTo(c, step, j),
         step \in {"put.load", "put.cas"} => \A r \in j.manifest : HasChunk(r)'
  PROVE  \A d \in Clients : DataFirst(d)'
  <1>1. pc \in [Clients -> Steps] /\ DOMAIN job = Clients
    BY DEF WritersInv, SnapshotInv, TypeInv, TypeOK
  <1>2. pc'[c] = step /\ job'[c] = j
    BY <1>1 DEF GoTo
  <1>3. DataFirst(c)'
    BY <1>2 DEF DataFirst
  <1>4. ASSUME NEW d \in Clients \ {c} PROVE DataFirst(d)'
    BY <1>1, <1>4, BystanderKeepsDataFirst DEF GoTo
  <1> QED BY <1>3, <1>4

(* A put that starts knows where each of its chunks is, or stages it.      *)
LEMMA PutStartDataFirst ==
  ASSUME WritersInv, [Next]_vars, NEW c \in Clients, PutStart(c)
  PROVE  \A d \in Clients : DataFirst(d)'
  <1>1. PICK name \in Names, S \in Contents :
          LET reused == {r \in Known(log.st.ns) : r.id \in S}
              staged == S \ Ids(reused)
              seg    == [by |-> "put", n |-> ops]
          IN \E v \in IF staged = {} THEN {NoVolume}
                      ELSE select_volume(BytesOf(staged), log.st.idx) :
               LET manifest == reused \cup {[id |-> id, vol |-> v, seg |-> seg] : id \in staged}
               IN /\ staged # {} \/ log.st.ns[name] # manifest
                  /\ GoTo(c, IF staged = {} THEN "put.load" ELSE "put.push",
                          [cmd |-> "put", name |-> name, manifest |-> manifest,
                           staged |-> staged, vol |-> v, seg |-> seg, tries |-> 0])
    BY DEF PutStart
  <1> DEFINE reused == {r \in Known(log.st.ns) : r.id \in S}
             staged == S \ Ids(reused)
             seg    == [by |-> "put", n |-> ops]
  <1>2. PICK v : GoTo(c, IF staged = {} THEN "put.load" ELSE "put.push",
                      [cmd |-> "put", name |-> name,
                       manifest |-> reused \cup {[id |-> id, vol |-> v, seg |-> seg] : id \in staged},
                       staged |-> staged, vol |-> v, seg |-> seg, tries |-> 0])
    BY <1>1
  <1>3. log.st.ns \in Namespace
    BY DEF WritersInv, SnapshotInv, TypeInv, TypeOK, Log, State
  <1>4. \A r \in reused : r \in ChunkRef /\ HasChunk(r)
    BY <1>3, RefsType DEF WritersInv, NoDangling
  <1>5. \A r \in reused : HasChunk(r)'
    BY <1>4, WritersKeepSegments
  <1> HIDE DEF reused, seg
  <1>6. pc \in [Clients -> Steps] /\ DOMAIN job = Clients
    BY DEF WritersInv, SnapshotInv, TypeInv, TypeOK
  <1>7. DataFirst(c)'
    BY <1>2, <1>5, <1>6 DEF GoTo, DataFirst, WriterSteps
  <1>8. ASSUME NEW d \in Clients \ {c} PROVE DataFirst(d)'
    BY <1>2, <1>6, <1>8, BystanderKeepsDataFirst DEF GoTo
  <1> QED BY <1>7, <1>8

(* Once the segment is pushed every chunk of the manifest is stored.       *)
LEMMA PutPushDataFirst ==
  ASSUME WritersInv, [Next]_vars, NEW c \in Clients, PutPush(c)
  PROVE  \A d \in Clients : DataFirst(d)'
  <1> DEFINE j == job[c]
  <1>1. pc[c] = "put.push" /\ GoTo(c, "put.load", j) /\ Publish(j.vol, j.seg, j.staged)
    BY DEF PutPush
  <1>2. refs \in [Volumes -> SUBSET Segment] /\ j.vol \in Volumes
    BY <1>1 DEF WritersInv, SnapshotInv, TypeInv, TypeOK, JobsSuit, Suits
  <1>3. ASSUME NEW r \in j.manifest PROVE HasChunk(r)'
    <2>1. CASE HasChunk(r)
      BY <1>1, <2>1, ManifestRefs, WritersKeepSegments
    <2>2. CASE r.vol = j.vol /\ r.seg = j.seg /\ r.id \in j.staged
      <3>1. [seg |-> j.seg, ids |-> j.staged, old |-> FALSE] \in refs'[r.vol]
        BY <1>1, <1>2, <2>2 DEF Publish
      <3> QED BY <2>2, <3>1 DEF HasChunk
    <2> QED BY <1>1, <2>1, <2>2 DEF WritersInv, DataFirst
  <1>4. "put.load" \in WriterSteps \ {"put.push"}
    BY DEF WriterSteps
  <1> HIDE DEF j
  <1> QED BY <1>1, <1>3, <1>4, GoToKeepsDataFirst

(* Data comes first in every step of every client.                         *)
LEMMA DataFirstStep == WritersInv /\ [Next]_vars => \A d \in Clients : DataFirst(d)'
  <1> SUFFICES ASSUME WritersInv, [Next]_vars PROVE \A d \in Clients : DataFirst(d)'
    OBVIOUS
  <1>1. CASE Open \/ Age \/ UNCHANGED vars
    BY <1>1, BystanderKeepsDataFirst DEF Open, Age, vars
  <1>2. {"idle", "put.load", "put.cas", "rm.load", "rm.cas"} = WriterSteps \ {"put.push"}
    BY DEF WriterSteps
  <1>3. ASSUME NEW c \in Clients, Start(c) PROVE \A d \in Clients : DataFirst(d)'
    <2>1. CASE PutStart(c)
      BY <2>1, PutStartDataFirst
    <2>2. CASE RemoveStart(c)
      BY <1>2, <2>2, GoToKeepsDataFirst DEF RemoveStart
    <2>3. ~CompactStart(c)
      BY DEF CompactStart, Begin, WritersInv, WritersOnly
    <2> QED BY <1>3, <2>1, <2>2, <2>3 DEF Start
  <1>4. ASSUME NEW c \in Clients, Finish(c) PROVE \A d \in Clients : DataFirst(d)'
    BY <1>2, <1>4, GoToKeepsDataFirst DEF Finish
  <1>5. ASSUME NEW c \in Clients, Step(c) PROVE \A d \in Clients : DataFirst(d)'
    <2>1. DataFirst(c)
      BY DEF WritersInv
    <2>2. CASE PutPush(c)
      BY <2>2, PutPushDataFirst
    <2>3. pc[c] \in {"put.load", "put.cas"} => \A r \in job[c].manifest : HasChunk(r)'
      BY <2>1, ManifestRefs, WritersKeepSegments DEF DataFirst
    <2>4. CASE PutLoad(c)
      BY <1>2, <1>4, <2>3, <2>4, GoToKeepsDataFirst DEF PutLoad
    <2>5. CASE RemoveLoad(c)
      BY <1>2, <1>4, <2>5, GoToKeepsDataFirst DEF RemoveLoad
    <2>6. CASE PutCas(c) \/ RemoveCas(c)
      BY <1>4, <2>6 DEF PutCas, RemoveCas
    <2>7. CASE CasRejected(c) \/ CasAnswerLost(c)
      <3> DEFINE j == [job[c] EXCEPT !.tries = @ + 1]
      <3>1. pc[c] \in {"put.cas", "rm.cas"}
        BY <2>1, <2>7 DEF CasRejected, CasAnswerLost, AtCas, DataFirst, WriterSteps
      <3>2. \/ pc[c] = "put.cas" /\ GoTo(c, "put.load", j)
            \/ pc[c] = "rm.cas" /\ GoTo(c, "rm.load", j)
            \/ GoTo(c, "idle", NoJob)
        BY <2>7, <3>1 DEF CasRejected, CasAnswerLost, Retry
      <3>3. pc[c] = "put.cas" => j.manifest = job[c].manifest
        BY ManifestRefs DEF PutJob
      <3> HIDE DEF j
      <3> QED BY <1>2, <2>3, <3>2, <3>3, GoToKeepsDataFirst
    <2>8. pc[c] \in WriterSteps
      BY <2>1 DEF DataFirst
    <2> QED BY <1>5, <2>2, <2>4, <2>5, <2>6, <2>7, <2>8
            DEF Step, WriterSteps, CompactRewrite, CompactLoad, CompactCas, CompactReclaim,
                RemovalStops, CompactRecreate, CompactDelete, SweepLoad, SweepList, SweepDelete
  <1>6. ASSUME NEW c \in Clients, Crash(c) PROVE \A d \in Clients : DataFirst(d)'
    BY <1>4, <1>6 DEF Crash
  <1> QED BY <1>1, <1>3, <1>5, <1>6 DEF Next

-----------------------------------------------------------------------------
(* Manifest last.                                                          *)

(* A commit references only chunks that are stored.                        *)
LEMMA WritersCommit ==
  ASSUME WritersInv, NEW c \in Clients,
         PutCas(c) \/ RemoveCas(c) \/ CasAnswerLost(c)
  PROVE  \A r \in ChunkRefs(log'.st.ns) : r \in ChunkRef /\ HasChunk(r)
  <1> DEFINE j == job[c]
  <1>0. log \in Log /\ log.st \in State
    BY DEF WritersInv, SnapshotInv, TypeInv, TypeOK, Log
  <1>1. \A r \in ChunkRefs(log.st.ns) : r \in ChunkRef /\ HasChunk(r)
    BY <1>0, RefsType DEF WritersInv, NoDangling, State
  <1>2. DataFirst(c)
    BY DEF WritersInv
  <1>3. ASSUME NEW txn, Commit(c, txn) PROVE log'.st = apply_txn(log.st, txn)
    BY <1>3 DEF Commit, OnTip, WritersInv, SnapshotInv, SnapshotFresh
  <1>4. CASE pc[c] = "put.cas"
    <2>1. Commit(c, PutTxn(j))
      BY <1>4 DEF PutCas, RemoveCas, CasAnswerLost
    <2>2. ChunkRefs(log'.st.ns) \subseteq ChunkRefs(log.st.ns) \cup j.manifest
      BY <1>0, <1>3, <1>4, <2>1, ManifestRefs, PutAddsManifest
    <2>3. \A r \in j.manifest : r \in ChunkRef /\ HasChunk(r)
      BY <1>2, <1>4, ManifestRefs DEF DataFirst
    <2> QED BY <1>1, <2>2, <2>3
  <1>5. CASE pc[c] = "rm.cas"
    <2>1. Commit(c, DeltaRemove(j.name))
      BY <1>5 DEF PutCas, RemoveCas, CasAnswerLost
    <2>2. j.name \in Names
      BY <1>5 DEF WritersInv, SnapshotInv, TypeInv, JobsSuit, Suits, RemoveJob
    <2>3. ChunkRefs(log'.st.ns) \subseteq ChunkRefs(log.st.ns)
      BY <1>0, <1>3, <2>1, <2>2, RemoveAddsNothing
    <2> QED BY <1>1, <2>3
  <1>6. pc[c] \in {"put.cas", "rm.cas"}
    BY <1>2 DEF DataFirst, WriterSteps, PutCas, RemoveCas, CasAnswerLost, AtCas
  <1> QED BY <1>4, <1>5, <1>6

(* Without a compactor no step leaves anything dangling.                   *)
LEMMA NoDanglingStep == WritersInv /\ [Next]_vars => NoDangling'
  <1> SUFFICES ASSUME WritersInv, [Next]_vars PROVE NoDangling'
    OBVIOUS
  <1>1. log \in Log /\ \A r \in ChunkRefs(log.st.ns) : r \in ChunkRef /\ HasChunk(r)
    BY RefsType DEF WritersInv, SnapshotInv, TypeInv, TypeOK, NoDangling, Log, State
  <1>2. CASE log' = log
    BY <1>1, <1>2, WritersKeepSegments DEF NoDangling
  <1>3. ASSUME NEW c \in Clients, PutCas(c) \/ RemoveCas(c) \/ CasAnswerLost(c)
        PROVE  NoDangling'
    BY <1>3, WritersCommit, WritersKeepSegments DEF NoDangling
  <1>4. log' = log \/ \E c \in Clients : PutCas(c) \/ RemoveCas(c) \/ CasAnswerLost(c)
    <2>1. CASE Open \/ Age \/ UNCHANGED vars
      BY <2>1 DEF Open, Age, vars
    <2>2. ASSUME NEW c \in Clients, Start(c) \/ Crash(c) PROVE log' = log
      BY <2>2 DEF Start, PutStart, RemoveStart, CompactStart, Crash
    <2>3. ASSUME NEW c \in Clients, Step(c)
          PROVE  log' = log \/ PutCas(c) \/ RemoveCas(c) \/ CasAnswerLost(c)
      <3>1. ~CompactCas(c)
        BY DEF CompactCas, WritersInv, DataFirst, WriterSteps
      <3> QED BY <2>3, <3>1 DEF Step, PutPush, PutLoad, RemoveLoad, CompactRewrite, CompactLoad,
                 CompactReclaim, RemovalStops, CompactRecreate, CompactDelete, CasRejected, SweepLoad, SweepList, SweepDelete
    <2> QED BY <2>1, <2>2, <2>3 DEF Next
  <1> QED BY <1>2, <1>3, <1>4

(* WritersInv is inductive.                                                *)
LEMMA WritersStep == WritersInv /\ [Next]_vars => WritersInv'
  BY DataFirstStep, NoDanglingStep, SnapshotStep DEF WritersInv, WritersOnly

(* WritersInv holds of a new store.                                        *)
LEMMA WritersInit == WritersOnly /\ Init /\ SnapshotInv => WritersInv
  <1> SUFFICES ASSUME WritersOnly, Init, SnapshotInv PROVE WritersInv
    OBVIOUS
  <1>1. NoDangling
    BY DEF Init, EmptyLog, EmptyState, NoDangling, ChunkRefs, Stored
  <1>2. \A c \in Clients : DataFirst(c)
    BY DEF Init, DataFirst, WriterSteps
  <1> QED BY <1>1, <1>2 DEF WritersInv

(* When no client compacts, every chunk a file names can be read where its *)
(* manifest says, whatever the interleaving of any number of writers and   *)
(* of their crashes, retries and lost answers.                             *)
THEOREM WritersNeverDangle ==
  ASSUME WritersOnly
  PROVE  Spec => []NoDangling
  <1>1. Spec => []SnapshotInv
    BY SnapshotsHold
  <1>2. SnapshotInv /\ Init => WritersInv
    BY WritersInit
  <1>3. WritersInv => NoDangling
    BY DEF WritersInv
  <1> QED BY <1>1, <1>2, <1>3, WritersStep, PTL DEF Spec

-----------------------------------------------------------------------------
(* The single writer: it never empties a volume that the namespace still   *)
(* references, and leaves a manifest that points at nothing only by way of *)
(* a segment which a removal, stopped half way, left without its objects;  *)
(* where none stops so, not at all.                                        *)

(* One client.                                                             *)
Solo == \A c, d \in Clients : c = d

(* No removal stops half way: on a host, none does.                        *)
WholeRemovals == HalfRemovals => Transport = "hosted"

(* The chunk is where r says it is, or was, if removals may stop half way. *)
Held(r) ==
  \E s \in refs[r.vol] :
    s.seg = r.seg /\ (r.id \in s.ids \/ (HalfRemovals /\ Transport # "hosted" /\ s.ids = {}))

(* OnlyHollowDangle, and NoDangling where no removal stops half way.       *)
NoneLost == \A r \in ChunkRefs(log.st.ns) : Held(r)

(* What a compaction calls a segment says what is in it, or was.           *)
RewritesNamed ==
  \A v \in Volumes : \A s \in refs[v] :
    s.seg \in CompactSegId =>
      s.ids = s.seg.ids \/ (HalfRemovals /\ Transport # "hosted" /\ s.ids = {})

(* What a client has established by the time it is at a step.              *)
Prepared(c) ==
  LET j == job[c]
  IN /\ pc[c] = "put.push" =>
          \A r \in j.manifest : Held(r) \/ (r.vol = j.vol /\ r.seg = j.seg /\ r.id \in j.staged)
     /\ pc[c] \in {"put.load", "put.cas"} => \A r \in j.manifest : Held(r)
     /\ pc[c] \in {"compact.load", "compact.cas"} =>
          j.live = {} \/ HasSegment(j.dest, RewriteOf(j))
     /\ pc[c] = "compact.cas" => Unmoved(seen[c].st.ns, j) = {}
     /\ pc[c] \in {"compact.reclaim", "compact.delete"} => RefsOn(log.st.ns, j.vol) = {}
     /\ pc[c] \in {"sweep.volume", "sweep.delete"} => j.referenced = Referenced(log.st.ns)
     /\ pc[c] = "sweep.delete" => \A s \in j.listed : <<j.next, s.seg>> \notin j.referenced

SoloInv ==
  /\ Solo
  /\ SnapshotInv
  /\ NoneLost
  /\ RewritesNamed
  /\ \A c \in Clients : Prepared(c)

Good == NoneLost /\ RewritesNamed /\ \A c \in Clients : Prepared(c)

-----------------------------------------------------------------------------
(* The types that SoloInv gives.                                           *)
LEMMA SoloTypes ==
  ASSUME SoloInv
  PROVE  /\ log \in Log /\ log.st \in State /\ log.st.ns \in Namespace
         /\ refs \in [Volumes -> SUBSET Segment]
         /\ pc \in [Clients -> Steps] /\ DOMAIN job = Clients /\ DOMAIN seen = Clients
         /\ \A r \in ChunkRefs(log.st.ns) : r \in ChunkRef /\ Held(r)
         /\ \A c \in Clients : Suits(pc[c], job[c]) /\ Prepared(c)
  <1>1. log \in Log /\ log.st \in State /\ log.st.ns \in Namespace
    BY DEF SoloInv, SnapshotInv, TypeInv, TypeOK, Log, State
  <1>2. /\ refs \in [Volumes -> SUBSET Segment]
        /\ pc \in [Clients -> Steps] /\ DOMAIN job = Clients /\ DOMAIN seen = Clients
        /\ \A c \in Clients : Suits(pc[c], job[c]) /\ Prepared(c)
    BY DEF SoloInv, SnapshotInv, TypeInv, TypeOK, JobsSuit
  <1> QED BY <1>1, <1>2, RefsType DEF SoloInv, NoneLost

(* Where a client that goes to a step finds itself.                        *)
LEMMA SoloGoTo ==
  ASSUME SoloInv, NEW c \in Clients, NEW step, NEW j, GoTo(c, step, j)
  PROVE  pc'[c] = step /\ job'[c] = j /\ \A d \in Clients : d = c
  BY SoloTypes DEF GoTo, SoloInv, Solo

(* With nothing stored taken away and no commit, a client has only its     *)
(* own step to answer for.                                                 *)
LEMMA QuietStep ==
  ASSUME SoloInv, NEW c \in Clients, log' = log, UNCHANGED refs, Prepared(c)'
  PROVE  Good'
  BY DEF SoloInv, Solo, Good, NoneLost, Held, RewritesNamed

(* A client that idles, or is about to read the log or to rewrite.         *)
LEMMA EasySteps ==
  ASSUME NEW c \in Clients,
         pc'[c] \in {"idle", "rm.load", "rm.cas", "sweep.load", "compact.rewrite",
                     "compact.recreate"}
  PROVE  Prepared(c)'
  BY DEF Prepared

(* What holds at the step NextCandidate leads to.                          *)
LEMMA NextCandidatePrepared ==
  ASSUME SoloInv, NEW c \in Clients, NEW base, NEW todo, NextCandidate(c, base, todo)
  PROVE  Prepared(c)'
  <1>1. CASE GoTo(c, "sweep.load", NoJob)
    BY <1>1, SoloGoTo, EasySteps
  <1>2. ASSUME NEW step, NEW j, GoTo(c, step, j),
               \/ step = "compact.rewrite"
               \/ step = "compact.load" /\ j.live = {}
        PROVE  Prepared(c)'
    <2>1. pc'[c] = step /\ job'[c] = j
      BY <1>2, SoloGoTo
    <2> QED BY <1>2, <2>1 DEF Prepared
  <1>3. CASE ~GoTo(c, "sweep.load", NoJob)
    <2>1. PICK v, dest, viable :
            GoTo(c, IF live_ids(base.ns, v) = {} THEN "compact.load" ELSE "compact.rewrite",
                 [cmd |-> "compact", base |-> base, later |-> viable \ {v},
                  vol |-> v, dest |-> dest, live |-> live_ids(base.ns, v),
                  listed |-> {}, tries |-> 0])
      BY <1>3 DEF NextCandidate
    <2>2. CASE live_ids(base.ns, v) = {}
      BY <1>2, <2>1, <2>2
    <2>3. CASE live_ids(base.ns, v) # {}
      BY <1>2, <2>1, <2>3
    <2> QED BY <2>2, <2>3
  <1> QED BY <1>1, <1>3

(* A push of a segment leaves every chunk where it is.                     *)
LEMMA PublishKeepsHeld ==
  ASSUME SoloInv, NEW v \in Volumes, NEW seg, NEW ids, Publish(v, seg, ids),
         seg \in CompactSegId => ids = seg.ids
  PROVE  /\ \A r \in ChunkRef : Held(r) => Held(r)'
         /\ RewritesNamed'
         /\ HasSegment(v, seg)'
         /\ \A r \in ChunkRef : r.vol = v /\ r.seg = seg /\ r.id \in ids => Held(r)'
  <1> DEFINE new == [seg |-> seg, ids |-> ids, old |-> FALSE]
  <1>1. refs' = [refs EXCEPT ![v] = @ \cup {new}] /\ refs \in [Volumes -> SUBSET Segment]
    BY SoloTypes DEF Publish
  <1>2. new.seg = seg /\ new.ids = ids
    OBVIOUS
  <1> HIDE DEF new
  <1>3. new \in refs'[v] /\ \A w \in Volumes : refs[w] \subseteq refs'[w]
    BY <1>1
  <1>4. \A r \in ChunkRef : Held(r) => Held(r)'
    BY <1>3 DEF Held, ChunkRef
  <1>5. RewritesNamed'
    BY <1>1, <1>2 DEF SoloInv, RewritesNamed
  <1>6. HasSegment(v, seg)' /\ \A r \in ChunkRef : r.vol = v /\ r.seg = seg /\ r.id \in ids => Held(r)'
    BY <1>2, <1>3 DEF HasSegment, Held
  <1> QED BY <1>4, <1>5, <1>6

-----------------------------------------------------------------------------
(* put and rm.                                                             *)

(* A put that starts: every chunk of its manifest is stored or staged.     *)
LEMMA SoloPutStart == ASSUME SoloInv, NEW c \in Clients, PutStart(c) PROVE Good'
  <1>1. PICK name \in Names, S \in Contents :
          LET reused == {r \in Known(log.st.ns) : r.id \in S}
              staged == S \ Ids(reused)
              seg    == [by |-> "put", n |-> ops]
          IN \E v \in IF staged = {} THEN {NoVolume}
                      ELSE select_volume(BytesOf(staged), log.st.idx) :
               LET manifest == reused \cup {[id |-> id, vol |-> v, seg |-> seg] : id \in staged}
               IN /\ staged # {} \/ log.st.ns[name] # manifest
                  /\ GoTo(c, IF staged = {} THEN "put.load" ELSE "put.push",
                          [cmd |-> "put", name |-> name, manifest |-> manifest,
                           staged |-> staged, vol |-> v, seg |-> seg, tries |-> 0])
    BY DEF PutStart
  <1> DEFINE reused == {r \in Known(log.st.ns) : r.id \in S}
             staged == S \ Ids(reused)
             seg    == [by |-> "put", n |-> ops]
  <1>2. PICK v : GoTo(c, IF staged = {} THEN "put.load" ELSE "put.push",
                      [cmd |-> "put", name |-> name,
                       manifest |-> reused \cup {[id |-> id, vol |-> v, seg |-> seg] : id \in staged},
                       staged |-> staged, vol |-> v, seg |-> seg, tries |-> 0])
    BY <1>1
  <1>3. UNCHANGED <<log, refs, seen>>
    BY DEF PutStart
  <1>4. \A r \in reused : Held(r) /\ Held(r)'
    BY <1>3, SoloTypes, RefsType DEF Held
  <1> HIDE DEF reused, seg
  <1>5. Prepared(c)'
    BY <1>2, <1>4, SoloGoTo DEF Prepared
  <1> QED BY <1>3, <1>5, QuietStep

(* Once the segment is pushed every chunk of the manifest is stored.       *)
LEMMA SoloPutPush == ASSUME SoloInv, NEW c \in Clients, PutPush(c) PROVE Good'
  <1> DEFINE j == job[c]
  <1>1. /\ pc[c] = "put.push" /\ GoTo(c, "put.load", j) /\ Publish(j.vol, j.seg, j.staged)
        /\ log' = log
    BY DEF PutPush
  <1>2. j \in PutJob /\ j.vol \in Volumes /\ Prepared(c)
    BY <1>1, SoloTypes DEF Suits
  <1>3. j.manifest \subseteq ChunkRef /\ j.seg \notin CompactSegId
    BY <1>2 DEF PutJob, Manifest, PutSegId, CompactSegId
  <1>4. \A r \in j.manifest : Held(r)'
    BY <1>1, <1>2, <1>3, PublishKeepsHeld DEF Prepared
  <1>5. RewritesNamed' /\ NoneLost'
    BY <1>1, <1>2, <1>3, PublishKeepsHeld, SoloTypes DEF NoneLost
  <1> HIDE DEF j
  <1>6. Prepared(c)'
    BY <1>1, <1>4, SoloGoTo DEF Prepared
  <1> QED BY <1>5, <1>6 DEF Good, SoloInv, Solo

(* A transaction commits on the log's own state.                           *)
LEMMA SoloCommit ==
  ASSUME SoloInv, NEW c \in Clients, NEW txn, Commit(c, txn)
  PROVE  seen[c] = log /\ log'.st = apply_txn(log.st, txn)
  BY DEF Commit, OnTip, SoloInv, SnapshotInv, SnapshotFresh

(* Committing a put whose chunks are stored leaves nothing dangling.       *)
LEMMA PutCommitKeeps ==
  ASSUME SoloInv, NEW c \in Clients, pc[c] = "put.cas", Commit(c, PutTxn(job[c])), UNCHANGED refs
  PROVE  NoneLost'
  <1> DEFINE j == job[c]
  <1>1. j \in PutJob /\ (j.staged = {} \/ j.vol \in Volumes) /\ \A r \in j.manifest : Held(r)
    BY SoloTypes DEF Suits, Prepared
  <1>2. ChunkRefs(log'.st.ns) \subseteq ChunkRefs(log.st.ns) \cup j.manifest
    BY <1>1, SoloCommit, SoloTypes, PutAddsManifest
  <1> QED BY <1>1, <1>2, SoloTypes DEF NoneLost, Held

(* Nor does committing a removal.                                          *)
LEMMA RemoveCommitKeeps ==
  ASSUME SoloInv, NEW c \in Clients, pc[c] = "rm.cas", Commit(c, DeltaRemove(job[c].name)),
         UNCHANGED refs
  PROVE  NoneLost'
  <1>1. job[c].name \in Names
    BY SoloTypes DEF Suits, RemoveJob
  <1>2. log'.st = apply_txn(log.st, DeltaRemove(job[c].name)) /\ log.st \in State
    BY SoloCommit, SoloTypes
  <1>3. ChunkRefs(log'.st.ns) \subseteq ChunkRefs(log.st.ns)
    BY <1>1, <1>2, RemoveAddsNothing
  <1> QED BY <1>3, SoloTypes DEF NoneLost, Held

(* A command that ends leaves its client idle.                             *)
LEMMA FinishIdle ==
  ASSUME SoloInv, NEW c \in Clients, Finish(c) PROVE Prepared(c)'
  BY SoloGoTo, EasySteps DEF Finish

(* The steps of put and rm preserve the invariant.                         *)
LEMMA SoloWrites ==
  ASSUME SoloInv, NEW c \in Clients,
         PutLoad(c) \/ PutCas(c) \/ RemoveStart(c) \/ RemoveLoad(c) \/ RemoveCas(c)
  PROVE  Good'
  <1>1. CASE PutLoad(c)
    <2>1. UNCHANGED <<log, refs>>
      BY <1>1 DEF PutLoad
    <2>2. CASE Finish(c)
      BY <2>1, <2>2, FinishIdle, QuietStep
    <2>3. CASE GoTo(c, "put.cas", job[c])
      <3>1. \A r \in job[c].manifest : Held(r)'
        BY <1>1, <2>1, SoloTypes DEF PutLoad, Prepared, Held
      <3>2. Prepared(c)'
        BY <2>3, <3>1, SoloGoTo DEF Prepared
      <3> QED BY <2>1, <3>2, QuietStep
    <2> QED BY <1>1, <2>2, <2>3 DEF PutLoad
  <1>2. CASE PutCas(c)
    BY <1>2, PutCommitKeeps, FinishIdle DEF PutCas, Good, SoloInv, Solo, RewritesNamed
  <1>3. CASE RemoveStart(c)
    BY <1>3, SoloGoTo, EasySteps, QuietStep DEF RemoveStart
  <1>4. CASE RemoveLoad(c)
    BY <1>4, SoloGoTo, EasySteps, FinishIdle, QuietStep DEF RemoveLoad
  <1>5. CASE RemoveCas(c)
    BY <1>5, RemoveCommitKeeps, FinishIdle DEF RemoveCas, Good, SoloInv, Solo, RewritesNamed
  <1> QED BY <1>1, <1>2, <1>3, <1>4, <1>5

-----------------------------------------------------------------------------
(* compact.                                                                *)

(* What a compaction leaves in the namespace: what was elsewhere, where it *)
(* was, and what was on the retired volume in the rewritten segment.       *)
LEMMA RepointedRefs ==
  ASSUME NEW ns \in Namespace, NEW v \in Volumes, NEW dest \in Volumes, NEW seg \in SegId,
         NEW r \in ChunkRefs([n \in Names |-> IF Repointed(ns, v, dest, seg)[n] # NoFile
                                              THEN Repointed(ns, v, dest, seg)[n] ELSE ns[n]])
  PROVE  \/ r \in ChunkRefs(ns) /\ r.vol # v
         \/ r.vol = dest /\ r.seg = seg /\ r.id \in live_ids(ns, v)
  <1> DEFINE moved(n) ==
        {IF q.vol = v THEN [id |-> q.id, vol |-> dest, seg |-> seg] ELSE q : q \in ns[n]}
  <1>1. PICK n \in Names :
          /\ r \in (IF Repointed(ns, v, dest, seg)[n] # NoFile
                   THEN Repointed(ns, v, dest, seg)[n] ELSE ns[n])
          /\ (IF Repointed(ns, v, dest, seg)[n] # NoFile
              THEN Repointed(ns, v, dest, seg)[n] ELSE ns[n]) # NoFile
    BY DEF ChunkRefs, Stored
  <1>2. Repointed(ns, v, dest, seg) \in Namespace
    BY RepointedType
  <1>3. CASE n \in Stored(ns) /\ \E q \in ns[n] : q.vol = v
    <2>1. Repointed(ns, v, dest, seg)[n] = moved(n)
      BY <1>3 DEF Repointed
    <2>2. moved(n) # NoFile
      <3>1. ns[n] \in Manifest
        BY <1>3, RefsType
      <3>2. \A q \in ns[n] : q \in ChunkRef
        BY <3>1 DEF Manifest
      <3>3. \A q \in moved(n) : q \in ChunkRef
        BY <3>2 DEF ChunkRef
      <3>4. NoChunk \notin moved(n)
        BY <3>3, NoChunkAssumption
      <3> QED BY <3>4 DEF NoFile
    <2>3. r \in moved(n)
      BY <1>1, <2>1, <2>2
    <2>4. PICK q \in ns[n] :
            r = IF q.vol = v THEN [id |-> q.id, vol |-> dest, seg |-> seg] ELSE q
      BY <2>3
    <2>5. q \in ChunkRefs(ns)
      BY <1>3, <2>4 DEF ChunkRefs
    <2>6. q.vol = v => q.id \in live_ids(ns, v)
      BY <2>5 DEF live_ids, Ids, RefsOn
    <2> QED BY <2>4, <2>5, <2>6
  <1>4. CASE ~(n \in Stored(ns) /\ \E q \in ns[n] : q.vol = v)
    <2>1. Repointed(ns, v, dest, seg)[n] = NoFile
      BY <1>4 DEF Repointed
    <2>2. r \in ns[n] /\ n \in Stored(ns)
      BY <1>1, <2>1 DEF Stored
    <2> QED BY <1>4, <2>2 DEF ChunkRefs
  <1> QED BY <1>3, <1>4

(* The types of a compaction under way.                                    *)
LEMMA CompactJobTypes ==
  ASSUME SoloInv, NEW c \in Clients,
         pc[c] \in {"compact.rewrite", "compact.load", "compact.cas", "compact.reclaim",
                   "compact.recreate", "compact.delete"}
  PROVE  /\ job[c] \in CompactJob /\ job[c].dest # job[c].vol
         /\ job[c].vol \in Volumes /\ job[c].dest \in Volumes /\ job[c].live \in SUBSET Chunks
         /\ RewriteOf(job[c]) \in CompactSegId /\ RewriteOf(job[c]) \in SegId
         /\ RewriteOf(job[c]).ids = job[c].live /\ job[c].listed \subseteq Segment
  <1>1. job[c] \in CompactJob /\ job[c].dest # job[c].vol
    BY SoloTypes DEF Suits
  <1>2. job[c].vol \in Volumes /\ job[c].dest \in Volumes /\ job[c].live \in SUBSET Chunks
        /\ job[c].listed \subseteq Segment
    BY <1>1 DEF CompactJob
  <1> QED BY <1>1, <1>2 DEF RewriteOf, compact_segment_id, CompactSegId, SegId

(* What the commit of a compaction makes of the log's state.               *)
LEMMA CompactCommitState ==
  ASSUME SoloInv, NEW c \in Clients, pc[c] = "compact.cas", Commit(c, CompactionOf(c, job[c])),
         NEW j, j = job[c]
  PROVE  /\ \A r \in ChunkRefs(log'.st.ns) :
              \/ r \in ChunkRefs(log.st.ns) /\ r.vol # j.vol
              \/ /\ r.vol = j.dest /\ r.seg = RewriteOf(j) /\ r.id \in j.live
                 /\ r.id \in live_ids(log.st.ns, j.vol)
         /\ log'.st.idx =
              {rec \in InsertSeals(log.st.idx, IF j.live = {} THEN {}
                                               ELSE Seal(j.dest, RewriteOf(j), j.live)) :
                 rec.vol # j.vol}
  <1> DEFINE new == [n \in Names |->
                       IF Repointed(log.st.ns, j.vol, j.dest, RewriteOf(j))[n] # NoFile
                       THEN Repointed(log.st.ns, j.vol, j.dest, RewriteOf(j))[n]
                       ELSE log.st.ns[n]]
             seals == IF j.live = {} THEN {} ELSE Seal(j.dest, RewriteOf(j), j.live)
  <1>1. log'.st.ns = new /\ log'.st.idx = {rec \in InsertSeals(log.st.idx, seals) : rec.vol # j.vol}
    <2> DEFINE txn == CompactionOf(c, j)
    <2>1. /\ txn.kind = "compact" /\ txn.retired = j.vol /\ txn.seals = seals
          /\ txn.repoint = Repointed(log.st.ns, j.vol, j.dest, RewriteOf(j))
      BY SoloCommit DEF CompactionOf, CompactTxn
    <2>2. log'.st = apply_txn(log.st, txn)
      BY SoloCommit
    <2> HIDE DEF txn, seals
    <2> QED BY <2>1, <2>2 DEF apply_txn
  <1>2. live_ids(log.st.ns, j.vol) \subseteq j.live
    BY SoloCommit, SoloTypes DEF Prepared, Unmoved
  <1>3. ASSUME NEW r \in ChunkRefs(new)
        PROVE  \/ r \in ChunkRefs(log.st.ns) /\ r.vol # j.vol
               \/ /\ r.vol = j.dest /\ r.seg = RewriteOf(j) /\ r.id \in j.live
                  /\ r.id \in live_ids(log.st.ns, j.vol)
    <2>1. /\ j.vol \in Volumes /\ j.dest \in Volumes /\ RewriteOf(j) \in SegId
          /\ log.st.ns \in Namespace
      BY CompactJobTypes, SoloTypes
    <2> QED BY <1>2, <1>3, <2>1, RepointedRefs
  <1> HIDE DEF new
  <1> QED BY <1>1, <1>3

(* The commit of a compaction: everything it points at is there, and       *)
(* nothing points at the volume it retires.                                *)
LEMMA CompactCommitKeeps ==
  ASSUME SoloInv, NEW c \in Clients, pc[c] = "compact.cas", Commit(c, CompactionOf(c, job[c])),
         UNCHANGED refs
  PROVE  NoneLost' /\ RefsOn(log'.st.ns, job[c].vol) = {}
  <1>0. PICK j : j = job[c]
    OBVIOUS
  <1>1. j.live = {} \/ HasSegment(j.dest, RewriteOf(j))
    BY <1>0, SoloTypes DEF Prepared
  <1>2. ASSUME NEW r \in ChunkRefs(log'.st.ns) PROVE Held(r) /\ r.vol # j.vol
    <2>1. CASE r \in ChunkRefs(log.st.ns) /\ r.vol # j.vol
      BY <2>1, SoloTypes
    <2>2. CASE r.vol = j.dest /\ r.seg = RewriteOf(j) /\ r.id \in j.live
      <3>1. PICK s \in refs[j.dest] : s.seg = RewriteOf(j)
        BY <1>1, <2>2 DEF HasSegment
      <3>2. s.ids = j.live \/ (HalfRemovals /\ Transport # "hosted" /\ s.ids = {})
        BY <1>0, <3>1, CompactJobTypes DEF SoloInv, RewritesNamed
      <3> QED BY <1>0, <2>2, <3>1, <3>2, CompactJobTypes DEF Held
    <2> QED BY <1>0, <2>1, <2>2, CompactCommitState
  <1> QED BY <1>0, <1>2 DEF NoneLost, RefsOn, Held

(* Segments that no manifest of the log points at may go.                  *)
LEMMA Reclaim ==
  ASSUME SoloInv, NEW v \in Volumes, NEW left \in SUBSET refs[v],
         refs' = [refs EXCEPT ![v] = left],
         \A s \in refs[v] \ left : <<v, s.seg>> \notin Referenced(log.st.ns), log' = log
  PROVE  NoneLost' /\ RewritesNamed'
  <1>0. refs \in [Volumes -> SUBSET Segment]
    BY SoloTypes
  <1>1. ASSUME NEW r \in ChunkRefs(log.st.ns) PROVE Held(r)'
    <2>1. r \in ChunkRef /\ Held(r)
      BY SoloTypes
    <2>2. PICK s \in refs[r.vol] :
            s.seg = r.seg /\ (r.id \in s.ids \/ (HalfRemovals /\ Transport # "hosted" /\ s.ids = {}))
      BY <2>1 DEF Held
    <2>3. <<r.vol, r.seg>> \in Referenced(log.st.ns)
      BY DEF Referenced
    <2>4. s \in refs'[r.vol]
      BY <1>0, <2>1, <2>2, <2>3 DEF ChunkRef
    <2> QED BY <2>2, <2>4 DEF Held
  <1>2. RewritesNamed'
    BY <1>0 DEF SoloInv, RewritesNamed
  <1> QED BY <1>1, <1>2 DEF NoneLost

(* The ref of a segment that no manifest of the log points at may go.      *)
LEMMA UnpublishGarbage ==
  ASSUME SoloInv, NEW v \in Volumes, NEW seg, Unpublish(v, seg),
         <<v, seg>> \notin Referenced(log.st.ns), log' = log
  PROVE  NoneLost' /\ RewritesNamed'
  <1> DEFINE left == {s \in refs[v] : s.seg # seg}
  <1>1. refs' = [refs EXCEPT ![v] = left]
    BY DEF Unpublish
  <1>2. left \in SUBSET refs[v] /\ \A s \in refs[v] \ left : s.seg = seg
    OBVIOUS
  <1> HIDE DEF left
  <1> QED BY <1>1, <1>2, Reclaim

(* What is left of a rewrite is the rewrite, or is hollow.                 *)
LEMMA RemainsNamed ==
  ASSUME SoloInv, NEW v \in Volumes, HalfRemovals, Transport # "hosted",
         NEW left \in Remains(refs[v]), refs' = [refs EXCEPT ![v] = left]
  PROVE  RewritesNamed'
  <1>1. refs \in [Volumes -> SUBSET Segment]
    BY SoloTypes
  <1>2. \A s \in left : s \in refs[v] \/ s.ids = {}
    BY <1>1, RemainsType
  <1>3. \A w \in Volumes : \A s \in refs'[w] : s \in refs[w] \/ s.ids = {}
    BY <1>1, <1>2
  <1> QED BY <1>3 DEF SoloInv, RewritesNamed

(* The steps of compact preserve the invariant.                            *)
LEMMA SoloCompacts ==
  ASSUME SoloInv, NEW c \in Clients,
         \/ CompactStart(c) \/ CompactRewrite(c) \/ CompactLoad(c) \/ CompactCas(c)
         \/ CompactReclaim(c) \/ RemovalStops(c) \/ CompactRecreate(c) \/ CompactDelete(c)
  PROVE  Good'
  <1> DEFINE j == job[c]
  <1>0. ASSUME NoneLost', RewritesNamed', Prepared(c)' PROVE Good'
    BY <1>0 DEF Good, SoloInv, Solo
  <1>1. CASE CompactStart(c)
    BY <1>1, NextCandidatePrepared, QuietStep DEF CompactStart
  <1>2. CASE CompactRewrite(c)
    <2>1. pc[c] = "compact.rewrite" /\ GoTo(c, "compact.load", j) /\ log' = log
      BY <1>2 DEF CompactRewrite
    <2>2. CASE HasSegment(j.dest, RewriteOf(j)) /\ UNCHANGED refs
      <3>1. HasSegment(j.dest, RewriteOf(j))'
        BY <2>1, <2>2, SoloGoTo DEF HasSegment
      <3>2. Prepared(c)'
        BY <2>1, <2>2, SoloGoTo DEF Prepared, HasSegment
      <3> QED BY <2>1, <2>2, <3>2, QuietStep
    <2>3. CASE Publish(j.dest, RewriteOf(j), j.live)
      <3>1. NoneLost' /\ RewritesNamed'
        BY <2>1, <2>3, CompactJobTypes, PublishKeepsHeld, SoloTypes DEF NoneLost
      <3> DEFINE new == [seg |-> RewriteOf(j), ids |-> j.live, old |-> FALSE]
      <3>2. new.seg = RewriteOf(j)
        OBVIOUS
      <3>3. refs' = [refs EXCEPT ![j.dest] = @ \cup {new}] /\ j.dest \in Volumes
        BY <2>1, <2>3, CompactJobTypes DEF Publish
      <3> HIDE DEF new
      <3>4. \E s \in refs'[j.dest] : s.seg = RewriteOf(j)
        BY <3>2, <3>3, SoloTypes
      <3>5. Prepared(c)'
        BY <2>1, <3>4, SoloGoTo DEF Prepared, HasSegment
      <3> QED BY <1>0, <3>1, <3>5
    <2>4. \/ HasSegment(j.dest, RewriteOf(j)) /\ UNCHANGED refs
          \/ Publish(j.dest, RewriteOf(j), j.live)
      BY <1>2, Zenon DEF CompactRewrite
    <2> QED BY <2>2, <2>3, <2>4
  <1>3. CASE CompactLoad(c)
    <2>1. pc[c] = "compact.load" /\ UNCHANGED <<log, refs>> /\ Prepared(c)
      BY <1>3, SoloTypes DEF CompactLoad
    <2>2. CASE NextCandidate(c, j.base, j.later)
      BY <2>1, <2>2, NextCandidatePrepared, QuietStep
    <2>3. CASE Retired(log.st, j.vol) /\ GoTo(c, "compact.reclaim", j)
      <3>1. RefsOn(log.st.ns, j.vol) = {}
        BY <2>3 DEF Retired, live_ids, Ids
      <3>2. Prepared(c)'
        BY <2>1, <2>3, <3>1, SoloGoTo DEF Prepared
      <3> QED BY <2>1, <3>2, QuietStep
    <2>4. CASE Unmoved(log.st.ns, j) = {} /\ GoTo(c, "compact.cas", j) /\ Load(c)
      <3>1. seen'[c] = log
        BY <2>4, SoloTypes DEF Load
      <3>2. Prepared(c)'
        BY <2>1, <2>4, <3>1, SoloGoTo DEF Prepared, HasSegment
      <3> QED BY <2>1, <3>2, QuietStep
    <2> QED BY <1>3, <2>2, <2>3, <2>4 DEF CompactLoad
  <1>4. CASE CompactCas(c)
    <2>1. /\ pc[c] = "compact.cas" /\ Commit(c, CompactionOf(c, j)) /\ UNCHANGED refs
          /\ GoTo(c, "compact.reclaim", j)
      BY <1>4 DEF CompactCas
    <2>2. NoneLost' /\ RefsOn(log'.st.ns, j.vol) = {}
      BY <2>1, CompactCommitKeeps
    <2>3. RewritesNamed'
      BY <2>1 DEF SoloInv, RewritesNamed
    <2>4. Prepared(c)'
      BY <2>1, <2>2, SoloGoTo DEF Prepared
    <2> QED BY <1>0, <2>2, <2>3, <2>4
  <1>5. ASSUME RefsOn(log.st.ns, j.vol) = {}, NEW s \in Segment
        PROVE  <<j.vol, s.seg>> \notin Referenced(log.st.ns)
    BY <1>5 DEF RefsOn, Referenced
  <1>6. CASE CompactReclaim(c)
    <2>1. pc[c] = "compact.reclaim" /\ RefsOn(log.st.ns, j.vol) = {} /\ j.vol \in Volumes
          /\ log' = log
      BY <1>6, CompactJobTypes, SoloTypes DEF CompactReclaim, Prepared
    <2>2. CASE Transport = "hosted"
      <3> DEFINE k == [j EXCEPT !.listed = refs[j.vol]]
      <3>1. GoTo(c, "compact.delete", k) /\ UNCHANGED refs
        BY <1>6, <2>2 DEF CompactReclaim
      <3>2. k.vol = j.vol
        BY <2>1, CompactJobTypes DEF CompactJob
      <3> HIDE DEF k
      <3>3. Prepared(c)'
        BY <2>1, <3>1, <3>2, SoloGoTo DEF Prepared
      <3> QED BY <2>1, <3>1, <3>3, QuietStep
    <2>3. CASE Transport # "hosted"
      <3>1. refs' = [refs EXCEPT ![j.vol] = {}] /\ GoTo(c, "compact.recreate", j)
        BY <1>6, <2>3 DEF CompactReclaim
      <3>2. {} \in SUBSET refs[j.vol] /\ refs[j.vol] \subseteq Segment
        BY <2>1, SoloTypes
      <3>3. NoneLost' /\ RewritesNamed'
        BY <1>5, <2>1, <3>1, <3>2, Reclaim
      <3> QED BY <1>0, <3>1, <3>3, SoloGoTo, EasySteps
    <2> QED BY <2>2, <2>3
  <1>7. CASE CompactRecreate(c)
    BY <1>7, NextCandidatePrepared, QuietStep DEF CompactRecreate
  <1>8. CASE CompactDelete(c)
    <2>1. pc[c] = "compact.delete" /\ RefsOn(log.st.ns, j.vol) = {} /\ j.vol \in Volumes
          /\ log' = log
      BY <1>8, CompactJobTypes, SoloTypes DEF CompactDelete, Prepared
    <2>2. CASE NextCandidate(c, j.base, j.later) /\ UNCHANGED refs
      BY <2>1, <2>2, NextCandidatePrepared, QuietStep
    <2>3. ASSUME NEW s \in j.listed,
                 Unpublish(j.vol, s.seg),
                 GoTo(c, "compact.delete", [j EXCEPT !.listed = @ \ {s}])
          PROVE  Good'
      <3>1. s \in Segment
        BY <2>1, <2>3, CompactJobTypes
      <3>2. NoneLost' /\ RewritesNamed'
        BY <1>5, <2>1, <2>3, <3>1, UnpublishGarbage
      <3> DEFINE k == [j EXCEPT !.listed = @ \ {s}]
      <3>3. k.vol = j.vol /\ GoTo(c, "compact.delete", k)
        BY <2>1, <2>3, CompactJobTypes DEF CompactJob
      <3> HIDE DEF k
      <3>4. Prepared(c)'
        BY <2>1, <2>3, <3>3, SoloGoTo DEF Prepared
      <3> QED BY <1>0, <3>2, <3>4
    <2> QED BY <1>8, <2>2, <2>3 DEF CompactDelete
  <1>9. CASE RemovalStops(c)
    <2>1. /\ pc[c] = "compact.reclaim" /\ RefsOn(log.st.ns, j.vol) = {} /\ j.vol \in Volumes
          /\ log' = log /\ HalfRemovals /\ Transport # "hosted"
      BY <1>9, CompactJobTypes, SoloTypes DEF RemovalStops, Prepared
    <2>2. PICK left \in Remains(refs[j.vol]) :
            /\ refs' = [refs EXCEPT ![j.vol] = left]
            /\ Finish(c) \/ GoTo(c, "compact.delete", [j EXCEPT !.listed = left])
      BY <1>9 DEF RemovalStops
    <2>3. NoneLost'
      <3> SUFFICES ASSUME NEW r \in ChunkRefs(log.st.ns) PROVE Held(r)'
        BY <2>1 DEF NoneLost
      <3>1. r.vol # j.vol /\ Held(r)
        BY <2>1, SoloTypes DEF RefsOn
      <3> QED BY <2>2, <3>1 DEF Held
    <2>4. RewritesNamed'
      BY <2>1, <2>2, RemainsNamed
    <2> DEFINE k == [j EXCEPT !.listed = left]
    <2>5. k.vol = j.vol
      BY <2>1, CompactJobTypes DEF CompactJob
    <2>6. Finish(c) \/ GoTo(c, "compact.delete", k)
      BY <2>2
    <2> HIDE DEF k
    <2>7. GoTo(c, "compact.delete", k) => Prepared(c)'
      BY <2>1, <2>5, SoloGoTo DEF Prepared
    <2> QED BY <1>0, <2>3, <2>4, <2>6, <2>7, FinishIdle
  <1> QED BY <1>1, <1>2, <1>3, <1>4, <1>6, <1>7, <1>8, <1>9

-----------------------------------------------------------------------------
(* The compare-and-swap that does not report success, and the sweep.       *)

(* What holds at the step a retry leads to.                                *)
LEMMA RetryPrepared ==
  ASSUME SoloInv, NEW c \in Clients, AtCas(c), Retry(c), UNCHANGED refs
  PROVE  Prepared(c)'
  <1> DEFINE j == [job[c] EXCEPT !.tries = @ + 1]
  <1>1. Suits(pc[c], job[c]) /\ Prepared(c)
    BY SoloTypes
  <1>2. CASE pc[c] = "put.cas"
    <2>1. GoTo(c, "put.load", j) \/ GoTo(c, "idle", NoJob)
      BY <1>2 DEF Retry
    <2>2. j.manifest = job[c].manifest
      BY <1>1, <1>2 DEF Suits, PutJob
    <2>3. \A r \in j.manifest : Held(r)'
      BY <1>1, <1>2, <2>2 DEF Prepared, Held
    <2> HIDE DEF j
    <2> QED BY <2>1, <2>3, SoloGoTo DEF Prepared
  <1>3. CASE pc[c] = "rm.cas"
    BY <1>3, SoloGoTo, EasySteps DEF Retry
  <1>4. CASE pc[c] = "compact.cas"
    <2>1. GoTo(c, "compact.load", j) \/ NextCandidate(c, j.base, j.later)
      BY <1>4 DEF Retry
    <2>2. j.live = job[c].live /\ j.dest = job[c].dest /\ RewriteOf(j) = RewriteOf(job[c])
      BY <1>4, CompactJobTypes DEF CompactJob, RewriteOf
    <2>3. j.live = {} \/ \E s \in refs'[j.dest] : s.seg = RewriteOf(j)
      BY <1>1, <1>4, <2>2 DEF Prepared, HasSegment
    <2> HIDE DEF j
    <2>4. GoTo(c, "compact.load", j) => Prepared(c)'
      BY <2>3, SoloGoTo DEF Prepared, HasSegment
    <2> QED BY <2>1, <2>4, NextCandidatePrepared
  <1> QED BY <1>2, <1>3, <1>4 DEF AtCas

(* A compare-and-swap that does not report success preserves the           *)
(* invariant.                                                              *)
LEMMA SoloCas ==
  ASSUME SoloInv, NEW c \in Clients, CasRejected(c) \/ CasAnswerLost(c) PROVE Good'
  <1>1. AtCas(c) /\ Prepared(c)' /\ UNCHANGED refs
    BY RetryPrepared DEF CasRejected, CasAnswerLost
  <1>2. CASE CasRejected(c)
    BY <1>1, <1>2, QuietStep DEF CasRejected
  <1>3. CASE CasAnswerLost(c)
    <2>1. NoneLost'
      BY <1>1, <1>3, PutCommitKeeps, RemoveCommitKeeps, CompactCommitKeeps
         DEF CasAnswerLost, AtCas
    <2> QED BY <1>1, <2>1 DEF Good, SoloInv, Solo, RewritesNamed
  <1> QED BY <1>2, <1>3

(* The sweep preserves it: it removes nothing that is referenced.          *)
LEMMA SoloSweeps ==
  ASSUME SoloInv, NEW c \in Clients, SweepLoad(c) \/ SweepList(c) \/ SweepDelete(c) PROVE Good'
  <1>1. CASE SweepLoad(c)
    <2> DEFINE j == [cmd |-> "sweep", referenced |-> Referenced(log.st.ns), next |-> 1,
                     listed |-> {}]
    <2>1. GoTo(c, "sweep.volume", j) /\ UNCHANGED <<log, refs>>
      BY <1>1 DEF SweepLoad
    <2>2. j.referenced = Referenced(log.st.ns)
      OBVIOUS
    <2> HIDE DEF j
    <2>3. Prepared(c)'
      BY <2>1, <2>2, SoloGoTo DEF Prepared
    <2> QED BY <2>1, <2>3, QuietStep
  <1>2. CASE SweepList(c) \/ SweepDelete(c)
    <2> DEFINE j == job[c]
               D == IF SweepList(c) THEN Orphans(c, j.next) ELSE j.listed
    <2>1. TypeInv /\ Prepared(c) /\ j.referenced = Referenced(log.st.ns)
      BY <1>2, SoloTypes DEF SoloInv, SnapshotInv, SweepList, SweepDelete, Prepared
    <2>2. j.next \in Volumes
      BY <1>2, <2>1, SweepGoesOn
    <2>3. \A s \in D : <<j.next, s.seg>> \notin j.referenced
      BY <1>2, <2>1 DEF Orphans, SweepDelete, Prepared
    <2>4. log' = log
      BY <1>2, SweepMoves
    <2>5. NoneLost' /\ RewritesNamed'
      <3>1. CASE UNCHANGED refs
        BY <2>4, <3>1 DEF SoloInv, NoneLost, Held, RewritesNamed
      <3>2. CASE ~UNCHANGED refs
        <4>1. PICK s \in j.listed : pc[c] = "sweep.delete" /\ Unpublish(j.next, s.seg)
          BY <1>2, <3>2, SweepUnpublishes
        <4> QED BY <2>1, <2>2, <2>4, <4>1, UnpublishGarbage DEF Prepared
      <3> QED BY <3>1, <3>2
    <2>6. Prepared(c)'
      <3>1. CASE Finish(c)
        BY <3>1, FinishIdle
      <3>2. CASE ~Finish(c)
        <4>1. PICK step \in {"sweep.volume", "sweep.delete"}, k \in SweepJob :
                /\ GoTo(c, step, k)
                /\ k.referenced = j.referenced
                /\ step = "sweep.delete" => k.next = j.next /\ k.listed \subseteq D
          BY <1>2, <2>1, <3>2, SweepGoesOn
        <4>2. pc'[c] = step /\ job'[c] = k
          BY <4>1, SoloGoTo
        <4>3. \A s \in k.listed : step = "sweep.delete" => <<k.next, s.seg>> \notin k.referenced
          BY <2>3, <4>1
        <4> HIDE DEF D
        <4> QED BY <2>1, <2>4, <4>1, <4>2, <4>3 DEF Prepared
      <3> QED BY <3>1, <3>2
    <2> QED BY <2>5, <2>6 DEF Good, SoloInv, Solo
  <1> QED BY <1>1, <1>2

-----------------------------------------------------------------------------
(* Time takes nothing away.                                                *)
LEMMA AgeKeepsHeld ==
  ASSUME refs \in [Volumes -> SUBSET Segment], Age, NEW r \in ChunkRef, Held(r)
  PROVE  Held(r)'
  <1>1. PICK v \in Volumes : \E s \in refs[v] :
          refs' = [refs EXCEPT ![v] = (@ \ {s}) \cup {[s EXCEPT !.old = TRUE]}]
    BY DEF Age
  <1>2. PICK s \in refs[v] :
          refs' = [refs EXCEPT ![v] = (@ \ {s}) \cup {[s EXCEPT !.old = TRUE]}]
    BY <1>1
  <1>3. PICK q \in refs[r.vol] :
          q.seg = r.seg /\ (r.id \in q.ids \/ (HalfRemovals /\ Transport # "hosted" /\ q.ids = {}))
    BY DEF Held
  <1>4. r.vol \in Volumes /\ q \in Segment
    BY <1>3 DEF ChunkRef
  <1> DEFINE aged == [q EXCEPT !.old = TRUE]
  <1>5. aged.seg = q.seg /\ aged.ids = q.ids
    BY <1>4 DEF Segment
  <1>6. aged \in refs'[r.vol] \/ q \in refs'[r.vol]
    BY <1>2, <1>3, <1>4
  <1> HIDE DEF aged
  <1> QED BY <1>3, <1>5, <1>6 DEF Held

(* What a client has established is about the log, the refs and itself.    *)
LEMMA PreparedStays ==
  ASSUME SoloInv, UNCHANGED <<log, refs, pc, job, seen>>, NEW c \in Clients
  PROVE  Prepared(c)'
  <1>1. Prepared(c)
    BY DEF SoloInv
  <1>2. \A r : Held(r) => Held(r)'
    BY DEF Held
  <1>3. \A v, seg : HasSegment(v, seg) => HasSegment(v, seg)'
    BY DEF HasSegment
  <1> QED BY <1>1, <1>2, <1>3 DEF Prepared

(* SoloInv is inductive.                                                   *)
LEMMA SoloStep == SoloInv /\ [Next]_vars => SoloInv'
  <1> SUFFICES ASSUME SoloInv, [Next]_vars PROVE SoloInv'
    OBVIOUS
  <1>1. CASE Open \/ UNCHANGED vars
    <2>1. UNCHANGED <<log, refs, pc, job, seen>>
      BY <1>1 DEF Open, vars
    <2>2. NoneLost' /\ RewritesNamed'
      BY <2>1 DEF SoloInv, NoneLost, RewritesNamed, Held
    <2>3. \A c \in Clients : Prepared(c)'
      BY <2>1, PreparedStays
    <2> QED BY <2>2, <2>3, SnapshotStep DEF SoloInv, Solo
  <1>2. CASE Age
    <2>1. log' = log /\ pc' = pc /\ \A c \in Clients : pc[c] = "idle"
      BY <1>2 DEF Age
    <2>2. NoneLost'
      BY <1>2, <2>1, SoloTypes, AgeKeepsHeld DEF NoneLost
    <2>3. RewritesNamed'
      <3>1. PICK v \in Volumes : \E s \in refs[v] :
              refs' = [refs EXCEPT ![v] = (@ \ {s}) \cup {[s EXCEPT !.old = TRUE]}]
        BY <1>2 DEF Age
      <3>2. PICK s \in refs[v] :
              refs' = [refs EXCEPT ![v] = (@ \ {s}) \cup {[s EXCEPT !.old = TRUE]}]
        BY <3>1
      <3>3. s \in Segment
        BY SoloTypes
      <3> DEFINE aged == [s EXCEPT !.old = TRUE]
      <3>4. aged.seg = s.seg /\ aged.ids = s.ids
        BY <3>3 DEF Segment
      <3>5. refs' = [refs EXCEPT ![v] = (@ \ {s}) \cup {aged}]
        BY <3>2
      <3> HIDE DEF aged
      <3> QED BY <3>4, <3>5, SoloTypes DEF SoloInv, RewritesNamed
    <2>4. \A c \in Clients : Prepared(c)'
      BY <2>1, EasySteps
    <2> QED BY <2>2, <2>3, <2>4, SnapshotStep DEF SoloInv, Solo
  <1>3. ASSUME NEW c \in Clients, Start(c) \/ Step(c) \/ Crash(c) PROVE Good'
    <2>1. CASE Start(c)
      BY <2>1, SoloPutStart, SoloWrites, SoloCompacts DEF Start
    <2>2. CASE Step(c)
      BY <2>2, SoloPutPush, SoloWrites, SoloCompacts, SoloCas, SoloSweeps DEF Step
    <2>3. CASE Crash(c)
      BY <2>3, FinishIdle, QuietStep DEF Crash
    <2> QED BY <1>3, <2>1, <2>2, <2>3
  <1> QED BY <1>1, <1>2, <1>3, SnapshotStep DEF Next, SoloInv, Solo, Good

(* SoloInv holds of a new store.                                           *)
LEMMA SoloInit == Solo /\ Init /\ SnapshotInv => SoloInv
  <1> SUFFICES ASSUME Solo, Init, SnapshotInv PROVE SoloInv
    OBVIOUS
  <1>1. NoneLost
    BY DEF Init, EmptyLog, EmptyState, NoneLost, ChunkRefs, Stored
  <1>2. RewritesNamed /\ \A c \in Clients : Prepared(c)
    BY DEF Init, RewritesNamed, Prepared
  <1> QED BY <1>1, <1>2 DEF SoloInv

(* With one client, SoloInv holds in every reachable state.                *)
LEMMA SoloHolds ==
  ASSUME Solo PROVE Spec => []SoloInv
  <1>1. Spec => []SnapshotInv
    BY SnapshotsHold
  <1>2. Init /\ SnapshotInv => SoloInv
    BY SoloInit
  <1> QED BY <1>1, <1>2, SoloStep, PTL DEF Spec

(* "Data first, manifest last", compaction, sweep and crashes included:    *)
(* with one client at a time a file lacks a chunk only if the chunk was in *)
(* a segment that a removal, stopped half way, left without its objects.   *)
THEOREM SoleClientLosesOnlyToHollow ==
  ASSUME Solo PROVE Spec => []OnlyHollowDangle
  <1>1. SoloInv => OnlyHollowDangle
    BY DEF SoloInv, NoneLost, Held, OnlyHollowDangle
  <1> QED BY <1>1, SoloHolds, PTL

(* Where no removal stops half way, every chunk a file names can be read   *)
(* where its manifest says.                                                *)
THEOREM SoleClientNeverDangles ==
  ASSUME Solo, WholeRemovals PROVE Spec => []NoDangling
  <1>1. SoloInv => NoDangling
    BY DEF SoloInv, WholeRemovals, NoneLost, Held, NoDangling, HasChunk
  <1> QED BY <1>1, SoloHolds, PTL

(* A compaction empties a volume only when no manifest points at it.       *)
THEOREM SoleClientReclaimsGarbage ==
  ASSUME Solo PROVE Spec => []ReclaimsGarbage
  <1>1. SoloInv => ReclaimsGarbage
    BY DEF SoloInv, Prepared, ReclaimsGarbage
  <1> QED BY <1>1, SoloHolds, PTL

-----------------------------------------------------------------------------
(* The accounting, in both settings.                                       *)

(* The two settings in which a file lacks at most what a removal, stopped  *)
(* half way, left hollow.                                                  *)
StoreInv == WritersInv \/ SoloInv

Putting(c) == pc[c] \in {"put.push", "put.load", "put.cas"}

(* The placements that the log names, or will when a put commits.          *)
Cited == ChunkRefs(log.st.ns) \cup UNION {job[c].manifest : c \in {d \in Clients : Putting(d)}}

(* The number of a put's segment has been drawn.                           *)
Drawn(seg) == seg.by = "put" => seg.n < ops

HasRecord(r) == \E rec \in log.st.idx : rec.vol = r.vol /\ rec.seg = r.seg

(* A put draws the number of its segment for itself: what is placed in     *)
(* that segment is what the put stages.                                    *)
OwnSegment(c) ==
  Putting(c) =>
    /\ Drawn(job[c].seg)
    /\ \A r \in Cited : r.seg = job[c].seg => r.vol = job[c].vol /\ r.id \in job[c].staged

(* A put reuses placements that have a record, and brings the record of    *)
(* the others along.                                                       *)
Recorded ==
  /\ \A r \in ChunkRefs(log.st.ns) : HasRecord(r)
  /\ \A c \in Clients : Putting(c) =>
       \A r \in job[c].manifest : r.seg = job[c].seg \/ HasRecord(r)

(* The bytes of a record are those of some chunks, and whatever is placed  *)
(* in the segment of the record is one of them.                            *)
Filled(rec) ==
  \E D \in SUBSET Chunks :
    /\ rec.bytes = BytesOf(D)
    /\ \A r \in Cited : r.vol = rec.vol /\ r.seg = rec.seg => r.id \in D

AccountInv ==
  /\ IsFiniteSet(log.st.idx)
  /\ \A r \in Cited : Drawn(r.seg) /\ (r.seg.by = "compact" => r.id \in r.seg.ids)
  /\ \A rec \in log.st.idx : Drawn(rec.seg) /\ Filled(rec)
  /\ \A c \in Clients : OwnSegment(c)
  /\ Recorded

(* Each put that is under way was, and has the locals it had.              *)
PutsKept ==
  \A c \in Clients : Putting(c)' =>
    /\ Putting(c)
    /\ job'[c].manifest = job[c].manifest /\ job'[c].staged = job[c].staged
    /\ job'[c].vol = job[c].vol /\ job'[c].seg = job[c].seg

(* The transaction with which a client commits at its step.                *)
TxnOf(c) ==
  CASE pc[c] = "put.cas" -> PutTxn(job[c])
    [] pc[c] = "rm.cas" -> DeltaRemove(job[c].name)
    [] pc[c] = "compact.cas" -> CompactionOf(c, job[c])

(* What a step can do to the log and to the puts under way.                *)
Idles == log' = log /\ ops' \in {ops, ops + 1} /\ PutsKept
Commits(c) == AtCas(c) /\ Commit(c, TxnOf(c)) /\ ops' = ops /\ PutsKept

(* The types that the proofs below read off the invariant of the store.    *)
LEMMA StoreTypes ==
  ASSUME StoreInv
  PROVE  /\ SnapshotInv /\ TypeInv /\ ops \in Nat
         /\ log.st \in State /\ log.st.ns \in Namespace /\ log.st.idx \in SUBSET SegRec
         /\ pc \in [Clients -> Steps] /\ DOMAIN job = Clients
         /\ \A c \in Clients : Suits(pc[c], job[c])
  BY DEF StoreInv, WritersInv, SoloInv, SnapshotInv, TypeInv, TypeOK, JobsSuit, Log, State

(* A client that goes anywhere but to a put keeps the puts; one at a put   *)
(* may go on with it.                                                      *)
LEMMA GoToKeepsPuts ==
  ASSUME StoreInv, NEW c \in Clients, NEW step, NEW j, GoTo(c, step, j),
         \/ step \notin {"put.push", "put.load", "put.cas"}
         \/ /\ Putting(c) /\ j.manifest = job[c].manifest /\ j.staged = job[c].staged
            /\ j.vol = job[c].vol /\ j.seg = job[c].seg
  PROVE  PutsKept
  BY StoreTypes DEF GoTo, PutsKept, Putting

(* Going on to the next candidate, or to the sweep, touches no manifest of *)
(* a put.                                                                  *)
LEMMA NextCandidateKeepsPuts ==
  ASSUME StoreInv, NEW c \in Clients, NEW base, NEW todo, NextCandidate(c, base, todo)
  PROVE  PutsKept
  <1>1. \E step, j : GoTo(c, step, j) /\ step \in {"sweep.load", "compact.load", "compact.rewrite"}
    BY DEF NextCandidate
  <1> QED BY <1>1, GoToKeepsPuts

(* A rejected swap sends a put back to its load with the manifest it has.  *)
LEMMA RetryKeepsPuts ==
  ASSUME StoreInv, NEW c \in Clients, AtCas(c), Retry(c)
  PROVE  PutsKept
  <1>1. CASE pc[c] = "put.cas"
    <2>1. PICK j : j = [job[c] EXCEPT !.tries = @ + 1]
      OBVIOUS
    <2>2. job[c] \in PutJob
      BY <1>1, StoreTypes DEF Suits
    <2>3. /\ j.manifest = job[c].manifest /\ j.staged = job[c].staged
          /\ j.vol = job[c].vol /\ j.seg = job[c].seg
      BY <2>1, <2>2 DEF PutJob
    <2>4. GoTo(c, "put.load", j) \/ GoTo(c, "idle", NoJob)
      BY <1>1, <2>1 DEF Retry
    <2> QED BY <1>1, <2>3, <2>4, GoToKeepsPuts DEF Putting
  <1>2. CASE pc[c] = "rm.cas"
    <2>1. \E j : GoTo(c, "rm.load", j) \/ GoTo(c, "idle", j)
      BY <1>2 DEF Retry
    <2> QED BY <2>1, GoToKeepsPuts
  <1>3. CASE pc[c] = "compact.cas"
    <2>1. \/ \E j : GoTo(c, "compact.load", j)
          \/ \E base, later : NextCandidate(c, base, later)
      BY <1>3 DEF Retry
    <2> QED BY <2>1, GoToKeepsPuts, NextCandidateKeepsPuts
  <1> QED BY <1>1, <1>2, <1>3 DEF AtCas

(* For the accounting three kinds of steps matter: those that change no    *)
(* record and no manifest, the start of a put, and commits.                *)
LEMMA StepKinds ==
  ASSUME StoreInv, [Next]_vars
  PROVE  \/ Idles
         \/ \E c \in Clients : PutStart(c) \/ Commits(c)
  <1>1. ASSUME NEW c \in Clients, NEW step, NEW j, GoTo(c, step, j),
               step \notin {"put.push", "put.load", "put.cas"}
        PROVE  PutsKept
    BY <1>1, GoToKeepsPuts
  <1>2. ASSUME NEW c \in Clients, Finish(c) PROVE PutsKept
    BY <1>2, GoToKeepsPuts DEF Finish
  <1>3. CASE Open \/ Age \/ UNCHANGED vars
    <2>1. UNCHANGED <<log, pc, job, ops>>
      BY <1>3 DEF Open, Age, vars
    <2> QED BY <2>1 DEF Idles, PutsKept, Putting
  <1>4. ASSUME NEW c \in Clients, Start(c) PROVE PutStart(c) \/ Idles
    <2>1. CASE RemoveStart(c)
      <3>1. PICK j : GoTo(c, "rm.load", j)
        BY <2>1 DEF RemoveStart
      <3> QED BY <1>1, <2>1, <3>1 DEF RemoveStart, Begin, Idles
    <2>2. CASE CompactStart(c)
      <3>1. PutsKept
        BY <2>2, NextCandidateKeepsPuts DEF CompactStart
      <3> QED BY <2>2, <3>1 DEF CompactStart, Begin, Idles
    <2> QED BY <1>4, <2>1, <2>2 DEF Start
  <1>5. ASSUME NEW c \in Clients, Crash(c) PROVE Idles
    BY <1>2, <1>5 DEF Crash, Idles
  <1>6. ASSUME NEW c \in Clients, PutPush(c) \/ PutLoad(c) PROVE Idles
    <2>1. GoTo(c, "put.load", job[c]) \/ GoTo(c, "put.cas", job[c]) \/ Finish(c)
      BY <1>6 DEF PutPush, PutLoad
    <2>2. Putting(c)
      BY <1>6 DEF PutPush, PutLoad, Putting
    <2>3. PutsKept
      BY <1>2, <2>1, <2>2, GoToKeepsPuts
    <2> QED BY <1>6, <2>3 DEF PutPush, PutLoad, Idles
  <1>7. ASSUME NEW c \in Clients, RemoveLoad(c) PROVE Idles
    <2>1. GoTo(c, "rm.cas", job[c]) \/ Finish(c)
      BY <1>7 DEF RemoveLoad
    <2> QED BY <1>1, <1>2, <1>7, <2>1 DEF RemoveLoad, Idles
  <1>8. ASSUME NEW c \in Clients, PutCas(c) \/ RemoveCas(c) \/ CompactCas(c) PROVE Commits(c)
    <2>1. Finish(c) \/ GoTo(c, "compact.reclaim", job[c])
      BY <1>8 DEF PutCas, RemoveCas, CompactCas
    <2>2. PutsKept
      BY <1>1, <1>2, <2>1
    <2> QED BY <1>8, <2>2 DEF PutCas, RemoveCas, CompactCas, Commits, TxnOf, AtCas
  <1>9. ASSUME NEW c \in Clients, CompactRewrite(c) \/ CompactReclaim(c) \/ RemovalStops(c)
        PROVE  Idles
    <2>1. \/ Finish(c)
          \/ \E j : GoTo(c, "compact.load", j) \/ GoTo(c, "compact.delete", j)
                      \/ GoTo(c, "compact.recreate", j)
      BY <1>9 DEF CompactRewrite, CompactReclaim, RemovalStops
    <2>2. PutsKept
      BY <1>1, <1>2, <2>1
    <2> QED BY <1>9, <2>2 DEF CompactRewrite, CompactReclaim, RemovalStops, Idles
  <1>10. ASSUME NEW c \in Clients, CompactLoad(c) \/ CompactRecreate(c) \/ CompactDelete(c)
         PROVE  Idles
    <2>1. \/ \E base, later : NextCandidate(c, base, later)
          \/ \E j : GoTo(c, "compact.reclaim", j) \/ GoTo(c, "compact.cas", j)
                      \/ GoTo(c, "compact.delete", j)
      BY <1>10 DEF CompactLoad, CompactRecreate, CompactDelete
    <2>2. PutsKept
      BY <1>1, <2>1, NextCandidateKeepsPuts
    <2> QED BY <1>10, <2>2 DEF CompactLoad, CompactRecreate, CompactDelete, Idles
  <1>11. ASSUME NEW c \in Clients, CasRejected(c) PROVE Idles
    BY <1>11, RetryKeepsPuts DEF CasRejected, Idles
  <1>12. ASSUME NEW c \in Clients, CasAnswerLost(c) PROVE Commits(c)
    BY <1>12, RetryKeepsPuts DEF CasAnswerLost, Commits, TxnOf
  <1>13. ASSUME NEW c \in Clients, SweepLoad(c) \/ SweepList(c) \/ SweepDelete(c) PROVE Idles
    <2>1. PutsKept
      BY <1>1, <1>2, <1>13, SweepMoves
    <2> QED BY <1>13, <2>1 DEF SweepLoad, SweepList, SweepDelete, Idles
  <1> QED BY <1>3, <1>4, <1>5, <1>6, <1>7, <1>8, <1>9, <1>10, <1>11, <1>12, <1>13 DEF Next, Step

(* What is cited are chunk references, and the locals of a put are typed.  *)
LEMMA CitedTypes ==
  ASSUME StoreInv
  PROVE  /\ Cited \subseteq ChunkRef
         /\ \A r \in Cited : r.id \in Chunks /\ r.vol \in Volumes /\ r.seg \in SegId
         /\ \A c \in Clients : Putting(c) =>
              /\ job[c] \in PutJob /\ job[c].seg \in PutSegId /\ job[c].seg \in SegId
              /\ job[c].staged \in SUBSET Chunks
              /\ job[c].manifest \in Manifest /\ job[c].name \in Names
              /\ job[c].staged = {} \/ job[c].vol \in Volumes
  <1>1. ASSUME NEW c \in Clients, Putting(c)
        PROVE  /\ job[c] \in PutJob /\ job[c].seg \in PutSegId /\ job[c].seg \in SegId
               /\ job[c].staged \in SUBSET Chunks
               /\ job[c].manifest \in Manifest /\ job[c].name \in Names
               /\ job[c].staged = {} \/ job[c].vol \in Volumes
    BY <1>1, StoreTypes DEF Suits, Putting, PutJob, SegId
  <1>2. Cited \subseteq ChunkRef
    BY <1>1, StoreTypes, RefsType DEF Cited, Manifest
  <1>3. \A r \in ChunkRef : r.id \in Chunks /\ r.vol \in Volumes /\ r.seg \in SegId
    BY DEF ChunkRef
  <1> QED BY <1>1, <1>2, <1>3

-----------------------------------------------------------------------------
(* Each kind of step keeps the accounting.                                 *)

(* What is cited after a step that keeps the puts: what the log names, and *)
(* what the puts that go on did name.                                      *)
LEMMA CitedAfter ==
  ASSUME StoreInv, PutsKept, NEW r \in Cited'
  PROVE  \/ r \in ChunkRefs(log'.st.ns)
         \/ \E c \in Clients : Putting(c) /\ Putting(c)' /\ r \in job[c].manifest
  BY DEF Cited, PutsKept

(* A step that cites nothing new and adds records that are in order.       *)
LEMMA AccountsKept ==
  ASSUME StoreInv, AccountInv, PutsKept, ops' \in {ops, ops + 1},
         Cited' \subseteq Cited, IsFiniteSet(log'.st.idx), Recorded',
         \A rec \in log'.st.idx : rec \in log.st.idx \/ (Drawn(rec.seg)' /\ Filled(rec)')
  PROVE  AccountInv'
  <1>0. ops \in Nat /\ ops' \in Nat /\ ops <= ops'
    BY StoreTypes
  <1>1. ASSUME NEW seg, Drawn(seg), seg \in SegId PROVE Drawn(seg)'
    <2>1. seg.by = "put" => seg.n \in Nat
      BY <1>1 DEF SegId, PutSegId, CompactSegId
    <2> QED BY <1>0, <1>1, <2>1 DEF Drawn
  <1>2. /\ \A r \in Cited : r.seg \in SegId
        /\ \A rec \in log.st.idx : rec.seg \in SegId
        /\ \A c \in Clients : Putting(c) => job[c].seg \in SegId
    BY CitedTypes, StoreTypes, RecordType
  <1>3. ASSUME NEW rec, Filled(rec) PROVE Filled(rec)'
    <2>1. PICK D \in SUBSET Chunks :
            /\ rec.bytes = BytesOf(D)
            /\ \A r \in Cited : r.vol = rec.vol /\ r.seg = rec.seg => r.id \in D
      BY <1>3 DEF Filled
    <2> QED BY <2>1 DEF Filled
  <1>4. \A r \in Cited' : Drawn(r.seg)' /\ (r.seg.by = "compact" => r.id \in r.seg.ids)
    BY <1>1, <1>2 DEF AccountInv
  <1>5. \A rec \in log'.st.idx : Drawn(rec.seg)' /\ Filled(rec)'
    BY <1>1, <1>2, <1>3 DEF AccountInv
  <1>6. ASSUME NEW c \in Clients PROVE OwnSegment(c)'
    BY <1>1, <1>2 DEF AccountInv, OwnSegment, PutsKept
  <1> QED BY <1>4, <1>5, <1>6 DEF AccountInv

(* A step that leaves the log alone.                                       *)
LEMMA IdlesAccounts == ASSUME StoreInv, AccountInv, Idles PROVE AccountInv'
  <1>1. Cited' \subseteq Cited
    BY CitedAfter DEF Idles, Cited
  <1>2. Recorded'
    BY DEF Idles, AccountInv, Recorded, HasRecord, PutsKept
  <1> QED BY <1>1, <1>2, AccountsKept DEF Idles, AccountInv

(* A put that starts draws a number that nothing cites yet.                *)
LEMMA PutStartAccounts == ASSUME StoreInv, AccountInv, NEW c \in Clients, PutStart(c) PROVE AccountInv'
  <1>1. PICK name \in Names, S \in Contents :
          LET reused == {r \in Known(log.st.ns) : r.id \in S}
              staged == S \ Ids(reused)
              seg    == [by |-> "put", n |-> ops]
          IN \E v \in IF staged = {} THEN {NoVolume}
                      ELSE select_volume(BytesOf(staged), log.st.idx) :
               LET manifest == reused \cup {[id |-> id, vol |-> v, seg |-> seg] : id \in staged}
               IN /\ staged # {} \/ log.st.ns[name] # manifest
                  /\ GoTo(c, IF staged = {} THEN "put.load" ELSE "put.push",
                          [cmd |-> "put", name |-> name, manifest |-> manifest,
                           staged |-> staged, vol |-> v, seg |-> seg, tries |-> 0])
    BY DEF PutStart
  <1>0. PICK seg : seg = [by |-> "put", n |-> ops]
    OBVIOUS
  <1> DEFINE reused == {r \in Known(log.st.ns) : r.id \in S}
             staged == S \ Ids(reused)
  <1>2. PICK v : GoTo(c, IF staged = {} THEN "put.load" ELSE "put.push",
                      [cmd |-> "put", name |-> name,
                       manifest |-> reused \cup {[id |-> id, vol |-> v, seg |-> seg] : id \in staged},
                       staged |-> staged, vol |-> v, seg |-> seg, tries |-> 0])
    BY <1>0, <1>1
  <1>3. log' = log /\ ops' = ops + 1 /\ ops \in Nat /\ pc[c] = "idle"
    BY StoreTypes DEF PutStart, Begin
  <1>4. reused \subseteq ChunkRefs(log.st.ns)
    BY StoreTypes, RefsType
  <1>5. seg.by = "put" /\ seg.n = ops
    BY <1>0
  <1> HIDE DEF reused, staged
  <1> DEFINE fresh == {[id |-> id, vol |-> v, seg |-> seg] : id \in staged}
  <1>6. /\ job'[c].manifest = reused \cup fresh /\ job'[c].staged = staged
        /\ job'[c].vol = v /\ job'[c].seg = seg
        /\ \A d \in Clients \ {c} : job'[d] = job[d] /\ pc'[d] = pc[d]
    BY <1>2, StoreTypes DEF GoTo
  <1>7. \A r \in fresh : r.id \in staged /\ r.vol = v /\ r.seg = seg
    OBVIOUS
  <1> HIDE DEF fresh
  <1>8. Cited' \subseteq Cited \cup fresh
    BY <1>3, <1>4, <1>6 DEF Cited, Putting
  <1>9. \A r \in Cited : r.seg # seg
    BY <1>3, <1>5, CitedTypes DEF AccountInv, Drawn
  <1>10. \A rec \in log.st.idx : rec.seg # seg
    BY <1>3, <1>5 DEF AccountInv, Drawn
  <1>11. ASSUME NEW s \in SegId, Drawn(s) PROVE Drawn(s)'
    <2>1. s.by = "put" => s.n \in Nat
      BY DEF SegId, PutSegId, CompactSegId
    <2> QED BY <1>3, <1>11, <2>1 DEF Drawn
  <1>12. Drawn(seg)' /\ seg.by # "compact"
    BY <1>3, <1>5 DEF Drawn
  <1>13. \A r \in Cited' : Drawn(r.seg)' /\ (r.seg.by = "compact" => r.id \in r.seg.ids)
    BY <1>7, <1>8, <1>11, <1>12, CitedTypes DEF AccountInv
  <1>14. ASSUME NEW rec \in log.st.idx PROVE Drawn(rec.seg)' /\ Filled(rec)'
    <2>1. PICK D \in SUBSET Chunks :
            /\ rec.bytes = BytesOf(D)
            /\ \A r \in Cited : r.vol = rec.vol /\ r.seg = rec.seg => r.id \in D
      BY DEF AccountInv, Filled
    <2>2. \A r \in Cited' : r.vol = rec.vol /\ r.seg = rec.seg => r.id \in D
      BY <1>7, <1>8, <1>10, <2>1
    <2>3. Drawn(rec.seg)'
      BY <1>11, StoreTypes, RecordType DEF AccountInv
    <2> QED BY <2>1, <2>2, <2>3 DEF Filled
  <1>15. ASSUME NEW d \in Clients PROVE OwnSegment(d)'
    <2>1. CASE d = c
      BY <1>6, <1>7, <1>8, <1>9, <1>12, <2>1 DEF OwnSegment
    <2>2. CASE d # c /\ Putting(d)
      <3>1. Drawn(job[d].seg) /\ job[d].seg \in SegId /\ job[d].seg # seg
        BY <1>3, <1>5, <2>2, CitedTypes DEF AccountInv, OwnSegment, Drawn
      <3>2. Drawn(job[d].seg)'
        BY <1>6, <1>11, <2>2, <3>1
      <3> QED BY <1>6, <1>7, <1>8, <2>2, <3>1, <3>2 DEF AccountInv, OwnSegment
    <2>3. CASE d # c /\ ~Putting(d)
      BY <1>6, <2>3 DEF OwnSegment, Putting
    <2> QED BY <2>1, <2>2, <2>3
  <1>16. Recorded'
    <2>1. \A r : HasRecord(r) => HasRecord(r)'
      BY <1>3 DEF HasRecord
    <2>2. \A r \in reused \cup fresh : r.seg = seg \/ HasRecord(r)
      BY <1>4, <1>7 DEF AccountInv, Recorded
    <2> QED BY <1>3, <1>6, <2>1, <2>2 DEF AccountInv, Recorded, HasRecord, Putting
  <1> QED BY <1>3, <1>13, <1>14, <1>15, <1>16 DEF AccountInv

(* A transaction commits on the log's own state.                           *)
LEMMA StoreCommit ==
  ASSUME StoreInv, NEW c \in Clients, NEW txn, Commit(c, txn)
  PROVE  seen[c] = log /\ log'.st = apply_txn(log.st, txn)
  BY StoreTypes DEF Commit, OnTip, SnapshotInv, SnapshotFresh

(* A put that commits brings the record of its segment, if it has one.     *)
LEMMA PutCommitAccounts ==
  ASSUME StoreInv, AccountInv, NEW c \in Clients, pc[c] = "put.cas", Commits(c)
  PROVE  AccountInv'
  <1>0. PICK j : j = job[c]
    OBVIOUS
  <1>1. PICK seals : seals = IF j.staged = {} THEN {} ELSE Seal(j.vol, j.seg, j.staged)
    OBVIOUS
  <1>2. /\ Putting(c) /\ j \in PutJob /\ j.seg \in SegId /\ j.staged \in SUBSET Chunks /\ j.name \in Names
        /\ j.manifest \in Manifest /\ (j.staged = {} \/ j.vol \in Volumes)
    <2>1. Putting(c)
      BY DEF Putting
    <2> QED BY <1>0, <2>1, CitedTypes
  <1>3. PutTxn(j) = DeltaPut(j.name, j.manifest, seals) /\ Commit(c, PutTxn(j))
    BY <1>0, <1>1 DEF Commits, TxnOf, PutTxn
  <1>4. /\ log'.st = apply_txn(log.st, PutTxn(j))
        /\ log'.st.idx = InsertSeals(log.st.idx, seals)
    <2>1. log'.st = apply_txn(log.st, PutTxn(j))
      BY <1>3, StoreCommit
    <2>2. apply_txn(log.st, DeltaPut(j.name, j.manifest, seals)).idx = InsertSeals(log.st.idx, seals)
      BY DEF DeltaPut, apply_txn
    <2> QED BY <1>3, <2>1, <2>2
  <1>5. ChunkRefs(log'.st.ns) \subseteq ChunkRefs(log.st.ns) \cup j.manifest
    BY <1>0, <1>2, <1>4, StoreTypes, PutAddsManifest
  <1>6. Cited' \subseteq Cited
    BY <1>0, <1>2, <1>5, CitedAfter DEF Commits, Cited
  <1>7. seals \subseteq {[vol |-> j.vol, seg |-> j.seg, bytes |-> BytesOf(j.staged)]}
    BY <1>1 DEF Seal
  <1>8. IsFiniteSet(log'.st.idx)
    <2>1. PICK s : s = [vol |-> j.vol, seg |-> j.seg, bytes |-> BytesOf(j.staged)]
      OBVIOUS
    <2>2. log'.st.idx \in SUBSET (log.st.idx \cup {s})
      BY <1>4, <1>7, <2>1 DEF InsertSeals
    <2>3. IsFiniteSet(log.st.idx \cup {s})
      BY FS_AddElement DEF AccountInv
    <2> QED BY <2>2, <2>3, FS_Subset
  <1>9. ASSUME NEW rec \in log'.st.idx PROVE rec \in log.st.idx \/ (Drawn(rec.seg)' /\ Filled(rec)')
    <2>1. CASE rec \in log.st.idx
      BY <2>1
    <2>2. CASE rec \in seals
      <3>1. rec.seg = j.seg /\ rec.bytes = BytesOf(j.staged)
        BY <1>7, <2>2
      <3>2. Drawn(rec.seg)'
        BY <1>0, <1>2, <3>1 DEF AccountInv, OwnSegment, Drawn, Commits
      <3>3. \A r \in Cited' : r.seg = rec.seg => r.id \in j.staged
        BY <1>0, <1>2, <1>6, <3>1 DEF AccountInv, OwnSegment
      <3> QED BY <1>2, <3>1, <3>2, <3>3 DEF Filled
    <2> QED BY <1>4, <2>1, <2>2 DEF InsertSeals
  <1>10. Recorded'
    <2>1. ASSUME NEW r, HasRecord(r) PROVE HasRecord(r)'
      <3>1. PICK rec \in log.st.idx : rec.vol = r.vol /\ rec.seg = r.seg
        BY <2>1 DEF HasRecord
      <3>2. rec \in log'.st.idx \/ \E s \in seals : s.vol = rec.vol /\ s.seg = rec.seg
        BY <1>4 DEF InsertSeals
      <3>3. \A s \in seals : s \in log'.st.idx
        BY <1>4 DEF InsertSeals
      <3> QED BY <3>1, <3>2, <3>3 DEF HasRecord
    <2>2. ASSUME NEW r \in j.manifest PROVE HasRecord(r)'
      <3>1. CASE r.seg = j.seg
        <4>1. r \in Cited
          BY <1>0, <1>2 DEF Cited
        <4>2. r.vol = j.vol /\ r.id \in j.staged
          BY <1>0, <1>2, <3>1, <4>1 DEF AccountInv, OwnSegment
        <4>3. PICK s \in seals : s.vol = j.vol /\ s.seg = j.seg
          BY <1>1, <4>2 DEF Seal
        <4>4. s \in log'.st.idx
          BY <1>4 DEF InsertSeals
        <4> QED BY <3>1, <4>2, <4>3, <4>4 DEF HasRecord
      <3>2. CASE r.seg # j.seg
        BY <1>0, <1>2, <2>1, <3>2 DEF AccountInv, Recorded
      <3> QED BY <3>1, <3>2
    <2>3. \A r \in ChunkRefs(log'.st.ns) : HasRecord(r)'
      BY <1>5, <2>1, <2>2 DEF AccountInv, Recorded
    <2>4. ASSUME NEW d \in Clients, Putting(d)', NEW r \in job'[d].manifest
          PROVE  r.seg = job'[d].seg \/ HasRecord(r)'
      BY <2>1, <2>4 DEF AccountInv, Recorded, Commits, PutsKept
    <2> QED BY <2>3, <2>4 DEF Recorded
  <1> QED BY <1>6, <1>8, <1>9, <1>10, AccountsKept DEF Commits

(* A removal that commits leaves the records alone.                        *)
LEMMA RemoveCommitAccounts ==
  ASSUME StoreInv, AccountInv, NEW c \in Clients, pc[c] = "rm.cas", Commits(c)
  PROVE  AccountInv'
  <1>1. job[c].name \in Names
    BY StoreTypes DEF Suits, RemoveJob
  <1>2. /\ log'.st = apply_txn(log.st, DeltaRemove(job[c].name))
        /\ log'.st.idx = log.st.idx
    <2>1. log'.st = apply_txn(log.st, DeltaRemove(job[c].name))
      BY StoreCommit DEF Commits, TxnOf
    <2>2. apply_txn(log.st, DeltaRemove(job[c].name)).idx = log.st.idx
      BY DEF DeltaRemove, apply_txn
    <2> QED BY <2>1, <2>2
  <1>3. ChunkRefs(log'.st.ns) \subseteq ChunkRefs(log.st.ns)
    BY <1>1, <1>2, StoreTypes, RemoveAddsNothing
  <1>4. Cited' \subseteq Cited
    BY <1>3, CitedAfter DEF Commits, Cited
  <1>5. \A r : HasRecord(r)' <=> HasRecord(r)
    BY <1>2 DEF HasRecord
  <1>6. Recorded'
    BY <1>3, <1>5 DEF AccountInv, Recorded, Commits, PutsKept
  <1> QED BY <1>2, <1>4, <1>6, AccountsKept DEF Commits, AccountInv

(* A compaction that commits drops the records of the volume it retires,   *)
(* and nothing the log names is left there.                                *)
LEMMA CompactCommitAccounts ==
  ASSUME SoloInv, AccountInv, NEW c \in Clients, pc[c] = "compact.cas", Commits(c)
  PROVE  AccountInv'
  <1>0. PICK j : j = job[c]
    OBVIOUS
  <1>1. PICK seals : seals = IF j.live = {} THEN {} ELSE Seal(j.dest, RewriteOf(j), j.live)
    OBVIOUS
  <1>2. /\ j.dest # j.vol /\ j.dest \in Volumes /\ j.live \in SUBSET Chunks
        /\ RewriteOf(j).by = "compact" /\ RewriteOf(j).ids = j.live
    BY <1>0, CompactJobTypes DEF CompactSegId
  <1>3. Commit(c, CompactionOf(c, job[c]))
    BY DEF Commits, TxnOf
  <1>4. /\ \A r \in ChunkRefs(log'.st.ns) :
             \/ r \in ChunkRefs(log.st.ns) /\ r.vol # j.vol
             \/ r.vol = j.dest /\ r.seg = RewriteOf(j) /\ r.id \in j.live
        /\ log'.st.idx = {rec \in InsertSeals(log.st.idx, seals) : rec.vol # j.vol}
    BY <1>0, <1>1, <1>3, CompactCommitState
  <1>5. \A d \in Clients : ~Putting(d)'
    BY DEF SoloInv, Solo, Putting, Commits, PutsKept
  <1>6. \A r \in Cited' : r \in ChunkRefs(log'.st.ns)
    BY <1>5, CitedAfter DEF Commits, StoreInv
  <1>7. \A r \in ChunkRefs(log.st.ns) : r \in Cited
    BY DEF Cited
  <1>8. ops' = ops
    BY DEF Commits
  <1>9. seals \subseteq {[vol |-> j.dest, seg |-> RewriteOf(j), bytes |-> BytesOf(j.live)]}
    BY <1>1 DEF Seal
  <1>10. IsFiniteSet(log'.st.idx)
    <2>1. PICK s : s = [vol |-> j.dest, seg |-> RewriteOf(j), bytes |-> BytesOf(j.live)]
      OBVIOUS
    <2>2. log'.st.idx \in SUBSET (log.st.idx \cup {s})
      BY <1>4, <1>9, <2>1 DEF InsertSeals
    <2>3. IsFiniteSet(log.st.idx \cup {s})
      BY FS_AddElement DEF AccountInv
    <2> QED BY <2>2, <2>3, FS_Subset
  <1>11. \A r \in Cited' : Drawn(r.seg)' /\ (r.seg.by = "compact" => r.id \in r.seg.ids)
    BY <1>2, <1>4, <1>6, <1>7, <1>8 DEF AccountInv, Drawn
  <1>12. ASSUME NEW rec \in log'.st.idx PROVE Drawn(rec.seg)' /\ Filled(rec)'
    <2>1. CASE rec \in seals
      <3>1. rec.seg = RewriteOf(j) /\ rec.bytes = BytesOf(j.live)
        BY <1>9, <2>1
      <3>2. \A r \in Cited' : r.seg = rec.seg => r.id \in j.live
        BY <1>2, <1>11, <3>1
      <3> QED BY <1>2, <3>1, <3>2 DEF Filled, Drawn
    <2>2. CASE rec \notin seals
      <3>1. rec \in log.st.idx /\ \A s \in seals : <<rec.vol, rec.seg>> # <<s.vol, s.seg>>
        BY <1>4, <2>2 DEF InsertSeals
      <3>2. PICK D \in SUBSET Chunks :
              /\ rec.bytes = BytesOf(D)
              /\ \A r \in Cited : r.vol = rec.vol /\ r.seg = rec.seg => r.id \in D
        BY <3>1 DEF AccountInv, Filled
      <3>3. ASSUME NEW r \in Cited', r.vol = rec.vol, r.seg = rec.seg PROVE r.id \in D
        <4>1. CASE r \in ChunkRefs(log.st.ns)
          BY <1>7, <3>2, <3>3, <4>1
        <4>2. CASE r.vol = j.dest /\ r.seg = RewriteOf(j) /\ r.id \in j.live
          <5>1. PICK s \in seals : s.vol = j.dest /\ s.seg = RewriteOf(j)
            BY <1>1, <4>2 DEF Seal
          <5> QED BY <3>1, <3>3, <4>2, <5>1
        <4> QED BY <1>4, <1>6, <4>1, <4>2
      <3>4. Drawn(rec.seg)'
        BY <1>8, <3>1 DEF AccountInv, Drawn
      <3> QED BY <3>2, <3>3, <3>4 DEF Filled
    <2> QED BY <2>1, <2>2
  <1>13. ASSUME NEW r \in ChunkRefs(log'.st.ns) PROVE HasRecord(r)'
    <2>1. CASE r \in ChunkRefs(log.st.ns) /\ r.vol # j.vol
      <3>1. PICK rec \in log.st.idx : rec.vol = r.vol /\ rec.seg = r.seg
        BY <2>1 DEF AccountInv, Recorded, HasRecord
      <3>2. \/ rec \in InsertSeals(log.st.idx, seals)
            \/ \E s \in seals : s.vol = rec.vol /\ s.seg = rec.seg
        BY DEF InsertSeals
      <3>3. \A s \in seals : s \in InsertSeals(log.st.idx, seals)
        BY DEF InsertSeals
      <3> QED BY <1>4, <2>1, <3>1, <3>2, <3>3 DEF HasRecord
    <2>2. CASE r.vol = j.dest /\ r.seg = RewriteOf(j) /\ r.id \in j.live
      <3>1. PICK s \in seals : s.vol = j.dest /\ s.seg = RewriteOf(j)
        BY <1>1, <2>2 DEF Seal
      <3>2. s \in log'.st.idx
        BY <1>2, <1>4, <3>1 DEF InsertSeals
      <3> QED BY <2>2, <3>1, <3>2 DEF HasRecord
    <2> QED BY <1>4, <2>1, <2>2
  <1> QED BY <1>5, <1>10, <1>11, <1>12, <1>13 DEF AccountInv, OwnSegment, Recorded

(* AccountInv is inductive where StoreInv holds.                           *)
LEMMA AccountStep == StoreInv /\ AccountInv /\ [Next]_vars => AccountInv'
  <1> SUFFICES ASSUME StoreInv, AccountInv, [Next]_vars PROVE AccountInv'
    OBVIOUS
  <1>1. ASSUME NEW c \in Clients, Commits(c) PROVE AccountInv'
    <2>1. CASE pc[c] = "compact.cas"
      <3>1. SoloInv
        BY <2>1 DEF StoreInv, WritersInv, DataFirst, WriterSteps
      <3> QED BY <1>1, <2>1, <3>1, CompactCommitAccounts
    <2> QED BY <1>1, <2>1, PutCommitAccounts, RemoveCommitAccounts DEF Commits, AtCas
  <1> QED BY <1>1, StepKinds, IdlesAccounts, PutStartAccounts

(* A new store holds nothing and is charged nothing.                       *)
LEMMA AccountInit == Init => AccountInv
  <1> SUFFICES ASSUME Init PROVE AccountInv
    OBVIOUS
  <1>1. log.st.idx = {} /\ Cited = {} /\ ChunkRefs(log.st.ns) = {} /\ \A c \in Clients : ~Putting(c)
    BY DEF Init, EmptyLog, EmptyState, Cited, ChunkRefs, Stored, Putting
  <1> QED BY <1>1, FS_EmptySet DEF AccountInv, OwnSegment, Recorded

(* Both hold in every reachable state of the two settings.                 *)
LEMMA AccountsHold ==
  ASSUME WritersOnly \/ Solo PROVE Spec => [](StoreInv /\ AccountInv)
  <1>1. Spec => []SnapshotInv
    BY SnapshotsHold
  <1>2. Init /\ SnapshotInv => StoreInv
    BY WritersInit, SoloInit DEF StoreInv
  <1>3. StoreInv /\ [Next]_vars => StoreInv'
    BY WritersStep, SoloStep DEF StoreInv
  <1> QED BY <1>1, <1>2, <1>3, AccountInit, AccountStep, PTL DEF Spec

(* The log is the single authority for byte accounting: whatever a file    *)
(* names lies in a segment that has a record, and the record has its       *)
(* bytes.                                                                  *)
THEOREM EverythingIsAccounted ==
  ASSUME WritersOnly \/ Solo PROVE Spec => []Accounted
  <1>1. ASSUME StoreInv, AccountInv PROVE Accounted
    <2> SUFFICES ASSUME NEW r \in ChunkRefs(log.st.ns)
                 PROVE  \E rec \in log.st.idx :
                          rec.vol = r.vol /\ rec.seg = r.seg /\ rec.bytes >= Clen[r.id]
      BY DEF Accounted
    <2>1. PICK rec \in log.st.idx : rec.vol = r.vol /\ rec.seg = r.seg
      BY <1>1 DEF AccountInv, Recorded, HasRecord
    <2>2. PICK D \in SUBSET Chunks : rec.bytes = BytesOf(D) /\ r.id \in D
      BY <1>1, <2>1 DEF AccountInv, Filled, Cited
    <2>3. Total(Clen, D) >= Clen[r.id]
      <3>1. IsFiniteSet(D) /\ \A x \in D : Clen[x] \in Nat
        BY BytesAreTotal, ChunksAssumption
      <3> QED BY <2>2, <3>1, TotalMember
    <2> QED BY <2>1, <2>2, <2>3, BytesAreTotal
  <1> QED BY <1>1, AccountsHold, PTL

(* A volume is charged with at least the bytes of the chunks alive on it,  *)
(* so that what is dead is never a negative number.                        *)
THEOREM LiveIsWithinTotal ==
  ASSUME WritersOnly \/ Solo PROVE Spec => []LiveWithinTotal
  <1>1. ASSUME StoreInv, AccountInv PROVE LiveWithinTotal
    <2> SUFFICES ASSUME NEW v \in Volumes
                 PROVE  live_bytes(log.st.ns, v) <= volume_used(v, log.st.idx)
      BY DEF LiveWithinTotal
    <2>1. log.st.idx \in SUBSET SegRec /\ IsFiniteSet(log.st.idx)
      BY <1>1, StoreTypes DEF AccountInv
    <2> DEFINE R == RecordsOf(v, log.st.idx)
               L == Ids({r \in RefsOn(log.st.ns, v) : r \in log.st.ns[Min(Holders(log.st.ns, r.id))]})
               Holds(rec, D) == /\ rec.bytes = BytesOf(D)
                                /\ \A r \in Cited : r.vol = rec.vol /\ r.seg = rec.seg => r.id \in D
    <2>2. R \in SUBSET SegRec /\ IsFiniteSet(R) /\ volume_used(v, log.st.idx) = Total(Sizes, R)
      BY <2>1, UsedIsTotal DEF RecordsOf
    <2>3. PICK D \in [R -> SUBSET Chunks] : \A rec \in R : Holds(rec, D[rec])
      <3>1. \A rec \in R : \E X \in SUBSET Chunks : Holds(rec, X)
        BY <1>1 DEF AccountInv, Filled, RecordsOf
      <3> HIDE DEF R, Holds
      <3>2. [rec \in R |-> CHOOSE X \in SUBSET Chunks : Holds(rec, X)] \in [R -> SUBSET Chunks]
        BY <3>1
      <3> QED BY <3>1, <3>2
    <2>4. ASSUME NEW id \in L PROVE id \in Chunks /\ \E rec \in R : id \in D[rec]
      <3>1. PICK r \in ChunkRefs(log.st.ns) : r.vol = v /\ r.id = id
        BY DEF Ids, RefsOn
      <3>2. PICK rec \in log.st.idx : rec.vol = r.vol /\ rec.seg = r.seg
        BY <1>1 DEF AccountInv, Recorded, HasRecord
      <3>3. rec \in R /\ r \in Cited
        BY <3>1, <3>2 DEF RecordsOf, Cited
      <3> QED BY <1>1, <2>3, <3>1, <3>2, <3>3, CitedTypes
    <2>5. BytesOf(L) <= Total(Sizes, R)
      <3> HIDE DEF R, L
      <3>1. L \in SUBSET Chunks /\ \A id \in L : \E rec \in R : id \in D[rec]
        BY <2>4
      <3>2. \A rec \in R : rec.bytes = BytesOf(D[rec])
        BY <2>3
      <3> QED BY <2>2, <3>1, <3>2, CoveredBytes
    <2> QED BY <2>2, <2>5 DEF live_bytes
  <1> QED BY <1>1, AccountsHold, PTL

-----------------------------------------------------------------------------
(* The budget wall, for one client whose compactions have no second        *)
(* destination to overfill: no more than two volumes, or no compactions.   *)

(* A put may charge its volume with its segment, or has done so.           *)
PutBudget(c) ==
  LET j == job[c]
  IN  Putting(c) /\ j.staged # {} =>
        \/ [vol |-> j.vol, seg |-> j.seg, bytes |-> BytesOf(j.staged)] \in log.st.idx
        \/ Fits(j.vol, BytesOf(j.staged), log.st.idx)

(* No volume but v is charged with more than when base was read.           *)
NoMoreThan(base, v) ==
  \A w \in Volumes \ {v} : volume_used(w, log.st.idx) <= volume_used(w, base.idx)

Compacting(c) ==
  pc[c] \in {"compact.rewrite", "compact.load", "compact.cas", "compact.reclaim",
             "compact.recreate", "compact.delete"}

(* What a compaction knows of its destination, from a state that may be    *)
(* old: there is room, unless it has used it already.                      *)
CompactBudget(c) ==
  LET j == job[c]
  IN  Compacting(c) =>
        /\ j.vol \notin j.later /\ IsFiniteSet(j.base.idx)
        /\ \A v \in j.later : NoMoreThan(j.base, v)
        /\ pc[c] \in {"compact.rewrite", "compact.load", "compact.cas"} =>
             Fits(j.dest, BytesOf(j.live), j.base.idx)
        /\ pc[c] \in {"compact.rewrite", "compact.cas"} => NoMoreThan(j.base, j.vol)
        /\ pc[c] = "compact.load" => NoMoreThan(j.base, j.vol) \/ Retired(log.st, j.vol)

BudgetInv == BudgetWall /\ \A c \in Clients : PutBudget(c) /\ CompactBudget(c)

(* The setting, with what is known of it already.                          *)
BudgetSetting == SoloInv /\ AccountInv /\ (NumVolumes <= 2 \/ WritersInv)

(* What the charges of a volume are made of.                               *)
LEMMA BudgetTypes ==
  ASSUME BudgetSetting
  PROVE  /\ StoreInv /\ log.st.idx \in SUBSET SegRec /\ IsFiniteSet(log.st.idx)
         /\ \A v : volume_used(v, log.st.idx) \in Nat
         /\ \A v \in Volumes : Threshold[v] \in Nat
         /\ \A c, d \in Clients : c = d
  <1>1. StoreInv /\ log.st.idx \in SUBSET SegRec /\ IsFiniteSet(log.st.idx)
    BY StoreTypes DEF BudgetSetting, StoreInv, AccountInv
  <1> QED BY <1>1, UsedIsTotal, VolumesAssumption DEF BudgetSetting, SoloInv, Solo

(* A step that leaves the log alone keeps the wall, and what the client    *)
(* that moves has to show is about itself.                                 *)
LEMMA BudgetStays ==
  ASSUME BudgetSetting, BudgetInv, NEW c \in Clients, log' = log, PutBudget(c)', CompactBudget(c)'
  PROVE  BudgetInv'
  <1>1. BudgetWall'
    BY DEF BudgetInv, BudgetWall
  <1> QED BY <1>1, BudgetTypes DEF BudgetInv

(* A client that neither puts nor compacts has nothing to show.            *)
LEMMA BudgetElsewhere ==
  ASSUME BudgetSetting, NEW c \in Clients,
         pc'[c] \in {"idle", "rm.load", "rm.cas", "sweep.load", "sweep.volume",
                     "sweep.delete"}
  PROVE  PutBudget(c)' /\ CompactBudget(c)'
  BY DEF PutBudget, CompactBudget, Putting, Compacting

(* The next candidate's destination has room in the state that was read.   *)
LEMMA NextCandidateBudget ==
  ASSUME BudgetSetting, NEW c \in Clients, NEW base \in State, NEW todo \in SUBSET Volumes,
         NextCandidate(c, base, todo), IsFiniteSet(base.idx),
         \A v \in todo : NoMoreThan(base, v)'
  PROVE  PutBudget(c)' /\ CompactBudget(c)'
  <1>0. SoloInv
    BY DEF BudgetSetting
  <1>1. CASE GoTo(c, "sweep.load", NoJob)
    BY <1>0, <1>1, SoloGoTo, BudgetElsewhere
  <1>2. CASE ~GoTo(c, "sweep.load", NoJob)
    <2>1. PICK viable \in SUBSET todo :
            \E v \in viable : \E dest \in CompactDest(v, base) :
              GoTo(c, IF live_ids(base.ns, v) = {} THEN "compact.load" ELSE "compact.rewrite",
                   [cmd |-> "compact", base |-> base, later |-> viable \ {v},
                    vol |-> v, dest |-> dest, live |-> live_ids(base.ns, v),
                    listed |-> {}, tries |-> 0])
      BY <1>2 DEF NextCandidate
    <2>2. PICK v \in viable :
            \E dest \in CompactDest(v, base) : \E step \in {"compact.load", "compact.rewrite"} :
              GoTo(c, step,
                   [cmd |-> "compact", base |-> base, later |-> viable \ {v},
                    vol |-> v, dest |-> dest, live |-> live_ids(base.ns, v),
                    listed |-> {}, tries |-> 0])
      BY <2>1
    <2> PICK dest \in CompactDest(v, base), step \in {"compact.load", "compact.rewrite"} :
              GoTo(c, step,
                   [cmd |-> "compact", base |-> base, later |-> viable \ {v},
                    vol |-> v, dest |-> dest, live |-> live_ids(base.ns, v),
                    listed |-> {}, tries |-> 0])
      BY <2>2
    <2>3. Fits(dest, BytesOf(live_ids(base.ns, v)), base.idx)
      BY DEF CompactDest, select_compact_dest, Roomiest
    <2>4. PICK j : /\ j = [cmd |-> "compact", base |-> base, later |-> viable \ {v},
                           vol |-> v, dest |-> dest, live |-> live_ids(base.ns, v),
                           listed |-> {}, tries |-> 0]
                   /\ GoTo(c, step, j)
      OBVIOUS
    <2>5. pc'[c] = step /\ job'[c] = j
      BY <1>0, <2>4, SoloGoTo
    <2>6. /\ j.vol \notin j.later /\ IsFiniteSet(j.base.idx)
          /\ \A w \in j.later : NoMoreThan(j.base, w)'
          /\ Fits(j.dest, BytesOf(j.live), j.base.idx) /\ NoMoreThan(j.base, j.vol)'
      BY <2>3, <2>4
    <2> QED BY <2>5, <2>6 DEF PutBudget, CompactBudget, Putting, Compacting
  <1> QED BY <1>1, <1>2

(* A client that goes on with the compaction of the same volume.           *)
LEMMA CompactionBudgetStays ==
  ASSUME BudgetSetting, NEW c \in Clients, CompactBudget(c), Compacting(c), log' = log,
         NEW step, NEW j, GoTo(c, step, j),
         /\ j.vol = job[c].vol /\ j.base = job[c].base /\ j.later = job[c].later
         /\ j.dest = job[c].dest /\ j.live = job[c].live,
         \/ step \in {"compact.reclaim", "compact.recreate", "compact.delete"}
         \/ step = "compact.load" /\ pc[c] \in {"compact.rewrite", "compact.load", "compact.cas"}
         \/ step = "compact.cas" /\ pc[c] = "compact.load" /\ ~Retired(log.st, j.vol)
  PROVE  PutBudget(c)' /\ CompactBudget(c)'
  <1>1. pc'[c] = step /\ job'[c] = j
    BY SoloGoTo DEF BudgetSetting
  <1>2. \A v : NoMoreThan(j.base, v) => NoMoreThan(j.base, v)'
    BY DEF NoMoreThan
  <1> QED BY <1>1, <1>2 DEF PutBudget, CompactBudget, Putting, Compacting

(* A compaction that commits charges its destination within the wall, and  *)
(* of two volumes no other.                                                *)
LEMMA CompactCommitBudget ==
  ASSUME BudgetSetting, BudgetInv, NEW c \in Clients, pc[c] = "compact.cas",
         Commit(c, CompactionOf(c, job[c])), UNCHANGED refs, NEW j, j = job[c]
  PROVE  /\ BudgetWall' /\ Retired(log'.st, j.vol)
         /\ \A v \in j.later : NoMoreThan(j.base, v)'
  <1>1. SoloInv
    BY DEF BudgetSetting
  <1>2. /\ j \in CompactJob /\ j.dest # j.vol /\ j.vol \in Volumes /\ j.dest \in Volumes
        /\ j.live \in SUBSET Chunks /\ RewriteOf(j) \in SegId
        /\ j.base.idx \in SUBSET SegRec /\ j.later \in SUBSET Volumes
    BY <1>1, CompactJobTypes DEF CompactJob, State
  <1>3. /\ j.vol \notin j.later /\ IsFiniteSet(j.base.idx)
        /\ \A v \in j.later : NoMoreThan(j.base, v)
        /\ Fits(j.dest, BytesOf(j.live), j.base.idx) /\ NoMoreThan(j.base, j.vol)
    BY DEF BudgetInv, CompactBudget, Compacting
  <1>4. Volumes \subseteq {j.vol, j.dest}
    <2>1. NumVolumes \in Nat /\ NumVolumes <= 2
      BY VolumesAssumption DEF BudgetSetting, WritersInv, DataFirst, WriterSteps
    <2> QED BY <1>2, <2>1 DEF Volumes
  <1>5. PICK idx : idx = log'.st.idx
    OBVIOUS
  <1>6. PICK s : s = [vol |-> j.dest, seg |-> RewriteOf(j), bytes |-> BytesOf(j.live)]
    OBVIOUS
  <1>7. s \in SegRec /\ s.vol = j.dest /\ s.bytes = BytesOf(j.live)
    BY <1>2, <1>6, SealType DEF Seal
  <1>8. PICK all \in {log.st.idx, InsertSeals(log.st.idx, {s})} : idx = {rec \in all : rec.vol # j.vol}
    <2>1. idx = {rec \in InsertSeals(log.st.idx, IF j.live = {} THEN {}
                                                 ELSE Seal(j.dest, RewriteOf(j), j.live)) :
                   rec.vol # j.vol}
      BY <1>1, <1>5, CompactCommitState
    <2>2. InsertSeals(log.st.idx, {}) = log.st.idx
      BY DEF InsertSeals
    <2>3. Seal(j.dest, RewriteOf(j), j.live) = {s}
      BY <1>6 DEF Seal
    <2> QED BY <2>1, <2>2, <2>3
  <1>9. /\ all \in SUBSET SegRec /\ IsFiniteSet(all)
        /\ volume_used(j.dest, all) <= volume_used(j.dest, log.st.idx) + BytesOf(j.live)
    <2>1. BytesOf(j.live) \in Nat
      BY <1>2, BytesAreTotal
    <2> QED BY <1>7, <1>8, <2>1, BudgetTypes, SealCharges
  <1>10. /\ idx \in SUBSET SegRec /\ IsFiniteSet(idx)
         /\ volume_used(j.dest, idx) <= volume_used(j.dest, all)
    <2>1. idx \in SUBSET all /\ RecordsOf(j.dest, idx) \subseteq RecordsOf(j.dest, all)
      BY <1>8 DEF RecordsOf
    <2>2. IsFiniteSet(idx)
      BY <1>9, <2>1, FS_Subset
    <2> QED BY <1>9, <2>1, <2>2, FewerRecords
  <1>11. volume_used(j.vol, idx) = 0
    <2>1. RecordsOf(j.vol, idx) = {}
      BY <1>8 DEF RecordsOf
    <2>2. volume_used(j.vol, idx) = Total(Sizes, RecordsOf(j.vol, idx))
      BY <1>10, UsedIsTotal
    <2> QED BY <2>1, <2>2, TotalOfNone
  <1>12. volume_used(j.dest, idx) <= Threshold[j.dest]
    <2>1. /\ BytesOf(j.live) \in Nat /\ volume_used(j.dest, log.st.idx) \in Nat
          /\ volume_used(j.dest, all) \in Nat /\ volume_used(j.dest, idx) \in Nat
          /\ volume_used(j.dest, j.base.idx) \in Nat /\ Threshold[j.dest] \in Nat
      BY <1>2, <1>3, <1>9, <1>10, BudgetTypes, BytesAreTotal, UsedIsTotal
    <2>2. volume_used(j.dest, log.st.idx) <= volume_used(j.dest, j.base.idx)
      BY <1>2, <1>3 DEF NoMoreThan
    <2>3. volume_used(j.dest, j.base.idx) + BytesOf(j.live) <= Threshold[j.dest]
      BY <1>3 DEF Fits
    <2> QED BY <1>9, <1>10, <2>1, <2>2, <2>3
  <1>13. BudgetWall'
    <2>1. \A v \in Volumes : volume_used(v, idx) <= Threshold[v]
      BY <1>2, <1>4, <1>11, <1>12, BudgetTypes
    <2> QED BY <1>5, <2>1 DEF BudgetWall
  <1>14. ASSUME NEW v \in j.later PROVE NoMoreThan(j.base, v)'
    <2>1. ASSUME NEW w \in Volumes \ {v} PROVE volume_used(w, idx) <= volume_used(w, j.base.idx)
      <3>1. w = j.vol
        BY <1>2, <1>3, <1>4
      <3>2. volume_used(w, j.base.idx) \in Nat
        BY <1>2, <1>3, UsedIsTotal
      <3> QED BY <1>11, <3>1, <3>2
    <2> QED BY <1>5, <2>1 DEF NoMoreThan
  <1>15. Retired(log'.st, j.vol)
    <2>1. RefsOn(log'.st.ns, j.vol) = {}
      BY <1>1, CompactCommitKeeps
    <2>2. live_ids(log'.st.ns, j.vol) = {}
      BY <2>1 DEF live_ids, Ids
    <2> QED BY <1>5, <1>8, <2>2 DEF Retired
  <1> QED BY <1>13, <1>14, <1>15

(* A put that commits charges its volume within the wall.                  *)
LEMMA PutCommitBudget ==
  ASSUME BudgetSetting, BudgetInv, NEW c \in Clients, pc[c] = "put.cas",
         Commit(c, PutTxn(job[c])), NEW j, j = job[c]
  PROVE  /\ BudgetWall'
         /\ j.staged # {} =>
              [vol |-> j.vol, seg |-> j.seg, bytes |-> BytesOf(j.staged)] \in log'.st.idx
  <1>1. Putting(c) /\ StoreInv
    BY BudgetTypes DEF Putting
  <1>2. /\ j.seg \in SegId /\ j.staged \in SUBSET Chunks /\ (j.staged = {} \/ j.vol \in Volumes)
    BY <1>1, CitedTypes
  <1>3. PICK s : s = [vol |-> j.vol, seg |-> j.seg, bytes |-> BytesOf(j.staged)]
    OBVIOUS
  <1>4. log'.st.idx = InsertSeals(log.st.idx, IF j.staged = {} THEN {} ELSE {s})
    <2>1. log'.st = apply_txn(log.st, PutTxn(j))
      BY <1>1, StoreCommit
    <2> DEFINE seals == IF j.staged = {} THEN {} ELSE {s}
    <2>2. PutTxn(j) = DeltaPut(j.name, j.manifest, seals)
      BY <1>3 DEF PutTxn, Seal
    <2> HIDE DEF seals
    <2>3. apply_txn(log.st, DeltaPut(j.name, j.manifest, seals)).idx = InsertSeals(log.st.idx, seals)
      BY DEF apply_txn, DeltaPut
    <2>4. log'.st.idx = InsertSeals(log.st.idx, seals)
      BY <2>1, <2>2, <2>3
    <2> QED BY <2>4 DEF seals
  <1>5. CASE j.staged = {}
    <2>1. log'.st.idx = log.st.idx
      BY <1>4, <1>5 DEF InsertSeals
    <2> QED BY <1>5, <2>1 DEF BudgetInv, BudgetWall
  <1>6. CASE j.staged # {}
    <2>1. PICK idx : idx = log'.st.idx
      OBVIOUS
    <2>2. idx = InsertSeals(log.st.idx, {s})
      BY <1>4, <1>6, <2>1
    <2>3. s \in SegRec /\ s.vol = j.vol /\ s.bytes = BytesOf(j.staged) /\ s.bytes \in Nat
      BY <1>2, <1>3, <1>6, SealType, BytesAreTotal DEF Seal
    <2>4. s \in log.st.idx \/ Fits(j.vol, s.bytes, log.st.idx)
      BY <1>1, <1>3, <1>6, <2>3 DEF BudgetInv, PutBudget
    <2>5. ASSUME NEW v \in Volumes PROVE volume_used(v, idx) <= Threshold[v]
      <3>1. /\ volume_used(v, idx) <= volume_used(v, log.st.idx) + s.bytes
            /\ v # s.vol \/ s \in log.st.idx => volume_used(v, idx) <= volume_used(v, log.st.idx)
            /\ volume_used(v, idx) \in Nat
        BY <2>2, <2>3, BudgetTypes, SealCharges, UsedIsTotal
      <3>2. volume_used(v, log.st.idx) \in Nat /\ Threshold[v] \in Nat
        BY BudgetTypes
      <3>3. volume_used(v, log.st.idx) <= Threshold[v]
        BY DEF BudgetInv, BudgetWall
      <3>4. v = s.vol /\ s \notin log.st.idx => volume_used(v, log.st.idx) + s.bytes <= Threshold[v]
        BY <2>3, <2>4 DEF Fits
      <3> QED BY <2>3, <3>1, <3>2, <3>3, <3>4
    <2>6. s \in log'.st.idx
      BY <2>1, <2>2 DEF InsertSeals
    <2> QED BY <1>3, <2>1, <2>5, <2>6 DEF BudgetWall
  <1> QED BY <1>5, <1>6

(* A removal charges nothing.                                              *)
LEMMA RemoveCommitBudget ==
  ASSUME BudgetSetting, BudgetInv, NEW c \in Clients, Commit(c, DeltaRemove(job[c].name))
  PROVE  BudgetWall'
  <1>1. log'.st = apply_txn(log.st, DeltaRemove(job[c].name))
    BY BudgetTypes, StoreCommit
  <1>2. apply_txn(log.st, DeltaRemove(job[c].name)).idx = log.st.idx
    BY DEF apply_txn, DeltaRemove
  <1>3. log'.st.idx = log.st.idx
    BY <1>1, <1>2
  <1> QED BY <1>3 DEF BudgetInv, BudgetWall

(* What a retry has to show: the put's room or its record, the             *)
(* compaction's room or its commit.                                        *)
LEMMA RetryBudget ==
  ASSUME BudgetSetting, BudgetInv, NEW c \in Clients, AtCas(c), Retry(c), NEW j, j = job[c],
         pc[c] = "put.cas" /\ j.staged # {} =>
           \/ [vol |-> j.vol, seg |-> j.seg, bytes |-> BytesOf(j.staged)] \in log'.st.idx
           \/ Fits(j.vol, BytesOf(j.staged), log'.st.idx),
         pc[c] = "compact.cas" =>
           /\ \A v \in j.later : NoMoreThan(j.base, v)'
           /\ NoMoreThan(j.base, j.vol)' \/ Retired(log'.st, j.vol)
  PROVE  PutBudget(c)' /\ CompactBudget(c)'
  <1>0. SoloInv
    BY DEF BudgetSetting
  <1>1. PICK k : k = [j EXCEPT !.tries = @ + 1]
    OBVIOUS
  <1>2. CASE pc[c] = "put.cas"
    <2>1. j \in PutJob
      BY <1>0, <1>2, SoloTypes DEF Suits
    <2>2. k.vol = j.vol /\ k.seg = j.seg /\ k.staged = j.staged
      BY <1>1, <2>1 DEF PutJob
    <2>3. GoTo(c, "put.load", k) \/ GoTo(c, "idle", NoJob)
      BY <1>1, <1>2 DEF Retry
    <2>4. pc'[c] = "idle" \/ (pc'[c] = "put.load" /\ job'[c] = k)
      BY <1>0, <2>3, SoloGoTo
    <2>5. PutBudget(c)'
      BY <1>2, <2>2, <2>4 DEF PutBudget, Putting
    <2> QED BY <2>4, <2>5 DEF CompactBudget, Compacting
  <1>3. CASE pc[c] = "rm.cas"
    <2>1. \E i : GoTo(c, "rm.load", i) \/ GoTo(c, "idle", i)
      BY <1>3 DEF Retry
    <2> QED BY <1>0, <2>1, SoloGoTo, BudgetElsewhere
  <1>4. CASE pc[c] = "compact.cas"
    <2>1. j \in CompactJob /\ j.base \in State /\ j.later \in SUBSET Volumes
      BY <1>0, <1>4, CompactJobTypes DEF CompactJob
    <2>2. /\ k.vol = j.vol /\ k.base = j.base /\ k.later = j.later /\ k.dest = j.dest
          /\ k.live = j.live
      BY <1>1, <2>1 DEF CompactJob
    <2>3. /\ j.vol \notin j.later /\ IsFiniteSet(j.base.idx)
          /\ Fits(j.dest, BytesOf(j.live), j.base.idx)
      BY <1>4 DEF BudgetInv, CompactBudget, Compacting
    <2>4. GoTo(c, "compact.load", k) \/ NextCandidate(c, j.base, j.later)
      BY <1>1, <1>4, <2>2 DEF Retry
    <2>5. CASE GoTo(c, "compact.load", k)
      <3>1. pc'[c] = "compact.load" /\ job'[c] = k
        BY <1>0, <2>5, SoloGoTo
      <3> QED BY <1>4, <2>2, <2>3, <3>1 DEF PutBudget, CompactBudget, Putting, Compacting
    <2>6. CASE NextCandidate(c, j.base, j.later)
      BY <1>4, <2>1, <2>3, <2>6, NextCandidateBudget
    <2> QED BY <2>4, <2>5, <2>6
  <1> QED BY <1>2, <1>3, <1>4 DEF AtCas

(* The steps of put.                                                       *)
LEMMA PutBudgets ==
  ASSUME BudgetSetting, BudgetInv, NEW c \in Clients,
         PutStart(c) \/ PutPush(c) \/ PutLoad(c) \/ PutCas(c)
  PROVE  BudgetInv'
  <1>0. SoloInv
    BY DEF BudgetSetting
  <1>1. CASE PutStart(c)
    <2>1. PICK name \in Names, S \in Contents :
            LET reused == {r \in Known(log.st.ns) : r.id \in S}
                staged == S \ Ids(reused)
                seg    == [by |-> "put", n |-> ops]
            IN \E v \in IF staged = {} THEN {NoVolume}
                        ELSE select_volume(BytesOf(staged), log.st.idx) :
                 LET manifest == reused \cup {[id |-> id, vol |-> v, seg |-> seg] : id \in staged}
                 IN /\ staged # {} \/ log.st.ns[name] # manifest
                    /\ GoTo(c, IF staged = {} THEN "put.load" ELSE "put.push",
                            [cmd |-> "put", name |-> name, manifest |-> manifest,
                             staged |-> staged, vol |-> v, seg |-> seg, tries |-> 0])
      BY <1>1 DEF PutStart
    <2>2. PICK staged, v, step, j :
            /\ GoTo(c, step, j) /\ step \in {"put.load", "put.push"}
            /\ j.staged = staged /\ j.vol = v
            /\ staged # {} => v \in select_volume(BytesOf(staged), log.st.idx)
      BY <2>1
    <2>3. log' = log /\ pc'[c] = step /\ job'[c] = j
      BY <1>0, <1>1, <2>2, SoloGoTo DEF PutStart
    <2>4. staged # {} => Fits(v, BytesOf(staged), log.st.idx)
      BY <2>2 DEF select_volume, Roomiest
    <2>5. PutBudget(c)' /\ CompactBudget(c)'
      BY <2>2, <2>3, <2>4 DEF PutBudget, CompactBudget, Putting, Compacting
    <2> QED BY <2>3, <2>5, BudgetStays
  <1>2. CASE PutPush(c) \/ PutLoad(c)
    <2>1. log' = log /\ Putting(c)
      BY <1>2 DEF PutPush, PutLoad, Putting
    <2>2. \/ Finish(c)
          \/ \E step \in {"put.load", "put.cas"} : GoTo(c, step, job[c])
      BY <1>2 DEF PutPush, PutLoad
    <2>3. pc'[c] = "idle" \/ (pc'[c] \in {"put.load", "put.cas"} /\ job'[c] = job[c])
      BY <1>0, <2>2, SoloTypes DEF GoTo, Finish
    <2>4. PutBudget(c)' /\ CompactBudget(c)'
      BY <2>1, <2>3 DEF BudgetInv, PutBudget, CompactBudget, Putting, Compacting
    <2> QED BY <2>1, <2>4, BudgetStays
  <1>3. CASE PutCas(c)
    <2>1. BudgetWall'
      BY <1>3, PutCommitBudget DEF PutCas
    <2>2. pc'[c] = "idle"
      BY <1>0, <1>3, SoloGoTo DEF PutCas, Finish
    <2> QED BY <2>1, <2>2, BudgetElsewhere, BudgetTypes DEF BudgetInv
  <1> QED BY <1>1, <1>2, <1>3

(* The steps of compact.                                                   *)
LEMMA CompactBudgets ==
  ASSUME BudgetSetting, BudgetInv, NEW c \in Clients,
         \/ CompactStart(c) \/ CompactRewrite(c) \/ CompactLoad(c) \/ CompactCas(c)
         \/ CompactReclaim(c) \/ RemovalStops(c) \/ CompactRecreate(c) \/ CompactDelete(c)
  PROVE  BudgetInv'
  <1>0. SoloInv
    BY DEF BudgetSetting
  <1>j. PICK j : j = job[c]
    OBVIOUS
  <1>1. CASE CompactStart(c)
    <2>1. PICK base : base = log.st
      OBVIOUS
    <2>2. PICK todo \in SUBSET Volumes : NextCandidate(c, base, todo)
      BY <1>1, <2>1 DEF CompactStart, Candidates
    <2>3. log' = log /\ base \in State /\ IsFiniteSet(base.idx)
      BY <1>0, <1>1, <2>1, SoloTypes, BudgetTypes DEF CompactStart
    <2>4. \A v \in todo : NoMoreThan(base, v)'
      BY <2>1, <2>3, BudgetTypes DEF NoMoreThan
    <2>5. PutBudget(c)' /\ CompactBudget(c)'
      BY <2>2, <2>3, <2>4, NextCandidateBudget
    <2> QED BY <2>3, <2>5, BudgetStays
  <1>2. ASSUME Compacting(c)
        PROVE  /\ j \in CompactJob /\ j.base \in State /\ j.later \in SUBSET Volumes
               /\ IsFiniteSet(j.base.idx) /\ CompactBudget(c)
               /\ \A v \in j.later : NoMoreThan(j.base, v)
    BY <1>0, <1>j, <1>2, CompactJobTypes DEF CompactJob, BudgetInv, CompactBudget, Compacting
  <1>3. ASSUME Compacting(c), log' = log, NextCandidate(c, j.base, j.later) PROVE BudgetInv'
    <2>1. \A v \in j.later : NoMoreThan(j.base, v)'
      BY <1>2, <1>3 DEF NoMoreThan
    <2> QED BY <1>2, <1>3, <2>1, NextCandidateBudget, BudgetStays
  <1>4. ASSUME Compacting(c), log' = log, NEW step, NEW k, GoTo(c, step, k),
               /\ k.vol = j.vol /\ k.base = j.base /\ k.later = j.later
               /\ k.dest = j.dest /\ k.live = j.live,
               \/ step \in {"compact.reclaim", "compact.recreate", "compact.delete"}
               \/ step = "compact.load" /\ pc[c] = "compact.rewrite"
               \/ step = "compact.cas" /\ pc[c] = "compact.load" /\ ~Retired(log.st, k.vol)
        PROVE  BudgetInv'
    BY <1>j, <1>2, <1>4, CompactionBudgetStays, BudgetStays
  <1>5. ASSUME log' = log, Finish(c) PROVE BudgetInv'
    <2>1. pc'[c] = "idle"
      BY <1>0, <1>5, SoloGoTo DEF Finish
    <2> QED BY <1>5, <2>1, BudgetElsewhere, BudgetStays
  <1>6. CASE CompactRewrite(c)
    BY <1>j, <1>4, <1>6 DEF CompactRewrite, Compacting
  <1>7. CASE CompactLoad(c)
    <2>1. log' = log /\ Compacting(c) /\ pc[c] = "compact.load"
      BY <1>7 DEF CompactLoad, Compacting
    <2>2. \/ NextCandidate(c, j.base, j.later)
          \/ GoTo(c, "compact.reclaim", j)
          \/ ~Retired(log.st, j.vol) /\ GoTo(c, "compact.cas", j)
      BY <1>j, <1>7 DEF CompactLoad
    <2> QED BY <1>3, <1>4, <2>1, <2>2
  <1>8. CASE CompactCas(c)
    <2>1. /\ pc[c] = "compact.cas" /\ Commit(c, CompactionOf(c, job[c])) /\ UNCHANGED refs
          /\ GoTo(c, "compact.reclaim", j) /\ Compacting(c)
      BY <1>j, <1>8 DEF CompactCas, Compacting
    <2>2. BudgetWall' /\ \A v \in j.later : NoMoreThan(j.base, v)'
      BY <1>j, <2>1, CompactCommitBudget
    <2>3. pc'[c] = "compact.reclaim" /\ job'[c] = j
      BY <1>0, <2>1, SoloGoTo
    <2>4. j.vol \notin j.later /\ IsFiniteSet(j.base.idx)
      BY <1>j, <2>1 DEF BudgetInv, CompactBudget
    <2>5. PutBudget(c)' /\ CompactBudget(c)'
      BY <2>2, <2>3, <2>4 DEF PutBudget, CompactBudget, Putting, Compacting
    <2> QED BY <2>2, <2>5, BudgetTypes DEF BudgetInv
  <1>9. ASSUME NEW listed, j \in CompactJob
        PROVE  LET k == [j EXCEPT !.listed = listed]
               IN  /\ k.vol = j.vol /\ k.base = j.base /\ k.later = j.later
                   /\ k.dest = j.dest /\ k.live = j.live
    BY <1>9 DEF CompactJob
  <1>10. ASSUME Compacting(c), log' = log, NEW listed,
                GoTo(c, "compact.delete", [j EXCEPT !.listed = listed])
         PROVE  BudgetInv'
    <2>1. PICK k : k = [j EXCEPT !.listed = listed]
      OBVIOUS
    <2> QED BY <1>2, <1>4, <1>9, <1>10, <2>1
  <1>11. CASE CompactReclaim(c)
    <2>1. log' = log /\ Compacting(c)
      BY <1>11 DEF CompactReclaim, Compacting
    <2>2. \/ \E listed : GoTo(c, "compact.delete", [j EXCEPT !.listed = listed])
          \/ GoTo(c, "compact.recreate", j)
      BY <1>j, <1>11 DEF CompactReclaim
    <2> QED BY <1>4, <1>10, <2>1, <2>2
  <1>12. CASE RemovalStops(c)
    <2>1. log' = log /\ Compacting(c)
      BY <1>12 DEF RemovalStops, Compacting
    <2>2. \/ \E listed : GoTo(c, "compact.delete", [j EXCEPT !.listed = listed])
          \/ Finish(c)
      BY <1>j, <1>12 DEF RemovalStops
    <2> QED BY <1>5, <1>10, <2>1, <2>2
  <1>13. CASE CompactRecreate(c)
    BY <1>j, <1>3, <1>13 DEF CompactRecreate, Compacting
  <1>14. CASE CompactDelete(c)
    <2>1. log' = log /\ Compacting(c)
      BY <1>14 DEF CompactDelete, Compacting
    <2>2. \/ \E listed : GoTo(c, "compact.delete", [j EXCEPT !.listed = listed])
          \/ NextCandidate(c, j.base, j.later)
      <3>1. CASE NextCandidate(c, job[c].base, job[c].later)
        BY <1>j, <3>1
      <3>2. ASSUME NEW s \in job[c].listed,
                   GoTo(c, "compact.delete", [job[c] EXCEPT !.listed = @ \ {s}])
            PROVE  \E listed : GoTo(c, "compact.delete", [j EXCEPT !.listed = listed])
        BY <1>j, <3>2
      <3> QED BY <1>14, <3>1, <3>2 DEF CompactDelete
    <2> QED BY <1>3, <1>10, <2>1, <2>2
  <1> QED BY <1>1, <1>6, <1>7, <1>8, <1>11, <1>12, <1>13, <1>14

(* The compare-and-swap that does not report success.                      *)
LEMMA CasBudgets ==
  ASSUME BudgetSetting, BudgetInv, NEW c \in Clients, CasRejected(c) \/ CasAnswerLost(c)
  PROVE  BudgetInv'
  <1>0. SoloInv /\ AtCas(c) /\ Retry(c)
    BY DEF BudgetSetting, CasRejected, CasAnswerLost
  <1>1. PICK j : j = job[c]
    OBVIOUS
  <1>2. CASE CasRejected(c)
    <2>1. log' = log
      BY <1>2 DEF CasRejected
    <2>2. pc[c] = "put.cas" /\ j.staged # {} =>
            \/ [vol |-> j.vol, seg |-> j.seg, bytes |-> BytesOf(j.staged)] \in log'.st.idx
            \/ Fits(j.vol, BytesOf(j.staged), log'.st.idx)
      BY <1>1, <2>1 DEF BudgetInv, PutBudget, Putting
    <2>3. pc[c] = "compact.cas" =>
            /\ \A v \in j.later : NoMoreThan(j.base, v)'
            /\ NoMoreThan(j.base, j.vol)' \/ Retired(log'.st, j.vol)
      BY <1>1, <2>1 DEF BudgetInv, CompactBudget, Compacting, NoMoreThan
    <2> QED BY <1>0, <1>1, <2>1, <2>2, <2>3, RetryBudget, BudgetStays
  <1>3. CASE CasAnswerLost(c)
    <2>0. UNCHANGED refs
      BY <1>3 DEF CasAnswerLost
    <2>1. pc[c] = "put.cas" =>
            /\ BudgetWall'
            /\ j.staged # {} =>
                 [vol |-> j.vol, seg |-> j.seg, bytes |-> BytesOf(j.staged)] \in log'.st.idx
      <3> SUFFICES ASSUME pc[c] = "put.cas"
                   PROVE  /\ BudgetWall'
                          /\ j.staged # {} =>
                              [vol |-> j.vol, seg |-> j.seg, bytes |-> BytesOf(j.staged)]
                                \in log'.st.idx
        OBVIOUS
      <3>1. Commit(c, PutTxn(job[c]))
        BY <1>3 DEF CasAnswerLost
      <3> QED BY <1>1, <3>1, PutCommitBudget
    <2>2. pc[c] = "rm.cas" => BudgetWall'
      <3> SUFFICES ASSUME pc[c] = "rm.cas" PROVE BudgetWall'
        OBVIOUS
      <3>1. Commit(c, DeltaRemove(job[c].name))
        BY <1>3 DEF CasAnswerLost
      <3> QED BY <3>1, RemoveCommitBudget
    <2>3. pc[c] = "compact.cas" =>
            /\ BudgetWall' /\ Retired(log'.st, j.vol)
            /\ \A v \in j.later : NoMoreThan(j.base, v)'
      <3> SUFFICES ASSUME pc[c] = "compact.cas"
                   PROVE  /\ BudgetWall' /\ Retired(log'.st, j.vol)
                          /\ \A v \in j.later : NoMoreThan(j.base, v)'
        OBVIOUS
      <3>1. Commit(c, CompactionOf(c, job[c]))
        BY <1>3 DEF CasAnswerLost
      <3> QED BY <1>1, <2>0, <3>1, CompactCommitBudget
    <2>4. PutBudget(c)' /\ CompactBudget(c)'
      BY <1>0, <1>1, <2>1, <2>3, RetryBudget
    <2>5. BudgetWall'
      BY <1>0, <2>1, <2>2, <2>3 DEF AtCas
    <2> QED BY <2>4, <2>5, BudgetTypes DEF BudgetInv
  <1> QED BY <1>2, <1>3

(* BudgetInv is inductive in its setting.                                  *)
LEMMA BudgetStep == BudgetSetting /\ BudgetInv /\ [Next]_vars => BudgetInv'
  <1> SUFFICES ASSUME BudgetSetting, BudgetInv, [Next]_vars PROVE BudgetInv'
    OBVIOUS
  <1>0. SoloInv
    BY DEF BudgetSetting
  <1>1. CASE Open \/ Age \/ UNCHANGED vars
    <2>1. UNCHANGED <<log, pc, job>>
      BY <1>1 DEF Open, Age, vars
    <2>2. \A c \in Clients : PutBudget(c)' /\ CompactBudget(c)'
      BY <2>1 DEF BudgetInv, PutBudget, CompactBudget, Putting, Compacting, NoMoreThan
    <2> QED BY <2>1, <2>2 DEF BudgetInv, BudgetWall
  <1>2. ASSUME NEW c \in Clients, log' = log,
               pc'[c] \in {"idle", "rm.load", "rm.cas", "sweep.load", "sweep.volume",
                     "sweep.delete"}
        PROVE  BudgetInv'
    BY <1>2, BudgetElsewhere, BudgetStays
  <1>3. ASSUME NEW c \in Clients, Crash(c) \/ RemoveStart(c) \/ RemoveLoad(c) PROVE BudgetInv'
    <2>1. log' = log
      BY <1>3 DEF Crash, RemoveStart, RemoveLoad
    <2>2. \E j : GoTo(c, "idle", j) \/ GoTo(c, "rm.load", j) \/ GoTo(c, "rm.cas", j)
      BY <1>3 DEF Crash, RemoveStart, RemoveLoad, Finish
    <2> QED BY <1>0, <1>2, <2>1, <2>2, SoloGoTo
  <1>4. ASSUME NEW c \in Clients, SweepLoad(c) \/ SweepList(c) \/ SweepDelete(c) PROVE BudgetInv'
    <2>1. log' = log
      BY <1>4, SweepMoves
    <2>2. \E j : GoTo(c, "idle", j) \/ GoTo(c, "sweep.volume", j) \/ GoTo(c, "sweep.delete", j)
      BY <1>4, SweepMoves DEF Finish
    <2> QED BY <1>0, <1>2, <2>1, <2>2, SoloGoTo
  <1>5. ASSUME NEW c \in Clients, RemoveCas(c) PROVE BudgetInv'
    <2>1. BudgetWall'
      BY <1>5, RemoveCommitBudget DEF RemoveCas
    <2>2. pc'[c] = "idle"
      BY <1>0, <1>5, SoloGoTo DEF RemoveCas, Finish
    <2> QED BY <2>1, <2>2, BudgetElsewhere, BudgetTypes DEF BudgetInv
  <1> QED BY <1>1, <1>3, <1>4, <1>5, PutBudgets, CompactBudgets, CasBudgets DEF Next, Start, Step

(* A new store is charged nothing.                                         *)
LEMMA BudgetInit == Init /\ SoloInv => BudgetInv
  <1> SUFFICES ASSUME Init, SoloInv PROVE BudgetInv
    OBVIOUS
  <1>1. log.st.idx = {} /\ \A c \in Clients : pc[c] = "idle"
    BY DEF Init, EmptyLog, EmptyState
  <1>2. ASSUME NEW v \in Volumes PROVE volume_used(v, {}) = 0 /\ Threshold[v] \in Nat
    <2>1. volume_used(v, {}) = Total(Sizes, RecordsOf(v, {})) /\ RecordsOf(v, {}) = {}
      BY UsedIsTotal, FS_EmptySet DEF RecordsOf
    <2> QED BY <2>1, TotalOfNone, VolumesAssumption
  <1> QED BY <1>1, <1>2 DEF BudgetInv, BudgetWall, PutBudget, CompactBudget, Putting, Compacting

(* No volume is ever charged with more than its threshold, by one client   *)
(* that puts and removes, or that compacts as well a store of at most two  *)
(* volumes, dies anywhere and loses answers.  With three volumes, the      *)
(* candidates of one compact may share a destination that has room for     *)
(* each of them and not for all.                                           *)
THEOREM BudgetWallStands ==
  ASSUME Solo, NumVolumes <= 2 \/ WritersOnly PROVE Spec => []BudgetWall
  <1>1. Spec => [](StoreInv /\ AccountInv)
    BY AccountsHold
  <1>2. Spec => []SoloInv
    BY SoloHolds
  <1>3. Spec => []SnapshotInv
    BY SnapshotsHold
  <1> DEFINE Small == NumVolumes <= 2 \/ WritersInv
  <1>4. Init /\ SnapshotInv => Small
    BY WritersInit
  <1>5. Small /\ [Next]_vars => Small'
    BY WritersStep
  <1>6. SoloInv /\ AccountInv /\ Small => BudgetSetting
    BY DEF BudgetSetting
  <1>7. BudgetInv => BudgetWall
    BY DEF BudgetInv
  <1> HIDE DEF Small
  <1> QED BY <1>1, <1>2, <1>3, <1>4, <1>5, <1>6, <1>7, BudgetInit, BudgetStep, PTL DEF Spec

-----------------------------------------------------------------------------
(* How far puts that overlap can overrun a volume.                         *)

(* The greatest segment a put can bring.                                   *)
Largest == Max({BytesOf(S) : S \in Contents})

(* What client c has staged, in bytes.                                     *)
Staged == [c \in Clients |-> IF Putting(c) THEN BytesOf(job[c].staged) ELSE 0]

SealOf(c) == [vol |-> job[c].vol, seg |-> job[c].seg, bytes |-> BytesOf(job[c].staged)]

(* The clients that may still charge v with what they have staged.         *)
Ahead(v) ==
  {c \in Clients : /\ Putting(c) /\ job[c].staged # {}
                   /\ job[c].vol = v /\ SealOf(c) \notin log.st.idx}

(* The last of them to choose found room for its own segment; each of the  *)
(* others brings no more than the greatest one.                            *)
Room(A, w, used, limit) ==
  IF A = {} THEN used <= limit
            ELSE \E c \in A : used + w[c] + (Cardinality(A) - 1) * Largest <= limit

Limit(v) == Threshold[v] + (Cardinality(Clients) - 1) * Largest

(* Puts that are under way write to segments of their own.                 *)
Apart ==
  \A c, d \in Clients : Putting(c) /\ Putting(d) /\ job[c].seg = job[d].seg => c = d

OverrunInv ==
  /\ Apart
  /\ \A c \in Clients : Staged[c] <= Largest
  /\ \A v \in Volumes : Room(Ahead(v), Staged, volume_used(v, log.st.idx), Limit(v))

OverrunSetting == WritersInv /\ AccountInv

(* The constants of the bound: there is a client, and a content to put.    *)
OverrunConstants == IsFiniteSet(Clients) /\ Clients # {} /\ Contents # {}

(* Nothing that is put is larger than the greatest content.                *)
LEMMA LargestIs ==
  ASSUME OverrunConstants
  PROVE  Largest \in Nat /\ \A S \in Contents : \A T \in SUBSET S : BytesOf(T) \in Nat /\ BytesOf(T) <= Largest
  <1> DEFINE sizes == {BytesOf(S) : S \in Contents}
  <1>1. ASSUME NEW S \in SUBSET Chunks, NEW T \in SUBSET S
        PROVE  BytesOf(T) \in Nat /\ BytesOf(S) \in Nat /\ BytesOf(T) <= BytesOf(S)
    <2>1. T \in SUBSET Chunks /\ IsFiniteSet(S) /\ \A x \in S : Clen[x] \in Nat
      BY BytesAreTotal, ChunksAssumption
    <2>2. Total(Clen, T) <= Total(Clen, S)
      BY <2>1, TotalOfPart
    <2> QED BY <2>1, <2>2, BytesAreTotal
  <1>2. Contents \subseteq SUBSET Chunks
    BY EngineAssumption
  <1>3. \A S \in Contents : BytesOf(S) \in Nat /\ BytesOf(S) <= BytesOf(Chunks)
    BY <1>1, <1>2
  <1>4. BytesOf(Chunks) \in Nat
    BY BytesAreTotal
  <1>5. sizes \in SUBSET Nat /\ sizes # {} /\ \A n \in sizes : n <= BytesOf(Chunks)
    BY <1>3 DEF OverrunConstants
  <1>6. Max(sizes) \in sizes /\ \A n \in sizes : Max(sizes) >= n
    <2> HIDE DEF sizes
    <2> QED BY <1>4, <1>5, MaxOfBounded
  <1>7. ASSUME NEW S \in Contents, NEW T \in SUBSET S
        PROVE  BytesOf(T) \in Nat /\ BytesOf(T) <= Max(sizes)
    <2>1. S \in SUBSET Chunks /\ BytesOf(S) \in sizes
      BY <1>2
    <2>2. /\ BytesOf(T) \in Nat /\ BytesOf(S) \in Nat /\ BytesOf(T) <= BytesOf(S)
          /\ BytesOf(S) <= Max(sizes) /\ Max(sizes) \in Nat
      <3> HIDE DEF sizes
      <3> QED BY <1>1, <1>5, <1>6, <2>1
    <2> HIDE DEF sizes
    <2> QED BY <2>2
  <1>8. Max(sizes) \in Nat
    <2> HIDE DEF sizes
    <2> QED BY <1>5, <1>6
  <1> QED BY <1>7, <1>8 DEF Largest

(* One more times as much.                                                 *)
LEMMA Times ==
  ASSUME NEW k \in Nat, NEW n \in Nat
  PROVE  /\ k * n \in Nat /\ (k + 1) * n = k * n + n
         /\ \A m \in Nat : k <= m => k * n <= m * n
  OBVIOUS

(* Who has nothing ahead any more leaves room.                             *)
LEMMA RoomForFewer ==
  ASSUME OverrunConstants, NEW A, IsFiniteSet(A), NEW B \in SUBSET A, NEW w, NEW x,
         \A c \in A : w[c] \in Nat /\ w[c] <= Largest, \A c \in B : x[c] = w[c],
         NEW used \in Nat, NEW now \in Nat, now <= used, NEW limit \in Nat,
         Room(A, w, used, limit)
  PROVE  Room(B, x, now, limit)
  <1>1. Largest \in Nat
    BY LargestIs
  <1>2. CASE A = {}
    BY <1>2 DEF Room
  <1>3. CASE A # {}
    <2>1. PICK c \in A : used + w[c] + (Cardinality(A) - 1) * Largest <= limit
      BY <1>3 DEF Room
    <2>2. PICK k \in Nat : Cardinality(A) = k + 1
      <3>1. Cardinality(A) \in Nat /\ Cardinality(A) # 0
        BY <1>3, FS_CardinalityType, FS_EmptySet
      <3>2. Cardinality(A) - 1 \in Nat /\ Cardinality(A) = (Cardinality(A) - 1) + 1
        BY <3>1
      <3> QED BY <3>2
    <2>3. used + w[c] + k * Largest <= limit /\ k * Largest \in Nat /\ w[c] \in Nat
      BY <1>1, <2>1, <2>2, Times
    <2>4. CASE B = {}
      BY <2>3, <2>4 DEF Room
    <2>5. CASE B # {}
      <3>1. PICK m \in Nat : Cardinality(B) = m + 1
        <4>1. IsFiniteSet(B)
          BY FS_Subset
        <4>2. Cardinality(B) \in Nat /\ Cardinality(B) # 0
          BY <2>5, <4>1, FS_CardinalityType, FS_EmptySet
        <4>3. Cardinality(B) - 1 \in Nat /\ Cardinality(B) = (Cardinality(B) - 1) + 1
          BY <4>2
        <4> QED BY <4>3
      <3>2. CASE c \in B
        <4>1. m <= k
          BY <2>2, <3>1, FS_Subset
        <4>2. m * Largest <= k * Largest /\ m * Largest \in Nat
          BY <1>1, <4>1, Times
        <4>3. x[c] = w[c] /\ (Cardinality(B) - 1) * Largest = m * Largest
          BY <3>1, <3>2
        <4>4. now + x[c] + (Cardinality(B) - 1) * Largest <= limit
          BY <2>3, <4>2, <4>3
        <4> QED BY <2>5, <3>2, <4>4 DEF Room
      <3>3. CASE c \notin B
        <4>1. m + 1 <= k
          <5>1. /\ B \in SUBSET (A \ {c}) /\ IsFiniteSet(A \ {c})
                /\ Cardinality(A \ {c}) = Cardinality(A) - 1
            BY <3>3, FS_RemoveElement
          <5>2. Cardinality(B) <= Cardinality(A \ {c})
            BY <5>1, FS_Subset
          <5> QED BY <2>2, <3>1, <5>1, <5>2
        <4>2. m * Largest + Largest <= k * Largest /\ m * Largest \in Nat
          BY <1>1, <4>1, Times
        <4>3. PICK d \in B : x[d] \in Nat /\ x[d] <= Largest
          BY <2>5
        <4>4. (Cardinality(B) - 1) * Largest = m * Largest
          BY <3>1
        <4>5. now + x[d] + (Cardinality(B) - 1) * Largest <= limit
          BY <1>1, <2>3, <4>2, <4>3, <4>4
        <4> QED BY <2>5, <4>5 DEF Room
      <3> QED BY <3>2, <3>3
    <2> QED BY <2>4, <2>5
  <1> QED BY <1>2, <1>3

(* Who charges what it had ahead uses up its own room.                     *)
LEMMA RoomTaken ==
  ASSUME OverrunConstants, NEW A, IsFiniteSet(A), NEW d \in A, NEW w,
         \A c \in A : w[c] \in Nat /\ w[c] <= Largest,
         NEW used \in Nat, NEW limit \in Nat, Room(A, w, used, limit)
  PROVE  Room(A \ {d}, w, used + w[d], limit)
  <1>1. Largest \in Nat /\ IsFiniteSet(A \ {d}) /\ Cardinality(A \ {d}) = Cardinality(A) - 1
    BY LargestIs, FS_RemoveElement
  <1>2. PICK c \in A : used + w[c] + (Cardinality(A) - 1) * Largest <= limit
    BY DEF Room
  <1>3. Cardinality(A \ {d}) \in Nat
    BY <1>1, FS_CardinalityType
  <1>4. CASE A \ {d} = {}
    <2>1. c = d /\ Cardinality(A \ {d}) = 0
      BY <1>4, FS_EmptySet
    <2>2. used + w[d] + 0 * Largest <= limit /\ w[d] \in Nat
      BY <1>1, <1>2, <2>1
    <2>3. used + w[d] <= limit
      BY <1>1, <2>2
    <2> QED BY <1>4, <2>3 DEF Room
  <1>5. CASE A \ {d} # {}
    <2>1. PICK k \in Nat : Cardinality(A \ {d}) = k + 1
      <3>1. Cardinality(A \ {d}) # 0
        BY <1>1, <1>5, FS_EmptySet
      <3>2. Cardinality(A \ {d}) - 1 \in Nat /\ Cardinality(A \ {d}) = (Cardinality(A \ {d}) - 1) + 1
        BY <1>3, <3>1
      <3> QED BY <3>2
    <2>2. used + w[c] + (k * Largest + Largest) <= limit /\ k * Largest \in Nat
      <3>1. Cardinality(A) - 1 = k + 1 /\ (k + 1) * Largest = k * Largest + Largest /\ k * Largest \in Nat
        BY <1>1, <2>1, Times
      <3> QED BY <1>2, <3>1
    <2>3. (Cardinality(A \ {d}) - 1) * Largest = k * Largest
      BY <2>1
    <2>4. PICK e \in A \ {d} : used + w[d] + w[e] + k * Largest <= limit
      <3>1. CASE c = d
        <4>1. PICK e \in A \ {d} : w[e] \in Nat /\ w[e] <= Largest /\ w[d] \in Nat
          BY <1>5
        <4>2. used + w[d] + w[e] + k * Largest <= limit
          BY <1>1, <2>2, <3>1, <4>1
        <4> QED BY <4>1, <4>2
      <3>2. CASE c # d
        <4>1. w[c] \in Nat /\ w[d] \in Nat /\ w[d] <= Largest
          OBVIOUS
        <4>2. used + w[d] + w[c] + k * Largest <= limit
          BY <1>1, <2>2, <4>1
        <4> QED BY <3>2, <4>2
      <3> QED BY <3>1, <3>2
    <2> QED BY <1>5, <2>3, <2>4 DEF Room
  <1> QED BY <1>4, <1>5

(* What the sets and sums of the bound are made of.                        *)
LEMMA OverrunTypes ==
  ASSUME OverrunSetting, OverrunConstants, OverrunInv
  PROVE  /\ StoreInv /\ log.st.idx \in SUBSET SegRec /\ IsFiniteSet(log.st.idx)
         /\ Largest \in Nat /\ \A c \in Clients : Staged[c] \in Nat /\ Staged[c] <= Largest
         /\ \A v : Ahead(v) \in SUBSET Clients /\ IsFiniteSet(Ahead(v))
         /\ \A v : volume_used(v, log.st.idx) \in Nat
         /\ \A v \in Volumes : Limit(v) \in Nat /\ Threshold[v] \in Nat
  <1>1. StoreInv /\ log.st.idx \in SUBSET SegRec /\ IsFiniteSet(log.st.idx)
    BY StoreTypes DEF OverrunSetting, StoreInv, AccountInv
  <1>2. Largest \in Nat
    BY LargestIs
  <1>3. \A c \in Clients : Staged[c] \in Nat /\ Staged[c] <= Largest
    BY <1>1, CitedTypes, BytesAreTotal DEF OverrunInv, Staged
  <1>4. \A v : Ahead(v) \in SUBSET Clients /\ IsFiniteSet(Ahead(v))
    BY FS_Subset DEF Ahead, OverrunConstants
  <1>5. \A v : volume_used(v, log.st.idx) \in Nat
    BY <1>1, UsedIsTotal
  <1>6. ASSUME NEW v \in Volumes PROVE Limit(v) \in Nat /\ Threshold[v] \in Nat
    <2>1. Cardinality(Clients) \in Nat /\ Cardinality(Clients) # 0 /\ Threshold[v] \in Nat
      BY FS_CardinalityType, FS_EmptySet, VolumesAssumption DEF OverrunConstants
    <2>2. Cardinality(Clients) - 1 \in Nat
      BY <2>1
    <2>3. (Cardinality(Clients) - 1) * Largest \in Nat
      BY <1>2, <2>2, Times
    <2> QED BY <2>1, <2>3 DEF Limit
  <1> QED BY <1>1, <1>2, <1>3, <1>4, <1>5, <1>6

(* Puts that go on bring what they brought.                                *)
LEMMA OverrunKept ==
  ASSUME OverrunSetting, OverrunConstants, OverrunInv, PutsKept
  PROVE  /\ Apart'
         /\ \A c \in Clients : Staged'[c] <= Largest
         /\ \A c \in Clients : Putting(c)' => Staged'[c] = Staged[c] /\ SealOf(c)' = SealOf(c)
  <1>1. Apart'
    BY DEF PutsKept, OverrunInv, Apart
  <1>2. \A c \in Clients : Putting(c)' => Staged'[c] = Staged[c] /\ SealOf(c)' = SealOf(c)
    BY DEF PutsKept, Staged, SealOf
  <1>3. \A c \in Clients : ~Putting(c)' => Staged'[c] = 0
    BY DEF Staged
  <1>4. \A c \in Clients : Staged'[c] <= Largest
    BY <1>2, <1>3, OverrunTypes
  <1> QED BY <1>1, <1>2, <1>4

(* A step that charges nothing and stages nothing.                         *)
LEMMA OverrunIdles ==
  ASSUME OverrunSetting, OverrunConstants, OverrunInv, PutsKept, log'.st.idx = log.st.idx
  PROVE  OverrunInv'
  <1>1. ASSUME NEW v \in Volumes
        PROVE  Room(Ahead(v)', Staged', volume_used(v, log'.st.idx), Limit(v))
    <2>1. Ahead(v)' \subseteq Ahead(v) /\ \A c \in Ahead(v)' : Staged'[c] = Staged[c]
      BY OverrunKept DEF Ahead, PutsKept
    <2>2. Room(Ahead(v), Staged, volume_used(v, log.st.idx), Limit(v))
      BY DEF OverrunInv
    <2>3. /\ IsFiniteSet(Ahead(v)) /\ volume_used(v, log.st.idx) \in Nat /\ Limit(v) \in Nat
          /\ \A c \in Ahead(v) : Staged[c] \in Nat /\ Staged[c] <= Largest
      BY OverrunTypes
    <2>4. \A used \in Nat : used <= used
      OBVIOUS
    <2>5. Room(Ahead(v)', Staged', volume_used(v, log.st.idx), Limit(v))
      BY <2>1, <2>2, <2>3, <2>4, RoomForFewer
    <2> QED BY <2>5
  <1> QED BY <1>1, OverrunKept DEF OverrunInv, Limit

(* A put that starts finds room for its segment, whatever others have      *)
(* ahead.                                                                  *)
LEMMA OverrunPutStart ==
  ASSUME OverrunSetting, OverrunConstants, OverrunInv, NEW c \in Clients, PutStart(c)
  PROVE  OverrunInv'
  <1>1. PICK name \in Names, S \in Contents :
          LET reused == {r \in Known(log.st.ns) : r.id \in S}
              staged == S \ Ids(reused)
              seg    == [by |-> "put", n |-> ops]
          IN \E v \in IF staged = {} THEN {NoVolume}
                      ELSE select_volume(BytesOf(staged), log.st.idx) :
               LET manifest == reused \cup {[id |-> id, vol |-> v, seg |-> seg] : id \in staged}
               IN /\ staged # {} \/ log.st.ns[name] # manifest
                  /\ GoTo(c, IF staged = {} THEN "put.load" ELSE "put.push",
                          [cmd |-> "put", name |-> name, manifest |-> manifest,
                           staged |-> staged, vol |-> v, seg |-> seg, tries |-> 0])
    BY DEF PutStart
  <1>2. PICK staged, v, step, j :
          /\ GoTo(c, step, j) /\ step \in {"put.load", "put.push"} /\ staged \in SUBSET S
          /\ j.staged = staged /\ j.vol = v /\ j.seg = [by |-> "put", n |-> ops]
          /\ staged # {} => v \in select_volume(BytesOf(staged), log.st.idx)
    BY <1>1
  <1>3. /\ log' = log /\ pc[c] = "idle" /\ pc'[c] = step /\ job'[c] = j
        /\ \A d \in Clients \ {c} : pc'[d] = pc[d] /\ job'[d] = job[d]
    BY <1>2, OverrunTypes, StoreTypes DEF PutStart, Begin, GoTo
  <1>4. /\ Putting(c)' /\ ~Putting(c) /\ Staged'[c] = BytesOf(staged)
        /\ \A d \in Clients \ {c} :
             /\ (Putting(d)' <=> Putting(d)) /\ Staged'[d] = Staged[d] /\ SealOf(d)' = SealOf(d)
    BY <1>2, <1>3 DEF Putting, Staged, SealOf
  <1>5. BytesOf(staged) \in Nat /\ BytesOf(staged) <= Largest
    BY <1>2, LargestIs
  <1>6. Apart'
    <2>1. ops \in Nat /\ \A d \in Clients : Putting(d) => job[d].seg # j.seg
      <3>1. ASSUME NEW d \in Clients, Putting(d), job[d].seg = j.seg PROVE FALSE
        <4>1. Drawn(job[d].seg)
          BY <3>1 DEF OverrunSetting, AccountInv, OwnSegment
        <4> QED BY <1>2, <3>1, <4>1, OverrunTypes, StoreTypes DEF Drawn
      <3> QED BY <3>1, OverrunTypes, StoreTypes
    <2>2. ASSUME NEW d \in Clients, NEW e \in Clients, Putting(d)', Putting(e)',
                 job'[d].seg = job'[e].seg
          PROVE  d = e
      BY <1>3, <1>4, <2>1, <2>2 DEF OverrunInv, Apart
    <2> QED BY <2>2 DEF Apart
  <1>7. \A d \in Clients : Staged'[d] <= Largest /\ Staged'[d] \in Nat
    BY <1>4, <1>5, OverrunTypes
  <1>8. ASSUME NEW u \in Volumes
        PROVE  Room(Ahead(u)', Staged', volume_used(u, log.st.idx), Limit(u))
    <2>1. Ahead(u)' \subseteq Ahead(u) \cup {c}
      BY <1>3, <1>4 DEF Ahead
    <2>2. CASE c \notin Ahead(u)'
      <3>1. Ahead(u)' \subseteq Ahead(u) /\ \A d \in Ahead(u)' : Staged'[d] = Staged[d]
        BY <1>4, <2>1, <2>2, OverrunTypes
      <3>2. Room(Ahead(u), Staged, volume_used(u, log.st.idx), Limit(u))
        BY DEF OverrunInv
      <3>3. /\ IsFiniteSet(Ahead(u)) /\ volume_used(u, log.st.idx) \in Nat /\ Limit(u) \in Nat
            /\ \A d \in Ahead(u) : Staged[d] \in Nat /\ Staged[d] <= Largest
        BY OverrunTypes
      <3>4. \A used \in Nat : used <= used
        OBVIOUS
      <3> QED BY <3>1, <3>2, <3>3, <3>4, RoomForFewer
    <2>3. CASE c \in Ahead(u)'
      <3>1. v = u /\ staged # {}
        BY <1>2, <1>3, <2>3 DEF Ahead
      <3>2. volume_used(u, log.st.idx) + BytesOf(staged) <= Threshold[u]
        BY <1>2, <3>1 DEF select_volume, Roomiest, Fits
      <3>3. PICK A : A = Ahead(u)'
        OBVIOUS
      <3>4. /\ A \in SUBSET Clients /\ A # {} /\ Cardinality(A) \in Nat
            /\ Cardinality(A) <= Cardinality(Clients) /\ Cardinality(Clients) \in Nat
            /\ Cardinality(A) # 0
        <4>1. A \in SUBSET Clients /\ A # {}
          BY <2>3, <3>3 DEF Ahead
        <4>2. IsFiniteSet(A) /\ IsFiniteSet(Clients)
          BY <4>1, FS_Subset DEF OverrunConstants
        <4>3. Cardinality(A) <= Cardinality(Clients)
          BY <4>1, <4>2, FS_Subset
        <4>4. Cardinality(A) \in Nat /\ Cardinality(Clients) \in Nat /\ Cardinality(A) # 0
          BY <4>1, <4>2, FS_CardinalityType, FS_EmptySet
        <4> QED BY <4>1, <4>3, <4>4
      <3>5. PICK k \in Nat, n \in Nat :
              k = Cardinality(A) - 1 /\ n = Cardinality(Clients) - 1 /\ k <= n
        <4>1. /\ Cardinality(A) - 1 \in Nat /\ Cardinality(Clients) - 1 \in Nat
              /\ Cardinality(A) - 1 <= Cardinality(Clients) - 1
          BY <3>4
        <4> QED BY <4>1
      <3>6. k * Largest <= n * Largest /\ k * Largest \in Nat /\ n * Largest \in Nat
        BY <3>5, OverrunTypes, Times
      <3>7. /\ volume_used(u, log.st.idx) \in Nat /\ Threshold[u] \in Nat
            /\ Limit(u) = Threshold[u] + n * Largest
        BY <3>5, OverrunTypes DEF Limit
      <3>8. volume_used(u, log.st.idx) + Staged'[c] + k * Largest <= Limit(u)
        BY <1>4, <1>5, <3>2, <3>6, <3>7
      <3>9. volume_used(u, log.st.idx) + Staged'[c] + (Cardinality(A) - 1) * Largest <= Limit(u)
        BY <3>5, <3>8
      <3> QED BY <2>3, <3>3, <3>4, <3>9 DEF Room
    <2> QED BY <2>2, <2>3
  <1> QED BY <1>3, <1>6, <1>7, <1>8 DEF OverrunInv, Limit

(* A put that commits charges its volume with what it had ahead, if that   *)
(* has not been charged yet.                                               *)
LEMMA OverrunPutCommit ==
  ASSUME OverrunSetting, OverrunConstants, OverrunInv, NEW c \in Clients, pc[c] = "put.cas",
         Commits(c)
  PROVE  OverrunInv'
  <1>1. PICK j : j = job[c]
    OBVIOUS
  <1>2. /\ Putting(c) /\ PutsKept /\ j.seg \in SegId /\ j.staged \in SUBSET Chunks
        /\ (j.staged = {} \/ j.vol \in Volumes)
    BY <1>1, OverrunTypes, CitedTypes DEF Putting, Commits
  <1>3. PICK s : s = SealOf(c)
    OBVIOUS
  <1>4. log'.st.idx = InsertSeals(log.st.idx, IF j.staged = {} THEN {} ELSE {s})
    <2>1. log'.st = apply_txn(log.st, PutTxn(j))
      BY <1>1, OverrunTypes, StoreCommit DEF Commits, TxnOf
    <2> DEFINE seals == IF j.staged = {} THEN {} ELSE {s}
    <2>2. PutTxn(j) = DeltaPut(j.name, j.manifest, seals)
      BY <1>1, <1>3 DEF PutTxn, Seal, SealOf
    <2> HIDE DEF seals
    <2>3. apply_txn(log.st, DeltaPut(j.name, j.manifest, seals)).idx = InsertSeals(log.st.idx, seals)
      BY DEF apply_txn, DeltaPut
    <2>4. log'.st.idx = InsertSeals(log.st.idx, seals)
      BY <2>1, <2>2, <2>3
    <2> QED BY <2>4 DEF seals
  <1>5. CASE j.staged = {}
    <2>1. log'.st.idx = log.st.idx
      BY <1>4, <1>5 DEF InsertSeals
    <2> QED BY <1>2, <2>1, OverrunIdles
  <1>6. CASE j.staged # {}
    <2>1. PICK idx : idx = log'.st.idx
      OBVIOUS
    <2>2. idx = InsertSeals(log.st.idx, {s}) /\ s \in idx
      BY <1>4, <1>6, <2>1 DEF InsertSeals
    <2>3. /\ s \in SegRec /\ s.vol = j.vol /\ s.seg = j.seg
          /\ s.bytes = BytesOf(j.staged) /\ s.bytes \in Nat
      BY <1>1, <1>2, <1>3, <1>6, SealType, BytesAreTotal DEF Seal, SealOf
    <2>4. ASSUME NEW d \in Clients, Putting(d), SealOf(d) \in log.st.idx PROVE SealOf(d) \in idx
      <3>1. CASE d = c
        BY <1>3, <2>2, <3>1
      <3>2. CASE d # c
        <4>1. SealOf(d).seg # s.seg
          BY <1>1, <1>2, <2>3, <2>4, <3>2 DEF OverrunInv, Apart, SealOf
        <4> QED BY <2>2, <2>4, <4>1 DEF InsertSeals
      <3> QED BY <3>1, <3>2
    <2>5. ASSUME NEW v \in Volumes
          PROVE  Room(Ahead(v)', Staged', volume_used(v, idx), Limit(v))
      <3>1. Ahead(v)' \subseteq Ahead(v) \ {c} /\ \A d \in Ahead(v)' : Staged'[d] = Staged[d]
        <4>1. ASSUME NEW d \in Ahead(v)' PROVE d \in Ahead(v) \ {c} /\ Staged'[d] = Staged[d]
          <5>1. d \in Clients /\ Putting(d)' /\ job'[d].staged # {} /\ job'[d].vol = v /\ SealOf(d)' \notin idx
            BY <2>1 DEF Ahead
          <5>2. /\ Putting(d) /\ job[d].staged # {} /\ job[d].vol = v
                /\ SealOf(d)' = SealOf(d) /\ Staged'[d] = Staged[d]
            BY <1>2, <5>1, OverrunKept DEF PutsKept
          <5>3. SealOf(d) \notin log.st.idx /\ d # c
            BY <1>3, <2>2, <2>4, <5>1, <5>2
          <5> QED BY <5>1, <5>2, <5>3 DEF Ahead
        <4> QED BY <4>1
      <3>2. /\ volume_used(v, idx) <= volume_used(v, log.st.idx) + s.bytes
            /\ v # s.vol \/ s \in log.st.idx => volume_used(v, idx) <= volume_used(v, log.st.idx)
            /\ volume_used(v, idx) \in Nat
        BY <2>2, <2>3, OverrunTypes, SealCharges, UsedIsTotal
      <3>3. Room(Ahead(v), Staged, volume_used(v, log.st.idx), Limit(v))
        BY DEF OverrunInv
      <3>4. /\ IsFiniteSet(Ahead(v)) /\ volume_used(v, log.st.idx) \in Nat /\ Limit(v) \in Nat
            /\ \A d \in Ahead(v) : Staged[d] \in Nat /\ Staged[d] <= Largest
        BY OverrunTypes
      <3>5. CASE v # s.vol \/ s \in log.st.idx
        <4>1. volume_used(v, idx) <= volume_used(v, log.st.idx) /\ Ahead(v)' \in SUBSET Ahead(v)
          BY <3>1, <3>2, <3>5
        <4> QED BY <3>1, <3>2, <3>3, <3>4, <4>1, RoomForFewer
      <3>6. CASE v = s.vol /\ s \notin log.st.idx
        <4>1. c \in Ahead(v) /\ Staged[c] = s.bytes
          BY <1>1, <1>2, <1>3, <1>6, <2>3, <3>6 DEF Ahead, Staged
        <4>2. Room(Ahead(v) \ {c}, Staged, volume_used(v, log.st.idx) + s.bytes, Limit(v))
          BY <3>3, <3>4, <4>1, RoomTaken
        <4>3. /\ IsFiniteSet(Ahead(v) \ {c}) /\ Ahead(v)' \in SUBSET (Ahead(v) \ {c})
              /\ \A d \in Ahead(v) \ {c} : Staged[d] \in Nat /\ Staged[d] <= Largest
              /\ volume_used(v, log.st.idx) + s.bytes \in Nat
          BY <2>3, <3>1, <3>4, FS_Subset
        <4> QED BY <3>1, <3>2, <3>4, <4>2, <4>3, RoomForFewer
      <3> QED BY <3>5, <3>6
    <2> QED BY <1>2, <2>1, <2>5, OverrunKept DEF OverrunInv, Limit
  <1> QED BY <1>5, <1>6

(* Every step keeps the bound.                                             *)
LEMMA OverrunStep ==
  ASSUME OverrunConstants
  PROVE  OverrunSetting /\ OverrunInv /\ [Next]_vars => OverrunInv'
  <1> SUFFICES ASSUME OverrunSetting, OverrunInv, [Next]_vars PROVE OverrunInv'
    OBVIOUS
  <1>0. StoreInv
    BY OverrunTypes
  <1>1. CASE Idles
    BY <1>1, OverrunIdles DEF Idles
  <1>2. ASSUME NEW c \in Clients, Commits(c) PROVE OverrunInv'
    <2>1. CASE pc[c] = "put.cas"
      BY <1>2, <2>1, OverrunPutCommit
    <2>2. CASE pc[c] = "rm.cas"
      <3>1. log'.st = apply_txn(log.st, DeltaRemove(job[c].name))
        BY <1>0, <1>2, <2>2, StoreCommit DEF Commits, TxnOf
      <3>2. apply_txn(log.st, DeltaRemove(job[c].name)).idx = log.st.idx
        BY DEF apply_txn, DeltaRemove
      <3> QED BY <1>2, <3>1, <3>2, OverrunIdles DEF Commits
    <2>3. pc[c] # "compact.cas"
      BY DEF OverrunSetting, WritersInv, DataFirst, WriterSteps
    <2> QED BY <1>2, <2>1, <2>2, <2>3 DEF Commits, AtCas
  <1> QED BY <1>0, <1>1, <1>2, OverrunPutStart, StepKinds

(* A new store is charged nothing, and nobody has anything ahead.          *)
LEMMA OverrunInit ==
  ASSUME OverrunConstants PROVE Init => OverrunInv
  <1> SUFFICES ASSUME Init PROVE OverrunInv
    OBVIOUS
  <1>1. log.st.idx = {} /\ \A c \in Clients : ~Putting(c)
    BY DEF Init, EmptyLog, EmptyState, Putting
  <1>2. Largest \in Nat
    BY LargestIs
  <1>3. Apart /\ \A c \in Clients : Staged[c] <= Largest
    BY <1>1, <1>2 DEF Apart, Staged
  <1>4. ASSUME NEW v \in Volumes PROVE Room(Ahead(v), Staged, volume_used(v, {}), Limit(v))
    <2>1. volume_used(v, {}) = Total(Sizes, RecordsOf(v, {})) /\ RecordsOf(v, {}) = {}
      BY UsedIsTotal, FS_EmptySet DEF RecordsOf
    <2>2. volume_used(v, {}) = 0 /\ Ahead(v) = {}
      BY <1>1, <2>1, TotalOfNone DEF Ahead
    <2>3. Threshold[v] \in Nat /\ (Cardinality(Clients) - 1) * Largest \in Nat
      <3>1. Cardinality(Clients) \in Nat /\ Cardinality(Clients) # 0
        BY FS_CardinalityType, FS_EmptySet DEF OverrunConstants
      <3>2. Cardinality(Clients) - 1 \in Nat
        BY <3>1
      <3> QED BY <1>2, <3>2, Times, VolumesAssumption
    <2> QED BY <2>2, <2>3 DEF Room, Limit
  <1> QED BY <1>1, <1>3, <1>4 DEF OverrunInv

(* However many clients put at once, die, lose answers and retry, the      *)
(* charges of a volume exceed its threshold by the greatest segment for    *)
(* each of them but one, at most.                                          *)
THEOREM OverrunsAreBounded ==
  ASSUME WritersOnly, IsFiniteSet(Clients), Clients # {}, Contents # {}
  PROVE  Spec => []OverrunBounded
  <1>1. OverrunConstants
    BY DEF OverrunConstants
  <1>2. Spec => [](StoreInv /\ AccountInv)
    BY AccountsHold
  <1>3. Spec => []SnapshotInv
    BY SnapshotsHold
  <1>4. Init /\ SnapshotInv => WritersInv
    BY WritersInit
  <1>5. WritersInv /\ AccountInv => OverrunSetting
    BY DEF OverrunSetting
  <1>6. ASSUME OverrunSetting, OverrunInv PROVE OverrunBounded
    <2> SUFFICES ASSUME NEW v \in Volumes PROVE volume_used(v, log.st.idx) <= Limit(v)
      BY DEF OverrunBounded, Limit, Largest
    <2>1. Room(Ahead(v), Staged, volume_used(v, log.st.idx), Limit(v))
      BY <1>6 DEF OverrunInv
    <2>2. /\ IsFiniteSet(Ahead(v)) /\ volume_used(v, log.st.idx) \in Nat /\ Limit(v) \in Nat
          /\ \A d \in Ahead(v) : Staged[d] \in Nat /\ Staged[d] <= Largest
      BY <1>1, <1>6, OverrunTypes
    <2>3. Room({}, Staged, volume_used(v, log.st.idx), Limit(v))
      <3>1. {} \in SUBSET Ahead(v) /\ \A used \in Nat : used <= used
        OBVIOUS
      <3> QED BY <1>1, <2>1, <2>2, <3>1, RoomForFewer
    <2> QED BY <2>3 DEF Room
  <1> QED BY <1>1, <1>2, <1>3, <1>4, <1>5, <1>6, WritersStep, OverrunInit, OverrunStep, PTL DEF Spec

-----------------------------------------------------------------------------
(* Opening repairs what a put will need.                                   *)

(* While a put has its segment to push, each repository has its HEAD.      *)
HeadsKept ==
  \A c \in Clients : pc[c] = "put.push" => \A v \in Volumes : repo[v] \notin {"headless", "gone"}

(* The steps of a command lead to no push: its start does.                 *)
LEMMA StepsLeavePush ==
  ASSUME NEW d \in Clients, Step(d) \/ Crash(d)
  PROVE  \E step, j : GoTo(d, step, j) /\ step # "put.push"
  <1>1. ASSUME Finish(d) PROVE \E step, j : GoTo(d, step, j) /\ step # "put.push"
    BY <1>1 DEF Finish
  <1>2. ASSUME NEW base, NEW todo, NextCandidate(d, base, todo)
        PROVE  \E step, j : GoTo(d, step, j) /\ step # "put.push"
    <2>1. \E step, j : GoTo(d, step, j) /\ step \in {"sweep.load", "compact.load", "compact.rewrite"}
      BY <1>2 DEF NextCandidate
    <2> QED BY <2>1
  <1>3. CASE CasRejected(d) \/ CasAnswerLost(d)
    <2>1. AtCas(d) /\ Retry(d)
      BY <1>3 DEF CasRejected, CasAnswerLost
    <2>2. \/ \E j : \/ GoTo(d, "put.load", j) \/ GoTo(d, "rm.load", j)
                    \/ GoTo(d, "compact.load", j) \/ GoTo(d, "idle", j)
          \/ \E base, todo : NextCandidate(d, base, todo)
      BY <2>1 DEF Retry, AtCas
    <2> QED BY <1>2, <2>2
  <1>4. CASE PutPush(d) \/ PutLoad(d) \/ PutCas(d) \/ RemoveLoad(d) \/ RemoveCas(d) \/ Crash(d)
    <2>1. \/ Finish(d)
          \/ \E j : GoTo(d, "put.load", j) \/ GoTo(d, "put.cas", j) \/ GoTo(d, "rm.cas", j)
      BY <1>4 DEF Crash, PutPush, PutLoad, PutCas, RemoveLoad, RemoveCas
    <2> QED BY <1>1, <2>1
  <1>5. CASE CompactRewrite(d) \/ CompactCas(d) \/ CompactReclaim(d) \/ RemovalStops(d)
    <2>1. \/ Finish(d)
          \/ \E j : \/ GoTo(d, "compact.load", j) \/ GoTo(d, "compact.reclaim", j)
                    \/ GoTo(d, "compact.recreate", j) \/ GoTo(d, "compact.delete", j)
      BY <1>5 DEF CompactRewrite, CompactCas, CompactReclaim, RemovalStops
    <2> QED BY <1>1, <2>1
  <1>6. CASE CompactLoad(d) \/ CompactRecreate(d) \/ CompactDelete(d)
    <2>1. \/ \E base, todo : NextCandidate(d, base, todo)
          \/ \E j : \/ GoTo(d, "compact.cas", j) \/ GoTo(d, "compact.reclaim", j)
                    \/ GoTo(d, "compact.delete", j)
      BY <1>6 DEF CompactLoad, CompactRecreate, CompactDelete
    <2> QED BY <1>2, <2>1
  <1>7. CASE SweepLoad(d) \/ SweepList(d) \/ SweepDelete(d)
    BY <1>1, <1>7, SweepMoves
  <1> QED BY <1>3, <1>4, <1>5, <1>6, <1>7 DEF Step

(* A step that leaves a client at its push has opened the store, or has    *)
(* taken no repository away.                                               *)
LEMMA PushersKeepRepos ==
  ASSUME StoreInv, [Next]_vars, NEW c \in Clients, pc'[c] = "put.push"
  PROVE  repo' = Opened \/ (repo' = repo /\ pc[c] = "put.push")
  <1>0. pc \in [Clients -> Steps] /\ DOMAIN job = Clients
    BY StoreTypes
  <1>1. CASE Open \/ Age \/ UNCHANGED vars
    BY <1>1 DEF Open, Age, vars
  <1>2. ASSUME NEW d \in Clients, Start(d) PROVE repo' = Opened
    BY <1>2 DEF Start, PutStart, RemoveStart, CompactStart, Begin
  <1>3. ASSUME NEW d \in Clients, Step(d) \/ Crash(d)
        PROVE  repo' = repo /\ pc[c] = "put.push"
    <2>1. c # d /\ pc[c] = "put.push"
      BY <1>0, <1>3, StepsLeavePush DEF GoTo
    <2>2. pc[d] \in WriterSteps
      BY <2>1 DEF StoreInv, WritersInv, DataFirst, SoloInv, Solo
    <2>3. repo' = repo
      BY <1>3, <2>2
         DEF Crash, Step, WriterSteps, PutPush, PutLoad, PutCas, RemoveLoad, RemoveCas,
             CompactRewrite, CompactLoad, CompactCas, CompactReclaim, RemovalStops,
             CompactRecreate, CompactDelete, CasRejected, CasAnswerLost, SweepLoad, SweepList, SweepDelete
    <2> QED BY <2>1, <2>3
  <1> QED BY <1>1, <1>2, <1>3 DEF Next

(* A local put finds a repository with a HEAD, whatever crash came before: *)
(* opening the store has repaired what one left without.                   *)
THEOREM PutsFindVolumes ==
  ASSUME Transport = "local", WritersOnly \/ Solo PROVE Spec => []PutFindsVolume
  <1>1. Spec => [](StoreInv /\ AccountInv)
    BY AccountsHold
  <1>2. Init => HeadsKept
    BY DEF Init, HeadsKept
  <1>3. StoreInv /\ HeadsKept /\ [Next]_vars => HeadsKept'
    <2>1. \A v \in Volumes : Opened[v] \notin {"headless", "gone"}
      BY DEF Opened, Initialised
    <2> QED BY <2>1, PushersKeepRepos DEF HeadsKept
  <1>4. StoreInv /\ HeadsKept => PutFindsVolume
    BY StoreTypes DEF HeadsKept, PutFindsVolume, Suits
  <1> QED BY <1>1, <1>2, <1>3, <1>4, PTL DEF Spec
-----------------------------------------------------------------------------
(* What a compaction frees, for one client.  Nothing places a chunk twice: *)
(* a put reuses what is known, and a compaction moves all of what it       *)
(* moves.  So all that is alive on a volume counts as live there, and what *)
(* made a candidate of it is more than what is rewritten.                  *)

OnePlace == \A q, r \in Cited : q.id = r.id => q = r

(* A rewrite is charged with the bytes of the chunks in its name.          *)
RewritesCharged ==
  \A rec \in log.st.idx : rec.seg.by = "compact" => rec.bytes = BytesOf(rec.seg.ids)

PlaceInv == OnePlace /\ RewritesCharged

(* Every chunk that a file has is known, somewhere.                        *)
LEMMA KnownCovers ==
  ASSUME NEW ns \in Namespace, NEW r \in ChunkRefs(ns)
  PROVE  r.id \in Ids(Known(ns))
  <1>1. PICK H : H = Holders(ns, r.id)
    OBVIOUS
  <1>2. H \in (SUBSET Names) \ {{}}
    BY <1>1 DEF Holders, ChunkRefs, Stored, Ids
  <1>3. Max(H) \in H
    BY <1>2, NamesAssumption DEF Max
  <1>4. PICK q \in ns[Max(H)] : q.id = r.id
    BY <1>1, <1>3 DEF Holders, Ids
  <1>5. q \in ChunkRefs(ns) /\ Holders(ns, q.id) = H
    BY <1>1, <1>3, <1>4 DEF Holders, ChunkRefs
  <1>6. q \in Known(ns)
    BY <1>4, <1>5 DEF Known
  <1> QED BY <1>4, <1>6 DEF Ids

(* A put that starts places only what has no place yet.                    *)
LEMMA PutStartPlaces ==
  ASSUME SoloInv, PlaceInv, NEW c \in Clients, PutStart(c) PROVE PlaceInv'
  <1>1. PICK name \in Names, S \in Contents :
          LET reused == {r \in Known(log.st.ns) : r.id \in S}
              staged == S \ Ids(reused)
              seg    == [by |-> "put", n |-> ops]
          IN \E v \in IF staged = {} THEN {NoVolume}
                      ELSE select_volume(BytesOf(staged), log.st.idx) :
               LET manifest == reused \cup {[id |-> id, vol |-> v, seg |-> seg] : id \in staged}
               IN /\ staged # {} \/ log.st.ns[name] # manifest
                  /\ GoTo(c, IF staged = {} THEN "put.load" ELSE "put.push",
                          [cmd |-> "put", name |-> name, manifest |-> manifest,
                           staged |-> staged, vol |-> v, seg |-> seg, tries |-> 0])
    BY DEF PutStart
  <1> DEFINE reused == {r \in Known(log.st.ns) : r.id \in S}
             staged == S \ Ids(reused)
  <1>s. PICK seg : seg = [by |-> "put", n |-> ops]
    OBVIOUS
  <1>v. PICK v, step :
          GoTo(c, step, [cmd |-> "put", name |-> name,
                         manifest |-> reused \cup {[id |-> id, vol |-> v, seg |-> seg] : id \in staged},
                         staged |-> staged, vol |-> v, seg |-> seg, tries |-> 0])
    BY <1>1, <1>s
  <1>m. PICK m : m = reused \cup {[id |-> id, vol |-> v, seg |-> seg] : id \in staged}
    OBVIOUS
  <1>j. PICK j : j = [cmd |-> "put", name |-> name, manifest |-> m, staged |-> staged,
                      vol |-> v, seg |-> seg, tries |-> 0]
    OBVIOUS
  <1>2. j.manifest = m /\ GoTo(c, step, j)
    BY <1>v, <1>m, <1>j
  <1>3. log' = log /\ job'[c] = j /\ \A d \in Clients : d = c
    BY <1>2, SoloGoTo DEF PutStart
  <1>4. reused \subseteq ChunkRefs(log.st.ns) /\ ChunkRefs(log.st.ns) \subseteq Cited
    BY SoloTypes, RefsType DEF Cited
  <1>5. ASSUME NEW r \in ChunkRefs(log.st.ns) PROVE r.id \notin staged
    <2>1. PICK q \in Known(log.st.ns) : q.id = r.id
      BY SoloTypes, KnownCovers DEF Ids
    <2> QED BY <2>1 DEF Ids
  <1> DEFINE fresh == {[id |-> id, vol |-> v, seg |-> seg] : id \in staged}
  <1>6. \A r \in fresh : r.id \in staged /\ r = [id |-> r.id, vol |-> v, seg |-> seg]
    OBVIOUS
  <1>7. j.manifest = reused \cup fresh
    BY <1>2, <1>m
  <1> HIDE DEF reused, staged, fresh
  <1>8. Cited' \subseteq ChunkRefs(log.st.ns) \cup fresh
    BY <1>3, <1>4, <1>7 DEF Cited
  <1>9. OnePlace'
    BY <1>4, <1>5, <1>6, <1>8 DEF PlaceInv, OnePlace
  <1> QED BY <1>3, <1>9 DEF PlaceInv, RewritesCharged

(* What commits is placed once: a put's manifest was cited before, and a   *)
(* compaction leaves nothing where it moves from.                          *)
LEMMA CommitPlaces ==
  ASSUME SoloInv, PlaceInv, NEW c \in Clients, Commits(c), TypeInv' PROVE PlaceInv'
  <1>0. StoreInv /\ PutsKept /\ AtCas(c)
    BY DEF StoreInv, Commits
  <1>j. PICK j : j = job[c]
    OBVIOUS
  <1>1. CASE pc[c] = "put.cas"
    <2>1. /\ Putting(c) /\ j \in PutJob /\ j.seg \in PutSegId
          /\ (j.staged = {} \/ j.vol \in Volumes) /\ j.manifest \subseteq Cited
      <3>1. Putting(c)
        BY <1>1 DEF Putting
      <3> QED BY <1>0, <1>j, <3>1, CitedTypes DEF Cited
    <2>2. Commit(c, PutTxn(j))
      BY <1>1, <1>j DEF Commits, TxnOf
    <2>3. log'.st = apply_txn(log.st, PutTxn(j))
      BY <1>0, <2>2, StoreCommit
    <2>4. ChunkRefs(log'.st.ns) \subseteq Cited
      BY <2>1, <2>3, SoloTypes, PutAddsManifest DEF Cited
    <2>5. Cited' \subseteq Cited
      BY <1>0, <2>4, CitedAfter DEF Cited
    <2>6. PICK seals : seals = IF j.staged = {} THEN {} ELSE Seal(j.vol, j.seg, j.staged)
      OBVIOUS
    <2>7. PutTxn(j) = DeltaPut(j.name, j.manifest, seals)
      BY <2>6 DEF PutTxn
    <2>8. apply_txn(log.st, DeltaPut(j.name, j.manifest, seals)).idx = InsertSeals(log.st.idx, seals)
      BY DEF DeltaPut, apply_txn
    <2>9. log'.st.idx = InsertSeals(log.st.idx, seals)
      BY <2>3, <2>7, <2>8
    <2>10. \A s \in seals : s.seg.by = "put"
      BY <2>1, <2>6 DEF Seal, PutSegId
    <2>11. \A rec \in log'.st.idx : rec \in log.st.idx \/ rec.seg.by = "put"
      BY <2>9, <2>10 DEF InsertSeals
    <2> QED BY <2>5, <2>11 DEF PlaceInv, OnePlace, RewritesCharged
  <1>2. CASE pc[c] = "rm.cas"
    <2>1. job[c].name \in Names
      BY <1>2, SoloTypes DEF Suits, RemoveJob
    <2>2. log'.st = apply_txn(log.st, DeltaRemove(job[c].name))
      BY <1>0, <1>2, StoreCommit DEF Commits, TxnOf
    <2>3. ChunkRefs(log'.st.ns) \subseteq ChunkRefs(log.st.ns)
      BY <2>1, <2>2, SoloTypes, RemoveAddsNothing
    <2>4. Cited' \subseteq Cited
      BY <1>0, <2>3, CitedAfter DEF Cited
    <2>5. apply_txn(log.st, DeltaRemove(job[c].name)).idx = log.st.idx
      BY DEF DeltaRemove, apply_txn
    <2> QED BY <2>2, <2>4, <2>5 DEF PlaceInv, OnePlace, RewritesCharged
  <1>3. CASE pc[c] = "compact.cas"
    <2>1. PICK seals : seals = IF j.live = {} THEN {} ELSE Seal(j.dest, RewriteOf(j), j.live)
      OBVIOUS
    <2>2. Commit(c, CompactionOf(c, job[c]))
      BY <1>3 DEF Commits, TxnOf
    <2>3. /\ \A r \in ChunkRefs(log'.st.ns) :
               \/ r \in ChunkRefs(log.st.ns) /\ r.vol # j.vol
               \/ /\ r.vol = j.dest /\ r.seg = RewriteOf(j)
                  /\ r.id \in live_ids(log.st.ns, j.vol)
          /\ log'.st.idx = {rec \in InsertSeals(log.st.idx, seals) : rec.vol # j.vol}
      BY <1>3, <1>j, <2>1, <2>2, CompactCommitState
    <2>4. ChunkRefs(log'.st.ns) \subseteq ChunkRef /\ ChunkRefs(log.st.ns) \subseteq Cited
      <3>1. log'.st.ns \in Namespace
        BY DEF TypeInv, TypeOK, Log, State
      <3> QED BY <3>1, RefsType DEF Cited
    <2>5. \A d \in Clients : ~Putting(d)'
      BY <1>0, <1>3 DEF SoloInv, Solo, Putting, PutsKept
    <2>6. \A r \in Cited' : r \in ChunkRefs(log'.st.ns)
      BY <1>0, <2>5, CitedAfter
    <2>7. ASSUME NEW q \in Cited', NEW r \in Cited', q.id = r.id PROVE q = r
      <3>1. q \in ChunkRef /\ r \in ChunkRef
        BY <2>4, <2>6
      <3>2. CASE q \in ChunkRefs(log.st.ns) /\ q.vol # j.vol
        <4>1. q.id \notin live_ids(log.st.ns, j.vol)
          BY <2>4, <3>2 DEF live_ids, Ids, RefsOn, PlaceInv, OnePlace
        <4> QED BY <2>3, <2>4, <2>6, <2>7, <3>2, <4>1 DEF PlaceInv, OnePlace
      <3>3. CASE r \in ChunkRefs(log.st.ns) /\ r.vol # j.vol
        <4>1. r.id \notin live_ids(log.st.ns, j.vol)
          BY <2>4, <3>3 DEF live_ids, Ids, RefsOn, PlaceInv, OnePlace
        <4> QED BY <2>3, <2>4, <2>6, <2>7, <3>3, <4>1 DEF PlaceInv, OnePlace
      <3>4. CASE q.vol = r.vol /\ q.seg = r.seg
        BY <2>7, <3>1, <3>4 DEF ChunkRef
      <3> QED BY <2>3, <2>6, <3>2, <3>3, <3>4
    <2>8. /\ RewriteOf(j).ids = j.live
          /\ \A s \in seals : s.seg = RewriteOf(j) /\ s.bytes = BytesOf(j.live)
      BY <1>3, <1>j, <2>1, CompactJobTypes DEF Seal
    <2>9. \A rec \in log'.st.idx : rec \in log.st.idx \/ rec \in seals
      BY <2>3 DEF InsertSeals
    <2>10. \A rec \in log'.st.idx : rec.seg.by = "compact" => rec.bytes = BytesOf(rec.seg.ids)
      BY <2>8, <2>9 DEF PlaceInv, RewritesCharged
    <2> QED BY <2>7, <2>10 DEF PlaceInv, OnePlace, RewritesCharged
  <1> QED BY <1>0, <1>1, <1>2, <1>3 DEF AtCas

(* PlaceInv is inductive for one client.                                   *)
LEMMA PlaceStep == SoloInv /\ PlaceInv /\ [Next]_vars => PlaceInv'
  <1> SUFFICES ASSUME SoloInv, PlaceInv, [Next]_vars PROVE PlaceInv'
    OBVIOUS
  <1>1. StoreInv /\ TypeInv'
    BY StepKeepsTypes DEF StoreInv, SoloInv, SnapshotInv
  <1>2. CASE Idles
    <2>1. log' = log /\ Cited' \subseteq Cited
      BY <1>1, <1>2, CitedAfter DEF Idles, Cited
    <2> QED BY <2>1 DEF PlaceInv, OnePlace, RewritesCharged
  <1> QED BY <1>1, <1>2, StepKinds, PutStartPlaces, CommitPlaces

(* A new store places nothing.                                             *)
LEMMA PlaceInit == Init => PlaceInv
  <1> SUFFICES ASSUME Init PROVE PlaceInv
    OBVIOUS
  <1>1. log.st.idx = {} /\ Cited = {}
    BY DEF Init, EmptyLog, EmptyState, Cited, ChunkRefs, Stored, Putting
  <1> QED BY <1>1 DEF PlaceInv, OnePlace, RewritesCharged
-----------------------------------------------------------------------------
(* What a compaction knows of the volumes it was given: that they waste    *)
(* bytes, in the state that was read, and that all their records are       *)
(* still there.                                                            *)

Wasteful(base, v) == BytesOf(live_ids(base.ns, v)) < volume_used(v, base.idx)

StillCharged(base, v) == RecordsOf(v, base.idx) \subseteq log.st.idx

CompactFree(c) ==
  LET j == job[c]
  IN  Compacting(c) =>
        /\ j.vol \notin j.later /\ IsFiniteSet(j.base.idx)
        /\ BytesOf(j.live) < volume_used(j.vol, j.base.idx)
        /\ \A v \in j.later : StillCharged(j.base, v) /\ Wasteful(j.base, v)
        /\ pc[c] \in {"compact.rewrite", "compact.cas"} => StillCharged(j.base, j.vol)
        /\ pc[c] = "compact.load" => StillCharged(j.base, j.vol) \/ Retired(log.st, j.vol)

FreeInv == \A c \in Clients : CompactFree(c)

(* The setting, with what is known of it already.                          *)
FreeSetting == SoloInv /\ AccountInv /\ PlaceInv

(* What the charges of a volume are made of.                               *)
LEMMA FreeTypes ==
  ASSUME FreeSetting
  PROVE  /\ SoloInv /\ StoreInv /\ log.st \in State /\ log.st.ns \in Namespace
         /\ log.st.idx \in SUBSET SegRec /\ IsFiniteSet(log.st.idx)
         /\ \A v : volume_used(v, log.st.idx) \in Nat
         /\ \A c, d \in Clients : c = d
  <1>1. SoloInv /\ AccountInv
    BY DEF FreeSetting
  <1>2. StoreInv /\ log.st.idx \in SUBSET SegRec /\ IsFiniteSet(log.st.idx)
    BY <1>1, StoreTypes DEF StoreInv, AccountInv
  <1> QED BY <1>1, <1>2, SoloTypes, UsedIsTotal DEF SoloInv, Solo

(* No chunk has two places, so what is alive on a volume counts there.     *)
LEMMA LiveCountsHere ==
  ASSUME FreeSetting, NEW v
  PROVE  live_bytes(log.st.ns, v) = BytesOf(live_ids(log.st.ns, v))
  <1>0. PICK ns : ns = log.st.ns
    OBVIOUS
  <1>1. ns \in Namespace
    BY <1>0, FreeTypes
  <1>2. ASSUME NEW r \in RefsOn(ns, v) PROVE r \in ns[Min(Holders(ns, r.id))]
    <2>1. PICK H : H = Holders(ns, r.id)
      OBVIOUS
    <2>2. r \in ChunkRefs(ns)
      BY DEF RefsOn
    <2>3. H \in (SUBSET Names) \ {{}}
      BY <2>1, <2>2 DEF Holders, ChunkRefs, Stored, Ids
    <2>4. Min(H) \in H
      BY <2>3, NamesAssumption DEF Min
    <2>5. PICK q \in ns[Min(H)] : q.id = r.id
      BY <2>1, <2>4 DEF Holders, Ids
    <2>6. q \in ChunkRefs(ns)
      BY <2>1, <2>4, <2>5 DEF Holders, ChunkRefs
    <2>7. q = r
      BY <1>0, <2>2, <2>5, <2>6 DEF FreeSetting, PlaceInv, OnePlace, Cited
    <2> QED BY <2>1, <2>5, <2>7
  <1>3. {r \in RefsOn(ns, v) : r \in ns[Min(Holders(ns, r.id))]} = RefsOn(ns, v)
    BY <1>2
  <1> QED BY <1>0, <1>3 DEF live_bytes, live_ids

(* A candidate is charged with more than what is alive on it.              *)
LEMMA CandidatesWaste ==
  ASSUME FreeSetting, NEW v \in Candidates(log.st)
  PROVE  Wasteful(log.st, v)
  <1>1. PICK used, live : used = volume_used(v, log.st.idx) /\ live = live_bytes(log.st.ns, v)
    OBVIOUS
  <1>2. live_ids(log.st.ns, v) \in SUBSET Chunks
    <2>1. \A r \in RefsOn(log.st.ns, v) : r \in ChunkRef
      BY FreeTypes, SoloTypes DEF RefsOn
    <2> QED BY <2>1 DEF live_ids, Ids, ChunkRef
  <1>3. used \in Nat /\ live \in Nat
    BY <1>1, <1>2, FreeTypes, LiveCountsHere, BytesAreTotal
  <1>4. PICK dead : dead = dead_bytes(log.st, v)
    OBVIOUS
  <1>5. 100 * dead > DeadGate * used /\ DeadGate \in Nat
    BY <1>1, <1>4, GatesAssumption DEF Candidates
  <1>6. dead = Max({0, used - live})
    BY <1>1, <1>4 DEF dead_bytes
  <1>7. dead = IF used - live > 0 THEN used - live ELSE 0
    <2>1. \E x \in {0, used - live} : \A y \in {0, used - live} : x >= y
      BY <1>3
    <2>2. dead \in {0, used - live} /\ \A y \in {0, used - live} : dead >= y
      BY <1>6, <2>1 DEF Max
    <2> QED BY <1>3, <2>2
  <1>8. DeadGate * used >= 0
    BY <1>3, <1>5
  <1>9. dead > 0
    BY <1>3, <1>5, <1>7, <1>8
  <1>10. live < used
    BY <1>3, <1>7, <1>9
  <1> QED BY <1>1, <1>10, LiveCountsHere DEF Wasteful

(* The next candidate wastes bytes in the state that was read.             *)
LEMMA NextCandidateFree ==
  ASSUME FreeSetting, NEW c \in Clients, NEW base, NEW todo,
         NextCandidate(c, base, todo), IsFiniteSet(base.idx),
         \A v \in todo : StillCharged(base, v)' /\ Wasteful(base, v)
  PROVE  CompactFree(c)'
  <1>0. SoloInv
    BY DEF FreeSetting
  <1>1. CASE GoTo(c, "sweep.load", NoJob)
    <2>1. pc'[c] = "sweep.load"
      BY <1>0, <1>1, SoloGoTo
    <2> QED BY <2>1 DEF CompactFree, Compacting
  <1>2. CASE ~GoTo(c, "sweep.load", NoJob)
    <2>1. PICK viable \in SUBSET todo :
            \E v \in viable : \E dest \in CompactDest(v, base) :
              GoTo(c, IF live_ids(base.ns, v) = {} THEN "compact.load" ELSE "compact.rewrite",
                   [cmd |-> "compact", base |-> base, later |-> viable \ {v},
                    vol |-> v, dest |-> dest, live |-> live_ids(base.ns, v),
                    listed |-> {}, tries |-> 0])
      BY <1>2 DEF NextCandidate
    <2>2. PICK v \in viable :
            \E dest \in CompactDest(v, base) : \E step \in {"compact.load", "compact.rewrite"} :
              GoTo(c, step,
                   [cmd |-> "compact", base |-> base, later |-> viable \ {v},
                    vol |-> v, dest |-> dest, live |-> live_ids(base.ns, v),
                    listed |-> {}, tries |-> 0])
      BY <2>1
    <2> PICK dest \in CompactDest(v, base), step \in {"compact.load", "compact.rewrite"} :
              GoTo(c, step,
                   [cmd |-> "compact", base |-> base, later |-> viable \ {v},
                    vol |-> v, dest |-> dest, live |-> live_ids(base.ns, v),
                    listed |-> {}, tries |-> 0])
      BY <2>2
    <2>3. PICK j : /\ j = [cmd |-> "compact", base |-> base, later |-> viable \ {v},
                           vol |-> v, dest |-> dest, live |-> live_ids(base.ns, v),
                           listed |-> {}, tries |-> 0]
                   /\ GoTo(c, step, j)
      OBVIOUS
    <2>4. pc'[c] = step /\ job'[c] = j
      BY <1>0, <2>3, SoloGoTo
    <2>5. /\ j.vol \notin j.later /\ IsFiniteSet(j.base.idx)
          /\ BytesOf(j.live) < volume_used(j.vol, j.base.idx)
          /\ \A w \in j.later : StillCharged(j.base, w)' /\ Wasteful(j.base, w)
          /\ StillCharged(j.base, j.vol)'
      BY <2>3 DEF Wasteful
    <2> QED BY <2>4, <2>5 DEF CompactFree, Compacting
  <1> QED BY <1>1, <1>2

(* The commit of a compaction: it takes away the records of its volume,    *)
(* and adds to its destination what it moves, at most.                     *)
LEMMA CompactCommitCharges ==
  ASSUME FreeSetting, NEW c \in Clients, pc[c] = "compact.cas",
         Commit(c, CompactionOf(c, job[c])), UNCHANGED refs, NEW j, j = job[c]
  PROVE  /\ log'.st.idx \in SUBSET SegRec /\ IsFiniteSet(log'.st.idx)
         /\ Retired(log'.st, j.vol) /\ volume_used(j.vol, log'.st.idx) = 0
         /\ volume_used(j.dest, log'.st.idx) <= volume_used(j.dest, log.st.idx) + BytesOf(j.live)
         /\ \A v : v \notin {j.vol, j.dest} => volume_used(v, log'.st.idx) = volume_used(v, log.st.idx)
         /\ \A rec \in log.st.idx : rec.vol # j.vol => rec \in log'.st.idx
  <1>1. SoloInv
    BY DEF FreeSetting
  <1>2. /\ j.dest # j.vol /\ j.vol \in Volumes /\ j.dest \in Volumes
        /\ j.live \in SUBSET Chunks /\ RewriteOf(j) \in SegId
        /\ RewriteOf(j).by = "compact" /\ RewriteOf(j).ids = j.live
    BY <1>1, CompactJobTypes DEF RewriteOf, compact_segment_id
  <1>3. PICK idx, old : idx = log'.st.idx /\ old = log.st.idx
    OBVIOUS
  <1>4. old \in SUBSET SegRec /\ IsFiniteSet(old)
    BY <1>3, FreeTypes
  <1>5. PICK s : s = [vol |-> j.dest, seg |-> RewriteOf(j), bytes |-> BytesOf(j.live)]
    OBVIOUS
  <1>6. s \in SegRec /\ s.vol = j.dest /\ s.bytes = BytesOf(j.live)
    BY <1>2, <1>5, SealType DEF Seal
  <1>7. PICK all \in {old, InsertSeals(old, {s})} : idx = {rec \in all : rec.vol # j.vol}
    <2>1. idx = {rec \in InsertSeals(old, IF j.live = {} THEN {}
                                          ELSE Seal(j.dest, RewriteOf(j), j.live)) :
                   rec.vol # j.vol}
      BY <1>1, <1>3, CompactCommitState
    <2>2. InsertSeals(old, {}) = old
      BY DEF InsertSeals
    <2>3. Seal(j.dest, RewriteOf(j), j.live) = {s}
      BY <1>5 DEF Seal
    <2> QED BY <2>1, <2>2, <2>3
  <1>8. ASSUME NEW rec \in old PROVE rec \in all
    <2>1. CASE rec.vol = s.vol /\ rec.seg = s.seg
      <3>1. rec.bytes = s.bytes
        BY <1>2, <1>3, <1>5, <2>1 DEF FreeSetting, PlaceInv, RewritesCharged
      <3>2. rec = s
        BY <1>4, <1>6, <2>1, <3>1 DEF SegRec
      <3> QED BY <1>7, <3>2 DEF InsertSeals
    <2>2. CASE ~(rec.vol = s.vol /\ rec.seg = s.seg)
      BY <1>7, <2>2 DEF InsertSeals
    <2> QED BY <2>1, <2>2
  <1>9. all \subseteq old \cup {s}
    BY <1>7 DEF InsertSeals
  <1>10. all \in SUBSET SegRec /\ IsFiniteSet(all) /\ BytesOf(j.live) \in Nat
         /\ volume_used(j.dest, all) <= volume_used(j.dest, old) + BytesOf(j.live)
    <2>1. BytesOf(j.live) \in Nat
      BY <1>2, BytesAreTotal
    <2>2. volume_used(j.dest, old) \in Nat
      BY <1>4, UsedIsTotal
    <2> QED BY <1>4, <1>6, <1>7, <2>1, <2>2, SealCharges
  <1>11. idx \in SUBSET SegRec /\ IsFiniteSet(idx)
    <2>1. idx \in SUBSET all
      BY <1>7
    <2> QED BY <1>10, <2>1, FS_Subset
  <1>12. volume_used(j.vol, idx) = 0
    <2>1. RecordsOf(j.vol, idx) = {}
      BY <1>7 DEF RecordsOf
    <2>2. volume_used(j.vol, idx) = Total(Sizes, RecordsOf(j.vol, idx))
      BY <1>11, UsedIsTotal
    <2> QED BY <2>1, <2>2, TotalOfNone
  <1>13. volume_used(j.dest, idx) <= volume_used(j.dest, old) + BytesOf(j.live)
    <2>1. RecordsOf(j.dest, idx) = RecordsOf(j.dest, all)
      BY <1>2, <1>7 DEF RecordsOf
    <2>2. volume_used(j.dest, idx) = volume_used(j.dest, all)
      BY <1>10, <1>11, <2>1, UsedIsTotal
    <2> QED BY <1>10, <2>2
  <1>14. ASSUME NEW v, v \notin {j.vol, j.dest} PROVE volume_used(v, idx) = volume_used(v, old)
    <2>1. RecordsOf(v, idx) = RecordsOf(v, old)
      BY <1>6, <1>7, <1>8, <1>9, <1>14 DEF RecordsOf
    <2> QED BY <1>4, <1>11, <2>1, UsedIsTotal
  <1>15. Retired(log'.st, j.vol)
    <2>1. RefsOn(log'.st.ns, j.vol) = {}
      BY <1>1, CompactCommitKeeps
    <2>2. live_ids(log'.st.ns, j.vol) = {}
      BY <2>1 DEF live_ids, Ids
    <2> QED BY <1>3, <1>7, <2>2 DEF Retired
  <1>16. \A rec \in old : rec.vol # j.vol => rec \in idx
    BY <1>7, <1>8
  <1> QED BY <1>3, <1>11, <1>12, <1>13, <1>14, <1>15, <1>16
(* The charges of all volumes together.                                    *)
LEMMA AllBytesIsTotal ==
  ASSUME NEW st, NEW w, w = [v \in Volumes |-> volume_used(v, st.idx)]
  PROVE  AllBytes(st) = Total(w, Volumes) /\ IsFiniteSet(Volumes)
  <1> DEFINE g == CHOOSE g : g = [T \in SUBSET Volumes |->
                                    IF T = {} THEN 0
                                    ELSE volume_used(Pick(T), st.idx) + g[T \ {Pick(T)}]]
  <1>1. IsFiniteSet(Volumes)
    BY VolumesAssumption, FS_Interval DEF Volumes
  <1>2. AllBytes(st) = g[Volumes]
    BY DEF AllBytes, MapThenSumSet, MapThenFoldSet, Pick
  <1>3. PICK h : IsSum(h, w, SUBSET Volumes)
    BY <1>1, SumExists
  <1>4. \A T \in SUBSET Volumes : T # {} => w[Pick(T)] = volume_used(Pick(T), st.idx)
    BY Picked
  <1>5. \A f : (f = [T \in SUBSET Volumes |->
                       IF T = {} THEN 0 ELSE volume_used(Pick(T), st.idx) + f[T \ {Pick(T)}]])
                 <=> IsSum(f, w, SUBSET Volumes)
    BY <1>4 DEF IsSum
  <1>6. IsSum(g, w, SUBSET Volumes)
    BY <1>3, <1>5
  <1> HIDE DEF g
  <1>7. Total(w, Volumes) = g[Volumes]
    BY <1>1, <1>6, TotalIs
  <1> QED BY <1>1, <1>2, <1>7

(* A compaction that commits frees more than it writes.                    *)
LEMMA CompactCommitFrees ==
  ASSUME FreeSetting, FreeInv, NEW c \in Clients, pc[c] = "compact.cas",
         Commit(c, CompactionOf(c, job[c])), UNCHANGED refs
  PROVE  AllBytes(log'.st) < AllBytes(log.st)
  <1>j. PICK j : j = job[c]
    OBVIOUS
  <1>1. SoloInv
    BY DEF FreeSetting
  <1>2. /\ j.vol \in Volumes /\ j.dest \in Volumes /\ j.dest # j.vol
        /\ j.base.idx \in SUBSET SegRec /\ j.live \in SUBSET Chunks
    BY <1>1, <1>j, CompactJobTypes DEF CompactJob, State
  <1>3. /\ IsFiniteSet(j.base.idx) /\ BytesOf(j.live) < volume_used(j.vol, j.base.idx)
        /\ StillCharged(j.base, j.vol)
    BY <1>j DEF FreeInv, CompactFree, Compacting
  <1>4. PICK old, new : old = log.st.idx /\ new = log'.st.idx
    OBVIOUS
  <1>5. /\ old \in SUBSET SegRec /\ IsFiniteSet(old) /\ new \in SUBSET SegRec /\ IsFiniteSet(new)
        /\ volume_used(j.vol, new) = 0
        /\ volume_used(j.dest, new) <= volume_used(j.dest, old) + BytesOf(j.live)
        /\ \A v : v \notin {j.vol, j.dest} => volume_used(v, new) = volume_used(v, old)
    BY <1>j, <1>4, FreeTypes, CompactCommitCharges
  <1>6. volume_used(j.vol, j.base.idx) <= volume_used(j.vol, old)
    <2>1. RecordsOf(j.vol, j.base.idx) \subseteq RecordsOf(j.vol, old)
      BY <1>3, <1>4 DEF StillCharged, RecordsOf
    <2> QED BY <1>2, <1>3, <1>5, <2>1, FewerRecords
  <1>7. PICK u, w : /\ u = [v \in Volumes |-> volume_used(v, old)]
                    /\ w = [v \in Volumes |-> volume_used(v, new)]
    OBVIOUS
  <1>8. /\ AllBytes(log.st) = Total(u, Volumes) /\ AllBytes(log'.st) = Total(w, Volumes)
        /\ IsFiniteSet(Volumes)
    BY <1>4, <1>7, AllBytesIsTotal
  <1>9. /\ \A v \in Volumes : u[v] \in Nat /\ w[v] \in Nat
        /\ u[j.vol] = volume_used(j.vol, old) /\ w[j.vol] = 0
        /\ w[j.dest] <= u[j.dest] + BytesOf(j.live)
        /\ \A v \in Volumes \ {j.vol, j.dest} : w[v] = u[v]
    BY <1>2, <1>5, <1>7, UsedIsTotal
  <1>10. PICK V, W : V = Volumes \ {j.vol} /\ W = V \ {j.dest}
    OBVIOUS
  <1>11. /\ IsFiniteSet(V) /\ IsFiniteSet(W) /\ j.dest \in V
         /\ \A v \in V : u[v] \in Nat /\ w[v] \in Nat
         /\ \A v \in W : u[v] \in Nat /\ w[v] = u[v]
    BY <1>2, <1>8, <1>9, <1>10, FS_Subset
  <1>12. /\ Total(u, Volumes) = u[j.vol] + Total(u, V)
         /\ Total(w, Volumes) = w[j.vol] + Total(w, V)
    BY <1>2, <1>8, <1>9, <1>10, TotalTakes
  <1>13. /\ Total(u, V) = u[j.dest] + Total(u, W)
         /\ Total(w, V) = w[j.dest] + Total(w, W)
    BY <1>10, <1>11, TotalTakes
  <1>14. Total(w, W) = Total(u, W) /\ Total(u, W) \in Nat
    BY <1>11, TotalOfEqual, TotalType
  <1>15. BytesOf(j.live) \in Nat /\ volume_used(j.vol, j.base.idx) \in Nat
    BY <1>2, <1>3, BytesAreTotal, UsedIsTotal
  <1>16. u[j.vol] \in Nat /\ u[j.dest] \in Nat /\ w[j.dest] \in Nat
    BY <1>2, <1>9
  <1>17. BytesOf(j.live) < u[j.vol]
    BY <1>3, <1>6, <1>9, <1>15, <1>16
  <1>18. Total(w, Volumes) < Total(u, Volumes)
    BY <1>9, <1>12, <1>13, <1>14, <1>15, <1>16, <1>17
  <1> QED BY <1>8, <1>18

(* It goes on with the volume it has, in the order of its steps.           *)
SameCompaction(c) ==
  /\ job'[c].vol = job[c].vol /\ job'[c].base = job[c].base /\ job'[c].later = job[c].later
  /\ job'[c].live = job[c].live

GoesOn(c) ==
  /\ SameCompaction(c)
  /\ \/ pc'[c] = pc[c] /\ log' = log
     \/ pc'[c] \in {"compact.reclaim", "compact.recreate", "compact.delete"}
     \/ pc'[c] = "compact.load" /\ pc[c] \in {"compact.rewrite", "compact.cas"}
     \/ /\ pc'[c] = "compact.cas" /\ pc[c] = "compact.load"
        /\ ~Retired(log.st, job[c].vol) /\ log' = log

(* How a compaction comes to where it is: it begins, or goes on to the     *)
(* next volume, or goes on with the one it has.                            *)
LEMMA CompactionMoves ==
  ASSUME SoloInv, [Next]_vars, NEW c \in Clients, Compacting(c)'
  PROVE  \/ log' = log /\ \E todo \in SUBSET Candidates(log.st) : NextCandidate(c, log.st, todo)
         \/ /\ Compacting(c)
            /\ \/ log' = log
               \/ pc[c] = "compact.cas" /\ Commit(c, CompactionOf(c, job[c])) /\ UNCHANGED refs
            /\ NextCandidate(c, job[c].base, job[c].later) \/ GoesOn(c)
  <1>0. \A d \in Clients : d = c
    BY DEF SoloInv, Solo
  <1>j. PICK j : j = job[c]
    OBVIOUS
  <1>1. CASE Open \/ Age \/ UNCHANGED vars
    <2>1. UNCHANGED <<log, pc, job>>
      BY <1>1 DEF Open, Age, vars
    <2> QED BY <2>1 DEF GoesOn, SameCompaction, Compacting
  <1>2. ASSUME NEW step, NEW k, GoTo(c, step, k), step \notin {"compact.rewrite", "compact.load",
                 "compact.cas", "compact.reclaim", "compact.recreate", "compact.delete"}
        PROVE  FALSE
    BY <1>2, SoloGoTo DEF Compacting
  <1>3. ~Finish(c)
    BY <1>2 DEF Finish
  <1>4. CASE PutStart(c) \/ PutPush(c) \/ PutLoad(c) \/ PutCas(c)
    <2>1. \/ Finish(c)
          \/ \E step, k : GoTo(c, step, k) /\ step \in {"put.push", "put.load", "put.cas"}
      BY <1>4 DEF PutStart, PutPush, PutLoad, PutCas
    <2> QED BY <1>2, <1>3, <2>1
  <1>5. CASE RemoveStart(c) \/ RemoveLoad(c) \/ RemoveCas(c) \/ Crash(c)
    <2>1. \/ Finish(c)
          \/ \E step, k : GoTo(c, step, k) /\ step \in {"rm.load", "rm.cas"}
      BY <1>5 DEF RemoveStart, RemoveLoad, RemoveCas, Crash
    <2> QED BY <1>2, <1>3, <2>1
  <1>6. CASE SweepLoad(c) \/ SweepList(c) \/ SweepDelete(c)
    BY <1>2, <1>3, <1>6, SweepMoves
  <1>7. CASE CompactStart(c)
    <2>1. \E todo \in {Candidates(log.st), {}} : NextCandidate(c, log.st, todo)
      BY <1>7 DEF CompactStart
    <2> QED BY <1>7, <2>1 DEF CompactStart
  <1>8. ASSUME NEW step, NEW k, GoTo(c, step, k),
               k.vol = j.vol /\ k.base = j.base /\ k.later = j.later /\ k.live = j.live
        PROVE  SameCompaction(c) /\ pc'[c] = step
    BY <1>j, <1>8, SoloGoTo DEF SameCompaction
  <1>9. ASSUME Compacting(c)
        PROVE  /\ \A listed : LET k == [j EXCEPT !.listed = listed]
                              IN k.vol = j.vol /\ k.base = j.base /\ k.later = j.later /\ k.live = j.live
               /\ LET k == [j EXCEPT !.tries = @ + 1]
                  IN k.vol = j.vol /\ k.base = j.base /\ k.later = j.later /\ k.live = j.live
    <2>1. j \in CompactJob
      BY <1>j, <1>9, CompactJobTypes DEF Compacting
    <2> QED BY <2>1 DEF CompactJob
  <1>10. ASSUME Compacting(c), NEW listed, GoTo(c, "compact.delete", [j EXCEPT !.listed = listed])
         PROVE  GoesOn(c)
    <2>1. PICK k : k = [j EXCEPT !.listed = listed]
      OBVIOUS
    <2>2. k.vol = j.vol /\ k.base = j.base /\ k.later = j.later /\ k.live = j.live
      BY <1>9, <1>10, <2>1
    <2>3. SameCompaction(c) /\ pc'[c] = "compact.delete"
      BY <1>8, <1>10, <2>1, <2>2
    <2> QED BY <2>3 DEF GoesOn
  <1>11. CASE CompactRewrite(c)
    <2>1. pc[c] = "compact.rewrite" /\ log' = log /\ GoTo(c, "compact.load", j)
      BY <1>j, <1>11 DEF CompactRewrite
    <2>2. SameCompaction(c) /\ pc'[c] = "compact.load"
      BY <1>8, <2>1
    <2> QED BY <2>1, <2>2 DEF GoesOn, Compacting
  <1>12. CASE CompactLoad(c)
    <2>1. pc[c] = "compact.load" /\ log' = log /\ Compacting(c)
      BY <1>12 DEF CompactLoad, Compacting
    <2>2. \/ NextCandidate(c, j.base, j.later)
          \/ GoTo(c, "compact.reclaim", j)
          \/ ~Retired(log.st, j.vol) /\ GoTo(c, "compact.cas", j)
      BY <1>j, <1>12 DEF CompactLoad
    <2>3. ASSUME NEW step, GoTo(c, step, j) PROVE SameCompaction(c) /\ pc'[c] = step
      BY <1>8, <2>3
    <2> QED BY <1>j, <2>1, <2>2, <2>3 DEF GoesOn
  <1>13. CASE CompactCas(c)
    <2>1. /\ pc[c] = "compact.cas" /\ Commit(c, CompactionOf(c, job[c])) /\ UNCHANGED refs
          /\ GoTo(c, "compact.reclaim", j)
      BY <1>j, <1>13 DEF CompactCas
    <2>2. SameCompaction(c) /\ pc'[c] = "compact.reclaim"
      BY <1>8, <2>1
    <2> QED BY <2>1, <2>2 DEF GoesOn, Compacting
  <1>14. CASE CompactReclaim(c) \/ RemovalStops(c) \/ CompactRecreate(c) \/ CompactDelete(c)
    <2>1. log' = log /\ Compacting(c)
      BY <1>14 DEF CompactReclaim, RemovalStops, CompactRecreate, CompactDelete, Compacting
    <2>2. \/ \E listed : GoTo(c, "compact.delete", [j EXCEPT !.listed = listed])
          \/ GoTo(c, "compact.recreate", j)
          \/ NextCandidate(c, j.base, j.later)
      <3>1. CASE CompactReclaim(c)
        BY <1>j, <3>1 DEF CompactReclaim
      <3>2. CASE RemovalStops(c)
        BY <1>j, <1>3, <3>2 DEF RemovalStops
      <3>3. CASE CompactRecreate(c)
        BY <1>j, <3>3 DEF CompactRecreate
      <3>4. CASE CompactDelete(c)
        <4>1. CASE NextCandidate(c, job[c].base, job[c].later)
          BY <1>j, <4>1
        <4>2. ASSUME NEW s \in job[c].listed,
                     GoTo(c, "compact.delete", [job[c] EXCEPT !.listed = @ \ {s}])
              PROVE  \E listed : GoTo(c, "compact.delete", [j EXCEPT !.listed = listed])
          BY <1>j, <4>2
        <4> QED BY <3>4, <4>1, <4>2 DEF CompactDelete
      <3> QED BY <1>14, <3>1, <3>2, <3>3, <3>4
    <2>3. GoTo(c, "compact.recreate", j) => GoesOn(c)
      BY <1>8 DEF GoesOn
    <2> QED BY <1>j, <1>10, <2>1, <2>2, <2>3
  <1>15. CASE CasRejected(c) \/ CasAnswerLost(c)
    <2>1. AtCas(c) /\ Retry(c)
      BY <1>15 DEF CasRejected, CasAnswerLost
    <2>2. pc[c] = "compact.cas"
      <3>1. ASSUME pc[c] \in {"put.cas", "rm.cas"} PROVE FALSE
        <4>1. \E k : GoTo(c, "put.load", k) \/ GoTo(c, "rm.load", k) \/ GoTo(c, "idle", k)
          BY <2>1, <3>1 DEF Retry
        <4> QED BY <1>2, <4>1
      <3> QED BY <2>1, <3>1 DEF AtCas
    <2>3. Compacting(c)
      BY <2>2 DEF Compacting
    <2>4. log' = log \/ (Commit(c, CompactionOf(c, job[c])) /\ UNCHANGED refs)
      BY <1>15, <2>2 DEF CasRejected, CasAnswerLost
    <2>5. PICK k : k = [j EXCEPT !.tries = @ + 1]
      OBVIOUS
    <2>6. k.vol = j.vol /\ k.base = j.base /\ k.later = j.later /\ k.live = j.live
      BY <1>9, <2>3, <2>5
    <2>7. GoTo(c, "compact.load", k) \/ NextCandidate(c, j.base, j.later)
      BY <1>j, <2>1, <2>2, <2>5, <2>6 DEF Retry
    <2>8. ASSUME GoTo(c, "compact.load", k) PROVE GoesOn(c)
      <3>1. SameCompaction(c) /\ pc'[c] = "compact.load"
        BY <1>8, <2>6, <2>8
      <3> QED BY <2>2, <3>1 DEF GoesOn
    <2> QED BY <1>j, <2>2, <2>3, <2>4, <2>7, <2>8
  <1>16. CASE \E d \in Clients : Start(d) \/ Step(d) \/ Crash(d)
    <2>1. Start(c) \/ Step(c) \/ Crash(c)
      BY <1>0, <1>16
    <2> QED BY <1>4, <1>5, <1>6, <1>7, <1>11, <1>12, <1>13, <1>14, <1>15, <2>1 DEF Start, Step
  <1> QED BY <1>1, <1>16 DEF Next
(* FreeInv is inductive in its setting.                                    *)
LEMMA FreeStep == FreeSetting /\ FreeInv /\ [Next]_vars => FreeInv'
  <1> SUFFICES ASSUME FreeSetting, FreeInv, [Next]_vars, NEW c \in Clients, Compacting(c)'
               PROVE  CompactFree(c)'
    BY DEF FreeInv, CompactFree
  <1>0. SoloInv
    BY FreeTypes
  <1>j. PICK j : j = job[c]
    OBVIOUS
  <1>1. CASE log' = log /\ \E todo \in SUBSET Candidates(log.st) : NextCandidate(c, log.st, todo)
    <2>1. PICK base : base = log.st
      OBVIOUS
    <2>2. PICK todo \in SUBSET Candidates(log.st) : NextCandidate(c, base, todo)
      BY <1>1, <2>1
    <2>3. IsFiniteSet(base.idx)
      BY <2>1, FreeTypes
    <2>4. \A v \in todo : StillCharged(base, v)' /\ Wasteful(base, v)
      BY <1>1, <2>1, CandidatesWaste DEF StillCharged, RecordsOf
    <2> QED BY <2>2, <2>3, <2>4, NextCandidateFree
  <1>2. CASE /\ Compacting(c)
             /\ \/ log' = log
                \/ pc[c] = "compact.cas" /\ Commit(c, CompactionOf(c, job[c])) /\ UNCHANGED refs
             /\ NextCandidate(c, job[c].base, job[c].later) \/ GoesOn(c)
    <2>1. /\ j.vol \notin j.later /\ IsFiniteSet(j.base.idx)
          /\ BytesOf(j.live) < volume_used(j.vol, j.base.idx)
          /\ \A v \in j.later : StillCharged(j.base, v) /\ Wasteful(j.base, v)
          /\ pc[c] \in {"compact.rewrite", "compact.cas"} => StillCharged(j.base, j.vol)
          /\ pc[c] = "compact.load" => StillCharged(j.base, j.vol) \/ Retired(log.st, j.vol)
      BY <1>j, <1>2 DEF FreeInv, CompactFree
    <2>2. log' # log => pc[c] = "compact.cas" /\ Retired(log'.st, j.vol)
      BY <1>j, <1>2, CompactCommitCharges
    <2>3. ASSUME NEW v \in j.later PROVE StillCharged(j.base, v)'
      <3>1. CASE log' = log
        BY <2>1, <3>1 DEF StillCharged
      <3>2. CASE log' # log
        <4>1. \A rec \in log.st.idx : rec.vol # j.vol => rec \in log'.st.idx
          BY <1>j, <1>2, <3>2, CompactCommitCharges
        <4> QED BY <2>1, <4>1 DEF StillCharged, RecordsOf
      <3> QED BY <3>1, <3>2
    <2>4. CASE NextCandidate(c, job[c].base, job[c].later)
      BY <1>j, <2>1, <2>3, <2>4, NextCandidateFree
    <2>5. CASE GoesOn(c)
      <3>1. PICK k : k = job'[c]
        OBVIOUS
      <3>2. k.vol = j.vol /\ k.base = j.base /\ k.later = j.later /\ k.live = j.live
        BY <1>j, <2>5, <3>1 DEF GoesOn, SameCompaction
      <3>3. log' = log /\ StillCharged(j.base, j.vol) => StillCharged(j.base, j.vol)'
        BY DEF StillCharged
      <3>4. /\ pc'[c] \in {"compact.rewrite", "compact.cas"} => StillCharged(j.base, j.vol)'
            /\ pc'[c] = "compact.load" => StillCharged(j.base, j.vol)' \/ Retired(log'.st, j.vol)
        BY <1>j, <2>1, <2>2, <2>5, <3>3 DEF GoesOn
      <3> QED BY <2>1, <2>3, <3>1, <3>2, <3>4 DEF CompactFree
    <2> QED BY <1>2, <2>4, <2>5
  <1> QED BY <1>0, <1>1, <1>2, CompactionMoves

(* No client compacts in a new store.                                      *)
LEMMA FreeInit == Init => FreeInv
  BY DEF Init, FreeInv, CompactFree, Compacting

(* Only the commit of the compaction moves the log, at its commit.         *)
LEMMA OnlyItsCommit ==
  ASSUME SoloInv, [Next]_vars, NEW c \in Clients, pc[c] = "compact.cas", log' # log
  PROVE  Commit(c, CompactionOf(c, job[c])) /\ UNCHANGED refs
  <1>1. \A d \in Clients : d = c
    BY DEF SoloInv, Solo
  <1>2. ~Open /\ ~Age /\ ~UNCHANGED vars
    BY DEF Open, Age, vars
  <1>3. Start(c) \/ Step(c) \/ Crash(c)
    BY <1>1, <1>2 DEF Next
  <1>4. CompactCas(c) \/ CasAnswerLost(c)
    BY <1>3 DEF Start, Step, Crash, PutStart, RemoveStart, CompactStart, PutPush, PutLoad, PutCas,
                RemoveLoad, RemoveCas, CompactRewrite, CompactLoad, CompactReclaim, RemovalStops,
                CompactRecreate, CompactDelete, CasRejected, SweepLoad, SweepList, SweepDelete
  <1> QED BY <1>4 DEF CompactCas, CasAnswerLost

(* `compact` frees bytes: whatever it finds when it commits, the index it  *)
(* leaves charges less in all than the one it replaces.  For one client,   *)
(* any number of volumes, chunks and files, and whatever fails.            *)
THEOREM CompactionsFree ==
  ASSUME Solo PROVE Spec => CompactionFrees
  <1>1. Spec => [](StoreInv /\ AccountInv)
    BY AccountsHold
  <1>2. Spec => []SoloInv
    BY SoloHolds
  <1>3. SoloInv /\ AccountInv /\ PlaceInv => FreeSetting
    BY DEF FreeSetting
  <1>4. FreeSetting /\ FreeInv /\ [Next]_vars =>
          [(\E c \in Clients : pc[c] = "compact.cas" /\ log'.tip # log.tip /\ pc'[c] # "compact.cas")
             => AllBytes(log'.st) < AllBytes(log.st)]_vars
    <2> SUFFICES ASSUME FreeSetting, FreeInv, [Next]_vars,
                        NEW c \in Clients, pc[c] = "compact.cas", log'.tip # log.tip
                 PROVE  AllBytes(log'.st) < AllBytes(log.st)
      OBVIOUS
    <2>1. Commit(c, CompactionOf(c, job[c])) /\ UNCHANGED refs
      BY FreeTypes, OnlyItsCommit
    <2> QED BY <2>1, CompactCommitFrees
  <1> QED
    BY <1>1, <1>2, <1>3, <1>4, PlaceInit, PlaceStep, FreeInit, FreeStep, PTL
       DEF Spec, CompactionFrees
=============================================================================
