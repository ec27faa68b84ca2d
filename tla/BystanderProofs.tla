---------------------------- MODULE BystanderProofs ----------------------------
(***************************************************************************)
(* What the processes that only read the store can count on, readers and   *)
(* mirrors.                                                                *)
(*                                                                         *)
(* A pinned commit stays readable while any number of writers use the      *)
(* store: what it references is never taken away (see DataProofs), and it  *)
(* referenced only chunks that were stored when it was pinned.  When one   *)
(* client compacts as well, a pin can lose its data, but only to a commit  *)
(* that came after it; and a mirror that no commit overtakes can serve     *)
(* whatever the primary can.                                               *)
(***************************************************************************)
EXTENDS Reader, Mirror, DataProofs

-----------------------------------------------------------------------------
(* Readers, while no client compacts.                                      *)

PinsStored ==
  /\ pin \in [Readers -> Log]
  /\ \A r \in Readers : \A q \in ChunkRefs(pin[r].st.ns) : HasChunk(q)

ReaderInv == WritersInv /\ PinsStored

(* What a pinned commit references is a chunk's place.                     *)
LEMMA PinRefs ==
  ASSUME PinsStored, NEW r \in Readers
  PROVE  ChunkRefs(pin[r].st.ns) \subseteq ChunkRef
  BY RefsType DEF PinsStored, Log, State

(* A reader that opens the store may create a volume's repository; that is *)
(* all of the store's state it touches.                                    *)
LEMMA OpeningKeepsWritersInv ==
  ASSUME WritersInv, repo' = Opened, UNCHANGED <<log, refs, pc, job, seen, ops>>
  PROVE  WritersInv'
  <1>1. repo' \in [Volumes -> RepoState]
    BY DEF Opened, Initialised, RepoState, WritersInv, SnapshotInv, TypeInv, TypeOK
  <1>2. TypeInv' /\ SnapshotFresh'
    BY <1>1 DEF WritersInv, SnapshotInv, TypeInv, TypeOK, JobsSuit, SnapshotFresh
  <1>3. NoDangling'
    BY DEF WritersInv, NoDangling, HasChunk
  <1>4. \A c \in Clients : DataFirst(c)'
    BY DEF WritersInv, DataFirst, HasChunk
  <1> QED BY <1>2, <1>3, <1>4 DEF WritersInv, WritersOnly, SnapshotInv

(* The readers' own steps: a pin is of the tip, where nothing dangles.     *)
LEMMA ReaderStepsKeep ==
  ASSUME ReaderInv, NEW r \in Readers,
         Pin(r) \/ GetStart(r) \/ ReadCached(r) \/ ReadRemote(r) \/ GetFails(r)
  PROVE  ReaderInv'
  <1>1. CASE Pin(r)
    <2>1. WritersInv'
      BY <1>1, OpeningKeepsWritersInv DEF Pin, ReaderInv
    <2>2. log \in Log /\ \A q \in ChunkRefs(log.st.ns) : HasChunk(q)
      BY DEF ReaderInv, WritersInv, SnapshotInv, TypeInv, TypeOK, NoDangling
    <2>3. pin' = [pin EXCEPT ![r] = log] /\ refs' = refs
      BY <1>1 DEF Pin
    <2> QED BY <2>1, <2>2, <2>3 DEF ReaderInv, PinsStored, HasChunk
  <1>2. CASE GetStart(r)
    <2>1. WritersInv'
      BY <1>2, OpeningKeepsWritersInv DEF GetStart, ReaderInv
    <2>2. pin' = pin /\ refs' = refs
      BY <1>2 DEF GetStart
    <2> QED BY <2>1, <2>2 DEF ReaderInv, PinsStored, HasChunk
  <1>3. CASE ReadCached(r) \/ ReadRemote(r) \/ GetFails(r)
    <2>1. UNCHANGED <<pin, vars>>
      BY <1>3 DEF ReadCached, ReadRemote, GetFails
    <2>2. WritersInv'
      BY <2>1, WritersStep DEF ReaderInv
    <2> QED BY <2>1, <2>2 DEF ReaderInv, PinsStored, HasChunk, vars
  <1> QED BY <1>1, <1>2, <1>3

(* ReaderInv is inductive.                                                 *)
LEMMA ReaderStep == ReaderInv /\ [ReaderNext]_<<vars, rvars>> => ReaderInv'
  <1> SUFFICES ASSUME ReaderInv, [ReaderNext]_<<vars, rvars>> PROVE ReaderInv'
    OBVIOUS
  <1>1. CASE [Next]_vars /\ UNCHANGED rvars
    <2>1. WritersInv'
      BY <1>1, WritersStep DEF ReaderInv
    <2>2. pin' = pin
      BY <1>1 DEF rvars
    <2>3. ASSUME NEW r \in Readers, NEW q \in ChunkRefs(pin[r].st.ns) PROVE HasChunk(q)'
      BY <1>1, <2>3, PinRefs, WritersKeepSegments DEF ReaderInv, PinsStored
    <2> QED BY <2>1, <2>2, <2>3 DEF ReaderInv, PinsStored
  <1>2. CASE \E r \in Readers :
               Pin(r) \/ GetStart(r) \/ ReadCached(r) \/ ReadRemote(r) \/ GetFails(r)
    BY <1>2, ReaderStepsKeep
  <1> QED BY <1>1, <1>2 DEF ReaderNext

(* A new store, with nothing to read.                                      *)
LEMMA ReaderInitInv == WritersOnly /\ ReaderInit => ReaderInv
  <1> SUFFICES ASSUME WritersOnly, ReaderInit PROVE ReaderInv
    OBVIOUS
  <1>1. TypeInv
    BY InitTypes DEF ReaderInit
  <1>2. SnapshotFresh /\ log = EmptyLog
    BY EmptyLogType DEF ReaderInit, Init, SnapshotFresh, Log
  <1>3. WritersInv
    BY <1>1, <1>2, WritersInit DEF ReaderInit, SnapshotInv
  <1>4. PinsStored
    BY EmptyLogType DEF ReaderInit, PinsStored, EmptyLog, EmptyState, ChunkRefs, Stored
  <1> QED BY <1>3, <1>4 DEF ReaderInv

(* While no client compacts, a reader that pinned a commit of the log can  *)
(* read every file of it, however far the log has moved on and whatever    *)
(* the writers that moved it went through.                                 *)
THEOREM PinsStayReadable ==
  ASSUME WritersOnly
  PROVE  ReaderSpec => []PinnedReadable
  <1>1. ReaderInit => ReaderInv
    BY ReaderInitInv
  <1>2. ReaderInv => PinnedReadable
    BY DEF ReaderInv, PinsStored, PinnedReadable, Readable
  <1> QED BY <1>1, <1>2, ReaderStep, PTL DEF ReaderSpec

-----------------------------------------------------------------------------
(* Readers, and one client with every command.                             *)

(* A reader reads from the commit it pinned, which is the tip or older.    *)
Following ==
  /\ pin \in [Readers -> Log]
  /\ DOMAIN rest = Readers
  /\ \A r \in Readers :
       /\ pin[r].tip <= log.tip
       /\ pin[r].tip = log.tip => pin[r] = log
       /\ rest[r] \subseteq ChunkRefs(pin[r].st.ns)

SoloReaderInv == SoloInv /\ Following

(* A process that opens the store leaves SoloInv as it was.               *)
LEMMA OpeningKeepsSoloInv ==
  ASSUME SoloInv, repo' = Opened, UNCHANGED <<log, refs, pc, job, seen, ops>>
  PROVE  SoloInv'
  <1>1. repo' \in [Volumes -> RepoState]
    BY DEF Opened, Initialised, RepoState, SoloInv, SnapshotInv, TypeInv, TypeOK
  <1>2. TypeInv' /\ SnapshotFresh'
    BY <1>1 DEF SoloInv, SnapshotInv, TypeInv, TypeOK, JobsSuit, SnapshotFresh
  <1>3. NoneLost' /\ RewritesNamed'
    BY DEF SoloInv, NoneLost, Held, RewritesNamed
  <1>4. \A c \in Clients : Prepared(c)'
    BY PreparedStays
  <1> QED BY <1>2, <1>3, <1>4 DEF SoloInv, Solo, SnapshotInv

(* The readers' own steps: a reader finishes a file before it pins again.  *)
LEMMA SoloReaderStepsKeep ==
  ASSUME SoloReaderInv, NEW r \in Readers,
         Pin(r) \/ GetStart(r) \/ ReadCached(r) \/ ReadRemote(r) \/ GetFails(r)
  PROVE  SoloReaderInv'
  <1>0. log \in Log
    BY DEF SoloReaderInv, SoloInv, SnapshotInv, TypeInv, TypeOK
  <1>1. CASE Pin(r)
    <2>1. SoloInv'
      BY <1>1, OpeningKeepsSoloInv DEF Pin, SoloReaderInv
    <2>2. pin' = [pin EXCEPT ![r] = log] /\ rest[r] = {} /\ UNCHANGED <<log, rest>>
      BY <1>1 DEF Pin
    <2> QED BY <1>0, <2>1, <2>2 DEF SoloReaderInv, Following, Log
  <1>2. CASE GetStart(r)
    <2>1. SoloInv'
      BY <1>2, OpeningKeepsSoloInv DEF GetStart, SoloReaderInv
    <2>2. PICK name \in Stored(pin[r].st.ns) : rest' = [rest EXCEPT ![r] = pin[r].st.ns[name]]
      BY <1>2 DEF GetStart
    <2>3. pin[r].st.ns[name] \subseteq ChunkRefs(pin[r].st.ns)
      BY DEF ChunkRefs
    <2>4. UNCHANGED <<pin, log>>
      BY <1>2 DEF GetStart
    <2> QED BY <2>1, <2>2, <2>3, <2>4 DEF SoloReaderInv, Following
  <1>3. CASE ReadCached(r) \/ ReadRemote(r) \/ GetFails(r)
    <2>1. UNCHANGED <<pin, vars>>
      BY <1>3 DEF ReadCached, ReadRemote, GetFails
    <2>2. SoloInv'
      BY <2>1, SoloStep DEF SoloReaderInv
    <2>3. PICK left \in SUBSET rest[r] : rest' = [rest EXCEPT ![r] = left]
      BY <1>3 DEF ReadCached, ReadRemote, GetFails
    <2> QED BY <2>1, <2>2, <2>3 DEF SoloReaderInv, Following, vars
  <1> QED BY <1>1, <1>2, <1>3

(* SoloReaderInv is inductive: a tip never recurs.                         *)
LEMMA SoloReaderStep ==
  SoloReaderInv /\ [ReaderNext]_<<vars, rvars>> => SoloReaderInv'
  <1> SUFFICES ASSUME SoloReaderInv, [ReaderNext]_<<vars, rvars>> PROVE SoloReaderInv'
    OBVIOUS
  <1>1. CASE [Next]_vars /\ UNCHANGED rvars
    <2>1. SoloInv'
      BY <1>1, SoloStep DEF SoloReaderInv
    <2>2. pin' = pin /\ rest' = rest
      BY <1>1 DEF rvars
    <2>3. log' = log \/ log'.tip = log.tip + 1
      BY <1>1, LogMoves DEF SoloReaderInv, SoloInv, SnapshotInv
    <2>4. log.tip \in Nat /\ \A r \in Readers : pin[r].tip \in Nat
      BY DEF SoloReaderInv, Following, SoloInv, SnapshotInv, TypeInv, TypeOK, Log
    <2> QED BY <2>1, <2>2, <2>3, <2>4 DEF SoloReaderInv, Following
  <1>2. CASE \E r \in Readers :
               Pin(r) \/ GetStart(r) \/ ReadCached(r) \/ ReadRemote(r) \/ GetFails(r)
    BY <1>2, SoloReaderStepsKeep
  <1> QED BY <1>1, <1>2 DEF ReaderNext

(* A new store, with nothing to read.                                      *)
LEMMA SoloReaderInit == Solo /\ ReaderInit => SoloReaderInv
  <1> SUFFICES ASSUME Solo, ReaderInit PROVE SoloReaderInv
    OBVIOUS
  <1>1. TypeInv
    BY InitTypes DEF ReaderInit
  <1>2. SnapshotFresh /\ log = EmptyLog
    BY EmptyLogType DEF ReaderInit, Init, SnapshotFresh, Log
  <1>3. SoloInv
    BY <1>1, <1>2, SoloInit DEF ReaderInit, SnapshotInv
  <1>4. Following
    BY <1>2, EmptyLogType DEF ReaderInit, Following, Log
  <1> QED BY <1>3, <1>4 DEF SoloReaderInv

(* With one client and every command, compaction and its sweep included,   *)
(* and no removal that stops half way, a reader misses a chunk only if the *)
(* log has moved past the commit it reads at: to read again, from the new  *)
(* tip, is to find it.                                                     *)
THEOREM GetsMissOnlyWhenOvertaken ==
  ASSUME Solo, WholeRemovals
  PROVE  ReaderSpec => []MissingMeansOvertaken
  <1>1. ReaderInit => SoloReaderInv
    BY SoloReaderInit
  <1>2. SoloReaderInv => MissingMeansOvertaken
    <2> SUFFICES ASSUME SoloReaderInv, NEW r \in Readers, NEW q \in rest[r], ~Readable(r, q)
                 PROVE  pin[r].tip < log.tip
      BY DEF MissingMeansOvertaken
    <2>1. pin[r] # log
      BY DEF SoloReaderInv, Following, SoloInv, WholeRemovals, NoneLost, Held, HasChunk,
             Readable
    <2>2. log.tip \in Nat /\ pin[r].tip \in Nat
      BY DEF SoloReaderInv, Following, SoloInv, SnapshotInv, TypeInv, TypeOK, Log
    <2> QED BY <2>1, <2>2 DEF SoloReaderInv, Following
  <1> QED BY <1>1, <1>2, SoloReaderStep, PTL DEF ReaderSpec

-----------------------------------------------------------------------------
(* Mirrors: types, and what is copied.                                     *)

MirrorTypes == TypeInv /\ MirrorTypeOK

(* A process that opens the store keeps the types.                         *)
LEMMA OpeningKeepsTypes ==
  ASSUME TypeInv, repo' = Opened, UNCHANGED <<log, refs, pc, job, seen, ops>>
  PROVE  TypeInv'
  <1>1. repo' \in [Volumes -> RepoState]
    BY DEF Opened, Initialised, RepoState, TypeInv, TypeOK
  <1> QED BY <1>1 DEF TypeInv, TypeOK, JobsSuit

(* The steps of a mirror, or of the store it mirrors, keep the types.      *)
LEMMA MirrorTypesStep == MirrorTypes /\ [MirrorNext]_<<vars, mvars>> => MirrorTypes'
  <1> SUFFICES ASSUME MirrorTypes, [MirrorNext]_<<vars, mvars>> PROVE MirrorTypes'
    OBVIOUS
  <1>1. /\ TypeInv /\ MirrorTypeOK /\ NumVolumes \in Nat \ {0}
        /\ log \in Log /\ log.tip \in Nat /\ refs \in [Volumes -> SUBSET Segment]
    BY VolumesAssumption DEF MirrorTypes, TypeInv, TypeOK, Log
  <1>2. CASE MirrorStart
    <2>1. TypeInv'
      BY <1>1, <1>2, OpeningKeepsTypes DEF MirrorStart
    <2>2. 1 \in 0 .. IndexTurn
      BY <1>1 DEF IndexTurn
    <2>3. ChunkRefs(log.st.ns) \subseteq ChunkRef
      BY <1>1, RefsType DEF Log, State
    <2> QED BY <1>1, <1>2, <2>1, <2>2, <2>3 DEF MirrorStart, MirrorTypes, MirrorTypeOK
  <1>3. CASE MirrorVolume
    <2>1. TypeInv'
      BY <1>1, <1>3, StepKeepsTypes DEF MirrorVolume
    <2>2. at \in Volumes /\ at' = at + 1
      BY <1>3 DEF MirrorVolume, up
    <2>3. at' \in 0 .. IndexTurn
      BY <1>1, <2>2 DEF Volumes, IndexTurn
    <2>4. Copies(at) \subseteq [seg : SegId, ids : SUBSET Chunks]
      BY <1>1, <2>2 DEF Copies, Segment
    <2>5. copy' \in [Volumes -> SUBSET [seg : SegId, ids : SUBSET Chunks]]
      BY <1>1, <1>3, <2>2, <2>4 DEF MirrorVolume, MirrorTypeOK
    <2> QED BY <1>1, <1>3, <2>1, <2>3, <2>5 DEF MirrorVolume, MirrorTypes, MirrorTypeOK
  <1>4. CASE MirrorIndex \/ MirrorStop
    <2>1. TypeInv'
      BY <1>1, <1>4, StepKeepsTypes DEF MirrorIndex, MirrorStop
    <2>2. 0 \in 0 .. IndexTurn
      BY <1>1 DEF IndexTurn
    <2> QED BY <1>1, <1>4, <2>1, <2>2 DEF MirrorIndex, MirrorStop, MirrorTypes, MirrorTypeOK
  <1>5. CASE Meanwhile \/ UNCHANGED <<vars, mvars>>
    <2>1. /\ [Next]_vars /\ UNCHANGED <<copy, copylog, at>>
          /\ named' \subseteq named
      BY <1>5 DEF Meanwhile, mvars
    <2> QED BY <1>1, <2>1, StepKeepsTypes DEF MirrorTypes, MirrorTypeOK, IndexTurn
  <1> QED BY <1>2, <1>3, <1>4, <1>5 DEF MirrorNext

(* A new store that was never mirrored.                                    *)
LEMMA MirrorTypesInit == MirrorInit => MirrorTypes
  <1> SUFFICES ASSUME MirrorInit PROVE MirrorTypes
    OBVIOUS
  <1>1. 0 \in 0 .. IndexTurn
    BY VolumesAssumption DEF IndexTurn
  <1> QED BY <1>1, InitTypes, EmptyLogType DEF MirrorInit, MirrorTypes, MirrorTypeOK

(* The mirror's variables keep to their types.                             *)
THEOREM MirrorTypeCorrect == MirrorSpec => []MirrorTypeOK
  <1>1. MirrorTypes => MirrorTypeOK
    BY DEF MirrorTypes
  <1> QED BY <1>1, MirrorTypesInit, MirrorTypesStep, PTL DEF MirrorSpec

(* What a mirror has copied it keeps.                                      *)
LEMMA CopyGrows ==
  ASSUME MirrorTypes, [MirrorNext]_<<vars, mvars>>, NEW v \in Volumes
  PROVE  copy[v] \subseteq copy'[v]
  <1>1. DOMAIN copy = Volumes
    BY DEF MirrorTypes, MirrorTypeOK
  <1>2. CASE MirrorVolume
    BY <1>1, <1>2 DEF MirrorVolume
  <1>3. CASE UNCHANGED copy
    BY <1>3
  <1> QED BY <1>2, <1>3 DEF MirrorNext, MirrorStart, MirrorIndex, MirrorStop, Meanwhile, mvars

(* Whatever any number of clients do to the primary meanwhile, and however *)
(* often a mirror is stopped and started again, a mirror that was whole    *)
(* stays whole until its next push of the index.                           *)
THEOREM InterruptionsDoNoHarm == MirrorSpec => InterruptionHarmless
  <1>1. MirrorTypes /\ [MirrorNext]_<<vars, mvars>> /\ MirrorWhole /\ ~MirrorIndex => MirrorWhole'
    <2> SUFFICES ASSUME MirrorTypes, [MirrorNext]_<<vars, mvars>>, MirrorWhole, ~MirrorIndex
                 PROVE  MirrorWhole'
      OBVIOUS
    <2>1. copylog' = copylog
      BY DEF MirrorNext, MirrorStart, MirrorVolume, MirrorStop, Meanwhile, mvars
    <2>2. \A r \in ChunkRefs(copylog.st.ns) : r.vol \in Volumes
      BY RefsType DEF MirrorTypes, MirrorTypeOK, Log, State, ChunkRef
    <2>3. \A v \in Volumes : copy[v] \subseteq copy'[v]
      BY CopyGrows
    <2> QED BY <2>1, <2>2, <2>3 DEF MirrorWhole, Copied
  <1> QED BY <1>1, MirrorTypesInit, MirrorTypesStep, PTL DEF MirrorSpec, InterruptionHarmless

-----------------------------------------------------------------------------
(* What a mirror brings along.                                             *)

(* A put that has its segment to push is the first to use its name.        *)
FreshPush ==
  \A c \in Clients : pc[c] = "put.push" => \A r \in ChunkRefs(log.st.ns) : r.seg # job[c].seg

(* The volumes behind the mirror hold, of what the log has named since it  *)
(* began, all that the primary can serve.                                  *)
CopiedBehind ==
  /\ named \subseteq ChunkRefs(log.st.ns)
  /\ at # 0 => \A r \in named : r.vol < at /\ HasChunk(r) => Copied(r)

ServesInv ==
  /\ MirrorTypes /\ StoreInv /\ AccountInv
  /\ Solo => FreshPush
  /\ CopiedBehind

(* A sole client at its push stays there only while it does nothing.       *)
LEMMA FreshPushStep ==
  Solo /\ StoreInv /\ AccountInv /\ FreshPush /\ [Next]_vars => FreshPush'
  <1> SUFFICES ASSUME Solo, StoreInv, AccountInv, FreshPush, [Next]_vars,
                      NEW c \in Clients, pc'[c] = "put.push"
               PROVE  \A r \in ChunkRefs(log'.st.ns) : r.seg # job'[c].seg
    BY DEF FreshPush
  <1>0. ASSUME NEW d \in Clients, NEW step, NEW j, GoTo(d, step, j)
        PROVE  step = "put.push" /\ job'[c] = j
    BY <1>0, StoreTypes DEF GoTo, Solo
  <1>1. CASE Open \/ Age \/ UNCHANGED vars
    BY <1>1 DEF Open, Age, vars, FreshPush
  <1>2. ASSUME NEW d \in Clients, Step(d) \/ Crash(d) PROVE FALSE
    BY <1>0, <1>2, StepsLeavePush
  <1>3. ASSUME NEW d \in Clients, RemoveStart(d) \/ CompactStart(d) PROVE FALSE
    <2>1. \E step, j : /\ GoTo(d, step, j)
                       /\ step \in {"rm.load", "sweep.load", "compact.load", "compact.rewrite"}
      <3>1. CASE RemoveStart(d)
        BY <3>1 DEF RemoveStart
      <3>2. CASE CompactStart(d)
        BY <3>2 DEF CompactStart, NextCandidate
      <3> QED BY <1>3, <3>1, <3>2
    <2> QED BY <1>0, <2>1
  <1>4. ASSUME NEW d \in Clients, PutStart(d)
        PROVE  \A r \in ChunkRefs(log'.st.ns) : r.seg # job'[c].seg
    <2>1. log' = log /\ \E step, j : GoTo(d, step, j) /\ j.seg = [by |-> "put", n |-> ops]
      BY <1>4 DEF PutStart
    <2>2. log' = log /\ job'[c].seg = [by |-> "put", n |-> ops]
      BY <1>0, <2>1
    <2>3. \A r \in ChunkRefs(log.st.ns) : Drawn(r.seg)
      BY DEF AccountInv, Cited
    <2> QED BY <2>2, <2>3, StoreTypes DEF Drawn
  <1> QED BY <1>1, <1>2, <1>3, <1>4 DEF Next, Start

(* While the log stays, what a sole client cannot read does not come back: *)
(* no push takes the name of a segment that the log uses.                  *)
LEMMA SoloNothingBack ==
  ASSUME SoloInv, FreshPush, [Next]_vars, log' = log,
         NEW r \in ChunkRefs(log.st.ns), HasChunk(r)'
  PROVE  HasChunk(r)
  <1>0. /\ refs \in [Volumes -> SUBSET Segment] /\ r \in ChunkRef /\ r.vol \in Volumes
        /\ HasSegment(r.vol, r.seg)
    BY SoloTypes DEF Held, HasSegment, ChunkRef
  <1>1. PICK t \in refs'[r.vol] : t.seg = r.seg /\ r.id \in t.ids
    BY DEF HasChunk
  <1>2. ASSUME \E s \in refs[r.vol] : s.seg = t.seg /\ t.ids \subseteq s.ids PROVE HasChunk(r)
    BY <1>1, <1>2 DEF HasChunk
  <1>3. CASE t \in refs[r.vol]
    BY <1>2, <1>3
  <1>4. ASSUME NEW v \in Volumes, NEW seg, NEW ids, Publish(v, seg, ids), t \notin refs[r.vol]
        PROVE  seg = r.seg /\ v = r.vol
    <2>1. v = r.vol /\ t = [seg |-> seg, ids |-> ids, old |-> FALSE]
      BY <1>0, <1>1, <1>4 DEF Publish
    <2> QED BY <1>1, <2>1
  <1>5. ASSUME NEW c \in Clients, PutPush(c) PROVE HasChunk(r)
    <2>1. job[c].seg # r.seg /\ job[c].vol \in Volumes
      BY <1>5 DEF PutPush, FreshPush, up
    <2> QED BY <1>3, <1>4, <1>5, <2>1 DEF PutPush
  <1>6. ASSUME NEW c \in Clients, CompactRewrite(c) PROVE HasChunk(r)
    <2>1. CASE HasSegment(job[c].dest, RewriteOf(job[c]))
      BY <1>1, <1>3, <1>6, <2>1 DEF CompactRewrite
    <2>2. CASE ~HasSegment(job[c].dest, RewriteOf(job[c]))
      <3>1. job[c].dest \in Volumes /\ Publish(job[c].dest, RewriteOf(job[c]), job[c].live)
        BY <1>6, <2>2 DEF CompactRewrite, up
      <3> QED BY <1>0, <1>3, <1>4, <2>2, <3>1
    <2> QED BY <2>1, <2>2
  <1>7. CASE Age
    <2>1. PICK v \in Volumes : \E s \in refs[v] :
            refs' = [refs EXCEPT ![v] = (@ \ {s}) \cup {[s EXCEPT !.old = TRUE]}]
      BY <1>7 DEF Age
    <2>2. PICK s \in refs[v] :
            refs' = [refs EXCEPT ![v] = (@ \ {s}) \cup {[s EXCEPT !.old = TRUE]}]
      BY <2>1
    <2> DEFINE aged == [s EXCEPT !.old = TRUE]
    <2>3. s \in Segment /\ aged.seg = s.seg /\ aged.ids = s.ids
      BY <1>0, <2>2 DEF Segment
    <2>4. t \in refs[r.vol] \/ (v = r.vol /\ t = aged)
      BY <1>0, <1>1, <2>2
    <2> HIDE DEF aged
    <2> QED BY <1>2, <1>3, <2>3, <2>4
  <1>8. ASSUME NEW c \in Clients, RemovalStops(c) PROVE HasChunk(r)
    <2> DEFINE v == job[c].vol
    <2>1. PICK left \in Remains(refs[v]) : refs' = [refs EXCEPT ![v] = left]
      BY <1>8 DEF RemovalStops
    <2> HIDE DEF v
    <2>2. CASE v # r.vol
      BY <1>0, <1>1, <1>3, <2>1, <2>2
    <2>3. CASE v = r.vol
      <3>1. refs[v] \in SUBSET Segment /\ t \in left
        BY <1>0, <1>1, <2>1, <2>3
      <3>2. t \in refs[v] \/ t.ids = {}
        BY <3>1, RemainsType
      <3> QED BY <1>1, <1>3, <2>3, <3>2
    <2> QED BY <2>2, <2>3
  <1>9. ASSUME \A v \in Volumes : refs'[v] \subseteq refs[v] PROVE HasChunk(r)
    BY <1>0, <1>1, <1>3, <1>9
  <1>10. ASSUME NEW c \in Clients,
                \/ Start(c) \/ Crash(c) \/ PutLoad(c) \/ PutCas(c) \/ RemoveLoad(c) \/ RemoveCas(c)
                \/ CompactLoad(c) \/ CompactCas(c) \/ CompactRecreate(c)
                \/ CasRejected(c) \/ CasAnswerLost(c) \/ SweepLoad(c)
         PROVE  HasChunk(r)
    <2>1. refs' = refs
      BY <1>10 DEF Start, PutStart, RemoveStart, CompactStart, Crash, PutLoad, PutCas, RemoveLoad,
         RemoveCas, CompactLoad, CompactCas, CompactRecreate, CasRejected, CasAnswerLost, SweepLoad
    <2> QED BY <1>9, <2>1
  <1>11. ASSUME NEW c \in Clients,
                CompactReclaim(c) \/ CompactDelete(c) \/ SweepList(c) \/ SweepDelete(c)
         PROVE  HasChunk(r)
    <2>1. \/ UNCHANGED refs
          \/ \E v : refs' = [refs EXCEPT ![v] = {}]
          \/ \E v, seg : Unpublish(v, seg)
      <3>1. CASE CompactReclaim(c) \/ CompactDelete(c)
        BY <3>1 DEF CompactReclaim, CompactDelete
      <3>2. CASE SweepList(c) \/ SweepDelete(c)
        BY <3>2, SweepUnpublishes
      <3> QED BY <1>11, <3>1, <3>2
    <2> QED BY <1>0, <1>9, <2>1 DEF Unpublish
  <1>12. CASE Open \/ UNCHANGED vars
    BY <1>9, <1>12 DEF Open, vars
  <1> QED BY <1>5, <1>6, <1>7, <1>8, <1>10, <1>11, <1>12 DEF Next, Step

(* A commit publishes and deletes nothing.                                 *)
LEMMA CommitsKeepRefs == [Next]_vars => log' = log \/ refs' = refs
  <1> SUFFICES ASSUME [Next]_vars PROVE log' = log \/ refs' = refs
    OBVIOUS
  <1>1. CASE Open \/ Age \/ UNCHANGED vars
    BY <1>1 DEF Open, Age, vars
  <1>2. ASSUME NEW c \in Clients, Start(c) \/ Crash(c) PROVE log' = log
    BY <1>2 DEF Start, PutStart, RemoveStart, CompactStart, Crash
  <1>3. ASSUME NEW c \in Clients, Step(c) PROVE log' = log \/ refs' = refs
    <2>1. CASE PutPush(c) \/ PutLoad(c) \/ RemoveLoad(c) \/ CompactRewrite(c) \/ CompactLoad(c)
      BY <2>1 DEF PutPush, PutLoad, RemoveLoad, CompactRewrite, CompactLoad
    <2>2. CASE \/ CompactReclaim(c) \/ RemovalStops(c) \/ CompactRecreate(c) \/ CompactDelete(c)
               \/ SweepLoad(c) \/ SweepList(c) \/ SweepDelete(c) \/ CasRejected(c)
      BY <2>2 DEF CompactReclaim, RemovalStops, CompactRecreate, CompactDelete,
                  SweepLoad, SweepList, SweepDelete, CasRejected
    <2>3. CASE PutCas(c) \/ RemoveCas(c) \/ CompactCas(c) \/ CasAnswerLost(c)
      BY <2>3 DEF PutCas, RemoveCas, CompactCas, CasAnswerLost
    <2> QED BY <1>3, <2>1, <2>2, <2>3 DEF Step
  <1> QED BY <1>1, <1>2, <1>3 DEF Next

(* Nothing the log names and the primary cannot serve comes back: without  *)
(* compaction it can serve everything.                                     *)
LEMMA NothingComesBack ==
  ASSUME StoreInv, Solo => FreshPush, [Next]_vars,
         NEW r \in ChunkRefs(log.st.ns), HasChunk(r)'
  PROVE  HasChunk(r)
  <1>1. CASE WritersInv
    BY <1>1 DEF WritersInv, NoDangling
  <1>2. CASE SoloInv /\ log' = log
    BY <1>2, SoloNothingBack DEF SoloInv
  <1>3. CASE refs' = refs
    BY <1>3 DEF HasChunk
  <1> QED BY <1>1, <1>2, <1>3, CommitsKeepRefs DEF StoreInv

(* The steps of a mirror, or of the store it mirrors, keep what is known   *)
(* of the store.                                                           *)
LEMMA MirrorKeepsStore ==
  ASSUME StoreInv, AccountInv, Solo => FreshPush, [MirrorNext]_<<vars, mvars>>
  PROVE  StoreInv' /\ AccountInv' /\ (Solo => FreshPush')
  <1>1. CASE MirrorStart
    <2>1. repo' = Opened /\ UNCHANGED <<log, refs, pc, job, seen, ops>>
      BY <1>1 DEF MirrorStart
    <2>2. StoreInv'
      BY <2>1, OpeningKeepsWritersInv, OpeningKeepsSoloInv DEF StoreInv
    <2>3. AccountInv' /\ (Solo => FreshPush')
      BY <2>1 DEF AccountInv, FreshPush, Cited, Drawn, HasRecord, OwnSegment, Recorded, Filled, Putting
    <2> QED BY <2>2, <2>3
  <1>2. CASE [Next]_vars
    BY <1>2, WritersStep, SoloStep, AccountStep, FreshPushStep DEF StoreInv
  <1>3. MirrorStart \/ [Next]_vars
    BY DEF MirrorNext, MirrorVolume, MirrorIndex, MirrorStop, Meanwhile
  <1> QED BY <1>1, <1>2, <1>3

(* Pushing a volume copies what the primary can serve of it.               *)
LEMMA VolumeCopied ==
  ASSUME MirrorTypes, MirrorVolume, NEW r, r.vol = at, HasChunk(r)
  PROVE  Copied(r)'
  <1>1. PICK s \in refs[at] : s.seg = r.seg /\ r.id \in s.ids
    BY DEF HasChunk
  <1>2. s.ids # {} /\ at \in Volumes
    BY <1>1 DEF MirrorVolume, up
  <1> DEFINE t == [seg |-> s.seg, ids |-> s.ids]
  <1>3. t \in Copies(at)
    BY <1>2 DEF Copies
  <1>4. t.seg = s.seg /\ t.ids = s.ids
    OBVIOUS
  <1> HIDE DEF t
  <1>5. t \in copy'[at]
    BY <1>2, <1>3 DEF MirrorVolume, MirrorTypes, MirrorTypeOK
  <1> QED BY <1>1, <1>4, <1>5 DEF Copied

(* CopiedBehind is kept: a volume is copied when the mirror passes it, and *)
(* what a commit takes out of the log no longer counts.                    *)
LEMMA CopiedBehindStep == ServesInv /\ [MirrorNext]_<<vars, mvars>> => CopiedBehind'
  <1> SUFFICES ASSUME ServesInv, [MirrorNext]_<<vars, mvars>> PROVE CopiedBehind'
    OBVIOUS
  <1>1. /\ at \in 0 .. IndexTurn /\ NumVolumes \in Nat
        /\ \A r \in ChunkRefs(log.st.ns) : r.vol \in Volumes
        /\ named \subseteq ChunkRefs(log.st.ns)
    BY RefsType, VolumesAssumption
       DEF ServesInv, MirrorTypes, MirrorTypeOK, TypeInv, TypeOK, Log, State, ChunkRef,
           CopiedBehind
  <1>2. \A r \in ChunkRefs(log.st.ns) : Copied(r) => Copied(r)'
    <2>1. \A v \in Volumes : copy[v] \subseteq copy'[v]
      BY CopyGrows DEF ServesInv
    <2> QED BY <1>1, <2>1 DEF Copied
  <1>3. CASE MirrorStart
    <2>1. named' = ChunkRefs(log.st.ns) /\ log' = log /\ at' = 1
      BY <1>3 DEF MirrorStart
    <2>2. \A r \in ChunkRefs(log.st.ns) : ~(r.vol < 1)
      BY <1>1 DEF Volumes
    <2> QED BY <2>1, <2>2 DEF CopiedBehind
  <1>4. CASE MirrorVolume
    <2>1. /\ at' = at + 1 /\ log' = log /\ refs' = refs /\ named' = named
          /\ at # 0 /\ at \in Nat
      BY <1>1, <1>4 DEF MirrorVolume, vars, up, Volumes
    <2>2. ASSUME NEW r \in named, r.vol < at + 1, HasChunk(r)
          PROVE  Copied(r)'
      <3>1. CASE r.vol = at
        BY <1>4, <2>2, <3>1, VolumeCopied DEF ServesInv
      <3>2. CASE r.vol # at
        <4>1. r.vol < at
          BY <1>1, <2>1, <2>2, <3>2 DEF Volumes
        <4> QED BY <1>1, <1>2, <2>1, <2>2, <4>1 DEF ServesInv, CopiedBehind
      <3> QED BY <3>1, <3>2
    <2>3. \A r : HasChunk(r)' => HasChunk(r)
      BY <2>1 DEF HasChunk
    <2> QED BY <1>1, <2>1, <2>2, <2>3 DEF CopiedBehind
  <1>5. CASE MirrorIndex \/ MirrorStop
    BY <1>5 DEF MirrorIndex, MirrorStop, CopiedBehind
  <1>6. CASE Meanwhile \/ UNCHANGED <<vars, mvars>>
    <2>1. /\ [Next]_vars /\ at' = at
          /\ named' \subseteq named /\ named' \subseteq ChunkRefs(log'.st.ns)
      BY <1>1, <1>6 DEF Meanwhile, vars, mvars
    <2>2. \A r \in named' : HasChunk(r)' => HasChunk(r)
      BY <1>1, <2>1, NothingComesBack DEF ServesInv
    <2> QED BY <1>1, <1>2, <2>1, <2>2 DEF ServesInv, CopiedBehind
  <1> QED BY <1>3, <1>4, <1>5, <1>6 DEF MirrorNext

(* A new store that was never mirrored.                                    *)
LEMMA ServesInit == (WritersOnly \/ Solo) /\ MirrorInit => ServesInv
  <1> SUFFICES ASSUME WritersOnly \/ Solo, MirrorInit PROVE ServesInv
    OBVIOUS
  <1>1. Init /\ at = 0 /\ named = {}
    BY DEF MirrorInit
  <1>2. SnapshotInv
    <2>1. log = EmptyLog /\ log.tip = 0 /\ \A c \in Clients : seen[c] = EmptyLog
      BY <1>1 DEF Init, EmptyLog
    <2> QED BY <1>1, <2>1, InitTypes DEF SnapshotInv, SnapshotFresh
  <1>3. StoreInv
    BY <1>1, <1>2, WritersInit, SoloInit DEF StoreInv
  <1>4. FreshPush
    BY <1>1 DEF Init, FreshPush
  <1> QED BY <1>1, <1>3, <1>4, AccountInit, MirrorTypesInit DEF ServesInv, CopiedBehind

(* When no client compacts, or when there is one client: of whatever the   *)
(* log names from the beginning of a mirror to its end, the target has     *)
(* what the primary can serve, whatever segments come and go meanwhile,    *)
(* whatever is committed, compacted or left by a removal half way.         *)
THEOREM MirrorsServe ==
  ASSUME WritersOnly \/ Solo
  PROVE  MirrorSpec => MirrorServes
  <1>1. ServesInv /\ [MirrorNext]_<<vars, mvars>> => ServesInv'
    BY MirrorTypesStep, MirrorKeepsStore, CopiedBehindStep DEF ServesInv
  <1>2. ServesInv /\ MirrorIndex => \A r \in named : HasChunk(r)' => Copied(r)'
    <2> SUFFICES ASSUME ServesInv, MirrorIndex, NEW r \in named, HasChunk(r)'
                 PROVE  Copied(r)'
      OBVIOUS
    <2>1. copy' = copy /\ refs' = refs /\ at = IndexTurn /\ NumVolumes \in Nat \ {0}
      BY VolumesAssumption DEF MirrorIndex, vars
    <2>2. r \in ChunkRefs(log.st.ns) /\ HasChunk(r)
      BY <2>1 DEF HasChunk, ServesInv, CopiedBehind
    <2>3. r.vol \in Volumes
      BY <2>2, RefsType DEF ServesInv, MirrorTypes, TypeInv, TypeOK, Log, State, ChunkRef
    <2>4. r.vol < at /\ at # 0
      BY <2>1, <2>3 DEF Volumes, IndexTurn
    <2>5. Copied(r)
      BY <2>2, <2>4 DEF ServesInv, CopiedBehind
    <2> QED BY <2>1, <2>5 DEF Copied
  <1> QED BY <1>1, <1>2, ServesInit, PTL DEF MirrorSpec, MirrorServes

=============================================================================
