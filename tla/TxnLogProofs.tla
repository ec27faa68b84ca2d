----------------------------- MODULE TxnLogProofs -----------------------------
(***************************************************************************)
(* Proofs about TxnLog: whatever chain of puts, removals, checkpoints and  *)
(* compactions the commits make, of any length and with any interval.      *)
(***************************************************************************)
EXTENDS TxnLog, StateProofs

-----------------------------------------------------------------------------
(* What the fold of load_full_state computes.                              *)

(* g[1 .. k] is the state after the first k transactions of txns.          *)
IsReplay(g, start, txns, k) ==
  g = [s \in SUBSET (1 .. k) |->
         IF s = {} THEN start ELSE apply_txn(g[s \ {Max(s)}], txns[Max(s)])]

(* The fold, for a list of transactions.                                   *)
Replayed(start, txns) == FoldLeft(apply_txn, start, txns)

(* One more transaction can always be replayed.                            *)
LEMMA ReplayGrows ==
  ASSUME NEW start, NEW txns, NEW k \in Nat, NEW g, IsReplay(g, start, txns, k)
  PROVE  \E h : IsReplay(h, start, txns, k + 1)
  <1> DEFINE h == [s \in SUBSET (1 .. k + 1) |->
                     IF k + 1 \in s THEN apply_txn(g[s \ {k + 1}], txns[k + 1]) ELSE g[s]]
  <1>1. \A s \in SUBSET (1 .. k) :
          g[s] = IF s = {} THEN start ELSE apply_txn(g[s \ {Max(s)}], txns[Max(s)])
    BY DEF IsReplay
  <1>2. \A s \in SUBSET (1 .. k + 1) : k + 1 \notin s => s \in SUBSET (1 .. k)
    OBVIOUS
  <1>3. ASSUME NEW s \in SUBSET (1 .. k + 1)
        PROVE  h[s] = IF s = {} THEN start ELSE apply_txn(h[s \ {Max(s)}], txns[Max(s)])
    <2>1. CASE k + 1 \in s
      <3>1. Max(s) = k + 1
        <4>1. s \in SUBSET Nat /\ \A m \in s : m <= k + 1
          OBVIOUS
        <4> QED BY <2>1, <4>1, MaxIs
      <3>2. h[s \ {k + 1}] = g[s \ {k + 1}]
        OBVIOUS
      <3> QED BY <2>1, <3>1, <3>2
    <2>2. CASE k + 1 \notin s
      <3>1. h[s] = g[s] /\ h[s \ {Max(s)}] = g[s \ {Max(s)}]
        BY <2>2
      <3> QED BY <1>1, <1>2, <2>2, <3>1
    <2> QED BY <2>1, <2>2
  <1> HIDE DEF h
  <1>4. h = [s \in SUBSET (1 .. k + 1) |->
               IF s = {} THEN start ELSE apply_txn(h[s \ {Max(s)}], txns[Max(s)])]
    <2>1. h = [s \in SUBSET (1 .. k + 1) |-> h[s]]
      BY DEF h
    <2> QED BY <1>3, <2>1
  <1> QED BY <1>4 DEF IsReplay

(* The recursive function that defines the fold exists.                    *)
LEMMA ReplayExists ==
  ASSUME NEW start, NEW txns
  PROVE  \A k \in Nat : \E g : IsReplay(g, start, txns, k)
  <1> DEFINE Fails == {k \in Nat : ~\E g : IsReplay(g, start, txns, k)}
  <1> SUFFICES ASSUME Fails # {} PROVE FALSE
    OBVIOUS
  <1>1. PICK k \in Fails : \A m \in Fails : k <= m
    BY NatLeast
  <1>2. CASE k = 0
    <2> DEFINE g == [s \in SUBSET (1 .. 0) |-> start]
    <2>1. \A s \in SUBSET (1 .. 0) : s = {}
      OBVIOUS
    <2>2. IsReplay(g, start, txns, 0)
      BY <2>1 DEF IsReplay
    <2> QED BY <1>2, <2>2
  <1>3. CASE k # 0
    <2>1. k - 1 \in Nat /\ k - 1 \notin Fails /\ (k - 1) + 1 = k
      BY <1>1, <1>3
    <2> HIDE DEF Fails
    <2>2. \E g : IsReplay(g, start, txns, k - 1)
      BY <2>1 DEF Fails
    <2>3. \E g : IsReplay(g, start, txns, k)
      BY <2>1, <2>2, ReplayGrows
    <2> QED BY <2>3 DEF Fails
  <1> QED BY <1>2, <1>3

(* The fold is the last of any list of states that starts as it does and   *)
(* takes each transaction in turn.                                         *)
LEMMA FoldReplays ==
  ASSUME NEW start, NEW txns, NEW k \in Nat, DOMAIN txns = 1 .. k, NEW S,
         S[0] = start, \A i \in 1 .. k : S[i] = apply_txn(S[i - 1], txns[i])
  PROVE  Replayed(start, txns) = S[k]
  <1> DEFINE g == CHOOSE g : IsReplay(g, start, txns, k)
  <1>1. Replayed(start, txns) = g[1 .. k]
    BY DEF Replayed, FoldLeft, MapThenFoldSet, IsReplay
  <1>2. IsReplay(g, start, txns, k)
    BY ReplayExists
  <1> HIDE DEF g
  <1>3. \A s \in SUBSET (1 .. k) :
          g[s] = IF s = {} THEN start ELSE apply_txn(g[s \ {Max(s)}], txns[Max(s)])
    BY <1>2 DEF IsReplay
  <1> DEFINE Fails == {i \in 0 .. k : g[1 .. i] # S[i]}
  <1>4. Fails = {}
    <2> SUFFICES ASSUME Fails # {} PROVE FALSE
      OBVIOUS
    <2>0. Fails \in SUBSET Nat
      OBVIOUS
    <2>1. PICK i \in Fails : \A m \in Fails : i <= m
      BY <2>0, NatLeast
    <2>2. CASE i = 0
      <3>1. 1 .. 0 = {}
        OBVIOUS
      <3> QED BY <1>3, <2>1, <2>2, <3>1
    <2>3. CASE i # 0
      <3>1. i - 1 \in 0 .. k /\ i - 1 \notin Fails /\ i \in 1 .. k
        BY <2>1, <2>3
      <3>2. g[1 .. i - 1] = S[i - 1]
        <4>1. \A m \in 0 .. k : m \notin Fails => g[1 .. m] = S[m]
          OBVIOUS
        <4> HIDE DEF Fails
        <4> QED BY <3>1, <4>1
      <3>3. Max(1 .. i) = i
        <4>1. 1 .. i \in SUBSET Nat /\ i \in 1 .. i /\ \A m \in 1 .. i : m <= i
          BY <3>1
        <4> QED BY <4>1, MaxIs
      <3>4. (1 .. i) \ {i} = 1 .. i - 1 /\ 1 .. i # {} /\ 1 .. i \in SUBSET (1 .. k)
        <4>1. i \in Nat /\ i >= 1 /\ i <= k
          BY <3>1
        <4>2. \A x : x \in (1 .. i) \ {i} <=> x \in 1 .. i - 1
          BY <4>1
        <4>3. \A x : x \in 1 .. i => x \in 1 .. k
          BY <4>1
        <4> QED BY <3>1, <4>1, <4>2, <4>3
      <3>5. g[1 .. i] = apply_txn(g[1 .. i - 1], txns[i])
        BY <1>3, <3>3, <3>4
      <3> QED BY <2>1, <3>1, <3>2, <3>5
    <2> QED BY <2>2, <2>3
  <1> QED BY <1>1, <1>4

-----------------------------------------------------------------------------
(* The inductive invariant: an entry of the chain is either the checkpoint *)
(* of what has been made, or takes what was made before to what has been   *)
(* made.                                                                   *)

Checkpoint == [kind : {"checkpoint"}, namespace : Namespace, seg_index : SUBSET SegRec]

MadeUpTo(n) == IF n = 0 THEN EmptyState ELSE made[n]

EntryMakes(n) ==
  IF chain[n].kind = "checkpoint" THEN chain[n] = CheckpointOf(made[n])
                                  ELSE made[n] = apply_txn(MadeUpTo(n - 1), chain[n])

LogInv ==
  /\ chain \in Seq(Txn \cup Checkpoint)
  /\ made \in Seq(State)
  /\ Len(made) = Len(chain)
  /\ \A n \in 1 .. tip : EntryMakes(n)

(* The newest checkpoint is one, unless there is none, and none is newer.  *)
LEMMA NewestIsNewest ==
  ASSUME NEW n \in Nat
  PROVE  /\ NewestCheckpoint(n) \in 0 .. n
         /\ NewestCheckpoint(n) # 0 => chain[NewestCheckpoint(n)].kind = "checkpoint"
         /\ \A i \in NewestCheckpoint(n) + 1 .. n : chain[i].kind # "checkpoint"
  <1> DEFINE T == {0} \cup {i \in 1 .. n : chain[i].kind = "checkpoint"}
  <1>1. T \in SUBSET Nat /\ T # {} /\ \A m \in T : m <= n
    OBVIOUS
  <1>2. Max(T) \in T /\ \A m \in T : Max(T) >= m
    BY <1>1, MaxOfBounded
  <1>3. \A i \in Max(T) + 1 .. n : i \notin T
    BY <1>1, <1>2
  <1>4. \A i \in Max(T) + 1 .. n : i \in 1 .. n
    BY <1>1, <1>2
  <1> QED BY <1>1, <1>2, <1>3, <1>4 DEF NewestCheckpoint

(* The tail after the newest checkpoint, entry by entry.                   *)
LEMMA TailEntries ==
  ASSUME LogInv, NEW n \in 0 .. tip
  PROVE  LET first == NewestCheckpoint(n)
         IN  /\ n - first \in Nat
             /\ Len(LogTail(n)) = n - first
             /\ DOMAIN LogTail(n) = 1 .. n - first
             /\ \A i \in 1 .. n - first : LogTail(n)[i] = chain[first + i]
  <1> DEFINE first == NewestCheckpoint(n)
  <1>1. n \in Nat /\ n <= Len(chain) /\ Len(chain) \in Nat
    BY DEF LogInv, tip
  <1>2. first \in 0 .. n
    BY <1>1, NewestIsNewest
  <1> HIDE DEF first
  <1>3. chain \in Seq(Txn \cup Checkpoint)
    BY DEF LogInv
  <1>4. first + 1 \in 1 .. Len(chain) + 1 /\ n - first \in Nat
    BY <1>1, <1>2
  <1>5. /\ Len(SubSeq(chain, first + 1, n)) = n - first
        /\ DOMAIN SubSeq(chain, first + 1, n) = 1 .. n - first
        /\ \A i \in 1 .. n - first : SubSeq(chain, first + 1, n)[i] = chain[first + i]
    BY <1>1, <1>2, <1>3, <1>4
  <1> QED BY <1>4, <1>5 DEF first, LogTail

(* A reader at any commit gets what has been made up to it.                *)
LEMMA LoadsWhatWasMade ==
  ASSUME LogInv, NEW n \in 0 .. tip
  PROVE  load_full_state(n) = MadeUpTo(n)
  <1> DEFINE first == NewestCheckpoint(n)
             start == IF first = 0 THEN EmptyState
                      ELSE [ns |-> chain[first].namespace, idx |-> chain[first].seg_index]
             S == [i \in 0 .. n - first |-> MadeUpTo(first + i)]
  <1>1. n \in Nat /\ n <= tip /\ tip \in Nat
    BY DEF LogInv, tip
  <1>2. /\ first \in 0 .. n
        /\ first # 0 => chain[first].kind = "checkpoint"
        /\ \A i \in first + 1 .. n : chain[i].kind # "checkpoint"
    BY <1>1, NewestIsNewest
  <1>3. /\ n - first \in Nat
        /\ DOMAIN LogTail(n) = 1 .. n - first
        /\ \A i \in 1 .. n - first : LogTail(n)[i] = chain[first + i]
    BY TailEntries
  <1> HIDE DEF first
  <1>4. start = MadeUpTo(first)
    <2>1. CASE first = 0
      BY <2>1 DEF MadeUpTo
    <2>2. CASE first # 0
      <3>1. first \in 1 .. tip /\ chain[first] = CheckpointOf(made[first])
        BY <1>1, <1>2, <2>2 DEF LogInv, EntryMakes
      <3>2. made[first] \in State
        BY <3>1 DEF LogInv, tip
      <3> QED BY <2>2, <3>1, <3>2 DEF MadeUpTo, CheckpointOf, State
    <2> QED BY <2>1, <2>2
  <1>5. ASSUME NEW i \in 1 .. n - first
        PROVE  S[i] = apply_txn(S[i - 1], LogTail(n)[i])
    <2>1. /\ i - 1 \in 0 .. n - first /\ i \in 0 .. n - first
          /\ first + i \in first + 1 .. n /\ first + i \in 1 .. tip
          /\ (first + i) - 1 = first + (i - 1) /\ first + i # 0
      BY <1>1, <1>2, <1>3
    <2>2. EntryMakes(first + i) /\ chain[first + i].kind # "checkpoint"
      BY <1>2, <2>1 DEF LogInv
    <2>3. made[first + i] = apply_txn(MadeUpTo(first + (i - 1)), chain[first + i])
      BY <2>1, <2>2 DEF EntryMakes
    <2> QED BY <1>3, <2>1, <2>3 DEF MadeUpTo
  <1>6. S[0] = start /\ S[n - first] = MadeUpTo(n)
    <2>1. 0 \in 0 .. n - first /\ n - first \in 0 .. n - first
          /\ first + 0 = first /\ first + (n - first) = n
      BY <1>1, <1>2, <1>3
    <2> QED BY <1>4, <2>1
  <1>7. load_full_state(n) = Replayed(start, LogTail(n))
    BY DEF load_full_state, Replayed, first
  <1> HIDE DEF start, S
  <1>8. Replayed(start, LogTail(n)) = S[n - first]
    BY <1>3, <1>5, <1>6, FoldReplays
  <1> QED BY <1>6, <1>7, <1>8

-----------------------------------------------------------------------------
(* The commits.                                                            *)

(* What has been made is a state.                                          *)
LEMMA LatestType ==
  ASSUME LogInv
  PROVE  Latest = MadeUpTo(tip) /\ Latest \in State
  <1>1. EmptyState \in State
    BY DEF EmptyState, State, Namespace
  <1>2. tip # 0 => made[tip] \in State
    BY DEF LogInv, tip
  <1> QED BY <1>1, <1>2 DEF Latest, MadeUpTo

(* An entry that makes what its transaction makes keeps the invariant.     *)
LEMMA AppendKeeps ==
  ASSUME LogInv, NEW st \in State, NEW entry \in Txn \cup Checkpoint,
         chain' = Append(chain, entry), made' = Append(made, st),
         IF entry.kind = "checkpoint" THEN entry = CheckpointOf(st)
                                      ELSE st = apply_txn(Latest, entry)
  PROVE  LogInv'
  <1>1. /\ chain \in Seq(Txn \cup Checkpoint) /\ made \in Seq(State)
        /\ Len(made) = Len(chain) /\ tip = Len(chain) /\ tip \in Nat
    BY DEF LogInv, tip
  <1>2. /\ chain' \in Seq(Txn \cup Checkpoint) /\ made' \in Seq(State)
        /\ Len(chain') = tip + 1 /\ Len(made') = tip + 1 /\ tip' = tip + 1
    BY <1>1 DEF tip
  <1>3. /\ chain'[tip + 1] = entry /\ made'[tip + 1] = st
        /\ \A n \in 1 .. tip : chain'[n] = chain[n] /\ made'[n] = made[n]
    BY <1>1
  <1>4. ASSUME NEW n \in 1 .. tip + 1 PROVE EntryMakes(n)'
    <2>1. CASE n = tip + 1
      <3>1. MadeUpTo(n - 1)' = Latest
        BY <1>1, <1>3, <2>1 DEF MadeUpTo, Latest
      <3> QED BY <1>3, <2>1, <3>1 DEF EntryMakes, CheckpointOf
    <2>2. CASE n # tip + 1
      <3>1. n \in 1 .. tip /\ (n - 1 = 0 \/ n - 1 \in 1 .. tip)
        BY <1>1, <2>2
      <3>2. MadeUpTo(n - 1)' = MadeUpTo(n - 1)
        BY <1>3, <3>1 DEF MadeUpTo
      <3>3. EntryMakes(n)
        BY <3>1 DEF LogInv
      <3> QED BY <1>3, <3>1, <3>2, <3>3 DEF EntryMakes, CheckpointOf
    <2> QED BY <2>1, <2>2
  <1> QED BY <1>2, <1>4 DEF LogInv

(* A delta is committed as it is or as the checkpoint of what it makes.    *)
LEMMA DeltaKeeps ==
  ASSUME LogInv, NEW txn \in Txn, CommitDelta(txn)
  PROVE  LogInv'
  <1> DEFINE st == apply_txn(Latest, txn)
  <1>1. tip \in 0 .. tip
    BY DEF LogInv, tip
  <1>2. load_full_state(tip) = Latest
    BY <1>1, LatestType, LoadsWhatWasMade
  <1>3. st \in State
    BY LatestType, ApplyType
  <1>4. CheckpointOf(st) \in Checkpoint /\ CheckpointOf(st).kind = "checkpoint"
    BY <1>3 DEF CheckpointOf, Checkpoint, State
  <1>5. txn.kind # "checkpoint"
    BY DEF Txn
  <1>6. /\ made' = Append(made, st)
        /\ chain' = Append(chain, CheckpointOf(st)) \/ chain' = Append(chain, txn)
    BY <1>2 DEF CommitDelta
  <1>7. CASE chain' = Append(chain, CheckpointOf(st))
    <2> HIDE DEF st
    <2> QED BY <1>3, <1>4, <1>6, <1>7, AppendKeeps
  <1>8. CASE chain' = Append(chain, txn)
    BY <1>3, <1>5, <1>6, <1>8, AppendKeeps
  <1> QED BY <1>6, <1>7, <1>8

(* A compaction is committed as it is.                                     *)
LEMMA CompactionKeeps ==
  ASSUME LogInv, NEW txn \in Txn, CommitCompaction(txn)
  PROVE  LogInv'
  <1>1. apply_txn(Latest, txn) \in State
    BY LatestType, ApplyType
  <1>2. txn.kind # "checkpoint"
    BY DEF Txn
  <1> QED BY <1>1, <1>2, AppendKeeps DEF CommitCompaction

(* What the commits append is a transaction.                               *)
LEMMA CommitsAppend ==
  ASSUME LogInv, Next
  PROVE  \/ \E txn \in Txn : CommitDelta(txn)
         \/ \E txn \in Txn : txn.kind = "compact" /\ CommitCompaction(txn)
  <1> DEFINE st == load_full_state(tip)
  <1>1. tip \in 0 .. tip /\ tip \in Nat
    BY DEF LogInv, tip
  <1>2. st = Latest
    BY <1>1, LatestType, LoadsWhatWasMade
  <1>3. st \in State
    BY <1>2, LatestType
  <1> HIDE DEF st
  <1>4. st.ns \in Namespace /\ st.idx \in SUBSET SegRec
    BY <1>3 DEF State
  <1>5. CASE CommitPut
    <2> DEFINE seg == [by |-> "put", n |-> tip]
    <2>1. PICK name \in Names, v \in Volumes \ Spare, reused \in SUBSET Known(st.ns),
               new \in SUBSET (Chunks \ Ids(ChunkRefs(st.ns))) :
            CommitDelta(DeltaPut(name,
                                 reused \cup {[id |-> id, vol |-> v, seg |-> seg] : id \in new},
                                 IF new = {} THEN {} ELSE Seal(v, seg, new)))
      BY <1>5 DEF CommitPut, st
    <2>2. seg \in SegId
      BY <1>1 DEF SegId, PutSegId
    <2>3. reused \cup {[id |-> id, vol |-> v, seg |-> seg] : id \in new} \in Manifest
      <3>1. reused \subseteq ChunkRef
        BY <1>4, RefsType
      <3>2. \A id \in new : [id |-> id, vol |-> v, seg |-> seg] \in ChunkRef
        BY <2>2 DEF ChunkRef
      <3> QED BY <3>1, <3>2 DEF Manifest
    <2>4. (IF new = {} THEN {} ELSE Seal(v, seg, new)) \in SUBSET SegRec
      BY <2>2, SealType
    <2> HIDE DEF seg
    <2> QED BY <2>1, <2>3, <2>4 DEF DeltaPut, Txn
  <1>6. CASE CommitRemove
    BY <1>6 DEF CommitRemove, DeltaRemove, Txn, Stored
  <1>7. CASE CommitCompact
    <2>1. PICK v \in {r.vol : r \in st.idx}, dest \in Volumes :
            LET live == live_ids(st.ns, v)
                seg  == compact_segment_id(v, live)
            IN CommitCompaction(CompactTxn(v, IF live = {} THEN {} ELSE Seal(dest, seg, live),
                                           Repointed(st.ns, v, dest, seg)))
      BY <1>7 DEF CommitCompact, st
    <2> DEFINE live == live_ids(st.ns, v)
               seg  == compact_segment_id(v, live)
               txn  == CompactTxn(v, IF live = {} THEN {} ELSE Seal(dest, seg, live),
                                  Repointed(st.ns, v, dest, seg))
    <2>2. v \in Volumes
      BY <1>4 DEF SegRec
    <2>3. live \in SUBSET Chunks
      BY <1>4, RefsType
    <2> HIDE DEF live
    <2>4. seg \in SegId
      BY <2>2, <2>3 DEF compact_segment_id, SegId, CompactSegId
    <2> HIDE DEF seg
    <2>5. Repointed(st.ns, v, dest, seg) \in Namespace
      BY <1>4, <2>4, RepointedType
    <2>6. (IF live = {} THEN {} ELSE Seal(dest, seg, live)) \in SUBSET SegRec
      BY <2>3, <2>4, SealType
    <2>7. txn \in Txn /\ txn.kind = "compact"
      BY <2>2, <2>5, <2>6 DEF CompactTxn, Txn
    <2>8. CommitCompaction(txn)
      BY <2>1 DEF live, seg
    <2> HIDE DEF txn
    <2> QED BY <2>7, <2>8
  <1> QED BY <1>5, <1>6, <1>7 DEF Next

(* LogInv is inductive.                                                    *)
LEMMA LogStep == LogInv /\ [Next]_<<chain, made>> => LogInv'
  <1> SUFFICES ASSUME LogInv, [Next]_<<chain, made>> PROVE LogInv'
    OBVIOUS
  <1>1. CASE Next
    BY <1>1, CommitsAppend, DeltaKeeps, CompactionKeeps
  <1>2. CASE UNCHANGED <<chain, made>>
    BY <1>2 DEF LogInv, tip, EntryMakes, MadeUpTo
  <1> QED BY <1>1, <1>2

(* LogInv holds of an empty chain.                                         *)
LEMMA LogInit == Init => LogInv
  BY DEF Init, LogInv, tip

(* Whatever mixture of deltas, checkpoints and compactions the chain is,   *)
(* and however long, a reader at any commit gets the state that every      *)
(* transaction up to it has made.                                          *)
THEOREM CheckpointsAreInvisible == Spec => []ReadersSeeWhatWasMade
  <1>1. LogInv => ReadersSeeWhatWasMade
    <2> SUFFICES ASSUME LogInv, NEW n \in 1 .. tip PROVE load_full_state(n) = made[n]
      BY DEF ReadersSeeWhatWasMade
    <2>1. n \in 0 .. tip /\ n # 0
      BY DEF LogInv, tip
    <2> QED BY <2>1, LoadsWhatWasMade DEF MadeUpTo
  <1> QED BY <1>1, LogInit, LogStep, PTL DEF Spec

-----------------------------------------------------------------------------
(* The length of the tail.                                                 *)

(* The commits that are an interval or more after the newest checkpoint.   *)
Late == {i \in 1 .. tip : i >= NewestCheckpoint(tip) + checkpoint_interval}

TailInv == LogInv /\ \A i \in Late : chain[i].kind = "compact"

(* ExcessIsCompactions, by the place in the chain instead of in the tail.  *)
LEMMA ExcessIsLate ==
  ASSUME LogInv
  PROVE  ExcessIsCompactions <=> \A i \in Late : chain[i].kind = "compact"
  <1> DEFINE first == NewestCheckpoint(tip)
  <1>1. tip \in Nat /\ tip \in 0 .. tip /\ checkpoint_interval \in Nat \ {0}
    BY TxnLogAssumption DEF LogInv, tip
  <1>2. /\ first \in 0 .. tip
        /\ since_checkpoint(tip) = tip - first
        /\ \A i \in 1 .. tip - first : LogTail(tip)[i] = chain[first + i]
    BY <1>1, NewestIsNewest, TailEntries DEF since_checkpoint
  <1> HIDE DEF first
  <1>3. ASSUME ExcessIsCompactions, NEW i \in Late PROVE chain[i].kind = "compact"
    <2>1. /\ i - first \in checkpoint_interval .. tip - first
          /\ i - first \in 1 .. tip - first /\ first + (i - first) = i
      BY <1>1, <1>2, <1>3 DEF Late, first
    <2> QED BY <1>2, <1>3, <2>1 DEF ExcessIsCompactions
  <1>4. ASSUME \A i \in Late : chain[i].kind = "compact",
               NEW i \in checkpoint_interval .. tip - first
        PROVE  LogTail(tip)[i].kind = "compact"
    <2>1. i \in 1 .. tip - first /\ first + i \in Late
      BY <1>1, <1>2 DEF Late, first
    <2> QED BY <1>2, <1>4, <2>1
  <1> QED BY <1>2, <1>3, <1>4 DEF ExcessIsCompactions

(* An entry that is no checkpoint leaves the newest checkpoint where it is.*)
LEMMA NewestStays ==
  ASSUME LogInv, NEW entry, entry.kind # "checkpoint", chain' = Append(chain, entry)
  PROVE  NewestCheckpoint(tip)' = NewestCheckpoint(tip)
  <1> DEFINE T == {0} \cup {i \in 1 .. tip : chain[i].kind = "checkpoint"}
             U == {0} \cup {i \in 1 .. tip + 1 : chain'[i].kind = "checkpoint"}
  <1>1. chain \in Seq(Txn \cup Checkpoint) /\ tip \in Nat /\ tip = Len(chain)
    BY DEF LogInv, tip
  <1>2. /\ tip' = tip + 1 /\ chain'[tip + 1] = entry
        /\ \A n \in 1 .. tip : chain'[n] = chain[n]
    BY <1>1 DEF tip
  <1>3. T = U
    BY <1>1, <1>2
  <1>4. NewestCheckpoint(tip) = Max(T) /\ NewestCheckpoint(tip)' = Max(U)
    BY <1>2 DEF NewestCheckpoint
  <1> HIDE DEF T, U
  <1> QED BY <1>3, <1>4

(* A checkpoint is the newest once it is appended.                         *)
LEMMA NewestMoves ==
  ASSUME LogInv, NEW entry, entry.kind = "checkpoint", chain' = Append(chain, entry)
  PROVE  NewestCheckpoint(tip)' = tip + 1 /\ tip' = tip + 1
  <1> DEFINE U == {0} \cup {i \in 1 .. tip + 1 : chain'[i].kind = "checkpoint"}
  <1>1. chain \in Seq(Txn \cup Checkpoint) /\ tip \in Nat /\ tip = Len(chain)
    BY DEF LogInv, tip
  <1>2. tip' = tip + 1 /\ chain'[tip + 1] = entry
    BY <1>1 DEF tip
  <1>3. U \in SUBSET Nat /\ tip + 1 \in U /\ \A m \in U : m <= tip + 1
    BY <1>1, <1>2
  <1>4. Max(U) = tip + 1
    BY <1>3, MaxIs
  <1>5. NewestCheckpoint(tip)' = Max(U)
    BY <1>2 DEF NewestCheckpoint
  <1> QED BY <1>2, <1>4, <1>5

(* A commit that is neither a checkpoint nor late, or is a compaction.     *)
LEMMA TailGrows ==
  ASSUME TailInv, NEW entry, entry.kind # "checkpoint", chain' = Append(chain, entry),
         entry.kind = "compact" \/ tip + 1 < NewestCheckpoint(tip) + checkpoint_interval
  PROVE  \A i \in Late' : chain'[i].kind = "compact"
  <1>1. chain \in Seq(Txn \cup Checkpoint) /\ tip \in Nat /\ tip = Len(chain)
    BY DEF TailInv, LogInv, tip
  <1>2. /\ tip' = tip + 1 /\ chain'[tip + 1] = entry
        /\ \A n \in 1 .. tip : chain'[n] = chain[n]
    BY <1>1 DEF tip
  <1>3. NewestCheckpoint(tip)' = NewestCheckpoint(tip)
    BY NewestStays DEF TailInv
  <1>4. ASSUME NEW i \in Late' PROVE chain'[i].kind = "compact"
    <2>1. i \in 1 .. tip + 1 /\ i >= NewestCheckpoint(tip) + checkpoint_interval
      BY <1>2, <1>3 DEF Late
    <2>2. CASE i = tip + 1
      <3>1. NewestCheckpoint(tip) \in Nat /\ checkpoint_interval \in Nat
        BY <1>1, NewestIsNewest, TxnLogAssumption
      <3> QED BY <1>1, <1>2, <2>1, <2>2, <3>1
    <2>3. CASE i # tip + 1
      <3>1. i \in 1 .. tip
        BY <1>1, <2>1, <2>3
      <3> QED BY <1>2, <2>1, <3>1 DEF Late, TailInv
    <2> QED BY <2>2, <2>3
  <1> QED BY <1>4

(* TailInv is inductive.                                                   *)
LEMMA TailStep == TailInv /\ [Next]_<<chain, made>> => TailInv'
  <1> SUFFICES ASSUME TailInv, [Next]_<<chain, made>> PROVE TailInv'
    OBVIOUS
  <1>1. LogInv /\ LogInv'
    BY LogStep DEF TailInv
  <1>2. tip \in Nat /\ tip \in 0 .. tip /\ checkpoint_interval \in Nat \ {0}
    BY <1>1, TxnLogAssumption DEF LogInv, tip
  <1>3. NewestCheckpoint(tip) \in 0 .. tip
    BY <1>2, NewestIsNewest
  <1>4. since_checkpoint(tip) = tip - NewestCheckpoint(tip)
    BY <1>1, <1>2, TailEntries DEF since_checkpoint
  <1>5. ASSUME NEW txn \in Txn, CommitDelta(txn)
        PROVE  \A i \in Late' : chain'[i].kind = "compact"
    <2> DEFINE entry == CheckpointOf(apply_txn(load_full_state(tip), txn))
    <2>1. txn.kind # "checkpoint" /\ entry.kind = "checkpoint"
      BY DEF Txn, CheckpointOf
    <2>2. chain' = Append(chain, IF checkpoint_due THEN entry ELSE txn)
      BY <1>5 DEF CommitDelta
    <2> HIDE DEF entry
    <2>3. CASE checkpoint_due
      <3>1. NewestCheckpoint(tip)' = tip + 1 /\ tip' = tip + 1
        BY <1>1, <2>1, <2>2, <2>3, NewestMoves
      <3>2. Late' = {}
        BY <1>2, <3>1 DEF Late
      <3> QED BY <3>2
    <2>4. CASE ~checkpoint_due
      <3>1. tip + 1 < NewestCheckpoint(tip) + checkpoint_interval
        BY <1>2, <1>3, <1>4, <2>4 DEF checkpoint_due
      <3> QED BY <2>1, <2>2, <2>4, <3>1, TailGrows
    <2> QED BY <2>3, <2>4
  <1>6. ASSUME NEW txn \in Txn, txn.kind = "compact", CommitCompaction(txn)
        PROVE  \A i \in Late' : chain'[i].kind = "compact"
    BY <1>6, TailGrows DEF CommitCompaction
  <1>7. CASE Next
    BY <1>1, <1>5, <1>6, <1>7, CommitsAppend DEF TailInv
  <1>8. CASE UNCHANGED <<chain, made>>
    BY <1>1, <1>8 DEF TailInv, Late, tip, NewestCheckpoint
  <1> QED BY <1>7, <1>8

(* Whatever of a reader's tail exceeds the checkpoint interval less one is *)
(* compactions, for every interval and every chain.                        *)
THEOREM OnlyCompactionsExceed == Spec => []ExcessIsCompactions
  <1>1. Init => TailInv
    BY LogInit DEF Init, TailInv, Late, tip
  <1>2. TailInv => ExcessIsCompactions
    BY ExcessIsLate DEF TailInv
  <1> QED BY <1>1, <1>2, TailStep, PTL DEF Spec

=============================================================================
