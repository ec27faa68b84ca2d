------------------------------ MODULE StoreState ------------------------------
(***************************************************************************)
(* The store state a client materialises from the log, and the pure        *)
(* functions src/src/engine.rs computes on it: what is referenced and      *)
(* where, how many bytes each volume holds, which volume takes the next    *)
(* segment, what a transaction does to the state.                          *)
(*                                                                         *)
(* A chunk is its content address.  Encryption, hashing and compression    *)
(* are left out: a chunk has one id and one ciphertext length, which is    *)
(* what convergent encryption gives the engine.  A file's content is the   *)
(* set of its chunks; their order and repetition change nothing here.      *)
(***************************************************************************)
EXTENDS Integers, FiniteSets, FiniteSetsExt

CONSTANTS
  Names,         \* the file names in use: numbers, for the order of a BTreeMap
  Chunks,        \* the chunk ids
  Clen,          \* Clen[id]: the ciphertext bytes of a chunk
  NumVolumes,    \* the size of the fixed volume set
  Threshold,     \* Threshold[v]: the volume-full threshold of v, in bytes
  SpareMin,      \* SPARE_SLOT_MIN_VOLUMES
  DeadGate,      \* the dead-ratio gate of compaction, in per cent
  PressureGate,  \* the budget-pressure gate of compaction, in per cent
  NoChunk        \* a value that is no chunk reference

Volumes == 1 .. NumVolumes

NoVolume == 0

(* The last declared volume is reserved for compaction in a large fleet.   *)
Spare == IF NumVolumes >= SpareMin THEN {NumVolumes} ELSE {}

-----------------------------------------------------------------------------
(* Data.  A segment's name is random for a put (the n-th of the run) and   *)
(* derived from what it holds for a compaction.                            *)

PutSegId == [by : {"put"}, n : Nat]

CompactSegId == [by : {"compact"}, vol : Volumes, ids : SUBSET Chunks]

SegId == PutSegId \cup CompactSegId

ChunkRef == [id : Chunks, vol : Volumes, seg : SegId]

Manifest == SUBSET ChunkRef

(* What a name that is not in the namespace maps to.                       *)
NoFile == {NoChunk}

Namespace == [Names -> Manifest \cup {NoFile}]

BytesOf(ids) == MapThenSumSet(LAMBDA id : Clen[id], ids)

SegRec == [vol : Volumes, seg : SegId, bytes : {BytesOf(S) : S \in SUBSET Chunks}]

(* ns is the namespace, idx the segment-size index.                        *)
State == [ns : Namespace, idx : SUBSET SegRec]

EmptyState == [ns |-> [n \in Names |-> NoFile], idx |-> {}]

ASSUME NamesAssumption ==
  /\ Names \subseteq Nat
  /\ \A S \in (SUBSET Names) \ {{}} :
       (\E n \in S : \A m \in S : n <= m) /\ (\E n \in S : \A m \in S : n >= m)

ASSUME VolumesAssumption ==
  NumVolumes \in Nat \ {0} /\ SpareMin \in Nat /\ Threshold \in [Volumes -> Nat]

ASSUME ChunksAssumption == IsFiniteSet(Chunks) /\ Clen \in [Chunks -> Nat \ {0}]

ASSUME GatesAssumption == DeadGate \in Nat /\ PressureGate \in Nat

ASSUME NoChunkAssumption == NoChunk \notin ChunkRef

-----------------------------------------------------------------------------
(* What a namespace references.                                            *)

Stored(ns) == {n \in Names : ns[n] # NoFile}

ChunkRefs(ns) == UNION {ns[n] : n \in Stored(ns)}

Ids(rs) == {r.id : r \in rs}

Holders(ns, id) == {n \in Stored(ns) : id \in Ids(ns[n])}

(* Every (volume, segment) some manifest points at.                        *)
Referenced(ns) == {<<r.vol, r.seg>> : r \in ChunkRefs(ns)}

(* The placements a put deduplicates against: of several for a chunk, the  *)
(* last in name order, since the map is filled in that order.              *)
Known(ns) == {r \in ChunkRefs(ns) : r \in ns[Max(Holders(ns, r.id))]}

RefsOn(ns, v) == {r \in ChunkRefs(ns) : r.vol = v}

(* The chunks of volume v that some manifest still references.             *)
live_ids(ns, v) == Ids(RefsOn(ns, v))

-----------------------------------------------------------------------------
(* Byte accounting and the choice of a volume.                             *)

volume_used(v, idx) == MapThenSumSet(LAMBDA r : r.bytes, {r \in idx : r.vol = v})

(* Mutant: a chunk counts once for each file that holds it.                *)
live_bytes_PerFile(ns, v) ==
  MapThenSumSet(LAMBDA n : BytesOf(Ids({r \in ns[n] : r.vol = v})), Stored(ns))

(* Live bytes of v: each distinct chunk counts once, for the volume of the *)
(* first manifest, in name order, that holds it.                           *)
live_bytes(ns, v) ==
  BytesOf(Ids({r \in RefsOn(ns, v) : r \in ns[Min(Holders(ns, r.id))]}))

(* Mutant: what is alive is not subtracted.                                *)
dead_bytes_Total(st, v) == volume_used(v, st.idx)

dead_bytes(st, v) == Max({0, volume_used(v, st.idx) - live_bytes(st.ns, v)})

UnderPressure(st) ==
  \E v \in Volumes \ Spare :
    100 * volume_used(v, st.idx) >= PressureGate * Threshold[v]

Candidates(st) ==
  {v \in Volumes \ Spare : /\ volume_used(v, st.idx) > 0
                           /\ 100 * dead_bytes(st, v) > DeadGate * volume_used(v, st.idx)}

(* Mutant: the bytes about to be written are not counted.                  *)
Fits_Unprojected(v, bytes, idx) == volume_used(v, idx) <= Threshold[v]

Fits(v, bytes, idx) == volume_used(v, idx) + bytes <= Threshold[v]

(* The volume of S with the most headroom, the lowest on a tie; as a set,  *)
(* empty when S is.                                                        *)
Roomiest(S, idx) ==
  LET headroom(v) == Threshold[v] - volume_used(v, idx)
  IN  {v \in S : \A w \in S : \/ headroom(w) < headroom(v)
                              \/ headroom(w) = headroom(v) /\ v <= w}

(* Mutant: no volume fits, and the first index is returned all the same.   *)
select_volume_Default(bytes, idx) ==
  LET room == {v \in Volumes \ Spare : Fits(v, bytes, idx)}
  IN  IF room = {} THEN {NoVolume} ELSE Roomiest(room, idx)

(* The budget wall: the empty set is the refusal.                          *)
select_volume(bytes, idx) ==
  Roomiest({v \in Volumes \ Spare : Fits(v, bytes, idx)}, idx)

select_compact_dest(retiring, bytes, idx) ==
  LET room == {v \in Volumes \ {retiring} : Fits(v, bytes, idx)}
  IN  IF room \cap Spare # {} THEN room \cap Spare ELSE Roomiest(room, idx)

compact_segment_id(retiring, ids) == [by |-> "compact", vol |-> retiring, ids |-> ids]

-----------------------------------------------------------------------------
(* Transactions.                                                           *)

Seal(v, seg, ids) == {[vol |-> v, seg |-> seg, bytes |-> BytesOf(ids)]}

DeltaPut(name, manifest, seals) ==
  [kind |-> "put", name |-> name, manifest |-> manifest, seals |-> seals]

DeltaRemove(name) == [kind |-> "remove", name |-> name]

CompactTxn(retired, seals, repoint) ==
  [kind |-> "compact", retired |-> retired, seals |-> seals, repoint |-> repoint]

(* Mutant: the volume of a moved chunk changes, its segment does not.      *)
Repointed_KeepsSegment(ns, retired, dest, seg) ==
  [n \in Names |->
     IF n \in Stored(ns) /\ \E r \in ns[n] : r.vol = retired
     THEN {IF r.vol = retired THEN [r EXCEPT !.vol = dest] ELSE r : r \in ns[n]}
     ELSE NoFile]

(* The manifests a compaction replaces: every chunk on the retired volume  *)
(* is pointed at the rewritten segment.  A file it leaves alone is not     *)
(* listed.                                                                 *)
Repointed(ns, retired, dest, seg) ==
  [n \in Names |->
     IF n \in Stored(ns) /\ \E r \in ns[n] : r.vol = retired
     THEN {IF r.vol = retired THEN [id |-> r.id, vol |-> dest, seg |-> seg] ELSE r : r \in ns[n]}
     ELSE NoFile]

(* Mutant: the map's key is the volume.                                    *)
InsertSeals_ByVolume(idx, seals) ==
  {r \in idx : \A s \in seals : r.vol # s.vol} \cup seals

(* The index is a map from (volume, segment): an entry replaces another.   *)
InsertSeals(idx, seals) ==
  {r \in idx : \A s \in seals : <<r.vol, r.seg>> # <<s.vol, s.seg>>} \cup seals

apply_txn(st, txn) ==
  CASE txn.kind = "put" ->
         [ns  |-> [st.ns EXCEPT ![txn.name] = txn.manifest],
          idx |-> InsertSeals(st.idx, txn.seals)]
    [] txn.kind = "remove" ->
         [ns |-> [st.ns EXCEPT ![txn.name] = NoFile], idx |-> st.idx]
    [] txn.kind = "compact" ->
         [ns  |-> [n \in Names |-> IF txn.repoint[n] # NoFile THEN txn.repoint[n]
                                                              ELSE st.ns[n]],
          idx |-> {r \in InsertSeals(st.idx, txn.seals) : r.vol # txn.retired}]
=============================================================================
