-------------------------------- MODULE Reader --------------------------------
(***************************************************************************)
(* `get` of src/src/engine.rs, and `tip` and `get --at`: a process pins a  *)
(* commit of the log, takes a file's manifest from it, and reads the       *)
(* chunks one by one while clients go on using the store.                  *)
(*                                                                         *)
(* A remote volume is read through a local cache, which no client empties: *)
(* a reader has a store directory of its own.  What a fetch brings into it *)
(* depends on whether the server serves single blobs; that verdict and the *)
(* retries of a fetch change nothing else.                                 *)
(***************************************************************************)
EXTENDS Engine

CONSTANT Readers  \* the reading processes

VARIABLES
  pin,   \* pin[r]: the commit r reads at, with the state it stands for
  rest,  \* rest[r]: the chunks of the file r reads that are still to come
  cache  \* cache[r]: the chunks, by segment, in the local cache of r

rvars == <<pin, rest, cache>>

ReaderInit ==
  /\ Init
  /\ pin = [r \in Readers |-> EmptyLog]
  /\ rest = [r \in Readers |-> {}]
  /\ cache = [r \in Readers |-> {}]

(* The chunks r can get hold of where q says they are.                     *)
Readable(r, q) == q \in cache[r] \/ HasChunk(q)

-----------------------------------------------------------------------------
(* Read the tip, to use it now or in a later `get --at`.                   *)
Pin(r) ==
  /\ rest[r] = {}
  /\ pin' = [pin EXCEPT ![r] = log]
  /\ repo' = Opened
  /\ UNCHANGED <<rest, cache, log, refs, pc, job, seen, ops>>

GetStart(r) ==
  /\ rest[r] = {}
  /\ \E name \in Stored(pin[r].st.ns) : rest' = [rest EXCEPT ![r] = pin[r].st.ns[name]]
  /\ repo' = Opened
  /\ UNCHANGED <<pin, cache, log, refs, pc, job, seen, ops>>

ReadCached(r) ==
  /\ \E q \in rest[r] \cap cache[r] : rest' = [rest EXCEPT ![r] = @ \ {q}]
  /\ UNCHANGED <<pin, cache, vars>>

(* The chunks of q's segment that its volume holds.                        *)
SegmentOf(q) ==
  {[id |-> id, vol |-> q.vol, seg |-> q.seg] :
     id \in UNION {s.ids : s \in {t \in refs[q.vol] : t.seg = q.seg}}}

(* What is not cached is fetched, as a blob or with its whole segment.     *)
ReadRemote(r) ==
  /\ \E q \in rest[r] \ cache[r] :
       /\ q.vol \in up
       /\ HasChunk(q)
       /\ rest' = [rest EXCEPT ![r] = @ \ {q}]
       /\ \E fetched \in IF Transport = "local" THEN {{}} ELSE {{q}, SegmentOf(q)} :
            cache' = [cache EXCEPT ![r] = @ \cup fetched]
  /\ UNCHANGED <<pin, vars>>

(* A chunk that is gone, a server that does not answer, or a kill.         *)
GetFails(r) ==
  /\ rest[r] # {}
  /\ rest' = [rest EXCEPT ![r] = {}]
  /\ UNCHANGED <<pin, cache, vars>>

ReaderNext ==
  \/ \E r \in Readers : Pin(r) \/ GetStart(r) \/ ReadCached(r) \/ ReadRemote(r) \/ GetFails(r)
  \/ Next /\ UNCHANGED rvars

ReaderSpec == ReaderInit /\ [][ReaderNext]_<<vars, rvars>>

-----------------------------------------------------------------------------
(* Properties.                                                             *)

(* "A reader that pins a specific log commit obtains an immutable snapshot *)
(* [...] the pinned view cannot change under the reader": every file of    *)
(* the pinned commit can be read, however far the log has moved on.        *)
PinnedReadable ==
  \A r \in Readers : \A q \in ChunkRefs(pin[r].st.ns) : Readable(r, q)

(* A get that finds a chunk gone has been overtaken: at the commit that is *)
(* the tip, every file can be read.                                        *)
MissingMeansOvertaken ==
  \A r \in Readers :
    (\E q \in rest[r] : ~Readable(r, q)) => pin[r].tip < log.tip
=============================================================================
