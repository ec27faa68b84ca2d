-------------------------------- MODULE Mirror --------------------------------
(***************************************************************************)
(* `mirror` of src/src/engine.rs: a process copies the whole store to an   *)
(* independent set of repositories while clients go on using it.  It       *)
(* pushes each volume's refs, in order, then the index's.  A push is       *)
(* forced, so what the target has under the same name is overwritten, and  *)
(* it never deletes a ref of the target.                                   *)
(*                                                                         *)
(* What is pushed is what the volume has: the case of a local store, and   *)
(* of a remote one mirrored by a process whose cache is new.  What else an *)
(* old cache holds only adds segments to the target.                       *)
(***************************************************************************)
EXTENDS Engine

VARIABLES
  copy,     \* copy[v]: the segments the target of volume v has
  copylog,  \* the log the target of the index has
  at,       \* the volume to push next; 0 when no mirror runs
  named     \* history: what the log has named ever since the mirror began

mvars == <<copy, copylog, at, named>>

IndexTurn == NumVolumes + 1

(* The target holds segments and a log, and the mirror is at a volume, at  *)
(* the index or nowhere.                                                   *)
MirrorTypeOK ==
  /\ copy \in [Volumes -> SUBSET [seg : SegId, ids : SUBSET Chunks]]
  /\ copylog \in Log
  /\ at \in 0 .. IndexTurn
  /\ named \subseteq ChunkRef

MirrorInit ==
  /\ Init
  /\ copy = [v \in Volumes |-> {}]
  /\ copylog = EmptyLog
  /\ at = 0
  /\ named = {}

-----------------------------------------------------------------------------
(* Mutant: the first volume is skipped.                                    *)
MirrorStart_Second ==
  /\ at = 0
  /\ at' = 2
  /\ named' = ChunkRefs(log.st.ns)
  /\ repo' = Opened
  /\ UNCHANGED <<copy, copylog, log, refs, pc, job, seen, ops>>

MirrorStart ==
  /\ at = 0
  /\ at' = 1
  /\ named' = ChunkRefs(log.st.ns)
  /\ repo' = Opened
  /\ UNCHANGED <<copy, copylog, log, refs, pc, job, seen, ops>>

(* What a push of the volume brings.  A ref that has lost its objects      *)
(* brings nothing: git leaves it out of the push with a message, or finds  *)
(* that the target has it already, and succeeds.  A version of git that    *)
(* fails at such a ref makes a MirrorStop of it.                           *)
Copies(v) ==
  {[seg |-> s.seg, ids |-> s.ids] : s \in {t \in refs[v] : t.ids # {}}}

(* Mutant: `push --mirror`, which deletes what the source does not have.   *)
MirrorVolume_Prune ==
  /\ at \in up
  /\ copy' = [copy EXCEPT ![at] = Copies(at)]
  /\ at' = at + 1
  /\ UNCHANGED <<copylog, named, vars>>

(* mirror_to of a volume: `push --force refs/*:refs/*`.                    *)
MirrorVolume ==
  /\ at \in up
  /\ copy' = [copy EXCEPT ![at] = @ \cup Copies(at)]
  /\ at' = at + 1
  /\ UNCHANGED <<copylog, named, vars>>

(* Mutant: the mirror does not end with the index.                         *)
MirrorIndex_Onward ==
  /\ at = IndexTurn
  /\ copylog' = log
  /\ at' = at + 1
  /\ named' = {}
  /\ UNCHANGED <<copy, vars>>

(* mirror_to of the index.                                                 *)
MirrorIndex ==
  /\ at = IndexTurn
  /\ copylog' = log
  /\ at' = 0
  /\ named' = {}
  /\ UNCHANGED <<copy, vars>>

(* A push that fails ends the mirror, and so does a kill.                  *)
MirrorStop ==
  /\ at # 0
  /\ at' = 0
  /\ named' = {}
  /\ UNCHANGED <<copy, copylog, vars>>

(* The clients go on: what a commit takes out of the log is named no more. *)
Meanwhile ==
  /\ Next
  /\ named' = named \cap ChunkRefs(log'.st.ns)
  /\ UNCHANGED <<copy, copylog, at>>

MirrorNext == MirrorStart \/ MirrorVolume \/ MirrorIndex \/ MirrorStop \/ Meanwhile

MirrorSpec == MirrorInit /\ [][MirrorNext]_<<vars, mvars>>

-----------------------------------------------------------------------------
(* Properties.                                                             *)

(* The target has the chunk where r says it is.                            *)
Copied(r) == \E s \in copy[r.vol] : s.seg = r.seg /\ r.id \in s.ids

(* The mirror can serve every file its log names.                          *)
MirrorWhole == \A r \in ChunkRefs(copylog.st.ns) : Copied(r)

(* A mirror brings along whatever the log names from its beginning to its  *)
(* end: what of that the primary can serve, the target can, although       *)
(* segments come and go, volumes are compacted and files are committed     *)
(* while it runs.  What is committed or moved meanwhile may be missing,    *)
(* and so may what a removal that stopped half way took from the primary.  *)
MirrorServes ==
  [][MirrorIndex => \A r \in named : HasChunk(r)' => Copied(r)']_<<vars, mvars>>

(* "If the mirror push is interrupted, the mirror's log tip is simply      *)
(* older than the primary's, never dangling": whatever clients do to the   *)
(* primary, only the push of the index can leave a whole mirror less than  *)
(* whole.                                                                  *)
InterruptionHarmless == [][MirrorWhole /\ ~MirrorIndex => MirrorWhole']_<<vars, mvars>>
=============================================================================
