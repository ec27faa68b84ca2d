-------------------------------- MODULE TxnLog --------------------------------
(***************************************************************************)
(* The log of src/src/engine.rs: a chain of commits, each with one         *)
(* transaction.  Every so many commits a put or a removal is written as a  *)
(* checkpoint, the whole state it leads to, and a reader starts from the   *)
(* newest checkpoint and applies the tail after it.  Compact transactions  *)
(* are never written as checkpoints.                                       *)
(*                                                                         *)
(* Commits are serialised by the compare-and-swap on the tip, the subject  *)
(* of module Engine: here one commit is one step.                          *)
(***************************************************************************)
EXTENDS StoreState, SequencesExt

CONSTANTS
  checkpoint_interval,  \* 128 in a store made by the program
  MaxCommits            \* bound: the number of commits

ASSUME TxnLogAssumption == checkpoint_interval \in Nat \ {0} /\ MaxCommits \in Nat

VARIABLES
  chain,  \* the transactions from the first commit to the tip
  made    \* history: made[n] is what the first n transactions, applied one by one, make

(* Mutant: a checkpoint without the segment index.                         *)
CheckpointOf_NoIndex(st) == [kind |-> "checkpoint", namespace |-> st.ns, seg_index |-> {}]

CheckpointOf(st) == [kind |-> "checkpoint", namespace |-> st.ns, seg_index |-> st.idx]

(* The newest checkpoint at or below commit n; 0 when there is none.       *)
NewestCheckpoint(n) ==
  Max({0} \cup {i \in 1 .. n : chain[i].kind = "checkpoint"})

LogTail(n) == SubSeq(chain, NewestCheckpoint(n) + 1, n)

since_checkpoint(n) == Len(LogTail(n))

(* The state a reader at commit n gets.                                    *)
load_full_state(n) ==
  LET first == NewestCheckpoint(n)
      start == IF first = 0 THEN EmptyState
               ELSE [ns |-> chain[first].namespace, idx |-> chain[first].seg_index]
  IN FoldLeft(apply_txn, start, LogTail(n))

tip == Len(chain)

Latest == IF tip = 0 THEN EmptyState ELSE made[tip]

-----------------------------------------------------------------------------
(* Mutant: off by one, the transaction at hand is not counted.             *)
checkpoint_due_Late == since_checkpoint(tip) >= checkpoint_interval

checkpoint_due == since_checkpoint(tip) + 1 >= checkpoint_interval

Init == chain = <<>> /\ made = <<>>

(* put and rm: the transaction, or the state it leads to.                  *)
CommitDelta(txn) ==
  /\ chain' = Append(chain, IF checkpoint_due
                            THEN CheckpointOf(apply_txn(load_full_state(tip), txn))
                            ELSE txn)
  /\ made' = Append(made, apply_txn(Latest, txn))

CommitCompaction(txn) ==
  /\ chain' = Append(chain, txn)
  /\ made' = Append(made, apply_txn(Latest, txn))

(* The client builds its transaction on the state it loads.  A put keeps   *)
(* some known placements and may seal a segment, numbered by the tip.      *)
CommitPut ==
  /\ tip < MaxCommits
  /\ LET st  == load_full_state(tip)
         seg == [by |-> "put", n |-> tip]
     IN \E name \in Names, v \in Volumes \ Spare, reused \in SUBSET Known(st.ns),
           new \in SUBSET (Chunks \ Ids(ChunkRefs(st.ns))) :
          CommitDelta(DeltaPut(name,
                               reused \cup {[id |-> id, vol |-> v, seg |-> seg] : id \in new},
                               IF new = {} THEN {} ELSE Seal(v, seg, new)))

CommitRemove ==
  /\ tip < MaxCommits
  /\ \E name \in Stored(load_full_state(tip).ns) : CommitDelta(DeltaRemove(name))

CommitCompact ==
  /\ tip < MaxCommits
  /\ LET st == load_full_state(tip)
     IN \E v \in {r.vol : r \in st.idx}, dest \in Volumes :
          LET live == live_ids(st.ns, v)
              seg  == compact_segment_id(v, live)
          IN /\ dest # v
             /\ CommitCompaction(CompactTxn(v, IF live = {} THEN {} ELSE Seal(dest, seg, live),
                                            Repointed(st.ns, v, dest, seg)))

Next == CommitPut \/ CommitRemove \/ CommitCompact

Spec == Init /\ [][Next]_<<chain, made>>

-----------------------------------------------------------------------------
(* Properties.                                                             *)

(* Checkpoints are invisible, and a pinned reader sees one store for ever: *)
(* whatever mixture of deltas, checkpoints and compactions the chain is,   *)
(* load_full_state gives at every commit, old or new, the state that       *)
(* every transaction up to it has made, namespace and byte accounting      *)
(* alike.                                                                  *)
ReadersSeeWhatWasMade == \A n \in 1 .. tip : load_full_state(n) = made[n]

(* "128 bounds reader tail-replay to at most 127 delta commits" is true of *)
(* puts and removals: whatever of the tail exceeds the bound is            *)
(* compactions, and the next put or removal is a checkpoint.               *)
ExcessIsCompactions ==
  \A i \in checkpoint_interval .. since_checkpoint(tip) : LogTail(tip)[i].kind = "compact"
=============================================================================
