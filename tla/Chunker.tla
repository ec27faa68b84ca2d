-------------------------------- MODULE Chunker --------------------------------
(***************************************************************************)
(* src/src/chunker.rs: the stream a `put` stores is cut into chunks where  *)
(* a rolling hash of its bytes hits a mask (FastCDC).                      *)
(*                                                                         *)
(* Chunks are the unit of deduplication, so where the cuts fall must be a  *)
(* matter of the bytes alone: the same bytes arrive in pieces of any size, *)
(* and the cuts are looked for in a buffer that holds only part of them.   *)
(***************************************************************************)
EXTENDS Naturals, Sequences

CONSTANTS
  Bytes,     \* the byte values
  Gear,      \* gear_table(seed): a word for each byte value
  HashBits,  \* the width of a word, 64 in the code
  AvgSize,   \* the average chunk size the store is pinned to
  ReadSize,  \* the size of read_buf
  Inputs     \* the streams put

ASSUME ChunkerAssumption ==
  /\ HashBits \in Nat
  /\ Gear \in [Bytes -> Nat]
  /\ AvgSize \in Nat \ {0, 1}
  /\ ReadSize \in Nat \ {0}
  /\ Inputs \subseteq Seq(Bytes)

VARIABLES
  input,  \* the stream
  read,   \* how many bytes of it have been read
  front,  \* how many of these have left the buffer in a chunk
  cuts,   \* where the chunks handed to on_chunk end
  eof,    \* a read has returned nothing
  pc      \* "streaming", "done" or "failed"

vars == <<input, read, front, cuts, eof, pc>>

-----------------------------------------------------------------------------
(* ChunkerParams::from_avg, FastCdc::new.                                  *)
min_size == AvgSize \div 2

max_size == AvgSize * 4

(* log2 of the average, rounded.                                           *)
bits == CHOOSE k \in 0 .. AvgSize :
          4^k <= 2 * AvgSize * AvgSize /\ AvgSize * AvgSize < 2 * 4^k

mask_hard == 2^(bits + 2)

mask_easy == 2^(IF bits > 2 THEN bits - 2 ELSE 1)

Limit(len) == IF len < max_size THEN len ELSE max_size

(* The gear hash at each position of the chunk that starts after f: it     *)
(* starts where the skipped first min_size bytes end.                      *)
Rolling(s, f, end) ==
  LET h[p \in f + min_size .. end] ==
        IF p = f + min_size THEN 0 ELSE (2 * h[p - 1] + Gear[s[p]]) % 2^HashBits
  IN h

(* The lengths at which the chunk that starts after f may end: a stricter  *)
(* mask up to the average length, an easier one after it.                  *)
Hits(s, f, limit) ==
  LET hash == Rolling(s, f, f + limit)
  IN {n \in min_size + 1 .. limit :
        hash[f + n] % (IF n <= AvgSize THEN mask_hard ELSE mask_easy) = 0}

(* Mutant: without a hit the chunk is max_size long, also near the end.    *)
cut_Full(s, f, len) ==
  IF len <= min_size THEN len
  ELSE LET hits == Hits(s, f, Limit(len))
       IN IF hits = {} THEN max_size
          ELSE CHOOSE n \in hits : \A m \in hits : n <= m

(* Mutant: a chunk without a hit ends at a multiple of max_size.           *)
cut_Aligned(s, f, len) ==
  IF len <= min_size THEN len
  ELSE LET hits == Hits(s, f, Limit(len))
       IN IF hits = {} THEN IF len < max_size THEN len ELSE max_size - (f % max_size)
          ELSE CHOOSE n \in hits : \A m \in hits : n <= m

(* The length of the chunk at the front of a buffer that holds the bytes   *)
(* f + 1 .. f + len of s.                                                  *)
cut(s, f, len) ==
  IF len <= min_size THEN len
  ELSE LET hits == Hits(s, f, Limit(len))
       IN IF hits = {} THEN Limit(len)
          ELSE CHOOSE n \in hits : \A m \in hits : n <= m

-----------------------------------------------------------------------------
(* stream_chunks                                                           *)

Init ==
  /\ input \in Inputs
  /\ read = 0
  /\ front = 0
  /\ cuts = <<>>
  /\ eof = FALSE
  /\ pc = "streaming"

(* Mutant: one read is taken to be enough.                                 *)
Filled_AfterOneRead == eof \/ read - front > min_size

(* Mutant: the buffer is filled until one more read would not fit.         *)
Filled_PastMax == eof \/ read - front > max_size

(* Mutant: the end of the stream is not remembered.                        *)
Filled_NoEof == read - front >= max_size

(* The buffer holds all that a cut may look at.                            *)
Filled == eof \/ read - front >= max_size

(* A read returns what is there, at most ReadSize bytes, and nothing only  *)
(* at the end.                                                             *)
Fill ==
  /\ pc = "streaming"
  /\ ~Filled
  /\ IF read = Len(input)
     THEN eof' = TRUE /\ UNCHANGED read
     ELSE /\ \E n \in 1 .. ReadSize : read + n <= Len(input) /\ read' = read + n
          /\ UNCHANGED eof
  /\ UNCHANGED <<input, front, cuts, pc>>

Emit ==
  /\ pc = "streaming"
  /\ Filled
  /\ read > front
  /\ front' = front + cut(input, front, read - front)
  /\ cuts' = Append(cuts, front')
  /\ UNCHANGED <<input, read, eof, pc>>

(* Mutant: the last read's end of file ends the stream.                    *)
Done_AtEof ==
  /\ pc = "streaming"
  /\ eof
  /\ pc' = "done"
  /\ UNCHANGED <<input, read, front, cuts, eof>>

Done ==
  /\ pc = "streaming"
  /\ Filled
  /\ read = front
  /\ pc' = "done"
  /\ UNCHANGED <<input, read, front, cuts, eof>>

(* The file cannot be read, or a chunk cannot be sealed.                   *)
Fail ==
  /\ pc = "streaming"
  /\ pc' = "failed"
  /\ UNCHANGED <<input, read, front, cuts, eof>>

Next == Fill \/ Emit \/ Done \/ Fail

Spec == Init /\ [][Next]_vars

(* The loop runs until it returns; nothing makes it fail.                  *)
FairSpec == Spec /\ WF_vars(Fill \/ Emit \/ Done)

-----------------------------------------------------------------------------
(* Properties.                                                             *)

ChunkStart(i) == IF i = 1 THEN 0 ELSE cuts[i - 1]

(* The variables keep to their types, and the buffer to the stream.        *)
TypeOK ==
  /\ input \in Inputs
  /\ read \in 0 .. Len(input)
  /\ front \in 0 .. read
  /\ cuts \in Seq(0 .. front)
  /\ eof \in BOOLEAN
  /\ pc \in {"streaming", "done", "failed"}

(* "A store MUST chunk identically for its whole lifetime or dedup         *)
(* breaks": every cut falls where it would with the whole rest of the      *)
(* stream in the buffer, however the reads were cut.                       *)
ContentDecides ==
  \A i \in 1 .. Len(cuts) :
    cuts[i] = ChunkStart(i) + cut(input, ChunkStart(i), Len(input) - ChunkStart(i))

(* The chunks are the stream, in order and without a gap, each of at most  *)
(* max_size bytes and, but for the last, of more than min_size.            *)
ChunksTile ==
  /\ \A i \in 1 .. Len(cuts) :
       LET size == cuts[i] - ChunkStart(i)
       IN /\ cuts[i] > ChunkStart(i)
          /\ size <= max_size
          /\ cuts[i] < Len(input) => size > min_size
  /\ front = IF cuts = <<>> THEN 0 ELSE cuts[Len(cuts)]
  /\ pc = "done" => front = Len(input)

(* The memory bound: at most one read more than what a cut looks at.       *)
BufferBounded == read - front < max_size + ReadSize

(* The chunk ends of a stream that is chunked in one piece.                *)
Ends(s) ==
  LET from[f \in 0 .. Len(s)] ==
        IF f = Len(s) THEN {}
        ELSE LET e == f + cut(s, f, Len(s) - f) IN {e} \cup from[e]
  IN from[0]

(* "Inserting or deleting bytes shifts only the chunks local to the edit": *)
(* with a byte put before the stream, once a chunk ends where one ended    *)
(* without it, all later chunks are the same.                              *)
EditsAreLocal ==
  pc = "done" =>
    \A b \in Bytes :
      LET mine   == {cuts[i] : i \in 1 .. Len(cuts)}
          edited == {e - 1 : e \in Ends(<<b>> \o input)}
      IN \A e \in mine \cap edited :
           {x \in mine : x > e} = {x \in edited : x > e}

(* Every stream comes to an end, when nothing fails, with all its bytes in *)
(* chunks.                                                                 *)
StreamEnds == <>(pc = "failed" \/ (pc = "done" /\ front = Len(input)))
=============================================================================
