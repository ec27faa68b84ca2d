----------------------------- MODULE ChunkerProofs -----------------------------
(***************************************************************************)
(* For every gear table, every sizes, every stream and every way its reads *)
(* are cut: where the cuts fall is decided by the bytes alone, the chunks  *)
(* tile the stream within the bounds of their sizes, and a byte put before *)
(* the stream changes none of them past the next end that stays.           *)
(***************************************************************************)
EXTENDS Chunker, WellFoundedInduction, TLAPS

-----------------------------------------------------------------------------
(* The cut.                                                                *)

(* A non-empty set of numbers has a least one, by the smaller-number       *)
(* principle.                                                              *)
LEMMA Least ==
  ASSUME NEW S \in SUBSET Nat, S # {}
  PROVE  \E n \in S : \A m \in S : n <= m
  <1> DEFINE R == {ss \in Nat \X Nat : ss[1] < ss[2]}
  <1>1. IsWellFoundedOn(R, Nat)
    BY NatLessThanWellFounded DEF OpToRel
  <1>2. PICK n \in S : \A m \in S : <<m, n>> \notin R
    BY <1>1, WFMin
  <1>3. \A m \in S : <<m, n>> \in Nat \X Nat /\ m \in Nat
    OBVIOUS
  <1>4. \A m \in S : ~(m < n)
    BY <1>2, <1>3
  <1> QED BY <1>3, <1>4

(* The three sizes derived from the average are in order: a chunk that     *)
(* reaches min_size may still grow.                                        *)
LEMMA Sizes ==
  /\ min_size \in Nat \ {0}
  /\ max_size \in Nat
  /\ min_size < max_size
  BY ChunkerAssumption DEF min_size, max_size

(* A cut takes something, no more than there is and than max_size; more    *)
(* than min_size when there is more, and else all there is.                *)
LEMMA CutBounds ==
  ASSUME NEW s, NEW f, NEW len \in Nat \ {0}
  PROVE  /\ cut(s, f, len) \in 1 .. len
         /\ cut(s, f, len) <= max_size
         /\ IF len > min_size THEN cut(s, f, len) > min_size ELSE cut(s, f, len) = len
  <1>0. min_size \in Nat /\ max_size \in Nat /\ min_size < max_size
    BY Sizes
  <1>1. CASE len <= min_size
    BY <1>0, <1>1 DEF cut
  <1>2. CASE ~(len <= min_size)
    <2> DEFINE hits == Hits(s, f, Limit(len))
               n == CHOOSE n \in hits : \A m \in hits : n <= m
    <2>1. /\ Limit(len) \in min_size + 1 .. len
          /\ Limit(len) <= max_size
      BY <1>0, <1>2 DEF Limit
    <2>2. hits \subseteq min_size + 1 .. Limit(len)
      BY DEF Hits
    <2>3. hits # {} => n \in hits
      <3>1. hits \in SUBSET Nat
        BY <2>2, <1>0
      <3> HIDE DEF hits
      <3> QED BY <3>1, Least
    <2>4. cut(s, f, len) = IF hits = {} THEN Limit(len) ELSE n
      BY <1>2 DEF cut
    <2>5. cut(s, f, len) \in min_size + 1 .. Limit(len)
      <3> HIDE DEF hits, n
      <3>1. CASE hits = {}
        BY <3>1, <2>1, <2>4, <1>0
      <3>2. CASE hits # {}
        BY <3>2, <2>2, <2>3, <2>4
      <3> QED BY <3>1, <3>2
    <2> QED BY <1>0, <1>2, <2>1, <2>5
  <1> QED BY <1>1, <1>2

(* With max_size bytes in the buffer a cut does not depend on what         *)
(* follows.                                                                *)
LEMMA CutLooksNoFurther ==
  ASSUME NEW s, NEW f, NEW len \in Nat, NEW more \in Nat, len <= more,
         len >= max_size \/ len = more
  PROVE  cut(s, f, len) = cut(s, f, more)
  <1>1. CASE len = more
    BY <1>1
  <1>2. CASE len >= max_size
    <2>1. Limit(len) = Limit(more) /\ ~(len <= min_size) /\ ~(more <= min_size)
      BY <1>2, Sizes DEF Limit
    <2> QED BY <2>1 DEF cut
  <1> QED BY <1>1, <1>2

-----------------------------------------------------------------------------
(* The stream.                                                             *)

(* The end of file is the end of the stream.                               *)
EofIsEnd == eof => read = Len(input)

Inv == TypeOK /\ EofIsEnd /\ ContentDecides /\ ChunksTile /\ BufferBounded

(* A stream that was not read has no cuts and an empty window.             *)
LEMMA Inits == Init => Inv
  <1> SUFFICES ASSUME Init PROVE Inv
    OBVIOUS
  <1>1. input \in Seq(Bytes) /\ Len(input) \in Nat
    BY ChunkerAssumption DEF Init
  <1>2. eof \in BOOLEAN /\ EofIsEnd
    BY ZenonT(20) DEF Init, EofIsEnd
  <1>3. ContentDecides /\ ChunksTile
    BY DEF Init, ContentDecides, ChunksTile
  <1>4. BufferBounded
    BY Sizes, ChunkerAssumption DEF Init, BufferBounded
  <1>5. /\ read \in 0 .. Len(input) /\ front \in 0 .. read
        /\ cuts \in Seq(0 .. front)
    BY <1>1 DEF Init
  <1>6. TypeOK
    BY <1>2, <1>5 DEF Init, TypeOK
  <1> QED BY <1>2, <1>3, <1>4, <1>6 DEF Inv

(* What the invariant says of the numbers: the window lies within the      *)
(* stream, the cuts within what was left behind.                           *)
LEMMA Typed ==
  ASSUME Inv
  PROVE  /\ Len(input) \in Nat /\ read \in Nat /\ front \in Nat
         /\ front <= read /\ read <= Len(input)
         /\ cuts \in Seq(Nat) /\ Len(cuts) \in Nat
         /\ \A i \in 1 .. Len(cuts) : cuts[i] \in 0 .. front
  <1>1. input \in Seq(Bytes)
    BY ChunkerAssumption DEF Inv, TypeOK
  <1>2. Len(input) \in Nat
    BY <1>1
  <1>3. cuts \in Seq(0 .. front) /\ 0 .. front \subseteq Nat
    BY <1>2 DEF Inv, TypeOK
  <1> QED BY <1>2, <1>3 DEF Inv, TypeOK

(* A read of any size extends the window and moves no cut.                 *)
LEMMA FillKeeps ==
  ASSUME Inv, Fill
  PROVE  Inv'
  <1>1. TypeOK' /\ EofIsEnd'
    <2>1. CASE read = Len(input)
      <3>1. eof' \in BOOLEAN /\ read' = read /\ input' = input /\ front' = front
            /\ cuts' = cuts /\ pc' = pc
        BY <2>1 DEF Fill
      <3> QED BY <2>1, <3>1 DEF Inv, TypeOK, EofIsEnd
    <2>2. CASE read # Len(input)
      <3>1. PICK n \in 1 .. ReadSize : read + n <= Len(input) /\ read' = read + n
        BY <2>2 DEF Fill
      <3>2. eof' = eof /\ input' = input /\ front' = front /\ cuts' = cuts /\ pc' = pc
        BY <2>2 DEF Fill
      <3>3. read' \in 0 .. Len(input) /\ front \in 0 .. read'
        BY <3>1, Typed
      <3>4. ~eof
        BY DEF Fill, Filled
      <3> QED BY <3>2, <3>3, <3>4 DEF Inv, TypeOK, EofIsEnd
    <2> QED BY <2>1, <2>2
  <1>2. ContentDecides' /\ ChunksTile'
    BY DEF Fill, Inv, ContentDecides, ChunksTile, ChunkStart
  <1>3. BufferBounded'
    <2>1. CASE read' = read
      BY <2>1 DEF Fill, Inv, BufferBounded
    <2>2. CASE \E n \in 1 .. ReadSize : read' = read + n
      BY <2>2, Typed, Sizes, ChunkerAssumption DEF Fill, Filled, BufferBounded
    <2> QED BY <2>1, <2>2 DEF Fill
  <1> QED BY <1>1, <1>2, <1>3 DEF Inv

(* Cutting a chunk off adds one end: it is where the whole rest of the     *)
(* stream would be cut, and the chunk has a size between the bounds.       *)
LEMMA EmitKeeps ==
  ASSUME Inv, Emit
  PROVE  Inv'
  <1> DEFINE len == read - front
             rest == Len(input) - front
  <1>1. /\ len \in Nat \ {0} /\ rest \in Nat \ {0} /\ len <= rest
        /\ len >= max_size \/ len = rest
    BY Typed DEF Emit, Filled, Inv, EofIsEnd
  <1>2. /\ front' = front + cut(input, front, len)
        /\ cut(input, front, len) = cut(input, front, rest)
    BY <1>1, CutLooksNoFurther DEF Emit
  <1>3. /\ cut(input, front, len) \in 1 .. len
        /\ cut(input, front, len) <= max_size
        /\ rest <= min_size => cut(input, front, len) = rest
        /\ rest > min_size => cut(input, front, len) > min_size
    <2>1. /\ cut(input, front, len) \in 1 .. len
          /\ cut(input, front, len) <= max_size
      BY <1>1, CutBounds
    <2>2. IF rest > min_size THEN cut(input, front, rest) > min_size
                             ELSE cut(input, front, rest) = rest
      BY <1>1, CutBounds
    <2> HIDE DEF len, rest
    <2> QED BY <2>1, <2>2, <1>1, <1>2, Sizes
  <1>4. /\ front' \in front + 1 .. read
        /\ cuts' = Append(cuts, front')
        /\ Len(cuts') = Len(cuts) + 1
        /\ cuts'[Len(cuts')] = front'
        /\ \A i \in 1 .. Len(cuts) : cuts'[i] = cuts[i]
    BY <1>2, <1>3, Typed DEF Emit
  <1>5. UNCHANGED <<input, read, eof, pc>>
    BY DEF Emit
  <1>6. TypeOK'
    <2>1. cuts' \in Seq(0 .. front')
      BY <1>4, Typed DEF Inv, TypeOK
    <2> QED BY <2>1, <1>4, <1>5, Typed DEF Inv, TypeOK
  <1>7. EofIsEnd' /\ BufferBounded'
    BY <1>4, <1>5, Typed, Sizes, ChunkerAssumption DEF Inv, EofIsEnd, BufferBounded
  <1> PICK last \in Nat : last = Len(cuts) + 1
    BY Typed
  <1>8. \A i \in 1 .. Len(cuts) : ChunkStart(i)' = ChunkStart(i)
    BY <1>4, Typed DEF ChunkStart
  <1>9. ChunkStart(last)' = front /\ cuts'[last] = front' /\ Len(cuts') = last
    BY <1>4, Typed DEF Inv, ChunksTile, ChunkStart
  <1>10. ContentDecides'
    <2>1. \A i \in 1 .. Len(cuts) : cuts'[i] =
             ChunkStart(i)' + cut(input, ChunkStart(i)', Len(input) - ChunkStart(i)')
      BY <1>4, <1>8 DEF Inv, ContentDecides
    <2>2. cuts'[last] = front + cut(input, front, rest)
      BY <1>2, <1>9
    <2> QED BY <2>1, <2>2, <1>4, <1>5, <1>9, Typed DEF ContentDecides
  <1>11. ChunksTile'
    <2>1. \A i \in 1 .. Len(cuts) :
            LET size == cuts'[i] - ChunkStart(i)'
            IN /\ cuts'[i] > ChunkStart(i)'
               /\ size <= max_size
               /\ cuts'[i] < Len(input) => size > min_size
      BY <1>4, <1>8 DEF Inv, ChunksTile
    <2>2. LET size == front' - front
          IN /\ front' > front
             /\ size <= max_size
             /\ front' < Len(input) => size > min_size
      BY <1>1, <1>2, <1>3, Typed, Sizes
    <2>3. cuts' # <<>> /\ pc' # "done"
      BY <1>4, Typed DEF Emit
    <2> QED BY <2>1, <2>2, <2>3, <1>4, <1>5, <1>9, Typed DEF ChunksTile
  <1> QED BY <1>6, <1>7, <1>10, <1>11 DEF Inv

(* Every step of the loop keeps the invariant.                             *)
LEMMA NextKeeps ==
  ASSUME Inv, [Next]_vars
  PROVE  Inv'
  <1>1. CASE Fill
    BY <1>1, FillKeeps
  <1>2. CASE Emit
    BY <1>2, EmitKeeps
  <1>3. CASE Done
    <2>1. pc' = "done" /\ front = Len(input)
      BY <1>3, Typed, Sizes DEF Done, Filled, Inv, EofIsEnd
    <2> QED BY <2>1, <1>3
         DEF Done, Inv, TypeOK, EofIsEnd, ContentDecides, ChunksTile, BufferBounded, ChunkStart
  <1>4. CASE Fail
    BY <1>4 DEF Fail, Inv, TypeOK, EofIsEnd, ContentDecides, ChunksTile, BufferBounded, ChunkStart
  <1>5. CASE UNCHANGED vars
    BY <1>5
      DEF vars, Inv, TypeOK, EofIsEnd, ContentDecides, ChunksTile, BufferBounded, ChunkStart
  <1> QED BY <1>1, <1>2, <1>3, <1>4, <1>5 DEF Next

(* So it holds of every stream, however it is read.                        *)
LEMMA Invariance == Spec => []Inv
  BY Inits, NextKeeps, PTL DEF Spec

(* "A store MUST chunk identically for its whole lifetime": however a      *)
(* stream arrives, each cut is where the bytes say.                        *)
THEOREM ContentAlone == Spec => []ContentDecides
  <1>1. Inv => ContentDecides
    BY DEF Inv
  <1> QED BY <1>1, Invariance, PTL

(* The chunks handed on are the stream, within the size bounds.            *)
THEOREM StreamTiled == Spec => []ChunksTile
  <1>1. Inv => ChunksTile
    BY DEF Inv
  <1> QED BY <1>1, Invariance, PTL

(* What is in memory is bounded by a chunk and a read.                     *)
THEOREM MemoryBounded == Spec => []BufferBounded
  <1>1. Inv => BufferBounded
    BY DEF Inv
  <1> QED BY <1>1, Invariance, PTL

(* The variables keep to their types, and the buffer to the stream.        *)
THEOREM StreamTypes == Spec => []TypeOK
  <1>1. Inv => TypeOK
    BY DEF Inv
  <1> QED BY <1>1, Invariance, PTL
-----------------------------------------------------------------------------
(* What an edit moves.  The hash of a chunk, and so its end, stays what it *)
(* was when a byte is put before the stream; two chunkings that share an   *)
(* end therefore share all that follow it.                                 *)

(* A bounded set of numbers has a greatest one.                            *)
LEMMA Greatest ==
  ASSUME NEW L \in Nat, NEW S \in SUBSET (0 .. L), S # {}
  PROVE  \E n \in S : \A m \in S : m <= n
  <1> DEFINE T == {d \in 0 .. L : L - d \in S}
  <1>1. T \in SUBSET Nat /\ T # {}
    <2>1. PICK n \in S : n \in 0 .. L
      OBVIOUS
    <2>2. L - n \in 0 .. L /\ L - (L - n) = n
      BY <2>1
    <2>3. L - n \in T
      BY <2>2
    <2>4. T \subseteq 0 .. L /\ 0 .. L \subseteq Nat
      OBVIOUS
    <2> QED BY <2>3, <2>4
  <1>2. PICK d \in T : \A m \in T : d <= m
    <2> HIDE DEF T
    <2> QED BY <1>1, Least
  <1>3. L - d \in S /\ d \in 0 .. L
    BY <1>2
  <1>4. ASSUME NEW m \in S PROVE m <= L - d
    <2>1. m \in 0 .. L /\ L - m \in 0 .. L /\ L - (L - m) = m
      OBVIOUS
    <2>2. d <= L - m
      BY <1>2, <2>1
    <2> QED BY <1>3, <2>1, <2>2
  <1> QED BY <1>3, <1>4

(* The word at position p, from the one before it.                         *)
Rolled(x, s, p) == (2 * x + Gear[s[p]]) % 2^HashBits

Rolls(h, s, f, end) ==
  h = [p \in f + min_size .. end |-> IF p = f + min_size THEN 0 ELSE Rolled(h[p - 1], s, p)]

(* There is such a hash for every stretch of a stream.                     *)
LEMMA RollingRolls ==
  ASSUME NEW s, NEW f \in Nat, NEW end \in Nat
  PROVE  Rolls(Rolling(s, f, end), s, f, end)
  <1> DEFINE Fails == {e \in Nat : ~\E h : Rolls(h, s, f, e)}
             k == f + min_size
  <1>0. k \in Nat
    BY Sizes
  <1>1. ASSUME Fails # {} PROVE FALSE
    <2>0. Fails \in SUBSET Nat
      OBVIOUS
    <2>1. PICK e \in Fails : \A m \in Fails : e <= m
      <3> HIDE DEF Fails
      <3> QED BY <1>1, <2>0, Least
    <2>2. e \in Nat /\ ~\E h : Rolls(h, s, f, e)
      BY <2>1
    <2> HIDE DEF k
    <2>3. CASE e < k
      <3>1. k .. e = {}
        BY <1>0, <2>2, <2>3
      <3>2. PICK h : h = [p \in {} |-> 0]
        OBVIOUS
      <3>3. Rolls(h, s, f, e)
        BY <3>1, <3>2 DEF Rolls, k
      <3> QED BY <2>2, <3>3
    <2>4. CASE e = k
      <3>1. PICK h : h = [p \in k .. e |-> 0]
        OBVIOUS
      <3>2. \A p \in k .. e : p = k
        BY <1>0, <2>4
      <3>3. h = [p \in k .. e |-> IF p = k THEN 0 ELSE Rolled(h[p - 1], s, p)]
        BY <3>1, <3>2
      <3> QED BY <2>2, <3>3 DEF Rolls, k
    <2>5. CASE e > k
      <3>1. e - 1 \in Nat /\ e - 1 >= k /\ e - 1 < e
        BY <1>0, <2>2, <2>5
      <3>2. e - 1 \notin Fails
        BY <2>1, <3>1
      <3>3. PICK h : Rolls(h, s, f, e - 1)
        BY <3>1, <3>2
      <3>4. PICK g : g = [p \in k .. e |-> IF p = e THEN Rolled(h[e - 1], s, e) ELSE h[p]]
        OBVIOUS
      <3>5. \A p \in k .. e - 1 : h[p] = IF p = k THEN 0 ELSE Rolled(h[p - 1], s, p)
        BY <3>3 DEF Rolls, k
      <3>6. \A p \in k .. e : g[p] = IF p = k THEN 0 ELSE Rolled(g[p - 1], s, p)
        <4> SUFFICES ASSUME NEW p \in k .. e
                     PROVE  g[p] = IF p = k THEN 0 ELSE Rolled(g[p - 1], s, p)
          OBVIOUS
        <4>1. CASE p = e
          <5>1. g[p] = Rolled(h[e - 1], s, e) /\ g[e - 1] = h[e - 1] /\ p # k
            BY <1>0, <2>2, <2>5, <3>1, <3>4, <4>1
          <5> QED BY <4>1, <5>1
        <4>2. CASE p = k
          BY <1>0, <2>2, <2>5, <3>1, <3>4, <3>5, <4>2
        <4>3. CASE p # e /\ p # k
          <5>1. p \in k .. e - 1 /\ p - 1 \in k .. e /\ p - 1 # e
            BY <1>0, <2>2, <4>3
          <5>2. g[p] = h[p] /\ g[p - 1] = h[p - 1]
            BY <3>4, <4>3, <5>1
          <5> QED BY <3>5, <4>3, <5>1, <5>2
        <4> QED BY <4>1, <4>2, <4>3
      <3>7. g = [p \in k .. e |-> g[p]]
        BY <3>4
      <3>8. g = [p \in k .. e |-> IF p = k THEN 0 ELSE Rolled(g[p - 1], s, p)]
        BY <3>6, <3>7
      <3> QED BY <2>2, <3>8 DEF Rolls, k
    <2> QED BY <1>0, <2>2, <2>3, <2>4, <2>5
  <1>2. \E h : Rolls(h, s, f, end)
    BY <1>1
  <1>3. Rolling(s, f, end) = CHOOSE h : Rolls(h, s, f, end)
    BY DEF Rolling, Rolls, Rolled
  <1> HIDE DEF Fails, k
  <1> QED BY <1>2, <1>3

(* The hash of a stretch does not look at what is before it.               *)
LEMMA RollingShifts ==
  ASSUME NEW s \in Seq(Bytes), NEW b \in Bytes, NEW f \in Nat, NEW end \in Nat, end <= Len(s),
         NEW p \in f + min_size .. end
  PROVE  Rolling(<<b>> \o s, f + 1, end + 1)[p + 1] = Rolling(s, f, end)[p]
  <1> DEFINE t == <<b>> \o s
             g == Rolling(t, f + 1, end + 1)
             h == Rolling(s, f, end)
             k == f + min_size
             Fails == {q \in k .. end : g[q + 1] # h[q]}
  <1>0. k \in Nat /\ k > 0
    BY Sizes
  <1>1. \A q \in 1 .. Len(s) : t[q + 1] = s[q]
    OBVIOUS
  <1>2. \A q \in k .. end : h[q] = IF q = k THEN 0 ELSE Rolled(h[q - 1], s, q)
    <2>1. Rolls(h, s, f, end)
      BY RollingRolls
    <2> HIDE DEF h
    <2> QED BY <2>1 DEF Rolls
  <1>3. \A q \in k + 1 .. end + 1 : g[q] = IF q = k + 1 THEN 0 ELSE Rolled(g[q - 1], t, q)
    <2>1. Rolls(g, t, f + 1, end + 1)
      BY RollingRolls
    <2>2. (f + 1) + min_size = k + 1
      BY Sizes
    <2> HIDE DEF g, t, k
    <2> QED BY <2>1, <2>2 DEF Rolls
  <1> HIDE DEF g, h, t, k
  <1>4. ASSUME Fails # {} PROVE FALSE
    <2>0. Fails \in SUBSET Nat
      BY <1>0
    <2>1. PICK q \in Fails : \A m \in Fails : q <= m
      <3> HIDE DEF Fails
      <3> QED BY <1>4, <2>0, Least
    <2>2. q \in k .. end /\ g[q + 1] # h[q] /\ q + 1 \in k + 1 .. end + 1
      BY <1>0, <2>1
    <2>3. q # k
      BY <1>0, <1>2, <1>3, <2>2
    <2>4. q - 1 \in k .. end /\ q \in 1 .. Len(s) /\ q \in Nat
      BY <1>0, <2>2, <2>3
    <2>5. g[q] = h[q - 1]
      <3>1. q - 1 \notin Fails
        BY <2>1, <2>4
      <3>2. g[(q - 1) + 1] = h[q - 1] /\ (q - 1) + 1 = q
        BY <2>4, <3>1
      <3> QED BY <3>2
    <2>6. h[q] = Rolled(h[q - 1], s, q)
      BY <1>2, <2>2, <2>3
    <2>7. g[q + 1] = Rolled(g[q], t, q + 1)
      <3>1. q + 1 # k + 1 /\ (q + 1) - 1 = q
        BY <1>0, <2>3, <2>4
      <3> QED BY <1>3, <2>2, <3>1
    <2>8. Rolled(h[q - 1], s, q) = Rolled(h[q - 1], t, q + 1)
      BY <1>1, <2>4 DEF Rolled
    <2> QED BY <2>2, <2>5, <2>6, <2>7, <2>8
  <1>5. p \in k .. end
    BY DEF k
  <1> QED BY <1>4, <1>5 DEF g, h, t

(* Nor does the cut.                                                       *)
LEMMA CutShifts ==
  ASSUME NEW s \in Seq(Bytes), NEW b \in Bytes, NEW f \in 0 .. Len(s), NEW len \in Nat,
         f + len <= Len(s)
  PROVE  cut(<<b>> \o s, f + 1, len) = cut(s, f, len)
  <1> DEFINE t == <<b>> \o s
             lim == Limit(len)
  <1>1. lim \in Nat /\ lim <= len /\ f \in Nat /\ min_size \in Nat /\ max_size \in Nat
    BY Sizes DEF Limit
  <1>2. ASSUME NEW n \in min_size + 1 .. lim
        PROVE  Rolling(t, f + 1, (f + 1) + lim)[(f + 1) + n] = Rolling(s, f, f + lim)[f + n]
    <2>1. /\ f + lim \in Nat /\ f + lim <= Len(s) /\ f + n \in f + min_size .. f + lim
          /\ (f + 1) + lim = (f + lim) + 1 /\ (f + 1) + n = (f + n) + 1
      BY <1>1
    <2> HIDE DEF lim
    <2> QED BY <1>1, <2>1, RollingShifts
  <1> HIDE DEF t, lim
  <1>3. Hits(t, f + 1, lim) = Hits(s, f, lim)
    <2> DEFINE Mask(n) == IF n <= AvgSize THEN mask_hard ELSE mask_easy
               A(n) == Rolling(t, f + 1, (f + 1) + lim)[(f + 1) + n]
               B(n) == Rolling(s, f, f + lim)[f + n]
    <2>1. /\ Hits(t, f + 1, lim) = {n \in min_size + 1 .. lim : A(n) % Mask(n) = 0}
          /\ Hits(s, f, lim) = {n \in min_size + 1 .. lim : B(n) % Mask(n) = 0}
      BY DEF Hits
    <2>2. \A n \in min_size + 1 .. lim : A(n) = B(n)
      BY <1>2
    <2> HIDE DEF A, B, Mask
    <2> QED BY <2>1, <2>2
  <1>4. PICK H : H = Hits(t, f + 1, lim) /\ H = Hits(s, f, lim)
    BY <1>3
  <1> DEFINE End(hits) == IF hits = {} THEN lim ELSE CHOOSE n \in hits : \A m \in hits : n <= m
  <1>5. /\ cut(t, f + 1, len) = IF len <= min_size THEN len ELSE End(Hits(t, f + 1, lim))
        /\ cut(s, f, len) = IF len <= min_size THEN len ELSE End(Hits(s, f, lim))
    BY DEF cut, lim
  <1> HIDE DEF End
  <1> QED BY <1>4, <1>5 DEF t
-----------------------------------------------------------------------------
(* The chunking of a whole stream, from each place in it on.               *)

NextEnd(s, f) == f + cut(s, f, Len(s) - f)

Chains(g, s, k) ==
  g = [f \in k .. Len(s) |-> IF f = Len(s) THEN {} ELSE {NextEnd(s, f)} \cup g[NextEnd(s, f)]]

From(s) == CHOOSE g : Chains(g, s, 0)

(* The next end is further on, within the stream.                          *)
LEMMA EndMoves ==
  ASSUME NEW s \in Seq(Bytes), NEW f \in 0 .. Len(s), f # Len(s)
  PROVE  NextEnd(s, f) \in f + 1 .. Len(s)
  <1>1. Len(s) - f \in Nat \ {0} /\ Len(s) \in Nat /\ f \in Nat
    OBVIOUS
  <1>2. cut(s, f, Len(s) - f) \in 1 .. Len(s) - f
    BY <1>1, CutBounds
  <1> QED BY <1>1, <1>2 DEF NextEnd

(* Every stream has its chunking.                                          *)
LEMMA FromChains ==
  ASSUME NEW s \in Seq(Bytes)
  PROVE  /\ From(s)[Len(s)] = {} /\ Ends(s) = From(s)[0]
         /\ \A f \in 0 .. Len(s) :
              f # Len(s) => From(s)[f] = {NextEnd(s, f)} \cup From(s)[NextEnd(s, f)]
  <1> DEFINE L == Len(s)
             Fails == {k \in 0 .. L : ~\E g : Chains(g, s, k)}
  <1>0. L \in Nat
    OBVIOUS
  <1>e. \A f \in 0 .. L : f # L => NextEnd(s, f) \in f + 1 .. L
    BY EndMoves
  <1> HIDE DEF L
  <1>1. ASSUME Fails # {} PROVE FALSE
    <2>1. PICK k \in Fails : \A m \in Fails : m <= k
      <3>1. Fails \in SUBSET (0 .. L)
        OBVIOUS
      <3> HIDE DEF Fails
      <3> QED BY <1>0, <1>1, <3>1, Greatest
    <2>2. k \in 0 .. L /\ ~\E g : Chains(g, s, k)
      BY <2>1
    <2>3. CASE k = L
      <3>1. \A f \in k .. L : f = L
        BY <1>0, <2>3
      <3>2. PICK g : g = [f \in k .. L |-> {}]
        OBVIOUS
      <3>3. g = [f \in k .. L |-> IF f = L THEN {} ELSE {NextEnd(s, f)} \cup g[NextEnd(s, f)]]
        BY <3>1, <3>2
      <3> QED BY <2>2, <3>3 DEF Chains, L
    <2>4. CASE k # L
      <3>1. k + 1 \in 0 .. L /\ ~(k + 1 <= k) /\ k \in Nat
        BY <1>0, <2>2, <2>4
      <3>2. k + 1 \notin Fails
        BY <2>1, <3>1
      <3>3. PICK h : Chains(h, s, k + 1)
        BY <3>1, <3>2
      <3>4. \A f \in k + 1 .. L :
              h[f] = IF f = L THEN {} ELSE {NextEnd(s, f)} \cup h[NextEnd(s, f)]
        BY <3>3 DEF Chains, L
      <3>5. PICK g : g = [f \in k .. L |-> IF f = k THEN {NextEnd(s, k)} \cup h[NextEnd(s, k)]
                                                  ELSE h[f]]
        OBVIOUS
      <3>6. \A f \in k .. L : g[f] = IF f = L THEN {} ELSE {NextEnd(s, f)} \cup g[NextEnd(s, f)]
        <4> SUFFICES ASSUME NEW f \in k .. L
                     PROVE  g[f] = IF f = L THEN {} ELSE {NextEnd(s, f)} \cup g[NextEnd(s, f)]
          OBVIOUS
        <4>1. f \in 0 .. L /\ (f = k \/ f \in k + 1 .. L)
          BY <1>0, <3>1
        <4>2. CASE f = L
          BY <1>0, <2>4, <3>1, <3>4, <3>5, <4>1, <4>2
        <4>3. CASE f # L
          <5>1. NextEnd(s, f) \in k .. L /\ NextEnd(s, f) # k
            BY <1>0, <1>e, <3>1, <4>1, <4>3
          <5>2. g[NextEnd(s, f)] = h[NextEnd(s, f)]
            BY <3>5, <5>1
          <5>3. g[f] = {NextEnd(s, f)} \cup h[NextEnd(s, f)]
            BY <3>4, <3>5, <4>1, <4>3
          <5> QED BY <4>3, <5>2, <5>3
        <4> QED BY <4>2, <4>3
      <3>7. g = [f \in k .. L |-> g[f]]
        BY <3>5
      <3>8. g = [f \in k .. L |-> IF f = L THEN {} ELSE {NextEnd(s, f)} \cup g[NextEnd(s, f)]]
        BY <3>6, <3>7
      <3> QED BY <2>2, <3>8 DEF Chains, L
    <2> QED BY <2>3, <2>4
  <1>2. \E g : Chains(g, s, 0)
    <2>1. 0 \in 0 .. L
      BY <1>0
    <2> QED BY <1>1, <2>1
  <1>3. Chains(From(s), s, 0)
    BY <1>2 DEF From
  <1>4. Ends(s) = From(s)[0]
    BY DEF Ends, From, Chains, NextEnd
  <1>5. PICK g : g = From(s)
    OBVIOUS
  <1>6. \A f \in 0 .. L : g[f] = IF f = L THEN {} ELSE {NextEnd(s, f)} \cup g[NextEnd(s, f)]
    BY <1>3, <1>5 DEF Chains, L
  <1>7. g[L] = {} /\ \A f \in 0 .. L : f # L => g[f] = {NextEnd(s, f)} \cup g[NextEnd(s, f)]
    <2>1. L \in 0 .. L
      BY <1>0
    <2> QED BY <1>6, <2>1
  <1> HIDE DEF Fails
  <1> QED BY <1>4, <1>5, <1>7 DEF L

(* The chunking from a place on is the same with a byte before the stream. *)
LEMMA FromShifts ==
  ASSUME NEW s \in Seq(Bytes), NEW b \in Bytes, NEW f \in 0 .. Len(s)
  PROVE  From(<<b>> \o s)[f + 1] = {e + 1 : e \in From(s)[f]}
  <1> DEFINE t == <<b>> \o s
             L == Len(s)
             Up(E) == {e + 1 : e \in E}
             Fails == {k \in 0 .. L : From(t)[k + 1] # Up(From(s)[k])}
  <1>0. t \in Seq(Bytes) /\ Len(t) = L + 1 /\ L \in Nat
    OBVIOUS
  <1>1. \A k \in 0 .. L : k # L => NextEnd(t, k + 1) = NextEnd(s, k) + 1
    <2> SUFFICES ASSUME NEW k \in 0 .. L, k # L PROVE NextEnd(t, k + 1) = NextEnd(s, k) + 1
      OBVIOUS
    <2>1. k + (Len(s) - k) <= Len(s) /\ Len(s) - k \in Nat /\ Len(t) - (k + 1) = Len(s) - k
      BY <1>0
    <2>2. cut(t, k + 1, Len(s) - k) = cut(s, k, Len(s) - k)
      BY <2>1, CutShifts
    <2>3. NextEnd(s, k) \in Nat /\ NextEnd(s, k) = k + cut(s, k, Len(s) - k)
      BY <1>0, EndMoves DEF NextEnd
    <2>4. cut(s, k, Len(s) - k) \in Nat
      BY <2>1, CutBounds
    <2>5. NextEnd(t, k + 1) = (k + 1) + cut(s, k, Len(s) - k)
      <3> HIDE DEF t
      <3> QED BY <2>1, <2>2 DEF NextEnd
    <2>6. k \in Nat
      BY <1>0
    <2> QED BY <2>3, <2>4, <2>5, <2>6
  <1>2. /\ From(s)[L] = {} /\ From(t)[L + 1] = {}
        /\ \A k \in 0 .. L : k # L =>
             /\ NextEnd(s, k) \in k + 1 .. L
             /\ From(s)[k] = {NextEnd(s, k)} \cup From(s)[NextEnd(s, k)]
             /\ From(t)[k + 1] = {NextEnd(t, k + 1)} \cup From(t)[NextEnd(t, k + 1)]
    <2> HIDE DEF t
    <2>1. \A k \in 0 .. L : k # L => k + 1 \in 0 .. Len(t) /\ k + 1 # Len(t)
      BY <1>0
    <2> QED BY <1>0, <2>1, FromChains, EndMoves
  <1> HIDE DEF t, L, Up
  <1>3. ASSUME Fails # {} PROVE FALSE
    <2>1. PICK k \in Fails : \A m \in Fails : m <= k
      <3>1. Fails \in SUBSET (0 .. L)
        OBVIOUS
      <3> HIDE DEF Fails
      <3> QED BY <1>0, <1>3, <3>1, Greatest
    <2>2. k \in 0 .. L /\ From(t)[k + 1] # Up(From(s)[k])
      BY <2>1
    <2>3. k # L
      BY <1>2, <2>2 DEF Up
    <2>4. PICK e : e = NextEnd(s, k)
      OBVIOUS
    <2>5. e \in 0 .. L /\ ~(e <= k)
      BY <1>0, <1>2, <2>2, <2>3, <2>4
    <2>6. From(t)[e + 1] = Up(From(s)[e])
      BY <2>1, <2>5
    <2>7. From(s)[k] = {e} \cup From(s)[e] /\ From(t)[k + 1] = {e + 1} \cup From(t)[e + 1]
      BY <1>1, <1>2, <2>2, <2>3, <2>4
    <2>8. Up({e} \cup From(s)[e]) = {e + 1} \cup Up(From(s)[e])
      BY DEF Up
    <2> QED BY <2>2, <2>6, <2>7, <2>8
  <1>4. f \in 0 .. L
    BY DEF L
  <1> QED BY <1>3, <1>4 DEF t, Up

(* From one of its ends on, a chunking is the chunking from there.         *)
LEMMA FromAfter ==
  ASSUME NEW s \in Seq(Bytes), NEW f \in 0 .. Len(s)
  PROVE  \A e \in From(s)[f] : e \in f + 1 .. Len(s) /\ {x \in From(s)[f] : x > e} = From(s)[e]
  <1> DEFINE L == Len(s)
             OK(k) == \A e \in From(s)[k] :
                        e \in k + 1 .. L /\ {x \in From(s)[k] : x > e} = From(s)[e]
             Fails == {k \in 0 .. L : ~OK(k)}
  <1>0. L \in Nat
    OBVIOUS
  <1>2. /\ From(s)[L] = {}
        /\ \A k \in 0 .. L : k # L =>
             /\ NextEnd(s, k) \in k + 1 .. L
             /\ From(s)[k] = {NextEnd(s, k)} \cup From(s)[NextEnd(s, k)]
    BY FromChains, EndMoves
  <1> HIDE DEF L
  <1>3. ASSUME Fails # {} PROVE FALSE
    <2>1. PICK k \in Fails : \A m \in Fails : m <= k
      <3>1. Fails \in SUBSET (0 .. L)
        OBVIOUS
      <3> HIDE DEF Fails
      <3> QED BY <1>0, <1>3, <3>1, Greatest
    <2>2. k \in 0 .. L /\ ~OK(k)
      BY <2>1
    <2>3. k # L
      BY <1>2, <2>2
    <2>4. PICK c : c = NextEnd(s, k)
      OBVIOUS
    <2>5. c \in k + 1 .. L /\ c \in 0 .. L /\ ~(c <= k) /\ From(s)[k] = {c} \cup From(s)[c]
      BY <1>0, <1>2, <2>2, <2>3, <2>4
    <2>6. OK(c)
      BY <2>1, <2>5
    <2>7. \A x \in From(s)[c] : x \in c + 1 .. L
      BY <2>6
    <2>8. {x \in From(s)[k] : x > c} = From(s)[c]
      BY <1>0, <2>5, <2>7
    <2>9. ASSUME NEW e \in From(s)[c] PROVE {x \in From(s)[k] : x > e} = From(s)[e]
      <3>1. ~(c > e)
        BY <1>0, <2>5, <2>7
      <3>2. {x \in From(s)[k] : x > e} = {x \in From(s)[c] : x > e}
        BY <2>5, <3>1
      <3> QED BY <2>6, <3>2
    <2>10. \A e \in From(s)[c] : e \in k + 1 .. L
      BY <1>0, <2>2, <2>5, <2>7
    <2> QED BY <2>2, <2>5, <2>8, <2>9, <2>10
  <1>4. f \in 0 .. L
    BY DEF L
  <1> QED BY <1>3, <1>4 DEF L

(* The chunks handed on are those of the whole stream.                     *)
LEMMA CutsAreEnds ==
  ASSUME Inv, pc = "done"
  PROVE  {cuts[i] : i \in 1 .. Len(cuts)} = Ends(input)
  <1> DEFINE L == Len(input)
             N == Len(cuts)
             At(i) == IF i = 0 THEN 0 ELSE cuts[i]
             Rest(i) == {cuts[j] : j \in i + 1 .. N}
             Fails == {i \in 0 .. N : From(input)[At(i)] # Rest(i)}
  <1>0. /\ input \in Seq(Bytes) /\ L \in Nat /\ N \in Nat
        /\ \A i \in 1 .. N : cuts[i] \in 0 .. L
    <2>1. input \in Seq(Bytes)
      BY ChunkerAssumption DEF Inv, TypeOK
    <2> QED BY <2>1, Typed
  <1>1. At(N) = L
    <2>1. front = L /\ front = IF cuts = <<>> THEN 0 ELSE cuts[N]
      BY DEF Inv, ChunksTile
    <2>2. cuts = <<>> <=> N = 0
      BY Typed
    <2> QED BY <2>1, <2>2
  <1>2. \A i \in 1 .. N : cuts[i] > At(i - 1) /\ cuts[i] = NextEnd(input, At(i - 1))
    <2>1. \A i \in 1 .. N : ChunkStart(i) = At(i - 1)
      BY <1>0 DEF ChunkStart
    <2> QED BY <2>1 DEF Inv, ContentDecides, ChunksTile, NextEnd
  <1>3. \A i \in 0 .. N : At(i) \in 0 .. L
    BY <1>0
  <1> HIDE DEF L, N, At, Rest
  <1>4. ASSUME Fails # {} PROVE FALSE
    <2>1. PICK i \in Fails : \A m \in Fails : m <= i
      <3>1. Fails \in SUBSET (0 .. N)
        OBVIOUS
      <3> HIDE DEF Fails
      <3> QED BY <1>0, <1>4, <3>1, Greatest
    <2>2. i \in 0 .. N /\ From(input)[At(i)] # Rest(i)
      BY <2>1
    <2>3. i # N
      <3>1. From(input)[At(N)] = {}
        BY <1>0, <1>1, FromChains DEF L
      <3>2. Rest(N) = {}
        BY <1>0 DEF Rest
      <3> QED BY <2>2, <3>1, <3>2
    <2>4. i + 1 \in 1 .. N /\ i + 1 \in 0 .. N /\ ~(i + 1 <= i) /\ (i + 1) - 1 = i /\ i + 1 # 0
      BY <1>0, <2>2, <2>3
    <2>5. From(input)[At(i + 1)] = Rest(i + 1)
      BY <2>1, <2>4
    <2>6. cuts[i + 1] = NextEnd(input, At(i)) /\ cuts[i + 1] > At(i) /\ At(i + 1) = cuts[i + 1]
      BY <1>2, <2>4 DEF At
    <2>7. At(i) \in 0 .. L /\ At(i) # L
      BY <1>0, <1>3, <2>2, <2>4, <2>6
    <2>8. From(input)[At(i)] = {cuts[i + 1]} \cup Rest(i + 1)
      BY <1>0, <2>5, <2>6, <2>7, FromChains DEF L
    <2>9. Rest(i) = {cuts[i + 1]} \cup Rest(i + 1)
      <3>1. \A j : j \in i + 1 .. N <=> j = i + 1 \/ j \in (i + 1) + 1 .. N
        BY <1>0, <2>2, <2>4
      <3> QED BY <3>1 DEF Rest
    <2> QED BY <2>2, <2>8, <2>9
  <1>5. From(input)[At(0)] = Rest(0)
    BY <1>0, <1>4
  <1>6. At(0) = 0 /\ Rest(0) = {cuts[i] : i \in 1 .. Len(cuts)}
    BY DEF At, Rest, N
  <1> QED BY <1>0, <1>5, <1>6, FromChains

(* "Inserting or deleting bytes shifts only the chunks local to the edit": *)
(* for every stream and every byte put before it, the chunks after the     *)
(* first end they have in common are the same.                             *)
THEOREM EditsStayLocal == Spec => []EditsAreLocal
  <1>1. Inv => EditsAreLocal
    <2> DEFINE Mine == {cuts[i] : i \in 1 .. Len(cuts)}
               Edited(b) == {e - 1 : e \in Ends(<<b>> \o input)}
    <2> SUFFICES ASSUME Inv, pc = "done", NEW b \in Bytes, NEW e \in Mine \cap Edited(b)
                 PROVE  {x \in Mine : x > e} = {x \in Edited(b) : x > e}
      BY Zenon DEF EditsAreLocal
    <2>0. PICK mine, edited : mine = Mine /\ edited = Edited(b)
      OBVIOUS
    <2>1. PICK s, t : s = input /\ t = <<b>> \o input
      OBVIOUS
    <2>2. s \in Seq(Bytes) /\ t \in Seq(Bytes) /\ Len(t) = Len(s) + 1 /\ Len(s) \in Nat
      <3>1. input \in Seq(Bytes)
        BY ChunkerAssumption DEF Inv, TypeOK
      <3> QED BY <2>1, <3>1
    <2>3. mine = From(s)[0] /\ edited = {x - 1 : x \in From(t)[0]}
      BY <2>0, <2>1, <2>2, CutsAreEnds, FromChains
    <2> HIDE DEF Mine, Edited
    <2>4. e \in 1 .. Len(s) /\ {x \in mine : x > e} = From(s)[e]
      <3>1. 0 \in 0 .. Len(s) /\ e \in From(s)[0]
        BY <2>0, <2>2, <2>3
      <3> QED BY <2>2, <2>3, <3>1, FromAfter
    <2>5. PICK y \in From(t)[0] : e = y - 1
      BY <2>0, <2>3
    <2>6. y \in 1 .. Len(t) /\ {x \in From(t)[0] : x > y} = From(t)[y]
      BY <2>2, FromAfter
    <2>7. y = e + 1
      BY <2>4, <2>5, <2>6
    <2>8. From(t)[y] = {x + 1 : x \in From(s)[e]}
      BY <2>1, <2>2, <2>4, <2>7, FromShifts
    <2>9. \A x \in From(t)[0] : x \in Nat
      BY <2>2, FromAfter
    <2>10. \A x \in From(s)[e] : x \in Nat
      BY <2>2, <2>4, FromAfter
    <2>11. {x \in edited : x > e} = {x - 1 : x \in {z \in From(t)[0] : z > y}}
      <3>1. \A z \in From(t)[0] : z - 1 > e <=> z > y
        BY <2>4, <2>7, <2>9
      <3> QED BY <2>3, <3>1
    <2>12. PICK R : R = From(s)[e]
      OBVIOUS
    <2>13. {x - 1 : x \in {z + 1 : z \in R}} = R
      <3>1. \A z \in R : (z + 1) - 1 = z
        BY <2>10, <2>12
      <3> QED BY <3>1
    <2> QED BY <2>0, <2>4, <2>6, <2>8, <2>11, <2>12, <2>13
  <1> QED BY <1>1, Invariance, PTL
=============================================================================
