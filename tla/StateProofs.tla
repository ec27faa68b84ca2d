------------------------------ MODULE StateProofs ------------------------------
(***************************************************************************)
(* Lemmas about the operators of StoreState that the other proofs cite:    *)
(* what they return, and what sums of bytes do when a set grows.           *)
(*                                                                         *)
(* What a recursive function computes is proved by least counterexample:   *)
(* a set of numbers at which a claim fails has a least element (NatLeast), *)
(* and the step from the number before it refutes it.                      *)
(***************************************************************************)
EXTENDS StoreState, WellFoundedInduction, FiniteSetTheorems, TLAPS

Txn == [kind : {"put"}, name : Names, manifest : Manifest, seals : SUBSET SegRec]
         \cup [kind : {"remove"}, name : Names]
         \cup [kind : {"compact"}, retired : Volumes, seals : SUBSET SegRec,
               repoint : Namespace]

-----------------------------------------------------------------------------
(* The operators of StoreState return what their names say.                *)

(* What a namespace references are chunk references.                       *)
LEMMA RefsType ==
  ASSUME NEW ns \in Namespace
  PROVE  /\ \A n \in Stored(ns) : ns[n] \in Manifest
         /\ ChunkRefs(ns) \subseteq ChunkRef
         /\ Known(ns) \subseteq ChunkRefs(ns)
         /\ \A v : live_ids(ns, v) \subseteq Chunks
  <1>1. \A n \in Stored(ns) : ns[n] \in Manifest
    BY DEF Stored, Namespace
  <1>2. ChunkRefs(ns) \subseteq ChunkRef
    BY <1>1 DEF ChunkRefs, Manifest
  <1>3. Known(ns) \subseteq ChunkRefs(ns)
    BY DEF Known
  <1>4. \A v : live_ids(ns, v) \subseteq Chunks
    BY <1>2 DEF live_ids, Ids, RefsOn, ChunkRef
  <1> QED BY <1>1, <1>2, <1>3, <1>4

(* A sealed segment has one record.                                        *)
LEMMA SealType ==
  ASSUME NEW v \in Volumes, NEW seg \in SegId, NEW ids \in SUBSET Chunks
  PROVE  Seal(v, seg, ids) \in SUBSET SegRec
  BY DEF Seal, SegRec

(* No manifest is NoFile.                                                  *)
LEMMA NoFileIsNoManifest == NoFile \notin Manifest
  BY NoChunkAssumption DEF NoFile, Manifest

(* The manifests of a compaction are a namespace again.                    *)
LEMMA RepointedType ==
  ASSUME NEW ns \in Namespace, NEW v, NEW dest \in Volumes, NEW seg \in SegId
  PROVE  Repointed(ns, v, dest, seg) \in Namespace
  <1> DEFINE moved(n) ==
        {IF r.vol = v THEN [id |-> r.id, vol |-> dest, seg |-> seg] ELSE r : r \in ns[n]}
  <1>1. \A n \in Stored(ns) : moved(n) \in Manifest
    <2> SUFFICES ASSUME NEW n \in Stored(ns), NEW r \in ns[n]
                 PROVE  (IF r.vol = v THEN [id |-> r.id, vol |-> dest, seg |-> seg] ELSE r)
                          \in ChunkRef
      BY DEF Manifest
    <2>1. r \in ChunkRef
      BY RefsType DEF Manifest
    <2> QED BY <2>1 DEF ChunkRef
  <1> QED BY <1>1 DEF Repointed, Namespace

(* A transaction takes a state to a state.                                 *)
LEMMA ApplyType ==
  ASSUME NEW st \in State, NEW txn \in Txn
  PROVE  apply_txn(st, txn) \in State
  <1>1. st.ns \in Namespace /\ st.idx \in SUBSET SegRec
    BY DEF State
  <1>2. \A seals \in SUBSET SegRec : InsertSeals(st.idx, seals) \in SUBSET SegRec
    BY <1>1 DEF InsertSeals
  <1>3. CASE txn.kind = "put"
    <2>1. txn.name \in Names /\ txn.manifest \in Manifest /\ txn.seals \in SUBSET SegRec
      BY <1>3 DEF Txn
    <2>2. [st.ns EXCEPT ![txn.name] = txn.manifest] \in Namespace
      BY <1>1, <2>1 DEF Namespace
    <2> QED BY <1>2, <1>3, <2>1, <2>2 DEF apply_txn, State
  <1>4. CASE txn.kind = "remove"
    <2>1. [st.ns EXCEPT ![txn.name] = NoFile] \in Namespace
      BY <1>1 DEF Namespace
    <2> QED BY <1>1, <1>4, <2>1 DEF apply_txn, State
  <1>5. CASE txn.kind = "compact"
    <2>1. txn.seals \in SUBSET SegRec /\ txn.repoint \in Namespace
      BY <1>5 DEF Txn
    <2>2. [n \in Names |-> IF txn.repoint[n] # NoFile THEN txn.repoint[n] ELSE st.ns[n]]
            \in Namespace
      BY <1>1, <2>1 DEF Namespace
    <2>3. {r \in InsertSeals(st.idx, txn.seals) : r.vol # txn.retired} \in SUBSET SegRec
      BY <1>2, <2>1
    <2> QED BY <1>5, <2>2, <2>3 DEF apply_txn, State
  <1> QED BY <1>3, <1>4, <1>5 DEF Txn

-----------------------------------------------------------------------------
(* Least and greatest numbers.                                             *)

(* A non-empty set of numbers has a least element.                         *)
LEMMA NatLeast ==
  ASSUME NEW T \in SUBSET Nat, T # {}
  PROVE  \E n \in T : \A m \in T : n <= m
  <1> DEFINE R == OpToRel(<, Nat)
  <1>1. IsWellFoundedOn(R, Nat)
    BY NatLessThanWellFounded
  <1>2. \A x, y \in Nat : <<x, y>> \in R <=> x < y
    BY DEF OpToRel
  <1> HIDE DEF R
  <1>3. \E x \in T : \A y \in T : ~(<<y, x>> \in R)
    BY <1>1, WFMin
  <1>4. PICK x \in T : \A y \in T : ~(<<y, x>> \in R)
    BY <1>3
  <1>5. ASSUME NEW y \in T PROVE x <= y
    <2>1. x \in Nat /\ y \in Nat
      OBVIOUS
    <2>2. ~(<<y, x>> \in R)
      BY <1>4
    <2>3. ~(y < x)
      BY <1>2, <2>1, <2>2, Zenon
    <2> QED BY <2>1, <2>3
  <1> QED BY <1>5

(* Max picks the greatest element of a bounded set of numbers.             *)
LEMMA MaxOfBounded ==
  ASSUME NEW T \in SUBSET Nat, T # {}, NEW k \in Nat, \A n \in T : n <= k
  PROVE  Max(T) \in T /\ \A n \in T : Max(T) >= n
  <1> DEFINE gaps == {k - n : n \in T}
  <1>1. gaps \in SUBSET Nat /\ gaps # {}
    <2>1. \A n \in T : n \in Nat /\ k - n \in Nat
      OBVIOUS
    <2> QED BY <2>1
  <1>2. PICK d \in gaps : \A e \in gaps : d <= e
    BY <1>1, NatLeast
  <1>3. PICK n \in T : d = k - n
    OBVIOUS
  <1>4. \A m \in T : n >= m
    BY <1>2, <1>3
  <1> QED BY <1>4 DEF Max

(* A greatest element is the one Max picks.                                *)
LEMMA MaxIs ==
  ASSUME NEW T \in SUBSET Nat, NEW n \in T, \A m \in T : m <= n
  PROVE  Max(T) = n
  <1>1. Max(T) \in T /\ \A m \in T : Max(T) >= m
    BY DEF Max
  <1>2. Max(T) \in Nat /\ n \in Nat /\ Max(T) >= n /\ Max(T) <= n
    BY <1>1
  <1> QED BY <1>2

(* Of some subsets of a finite set, one has no other below it.             *)
LEMMA LeastSubset ==
  ASSUME NEW S, IsFiniteSet(S), NEW C \in SUBSET (SUBSET S), C # {}
  PROVE  \E T \in C : \A U \in C : U \subseteq T => U = T
  <1> DEFINE cards == {Cardinality(T) : T \in C}
  <1>1. \A T \in SUBSET S : IsFiniteSet(T) /\ Cardinality(T) \in Nat
    BY FS_Subset, FS_CardinalityType
  <1>2. cards \in SUBSET Nat /\ cards # {}
    BY <1>1
  <1>3. PICK n \in cards : \A m \in cards : n <= m
    BY <1>2, NatLeast
  <1>4. PICK T \in C : n = Cardinality(T)
    OBVIOUS
  <1>5. ASSUME NEW U \in C, U \subseteq T PROVE U = T
    <2>1. IsFiniteSet(T) /\ Cardinality(U) \in Nat /\ Cardinality(T) \in Nat
      BY <1>1
    <2>2. Cardinality(T) <= Cardinality(U) /\ Cardinality(U) <= Cardinality(T)
      BY <1>3, <1>4, <1>5, <2>1, FS_Subset
    <2> QED BY <1>5, <2>1, <2>2, FS_Subset
  <1> QED BY <1>5

-----------------------------------------------------------------------------
(* Sums over finite sets.  MapThenSumSet takes the summands one by one, as *)
(* CHOOSE picks them, by a function that is defined by recursion on        *)
(* subsets: it exists, and the order changes nothing.                      *)

Pick(T) == CHOOSE x \in T : TRUE

(* g sums w over the members of D, which is closed under taking Pick out.  *)
IsSum(g, w, D) ==
  g = [T \in D |-> IF T = {} THEN 0 ELSE w[Pick(T)] + g[T \ {Pick(T)}]]

Total(w, S) == (CHOOSE g : IsSum(g, w, SUBSET S))[S]

(* What is picked from a set is in it.                                     *)
LEMMA Picked == ASSUME NEW T, T # {} PROVE Pick(T) \in T
  BY DEF Pick

(* A sum over the subsets of a finite set exists: by a least set, in the   *)
(* order of inclusion, of which there is none.                             *)
LEMMA SumExists ==
  ASSUME NEW w, NEW S, IsFiniteSet(S)
  PROVE  \E g : IsSum(g, w, SUBSET S)
  <1> DEFINE Small(n) == {T \in SUBSET S : Cardinality(T) <= n}
             Fails == {n \in Nat : ~\E g : IsSum(g, w, Small(n))}
  <1>1. \A T \in SUBSET S : IsFiniteSet(T) /\ Cardinality(T) \in Nat
    BY FS_Subset, FS_CardinalityType
  <1>2. ASSUME NEW T \in SUBSET S, T # {}
        PROVE  /\ T \ {Pick(T)} \in SUBSET S
               /\ Cardinality(T \ {Pick(T)}) = Cardinality(T) - 1
    BY <1>1, <1>2, Picked, FS_RemoveElement
  <1>3. \E g : IsSum(g, w, Small(0))
    <2> DEFINE g == [T \in Small(0) |-> 0]
    <2>1. \A T \in Small(0) : T = {}
      BY <1>1, FS_EmptySet
    <2>2. IsSum(g, w, Small(0))
      BY <2>1 DEF IsSum
    <2> QED BY <2>2
  <1>4. ASSUME NEW n \in Nat, NEW g, IsSum(g, w, Small(n))
        PROVE  \E h : IsSum(h, w, Small(n + 1))
    <2> DEFINE h == [T \in Small(n + 1) |->
                       IF T = {} THEN 0 ELSE w[Pick(T)] + g[T \ {Pick(T)}]]
    <2>1. \A T \in Small(n) : g[T] = IF T = {} THEN 0 ELSE w[Pick(T)] + g[T \ {Pick(T)}]
      BY <1>4 DEF IsSum
    <2>2. ASSUME NEW T \in Small(n + 1), T # {}
          PROVE  T \ {Pick(T)} \in Small(n) /\ T \ {Pick(T)} \in Small(n + 1)
      <3>1. Cardinality(T) \in Nat /\ Cardinality(T) <= n + 1 /\ T \in SUBSET S
        BY <1>1
      <3>2. Cardinality(T) - 1 <= n /\ Cardinality(T) - 1 <= n + 1
        BY <3>1
      <3> QED BY <1>2, <2>2, <3>1, <3>2
    <2>3. Small(n) \subseteq Small(n + 1)
      BY <1>1
    <2> HIDE DEF Small
    <2>4. \A T \in Small(n) : h[T] = g[T]
      BY <2>1, <2>3
    <2>5. \A T \in Small(n + 1) : T # {} => g[T \ {Pick(T)}] = h[T \ {Pick(T)}]
      BY <2>2, <2>4
    <2>6. h = [T \in Small(n + 1) |-> IF T = {} THEN 0 ELSE w[Pick(T)] + h[T \ {Pick(T)}]]
      BY <2>5
    <2> HIDE DEF h
    <2>7. IsSum(h, w, Small(n + 1))
      BY <2>6 DEF IsSum
    <2> QED BY <2>7
  <1>5. Fails = {}
    <2> SUFFICES ASSUME Fails # {} PROVE FALSE
      OBVIOUS
    <2>1. PICK n \in Fails : \A m \in Fails : n <= m
      BY NatLeast
    <2>2. n # 0
      BY <1>3, <2>1
    <2>3. n - 1 \in Nat /\ n - 1 \notin Fails /\ (n - 1) + 1 = n
      <3>1. n \in Nat /\ n - 1 \in Nat /\ ~(n <= n - 1) /\ (n - 1) + 1 = n
        BY <2>2
      <3> HIDE DEF Fails
      <3> QED BY <2>1, <3>1
    <2>4. PICK g : IsSum(g, w, Small(n - 1))
      BY <2>3
    <2>5. \E h : IsSum(h, w, Small((n - 1) + 1))
      BY <1>4, <2>3, <2>4
    <2> QED BY <2>1, <2>3, <2>5
  <1>6. Cardinality(S) \in Nat /\ Small(Cardinality(S)) = SUBSET S
    BY <1>1, FS_Subset
  <1> QED BY <1>5, <1>6

(* Two sums of the same summands agree.                                    *)
LEMMA SumsAgree ==
  ASSUME NEW S, IsFiniteSet(S), NEW w, NEW u, NEW g, NEW h, NEW R \in SUBSET S,
         IsSum(g, w, SUBSET S), IsSum(h, u, SUBSET R), \A x \in R : w[x] = u[x]
  PROVE  g[R] = h[R]
  <1> DEFINE Fails == {T \in SUBSET R : g[T] # h[T]}
  <1>1. Fails \in SUBSET (SUBSET S)
    OBVIOUS
  <1>2. \A T \in SUBSET R : /\ g[T] = IF T = {} THEN 0 ELSE w[Pick(T)] + g[T \ {Pick(T)}]
                            /\ h[T] = IF T = {} THEN 0 ELSE u[Pick(T)] + h[T \ {Pick(T)}]
    BY DEF IsSum
  <1>3. ASSUME Fails # {} PROVE FALSE
    <2> HIDE DEF Fails
    <2>1. PICK T \in Fails : \A U \in Fails : U \subseteq T => U = T
      BY <1>1, <1>3, LeastSubset
    <2> USE DEF Fails
    <2>2. T # {}
      BY <1>2, <2>1
    <2>3. Pick(T) \in T /\ T \ {Pick(T)} \in SUBSET R /\ T \ {Pick(T)} \notin Fails
      BY <2>1, <2>2, Picked
    <2>4. g[T \ {Pick(T)}] = h[T \ {Pick(T)}] /\ w[Pick(T)] = u[Pick(T)]
      BY <2>3
    <2> QED BY <1>2, <2>1, <2>2, <2>4
  <1> QED BY <1>3

(* The sum of a set is the same in every function that sums over subsets,  *)
(* so Total does not depend on the one that was chosen.                    *)
LEMMA TotalIs ==
  ASSUME NEW S, IsFiniteSet(S), NEW w, NEW g, IsSum(g, w, SUBSET S), NEW T \in SUBSET S
  PROVE  Total(w, T) = g[T]
  <1>1. IsFiniteSet(T)
    BY FS_Subset
  <1>2. PICK h : h = CHOOSE f : IsSum(f, w, SUBSET T)
    OBVIOUS
  <1>3. IsSum(h, w, SUBSET T)
    BY <1>1, <1>2, SumExists
  <1>4. Total(w, T) = h[T]
    BY <1>2 DEF Total
  <1>5. g[T] = h[T]
    BY <1>3, SumsAgree
  <1> QED BY <1>4, <1>5

(* Equal weights make equal sums.                                          *)
LEMMA TotalOfEqual ==
  ASSUME NEW S, IsFiniteSet(S), NEW w, NEW u, \A x \in S : w[x] = u[x]
  PROVE  Total(w, S) = Total(u, S)
  <1>1. PICK g : IsSum(g, w, SUBSET S)
    BY SumExists
  <1>2. PICK h : IsSum(h, u, SUBSET S)
    BY SumExists
  <1>3. g[S] = h[S]
    BY <1>1, <1>2, SumsAgree
  <1> QED BY <1>1, <1>2, <1>3, TotalIs

(* The equation by which the folds of the engine compute a sum.            *)
LEMMA TotalPicks ==
  ASSUME NEW S, IsFiniteSet(S), NEW w
  PROVE  Total(w, S) = IF S = {} THEN 0 ELSE w[Pick(S)] + Total(w, S \ {Pick(S)})
  <1>1. PICK g : IsSum(g, w, SUBSET S)
    BY SumExists
  <1>2. g[S] = IF S = {} THEN 0 ELSE w[Pick(S)] + g[S \ {Pick(S)}]
    BY <1>1 DEF IsSum
  <1>3. Total(w, S) = g[S]
    BY <1>1, TotalIs
  <1>4. PICK R \in SUBSET S : R = S \ {Pick(S)}
    OBVIOUS
  <1>5. Total(w, R) = g[R]
    BY <1>1, <1>4, TotalIs
  <1> QED BY <1>2, <1>3, <1>4, <1>5

(* A sum of numbers is a number.                                           *)
LEMMA TotalType ==
  ASSUME NEW S, IsFiniteSet(S), NEW w, \A x \in S : w[x] \in Nat
  PROVE  Total(w, S) \in Nat
  <1> DEFINE Fails == {T \in SUBSET S : Total(w, T) \notin Nat}
  <1>1. ASSUME Fails # {} PROVE FALSE
    <2>0. Fails \in SUBSET (SUBSET S)
      OBVIOUS
    <2> HIDE DEF Fails
    <2>1. PICK T \in Fails : \A U \in Fails : U \subseteq T => U = T
      BY <1>1, <2>0, LeastSubset
    <2> USE DEF Fails
    <2>2. Total(w, T) = IF T = {} THEN 0 ELSE w[Pick(T)] + Total(w, T \ {Pick(T)})
      BY FS_Subset, TotalPicks
    <2>3. T # {}
      BY <2>1, <2>2
    <2>4. Pick(T) \in T /\ Total(w, T \ {Pick(T)}) \in Nat
      BY <2>1, <2>3, Picked
    <2> QED BY <2>1, <2>2, <2>3, <2>4
  <1> QED BY <1>1

(* Any summand may be taken out first.                                     *)
LEMMA TotalTakes ==
  ASSUME NEW S, IsFiniteSet(S), NEW w, \A x \in S : w[x] \in Nat, NEW x \in S
  PROVE  Total(w, S) = w[x] + Total(w, S \ {x})
  <1> DEFINE Fails == {T \in SUBSET S : \E y \in T : Total(w, T) # w[y] + Total(w, T \ {y})}
  <1>1. ASSUME Fails # {} PROVE FALSE
    <2>0. Fails \in SUBSET (SUBSET S)
      OBVIOUS
    <2> HIDE DEF Fails
    <2>1. PICK T \in Fails : \A U \in Fails : U \subseteq T => U = T
      BY <1>1, <2>0, LeastSubset
    <2> USE DEF Fails
    <2>2. PICK y \in T : Total(w, T) # w[y] + Total(w, T \ {y})
      BY <2>1
    <2> DEFINE c == Pick(T)
               V == T \ {c}
               Y == T \ {y}
               B == (T \ {c}) \ {y}
    <2>3. c \in T /\ IsFiniteSet(T) /\ T # {}
      BY FS_Subset, Picked
    <2>4. Total(w, T) = w[c] + Total(w, V)
      BY <2>3, TotalPicks
    <2>5. c # y
      BY <2>2, <2>4
    <2>6. V \in SUBSET S /\ V \notin Fails /\ Y \in SUBSET S /\ Y \notin Fails /\ y \in V /\ c \in Y
      BY <2>1, <2>3, <2>5
    <2>7. Y \ {c} = B
      OBVIOUS
    <2>8. Total(w, V) = w[y] + Total(w, B) /\ Total(w, Y) = w[c] + Total(w, B)
      BY <2>6, <2>7
    <2>9. IsFiniteSet(B) /\ w[y] \in Nat /\ w[c] \in Nat /\ \A z \in B : w[z] \in Nat
      BY <2>3, FS_Subset
    <2>10. Total(w, B) \in Nat
      BY <2>9, TotalType
    <2> HIDE DEF c, V, Y, B
    <2>11. Total(w, T) = w[y] + Total(w, Y)
      BY <2>4, <2>8, <2>9, <2>10
    <2> QED BY <2>2, <2>11 DEF Y
  <1> QED BY <1>1

(* Nothing sums to nothing.                                                *)
LEMMA TotalOfNone == ASSUME NEW w PROVE Total(w, {}) = 0
  BY FS_EmptySet, TotalPicks

(* A summand is at most the sum.                                           *)
LEMMA TotalMember ==
  ASSUME NEW S, IsFiniteSet(S), NEW w, \A x \in S : w[x] \in Nat, NEW x \in S
  PROVE  Total(w, S) >= w[x]
  <1>1. IsFiniteSet(S \ {x}) /\ \A y \in S \ {x} : w[y] \in Nat
    BY FS_RemoveElement
  <1>2. Total(w, S \ {x}) \in Nat
    BY <1>1, TotalType
  <1>3. Total(w, S) = w[x] + Total(w, S \ {x})
    BY TotalTakes
  <1> QED BY <1>2, <1>3

(* A set adds up to what two parts of it do.                               *)
LEMMA TotalSplits ==
  ASSUME NEW S, IsFiniteSet(S), NEW w, \A x \in S : w[x] \in Nat, NEW D
  PROVE  Total(w, S) = Total(w, S \cap D) + Total(w, S \ D)
  <1> DEFINE Fails == {T \in SUBSET S : Total(w, T) # Total(w, T \cap D) + Total(w, T \ D)}
  <1>1. ASSUME Fails # {} PROVE FALSE
    <2>0. Fails \in SUBSET (SUBSET S)
      OBVIOUS
    <2> HIDE DEF Fails
    <2>1. PICK T \in Fails : \A U \in Fails : U \subseteq T => U = T
      BY <1>1, <2>0, LeastSubset
    <2> USE DEF Fails
    <2>2. T # {}
      <3>1. ASSUME T = {} PROVE Total(w, T) = Total(w, T \cap D) + Total(w, T \ D)
        <4>1. T \cap D = {} /\ T \ D = {}
          BY <3>1
        <4>2. Total(w, {}) = 0
          BY TotalOfNone
        <4> QED BY <3>1, <4>1, <4>2
      <3> QED BY <2>1, <3>1
    <2>3. PICK x \in T : TRUE
      BY <2>2
    <2> DEFINE R == T \ {x}
    <2>4. Total(w, R) = Total(w, R \cap D) + Total(w, R \ D)
      BY <2>1, <2>3
    <2>5. /\ IsFiniteSet(T) /\ IsFiniteSet(T \cap D) /\ IsFiniteSet(T \ D)
          /\ IsFiniteSet(R \cap D) /\ IsFiniteSet(R \ D)
      BY FS_Subset
    <2>6. Total(w, R \cap D) \in Nat /\ Total(w, R \ D) \in Nat /\ w[x] \in Nat
      BY <2>5, TotalType
    <2>7. Total(w, T) = w[x] + Total(w, R)
      BY <2>5, TotalTakes
    <2>8. CASE x \in D
      <3>1. x \in T \cap D /\ (T \cap D) \ {x} = R \cap D /\ T \ D = R \ D
        BY <2>8
      <3>2. Total(w, T \cap D) = w[x] + Total(w, R \cap D)
        BY <2>5, <3>1, TotalTakes
      <3>3. Total(w, T) = Total(w, T \cap D) + Total(w, T \ D)
        BY <2>4, <2>6, <2>7, <3>1, <3>2
      <3> QED BY <2>1, <3>3
    <2>9. CASE x \notin D
      <3>1. x \in T \ D /\ (T \ D) \ {x} = R \ D /\ T \cap D = R \cap D
        BY <2>9
      <3>2. Total(w, T \ D) = w[x] + Total(w, R \ D)
        BY <2>5, <3>1, TotalTakes
      <3>3. Total(w, T \cap D) = Total(w, R \cap D)
        BY <3>1
      <3> HIDE DEF R, Fails
      <3>4. Total(w, T) = w[x] + (Total(w, R \cap D) + Total(w, R \ D))
        BY <2>4, <2>7
      <3>5. Total(w, T) = Total(w, T \cap D) + Total(w, T \ D)
        BY <2>6, <3>2, <3>3, <3>4
      <3> QED BY <2>1, <3>5 DEF Fails
    <2> QED BY <2>8, <2>9
  <1> QED BY <1>1

(* A part adds up to no more than the whole.                               *)
LEMMA TotalOfPart ==
  ASSUME NEW S, IsFiniteSet(S), NEW w, \A x \in S : w[x] \in Nat, NEW T \in SUBSET S
  PROVE  Total(w, T) <= Total(w, S)
  <1>1. S \cap T = T /\ IsFiniteSet(T) /\ IsFiniteSet(S \ T)
    BY FS_Subset
  <1>2. Total(w, S) = Total(w, T) + Total(w, S \ T)
    <2>1. Total(w, S) = Total(w, S \cap T) + Total(w, S \ T)
      BY TotalSplits
    <2> QED BY <1>1, <2>1
  <1>3. Total(w, T) \in Nat /\ Total(w, S \ T) \in Nat
    BY <1>1, TotalType
  <1> QED BY <1>2, <1>3

-----------------------------------------------------------------------------
(* The bytes of chunks and of volumes are such sums.                       *)

Sizes == [rec \in SegRec |-> rec.bytes]

RecordsOf(v, idx) == {rec \in idx : rec.vol = v}

(* The bytes of a set of chunks are such a sum, and a number.              *)
LEMMA BytesAreTotal ==
  ASSUME NEW S \in SUBSET Chunks
  PROVE  BytesOf(S) = Total(Clen, S) /\ IsFiniteSet(S) /\ BytesOf(S) \in Nat
  <1>1. BytesOf(S) = Total(Clen, S)
    BY DEF BytesOf, MapThenSumSet, MapThenFoldSet, Total, IsSum, Pick
  <1>2. IsFiniteSet(S) /\ \A x \in S : Clen[x] \in Nat
    BY ChunksAssumption, FS_Subset
  <1>3. Total(Clen, S) \in Nat
    BY <1>2, TotalType
  <1> QED BY <1>1, <1>2, <1>3

(* The fields of a segment's record.                                       *)
LEMMA RecordType ==
  ASSUME NEW rec \in SegRec
  PROVE  rec.bytes \in Nat /\ Sizes[rec] = rec.bytes /\ rec.vol \in Volumes /\ rec.seg \in SegId
  BY BytesAreTotal DEF SegRec, Sizes

(* What a volume is charged with is the sum of its records.                *)
LEMMA UsedIsTotal ==
  ASSUME NEW idx \in SUBSET SegRec, IsFiniteSet(idx), NEW v
  PROVE  /\ volume_used(v, idx) = Total(Sizes, RecordsOf(v, idx))
         /\ IsFiniteSet(RecordsOf(v, idx))
         /\ volume_used(v, idx) \in Nat
  <1> DEFINE R == RecordsOf(v, idx)
             g == CHOOSE g : g = [T \in SUBSET R |-> IF T = {} THEN 0 ELSE Pick(T).bytes + g[T \ {Pick(T)}]]
  <1>1. IsFiniteSet(R) /\ R \in SUBSET SegRec
    BY FS_Subset DEF RecordsOf
  <1>2. volume_used(v, idx) = g[R]
    BY DEF volume_used, MapThenSumSet, MapThenFoldSet, RecordsOf, Pick
  <1>3. PICK h : IsSum(h, Sizes, SUBSET R)
    BY <1>1, SumExists
  <1>4. \A T \in SUBSET R : T # {} => Sizes[Pick(T)] = Pick(T).bytes
    BY <1>1, Picked, RecordType
  <1>5. \A f : (f = [T \in SUBSET R |-> IF T = {} THEN 0 ELSE Pick(T).bytes + f[T \ {Pick(T)}]])
                 <=> IsSum(f, Sizes, SUBSET R)
    BY <1>4 DEF IsSum
  <1>6. IsSum(g, Sizes, SUBSET R)
    BY <1>3, <1>5
  <1> HIDE DEF g, R
  <1>7. Total(Sizes, R) = g[R]
    BY <1>1, <1>6, TotalIs
  <1>8. Total(Sizes, R) \in Nat
    BY <1>1, RecordType, TotalType
  <1> QED BY <1>1, <1>2, <1>7, <1>8 DEF R

(* The records' weights are numbers, and so are their sums.                *)
LEMMA RecordSums ==
  ASSUME NEW R \in SUBSET SegRec, IsFiniteSet(R)
  PROVE  /\ \A rec \in R : Sizes[rec] \in Nat /\ Sizes[rec] = rec.bytes
         /\ Total(Sizes, R) \in Nat
  <1>1. \A rec \in R : Sizes[rec] \in Nat /\ Sizes[rec] = rec.bytes
    BY RecordType
  <1> QED BY <1>1, TotalType

(* Chunks that each lie in a segment of some record are no more bytes than *)
(* the records.                                                            *)
LEMMA CoveredBytes ==
  ASSUME NEW R \in SUBSET SegRec, IsFiniteSet(R), NEW D \in [R -> SUBSET Chunks],
         \A rec \in R : rec.bytes = BytesOf(D[rec]),
         NEW L \in SUBSET Chunks, \A id \in L : \E rec \in R : id \in D[rec]
  PROVE  BytesOf(L) <= Total(Sizes, R)
  <1> DEFINE Covers(Q, M) == \A id \in M : \E rec \in Q : id \in D[rec]
             Fails == {Q \in SUBSET R : \E M \in SUBSET Chunks :
                         Covers(Q, M) /\ ~(Total(Clen, M) <= Total(Sizes, Q))}
  <1>1. ASSUME Fails # {} PROVE FALSE
    <2>0. Fails \in SUBSET (SUBSET R)
      OBVIOUS
    <2> HIDE DEF Fails
    <2>1. PICK Q \in Fails : \A U \in Fails : U \subseteq Q => U = Q
      BY <1>1, <2>0, LeastSubset
    <2>2. PICK M \in SUBSET Chunks : Covers(Q, M) /\ ~(Total(Clen, M) <= Total(Sizes, Q))
      BY <2>1 DEF Fails
    <2>3. Q \in SUBSET R /\ IsFiniteSet(Q) /\ Total(Sizes, Q) \in Nat
      BY <2>0, FS_Subset, RecordSums
    <2>4. Q # {}
      <3>1. ASSUME Q = {} PROVE FALSE
        <4>1. M = {}
          BY <2>2, <3>1
        <4>2. Total(Clen, {}) = 0 /\ Total(Sizes, {}) = 0
          BY TotalOfNone
        <4> QED BY <2>2, <3>1, <4>1, <4>2
      <3> QED BY <3>1
    <2>5. PICK rec \in Q : TRUE
      BY <2>4
    <2> DEFINE P == Q \ {rec}
               N == M \ D[rec]
    <2>6. D[rec] \in SUBSET Chunks /\ N \in SUBSET Chunks /\ Covers(P, N) /\ P # Q /\ P \subseteq Q
      BY <2>2, <2>3
    <2>7. P \notin Fails /\ P \in SUBSET R
      BY <2>1, <2>3, <2>6
    <2>8. Total(Clen, N) <= Total(Sizes, P)
      BY <2>6, <2>7 DEF Fails
    <2>9. /\ IsFiniteSet(M) /\ \A id \in Chunks : Clen[id] \in Nat
          /\ M \cap D[rec] \in SUBSET D[rec] /\ IsFiniteSet(D[rec])
          /\ Total(Clen, D[rec]) = BytesOf(D[rec])
          /\ Total(Clen, N) \in Nat /\ Total(Clen, M \cap D[rec]) \in Nat
          /\ Total(Clen, D[rec]) \in Nat
      <3>1. M \cap D[rec] \in SUBSET Chunks
        OBVIOUS
      <3> QED BY <2>6, <3>1, BytesAreTotal, ChunksAssumption
    <2>10. Total(Clen, M) = Total(Clen, M \cap D[rec]) + Total(Clen, N)
      <3>1. PICK E : E = D[rec]
        OBVIOUS
      <3>2. \A id \in M : Clen[id] \in Nat
        BY <2>9
      <3>3. Total(Clen, M) = Total(Clen, M \cap E) + Total(Clen, M \ E)
        BY <2>9, <3>2, TotalSplits
      <3> QED BY <3>1, <3>3
    <2>11. Total(Clen, M \cap D[rec]) <= Total(Clen, D[rec])
      BY <2>6, <2>9, TotalOfPart
    <2>12. Total(Sizes, Q) = Sizes[rec] + Total(Sizes, P)
      BY <2>3, RecordSums, TotalTakes
    <2>13. Sizes[rec] = Total(Clen, D[rec]) /\ Total(Sizes, P) \in Nat
      <3>1. rec \in SegRec /\ P \in SUBSET SegRec /\ IsFiniteSet(P)
        BY <2>3, FS_RemoveElement
      <3> QED BY <2>3, <2>9, <3>1, RecordType, RecordSums
    <2> HIDE DEF P, N, Covers
    <2> QED BY <2>2, <2>8, <2>9, <2>10, <2>11, <2>12, <2>13
  <1>2. Covers(R, L)
    OBVIOUS
  <1>3. Total(Clen, L) <= Total(Sizes, R)
    BY <1>1, <1>2
  <1> QED BY <1>3, BytesAreTotal

(* A volume whose records are among another index's is charged no more.    *)
LEMMA FewerRecords ==
  ASSUME NEW idx \in SUBSET SegRec, IsFiniteSet(idx), NEW few \in SUBSET SegRec, NEW v,
         RecordsOf(v, few) \subseteq RecordsOf(v, idx), IsFiniteSet(few)
  PROVE  volume_used(v, few) <= volume_used(v, idx)
  <1>1. /\ volume_used(v, idx) = Total(Sizes, RecordsOf(v, idx))
        /\ volume_used(v, few) = Total(Sizes, RecordsOf(v, few))
        /\ IsFiniteSet(RecordsOf(v, idx))
    BY UsedIsTotal
  <1>2. \A rec \in RecordsOf(v, idx) : Sizes[rec] \in Nat
    BY RecordType DEF RecordsOf
  <1> QED BY <1>1, <1>2, TotalOfPart

(* A seal charges its volume with its bytes, at most.                      *)
LEMMA SealCharges ==
  ASSUME NEW idx \in SUBSET SegRec, IsFiniteSet(idx), NEW s \in SegRec, NEW v
  PROVE  /\ InsertSeals(idx, {s}) \in SUBSET SegRec /\ IsFiniteSet(InsertSeals(idx, {s}))
         /\ volume_used(v, InsertSeals(idx, {s})) <= volume_used(v, idx) + s.bytes
         /\ v # s.vol \/ s \in idx => volume_used(v, InsertSeals(idx, {s})) <= volume_used(v, idx)
  <1> DEFINE new == InsertSeals(idx, {s})
             A == RecordsOf(v, idx)
             B == A \cup {s}
  <1>1. new \subseteq idx \cup {s} /\ new \in SUBSET SegRec /\ IsFiniteSet(idx \cup {s})
    BY FS_AddElement DEF InsertSeals
  <1>2. IsFiniteSet(new)
    BY <1>1, FS_Subset
  <1>3. v # s.vol \/ s \in idx => RecordsOf(v, new) \subseteq A
    BY <1>1 DEF RecordsOf
  <1>4. RecordsOf(v, new) \in SUBSET B /\ IsFiniteSet(B) /\ B \in SUBSET SegRec /\ IsFiniteSet(A)
    <2>1. IsFiniteSet(A)
      BY UsedIsTotal
    <2> QED BY <1>1, <2>1, FS_AddElement DEF RecordsOf
  <1>5. /\ volume_used(v, new) = Total(Sizes, RecordsOf(v, new))
        /\ volume_used(v, idx) = Total(Sizes, A)
        /\ volume_used(v, idx) \in Nat /\ volume_used(v, new) \in Nat
        /\ Total(Sizes, A) \in Nat
    BY <1>1, <1>2, UsedIsTotal
  <1>6. Total(Sizes, RecordsOf(v, new)) <= Total(Sizes, B)
    BY <1>4, RecordSums, TotalOfPart
  <1>7. s.bytes \in Nat /\ Sizes[s] = s.bytes
    BY RecordType
  <1>8. Total(Sizes, B) <= Total(Sizes, A) + s.bytes
    <2>1. CASE s \in A
      <3>1. B = A
        BY <2>1
      <3> HIDE DEF A, B
      <3> QED BY <1>5, <1>7, <3>1
    <2>2. CASE s \notin A
      <3>1. B \ {s} = A /\ s \in B
        BY <2>2
      <3>2. Total(Sizes, B) = Sizes[s] + Total(Sizes, B \ {s})
        BY <1>4, <3>1, RecordSums, TotalTakes
      <3> HIDE DEF A, B
      <3>3. Total(Sizes, B) = Sizes[s] + Total(Sizes, A)
        BY <3>1, <3>2
      <3> QED BY <1>5, <1>7, <3>3
    <2> QED BY <2>1, <2>2
  <1>9. Total(Sizes, B) \in Nat
    BY <1>4, RecordSums
  <1>10. volume_used(v, new) <= volume_used(v, idx) + s.bytes
    <2> HIDE DEF B, A, new
    <2> QED BY <1>5, <1>6, <1>7, <1>8, <1>9
  <1>11. v # s.vol \/ s \in idx => volume_used(v, new) <= volume_used(v, idx)
    BY <1>1, <1>2, <1>3, FewerRecords
  <1> QED BY <1>1, <1>2, <1>10, <1>11
=============================================================================
