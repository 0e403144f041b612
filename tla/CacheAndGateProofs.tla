-------------------------- MODULE CacheAndGateProofs --------------------------
(***************************************************************************)
(* Proofs about the two components that judge answers by likeness.         *)
(*                                                                         *)
(* SemanticCache: for every set of requests, questions and revisions, a    *)
(* replay is faithful, duplicates come from overlapping misses, and the    *)
(* hit counters are exact.                                                 *)
(*                                                                         *)
(* EvalGate, further down: for every set of runs, pairs and keys, every    *)
(* corpus and every tolerance, a pass is earned, and the baseline holds    *)
(* what was recorded last.                                                 *)
(***************************************************************************)
EXTENDS SemanticCache, EvalGate, FiniteSetTheorems, SequenceTheorems, TLAPS

LEMMA ReplayersFinite ==
  ASSUME NEW row
  PROVE  IsFiniteSet(ReplayedFrom(row)) /\ Cardinality(ReplayedFrom(row)) \in Nat
<1>1. ReplayedFrom(row) \in SUBSET Requests
  BY DEF ReplayedFrom
<1>2. QED
  BY <1>1, FS_Subset, FS_CardinalityType, CacheAssumption

(* A stored row for the very question, under the same keys, is accepted,   *)
(* and only such rows are as near as it: a miss has not seen one.          *)
LEMMA MissSawNoTwin ==
  ASSUME TypeOK, NEW r \in Requests, LookupMiss(r), NEW a \in rows
  PROVE  ~SameEntry(a, r)
<1> SUFFICES ASSUME SameEntry(a, r) PROVE FALSE
  OBVIOUS
<1>1. a \in Requests /\ rows \subseteq Requests /\ question \in [Requests -> Questions]
  BY DEF TypeOK
<1>2. a \in Scope(r) /\ Gap(r, a) = 0
  BY <1>1, CacheAssumption DEF SameEntry, Scope, Gap
<1>3. PICK row \in Nearest(r) : ~Accepts(r, row)
  BY <1>2 DEF LookupMiss
<1>4. row \in Scope(r) /\ row \in Requests /\ Gap(r, row) <= 0
  BY <1>1, <1>2, <1>3 DEF Nearest, Scope
<1>5. Gap(r, row) = Distance[question[r]][question[row]]
  BY <1>4 DEF Scope, Gap
<1>6. Gap(r, row) = 0 /\ question[row] = question[r]
  BY <1>1, <1>4, <1>5, CacheAssumption
<1>7. Accepts(r, row)
  BY <1>6, CacheAssumption DEF Accepts
<1>8. QED
  BY <1>3, <1>7

(* What an accepted row in scope promises.                                 *)
LEMMA HitIsFaithful ==
  ASSUME TypeOK, Places, NEW r \in Requests, NEW row \in Nearest(r), Accepts(r, row)
  PROVE  row \in rows /\ author[row] = row /\ Faithful(r, row)
<1>1. row \in rows /\ row \in Requests /\ ModelKey(row) = ModelKey(r)
      /\ PipelineKey(row) = PipelineKey(r)
  BY DEF Nearest, Scope, TypeOK
<1>2. Generated(row)
  BY <1>1 DEF Places
<1>3. /\ config[row] = config[r] /\ revision[row].depths = revision[r].depths
      /\ revision[row].chain = revision[r].chain
      /\ revision[row].model[1] = revision[r].model[1]
  BY <1>1 DEF PipelineKey
<1>4. Distance[question[r]][question[row]] <= MaxDistance
  BY <1>1 DEF Accepts, Gap
<1>5. Guard[question[row]] = Guard[question[r]]
  BY DEF Accepts
<1>6. QED
  BY <1>1, <1>2, <1>3, <1>4, <1>5 DEF Faithful, Generated

LEMMA InitEstablishes == Init => IInv
<1> SUFFICES ASSUME Init PROVE IInv
  OBVIOUS
<1>1. TypeOK
  BY DEF Init, TypeOK, Stages
<1>2. Places
  BY CacheAssumption DEF Init, Places, Replaying
<1>3. SeenDiffers
  BY DEF Init, SeenDiffers
<1>4. ReplayFaithful
  BY DEF Init, ReplayFaithful, Replaying
<1>5. HitsExact
  <2> SUFFICES ASSUME NEW row \in Requests
               PROVE  hits[row] = Cardinality(ReplayedFrom(row))
    BY DEF HitsExact
  <2>1. ReplayedFrom(row) = {}
    BY CacheAssumption DEF Init, ReplayedFrom
  <2>2. QED
    BY <2>1, FS_EmptySet DEF Init
<1>6. QED
  BY <1>1, <1>2, <1>3, <1>4, <1>5 DEF IInv

(* A step that changes no author, speaker or reply, and adds rows only of  *)
(* requests that generated them, keeps replays faithful.                   *)
LEMMA FaithfulPreserved ==
  ASSUME ReplayFaithful, UNCHANGED <<asked, author, speaker, reply>>
  PROVE  ReplayFaithful'
BY DEF ReplayFaithful, Replaying, Faithful, asked, ModelKey

(* Counters stay exact when nobody starts or stops being a replayer.       *)
LEMMA CountersPreserved ==
  ASSUME HitsExact, UNCHANGED hits,
         \A row \in Requests : ReplayedFrom(row)' = ReplayedFrom(row)
  PROVE  HitsExact'
BY DEF HitsExact

LEMMA NextPreserves == IInv /\ [Next]_vars => IInv'
<1> SUFFICES ASSUME IInv, [Next]_vars PROVE IInv'
  OBVIOUS
<1> USE DEF IInv
<1>1. ASSUME NEW r \in Requests, LookupHit(r) PROVE IInv'
  <2>1. PICK row \in Nearest(r) :
          /\ Accepts(r, row)
          /\ reply' = [reply EXCEPT ![r] = [row |-> row, hits |-> hits[row]]]
          /\ author' = [author EXCEPT ![r] = author[row]]
    BY <1>1 DEF LookupHit
  <2>2. row \in rows /\ row \in Requests /\ author[row] = row /\ Faithful(r, row)
    BY <2>1, HitIsFaithful DEF TypeOK
  <2>3. r \notin rows /\ ~Replaying(r)
    BY <1>1 DEF Places, LookupHit
  <2>4. TypeOK'
    BY <1>1, <2>1, <2>2 DEF TypeOK, LookupHit, Goto, Stages, asked
  <2>5. Places'
    <3>1. /\ UNCHANGED <<asked, speaker, rows>>
          /\ at' = [at EXCEPT ![r] = "count"]
      BY <1>1 DEF LookupHit, Goto
    <3>2. \A x \in Requests : x # r => /\ at'[x] = at[x] /\ reply'[x] = reply[x]
                                       /\ author'[x] = author[x]
      BY <2>1, <3>1 DEF TypeOK
    <3>3. at'[r] = "count" /\ reply'[r].row = row /\ author'[r] = row
      BY <2>1, <2>2, <3>1 DEF TypeOK
    <3>4. QED
      BY <2>2, <2>3, <3>1, <3>2, <3>3, CacheAssumption
      DEF Places, Replaying, Generated, asked
  <2>6. SeenDiffers'
    BY <1>1 DEF SeenDiffers, LookupHit, SameEntry, ModelKey, PipelineKey, asked
  <2>7. ReplayFaithful'
    <3>1. \A x, a : Faithful(x, a)' = Faithful(x, a)
      BY <1>1 DEF LookupHit, Faithful, ModelKey, asked
    <3>2. \A x \in Requests : x # r => reply'[x] = reply[x] /\ author'[x] = author[x]
      BY <2>1 DEF TypeOK
    <3>3. author'[r] = row
      BY <2>1, <2>2 DEF TypeOK
    <3>4. QED
      BY <2>2, <3>1, <3>2, <3>3 DEF ReplayFaithful, Replaying
  <2>8. HitsExact'
    <3>1. \A x \in Requests : ReplayedFrom(x)' = ReplayedFrom(x)
      BY <1>1, <2>1 DEF ReplayedFrom, LookupHit, Goto, TypeOK
    <3>2. QED
      BY <1>1, <3>1, CountersPreserved DEF LookupHit
  <2>9. QED
    BY <2>4, <2>5, <2>6, <2>7, <2>8
<1>2. ASSUME NEW r \in Requests, LookupMiss(r) PROVE IInv'
  <2>1. TypeOK'
    BY <1>2 DEF TypeOK, LookupMiss, Goto, Stages, asked
  <2>2. Places'
    BY <1>2 DEF Places, TypeOK, LookupMiss, Goto, Replaying, Generated, asked
  <2>3. SeenDiffers'
    <3>1. \A a \in rows : ~SameEntry(a, r)
      BY <1>2, MissSawNoTwin
    <3>2. \A a, b : SameEntry(a, b)' = SameEntry(a, b)
      BY <1>2 DEF LookupMiss, SameEntry, ModelKey, PipelineKey, asked
    <3>3. \A x \in Requests : seen'[x] = IF x = r THEN rows ELSE seen[x]
      BY <1>2 DEF LookupMiss, TypeOK
    <3>4. QED
      BY <3>1, <3>2, <3>3 DEF SeenDiffers
  <2>4. ReplayFaithful'
    BY <1>2, FaithfulPreserved DEF LookupMiss
  <2>5. HitsExact'
    <3>1. \A x \in Requests : ReplayedFrom(x)' = ReplayedFrom(x)
      BY <1>2 DEF ReplayedFrom, LookupMiss, Goto, TypeOK
    <3>2. QED
      BY <1>2, <3>1, CountersPreserved DEF LookupMiss
  <2>6. QED
    BY <2>1, <2>2, <2>3, <2>4, <2>5
<1>3. ASSUME NEW r \in Requests, CountHit(r) PROVE IInv'
  <2>1. /\ at[r] = "count" /\ UNCHANGED <<asked, author, speaker, reply, seen, rows>>
        /\ at' = [at EXCEPT ![r] = "replayed"]
        /\ hits' = [hits EXCEPT ![reply[r].row] = @ + 1]
    BY <1>3 DEF CountHit, Goto
  <2>2. reply[r].row \in rows /\ reply[r].row \in Requests
    BY <2>1 DEF Places, TypeOK
  <2>3. TypeOK'
    BY <2>1, <2>2 DEF TypeOK, Stages, asked
  <2>4. Places'
    BY <2>1 DEF Places, TypeOK, Replaying, Generated, asked
  <2>5. SeenDiffers'
    BY <2>1 DEF SeenDiffers, SameEntry, ModelKey, PipelineKey, asked
  <2>6. ReplayFaithful'
    BY <2>1, FaithfulPreserved
  <2>7. HitsExact'
    <3> SUFFICES ASSUME NEW x \in Requests
                 PROVE  hits'[x] = Cardinality(ReplayedFrom(x)')
      BY DEF HitsExact
    <3>1. CASE x = reply[r].row
      <4>1. ReplayedFrom(x)' = ReplayedFrom(x) \union {r} /\ r \notin ReplayedFrom(x)
        BY <2>1, <3>1 DEF ReplayedFrom, TypeOK
      <4>2. Cardinality(ReplayedFrom(x)') = Cardinality(ReplayedFrom(x)) + 1
        BY <4>1, ReplayersFinite, FS_AddElement
      <4>3. QED
        BY <2>1, <2>2, <3>1, <4>2 DEF HitsExact, TypeOK
    <3>2. CASE x # reply[r].row
      <4>1. ReplayedFrom(x)' = ReplayedFrom(x)
        BY <2>1, <3>2 DEF ReplayedFrom, TypeOK
      <4>2. QED
        BY <2>1, <2>2, <3>2, <4>1 DEF HitsExact, TypeOK
    <3>3. QED
      BY <3>1, <3>2
  <2>8. QED
    BY <2>3, <2>4, <2>5, <2>6, <2>7
<1>4. ASSUME NEW r \in Requests, Generate(r) PROVE IInv'
  <2>1. PICK v \in 1..Len(revision[r].chain), stage \in {"store", "answered"} :
          /\ speaker' = [speaker EXCEPT ![r] = v]
          /\ at' = [at EXCEPT ![r] = stage]
    BY <1>4 DEF Generate, Goto
  <2>2. /\ at[r] = "generate" /\ UNCHANGED <<asked, reply, seen, rows, hits>>
        /\ author' = [author EXCEPT ![r] = r]
    BY <1>4 DEF Generate
  <2>3. r \notin rows /\ ~Replaying(r)
    BY <2>2 DEF Places
  <2>4. v \in Nat
    OBVIOUS
  <2>5. TypeOK'
    BY <2>1, <2>2, <2>4 DEF TypeOK, Stages, asked
  <2>6. \A x \in Requests : x # r => /\ at'[x] = at[x] /\ author'[x] = author[x]
                                     /\ speaker'[x] = speaker[x]
    BY <2>1, <2>2 DEF TypeOK
  <2>7. at'[r] = stage /\ author'[r] = r /\ speaker'[r] = v
    BY <2>1, <2>2 DEF TypeOK
  <2>8. Places'
    BY <2>1, <2>2, <2>3, <2>6, <2>7 DEF Places, Replaying, Generated, asked
  <2>9. SeenDiffers'
    BY <2>2 DEF SeenDiffers, SameEntry, ModelKey, PipelineKey, asked
  <2>10. ReplayFaithful'
    <3> SUFFICES ASSUME NEW x \in Requests, Replaying(x)'
                 PROVE  author'[x] \in Requests /\ Faithful(x, author[x])'
      BY DEF ReplayFaithful
    <3>1. Replaying(x) /\ x # r
      BY <2>2, <2>3 DEF Replaying
    <3>2. author[x] \in rows /\ author[x] # r /\ author'[x] = author[x]
      BY <2>3, <2>6, <3>1 DEF Places
    <3>3. author[x] \in Requests /\ Faithful(x, author[x])
      BY <3>1 DEF ReplayFaithful
    <3>4. speaker'[author[x]] = speaker[author[x]]
      BY <2>6, <3>2, <3>3
    <3>5. QED
      BY <2>2, <3>2, <3>3, <3>4 DEF Faithful, ModelKey, asked
  <2>11. HitsExact'
    <3>1. \A x \in Requests : ReplayedFrom(x)' = ReplayedFrom(x)
      BY <2>2, <2>6, <2>7 DEF ReplayedFrom
    <3>2. QED
      BY <2>2, <3>1, CountersPreserved
  <2>12. QED
    BY <2>5, <2>8, <2>9, <2>10, <2>11
<1>5. ASSUME NEW r \in Requests, Store(r) PROVE IInv'
  <2>1. /\ at[r] = "store" /\ UNCHANGED <<asked, author, speaker, reply, seen, hits>>
        /\ at' = [at EXCEPT ![r] = "answered"] /\ rows' = rows \union {r}
    BY <1>5 DEF Store, Goto
  <2>2. TypeOK'
    BY <2>1 DEF TypeOK, Stages, asked
  <2>3. Places'
    BY <2>1 DEF Places, TypeOK, Replaying, Generated, asked
  <2>4. SeenDiffers'
    BY <2>1 DEF SeenDiffers, SameEntry, ModelKey, PipelineKey, asked
  <2>5. ReplayFaithful'
    BY <2>1, FaithfulPreserved
  <2>6. HitsExact'
    <3>1. \A x \in Requests : ReplayedFrom(x)' = ReplayedFrom(x)
      BY <2>1 DEF ReplayedFrom, TypeOK
    <3>2. QED
      BY <2>1, <3>1, CountersPreserved
  <2>7. QED
    BY <2>2, <2>3, <2>4, <2>5, <2>6
<1>6. CASE UNCHANGED vars
  BY <1>6 DEF vars, asked, TypeOK, Places, Replaying, Generated, SeenDiffers, SameEntry,
     ModelKey, PipelineKey, ReplayFaithful, Faithful, HitsExact, ReplayedFrom
<1>7. QED
  BY <1>1, <1>2, <1>3, <1>4, <1>5, <1>6 DEF Next, Finished

LEMMA Inductive == Spec => []IInv
BY InitEstablishes, NextPreserves, PTL DEF Spec

(* The variables keep their types (models/query_cache.py).                 *)
THEOREM TypeCorrect == Spec => []TypeOK
<1>1. IInv => TypeOK
  BY DEF IInv
<1>2. QED
  BY <1>1, Inductive, PTL

(* No replay crosses embedding models, pipelines, guards or the threshold, *)
(* and none speaks for a model the first vendor no longer has.             *)
THEOREM ReplaysAreFaithful == Spec => []ReplayFaithful
<1>1. IInv => ReplayFaithful
  BY DEF IInv
<1>2. QED
  BY <1>1, Inductive, PTL

(* Two rows for one question under one key come from misses that           *)
(* overlapped.                                                             *)
THEOREM DuplicatesComeFromOverlap == Spec => []DuplicatesOverlapped
<1>1. IInv => DuplicatesOverlapped
  <2> SUFFICES ASSUME IInv, NEW a \in rows, NEW b \in rows, SameEntry(a, b)
               PROVE  a \notin seen[b] /\ b \notin seen[a]
    BY DEF DuplicatesOverlapped
  <2>1. a \in Requests /\ b \in Requests /\ SameEntry(b, a)
    BY DEF IInv, TypeOK, SameEntry
  <2>2. QED
    BY <2>1 DEF IInv, SeenDiffers
<1>2. QED
  BY <1>1, Inductive, PTL

(* The hit counter of every row is exact.                                  *)
THEOREM CountersAreExact == Spec => []HitsExact
<1>1. IInv => HitsExact
  BY DEF IInv
<1>2. QED
  BY <1>1, Inductive, PTL

-----------------------------------------------------------------------------
(* The retrieval gate: nothing is assumed beyond its GateAssumption.       *)

(* The lemmas about sums are those of SpendCapProofs, whose own constants  *)
(* and variables they do not mention.                                      *)
Sums == INSTANCE SpendCapProofs WITH
  Cap <- 0, Calls <- {}, Estimates <- {}, Costs <- {}, LastDay <- 0,
  clock <- 0, spend <- 0, phase <- 0, reserved <- 0, heldOn <- 0, held <- 0,
  billed <- 0, crossed <- 0, overrun <- 0

LEMMA SameSum ==
  ASSUME NEW f, NEW S
  PROVE  SumFunctionOnSet(f, S) = Sums!SumFunctionOnSet(f, S)
  BY DEF SumFunctionOnSet, FoldFunctionOnSet, MapThenFoldSet,
         Sums!SumFunctionOnSet, Sums!FoldFunctionOnSet, Sums!MapThenFoldSet

LEMMA SameFiniteness ==
  ASSUME NEW S
  PROVE  Sums!IsFiniteSet(S) <=> IsFiniteSet(S)
  BY DEF Sums!IsFiniteSet, IsFiniteSet

LEMMA SumsAssumptions ==
  /\ Sums!CapAssumption /\ Sums!CallsAssumption
  /\ Sums!AmountsAssumption /\ Sums!LastDayAssumption
<1>1. Sums!CallsAssumption
  BY SameFiniteness, FS_EmptySet DEF Sums!CallsAssumption
<1>2. QED
  BY <1>1 DEF Sums!CapAssumption, Sums!AmountsAssumption, Sums!LastDayAssumption

(* Recall points of answerable pairs add up to a natural number.           *)
LEMMA PointsNatural ==
  ASSUME NEW m, NEW S, S \subseteq Scorable(m),
         DOMAIN m \subseteq Pairs
  PROVE  /\ Points(m, S) \in Nat
         /\ IsFiniteSet(S) /\ Cardinality(S) \in Nat
         /\ S # {} => Cardinality(S) > 0
<1>1. IsFiniteSet(Pairs) /\ S \subseteq Pairs /\ Scale \in Nat
      /\ \A p \in S : IsFiniteSet(Gold[p]) /\ Gold[p] # {}
  BY SameFiniteness, GateAssumption DEF Scorable
<1>2. IsFiniteSet(S) /\ Cardinality(S) \in Nat /\ (S # {} => Cardinality(S) > 0)
  BY <1>1, FS_Subset, FS_CardinalityType, FS_EmptySet
<1>3. ASSUME NEW p \in S PROVE RecallAtK(m[p], Gold[p]) \in Nat
  <2> DEFINE hit == Gold[p] \intersect TopK(m[p])
  <2>1. Cardinality(Gold[p]) \in Nat \ {0}
    BY <1>1, FS_CardinalityType, FS_EmptySet
  <2>2. IsFiniteSet(hit) /\ Cardinality(hit) \in Nat
    BY <1>1, FS_Subset, FS_CardinalityType
  <2>3. Scale \div Cardinality(Gold[p]) \in Nat
    BY <1>1, <2>1
  <2> HIDE DEF hit
  <2>4. Cardinality(hit) * (Scale \div Cardinality(Gold[p])) \in Nat
    BY <2>2, <2>3
  <2>5. QED
    BY <2>4, SameFiniteness DEF hit, RecallAtK
<1> DEFINE f == [p \in S |-> RecallAtK(m[p], Gold[p])]
<1>4. Sums!IsFiniteSet(S) /\ \A p \in S : f[p] \in Nat
  BY <1>2, <1>3, SameFiniteness
<1> HIDE DEF f
<1>5. Sums!SumFunctionOnSet(f, S) \in Nat
  BY <1>4, SumsAssumptions, Sums!SumTakesOut
<1>6. QED
  BY <1>2, <1>5, SameSum, SameFiniteness DEF f, Points

-----------------------------------------------------------------------------
(* Rounding: a mean of four digits is off by half a digit at most.         *)
LEMMA RoundedMean ==
  ASSUME NEW a \in Nat, NEW n \in Nat, n > 0
  PROVE  /\ (2 * a + n) \div (2 * n) \in Nat
         /\ 2 * n * ((2 * a + n) \div (2 * n)) <= 2 * a + n
         /\ 2 * a < 2 * n * ((2 * a + n) \div (2 * n)) + n
<1> DEFINE x == 2 * a + n
           y == 2 * n
           q == x \div y
<1>1. x \in Nat /\ y \in Nat \ {0}
  OBVIOUS
<1>2. q \in Nat /\ x = y * q + (x % y) /\ x % y \in 0 .. y - 1
  <2> HIDE DEF x, y
  <2>1. QED
    BY <1>1
<1>3. y * q \in Nat
  BY <1>1, <1>2
<1>4. y * q <= x /\ x < y * q + y
  <2> HIDE DEF x, y, q
  <2>1. QED
    BY <1>1, <1>2, <1>3
<1>5. QED
  <2> DEFINE z == y * q
  <2>1. z \in Nat /\ z <= x /\ x < z + y
    BY <1>3, <1>4
  <2> HIDE DEF q, z
  <2>2. z <= 2 * a + n /\ 2 * a < z + n
    BY <2>1
  <2>3. QED
    BY <2>2, <1>2 DEF z, q

(* Two rounded means a tolerance apart, cleared of their divisions: b of w *)
(* before and c of v now, in points of 1/Scale.                            *)
LEMMA RoundedMeansClose ==
  ASSUME NEW s \in Nat, s > 0, NEW b \in Nat, NEW w \in Nat, w > 0,
         NEW c \in Nat, NEW v \in Nat, v > 0, NEW u \in Nat, NEW tol \in Nat,
         NEW B \in Nat, NEW C \in Nat,
         2 * (u * b) < 2 * (s * w) * B + s * w,
         2 * (s * v) * C <= 2 * (u * c) + s * v,
         B - C <= tol
  PROVE  u * (b * v - c * w) <= (tol + 1) * s * v * w
<1> DEFINE N == s * v * w
<1>0. N \in Nat /\ (s * w) * v = N /\ (s * v) * w = N
  OBVIOUS
<1>1. 2 * (u * (b * v)) <= 2 * (N * B) + N
  <2> DEFINE l == 2 * (u * b)
             r == 2 * (s * w) * B + s * w
  <2>1. l \in Nat /\ r \in Nat /\ l <= r
    OBVIOUS
  <2>2. l * v <= r * v
    <3> HIDE DEF l, r
    <3>1. QED
      BY <2>1
  <2>3. l * v = 2 * (u * (b * v))
    OBVIOUS
  <2>4. r * v = 2 * (N * B) + N
    OBVIOUS
  <2>5. QED
    BY <2>2, <2>3, <2>4
<1>2. 2 * (N * C) <= 2 * (u * (c * w)) + N
  <2> DEFINE l == 2 * (s * v) * C
             r == 2 * (u * c) + s * v
  <2>1. l \in Nat /\ r \in Nat /\ l <= r
    OBVIOUS
  <2>2. l * w <= r * w
    <3> HIDE DEF l, r
    <3>1. QED
      BY <2>1
  <2>3. l * w = 2 * (N * C)
    OBVIOUS
  <2>4. r * w = 2 * (u * (c * w)) + N
    OBVIOUS
  <2>5. QED
    BY <2>2, <2>3, <2>4
<1>3. N * B <= N * C + N * tol
  <2>1. B <= C + tol /\ C + tol \in Nat
    OBVIOUS
  <2>2. N * B <= N * (C + tol)
    <3> HIDE DEF N
    <3>1. QED
      BY <1>0, <2>1
  <2>3. N * (C + tol) = N * C + N * tol
    BY <1>0
  <2>4. QED
    BY <2>2, <2>3
<1> DEFINE X == u * (b * v)
           Y == u * (c * w)
           P == N * B
           Q == N * C
           R == N * tol
<1>4. X \in Nat /\ Y \in Nat /\ P \in Nat /\ Q \in Nat /\ R \in Nat
  OBVIOUS
<1>5. 2 * X <= 2 * P + N /\ 2 * Q <= 2 * Y + N /\ P <= Q + R
  BY <1>1, <1>2, <1>3
<1>6. X - Y <= R + N
  <2> HIDE DEF X, Y, P, Q, R, N
  <2>1. QED
    BY <1>0, <1>4, <1>5
<1>7. X - Y = u * (b * v - c * w)
  OBVIOUS
<1>8. R + N = (tol + 1) * s * v * w
  OBVIOUS
<1>9. QED
  BY <1>6, <1>7, <1>8

(* What no drop of the mean means for the recall behind it.                *)
LEMMA NoDropHolds ==
  ASSUME NEW now, NEW before,
         DOMAIN now \subseteq Pairs, DOMAIN before \subseteq Pairs,
         NEW S, S \subseteq Scorable(now),
         NEW T, T \subseteq Scorable(before), T # {}, NEW tol \in Nat,
         NoDrop(Mean(now, S), Mean(before, T), tol)
  PROVE  Held(now, S, before, T, tol)
<1> DEFINE u == Unit
           b == Points(before, T)
           c == Points(now, S)
           w == Cardinality(T)
           v == Cardinality(S)
           B == Mean(before, T)
           C == Mean(now, S)
<1>1. b \in Nat /\ w \in Nat /\ w > 0
  BY PointsNatural
<1>2. c \in Nat /\ v \in Nat /\ (S # {} => v > 0) /\ (S = {} => v = 0)
  BY PointsNatural, FS_EmptySet
<1>3. u \in Nat /\ Scale \in Nat /\ Scale > 0
  BY GateAssumption DEF Unit
<1>4. SUFFICES u * (b * v - c * w) <= (tol + 1) * Scale * v * w
  BY DEF Held
<1>5. CASE S = {}
  <2> HIDE DEF u, b, c, w, v
  <2>1. v = 0 /\ c * w \in Nat
    BY <1>1, <1>2, <1>5
  <2>2. b * v = 0 /\ (tol + 1) * Scale * v * w = 0
    BY <1>1, <1>3, <2>1
  <2>3. u * (c * w) \in Nat
    BY <1>3, <2>1
  <2>4. u * (0 - c * w) = 0 - u * (c * w)
    BY <1>3, <2>1
  <2>5. QED
    BY <2>1, <2>2, <2>3, <2>4
<1>6. CASE S # {}
  <2> DEFINE m == Scale * w
             n == Scale * v
  <2>1. m \in Nat /\ m > 0 /\ n \in Nat /\ n > 0
    <3> HIDE DEF w, v
    <3>1. QED
      BY <1>1, <1>2, <1>3, <1>6
  <2>2. /\ B = (2 * (u * b) + m) \div (2 * m)
        /\ C = (2 * (u * c) + n) \div (2 * n)
    <3>1. /\ B = (2 * u * b + m) \div (2 * m)
          /\ C = (2 * u * c + n) \div (2 * n)
      BY <1>6 DEF Mean
    <3> HIDE DEF u, b, c, m, n, B, C
    <3>2. 2 * u * b = 2 * (u * b) /\ 2 * u * c = 2 * (u * c)
      BY <1>1, <1>2, <1>3
    <3>3. QED
      BY <3>1, <3>2
  <2> HIDE DEF u, b, c, w, v, B, C
  <2>3. u * b \in Nat /\ u * c \in Nat
    BY <1>1, <1>2, <1>3
  <2>4. /\ B \in Nat /\ C \in Nat
        /\ 2 * (u * b) < 2 * m * B + m
        /\ 2 * n * C <= 2 * (u * c) + n
    <3> HIDE DEF m, n
    <3>1. QED
      BY <2>1, <2>2, <2>3, RoundedMean
  <2>5. B - C <= tol
    BY DEF B, C, NoDrop
  <2>6. QED
    BY <1>1, <1>2, <1>3, <1>6, <2>4, <2>5, RoundedMeansClose
<1>7. QED
  BY <1>5, <1>6

(* A verdict that lets a run pass earns it.                                *)
LEMMA CheckEarns ==
  ASSUME NEW now, NEW e,
         Genuine(e), DOMAIN now \subseteq Pairs,
         Check(Summary(now), e)
  PROVE  LET before == e.of
         IN  /\ Scorable(before) # {} =>
                  Held(now, Scorable(now), before, Scorable(before), Tolerance)
             /\ \A d \in Docs(before) :
                  /\ InDoc(now, d) # {}
                  /\ Held(now, InDoc(now, d), before, InDoc(before, d),
                               DocTolerance)
<1> DEFINE before == e.of
<1>1. DOMAIN before \subseteq Pairs /\ e = Summary(before)
  BY DEF Genuine
<1>2. Tolerance \in Nat /\ DocTolerance \in Nat
  BY GateAssumption
<1> HIDE DEF before
<1>3. ASSUME Scorable(before) # {}
      PROVE  Held(now, Scorable(now), before, Scorable(before), Tolerance)
  <2>1. NoDrop(Mean(now, Scorable(now)),
                    Mean(before, Scorable(before)), Tolerance)
    BY <1>1 DEF Check, Summary
  <2>2. QED
    BY <1>1, <1>2, <1>3, <2>1, NoDropHolds
<1>4. ASSUME NEW d \in Docs(before)
      PROVE  /\ InDoc(now, d) # {}
             /\ Held(now, InDoc(now, d), before, InDoc(before, d), DocTolerance)
  <2>1. /\ d \in Docs(now)
        /\ NoDrop(Mean(now, InDoc(now, d)),
                       Mean(before, InDoc(before, d)), DocTolerance)
    BY <1>1 DEF Check, Summary
  <2>2. InDoc(now, d) # {} /\ InDoc(before, d) # {}
    BY <2>1 DEF Docs, InDoc
  <2>3. /\ InDoc(now, d) \subseteq Scorable(now)
        /\ InDoc(before, d) \subseteq Scorable(before)
    BY DEF InDoc
  <2>4. QED
    BY <1>1, <1>2, <2>1, <2>2, <2>3, NoDropHolds
<1>5. QED
  BY <1>3, <1>4 DEF before


-----------------------------------------------------------------------------
(* The invariant of the gate.                                              *)

LEMMA GateStart == ASSUME GateInit PROVE GateIInv
<1>1. PICK known \in Committed :
        /\ latest = [k \in known |-> [p \in Range(dataset) |-> corpus[p, p]]]
        /\ file = [k \in known |-> Summary(latest[k])]
        /\ torn = FALSE
  BY DEF GateInit
<1>2. /\ corpus \in Corpora /\ dataset \in Datasets /\ job \in Jobs
      /\ changes = 0 /\ mishap = FALSE
      /\ phase = [r \in Runs |-> "new"]
      /\ entry = [r \in Runs |-> <<>>] /\ document = [r \in Runs |-> <<>>]
      /\ pairs = [r \in Runs |-> <<>>] /\ results = [r \in Runs |-> <<>>]
      /\ vectors = [r \in Runs |-> <<>>] /\ short = [r \in Runs |-> FALSE]
      /\ batches = [r \in Runs |-> 0] /\ tries = [r \in Runs |-> 0]
  BY DEF GateInit, Nothing
<1>3. known \subseteq Keys /\ dataset \in Seq(Pairs)
      /\ MaxChanges \in Nat /\ MaxTries \in Nat \ {0}
  BY <1>2, GateAssumption
<1>4. Range(dataset) \subseteq Pairs
  BY <1>3, RangeOfSeq
<1>5. GateTypeOK
  <2>1. 0 \in 0 .. MaxChanges /\ 0 \in 0 .. MaxTries - 1
    BY <1>3
  <2>2. DOMAIN latest \subseteq Keys /\ {torn, mishap} \subseteq BOOLEAN
    BY <1>1, <1>2, <1>3
  <2>3. phase \in [Runs -> Phases]
    BY <1>2 DEF Phases
  <2>4. pairs \in [Runs -> Seq(Pairs)] /\ vectors \in [Runs -> Seq(Pairs)]
        /\ short \in [Runs -> BOOLEAN]
    BY <1>2
  <2>5. batches \in [Runs -> Nat] /\ tries \in [Runs -> 0 .. MaxTries - 1]
    BY <1>2, <2>1
  <2>6. DOMAIN results = Runs /\ DOMAIN entry = Runs /\ DOMAIN document = Runs
    BY <1>2
  <2>7. QED
    BY <1>2, <2>1, <2>2, <2>3, <2>4, <2>5, <2>6 DEF GateTypeOK
<1>6. EntriesGenuine
  <2>1. ASSUME NEW k \in known PROVE Genuine(file[k])
    <3>1. file[k] = Summary(latest[k]) /\ DOMAIN latest[k] \subseteq Pairs
      BY <1>1, <1>4
    <3>2. Summary(latest[k]).of = latest[k]
      BY DEF Summary
    <3>3. QED
      BY <3>1, <3>2 DEF Genuine
  <2>2. AllGenuine(file)
    BY <1>1, <2>1 DEF AllGenuine
  <2>3. ASSUME NEW r \in Runs PROVE AllGenuine(document[r])
    <3>1. document[r] = <<>>
      BY <1>2
    <3>2. QED
      BY <3>1 DEF AllGenuine
  <2>4. QED
    BY <1>2, <2>2, <2>3 DEF EntriesGenuine
<1>7. RunsOrderly
  <2>1. \A r \in Runs : DOMAIN results[r] = {}
    BY <1>2
  <2>2. QED
    BY <1>2, <2>1 DEF RunsOrderly, Writing, Nothing
<1>8. VectorsInPlace /\ PassIsEarned
  BY <1>2 DEF VectorsInPlace, PassIsEarned
<1>9. WritersTakeTurns
  BY <1>1, <1>2 DEF WritersTakeTurns, Writing
<1>10. BaselineKept
  BY <1>1 DEF BaselineKept, Recorded
<1>11. QED
  BY <1>5, <1>6, <1>7, <1>8, <1>9, <1>10 DEF GateIInv

(* A step that leaves the baseline alone, and who writes it.               *)
LEMMA BaselineUntouched ==
  ASSUME GateIInv, UNCHANGED <<file, torn, document, latest, mishap>>,
         \A q \in Runs : /\ phase'[q] = "write" <=> phase[q] = "write"
                         /\ phase'[q] = "truncate" <=> phase[q] = "truncate"
  PROVE  WritersTakeTurns' /\ BaselineKept' /\ Writing' = Writing
<1>1. Writing' = Writing
  BY DEF Writing
<1>2. Recorded' = Recorded
  BY DEF Recorded
<1>3. QED
  BY <1>1, <1>2 DEF GateIInv, WritersTakeTurns, BaselineKept

(* A run that passed has nothing to earn again.                            *)
LEMMA EarnedStays ==
  ASSUME PassIsEarned, UNCHANGED job,
         \A r \in Runs : phase'[r] = "passed" /\ job[r].mode = "gate" =>
           /\ phase[r] = "passed"
           /\ entry'[r] = entry[r] /\ results'[r] = results[r] /\ pairs'[r] = pairs[r]
           /\ vectors'[r] = vectors[r] /\ short'[r] = short[r]
  PROVE  PassIsEarned'
<1>1. ASSUME NEW r \in Runs, phase'[r] = "passed", job'[r].mode = "gate"
      PROVE  /\ phase[r] = "passed" /\ job[r].mode = "gate"
             /\ entry'[r] = entry[r] /\ results'[r] = results[r] /\ pairs'[r] = pairs[r]
             /\ vectors'[r] = vectors[r] /\ short'[r] = short[r]
  BY <1>1
<1>2. QED
  BY <1>1 DEF PassIsEarned

(* A step that leaves the vectors alone, and brings no run to them.        *)
LEMMA VectorsStay ==
  ASSUME GateIInv, UNCHANGED <<pairs, batches, vectors, short>>,
         \A q \in Runs : phase'[q] \in {"embed", "search"} => phase'[q] = phase[q]
  PROVE  VectorsInPlace'
BY DEF GateIInv, VectorsInPlace

(* The world moves on, or nothing happens.                                 *)
LEMMA WorldMoves ==
  ASSUME GateIInv,
         Reingest \/ EditPairs \/ UNCHANGED gateVars
  PROVE  GateIInv'
<1> USE DEF Reingest, EditPairs, Change, gateVars, embedding, world,
            store, history
<1>1. UNCHANGED <<file, torn, phase, job, entry, pairs, batches, tries, vectors, short,
                  results, document, latest, mishap>>
  OBVIOUS
<1>2. GateTypeOK'
  <2>1. corpus' \in Corpora /\ dataset' \in Datasets
    BY DEF GateIInv, GateTypeOK
  <2>2. changes' \in 0 .. MaxChanges
    BY GateAssumption DEF GateIInv, GateTypeOK
  <2>3. QED
    BY <1>1, <2>1, <2>2 DEF GateIInv, GateTypeOK
<1>3. WritersTakeTurns' /\ BaselineKept' /\ Writing' = Writing
  BY <1>1, BaselineUntouched
<1>4. EntriesGenuine'
  BY <1>1 DEF GateIInv, EntriesGenuine
<1>5. RunsOrderly'
  BY <1>1, <1>3 DEF GateIInv, RunsOrderly
<1>6. PassIsEarned'
  BY <1>1, EarnedStays DEF GateIInv
<1>v. VectorsInPlace'
  BY <1>1, VectorsStay
<1>7. QED
  BY <1>2, <1>3, <1>4, <1>5, <1>6, <1>v DEF GateIInv

(* A run ends with exit 1 before it has touched the file.                  *)
LEMMA FailPreserves ==
  ASSUME GateIInv, NEW r \in Runs, Fail(r),
         phase[r] \in {"new", "load", "embed", "search", "truncate"}
  PROVE  GateIInv'
<1> USE DEF Fail, MoveTo, embedding, world, store, history
<1>1. /\ phase' = [phase EXCEPT ![r] = "failed"]
      /\ UNCHANGED <<corpus, dataset, changes, file, torn, job, entry, pairs, batches,
                     tries, vectors, short, results, document, latest, mishap>>
  OBVIOUS
<1>2. GateTypeOK'
  BY <1>1 DEF GateIInv, GateTypeOK, Phases, Ended
<1>t. phase \in [Runs -> Phases]
  BY DEF GateIInv, GateTypeOK
<1>3. Writing' = Writing \ {r} /\ Recorded' = Recorded
  <2>1. Writing' = Writing \ {r}
    BY <1>1, <1>t DEF Writing
  <2>2. Recorded' = Recorded
    BY <1>1 DEF Recorded
  <2>3. QED
    BY <2>1, <2>2
<1>4. WritersTakeTurns'
  BY <1>1, <1>3, <1>t DEF GateIInv, WritersTakeTurns
<1>5. BaselineKept'
  BY <1>1, <1>3 DEF GateIInv, BaselineKept
<1>6. EntriesGenuine'
  BY <1>1, <1>t DEF GateIInv, EntriesGenuine
<1>7. RunsOrderly'
  BY <1>1, <1>3, <1>t DEF GateIInv, RunsOrderly
<1>8. PassIsEarned'
  BY <1>1, <1>t, EarnedStays DEF GateIInv
<1>9. VectorsInPlace'
  BY <1>1, <1>t, VectorsStay
<1>10. QED
  BY <1>2, <1>4, <1>5, <1>6, <1>7, <1>8, <1>9 DEF GateIInv

(* A run reads its entry.                                                  *)
LEMMA StartPreserves ==
  ASSUME GateIInv, NEW r \in Runs, Start(r)
  PROVE  GateIInv'
<1> USE DEF Start, MoveTo, Readable, embedding, world, store, history
<1>1. /\ phase' = [phase EXCEPT ![r] = "load"] /\ phase[r] = "new"
      /\ UNCHANGED <<corpus, dataset, changes, file, torn, job, pairs,
                     batches, tries, vectors, short, results, document, latest, mishap>>
  OBVIOUS
<1>t. phase \in [Runs -> Phases] /\ DOMAIN entry = Runs
  BY DEF GateIInv, GateTypeOK
<1>2. /\ DOMAIN entry' = Runs
      /\ \A q \in Runs : q # r => entry'[q] = entry[q]
      /\ job[r].mode = "gate" => Genuine(entry'[r])
  <2>1. CASE job[r].mode = "update"
    BY <1>t, <2>1
  <2>2. CASE job[r].mode # "update"
    BY <1>t, <2>2 DEF GateIInv, EntriesGenuine, AllGenuine
  <2>3. QED
    BY <2>1, <2>2
<1>3. GateTypeOK'
  BY <1>1, <1>2 DEF GateIInv, GateTypeOK, Phases, Ended
<1>4. WritersTakeTurns' /\ BaselineKept' /\ Writing' = Writing
  BY <1>1, <1>t, BaselineUntouched
<1>5. EntriesGenuine'
  BY <1>1, <1>2, <1>t DEF GateIInv, EntriesGenuine
<1>6. RunsOrderly'
  BY <1>1, <1>4, <1>t DEF GateIInv, RunsOrderly
<1>7. PassIsEarned'
  BY <1>1, <1>2, <1>t, EarnedStays DEF GateIInv
<1>v. VectorsInPlace'
  BY <1>1, <1>t, VectorsStay
<1>8. QED
  BY <1>3, <1>4, <1>5, <1>6, <1>7, <1>v DEF GateIInv

(* What a vendor returns for some texts, and a batch of them.              *)
LEMMA AnswersAreSequences ==
  ASSUME NEW texts \in Seq(Pairs), NEW answer \in Answers(texts)
  PROVE  answer \in Seq(Pairs)
<1>1. PICK f \in Picks(Len(texts)) : answer = [i \in DOMAIN f |-> texts[f[i]]]
  BY DEF Answers
<1>2. PICK m \in 0 .. Len(texts) : f \in [1 .. m -> 1 .. Len(texts)]
  BY <1>1 DEF Picks
<1>3. m \in Nat /\ answer \in [1 .. m -> Pairs]
  BY <1>1, <1>2
<1>4. QED
  BY <1>3

LEMMA BatchFollows ==
  ASSUME NEW r \in Runs, pairs[r] \in Seq(Pairs), batches[r] \in Nat,
         batches[r] * ApiBatch < Len(pairs[r])
  PROVE  LET done == batches[r] * ApiBatch
             next == (batches[r] + 1) * ApiBatch
             all == SubSeq(pairs[r], 1, done) \o Batch(r)
         IN  /\ next < Len(pairs[r]) => all = SubSeq(pairs[r], 1, next)
             /\ ~(next < Len(pairs[r])) => all = pairs[r]
<1> DEFINE done == batches[r] * ApiBatch
           next == (batches[r] + 1) * ApiBatch
           last == IF done + ApiBatch < Len(pairs[r]) THEN done + ApiBatch
                   ELSE Len(pairs[r])
<1>1. done \in Nat /\ next = done + ApiBatch /\ ApiBatch \in Nat /\ Len(pairs[r]) \in Nat
  <2>1. ApiBatch \in Nat
    BY GateAssumption
  <2>2. QED
    BY <2>1
<1>2. Batch(r) = SubSeq(pairs[r], done + 1, last)
  BY DEF Batch
<1>3. done < Len(pairs[r])
  OBVIOUS
<1> HIDE DEF done, next
<1>4. 1 \in 1 .. Len(pairs[r]) + 1 /\ done \in 1 - 1 .. Len(pairs[r])
      /\ last \in done .. Len(pairs[r])
  BY <1>1, <1>3
<1> HIDE DEF last
<1>5. SubSeq(pairs[r], 1, done) \o SubSeq(pairs[r], done + 1, last)
        = SubSeq(pairs[r], 1, last)
  BY <1>4, ConcatAdjacentSubSeq
<1>6. SubSeq(pairs[r], 1, Len(pairs[r])) = pairs[r]
  BY SubSeqFull
<1>7. QED
  BY <1>1, <1>2, <1>5, <1>6 DEF done, next, last

(* The pairs are loaded, the questions embedded.                           *)
LEMMA LoadPreserves ==
  ASSUME GateIInv, NEW r \in Runs,
         LoadPairs(r) \/ EmbedBatch(r) \/ EmbedRetry(r)
  PROVE  GateIInv'
<1> USE DEF MoveTo, embedding, world, store, history
<1>t. /\ phase \in [Runs -> Phases] /\ pairs \in [Runs -> Seq(Pairs)]
      /\ vectors \in [Runs -> Seq(Pairs)] /\ short \in [Runs -> BOOLEAN]
      /\ dataset \in Seq(Pairs)
      /\ batches \in [Runs -> Nat] /\ tries \in [Runs -> 0 .. MaxTries - 1]
      /\ MaxTries \in Nat \ {0} /\ ApiBatch \in Nat \ {0}
  BY GateAssumption DEF GateIInv, GateTypeOK
<1>1. /\ UNCHANGED <<corpus, dataset, changes, file, torn, job, entry, results,
                     document, latest, mishap>>
      /\ \A q \in Runs : q # r =>
           /\ phase'[q] = phase[q] /\ pairs'[q] = pairs[q]
           /\ batches'[q] = batches[q] /\ vectors'[q] = vectors[q]
           /\ short'[q] = short[q]
      /\ phase'[r] \in {"embed", "search"} /\ phase[r] \in {"load", "embed"}
      /\ phase[r] = "load" \/ pairs'[r] = pairs[r]
      /\ phase' \in [Runs -> Phases] /\ pairs' \in [Runs -> Seq(Pairs)]
      /\ vectors' \in [Runs -> Seq(Pairs)] /\ short' \in [Runs -> BOOLEAN]
      /\ batches' \in [Runs -> Nat] /\ tries' \in [Runs -> 0 .. MaxTries - 1]
  <2>1. CASE LoadPairs(r)
    <3>1. /\ vectors' \in [Runs -> Seq(Pairs)] /\ phase' \in [Runs -> Phases]
          /\ phase'[r] \in {"embed", "search"}
          /\ \A q \in Runs : q # r => vectors'[q] = vectors[q] /\ phase'[q] = phase[q]
      BY <1>t, <2>1 DEF LoadPairs, Phases
    <3>2. /\ phase[r] = "load" /\ pairs' = [pairs EXCEPT ![r] = dataset]
          /\ UNCHANGED <<corpus, dataset, changes, file, torn, job, entry, results,
                         document, latest, mishap, batches, tries, short>>
      BY <2>1 DEF LoadPairs
    <3>3. /\ pairs' \in [Runs -> Seq(Pairs)]
          /\ \A q \in Runs : q # r => pairs'[q] = pairs[q]
      BY <1>t, <3>2
    <3>4. QED
      BY <1>t, <3>1, <3>2, <3>3
  <2>2. CASE EmbedBatch(r)
    <3>1. batches' \in [Runs -> Nat] /\ tries' \in [Runs -> 0 .. MaxTries - 1]
          /\ \A q \in Runs : q # r => batches'[q] = batches[q]
      BY <1>t, <2>2 DEF EmbedBatch
    <3>2. Batch(r) \in Seq(Pairs)
      <4> DEFINE first == batches[r] * ApiBatch + 1
                 last == IF batches[r] * ApiBatch + ApiBatch < Len(pairs[r])
                         THEN batches[r] * ApiBatch + ApiBatch ELSE Len(pairs[r])
      <4>1. pairs[r] \in Seq(Pairs) /\ batches[r] * ApiBatch \in Nat
        BY <1>t
      <4>2. first \in Int /\ last \in Int /\ \A i \in first .. last : pairs[r][i] \in Pairs
        <5> DEFINE done == batches[r] * ApiBatch
        <5> HIDE DEF done
        <5>1. done \in Nat
          BY <4>1 DEF done
        <5>2. QED
          BY <1>t, <4>1, <5>1 DEF done
      <4> HIDE DEF first, last
      <4>3. SubSeq(pairs[r], first, last) \in Seq(Pairs)
        BY <4>2, SubSeqProperties
      <4>4. QED
        BY <4>3 DEF Batch, first, last
    <3>3. PICK answer \in Answers(Batch(r)) :
            /\ vectors' = [vectors EXCEPT ![r] = @ \o answer]
            /\ short' = [short EXCEPT ![r] = @ \/ answer # Batch(r)]
      BY <2>2 DEF EmbedBatch
    <3>4. answer \in Seq(Pairs)
      BY <3>2, AnswersAreSequences
    <3>5. /\ vectors' \in [Runs -> Seq(Pairs)] /\ short' \in [Runs -> BOOLEAN]
          /\ \A q \in Runs : q # r => vectors'[q] = vectors[q] /\ short'[q] = short[q]
      BY <1>t, <3>3, <3>4
    <3>6. QED
      BY <1>t, <2>2, <3>1, <3>5 DEF EmbedBatch, Phases
  <2>3. CASE EmbedRetry(r)
    <3>1. tries' \in [Runs -> 0 .. MaxTries - 1]
      BY <1>t, <2>3 DEF EmbedRetry
    <3>2. QED
      BY <1>t, <2>3, <3>1 DEF EmbedRetry
  <2>4. QED
    BY <2>1, <2>2, <2>3
<1>2. GateTypeOK'
  BY <1>1 DEF GateIInv, GateTypeOK
<1>3. WritersTakeTurns' /\ BaselineKept' /\ Writing' = Writing
  BY <1>1, BaselineUntouched
<1>4. EntriesGenuine'
  BY <1>1 DEF GateIInv, EntriesGenuine
<1>5. RunsOrderly'
  <2>1. DOMAIN results[r] \subseteq Range(pairs'[r])
    BY <1>1 DEF GateIInv, RunsOrderly, Nothing
  <2>2. r \notin Writing
    BY <1>1 DEF Writing
  <2>3. QED
    BY <1>1, <1>3, <2>1, <2>2 DEF GateIInv, RunsOrderly
<1>6. PassIsEarned'
  BY <1>1, EarnedStays DEF GateIInv
<1>7. VectorsInPlace'
  <2>1. ASSUME ~short'[r]
        PROVE  /\ phase'[r] = "embed" =>
                    /\ batches'[r] * ApiBatch < Len(pairs'[r])
                    /\ vectors'[r] = SubSeq(pairs'[r], 1, batches'[r] * ApiBatch)
               /\ phase'[r] = "search" => vectors'[r] = pairs'[r]
    <3>1. CASE LoadPairs(r)
      <4>1. pairs'[r] = dataset /\ batches'[r] = 0 /\ vectors[r] = <<>>
        BY <1>t, <3>1 DEF LoadPairs, GateIInv, RunsOrderly
      <4>2. CASE phase'[r] = "embed"
        <5>1. vectors'[r] = <<>> /\ dataset # <<>>
          BY <1>t, <3>1, <4>1, <4>2 DEF LoadPairs
        <5>2. 0 < Len(dataset) /\ SubSeq(dataset, 1, 0) = <<>> /\ 0 * ApiBatch = 0
          BY <1>t, <5>1, SubSeqEmpty
        <5>3. QED
          BY <4>1, <4>2, <5>1, <5>2
      <4>3. CASE phase'[r] = "search"
        BY <1>t, <3>1, <4>1, <4>3 DEF LoadPairs
      <4>4. QED
        BY <1>1, <4>2, <4>3
    <3>2. CASE EmbedBatch(r)
      <4>1. PICK answer \in Answers(Batch(r)) :
              /\ vectors' = [vectors EXCEPT ![r] = @ \o answer]
              /\ short' = [short EXCEPT ![r] = @ \/ answer # Batch(r)]
        BY <3>2 DEF EmbedBatch
      <4>2. ~short[r] /\ vectors'[r] = vectors[r] \o Batch(r)
        BY <1>t, <2>1, <4>1
      <4>3. phase[r] = "embed" /\ pairs'[r] = pairs[r] /\ batches'[r] = batches[r] + 1
            /\ phase'[r] = IF batches'[r] * ApiBatch < Len(pairs[r]) THEN "embed" ELSE "search"
        BY <1>t, <3>2 DEF EmbedBatch
      <4>4. /\ batches[r] * ApiBatch < Len(pairs[r])
            /\ vectors[r] = SubSeq(pairs[r], 1, batches[r] * ApiBatch)
        BY <4>2, <4>3 DEF GateIInv, VectorsInPlace
      <4>5. pairs[r] \in Seq(Pairs) /\ batches[r] \in Nat
        BY <1>t
      <4>6. QED
        BY <4>2, <4>3, <4>4, <4>5, BatchFollows
    <3>3. CASE EmbedRetry(r)
      BY <2>1, <3>3 DEF EmbedRetry, GateIInv, VectorsInPlace
    <3>4. QED
      BY <3>1, <3>2, <3>3
  <2>2. QED
    BY <1>1, <2>1 DEF GateIInv, VectorsInPlace
<1>8. QED
  BY <1>2, <1>3, <1>4, <1>5, <1>6, <1>7 DEF GateIInv

(* One more pair is searched.                                              *)
LEMMA SearchPreserves ==
  ASSUME GateIInv, NEW r \in Runs, Search(r)
  PROVE  GateIInv'
<1> USE DEF embedding, world, store, history
<1>1. /\ UNCHANGED <<corpus, dataset, changes, file, torn, phase, job, entry, pairs,
                     batches, tries, vectors, short, document, latest, mishap>>
      /\ phase[r] = "search"
  BY DEF Search
<1>2. /\ DOMAIN results' = Runs /\ DOMAIN results'[r] \subseteq Range(pairs[r])
      /\ \A q \in Runs : q # r => results'[q] = results[q]
  <2>1. PICK i \in Unsearched(r) :
          results' = [results EXCEPT ![r] =
                        With(@, pairs[r][i], corpus[pairs[r][i], vectors[r][i]])]
    BY DEF Search
  <2>2. pairs[r][i] \in Range(pairs[r])
    BY DEF Unsearched, Range
  <2>3. DOMAIN results = Runs /\ DOMAIN results[r] \subseteq Range(pairs[r])
    BY DEF GateIInv, GateTypeOK, RunsOrderly
  <2>4. QED
    BY <2>1, <2>2, <2>3 DEF With
<1>3. GateTypeOK'
  BY <1>1, <1>2 DEF GateIInv, GateTypeOK
<1>4. WritersTakeTurns' /\ BaselineKept' /\ Writing' = Writing
  BY <1>1, BaselineUntouched
<1>5. EntriesGenuine'
  BY <1>1 DEF GateIInv, EntriesGenuine
<1>6. RunsOrderly'
  BY <1>1, <1>2, <1>4 DEF GateIInv, RunsOrderly
<1>7. PassIsEarned'
  BY <1>1, <1>2, EarnedStays DEF GateIInv
<1>8. VectorsInPlace'
  BY <1>1, VectorsStay
<1>9. QED
  BY <1>3, <1>4, <1>5, <1>6, <1>7, <1>8 DEF GateIInv

(* The verdict.                                                            *)
LEMMA VerdictPreserves ==
  ASSUME GateIInv, NEW r \in Runs, Verdict(r)
  PROVE  GateIInv'
<1> USE DEF Verdict, MoveTo, Measured,
            embedding, world, store, history
<1>1. /\ UNCHANGED <<corpus, dataset, changes, file, torn, job, entry, pairs,
                     batches, tries, vectors, short, results, document, latest, mishap>>
      /\ phase[r] = "search" /\ job[r].mode = "gate"
  OBVIOUS
<1>t. phase \in [Runs -> Phases]
  BY DEF GateIInv, GateTypeOK
<1>2. /\ phase' \in [Runs -> Phases] /\ phase'[r] \in {"passed", "failed"}
      /\ \A q \in Runs : q # r => phase'[q] = phase[q]
  BY <1>t DEF Phases, Ended
<1>3. GateTypeOK'
  BY <1>1, <1>2 DEF GateIInv, GateTypeOK
<1>4. WritersTakeTurns' /\ BaselineKept' /\ Writing' = Writing
  BY <1>1, <1>2, BaselineUntouched
<1>5. EntriesGenuine'
  BY <1>1, <1>2 DEF GateIInv, EntriesGenuine
<1>6. RunsOrderly'
  BY <1>1, <1>2, <1>4 DEF GateIInv, RunsOrderly
<1>7. PassIsEarned'
  <2> SUFFICES ASSUME NEW q \in Runs, phase'[q] = "passed", job[q].mode = "gate"
               PROVE  /\ entry[q] # Nothing
                      /\ ~short[q] => /\ vectors[q] = pairs[q]
                                      /\ DOMAIN results[q] = Range(pairs[q])
                      /\ LET now == results[q]
                             before == entry[q].of
                         IN  /\ Scorable(before) # {} =>
                                  Held(now, Scorable(now), before,
                                            Scorable(before), Tolerance)
                             /\ \A d \in Docs(before) :
                                  /\ InDoc(now, d) # {}
                                  /\ Held(now, InDoc(now, d), before,
                                               InDoc(before, d), DocTolerance)
    BY <1>1 DEF PassIsEarned
  <2>1. CASE q # r
    BY <1>2, <2>1 DEF GateIInv, PassIsEarned
  <2>2. CASE q = r
    <3>1. Genuine(entry[r])
      BY <1>1 DEF GateIInv, EntriesGenuine
    <3>2. entry[r] # Nothing
      BY <3>1 DEF Genuine, Summary, Nothing
    <3>3. pairs[r] \in Seq(Pairs) /\ DOMAIN results[r] \subseteq Range(pairs[r])
      BY DEF GateIInv, RunsOrderly, GateTypeOK
    <3>6. DOMAIN results[r] \subseteq Pairs
      BY <3>3, RangeOfSeq
    <3>7. ASSUME ~short[r]
          PROVE  vectors[r] = pairs[r] /\ DOMAIN results[r] = Range(pairs[r])
      <4>1. vectors[r] = pairs[r]
        BY <1>1, <3>7 DEF GateIInv, VectorsInPlace
      <4>2. \A i \in DOMAIN pairs[r] : pairs[r][i] \in DOMAIN results[r]
        BY <4>1 DEF Unsearched
      <4>3. QED
        BY <3>3, <4>1, <4>2 DEF Range
    <3>4. Check(Summary(results[r]), entry[r])
      BY <1>t, <2>2
    <3>5. QED
      BY <2>2, <3>1, <3>2, <3>4, <3>6, <3>7, CheckEarns
  <2>3. QED
    BY <2>1, <2>2
<1>v. VectorsInPlace'
  BY <1>1, <1>2, VectorsStay
<1>8. QED
  BY <1>3, <1>4, <1>5, <1>6, <1>7, <1>v DEF GateIInv

(* An update reads the whole baseline and writes it back.                  *)
LEMMA ReadAllPreserves ==
  ASSUME GateIInv, NEW r \in Runs, ReadAll(r)
  PROVE  GateIInv'
<1> USE DEF ReadAll, MoveTo, Measured, embedding, world, store, history
<1>1. /\ UNCHANGED <<corpus, dataset, changes, file, torn, job, entry, pairs,
                     batches, tries, vectors, short, results, latest>>
      /\ phase[r] = "search" /\ job[r].mode = "update" /\ ~torn
      /\ mishap' = (mishap \/ Writing # {})
  OBVIOUS
<1>t. phase \in [Runs -> Phases] /\ DOMAIN document = Runs
  BY DEF GateIInv, GateTypeOK
<1>2. /\ phase' \in [Runs -> Phases] /\ phase'[r] = "truncate"
      /\ \A q \in Runs : q # r => phase'[q] = phase[q]
      /\ DOMAIN document' = Runs /\ document'[r] = file
      /\ \A q \in Runs : q # r => document'[q] = document[q]
  BY <1>t DEF Phases
<1>3. GateTypeOK'
  BY <1>1, <1>2 DEF GateIInv, GateTypeOK
<1>4. Writing' = Writing \union {r} /\ Recorded' = Recorded
  <2>1. Writing' = Writing \union {r}
    BY <1>2 DEF Writing
  <2>2. Recorded' = Recorded
    BY <1>1 DEF Recorded
  <2>3. QED
    BY <2>1, <2>2
<1>5. WritersTakeTurns'
  <2> SUFFICES ASSUME ~mishap' PROVE /\ \A q \in Writing' :
                                          document'[q] = Recorded' /\ Writing' = {q}
                                     /\ ~torn'
    BY DEF WritersTakeTurns
  <2>1. ~mishap /\ Writing = {}
    BY <1>1 DEF GateIInv, GateTypeOK
  <2>2. file = Recorded
    BY <1>1, <2>1 DEF GateIInv, BaselineKept
  <2>3. QED
    BY <1>1, <1>2, <1>4, <2>1, <2>2
<1>6. BaselineKept'
  BY <1>1, <1>4 DEF GateIInv, GateTypeOK, BaselineKept
<1>7. EntriesGenuine'
  BY <1>1, <1>2 DEF GateIInv, EntriesGenuine
<1>8. RunsOrderly'
  BY <1>1, <1>2, <1>4 DEF GateIInv, RunsOrderly
<1>9. PassIsEarned'
  BY <1>1, <1>2, EarnedStays DEF GateIInv
<1>v. VectorsInPlace'
  BY <1>1, <1>2, VectorsStay
<1>10. QED
  BY <1>3, <1>5, <1>6, <1>7, <1>8, <1>9, <1>v DEF GateIInv

LEMMA TruncatePreserves ==
  ASSUME GateIInv, NEW r \in Runs, Truncate(r)
  PROVE  GateIInv'
<1> USE DEF Truncate, MoveTo, embedding, world, history
<1>1. /\ UNCHANGED <<corpus, dataset, changes, job, entry, pairs, batches,
                     tries, vectors, short, results, document, latest, mishap>>
      /\ phase[r] = "truncate" /\ file' = <<>> /\ torn' = TRUE
  BY DEF Nothing
<1>t. phase \in [Runs -> Phases]
  BY DEF GateIInv, GateTypeOK
<1>2. /\ phase' \in [Runs -> Phases] /\ phase'[r] = "write"
      /\ \A q \in Runs : q # r => phase'[q] = phase[q]
  BY <1>t DEF Phases
<1>3. GateTypeOK'
  BY <1>1, <1>2 DEF GateIInv, GateTypeOK
<1>4. Writing' = Writing /\ Recorded' = Recorded
  <2>1. Writing' = Writing
    BY <1>1, <1>2 DEF Writing
  <2>2. Recorded' = Recorded
    BY <1>1 DEF Recorded
  <2>3. QED
    BY <2>1, <2>2
<1>5. WritersTakeTurns'
  BY <1>1, <1>2, <1>4 DEF GateIInv, WritersTakeTurns
<1>6. BaselineKept'
  BY <1>1 DEF BaselineKept
<1>7. EntriesGenuine'
  <2>1. AllGenuine(file)'
    BY <1>1 DEF AllGenuine
  <2>2. QED
    BY <1>1, <1>2, <2>1 DEF GateIInv, EntriesGenuine
<1>8. RunsOrderly'
  BY <1>1, <1>2, <1>4 DEF GateIInv, RunsOrderly
<1>9. PassIsEarned'
  BY <1>1, <1>2, EarnedStays DEF GateIInv
<1>v. VectorsInPlace'
  BY <1>1, <1>2, VectorsStay
<1>10. QED
  BY <1>3, <1>5, <1>6, <1>7, <1>8, <1>9, <1>v DEF GateIInv

LEMMA WriteAllPreserves ==
  ASSUME GateIInv, NEW r \in Runs, WriteAll(r)
  PROVE  GateIInv'
<1> USE DEF WriteAll, MoveTo, embedding, world
<1> DEFINE key == job[r].key
           summary == Summary(results[r])
<1>1. /\ UNCHANGED <<corpus, dataset, changes, job, entry, pairs, batches,
                     tries, vectors, short, results, document, mishap>>
      /\ phase[r] = "write" /\ torn' = FALSE
      /\ file' = With(document[r], key, summary)
      /\ latest' = With(latest, key, results[r])
  BY DEF WithEntry
<1>t. /\ phase \in [Runs -> Phases] /\ key \in Keys
      /\ DOMAIN results[r] \subseteq Pairs /\ DOMAIN latest \subseteq Keys
      /\ r \in Writing /\ job[r].mode = "update"
  <2>1. key \in Keys
    BY GateAssumption DEF GateIInv, GateTypeOK
  <2>2. r \in Writing
    BY DEF Writing
  <2>3. job[r].mode = "update" /\ DOMAIN results[r] \subseteq Range(pairs[r])
        /\ pairs[r] \in Seq(Pairs)
    BY <2>2 DEF GateIInv, RunsOrderly, GateTypeOK
  <2>4. DOMAIN results[r] \subseteq Pairs
    BY <2>3, RangeOfSeq
  <2>5. QED
    BY <2>1, <2>2, <2>3, <2>4 DEF GateIInv, GateTypeOK
<1>2. /\ phase' \in [Runs -> Phases] /\ phase'[r] = "passed"
      /\ \A q \in Runs : q # r => phase'[q] = phase[q]
  BY <1>t DEF Phases, Ended
<1>3. GateTypeOK'
  <2>1. DOMAIN latest' \subseteq Keys
    BY <1>1, <1>t DEF With
  <2>2. QED
    BY <1>1, <1>2, <2>1 DEF GateIInv, GateTypeOK
<1>4. Writing' = Writing \ {r}
  BY <1>2 DEF Writing
<1>5. WritersTakeTurns'
  BY <1>1, <1>4, <1>t DEF GateIInv, WritersTakeTurns
<1>6. BaselineKept'
  <2> SUFFICES ASSUME ~mishap PROVE file' = Recorded'
    BY <1>1 DEF BaselineKept
  <2>1. document[r] = Recorded
    BY <1>t DEF GateIInv, WritersTakeTurns
  <2>2. With(Recorded, key, summary)
          = [k \in DOMAIN latest' |-> Summary(latest'[k])]
    <3> HIDE DEF key
    <3>1. QED
      BY <1>1 DEF With, Recorded
  <2>3. QED
    BY <1>1, <2>1, <2>2 DEF Recorded
<1>7. EntriesGenuine'
  <2>1. Genuine(summary)
    BY <1>t DEF Genuine, Summary
  <2>2. AllGenuine(document[r])
    BY DEF GateIInv, EntriesGenuine
  <2>3. AllGenuine(With(document[r], key, summary))
    <3> HIDE DEF key, summary
    <3>1. QED
      BY <2>1, <2>2 DEF AllGenuine, With
  <2>4. AllGenuine(file)'
    BY <1>1, <2>3 DEF AllGenuine
  <2>5. QED
    BY <1>1, <1>2, <1>t, <2>4 DEF GateIInv, EntriesGenuine
<1>8. RunsOrderly'
  BY <1>1, <1>2, <1>4 DEF GateIInv, RunsOrderly
<1>9. PassIsEarned'
  <2>1. \A q \in Runs : phase'[q] = "passed" /\ job[q].mode = "gate" => phase[q] = "passed"
    BY <1>2, <1>t
  <2>2. QED
    BY <1>1, <2>1, EarnedStays DEF GateIInv
<1>v. VectorsInPlace'
  BY <1>1, <1>2, VectorsStay
<1>10. QED
  BY <1>3, <1>5, <1>6, <1>7, <1>8, <1>9, <1>v DEF GateIInv

(* A run is killed, or breaks off writing.                                 *)
LEMMA KillPreserves ==
  ASSUME GateIInv, NEW r \in Runs, Kill(r) \/ WriteFails(r)
  PROVE  GateIInv'
<1> USE DEF Kill, WriteFails, MoveTo, embedding, world, store
<1>1. /\ UNCHANGED <<corpus, dataset, changes, file, torn, job, entry, pairs,
                     batches, tries, vectors, short, results, document, latest>>
      /\ phase[r] \notin {"new", "failed"} /\ mishap' = (mishap \/ phase[r] = "write")
  BY DEF Ended
<1>t. phase \in [Runs -> Phases] /\ mishap \in BOOLEAN
  BY DEF GateIInv, GateTypeOK
<1>2. /\ phase' \in [Runs -> Phases] /\ phase'[r] \in {"killed", "failed"}
      /\ \A q \in Runs : q # r => phase'[q] = phase[q]
  BY <1>t DEF Phases, Ended
<1>3. GateTypeOK'
  BY <1>1, <1>2 DEF GateIInv, GateTypeOK
<1>4. Writing' = Writing \ {r} /\ Recorded' = Recorded
  <2>1. Writing' = Writing \ {r}
    BY <1>2 DEF Writing
  <2>2. Recorded' = Recorded
    BY <1>1 DEF Recorded
  <2>3. QED
    BY <2>1, <2>2
<1>5. WritersTakeTurns'
  <2> SUFFICES ASSUME ~mishap' PROVE /\ \A q \in Writing' :
                                          document[q] = Recorded /\ Writing' = {q}
                                     /\ torn => \E q \in Runs : phase'[q] = "write"
    BY <1>1, <1>4 DEF WritersTakeTurns
  <2>1. ~mishap /\ phase[r] # "write"
    BY <1>1, <1>t
  <2>2. QED
    BY <1>2, <1>4, <2>1 DEF GateIInv, WritersTakeTurns
<1>6. BaselineKept'
  BY <1>1, <1>4, <1>t DEF GateIInv, BaselineKept
<1>7. EntriesGenuine'
  BY <1>1, <1>2 DEF GateIInv, EntriesGenuine
<1>8. RunsOrderly'
  BY <1>1, <1>2, <1>4 DEF GateIInv, RunsOrderly
<1>9. PassIsEarned'
  BY <1>1, <1>2, EarnedStays DEF GateIInv
<1>v. VectorsInPlace'
  BY <1>1, <1>2, VectorsStay
<1>10. QED
  BY <1>3, <1>5, <1>6, <1>7, <1>8, <1>9, <1>v DEF GateIInv

LEMMA GateSteps ==
  ASSUME GateIInv, [GateNext]_gateVars
  PROVE  GateIInv'
<1>1. CASE Reingest \/ EditPairs \/ GateFinished \/ UNCHANGED gateVars
  BY <1>1, WorldMoves DEF GateFinished
<1>2. ASSUME NEW r \in Runs, Work(r) PROVE GateIInv'
  <2>1. CASE NoBaseline(r) \/ LoadFails(r) \/ EmbedFails(r)
             \/ SearchFails(r) \/ ReadFails(r) \/ OpenFails(r)
    BY <2>1, FailPreserves DEF NoBaseline, LoadFails, EmbedFails,
       SearchFails, ReadFails, OpenFails, Measured
  <2>2. QED
    BY <1>2, <2>1, StartPreserves, LoadPreserves, SearchPreserves, VerdictPreserves,
       ReadAllPreserves, TruncatePreserves, WriteAllPreserves, KillPreserves DEF Work
<1>3. ASSUME NEW r \in Runs, Kill(r) PROVE GateIInv'
  BY <1>3, KillPreserves
<1>4. QED
  BY <1>1, <1>2, <1>3 DEF GateNext

(* For any runs, keys, pairs and changes the invariant of the gate holds.  *)
THEOREM GateInvariant == GateSpec => []GateIInv
<1>1. GateInit => GateIInv
  BY GateStart
<1>2. GateIInv /\ [GateNext]_gateVars => GateIInv'
  BY GateSteps
<1>3. QED
  BY <1>1, <1>2, PTL DEF GateSpec

(* A gate that exits 0 had a genuine entry to compare with and lost        *)
(* nothing beyond the tolerance and its rounding, overall and in every     *)
(* document; unless a vendor answered with too few vectors, it had scored  *)
(* every pair, each under its own (gate.py, check; harness.py, _measure).  *)
THEOREM PassesAreEarned == GateSpec => []PassIsEarned
<1>1. GateIInv => PassIsEarned
  BY DEF GateIInv
<1>2. QED
  BY <1>1, GateInvariant, PTL

(* Short of overlapping writers, or one that broke off in the middle, the  *)
(* baseline is what was recorded last for every key (write_baseline).      *)
THEOREM BaselineIsKept == GateSpec => []BaselineKept
<1>1. GateIInv => BaselineKept
  BY DEF GateIInv
<1>2. QED
  BY <1>1, GateInvariant, PTL

=============================================================================
