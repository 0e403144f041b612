---------------------------- MODULE IngestProofs ----------------------------
(***************************************************************************)
(* Proofs about ingestion: about Ingest, for every document, every set of  *)
(* versions and handlers and every batch size; then about Chunking, for    *)
(* every set of documents and budgets.                                     *)
(*                                                                         *)
(* IInv is inductive.  Locks and acknowledgements are a matter of each     *)
(* handler alone; the backfill needs to know, while it runs, that every    *)
(* untouched row at or before its cursor is healed, and that a row its     *)
(* page jumps over never needed it (PageIsAPrefix).                        *)
(*                                                                         *)
(* ChunkIInv says of every piece what the next window owes to it           *)
(* (Follows); no fact about the number or the length of the pieces is   *)
(* needed, so nothing is counted but the ids.                              *)
(***************************************************************************)
EXTENDS Ingest, Chunking, FiniteSetTheorems, TLAPS

USE IngestAssumption DEF Slots

(* Rows of the page are the first ones: what is eligible before a row of   *)
(* the page is in the page.                                                *)
LEMMA PageIsAPrefix ==
  ASSUME NEW m \in Page, NEW s \in Eligible, s <= m
  PROVE  s \in Page
<1> DEFINE Below(x) == {t \in Eligible : t < x}
<1>1. IsFiniteSet(Slots)
  BY FS_Interval
<1>2. IsFiniteSet(Below(m))
  BY <1>1, FS_Subset DEF Eligible
<1>3. Below(s) \subseteq Below(m)
  BY DEF Page, Eligible
<1>4. /\ IsFiniteSet(Below(s))
      /\ Cardinality(Below(s)) <= Cardinality(Below(m))
  BY <1>2, <1>3, FS_Subset
<1>5. Cardinality(Below(m)) < BatchSize
  BY DEF Page
<1>6. Cardinality(Below(s)) \in Nat /\ Cardinality(Below(m)) \in Nat
  BY <1>2, <1>4, FS_CardinalityType
<1>7. QED
  BY <1>4, <1>5, <1>6 DEF Page

-----------------------------------------------------------------------------

Jobs == [at : {"idle", "received", "writing", "done"},
         version : Maybe(Versions), via : {"push", "post", "load"}]

(* A handler that moves on is still a handler with a version.              *)
LEMMA MovedJob ==
  ASSUME NEW j \in [Workers -> Jobs], NEW w \in Workers,
         NEW place \in {"received", "writing", "done"},
         \A x \in Workers : j[x].at # "idle" => j[x].version \in Versions,
         j[w].version \in Versions
  PROVE  /\ [j EXCEPT ![w].at = place] \in [Workers -> Jobs]
         /\ \A x \in Workers :
              [j EXCEPT ![w].at = place][x].at # "idle" =>
                [j EXCEPT ![w].at = place][x].version \in Versions
<1> DEFINE k == [j EXCEPT ![w].at = place]
<1>1. j[w] \in Jobs
  OBVIOUS
<1>2. [j[w] EXCEPT !.at = place] \in Jobs
  BY <1>1 DEF Jobs
<1>3. \A x \in Workers : k[x] = IF x = w THEN [j[w] EXCEPT !.at = place] ELSE j[x]
  OBVIOUS
<1>4. k \in [Workers -> Jobs]
  BY <1>2
<1>5. [j[w] EXCEPT !.at = place].version = j[w].version
  BY <1>1 DEF Jobs
<1>6. \A x \in Workers : k[x].at # "idle" => k[x].version \in Versions
  BY <1>3, <1>5
<1>7. QED
  BY <1>4, <1>6

LEMMA TypePreserved ==
  ASSUME TypeOK, [Next]_vars
  PROVE  TypeOK'
<1> USE DEF TypeOK, Maybe, Idle, NotRunning, NoPage, table, queue, backfill
<1>1. CASE UNCHANGED vars
  BY <1>1 DEF vars
<1>2. ASSUME NEW v \in Versions, DeadLetter(v) PROVE TypeOK'
  BY <1>2 DEF DeadLetter
<1>3. ASSUME NEW w \in Workers, NEW v \in Versions, Deliver(w, v)
      PROVE TypeOK'
  BY <1>3 DEF Deliver, Start
<1>4. ASSUME NEW w \in Workers, NEW v \in Versions, Submit(w, v)
      PROVE TypeOK'
  <2>1. PICK via \in {"post", "load"} : Start(w, v, via)
    BY <1>4 DEF Submit
  <2>2. QED
    BY <1>4, <2>1 DEF Submit, Start
<1>5. ASSUME NEW w \in Workers, Reject(w) PROVE TypeOK'
  BY <1>5 DEF Reject, Ack
<1>6. ASSUME NEW w \in Workers, Prepare(w) PROVE TypeOK'
  <2>1. job[w].version \in Versions
    BY <1>6 DEF Prepare
  <2>2. /\ job' \in [Workers -> Jobs]
        /\ \A x \in Workers :
             job'[x].at # "idle" => job'[x].version \in Versions
    <3>1. CASE job' = [job EXCEPT ![w].at = "writing"]
      BY <2>1, <3>1, MovedJob DEF Jobs
    <3>2. CASE job' = [job EXCEPT ![w].at = "done"]
      BY <2>1, <3>2, MovedJob DEF Jobs
    <3>3. QED
      BY <1>6, <3>1, <3>2 DEF Prepare
  <2>3. QED
    BY <1>6, <2>2 DEF Prepare, Jobs
<1>7. ASSUME NEW w \in Workers, UpsertBatch(w) PROVE TypeOK'
  <2>1. PICK put \in SUBSET (Chunks[job[w].version] \ pending[w]) :
          pending' = [pending EXCEPT ![w] = @ \union put]
    BY <1>7 DEF UpsertBatch
  <2>2. Chunks[job[w].version] \subseteq Slots
    BY <1>7, IngestAssumption DEF UpsertBatch
  <2>3. pending' \in [Workers -> SUBSET Slots]
    BY <2>1, <2>2
  <2>4. UNCHANGED <<broker, deliveries, job, text, vec, delivered, touched,
                    bf, batch>>
    BY <1>7 DEF UpsertBatch
  <2>5. QED
    BY <2>3, <2>4
<1>8. ASSUME NEW w \in Workers, Commit(w) PROVE TypeOK'
  <2>1. job[w].version \in Versions
    BY <1>8 DEF Commit
  <2>2. /\ text' \in [Slots -> Maybe(Versions)]
        /\ vec' \in [Slots -> Maybe(Versions)]
        /\ touched' \subseteq Slots
    BY <1>8, <2>1 DEF Commit, Write
  <2>3. /\ job' \in [Workers -> Jobs]
        /\ \A x \in Workers : job'[x].at # "idle" => job'[x].version \in Versions
    BY <1>8, <2>1, MovedJob DEF Commit, Jobs
  <2>4. delivered' \subseteq Versions /\ pending' \in [Workers -> SUBSET Slots]
    BY <1>8, <2>1 DEF Commit
  <2>5. QED
    BY <1>8, <2>2, <2>3, <2>4 DEF Commit, Jobs
<1>9. ASSUME NEW w \in Workers, Respond(w) PROVE TypeOK'
  <2>1. broker' \in [Versions -> {"queued", "acked", "dead"}]
    <3>1. broker' = broker \/ broker' = [broker EXCEPT ![job[w].version] =
                                          IF @ = "queued" THEN "acked" ELSE @]
      BY <1>9 DEF Respond, Ack
    <3>2. QED
      BY <3>1
  <2>2. job' = [job EXCEPT ![w] = Idle]
    BY <1>9 DEF Respond
  <2>3. UNCHANGED <<deliveries, pending, text, vec, delivered, touched, bf,
                    batch>>
    BY <1>9 DEF Respond
  <2>4. QED
    BY <2>1, <2>2, <2>3
<1>10. ASSUME NEW w \in Workers, Fail(w) PROVE TypeOK'
  BY <1>10 DEF Fail
<1>11. CASE BackfillStart
  BY <1>11 DEF BackfillStart
<1>12. CASE BackfillRead
  BY <1>12 DEF BackfillRead, Page, Eligible
<1>13. CASE BackfillCommit
  <2>1. PICK m \in DOMAIN batch : bf' = [bf EXCEPT !.at = "reading", !.last = m]
    BY <1>13 DEF BackfillCommit
  <2>2. vec' \in [Slots -> Maybe(Versions)]
    BY <1>13 DEF BackfillCommit
  <2>3. bf' \in [at : {"idle", "reading", "embedding", "done"},
                all : BOOLEAN, last : Nat]
    <3>1. m \in Nat
      OBVIOUS
    <3>2. QED
      BY <2>1, <3>1
  <2>4. QED
    BY <1>13, <2>2, <2>3 DEF BackfillCommit
<1>14. CASE BackfillDone
  BY <1>14 DEF BackfillDone
<1>15. CASE BackfillFails
  BY <1>15 DEF BackfillFails
<1>16. QED
  BY <1>1, <1>2, <1>3, <1>4, <1>5, <1>6, <1>7, <1>8, <1>9, <1>10, <1>11,
     <1>12, <1>13, <1>14, <1>15 DEF Next, Handle

LEMMA LocksPreserved ==
  ASSUME TypeOK, LocksOwned, [Next]_vars
  PROVE  LocksOwned'
<1> USE DEF LocksOwned, TypeOK, table, queue, backfill
<1>1. CASE UNCHANGED <<job, pending>>
  BY <1>1
<1>2. ASSUME NEW w \in Workers, NEW v \in Versions,
             Deliver(w, v) \/ Submit(w, v)
      PROVE  LocksOwned'
  <2>1. /\ job[w].at = "idle" /\ pending' = pending
        /\ \A x \in Workers \ {w} : job'[x] = job[x]
    BY <1>2 DEF Deliver, Submit, Start
  <2>2. QED
    BY <2>1
<1>3. ASSUME NEW w \in Workers, Reject(w) \/ Prepare(w) \/ Respond(w)
      PROVE  LocksOwned'
  <2>1. /\ job[w].at \in {"received", "done"} /\ pending' = pending
        /\ \A x \in Workers \ {w} : job'[x] = job[x]
    BY <1>3 DEF Reject, Prepare, Respond
  <2>2. QED
    BY <2>1
<1>4. ASSUME NEW w \in Workers, UpsertBatch(w) PROVE LocksOwned'
  <2>1. PICK put \in SUBSET (Chunks[job[w].version] \ pending[w]) :
          ~Locked(w, put) /\ pending' = [pending EXCEPT ![w] = @ \union put]
    BY <1>4 DEF UpsertBatch
  <2>2. /\ job[w].at = "writing" /\ job' = job
        /\ pending'[w] = pending[w] \union put
        /\ \A x \in Workers \ {w} : pending'[x] = pending[x]
        /\ \A x \in Workers \ {w} : pending[x] \cap put = {}
    BY <1>4, <2>1 DEF UpsertBatch, Locked
  <2>3. pending'[w] \subseteq Chunks[job[w].version]
    BY <2>2
  <2>4. \A x \in Workers \ {w} : pending'[w] \cap pending'[x] = {}
    BY <2>2
  <2>5. ASSUME NEW x \in Workers, pending'[x] # {}
        PROVE  /\ job'[x].at = "writing"
               /\ pending'[x] \subseteq Chunks[job'[x].version]
    BY <2>2, <2>3, <2>5
  <2>6. ASSUME NEW x \in Workers, NEW y \in Workers \ {x}
        PROVE  pending'[x] \cap pending'[y] = {}
    <3>1. CASE x = w
      BY <2>4, <3>1
    <3>2. CASE y = w
      BY <2>4, <2>6, <3>2
    <3>3. CASE x # w /\ y # w
      BY <2>2, <3>3
    <3>4. QED
      BY <3>1, <3>2, <3>3
  <2>7. QED
    BY <2>5, <2>6
<1>5. ASSUME NEW w \in Workers, Commit(w) \/ Fail(w) PROVE LocksOwned'
  <2>1. /\ pending'[w] = {}
        /\ \A x \in Workers \ {w} : pending'[x] = pending[x] /\ job'[x] = job[x]
    BY <1>5 DEF Commit, Fail
  <2>2. ASSUME NEW x \in Workers, pending'[x] # {}
        PROVE  /\ job'[x].at = "writing"
               /\ pending'[x] \subseteq Chunks[job'[x].version]
    BY <2>1, <2>2
  <2>3. ASSUME NEW x \in Workers, NEW y \in Workers \ {x}
        PROVE  pending'[x] \cap pending'[y] = {}
    <3>1. CASE x = w \/ y = w
      BY <2>1, <3>1
    <3>2. CASE x # w /\ y # w
      BY <2>1, <3>2
    <3>3. QED
      BY <3>1, <3>2
  <2>4. QED
    BY <2>2, <2>3
<1>6. QED
  BY <1>1, <1>2, <1>3, <1>4, <1>5
  DEF Next, Handle, vars, DeadLetter, BackfillStart, BackfillRead,
      BackfillCommit, BackfillDone, BackfillFails

(* A handler answers 200 only after its commit, or when there is nothing   *)
(* to commit.                                                              *)
LEMMA AcksPreserved ==
  ASSUME TypeOK, Settled, AckedMeansStored, [Next]_vars
  PROVE  Settled' /\ AckedMeansStored'
<1> USE DEF Settled, AckedMeansStored, TypeOK, table, queue, backfill
<1>1. CASE UNCHANGED <<broker, job, delivered>>
  BY <1>1
<1>2. ASSUME NEW v \in Versions, DeadLetter(v)
      PROVE  Settled' /\ AckedMeansStored'
  BY <1>2 DEF DeadLetter
<1>3. ASSUME NEW w \in Workers, NEW v \in Versions,
             Deliver(w, v) \/ Submit(w, v)
      PROVE  Settled' /\ AckedMeansStored'
  <2>1. /\ job'[w].at = "received"
        /\ \A x \in Workers \ {w} : job'[x] = job[x]
        /\ UNCHANGED <<broker, delivered>>
    BY <1>3 DEF Deliver, Submit, Start
  <2>2. QED
    BY <2>1
<1>4. ASSUME NEW w \in Workers, Reject(w)
      PROVE  Settled' /\ AckedMeansStored'
  BY <1>4 DEF Reject, MustReject, Ack, Idle
<1>5. ASSUME NEW w \in Workers, Prepare(w)
      PROVE  Settled' /\ AckedMeansStored'
  BY <1>5 DEF Prepare
<1>6. ASSUME NEW w \in Workers, Commit(w)
      PROVE  Settled' /\ AckedMeansStored'
  BY <1>6 DEF Commit
<1>7. ASSUME NEW w \in Workers, Respond(w)
      PROVE  Settled' /\ AckedMeansStored'
  BY <1>7 DEF Respond, Ack, Idle
<1>8. ASSUME NEW w \in Workers, Fail(w)
      PROVE  Settled' /\ AckedMeansStored'
  BY <1>8 DEF Fail, Idle
<1>9. QED
  BY <1>1, <1>2, <1>3, <1>4, <1>5, <1>6, <1>7, <1>8
  DEF Next, Handle, vars, UpsertBatch, BackfillStart, BackfillRead,
      BackfillCommit, BackfillDone, BackfillFails

-----------------------------------------------------------------------------
(* The backfill.                                                           *)

(* Ingestion only disturbs the rows it touches.                            *)
LEMMA CommitKeepsHealed ==
  ASSUME TypeOK, LocksOwned, HealedSoFar, BackfillHeals,
         NEW w \in Workers, Commit(w)
  PROVE  HealedSoFar' /\ BackfillHeals'
<1>1. UNCHANGED <<bf, batch>>
  BY DEF Commit, backfill
<1>2. CASE bf.at = "idle"
  BY <1>1, <1>2 DEF HealedSoFar, BackfillHeals
<1>3. CASE bf.at # "idle"
  <2>1. touched' = touched \union pending[w]
    BY <1>3 DEF Commit, Write
  <2>2. ASSUME NEW s \in Slots \ touched'
        PROVE  s \in Slots \ touched /\ text'[s] = text[s] /\ vec'[s] = vec[s]
    BY <2>1 DEF Commit, Write
  <2>3. QED
    BY <1>1, <2>2
    DEF HealedSoFar, BackfillHeals, Healed, Behind, InPage
<1>4. QED
  BY <1>2, <1>3

LEMMA ReadKeepsHealed ==
  ASSUME TypeOK, HealedSoFar, BackfillRead
  PROVE  HealedSoFar' /\ BackfillHeals'
<1> USE DEF TypeOK
<1>1. /\ bf.at = "reading" /\ bf'.at = "embedding"
      /\ bf'.last = bf.last /\ bf'.all = bf.all
      /\ UNCHANGED <<text, vec, touched>>
      /\ DOMAIN batch' = Page
      /\ \A s \in Page : batch'[s] = text[s]
  BY DEF BackfillRead, table, Page, Eligible
<1>2. ASSUME NEW s \in Slots \ touched, s > bf.last, s \notin Page,
             NEW m \in Page, s <= m
      PROVE  Healed(s)
  <2>1. s \notin Eligible
    BY <1>2, PageIsAPrefix
  <2>2. QED
    BY <1>2, <2>1 DEF Eligible, Healed
<1>3. ASSUME NEW s \in Slots \ touched'
      PROVE  /\ (Behind(s) \/ InPage(s) => Healed(s))'
             /\ s \in DOMAIN batch' => batch'[s] = text'[s]
  <2>1. CASE s <= bf.last
    BY <1>1, <1>3, <2>1 DEF HealedSoFar, Behind, InPage, Healed
  <2>2. CASE s > bf.last
    <3>1. s \in Slots \ touched /\ ~Behind(s)'
      BY <1>1, <1>3, <2>2 DEF Behind
    <3>2. InPage(s)' => Healed(s)
      BY <1>1, <1>2, <2>2, <3>1 DEF InPage
    <3>3. Healed(s) => Healed(s)'
      BY <1>1 DEF Healed
    <3>4. s \in DOMAIN batch' => batch'[s] = text'[s]
      BY <1>1
    <3>5. QED
      BY <3>1, <3>2, <3>3, <3>4
  <2>3. QED
    BY <2>1, <2>2
<1>4. QED
  BY <1>1, <1>3 DEF HealedSoFar, BackfillHeals

LEMMA WriteBackKeepsHealed ==
  ASSUME TypeOK, HealedSoFar, BackfillCommit
  PROVE  HealedSoFar' /\ BackfillHeals'
<1> USE DEF TypeOK
<1>1. PICK m \in DOMAIN batch :
        /\ bf.at = "embedding"
        /\ \A s \in DOMAIN batch : s <= m
        /\ vec' = [s \in Slots |-> IF s \in DOMAIN batch THEN batch[s] ELSE vec[s]]
        /\ bf' = [bf EXCEPT !.at = "reading", !.last = m]
        /\ batch' = NoPage
        /\ UNCHANGED <<text, touched>>
  BY DEF BackfillCommit
<1>2. bf'.at = "reading" /\ bf'.last = m /\ bf'.all = bf.all
  BY <1>1
<1>3. ASSUME NEW s \in Slots \ touched, s <= m
      PROVE  Healed(s)'
  <2>1. CASE s \in DOMAIN batch
    <3>1. vec'[s] = text[s] /\ vec'[s] # Null
      BY <1>1, <1>3, <2>1 DEF HealedSoFar
    <3>2. QED
      BY <1>1, <1>2, <3>1 DEF Healed
  <2>2. CASE s \notin DOMAIN batch
    <3>1. Healed(s)
      BY <1>1, <1>3, <2>2 DEF HealedSoFar, InPage
    <3>2. QED
      BY <1>1, <1>2, <2>2, <3>1 DEF Healed
  <2>3. QED
    BY <2>1, <2>2
<1>4. QED
  BY <1>1, <1>2, <1>3 DEF HealedSoFar, BackfillHeals, Behind, InPage, NoPage

LEMMA DoneKeepsHealed ==
  ASSUME TypeOK, HealedSoFar, BackfillDone
  PROVE  HealedSoFar' /\ BackfillHeals'
<1> USE DEF TypeOK
<1>1. /\ bf.at = "reading" /\ bf'.at = "done" /\ bf'.all = bf.all
      /\ Eligible = {}
      /\ UNCHANGED <<text, vec, touched>>
  BY DEF BackfillDone, table
<1>2. ASSUME NEW s \in Slots \ touched PROVE Healed(s)
  <2>1. CASE s <= bf.last
    BY <1>1, <1>2, <2>1 DEF HealedSoFar, Behind
  <2>2. CASE s > bf.last
    <3>1. s \notin Eligible
      BY <1>1
    <3>2. QED
      BY <1>2, <2>2, <3>1 DEF Eligible, Healed
  <2>3. QED
    BY <2>1, <2>2
<1>3. QED
  BY <1>1, <1>2 DEF HealedSoFar, BackfillHeals, Healed

LEMMA HealedPreserved ==
  ASSUME TypeOK, LocksOwned, HealedSoFar, BackfillHeals, [Next]_vars
  PROVE  HealedSoFar' /\ BackfillHeals'
<1> USE DEF table, backfill
<1>1. CASE UNCHANGED <<text, vec, touched, bf, batch>>
  BY <1>1 DEF HealedSoFar, BackfillHeals, Healed, Behind, InPage
<1>2. CASE BackfillStart
  <2>1. bf'.at = "reading" /\ bf'.last = 0 /\ batch' = NoPage
    BY <1>2 DEF BackfillStart
  <2>2. QED
    BY <2>1 DEF HealedSoFar, BackfillHeals, Behind, InPage, NoPage
<1>3. CASE BackfillFails
  BY <1>3 DEF BackfillFails, NotRunning, HealedSoFar, BackfillHeals
<1>4. QED
  BY <1>1, <1>2, <1>3, CommitKeepsHealed, ReadKeepsHealed,
     WriteBackKeepsHealed, DoneKeepsHealed
  DEF Next, Handle, vars, DeadLetter, Deliver, Submit, Reject, Prepare,
      UpsertBatch, Respond, Fail

-----------------------------------------------------------------------------

LEMMA InitHolds == Init => IInv
  BY DEF Init, IInv, TypeOK, LocksOwned, Settled, AckedMeansStored,
         HealedSoFar, BackfillHeals, Idle, NotRunning, NoPage, Maybe

(* The inductive invariant holds.                                          *)
THEOREM InvariantHolds == Spec => []IInv
<1>1. IInv /\ [Next]_vars => IInv'
  BY TypePreserved, LocksPreserved, AcksPreserved, HealedPreserved DEF IInv
<1>2. QED
  BY InitHolds, <1>1, PTL DEF Spec

(* Every variable keeps its type.                                          *)
THEOREM TypeCorrect == Spec => []TypeOK
<1>1. IInv => TypeOK
  BY DEF IInv
<1>2. QED
  BY <1>1, InvariantHolds, PTL

(* No failure leaves a lock behind and no row has two writers.             *)
THEOREM LocksAreOwned == Spec => []LocksOwned
<1>1. IInv => LocksOwned
  BY DEF IInv
<1>2. QED
  BY <1>1, InvariantHolds, PTL

(* No acknowledged document is missing.                                    *)
THEOREM NothingAckedIsLost == Spec => []AckedMeansStored
<1>1. IInv => AckedMeansStored
  BY DEF IInv
<1>2. QED
  BY <1>1, InvariantHolds, PTL

(* A completed backfill leaves no gap.                                     *)
THEOREM BackfillLeavesNoGap == Spec => []BackfillHeals
<1>1. IInv => BackfillHeals
  BY DEF IInv
<1>2. QED
  BY <1>1, InvariantHolds, PTL

(* Readers see whole versions only.                                        *)
THEOREM PublishesWholeVersions == Spec => CorpusSpec
<1>1. Init => Published!Init
  BY DEF Init, Published!Init
<1>2. ASSUME IInv, [Next]_vars PROVE [Published!Next]_text
  <2>1. ASSUME NEW w \in Workers, Commit(w) PROVE Published!Next
    <3>1. job[w].version \in Versions
      BY <1>2, <2>1 DEF IInv, TypeOK, Commit
    <3>2. Published!Publish(job[w].version)
      BY <2>1 DEF Commit, Write, Published!Publish
    <3>3. QED
      BY <3>1, <3>2 DEF Published!Next
  <2>2. QED
    BY <1>2, <2>1
    DEF Next, Handle, vars, table, DeadLetter, Deliver, Submit, Reject,
        Prepare, UpsertBatch, Respond, Fail, BackfillStart, BackfillRead,
        BackfillCommit, BackfillDone, BackfillFails
<1>3. QED
  BY <1>1, <1>2, InvariantHolds, PTL DEF Spec, CorpusSpec, Published!Spec

HIDE IngestAssumption DEF Slots

-----------------------------------------------------------------------------
(* Chunking: nothing is assumed beyond its ChunkingAssumption.             *)

USE ChunkingAssumption

(* The least and the greatest element of a set of numbers.                 *)
LEMMA MinOfIs ==
  ASSUME NEW S, S \subseteq Nat, S # {}
  PROVE  MinOf(S) \in S /\ \A x \in S : MinOf(S) <= x
<1> DEFINE F == {0 .. x : x \in S}
<1>1. F # {} /\ F \subseteq FiniteSubsetsOf(Nat)
  <2>1. \A x \in S : x \in Int /\ IsFiniteSet(0 .. x) /\ 0 .. x \subseteq Nat
    BY FS_Interval
  <2>2. QED
    BY <2>1 DEF FiniteSubsetsOf
<1>2. PICK U \in F : \A V \in F : <<V, U>> \notin StrictSubsetOrdering(Nat)
  <2> HIDE DEF F
  <2>1. QED
    BY <1>1, FS_StrictSubsetOrderingWellFounded, WFMin
<1>3. PICK x \in S : U = 0 .. x
  BY <1>2
<1>4. ASSUME NEW y \in S, y < x PROVE FALSE
  <2>1. 0 .. y \in F /\ 0 .. y \subseteq 0 .. x /\ x \in (0 .. x) \ (0 .. y)
    BY <1>4
  <2>2. <<0 .. y, U>> \in StrictSubsetOrdering(Nat)
    BY <1>3, <2>1 DEF StrictSubsetOrdering
  <2>3. QED
    BY <1>2, <2>1, <2>2
<1>5. \A y \in S : x <= y
  BY <1>4
<1>6. QED
  BY <1>5 DEF MinOf

LEMMA MaxOfIs ==
  ASSUME NEW n \in Nat, NEW S, S \subseteq 0 .. n, S # {}
  PROVE  MaxOf(S) \in S /\ \A x \in S : x <= MaxOf(S)
<1> DEFINE T == {n - x : x \in S}
<1>1. T \subseteq Nat /\ T # {}
  <2>1. \A x \in S : n - x \in Nat
    OBVIOUS
  <2>2. QED
    BY <2>1
<1>2. PICK m \in T : \A y \in T : m <= y
  <2> HIDE DEF T
  <2>1. QED
    BY <1>1, MinOfIs
<1>3. PICK x \in S : m = n - x
  BY <1>2
<1>4. ASSUME NEW y \in S PROVE y <= x
  <2>1. n - x <= n - y
    BY <1>2, <1>3
  <2>2. n \in Int /\ x \in Int /\ y \in Int
    OBVIOUS
  <2>3. QED
    BY <2>1, <2>2
<1>5. QED
  BY <1>3, <1>4 DEF MaxOf

(* What strip leaves: it starts and ends with a solid character and loses  *)
(* none.                                                                   *)
LEMMA StripIs ==
  ASSUME NEW from \in Nat, NEW to \in Nat, Solid(from, to) # {}
  PROVE  LET p == Strip(from, to)
         IN  /\ p.from \in from .. to - 1 /\ p.to \in from + 1 .. to /\ p.from < p.to
             /\ ~IsSpace(p.from) /\ ~IsSpace(p.to - 1)
             /\ \A i \in from .. p.from - 1 : IsSpace(i)
             /\ \A i \in p.to .. to - 1 : IsSpace(i)
<1> DEFINE S == Solid(from, to)
           low == MinOf(S)
           high == MaxOf(S)
<1>1. S \subseteq from .. to - 1 /\ S \subseteq 0 .. to /\ S \subseteq Nat
  BY DEF Solid
<1>2. low \in S /\ high \in S /\ \A x \in S : low <= x /\ x <= high
  <2>1. S # {}
    OBVIOUS
  <2> HIDE DEF S
  <2>2. MinOf(S) \in S /\ \A x \in S : MinOf(S) <= x
    BY <1>1, <2>1, MinOfIs
  <2>3. MaxOf(S) \in S /\ \A x \in S : x <= MaxOf(S)
    BY <1>1, <2>1, MaxOfIs
  <2>4. QED
    BY <2>2, <2>3
<1>3. Strip(from, to).from = low /\ Strip(from, to).to = high + 1
  BY DEF Strip
<1>4. ~IsSpace(low) /\ ~IsSpace(high)
  BY <1>2 DEF Solid
<1>5. \A i \in from .. to - 1 : i \notin S => IsSpace(i)
  BY DEF Solid
<1> HIDE DEF S, low, high
<1>6. low \in from .. to - 1 /\ high \in from .. to - 1 /\ low <= high
  BY <1>1, <1>2
<1>7. \A i \in from .. low - 1 : i \in from .. to - 1 /\ i \notin S
  BY <1>2, <1>6
<1>8. \A i \in high + 1 .. to - 1 : i \in from .. to - 1 /\ i \notin S
  BY <1>2, <1>6
<1>9. high + 1 - 1 = high /\ high + 1 \in from + 1 .. to /\ low < high + 1
  BY <1>6
<1>10. QED
  BY <1>3, <1>4, <1>5, <1>6, <1>7, <1>8, <1>9

-----------------------------------------------------------------------------
(* Sections.                                                               *)

(* The text is a sequence of characters.                                   *)
LEMMA DocIs ==
  ASSUME doc \in Texts
  PROVE  /\ Len(doc) \in Nat /\ End \in Nat /\ End = Len(doc) + 1
         /\ \A i \in 1 .. Len(doc) : doc[i] \in Characters
<1>1. doc \in Seq(Characters)
  BY DEF ChunkingAssumption
<1>2. QED
  BY <1>1 DEF End

(* A heading is alone at the start of its line.                            *)
LEMMA LineStartIs ==
  ASSUME doc \in Texts, NEW i \in 1 .. Len(doc)
  PROVE  /\ LineStart(i) \in 1 .. i
         /\ \A j \in LineStart(i) .. i - 1 : doc[j] # NewLine
         /\ LineStart(i) > 1 => doc[LineStart(i) - 1] = NewLine
<1> DEFINE S == {0} \union {j \in 1 .. i - 1 : doc[j] = NewLine}
           m == MaxOf(S)
<1>1. Len(doc) \in Nat /\ i \in Nat \ {0}
  BY DocIs
<1>2. S \subseteq 0 .. i - 1 /\ S # {} /\ i - 1 \in Nat
  BY <1>1
<1>3. m \in S /\ \A x \in S : x <= m
  <2> HIDE DEF S
  <2>1. QED
    BY <1>2, MaxOfIs
<1>4. LineStart(i) = m + 1
  BY DEF LineStart
<1> HIDE DEF m
<1>5. m \in 0 .. i - 1 /\ (m > 0 => doc[m] = NewLine)
  BY <1>1, <1>3
<1>6. \A j \in m + 1 .. i - 1 : doc[j] # NewLine
  BY <1>1, <1>3, <1>5
<1>7. QED
  BY <1>1, <1>4, <1>5, <1>6

(* The match of a heading.                                                 *)
LEMMA MatchIs ==
  ASSUME doc \in Texts, NEW h \in Headings
  PROVE  /\ h \in 1 .. Len(doc) /\ doc[h] \in Articles
         /\ MatchStart(h) \in LineStart(h) .. h
         /\ \A j \in LineStart(h) .. h - 1 : doc[j] \in {Blank, Mark}
         /\ MatchEnd(h) \in h + 1 .. End
         /\ \A j \in h + 1 .. MatchEnd(h) - 1 : doc[j] \in {Blank, Mark}
<1>1. /\ h \in 1 .. Len(doc) /\ doc[h] \in Articles
      /\ \A j \in LineStart(h) .. h - 1 : doc[j] \in {Blank, Mark}
  BY DEF Headings, IsHeading
<1>2. LineStart(h) \in 1 .. h /\ Len(doc) \in Nat /\ End = Len(doc) + 1
  BY <1>1, LineStartIs, DocIs
<1>3. MatchStart(h) \in LineStart(h) .. h
  <2> DEFINE S == {j \in LineStart(h) .. h : doc[j] # Mark}
  <2>1. h \in S
    BY <1>1, <1>2 DEF ChunkingAssumption
  <2>2. S \subseteq Nat /\ S # {} /\ S \subseteq LineStart(h) .. h
    BY <1>2, <2>1
  <2>3. MinOf(S) \in S
    <3> HIDE DEF S
    <3>1. QED
      BY <2>2, MinOfIs
  <2>4. QED
    BY <2>2, <2>3 DEF MatchStart
<1>4. /\ MatchEnd(h) \in h + 1 .. End
      /\ \A j \in h + 1 .. MatchEnd(h) - 1 : doc[j] \in {Blank, Mark}
  <2> DEFINE S == {End} \union {j \in h + 1 .. Len(doc) : doc[j] \notin {Blank, Mark}}
             m == MinOf(S)
  <2>1. S \subseteq h + 1 .. End /\ S \subseteq Nat /\ S # {}
    BY <1>1, <1>2
  <2>2. m \in S /\ \A x \in S : m <= x
    <3> HIDE DEF S
    <3>1. QED
      BY <2>1, MinOfIs
  <2>3. MatchEnd(h) = m
    BY DEF MatchEnd
  <2> HIDE DEF m
  <2>4. m \in h + 1 .. End
    BY <2>1, <2>2
  <2>5. \A j \in h + 1 .. m - 1 : doc[j] \in {Blank, Mark}
    BY <1>1, <1>2, <2>2, <2>4
  <2>6. QED
    BY <2>3, <2>4, <2>5
<1>5. QED
  BY <1>1, <1>3, <1>4

(* What stands before a heading on its line is no letter, so a match that  *)
(* starts at or before a letter belongs to a heading before it; and one    *)
(* heading lies before the line of the next.                               *)
LEMMA MatchStartsLate ==
  ASSUME doc \in Texts, NEW h \in Headings,
         NEW i \in 1 .. Len(doc), doc[i] \in Articles \union {Letter}, i < h
  PROVE  i < MatchStart(h)
<1>1. Len(doc) \in Nat
  BY DocIs
<1>2. h \in 1 .. Len(doc) /\ MatchStart(h) \in LineStart(h) .. h
  BY MatchIs
<1>3. LineStart(h) \in 1 .. h
  BY <1>2, LineStartIs
<1>4. i \notin LineStart(h) .. h - 1
  <2>1. doc[i] \notin {Blank, Mark}
    BY DEF ChunkingAssumption
  <2>2. QED
    BY <2>1, MatchIs
<1>5. QED
  BY <1>1, <1>2, <1>3, <1>4

LEMMA SectionEndIs ==
  ASSUME doc \in Texts, NEW h \in Headings
  PROVE  /\ SectionEnd(h) \in h + 1 .. End
         /\ \A g \in Headings : g > h => SectionEnd(h) <= MatchStart(g)
         /\ \/ SectionEnd(h) = End
            \/ \E g \in Headings : g > h /\ SectionEnd(h) = MatchStart(g)
<1> DEFINE S == {End} \union {MatchStart(j) : j \in {g \in Headings : g > h}}
           m == MinOf(S)
<1>1. h \in 1 .. Len(doc) /\ doc[h] \in Articles
      /\ Len(doc) \in Nat /\ End = Len(doc) + 1
  BY MatchIs, DocIs
<1>2. ASSUME NEW g \in Headings, g > h
      PROVE  MatchStart(g) \in h + 1 .. End
  <2>1. h < MatchStart(g)
    BY <1>1, <1>2, MatchStartsLate
  <2>2. g \in 1 .. Len(doc) /\ MatchStart(g) \in LineStart(g) .. g
    BY MatchIs
  <2>3. LineStart(g) \in 1 .. g
    BY <2>2, LineStartIs
  <2>4. QED
    BY <1>1, <2>1, <2>2, <2>3
<1>3. S \subseteq h + 1 .. End /\ S \subseteq Nat /\ S # {}
  <2>1. End \in h + 1 .. End /\ h + 1 .. End \subseteq Nat
    BY <1>1
  <2>2. \A x \in S : x \in h + 1 .. End
    BY <1>2, <2>1
  <2>3. QED
    BY <2>1, <2>2
<1>4. m \in S /\ \A x \in S : m <= x
  <2> HIDE DEF S
  <2>1. QED
    BY <1>3, MinOfIs
<1>5. SectionEnd(h) = m
  BY DEF SectionEnd
<1> HIDE DEF m
<1>6. QED
  BY <1>3, <1>4, <1>5

(* Both readings of a heading agree.                                       *)
LEMMA OpensIsHeading ==
  ASSUME doc \in Texts, NEW i \in 1 .. Len(doc)
  PROVE  Opens(i) <=> i \in Headings
<1> DEFINE l == LineStart(i)
<1>1. /\ Len(doc) \in Nat /\ l \in 1 .. i
      /\ \A j \in l .. i - 1 : doc[j] # NewLine
      /\ l > 1 => doc[l - 1] = NewLine
      /\ \A j \in 1 .. Len(doc) : doc[j] \in {Letter, Blank, NewLine, Mark} \union Articles
  BY DocIs, LineStartIs DEF Characters
<1>2. Letter \notin {Blank, NewLine, Mark} /\ NewLine \notin {Blank, Mark}
      /\ \A a \in Articles : a \notin {Letter, Blank, NewLine, Mark}
  BY DEF ChunkingAssumption
<1>3. ASSUME Opens(i) PROVE i \in Headings
  <2>1. doc[i] \in Articles
    BY <1>3 DEF Opens
  <2> HIDE DEF l
  <2>2. ASSUME NEW j \in l .. i - 1, doc[j] \notin {Blank, Mark} PROVE FALSE
    <3>1. j \in 1 .. i - 1 /\ doc[j] \in Articles \union {Letter}
      BY <1>1, <2>2
    <3>2. PICK k \in j .. i : doc[k] = NewLine
      BY <1>3, <3>1 DEF Opens
    <3>3. k # i
      BY <1>2, <2>1, <3>2
    <3>4. k \in l .. i - 1
      BY <1>1, <3>2, <3>3
    <3>5. QED
      BY <1>1, <3>2, <3>4
  <2>3. QED
    BY <2>1, <2>2 DEF l, Headings, IsHeading
<1>4. ASSUME i \in Headings PROVE Opens(i)
  <2>1. doc[i] \in Articles /\ \A j \in l .. i - 1 : doc[j] \in {Blank, Mark}
    BY <1>4 DEF Headings, IsHeading
  <2> HIDE DEF l
  <2>2. ASSUME NEW j \in 1 .. i - 1, doc[j] \in Articles \union {Letter}
        PROVE  \E k \in j .. i : doc[k] = NewLine
    <3>1. j \notin l .. i - 1
      BY <1>2, <2>1, <2>2
    <3>2. l > 1 /\ l - 1 \in j .. i
      BY <1>1, <3>1
    <3>3. QED
      BY <1>1, <3>2
  <2>3. QED
    BY <2>1, <2>2 DEF Opens
<1>5. QED
  BY <1>3, <1>4

(* A letter stands in the article of the last heading before it.           *)
LEMMA StandsUnder ==
  ASSUME doc \in Texts,
         NEW i \in 1 .. Len(doc), NEW h \in Headings, h <= i,
         \A g \in Headings : g <= i => g <= h
  PROVE  Stands(i) = doc[h]
<1> DEFINE above == {g \in 1 .. i : Opens(g)}
<1>1. Len(doc) \in Nat /\ h \in 1 .. Len(doc) /\ i \in Nat
  BY DocIs, MatchIs
<1>2. above = {g \in Headings : g <= i}
  <2>1. \A g \in Headings : g \in 1 .. Len(doc)
    BY DEF Headings
  <2>2. \A g \in 1 .. Len(doc) : Opens(g) <=> g \in Headings
    BY OpensIsHeading
  <2>3. 1 .. i \subseteq 1 .. Len(doc) /\ \A g \in 1 .. Len(doc) : g <= i <=> g \in 1 .. i
    BY <1>1
  <2>4. QED
    BY <2>1, <2>2, <2>3
<1>3. above \subseteq 0 .. i /\ h \in above /\ \A g \in above : g <= h
  BY <1>1, <1>2
<1>4. MaxOf(above) = h
  <2> HIDE DEF above
  <2>1. MaxOf(above) \in above /\ \A g \in above : g <= MaxOf(above)
    BY <1>1, <1>3, MaxOfIs
  <2>2. MaxOf(above) \in 0 .. i /\ h \in 0 .. i
    BY <1>3, <2>1
  <2>3. h <= MaxOf(above) /\ MaxOf(above) <= h
    BY <1>3, <2>1
  <2>4. QED
    BY <1>1, <2>2, <2>3
<1>5. QED
  BY <1>3, <1>4 DEF Stands

LEMMA StandsInPreamble ==
  ASSUME doc \in Texts, NEW i \in 1 .. Len(doc),
         \A g \in Headings : g > i
  PROVE  Stands(i) = Preamble
<1>1. Len(doc) \in Nat
  BY DocIs
<1>2. \A g \in 1 .. i : ~Opens(g)
  BY <1>1, OpensIsHeading
<1>3. QED
  BY <1>2 DEF Stands

(* A heading's section holds the letters that stand under it.              *)
LEMMA SectionOwned ==
  ASSUME doc \in Texts, NEW h \in Headings,
         NEW i \in 1 .. Len(doc), doc[i] = Letter,
         MatchStart(h) <= i, i < SectionEnd(h)
  PROVE  Stands(i) = doc[h]
<1>1. /\ Len(doc) \in Nat /\ h \in 1 .. Len(doc) /\ doc[h] \in Articles
      /\ MatchStart(h) \in Nat
  <2>1. h \in 1 .. Len(doc) /\ MatchStart(h) \in LineStart(h) .. h
    BY MatchIs
  <2>2. QED
    BY <2>1, MatchIs, LineStartIs, DocIs
<1>2. h <= i
  <2>1. ~(i < h)
    BY <1>1, MatchStartsLate
  <2>2. QED
    BY <1>1, <2>1
<1>3. ASSUME NEW g \in Headings, g <= i PROVE g <= h
  <2>1. g \in 1 .. Len(doc) /\ MatchStart(g) \in LineStart(g) .. g
        /\ LineStart(g) \in 1 .. g
    BY MatchIs, LineStartIs
  <2>2. g > h => SectionEnd(h) <= MatchStart(g)
    BY SectionEndIs
  <2>3. SectionEnd(h) \in h + 1 .. End
    BY SectionEndIs
  <2>4. End \in Nat
    BY DocIs
  <2>5. QED
    BY <1>1, <1>3, <2>1, <2>2, <2>3, <2>4
<1>4. QED
  BY <1>2, <1>3, StandsUnder

(* The stretch before the first match.                                     *)
FirstMatch == MinOf({End} \union {MatchStart(h) : h \in Headings})

LEMMA FirstMatchIs ==
  ASSUME doc \in Texts
  PROVE  /\ FirstMatch \in 1 .. End
         /\ \A h \in Headings : FirstMatch <= MatchStart(h)
         /\ \/ FirstMatch = End
            \/ \E h \in Headings : FirstMatch = MatchStart(h)
<1> DEFINE S == {End} \union {MatchStart(h) : h \in Headings}
           m == MinOf(S)
<1>1. Len(doc) \in Nat /\ End = Len(doc) + 1
  BY DocIs
<1>2. ASSUME NEW h \in Headings PROVE MatchStart(h) \in 1 .. End
  <2>1. h \in 1 .. Len(doc) /\ MatchStart(h) \in LineStart(h) .. h
        /\ LineStart(h) \in 1 .. h
    BY MatchIs, LineStartIs
  <2>2. QED
    BY <1>1, <2>1
<1>3. S \subseteq 1 .. End /\ S \subseteq Nat /\ S # {}
  <2>1. End \in 1 .. End /\ 1 .. End \subseteq Nat
    BY <1>1
  <2>2. \A x \in S : x \in 1 .. End
    BY <1>2, <2>1
  <2>3. QED
    BY <2>1, <2>2
<1>4. m \in S /\ \A x \in S : m <= x
  <2> HIDE DEF S
  <2>1. QED
    BY <1>3, MinOfIs
<1>5. FirstMatch = m
  BY DEF FirstMatch
<1> HIDE DEF m
<1>6. QED
  BY <1>3, <1>4, <1>5

(* What split_articles returns: solid stretches, apart from each other,    *)
(* that hold every letter under the article it stands in.                  *)
LEMMA SectionShapes ==
  ASSUME doc \in Texts, NEW s \in Sections
  PROVE  \/ /\ s = Section(Preamble, 1, FirstMatch)
            /\ Solid(1, FirstMatch) # {}
         \/ \E h \in Headings :
              s = Section(doc[h], MatchStart(h), SectionEnd(h))
  BY DEF Sections, FirstMatch

LEMMA SectionsTyped ==
  ASSUME doc \in Texts, NEW s \in Sections
  PROVE  /\ s \in [article : Owners, from : Nat, to : Nat]
         /\ 1 <= s.from /\ s.to <= End /\ Solid(s.from, s.to) # {}
         /\ Owned(s)
<1>1. Len(doc) \in Nat /\ End = Len(doc) + 1
  BY DocIs
<1>2. CASE s = Section(Preamble, 1, FirstMatch) /\ Solid(1, FirstMatch) # {}
  <2>1. /\ s.article = Preamble /\ s.from = 1 /\ s.to = FirstMatch
        /\ s = [article |-> s.article, from |-> s.from, to |-> s.to]
    BY <1>2 DEF Section
  <2>2. FirstMatch \in 1 .. End
    BY FirstMatchIs
  <2>3. ASSUME NEW i \in 1 .. Len(doc), i < FirstMatch PROVE Stands(i) = Preamble
    <3>1. ASSUME NEW g \in Headings PROVE g > i
      <4>1. g \in 1 .. Len(doc) /\ MatchStart(g) \in LineStart(g) .. g
            /\ LineStart(g) \in 1 .. g /\ FirstMatch <= MatchStart(g)
        BY MatchIs, LineStartIs, FirstMatchIs
      <4>2. QED
        BY <1>1, <2>2, <2>3, <4>1
    <3>2. QED
      BY <3>1, StandsInPreamble
  <2>4. Owned(s)
    BY <2>1, <2>3 DEF Owned, Within
  <2>5. s \in [article : Owners, from : Nat, to : Nat]
    BY <1>1, <2>1, <2>2 DEF Owners
  <2>6. QED
    BY <1>1, <1>2, <2>1, <2>2, <2>4, <2>5
<1>3. ASSUME NEW h \in Headings,
             s = Section(doc[h], MatchStart(h), SectionEnd(h))
      PROVE  /\ s \in [article : Owners, from : Nat, to : Nat]
             /\ 1 <= s.from /\ s.to <= End /\ Solid(s.from, s.to) # {}
             /\ Owned(s)
  <2>1. /\ s.article = doc[h] /\ s.from = MatchStart(h) /\ s.to = SectionEnd(h)
        /\ s = [article |-> s.article, from |-> s.from, to |-> s.to]
    BY <1>3 DEF Section
  <2>2. /\ h \in 1 .. Len(doc) /\ doc[h] \in Articles
        /\ s.from \in 1 .. h /\ s.to \in h + 1 .. End
    <3>1. h \in 1 .. Len(doc) /\ MatchStart(h) \in LineStart(h) .. h
          /\ LineStart(h) \in 1 .. h /\ doc[h] \in Articles
      BY MatchIs, LineStartIs
    <3>2. s.to \in h + 1 .. End
      BY <2>1, SectionEndIs
    <3>3. QED
      BY <1>1, <2>1, <3>1, <3>2
  <2>3. h \in Solid(s.from, s.to)
    <3>1. ~IsSpace(h)
      BY <2>2 DEF IsSpace, ChunkingAssumption
    <3>2. h \in s.from .. s.to - 1
      BY <1>1, <2>2
    <3>3. QED
      BY <3>1, <3>2 DEF Solid
  <2>4. Owned(s)
    BY <2>1, SectionOwned DEF Owned, Within
  <2>5. s \in [article : Owners, from : Nat, to : Nat]
    BY <1>1, <2>1, <2>2 DEF Owners
  <2>6. QED
    BY <1>1, <2>2, <2>3, <2>4, <2>5
<1>4. QED
  BY <1>2, <1>3, SectionShapes

LEMMA SectionsDisjoint ==
  ASSUME doc \in Texts,
         NEW s \in Sections, NEW t \in Sections
  PROVE  s = t \/ s.to <= t.from \/ t.to <= s.from
<1> DEFINE first == Section(Preamble, 1, FirstMatch)
           under(h) == Section(doc[h], MatchStart(h), SectionEnd(h))
<1>1. \A h \in Headings : first.to <= under(h).from
  BY FirstMatchIs DEF Section
<1>2. \A g, h \in Headings : g < h => under(g).to <= under(h).from
  BY SectionEndIs DEF Section
<1>3. \A g, h \in Headings : g = h \/ g < h \/ h < g
  <2>1. Headings \subseteq Nat
    BY DocIs DEF Headings
  <2>2. QED
    BY <2>1
<1>4. /\ s = first \/ \E h \in Headings : s = under(h)
      /\ t = first \/ \E h \in Headings : t = under(h)
  BY SectionShapes
<1> HIDE DEF first, under
<1>5. QED
  BY <1>1, <1>2, <1>3, <1>4

LEMMA LettersInSections ==
  ASSUME doc \in Texts,
         NEW i \in 1 .. Len(doc), doc[i] = Letter
  PROVE  \E s \in Sections : Within(i, s)
<1>1. Len(doc) \in Nat /\ End = Len(doc) + 1
  BY DocIs
<1>2. ASSUME NEW h \in Headings, i < h PROVE i < MatchStart(h)
  BY <1>2, MatchStartsLate
<1>3. ~IsSpace(i) /\ doc[i] \notin Articles /\ doc[i] \notin {Blank, Mark}
  BY DEF IsSpace, ChunkingAssumption
<1> DEFINE above == {h \in Headings : h <= i}
<1>4. CASE above = {}
  <2>1. \A h \in Headings : i < h
    <3>1. Headings \subseteq Nat
      BY DocIs DEF Headings
    <3>2. QED
      BY <1>1, <1>4, <3>1
  <2>2. i < FirstMatch /\ FirstMatch \in Nat
    BY <1>1, <1>2, <2>1, FirstMatchIs
  <2>3. i \in Solid(1, FirstMatch)
    BY <1>1, <1>3, <2>2 DEF Solid
  <2> DEFINE s == Section(Preamble, 1, FirstMatch)
  <2>4. s \in Sections
    BY <2>3 DEF Sections, FirstMatch
  <2>5. Within(i, s)
    BY <1>1, <2>2 DEF Within, Section
  <2>6. QED
    BY <2>4, <2>5
<1>5. CASE above # {}
  <2> DEFINE h == MaxOf(above)
  <2>1. h \in above /\ \A g \in above : g <= h
    <3>1. above \subseteq 0 .. i /\ i \in Nat
      BY <1>1, DocIs DEF Headings
    <3> HIDE DEF above
    <3>2. QED
      BY <1>5, <3>1, MaxOfIs
  <2> HIDE DEF h
  <2>2. /\ h \in 1 .. Len(doc) /\ doc[h] \in Articles
        /\ MatchStart(h) \in 1 .. h /\ h < i
        /\ MatchEnd(h) \in h + 1 .. End
    <3>1. h \in 1 .. Len(doc) /\ doc[h] \in Articles
          /\ MatchStart(h) \in LineStart(h) .. h
          /\ LineStart(h) \in 1 .. h
          /\ MatchEnd(h) \in h + 1 .. End
      BY <2>1, MatchIs, LineStartIs
    <3>2. h # i
      BY <1>3, <3>1
    <3>3. QED
      BY <1>1, <2>1, <3>1, <3>2
  <2>3. i >= MatchEnd(h)
    <3>1. i \notin h + 1 .. MatchEnd(h) - 1
      BY <1>3, <2>1, MatchIs
    <3>2. QED
      BY <1>1, <2>2, <3>1
  <2>4. i < SectionEnd(h) /\ SectionEnd(h) \in Nat
    <3>1. CASE SectionEnd(h) = End
      BY <1>1, <3>1
    <3>2. ASSUME NEW g \in Headings, g > h, SectionEnd(h) = MatchStart(g)
          PROVE  i < SectionEnd(h) /\ SectionEnd(h) \in Nat
      <4>1. g \in 1 .. Len(doc)
        BY DEF Headings
      <4>2. i < g
        BY <1>1, <2>1, <2>2, <3>2, <4>1
      <4>3. MatchStart(g) \in Nat
        BY <4>1, MatchIs, LineStartIs, DocIs
      <4>4. QED
        BY <1>2, <3>2, <4>2, <4>3
    <3>3. QED
      BY <2>1, <3>1, <3>2, SectionEndIs
  <2>5. i \in Solid(MatchEnd(h), SectionEnd(h))
    <3>1. i \in MatchEnd(h) .. SectionEnd(h) - 1
      BY <1>1, <2>2, <2>3, <2>4
    <3>2. QED
      BY <1>3, <3>1 DEF Solid
  <2> DEFINE s == Section(doc[h], MatchStart(h), SectionEnd(h))
  <2>6. s \in Sections
    BY <2>1, <2>5 DEF Sections
  <2>7. Within(i, s)
    BY <1>1, <2>2, <2>4 DEF Within, Section
  <2>8. QED
    BY <2>6, <2>7
<1>6. QED
  BY <1>4, <1>5

-----------------------------------------------------------------------------
(* The invariant of chunking.                                              *)

(* The document does not change.                                           *)
LEMMA DocKept ==
  ASSUME UNCHANGED <<doc, max_chars, overlap>>
  PROVE  /\ End' = End /\ (LongRun' <=> LongRun)
         /\ \A i : IsSpace(i)' <=> IsSpace(i)
         /\ \A i : Stands(i)' = Stands(i)
         /\ \A a, b : Solid(a, b)' = Solid(a, b)
         /\ \A s : Owned(s)' <=> Owned(s)
         /\ \A s : Indexable(s)' <=> Indexable(s)
<1>1. End' = End
  BY DEF End
<1>2. \A i : IsSpace(i)' <=> IsSpace(i)
  BY DEF IsSpace
<1>3. \A a, b : Solid(a, b)' = Solid(a, b)
  BY <1>2 DEF Solid
<1>4. LongRun' <=> LongRun
  BY <1>1, <1>2 DEF LongRun
<1>5. \A i : Stands(i)' = Stands(i)
  BY DEF Stands, Opens
<1>6. \A s : Owned(s)' <=> Owned(s)
  BY <1>5 DEF Owned
<1>7. \A s : Indexable(s)' <=> Indexable(s)
  BY DEF Indexable, Inside
<1>8. QED
  BY <1>1, <1>2, <1>3, <1>4, <1>5, <1>6, <1>7

(* Cardinality inside the instance is the library's.                       *)
LEMMA SameCount ==
  ASSUME NEW S
  PROVE  Cardinality(S) = Cardinality(S)
  BY DEF Cardinality, Cardinality

Pieces == [article : Owners, seq : Nat, from : Nat, to : Nat]

LEMMA PiecesTyped ==
  ASSUME ChunkTypeOK
  PROVE  /\ pieces \in Seq(Pieces) /\ rows \in Seq(Pieces)
         /\ Len(pieces) \in Nat /\ Len(rows) \in Nat
         /\ \A k \in 1 .. Len(pieces) :
              /\ pieces[k].article \in Owners /\ pieces[k].seq \in Nat
              /\ pieces[k].from \in Nat /\ pieces[k].to \in Nat
<1>1. pieces \in Seq(Pieces) /\ rows \in Seq(Pieces)
  BY DEF ChunkTypeOK, Pieces
<1>2. Len(pieces) \in Nat /\ Len(rows) \in Nat /\ \A k \in 1 .. Len(pieces) : pieces[k] \in Pieces
  BY <1>1
<1>3. \A p \in Pieces : p.article \in Owners /\ p.seq \in Nat /\ p.from \in Nat /\ p.to \in Nat
  BY DEF Pieces
<1>4. QED
  BY <1>1, <1>2, <1>3

LEMMA ChunkingInit == ASSUME ChunkInit PROVE ChunkIInv
<1> USE DEF ChunkInit
<1>1. doc \in Texts /\ max_chars \in Nat \ {0} /\ overlap \in Nat
  <2>1. PICK budget \in Budgets :
          /\ max_chars = budget[1]
          /\ overlap = IF budget[2] <= budget[1] \div 2 THEN budget[2] ELSE budget[1] \div 2
    OBVIOUS
  <2>2. budget[1] \in Nat \ {0} /\ budget[2] \in Nat
    BY DEF ChunkingAssumption
  <2>3. budget[1] \div 2 \in Nat
    BY <2>2
  <2>4. QED
    BY <2>1, <2>2, <2>3
<1>2. todo = Sections /\ pieces = <<>> /\ rows = <<>> /\ skipped = 0
      /\ body = NoBody /\ start = 0 /\ seen = [a \in Owners |-> 0]
  OBVIOUS
<1>3. ChunkTypeOK
  <2>1. body \in [article : Owners, from : Nat, to : Nat]
    BY <1>2 DEF NoBody, Section, Owners
  <2>2. todo \subseteq [article : Owners, from : Nat, to : Nat]
    BY <1>1, <1>2, SectionsTyped
  <2>3. QED
    BY <1>1, <1>2, <2>1, <2>2 DEF ChunkTypeOK
<1>4. SectionsApart
  BY <1>1, <1>2, SectionsTyped, SectionsDisjoint DEF SectionsApart
<1>5. BodyOpen /\ WindowFollows /\ PiecesSorted
  BY <1>2 DEF BodyOpen, WindowFollows, PiecesSorted
<1>6. LettersKept
  <2>1. \A s \in todo : Owned(s)
    BY <1>1, <1>2, SectionsTyped
  <2>2. \A i \in 1 .. Len(doc) : doc[i] = Letter => \E s \in todo : Within(i, s)
    BY <1>1, <1>2, LettersInSections
  <2>3. QED
    BY <1>2, <2>1, <2>2 DEF LettersKept
<1>7. RowsFaithful
  <2>1. Handled = 0
    BY <1>2 DEF Handled
  <2>2. \A a \in Owners : Cardinality({k \in 1 .. Len(rows) : rows[k].article = a}) = 0
    <3> SUFFICES ASSUME NEW a \in Owners
                 PROVE  Cardinality({k \in 1 .. Len(rows) : rows[k].article = a}) = 0
      OBVIOUS
    <3>1. {k \in 1 .. Len(rows) : rows[k].article = a} = {}
      BY <1>2
    <3>2. QED
      BY <3>1, SameCount, FS_EmptySet
  <2>3. QED
    BY <1>2, <2>1, <2>2 DEF RowsFaithful
<1>8. CutsClean /\ IdsConsecutive
  BY <1>2 DEF CutsClean, IdsConsecutive
<1>9. QED
  BY <1>3, <1>4, <1>5, <1>6, <1>7, <1>8 DEF ChunkIInv

(* While a section is open or waiting, nothing has been handled.           *)
LEMMA NothingHandled ==
  ASSUME ChunkTypeOK, RowsFaithful, ~Split
  PROVE  /\ Len(rows) = 0 /\ skipped = 0 /\ Handled = 0
         /\ Len(pieces) \in Nat
<1>1. Len(rows) \in Nat /\ skipped \in Nat /\ Len(pieces) \in Nat
  BY DEF ChunkTypeOK
<1>2. ~(Handled > 0)
  BY DEF RowsFaithful
<1>3. QED
  BY <1>1, <1>2 DEF Handled

LEMMA RowsUntouched ==
  ASSUME ChunkTypeOK, RowsFaithful, ~Split, UNCHANGED <<rows, seen, skipped>>,
         Len(pieces') \in Nat
  PROVE  RowsFaithful'
<1>1. Len(rows) = 0 /\ skipped = 0
  BY NothingHandled
<1>2. Handled' = 0
  BY <1>1 DEF Handled
<1>3. \A a \in Owners : seen'[a] = Cardinality({k \in 1 .. Len(rows') : rows'[k].article = a})
  BY DEF RowsFaithful
<1>4. QED
  BY <1>1, <1>2, <1>3 DEF RowsFaithful

(* The first section left is opened.                                       *)
LEMMA OpenPreserves ==
  ASSUME ChunkIInv, OpenSection
  PROVE  ChunkIInv'
<1> USE DEF document
<1>1. /\ body = NoBody
      /\ UNCHANGED <<doc, max_chars, overlap, pieces, seen, rows, skipped>>
  BY DEF OpenSection
<1>2. PICK s \in todo :
        /\ \A t \in todo : s.from <= t.from
        /\ todo' = todo \ {s}
        /\ body' = Section(s.article, Strip(s.from, s.to).from, Strip(s.from, s.to).to)
        /\ start' = Strip(s.from, s.to).from
  BY DEF OpenSection
<1> DEFINE p == Strip(s.from, s.to)
<1>3. /\ s.article \in Owners /\ s.from \in Nat /\ s.to \in Nat
      /\ 1 <= s.from /\ s.to <= End /\ Solid(s.from, s.to) # {}
      /\ Len(doc) \in Nat /\ End = Len(doc) + 1
      /\ \A t \in todo : t.from \in Nat /\ t.to \in Nat
  BY DocIs DEF ChunkIInv, ChunkTypeOK, SectionsApart
<1>4. /\ p.from \in s.from .. s.to - 1 /\ p.to \in s.from + 1 .. s.to /\ p.from < p.to
      /\ ~IsSpace(p.from) /\ ~IsSpace(p.to - 1)
      /\ \A i \in s.from .. p.from - 1 : IsSpace(i)
      /\ \A i \in p.to .. s.to - 1 : IsSpace(i)
  BY <1>3, StripIs
<1> HIDE DEF p
<1>5. /\ body'.article = s.article /\ body'.from = p.from /\ body'.to = p.to
      /\ body' \in [article : Owners, from : Nat, to : Nat]
      /\ start' = p.from /\ body' # NoBody
      /\ p.from \in Nat /\ p.to \in Nat /\ 1 <= p.from /\ p.to <= End
  <2>1. p.from \in Nat /\ p.to \in Nat /\ 1 <= p.from /\ p.to <= End
    BY <1>3, <1>4
  <2>2. body' = Section(s.article, p.from, p.to) /\ start' = p.from
    BY <1>2 DEF p
  <2>3. QED
    BY <1>3, <2>1, <2>2 DEF Section, NoBody
<1>6. ChunkTypeOK'
  BY <1>1, <1>2, <1>5 DEF ChunkIInv, ChunkTypeOK
<1>7. \A k \in 1 .. Len(pieces) : pieces[k].to <= p.from /\ pieces[k].to \in Nat /\ pieces[k].from \in Nat
                                 /\ pieces[k].from < pieces[k].to
  <2>1. \A k \in 1 .. Len(pieces) : pieces[k].to <= s.from /\ pieces[k].from < pieces[k].to
    BY DEF ChunkIInv, SectionsApart, PiecesSorted
  <2>2. \A k \in 1 .. Len(pieces) : pieces[k].to \in Nat /\ pieces[k].from \in Nat
    BY PiecesTyped DEF ChunkIInv
  <2>3. QED
    BY <1>3, <1>4, <1>5, <2>1, <2>2
<1>8. SectionsApart'
  <2>1. ASSUME NEW t \in todo' PROVE p.to <= t.from
    <3>1. t \in todo /\ t # s /\ s.from <= t.from
      BY <1>2
    <3>2. s.to <= t.from \/ t.to <= s.from
      BY <3>1 DEF ChunkIInv, SectionsApart
    <3>3. t.from < t.to
      <4>1. Solid(t.from, t.to) # {}
        BY <3>1 DEF ChunkIInv, SectionsApart
      <4>2. QED
        BY <1>3, <3>1, <4>1 DEF Solid
    <3>4. QED
      BY <1>3, <1>4, <1>5, <3>1, <3>2, <3>3
  <2>2. QED
    BY <1>1, <1>2, <1>5, <2>1, DocKept DEF ChunkIInv, SectionsApart
<1>9. BodyOpen'
  BY <1>1, <1>4, <1>5, DocKept DEF BodyOpen
<1>10. PiecesSorted' /\ CutsClean' /\ IdsConsecutive'
  <2>1. PiecesSorted'
    BY <1>1, DocKept DEF ChunkIInv, PiecesSorted
  <2>2. CutsClean'
    BY <1>1, DocKept DEF ChunkIInv, CutsClean, BreaksWord
  <2>3. IdsConsecutive'
    BY <1>1 DEF ChunkIInv, IdsConsecutive
  <2>4. QED
    BY <2>1, <2>2, <2>3
<1>11. WindowFollows'
  <2>1. ASSUME NEW k \in 1 .. Len(pieces) PROVE Follows(pieces[k])'
    <3>1. overlap \in Nat
      BY DEF ChunkIInv, ChunkTypeOK
    <3>2. pieces[k].to - p.from <= overlap /\ p.from .. pieces[k].from - 1 = {}
      BY <1>5, <1>7, <3>1
    <3>3. QED
      BY <1>1, <1>5, <1>7, <3>2 DEF Follows
  <2>2. QED
    BY <1>1, <2>1 DEF WindowFollows
<1>12. LettersKept'
  <2>1. Owned(body')
    BY <1>3, <1>4, <1>5 DEF ChunkIInv, LettersKept, Owned, Within
  <2>2. ASSUME NEW i \in 1 .. Len(doc), doc[i] = Letter, Within(i, s)
        PROVE  start' <= i /\ i < body'.to
    <3>1. ~IsSpace(i)
      BY <2>2 DEF IsSpace, ChunkingAssumption
    <3>2. i \in s.from .. s.to - 1
      BY <1>3, <2>2 DEF Within
    <3>3. QED
      BY <1>3, <1>4, <1>5, <3>1, <3>2
  <2>3. \A i \in 1 .. Len(doc) : doc[i] = Letter =>
          \/ \E t \in todo' : Within(i, t)
          \/ start' <= i /\ i < body'.to
          \/ \E k \in 1 .. Len(pieces) : Within(i, pieces[k])
    BY <1>1, <1>2, <2>2 DEF ChunkIInv, LettersKept
  <2>4. \A t, i : Within(i, t)' <=> Within(i, t)
    BY DEF Within
  <2>5. QED
    BY <1>1, <1>2, <1>5, <2>1, <2>3, <2>4, DocKept DEF ChunkIInv, LettersKept
<1>13. RowsFaithful'
  <2>1. ~Split /\ Len(pieces') \in Nat
    BY <1>1, <1>2 DEF Split, ChunkIInv, ChunkTypeOK
  <2>2. QED
    BY <1>1, <2>1, RowsUntouched DEF ChunkIInv
<1>14. QED
  BY <1>6, <1>8, <1>9, <1>10, <1>11, <1>12, <1>13 DEF ChunkIInv

-----------------------------------------------------------------------------
(* The splitter's indexes.                                                 *)

LEMMA OpenBody ==
  ASSUME ChunkTypeOK, BodyOpen, body # NoBody
  PROVE  /\ body.from \in Nat /\ body.to \in Nat /\ start \in Nat
         /\ max_chars \in Nat \ {0} /\ overlap \in Nat
         /\ 1 <= body.from /\ body.from <= start /\ start < body.to /\ body.to <= End
         /\ End = Len(doc) + 1 /\ Len(doc) \in Nat
         /\ ~IsSpace(body.to - 1)
  BY DocIs DEF ChunkTypeOK, BodyOpen

(* The smaller and the larger of two numbers.                              *)
LEMMA OfTwo ==
  ASSUME NEW a \in Int, NEW b \in Int
  PROVE  /\ MinOf({a, b}) = IF a <= b THEN a ELSE b
         /\ MaxOf({a, b}) = IF a <= b THEN b ELSE a
<1>1. CASE a <= b
  <2>1. \A x \in {a, b} : (\A y \in {a, b} : x <= y) <=> x = a
    BY <1>1
  <2>2. \A x \in {a, b} : (\A y \in {a, b} : x >= y) <=> x = b
    BY <1>1
  <2>3. QED
    BY <1>1, <2>1, <2>2 DEF MinOf, MaxOf
<1>2. CASE ~(a <= b)
  <2>1. \A x \in {a, b} : (\A y \in {a, b} : x <= y) <=> x = b
    BY <1>2
  <2>2. \A x \in {a, b} : (\A y \in {a, b} : x >= y) <=> x = a
    BY <1>2
  <2>3. QED
    BY <1>2, <2>1, <2>2 DEF MinOf, MaxOf
<1>3. QED
  BY <1>1, <1>2

(* A window and where its piece ends.                                      *)
LEMMA PieceEndIs ==
  ASSUME ChunkTypeOK, BodyOpen, body # NoBody
  PROVE  /\ PieceEnd \in start + 1 .. body.to /\ PieceEnd <= start + max_chars
         /\ \A e \in start + 1 .. start + max_chars - 1 :
              e < body.to /\ IsSpace(e) => e <= PieceEnd
         /\ IsLast => PieceEnd = body.to
         /\ ~IsLast => /\ PieceEnd < body.to
                       /\ ~LongRun => IsSpace(PieceEnd)
                       /\ ~HardSplit => /\ IsSpace(PieceEnd)
                                        /\ PieceEnd < start + max_chars
<1> DEFINE W == Window
           C == Cuts
<1>1. /\ body.from \in Nat /\ body.to \in Nat /\ start \in Nat
      /\ max_chars \in Nat \ {0} /\ start < body.to /\ body.to <= End
      /\ End = Len(doc) + 1 /\ Len(doc) \in Nat
  BY OpenBody
<1>2. W = IF start + max_chars <= body.to THEN (start + max_chars) ELSE body.to
  BY <1>1, OfTwo DEF Window
<1>3. /\ W \in start + 1 .. body.to /\ W <= start + max_chars
      /\ W # body.to => W = start + max_chars /\ start + max_chars < body.to
  BY <1>1, <1>2
<1>4. C = {e \in start + 1 .. W - 1 : IsSpace(e)}
  BY DEF Cuts
<1>5. \A e \in start + 1 .. start + max_chars - 1 : e < body.to /\ IsSpace(e) => e \in C
  BY <1>1, <1>2, <1>4
<1> HIDE DEF W, C
<1>6. CASE IsLast
  <2>1. PieceEnd = body.to /\ W = body.to
    BY <1>6 DEF W, PieceEnd, IsLast
  <2>2. \A e \in start + 1 .. start + max_chars - 1 :
          e < body.to /\ IsSpace(e) => e <= PieceEnd
    BY <1>1, <2>1
  <2>3. PieceEnd \in start + 1 .. body.to /\ PieceEnd <= start + max_chars
    BY <1>3, <2>1
  <2>4. QED
    BY <1>6, <2>1, <2>2, <2>3, Zenon
<1>7. CASE ~IsLast /\ C = {}
  <2>1. PieceEnd = start + max_chars /\ start + max_chars < body.to /\ HardSplit
    BY <1>3, <1>7 DEF W, C, PieceEnd, IsLast, HardSplit
  <2>2. ASSUME ~LongRun PROVE IsSpace(start + max_chars)
    <3>1. start + 1 \in 1 .. Len(doc) /\ start + 1 + max_chars <= End
      BY <1>1, <2>1
    <3>2. PICK j \in start + 1 .. start + 1 + max_chars - 1 : IsSpace(j)
      BY <2>2, <3>1 DEF LongRun
    <3>3. j \notin start + 1 .. start + max_chars - 1
      <4>1. j < body.to
        BY <1>1, <2>1, <3>2
      <4>2. QED
        BY <1>5, <1>7, <3>2, <4>1
    <3>4. j = start + max_chars
      BY <1>1, <3>2, <3>3
    <3>5. QED
      BY <3>2, <3>4
  <2>3. \A e \in start + 1 .. start + max_chars - 1 :
          e < body.to /\ IsSpace(e) => e <= PieceEnd
    BY <1>5, <1>7
  <2>4. PieceEnd \in start + 1 .. body.to /\ PieceEnd <= start + max_chars /\ PieceEnd < body.to
    BY <1>1, <2>1
  <2>5. ~LongRun => IsSpace(PieceEnd)
    BY <2>1, <2>2
  <2>6. QED
    BY <1>7, <2>1, <2>3, <2>4, <2>5, Zenon
<1>8. CASE ~IsLast /\ C # {}
  <2>1. PieceEnd = MaxOf(C) /\ ~HardSplit /\ W = start + max_chars /\ start + max_chars < body.to
    BY <1>3, <1>8 DEF W, C, PieceEnd, IsLast, HardSplit
  <2>2. PieceEnd \in C /\ \A e \in C : e <= PieceEnd
    <3>1. C \subseteq 0 .. start + max_chars /\ start + max_chars \in Nat
      BY <1>1, <1>4, <2>1
    <3>2. QED
      BY <1>8, <2>1, <3>1, MaxOfIs
  <2>3. PieceEnd \in start + 1 .. start + max_chars - 1 /\ IsSpace(PieceEnd)
    <3>1. PieceEnd \in start + 1 .. W - 1 /\ IsSpace(PieceEnd)
      BY <1>4, <2>2, Zenon
    <3>2. QED
      BY <1>1, <2>1, <3>1
  <2>4. \A e \in start + 1 .. start + max_chars - 1 :
          e < body.to /\ IsSpace(e) => e <= PieceEnd
    BY <1>5, <2>2
  <2>5. /\ PieceEnd \in start + 1 .. body.to /\ PieceEnd <= start + max_chars
        /\ PieceEnd < body.to /\ PieceEnd < start + max_chars
    BY <1>1, <2>1, <2>3
  <2>6. QED
    BY <1>8, <2>3, <2>4, <2>5, Zenon
<1>9. QED
  BY <1>6, <1>7, <1>8

(* The start of the next word at or after i.                               *)
LEMMA NextWordStartIs ==
  ASSUME body.from \in Nat, body.to \in Nat, NEW i \in Nat, body.from < i, i < body.to
  PROVE  LET r == NextWordStart(i)
         IN  /\ r \in i .. body.to
             /\ r = body.to \/ IsSpace(r - 1)
             /\ \A e \in i .. body.to - 1 : IsSpace(e) =>
                  \A j \in e .. r - 1 : IsSpace(j)
<1> DEFINE r == NextWordStart(i)
           S == {j \in i .. body.to - 1 : IsSpace(j)}
           m == MinOf(S)
           T == {body.to} \union {j \in m .. body.to - 1 : ~IsSpace(j)}
<1>1. CASE IsSpace(i - 1)
  <2>1. r = i
    BY <1>1 DEF NextWordStart
  <2>2. \A e \in i .. body.to - 1 : e .. r - 1 = {}
    BY <2>1
  <2>3. QED
    BY <1>1, <2>1, <2>2
<1>2. CASE ~IsSpace(i - 1) /\ S = {}
  <2>1. r = body.to
    BY <1>2 DEF NextWordStart
  <2>2. QED
    BY <1>2, <2>1
<1>3. CASE ~IsSpace(i - 1) /\ S # {}
  <2>1. r = MinOf(T)
    BY <1>3 DEF NextWordStart
  <2>2. m \in S /\ \A x \in S : m <= x
    <3>1. S \subseteq Nat
      OBVIOUS
    <3> HIDE DEF S
    <3>2. QED
      BY <1>3, <3>1, MinOfIs
  <2>3. m \in i .. body.to - 1 /\ IsSpace(m)
    BY <2>2
  <2> HIDE DEF m
  <2>4. T \subseteq m .. body.to /\ T \subseteq Nat /\ T # {}
    BY <2>3
  <2>5. r \in T /\ \A x \in T : r <= x
    <3> HIDE DEF T, r
    <3>1. QED
      BY <2>1, <2>4, MinOfIs
  <2> HIDE DEF r
  <2>6. r \in m .. body.to
    BY <2>4, <2>5
  <2>7. \A j \in m .. r - 1 : IsSpace(j)
    BY <2>3, <2>5, <2>6
  <2>8. r # body.to => r # m
    BY <2>3, <2>5
  <2>9. r = body.to \/ IsSpace(r - 1)
    BY <2>3, <2>6, <2>7, <2>8
  <2>10. ASSUME NEW e \in i .. body.to - 1, IsSpace(e), NEW j \in e .. r - 1
         PROVE  IsSpace(j)
    <3>1. m <= e
      BY <2>2, <2>10
    <3>2. j \in m .. r - 1
      BY <2>3, <2>6, <3>1
    <3>3. QED
      BY <2>7, <3>2
  <2>11. r \in i .. body.to
    BY <2>3, <2>6
  <2>12. QED
    BY <2>9, <2>10, <2>11 DEF r
<1>4. QED
  BY <1>1, <1>2, <1>3

(* Where the next window starts: further on, repeating no more than the    *)
(* overlap, and skipping whitespace only.                                  *)
LEMMA ResumeIs ==
  ASSUME ChunkTypeOK, BodyOpen, body # NoBody, ~IsLast
  PROVE  /\ Resume \in start + 1 .. body.to
         /\ PieceEnd - overlap <= Resume
         /\ \A j \in PieceEnd .. Resume - 1 : IsSpace(j)
         /\ ~LongRun => \/ Resume = body.to \/ IsSpace(Resume - 1)
                            \/ IsSpace(Resume)
         /\ HardSplit => Resume = PieceEnd
<1> DEFINE E == PieceEnd
           R == Resume
           back == MaxOf({start + 1, E - overlap})
<1>1. /\ body.from \in Nat /\ body.to \in Nat /\ start \in Nat /\ overlap \in Nat
      /\ body.from <= start /\ start < body.to
  BY OpenBody
<1>2. /\ E \in start + 1 .. body.to /\ E < body.to
      /\ ~LongRun => IsSpace(E)
      /\ ~HardSplit => IsSpace(E)
  BY PieceEndIs
<1> HIDE DEF E
<1>3. CASE HardSplit
  <2>1. R = E
    BY <1>3 DEF E, Resume
  <2> HIDE DEF R
  <2>2. R \in start + 1 .. body.to /\ E - overlap <= R /\ E .. R - 1 = {}
    BY <1>1, <1>2, <2>1
  <2>3. QED
    BY <1>2, <2>1, <2>2 DEF E, R
<1>4. CASE ~HardSplit
  <2>1. R = NextWordStart(back)
    BY <1>4 DEF E, Resume
  <2>2. back = IF start + 1 <= E - overlap THEN E - overlap ELSE start + 1
    <3> DEFINE a == start + 1
               b == E - overlap
    <3>1. a \in Int /\ b \in Int
      BY <1>1, <1>2
    <3> HIDE DEF a, b
    <3>2. MaxOf({a, b}) = IF a <= b THEN b ELSE a
      BY <3>1, OfTwo
    <3>3. QED
      BY <3>2 DEF a, b
  <2> HIDE DEF back
  <2>3. /\ back \in start + 1 .. E /\ E - overlap <= back
        /\ back \in Nat /\ body.from < back /\ back < body.to
    BY <1>1, <1>2, <2>2
  <2>4. /\ R \in back .. body.to
        /\ R = body.to \/ IsSpace(R - 1)
        /\ \A e \in back .. body.to - 1 : IsSpace(e) => \A j \in e .. R - 1 : IsSpace(j)
    <3> HIDE DEF R
    <3>1. QED
      BY <1>1, <2>1, <2>3, NextWordStartIs
  <2> HIDE DEF R
  <2>5. E \in back .. body.to - 1 /\ IsSpace(E)
    BY <1>1, <1>2, <1>4, <2>3
  <2>6. R \in start + 1 .. body.to /\ E - overlap <= R
    BY <1>1, <1>2, <2>3, <2>4
  <2>7. QED
    BY <1>4, <2>4, <2>5, <2>6 DEF E, R
<1>5. QED
  BY <1>3, <1>4

-----------------------------------------------------------------------------
(* One window of the splitter.                                             *)

(* The piece a window yields.                                              *)
NewPiece == [article |-> body.article, seq |-> LocalSeq,
             from |-> Strip(start, PieceEnd).from,
             to |-> Strip(start, PieceEnd).to]

LEMMA LocalSeqIs ==
  ASSUME ChunkTypeOK, PiecesSorted
  PROVE  /\ LocalSeq \in Nat
         /\ LocalSeq > 0 => /\ Len(pieces) > 0
                                /\ pieces[Len(pieces)].from >= body.from
<1> DEFINE S == {k \in 1 .. Len(pieces) : pieces[k].from >= body.from}
<1>1. Len(pieces) \in Nat /\ \A k \in 1 .. Len(pieces) : pieces[k].from \in Nat
  BY PiecesTyped
<1>2. IsFiniteSet(S) /\ Cardinality(S) \in Nat
  <2>1. IsFiniteSet(1 .. Len(pieces)) /\ S \subseteq 1 .. Len(pieces)
    BY <1>1, FS_Interval
  <2> HIDE DEF S
  <2>2. QED
    BY <2>1, FS_Subset, FS_CardinalityType
<1>3. LocalSeq = Cardinality(S)
  BY SameCount DEF LocalSeq
<1>4. ASSUME Cardinality(S) > 0
      PROVE  Len(pieces) > 0 /\ pieces[Len(pieces)].from >= body.from
  <2>1. S # {}
    <3> HIDE DEF S
    <3>1. QED
      BY <1>4, FS_EmptySet
  <2>2. PICK k \in 1 .. Len(pieces) : pieces[k].from >= body.from
    BY <2>1
  <2>3. pieces[k].from <= pieces[Len(pieces)].from
    BY <1>1, <2>2 DEF PiecesSorted
  <2>4. body.from \in Nat
    BY DEF ChunkTypeOK
  <2>5. QED
    BY <1>1, <2>2, <2>3, <2>4
<1>5. QED
  BY <1>2, <1>3, <1>4

LEMMA NewPieceIs ==
  ASSUME ChunkIInv, body # NoBody,
         Solid(start, PieceEnd) # {}
  PROVE  /\ NewPiece \in Pieces /\ NewPiece.article = body.article
         /\ NewPiece.seq = LocalSeq
         /\ NewPiece.from \in start .. PieceEnd - 1
         /\ NewPiece.to \in start + 1 .. PieceEnd
         /\ NewPiece.from < NewPiece.to
         /\ ~IsSpace(NewPiece.from) /\ ~IsSpace(NewPiece.to - 1)
         /\ \A i \in start .. NewPiece.from - 1 : IsSpace(i)
         /\ \A i \in NewPiece.to .. PieceEnd - 1 : IsSpace(i)
<1> DEFINE p == Strip(start, PieceEnd)
<1>1. start \in Nat /\ body.to \in Nat /\ PieceEnd \in start + 1 .. body.to
  BY OpenBody, PieceEndIs DEF ChunkIInv
<1>2. PieceEnd \in Nat
  BY <1>1
<1>3. /\ p.from \in start .. PieceEnd - 1 /\ p.to \in start + 1 .. PieceEnd
      /\ p.from < p.to
      /\ ~IsSpace(p.from) /\ ~IsSpace(p.to - 1)
      /\ \A i \in start .. p.from - 1 : IsSpace(i)
      /\ \A i \in p.to .. PieceEnd - 1 : IsSpace(i)
  BY <1>1, <1>2, StripIs
<1>4. LocalSeq \in Nat /\ body.article \in Owners
  BY LocalSeqIs DEF ChunkIInv, ChunkTypeOK
<1>5. /\ NewPiece.article = body.article /\ NewPiece.seq = LocalSeq
      /\ NewPiece.from = p.from /\ NewPiece.to = p.to
  BY DEF NewPiece
<1>6. p.from \in Nat /\ p.to \in Nat
  <2> HIDE DEF p
  <2>1. QED
    BY <1>1, <1>2, <1>3
<1>7. NewPiece \in Pieces
  BY <1>4, <1>6 DEF Pieces, NewPiece
<1> HIDE DEF p
<1>8. QED
  BY <1>3, <1>5, <1>7

(* No piece cut before ends past this window's, nor starts after the new   *)
(* piece.                                                                  *)
LEMMA OldPieces ==
  ASSUME ChunkIInv, body # NoBody,
         NEW k \in 1 .. Len(pieces)
  PROVE  /\ pieces[k].from \in Nat /\ pieces[k].to \in Nat
         /\ pieces[k].from < pieces[k].to
         /\ pieces[k].to <= PieceEnd /\ pieces[k].to - start <= overlap
         /\ Solid(start, PieceEnd) # {} =>
              /\ pieces[k].from <= NewPiece.from /\ pieces[k].to <= NewPiece.to
              /\ pieces[k].to - NewPiece.from <= overlap
<1> DEFINE p == pieces[k]
<1>1. /\ start \in Nat /\ body.to \in Nat /\ overlap \in Nat /\ max_chars \in Nat \ {0}
      /\ PieceEnd \in start + 1 .. body.to
      /\ \A e \in start + 1 .. start + max_chars - 1 :
           e < body.to /\ IsSpace(e) => e <= PieceEnd
  BY OpenBody, PieceEndIs DEF ChunkIInv
<1>2. p.from \in Nat /\ p.to \in Nat
  BY PiecesTyped DEF ChunkIInv
<1>3. p.from < p.to /\ ~IsSpace(p.to - 1)
  BY DEF ChunkIInv, PiecesSorted
<1>4. /\ p.to - start <= overlap
      /\ \A i \in start .. p.from - 1 : IsSpace(i)
      /\ p.to <= start \/ \E e \in p.to .. start + max_chars - 1 : e < body.to /\ IsSpace(e)
  BY DEF ChunkIInv, WindowFollows, Follows
<1> HIDE DEF p
<1>5. p.to <= PieceEnd
  <2>1. CASE p.to <= start
    BY <1>1, <1>2, <2>1
  <2>2. CASE p.to > start
    <3>1. PICK e \in p.to .. start + max_chars - 1 : e < body.to /\ IsSpace(e)
      BY <1>1, <1>2, <1>4, <2>2
    <3>2. e \in start + 1 .. start + max_chars - 1
      BY <1>1, <1>2, <2>2, <3>1
    <3>3. e <= PieceEnd
      BY <1>1, <3>1, <3>2
    <3>4. QED
      BY <1>1, <1>2, <3>1, <3>3
  <2>3. QED
    BY <1>1, <1>2, <2>1, <2>2
<1>6. ASSUME Solid(start, PieceEnd) # {}
      PROVE  p.from <= NewPiece.from /\ p.to <= NewPiece.to /\ p.to - NewPiece.from <= overlap
  <2>1. /\ NewPiece.from \in start .. PieceEnd - 1
        /\ NewPiece.to \in start + 1 .. PieceEnd
        /\ ~IsSpace(NewPiece.from)
        /\ \A i \in NewPiece.to .. PieceEnd - 1 : IsSpace(i)
    BY <1>6, NewPieceIs
  <2>2. NewPiece.from \in Nat /\ NewPiece.to \in Nat
    BY <1>1, <2>1
  <2>3. p.from <= NewPiece.from
    <3>1. NewPiece.from \notin start .. p.from - 1
      BY <1>4, <2>1
    <3>2. QED
      BY <1>1, <1>2, <2>1, <2>2, <3>1
  <2>4. p.to <= NewPiece.to
    <3>1. p.to - 1 \notin NewPiece.to .. PieceEnd - 1
      BY <1>3, <2>1
    <3>2. QED
      BY <1>1, <1>2, <1>5, <2>2, <3>1
  <2>5. p.to - NewPiece.from <= overlap
    BY <1>1, <1>2, <1>4, <2>1, <2>2
  <2>6. QED
    BY <2>3, <2>4, <2>5
<1>7. QED
  BY <1>2, <1>3, <1>4, <1>5, <1>6 DEF p

(* Where every word is shorter than the budget, a piece of the same        *)
(* section and the next are both cut at whitespace.                        *)
LEMMA WordsWhole ==
  ASSUME ChunkIInv, body # NoBody, ~LongRun,
         Solid(start, PieceEnd) # {}, NewPiece.seq > 0
  PROVE  IsSpace(pieces[Len(pieces)].to) /\ IsSpace(NewPiece.from - 1)
<1> DEFINE p == pieces[Len(pieces)]
<1>1. /\ body.from \in Nat /\ start \in Nat /\ body.to \in Nat
      /\ PieceEnd \in start + 1 .. body.to
      /\ start = body.from \/ IsSpace(start - 1) \/ IsSpace(start)
  BY OpenBody, PieceEndIs DEF ChunkIInv, BodyOpen
<1>2. /\ NewPiece.from \in start .. PieceEnd - 1 /\ ~IsSpace(NewPiece.from)
      /\ \A i \in start .. NewPiece.from - 1 : IsSpace(i)
      /\ NewPiece.seq = LocalSeq
  BY NewPieceIs
<1>3. Len(pieces) \in Nat /\ Len(pieces) > 0 /\ p.from >= body.from
  BY <1>2, LocalSeqIs, PiecesTyped DEF ChunkIInv
<1>4. Len(pieces) \in 1 .. Len(pieces)
  BY <1>3
<1>5. p.from \in Nat /\ p.to \in Nat /\ p.from < p.to
  BY <1>4, OldPieces
<1>6. \/ p.to <= body.from
      \/ body.from <= p.from /\ body.from < start /\ (~LongRun => IsSpace(p.to))
  BY <1>4 DEF ChunkIInv, WindowFollows, Follows
<1> HIDE DEF p
<1>7. body.from < start /\ IsSpace(p.to)
  BY <1>1, <1>3, <1>5, <1>6
<1>8. IsSpace(NewPiece.from - 1)
  <2>1. CASE NewPiece.from = start
    BY <1>1, <1>2, <1>7, <2>1
  <2>2. CASE NewPiece.from # start
    <3>1. NewPiece.from - 1 \in start .. NewPiece.from - 1
      BY <1>1, <1>2, <2>2
    <3>2. QED
      BY <1>2, <3>1
  <2>3. QED
    BY <2>1, <2>2
<1>9. QED
  BY <1>7, <1>8 DEF p

(* What a window does to the pieces.                                       *)
LEMMA CutPieces ==
  ASSUME ChunkIInv, CutWindow
  PROVE  /\ body # NoBody /\ Len(pieces) \in Nat
         /\ UNCHANGED <<doc, max_chars, overlap, todo, seen, rows, skipped>>
         /\ \/ Solid(start, PieceEnd) = {} /\ pieces' = pieces
            \/ /\ Solid(start, PieceEnd) # {} /\ NewPiece \in Pieces
               /\ pieces' = Append(pieces, NewPiece)
               /\ Len(pieces') = Len(pieces) + 1
               /\ \A k \in 1 .. Len(pieces) : pieces'[k] = pieces[k]
               /\ pieces'[Len(pieces) + 1] = NewPiece
<1>1. /\ body # NoBody
      /\ UNCHANGED <<doc, max_chars, overlap, todo, seen, rows, skipped>>
  BY DEF CutWindow, document
<1>2. pieces \in Seq(Pieces) /\ Len(pieces) \in Nat
  BY PiecesTyped DEF ChunkIInv
<1>3. CASE Solid(start, PieceEnd) = {}
  <2>1. pieces' = pieces
    BY <1>3 DEF CutWindow, EmitPiece
  <2>2. QED
    BY <1>1, <1>2, <1>3, <2>1
<1>4. CASE Solid(start, PieceEnd) # {}
  <2>1. pieces' = Append(pieces, NewPiece)
    BY <1>4 DEF CutWindow, EmitPiece, NewPiece
  <2>2. NewPiece \in Pieces
    BY <1>1, <1>4, NewPieceIs
  <2>3. /\ Len(pieces') = Len(pieces) + 1
        /\ \A k \in 1 .. Len(pieces) : pieces'[k] = pieces[k]
        /\ pieces'[Len(pieces) + 1] = NewPiece
    BY <1>2, <2>1, <2>2
  <2>4. QED
    BY <1>1, <1>2, <1>4, <2>1, <2>2, <2>3
<1>5. QED
  BY <1>3, <1>4

(* The section is done, or its next window starts at Resume.               *)
LEMMA CutMoves ==
  ASSUME ChunkIInv, CutWindow
  PROVE  \/ /\ IsLast \/ Resume >= body.to
            /\ body' = NoBody /\ start' = 0
         \/ /\ ~IsLast /\ Resume \in start + 1 .. body.to - 1
            /\ body' = body /\ start' = Resume
<1>1. body # NoBody /\ start \in Nat /\ body.to \in Nat
  BY CutPieces, OpenBody DEF ChunkIInv
<1>2. CASE IsLast \/ Resume >= body.to
  BY <1>2 DEF CutWindow
<1>3. CASE ~(IsLast \/ Resume >= body.to)
  <2>1. body' = body /\ start' = Resume
    BY <1>3 DEF CutWindow
  <2>2. Resume \in start + 1 .. body.to
    BY <1>1, <1>3, ResumeIs DEF ChunkIInv
  <2>3. QED
    BY <1>1, <1>3, <2>1, <2>2
<1>4. QED
  BY <1>2, <1>3

LEMMA CutTyped ==
  ASSUME ChunkIInv, CutWindow
  PROVE  ChunkTypeOK'
<1>1. pieces \in Seq(Pieces) /\ start \in Nat /\ body.to \in Nat
  BY PiecesTyped, CutPieces, OpenBody DEF ChunkIInv
<1>2. pieces' \in Seq(Pieces)
  <2>1. \/ pieces' = pieces
        \/ NewPiece \in Pieces /\ pieces' = Append(pieces, NewPiece)
    BY CutPieces, Zenon
  <2>2. QED
    BY <1>1, <2>1
<1>3. /\ body' \in [article : Owners, from : Nat, to : Nat]
      /\ start' \in Nat
  <2>1. NoBody \in [article : Owners, from : Nat, to : Nat]
    BY DEF NoBody, Section, Owners
  <2>2. body \in [article : Owners, from : Nat, to : Nat]
    BY DEF ChunkIInv, ChunkTypeOK
  <2>3. QED
    BY <1>1, <2>1, <2>2, CutMoves
<1>4. UNCHANGED <<doc, max_chars, overlap, todo, seen, rows, skipped>>
  BY CutPieces
<1>5. QED
  BY <1>2, <1>3, <1>4 DEF ChunkIInv, ChunkTypeOK, Pieces

LEMMA CutOrdered ==
  ASSUME ChunkIInv, CutWindow
  PROVE  SectionsApart' /\ BodyOpen'
<1>1. /\ body # NoBody /\ start \in Nat /\ body.from \in Nat /\ body.to \in Nat
      /\ 1 <= body.from /\ body.from <= start /\ body.to <= End
      /\ ~IsSpace(body.to - 1) /\ ~IsSpace(body.from)
      /\ PieceEnd \in start + 1 .. body.to
  BY CutPieces, OpenBody, PieceEndIs DEF ChunkIInv, BodyOpen
<1>2. Len(pieces) \in Nat /\ UNCHANGED <<doc, max_chars, overlap, todo>>
  BY CutPieces
<1>3. \A s \in todo : /\ 1 <= s.from /\ s.to <= End /\ Solid(s.from, s.to) # {}
                      /\ body.to <= s.from /\ s.from \in Nat
                      /\ \A k \in 1 .. Len(pieces) : pieces[k].to <= s.from
  BY <1>1 DEF ChunkIInv, SectionsApart, ChunkTypeOK
<1>4. ASSUME NEW s \in todo, NEW k \in 1 .. Len(pieces')
      PROVE  pieces'[k].to <= s.from
  <2>1. CASE pieces' = pieces
    BY <1>3, <1>4, <2>1
  <2>2. CASE /\ Solid(start, PieceEnd) # {} /\ Len(pieces') = Len(pieces) + 1
             /\ \A j \in 1 .. Len(pieces) : pieces'[j] = pieces[j]
             /\ pieces'[Len(pieces) + 1] = NewPiece
    <3>1. NewPiece.to \in start + 1 .. PieceEnd
      BY <1>1, <2>2, NewPieceIs
    <3>2. NewPiece.to <= s.from
      BY <1>1, <1>3, <3>1
    <3>3. k \in 1 .. Len(pieces) \/ k = Len(pieces) + 1
      BY <1>2, <1>4, <2>2
    <3>4. QED
      BY <1>3, <2>2, <3>2, <3>3
  <2>3. QED
    BY <2>1, <2>2, CutPieces
<1>5. body' # NoBody => body' = body /\ ~IsLast /\ start' = Resume
                            /\ Resume \in start + 1 .. body.to - 1
  BY CutMoves
<1>6. SectionsApart'
  <2>1. \A s \in todo' : body' # NoBody => body'.to <= s.from
    BY <1>2, <1>3, <1>5
  <2>2. \A s, t \in todo : s = t \/ s.to <= t.from \/ t.to <= s.from
    BY DEF ChunkIInv, SectionsApart
  <2>3. QED
    BY <1>2, <1>3, <1>4, <2>1, <2>2, DocKept DEF SectionsApart, NoBody, Section
<1>7. BodyOpen'
  <2>1. CASE body' = NoBody
    BY <2>1 DEF BodyOpen, NoBody, Section
  <2>2. CASE body' # NoBody
    <3>1. body' = body /\ start' = Resume /\ Resume \in start + 1 .. body.to - 1
      BY <1>5, <2>2
    <3>2. ~LongRun => IsSpace(Resume - 1) \/ IsSpace(Resume)
      <4>1. Resume # body.to
        BY <1>1, <3>1
      <4>2. QED
        BY <1>1, <1>5, <2>2, <4>1, ResumeIs DEF ChunkIInv
    <3>3. /\ body.from <= Resume /\ Resume < body.to
      BY <1>1, <3>1
    <3>4. QED
      BY <1>1, <1>2, <3>1, <3>2, <3>3, DocKept DEF BodyOpen
  <2>3. QED
    BY <2>1, <2>2
<1>8. QED
  BY <1>6, <1>7

LEMMA CutSorted ==
  ASSUME ChunkIInv, CutWindow
  PROVE  PiecesSorted' /\ CutsClean'
<1> PICK n \in Nat : n = Len(pieces)
  BY CutPieces
<1>1. /\ body # NoBody /\ UNCHANGED <<doc, max_chars, overlap>>
  BY CutPieces
<1>2. CASE pieces' = pieces
  <2>1. PiecesSorted'
    BY <1>1, <1>2, DocKept DEF ChunkIInv, PiecesSorted
  <2>2. CutsClean'
    BY <1>1, <1>2, DocKept DEF ChunkIInv, CutsClean, BreaksWord
  <2>3. QED
    BY <2>1, <2>2
<1>3. CASE /\ Solid(start, PieceEnd) # {} /\ Len(pieces') = n + 1
           /\ \A k \in 1 .. n : pieces'[k] = pieces[k]
           /\ pieces'[n + 1] = NewPiece
  <2>0. /\ End = Len(doc) + 1 /\ Len(doc) \in Nat /\ max_chars \in Nat
        /\ 1 <= body.from /\ body.from <= start /\ body.from \in Nat
    BY <1>1, OpenBody DEF ChunkIInv
  <2>1. /\ start \in Nat /\ body.to \in Nat /\ body.to <= End /\ max_chars \in Nat
        /\ 1 <= start /\ End \in Nat
        /\ PieceEnd \in start + 1 .. body.to /\ PieceEnd <= start + max_chars
    BY <1>1, <2>0, OpenBody, PieceEndIs DEF ChunkIInv
  <2>2. /\ NewPiece.from \in start .. PieceEnd - 1 /\ NewPiece.to \in start + 1 .. PieceEnd
        /\ NewPiece.from < NewPiece.to /\ ~IsSpace(NewPiece.from) /\ ~IsSpace(NewPiece.to - 1)
    BY <1>1, <1>3, NewPieceIs
  <2>3. ASSUME NEW k \in 1 .. n
        PROVE  /\ pieces[k].from <= NewPiece.from /\ pieces[k].to <= NewPiece.to
               /\ pieces[k].to - NewPiece.from <= overlap
    BY <1>1, <1>3, OldPieces
  <2>4. ASSUME ~LongRun, n > 0 PROVE ~BreaksWord(n)'
    <3>1. n \in 1 .. n
      BY <1>1, <2>4
    <3>2. pieces'[n] = pieces[n] /\ pieces'[n + 1] = NewPiece
      BY <1>3, <3>1
    <3>3. NewPiece.seq > 0 => IsSpace(pieces[n].to) /\ IsSpace(NewPiece.from - 1)
      BY <1>1, <1>3, <2>4, WordsWhole
    <3>4. QED
      BY <1>1, <3>2, <3>3, DocKept DEF BreaksWord
  <2>5. 1 <= NewPiece.from /\ NewPiece.to <= End /\ NewPiece.to - NewPiece.from <= max_chars
        /\ NewPiece.from \in Nat /\ NewPiece.to \in Nat
    <3>1. PieceEnd \in Nat /\ PieceEnd <= End
      BY <2>1
    <3>2. /\ NewPiece.from \in Nat /\ NewPiece.to \in Nat
          /\ start <= NewPiece.from /\ NewPiece.to <= PieceEnd
      BY <2>1, <2>2, <3>1
    <3>3. QED
      BY <2>1, <3>1, <3>2
  <2> DEFINE Shape(p) == /\ 1 <= p.from /\ p.from < p.to /\ p.to <= End
                         /\ p.to - p.from <= max_chars
                         /\ ~IsSpace(p.from) /\ ~IsSpace(p.to - 1)
             Before(p, r) == p.from <= r.from /\ p.to <= r.to
  <2>6. Shape(NewPiece) /\ Before(NewPiece, NewPiece) /\ \A k \in 1 .. n : Before(pieces[k], NewPiece)
    BY <2>2, <2>3, <2>5
  <2>7. /\ \A k \in 1 .. n : Shape(pieces[k])
        /\ \A k \in 1 .. n : \A j \in 1 .. k : Before(pieces[j], pieces[k])
    BY DEF ChunkIInv, PiecesSorted
  <2>8. \A k \in 1 .. n + 1 : Shape(pieces'[k])
    <3> SUFFICES ASSUME NEW k \in 1 .. n + 1 PROVE Shape(pieces'[k])
      OBVIOUS
    <3> HIDE DEF Shape
    <3>1. CASE k \in 1 .. n
      BY <1>3, <2>7, <3>1
    <3>2. CASE k = n + 1
      BY <1>3, <2>6, <3>2
    <3>3. QED
      BY <3>1, <3>2
  <2>9. \A k \in 1 .. n + 1 : \A j \in 1 .. k : Before(pieces'[j], pieces'[k])
    <3> SUFFICES ASSUME NEW k \in 1 .. n + 1, NEW j \in 1 .. k
                 PROVE  Before(pieces'[j], pieces'[k])
      OBVIOUS
    <3> HIDE DEF Before
    <3>1. CASE k \in 1 .. n
      <4>1. j \in 1 .. n
        BY <3>1
      <4>2. QED
        BY <1>3, <2>7, <3>1, <4>1
    <3>2. CASE k = n + 1 /\ j \in 1 .. n
      BY <1>3, <2>6, <3>2
    <3>3. CASE k = n + 1 /\ j = n + 1
      BY <1>3, <2>6, <3>3
    <3>4. QED
      BY <3>1, <3>2, <3>3
  <2>10. PiecesSorted'
    BY <1>1, <1>3, <2>8, <2>9, DocKept DEF PiecesSorted
  <2>11. \A k \in 1 .. n : pieces'[k].to - pieces'[k + 1].from <= overlap
    <3> SUFFICES ASSUME NEW k \in 1 .. n
                 PROVE  pieces'[k].to - pieces'[k + 1].from <= overlap
      OBVIOUS
    <3>1. CASE k = n
      BY <1>1, <1>3, <2>3, <3>1
    <3>2. CASE k # n
      <4>1. k \in 1 .. n - 1 /\ k + 1 \in 1 .. n /\ k \in 1 .. n
        BY <1>1, <3>2
      <4>2. pieces[k].to - pieces[k + 1].from <= overlap
        BY <4>1 DEF ChunkIInv, CutsClean
      <4>3. QED
        BY <1>3, <4>1, <4>2
    <3>3. QED
      BY <3>1, <3>2
  <2>12. ASSUME ~LongRun, NEW k \in 1 .. n PROVE ~BreaksWord(k)'
    <3>1. CASE k = n
      BY <1>1, <2>4, <2>12, <3>1
    <3>2. CASE k # n
      <4>1. k \in 1 .. n - 1 /\ k + 1 \in 1 .. n /\ k \in 1 .. n
        BY <1>1, <3>2
      <4>2. pieces'[k] = pieces[k] /\ pieces'[k + 1] = pieces[k + 1]
        BY <1>3, <4>1
      <4>3. ~BreaksWord(k)
        BY <2>12, <4>1 DEF ChunkIInv, CutsClean
      <4>4. QED
        BY <1>1, <4>2, <4>3, DocKept DEF BreaksWord
    <3>3. QED
      BY <3>1, <3>2
  <2>13. CutsClean'
    <3>1. n + 1 - 1 = n /\ Len(pieces') = n + 1
      BY <1>1, <1>3
    <3>2. \A k \in 1 .. n + 1 : pieces'[k].to - pieces'[k].from <= max_chars
      BY <2>8
    <3>3. \A k \in 1 .. n : /\ pieces'[k].from <= pieces'[k + 1].from
                            /\ pieces'[k].to <= pieces'[k + 1].to
      <4>1. \A k \in 1 .. n : k + 1 \in 1 .. n + 1 /\ k \in 1 .. k + 1
        BY <1>1
      <4>2. QED
        BY <2>9, <4>1
    <3>4. (~LongRun)' => \A k \in 1 .. n : (~BreaksWord(k))'
      BY <1>1, <2>12, DocKept
    <3>5. QED
      BY <1>1, <2>11, <3>1, <3>2, <3>3, <3>4 DEF CutsClean
  <2>14. QED
    BY <2>10, <2>13
<1>4. QED
  BY <1>2, <1>3, CutPieces

(* Follows, of a window that would start at `at`.                          *)
FollowsAt(p, at) ==
  /\ p.to - at <= overlap
  /\ \A i \in at .. p.from - 1 : IsSpace(i)
  /\ p.to <= at \/ \E e \in p.to .. at + max_chars - 1 : e < body.to /\ IsSpace(e)
  /\ \/ p.to <= body.from
     \/ body.from <= p.from /\ body.from < at /\ (~LongRun => IsSpace(p.to))

LEMMA CutFollows ==
  ASSUME ChunkIInv, CutWindow
  PROVE  WindowFollows'
<1>1. /\ body # NoBody /\ start \in Nat /\ body.from \in Nat /\ body.to \in Nat
      /\ max_chars \in Nat \ {0} /\ overlap \in Nat /\ body.from <= start
      /\ Len(pieces) \in Nat /\ UNCHANGED <<doc, max_chars, overlap>>
  BY CutPieces, OpenBody DEF ChunkIInv
<1> DEFINE R == Resume
           E == PieceEnd
<1>2. SUFFICES ASSUME ~IsLast, R \in start + 1 .. body.to - 1, body' = body, start' = R
               PROVE  \A k \in 1 .. Len(pieces') : FollowsAt(pieces'[k], R)
  <2>1. CASE body' = NoBody
    BY <2>1 DEF WindowFollows, NoBody, Section
  <2>2. ASSUME body' = body, start' = R, \A k \in 1 .. Len(pieces') : FollowsAt(pieces'[k], R)
        PROVE  WindowFollows'
    BY <1>1, <2>2, DocKept DEF WindowFollows, Follows, FollowsAt
  <2>3. QED
    BY <2>1, <2>2, CutMoves
<1>3. R \in Nat /\ start < R /\ R < body.to /\ body.from < R
  BY <1>1, <1>2
<1>4. ASSUME NEW j \in 1 .. Len(pieces) PROVE FollowsAt(pieces[j], R)
  <2> DEFINE p == pieces[j]
  <2>1. p.from \in Nat /\ p.to \in Nat
    BY <1>1, OldPieces
  <2>2. /\ p.to - start <= overlap
        /\ \A i \in start .. p.from - 1 : IsSpace(i)
        /\ p.to <= start \/ \E e \in p.to .. start + max_chars - 1 : e < body.to /\ IsSpace(e)
        /\ \/ p.to <= body.from
           \/ body.from <= p.from /\ body.from < start /\ (~LongRun => IsSpace(p.to))
    BY <1>1 DEF ChunkIInv, WindowFollows, Follows
  <2> HIDE DEF p, R
  <2>3. p.to - R <= overlap /\ \A i \in R .. p.from - 1 : IsSpace(i)
    BY <1>1, <1>3, <2>1, <2>2
  <2>4. p.to <= R \/ \E e \in p.to .. R + max_chars - 1 : e < body.to /\ IsSpace(e)
    <3>1. CASE p.to <= start
      BY <1>1, <1>3, <2>1, <3>1
    <3>2. ASSUME NEW e \in p.to .. start + max_chars - 1, e < body.to /\ IsSpace(e)
          PROVE  e \in p.to .. R + max_chars - 1
      BY <1>1, <1>3, <2>1
    <3>3. QED
      BY <2>2, <3>1, <3>2
  <2>5. \/ p.to <= body.from
        \/ body.from <= p.from /\ body.from < R /\ (~LongRun => IsSpace(p.to))
    BY <1>3, <2>2
  <2>6. QED
    BY <2>3, <2>4, <2>5 DEF p, FollowsAt
<1>5. ASSUME Solid(start, E) # {} PROVE FollowsAt(NewPiece, R)
  <2> DEFINE q == NewPiece
  <2>1. /\ q.from \in start .. E - 1 /\ q.to \in start + 1 .. E /\ q.from < q.to
        /\ \A i \in start .. q.from - 1 : IsSpace(i)
        /\ \A i \in q.to .. E - 1 : IsSpace(i)
    BY <1>1, <1>5, NewPieceIs
  <2>2. /\ E \in start + 1 .. body.to /\ E < body.to
        /\ ~LongRun => IsSpace(E)
        /\ ~HardSplit => IsSpace(E) /\ E < start + max_chars
    BY <1>1, <1>2, PieceEndIs DEF ChunkIInv
  <2>3. E - overlap <= R /\ (HardSplit => R = E)
    BY <1>1, <1>2, ResumeIs DEF ChunkIInv
  <2> HIDE DEF q, R, E
  <2>4. q.from \in Nat /\ q.to \in Nat /\ E \in Nat /\ q.to <= E
    BY <1>1, <2>1, <2>2
  <2>5. q.to - R <= overlap /\ \A i \in R .. q.from - 1 : IsSpace(i)
    BY <1>1, <1>3, <2>1, <2>3, <2>4
  <2>6. q.to <= R \/ \E e \in q.to .. R + max_chars - 1 : e < body.to /\ IsSpace(e)
    <3>1. CASE HardSplit
      BY <2>3, <2>4, <3>1
    <3>2. CASE ~HardSplit
      <4>1. E \in q.to .. R + max_chars - 1
        BY <1>1, <1>3, <2>2, <2>4, <3>2
      <4>2. QED
        BY <2>2, <3>2, <4>1
    <3>3. QED
      BY <3>1, <3>2
  <2>7. ASSUME ~LongRun PROVE IsSpace(q.to)
    <3>1. CASE q.to = E
      BY <2>2, <2>7, <3>1
    <3>2. CASE q.to # E
      <4>1. q.to \in q.to .. E - 1
        BY <2>4, <3>2
      <4>2. QED
        BY <2>1, <4>1
    <3>3. QED
      BY <3>1, <3>2
  <2>8. body.from <= q.from /\ body.from < R
    BY <1>1, <1>3, <2>1, <2>2, <2>4
  <2>9. QED
    BY <2>5, <2>6, <2>7, <2>8 DEF q, FollowsAt
<1>6. QED
  BY <1>1, <1>2, <1>4, <1>5, CutPieces

LEMMA CutLetters ==
  ASSUME ChunkIInv, CutWindow
  PROVE  LettersKept'
<1> PICK n \in Nat : n = Len(pieces)
  BY CutPieces
<1> DEFINE E == PieceEnd
           R == Resume
<1>1. /\ body # NoBody /\ start \in Nat /\ body.from \in Nat /\ body.to \in Nat
      /\ body.from <= start /\ E \in start + 1 .. body.to
      /\ UNCHANGED <<doc, max_chars, overlap, todo>>
  BY CutPieces, OpenBody, PieceEndIs DEF ChunkIInv
<1>2. /\ \A s \in todo : Owned(s)
      /\ Owned(body)
      /\ \A k \in 1 .. n : Owned(pieces[k])
      /\ \A i \in 1 .. Len(doc) : doc[i] = Letter =>
           \/ \E s \in todo : Within(i, s)
           \/ start <= i /\ i < body.to
           \/ \E k \in 1 .. n : Within(i, pieces[k])
  BY <1>1 DEF ChunkIInv, LettersKept
<1>3. ASSUME Solid(start, E) # {}
      PROVE  /\ Owned(NewPiece)
             /\ \A i \in start .. E - 1 : ~IsSpace(i) => Within(i, NewPiece)
  <2>1. /\ NewPiece.article = body.article
        /\ NewPiece.from \in start .. E - 1 /\ NewPiece.to \in start + 1 .. E
        /\ \A i \in start .. NewPiece.from - 1 : IsSpace(i)
        /\ \A i \in NewPiece.to .. E - 1 : IsSpace(i)
    BY <1>1, <1>3, NewPieceIs
  <2> HIDE DEF E
  <2>2. E \in Nat /\ NewPiece.from \in Nat /\ NewPiece.to \in Nat
    BY <1>1, <2>1
  <2>3. \A i \in 1 .. Len(doc) : Within(i, NewPiece) => Within(i, body)
    <3>1. Len(doc) \in Nat
      BY DocIs DEF ChunkIInv, ChunkTypeOK
    <3>2. QED
      BY <1>1, <2>1, <2>2, <3>1 DEF Within
  <2>4. Owned(NewPiece)
    BY <1>2, <2>1, <2>3 DEF Owned
  <2>5. ASSUME NEW i \in start .. E - 1, ~IsSpace(i) PROVE Within(i, NewPiece)
    <3>1. i \notin start .. NewPiece.from - 1 /\ i \notin NewPiece.to .. E - 1
      BY <2>1, <2>5
    <3>2. QED
      BY <1>1, <2>2, <2>5, <3>1 DEF Within
  <2>6. QED
    BY <2>4, <2>5
<1>4. /\ \A k \in 1 .. Len(pieces') : Owned(pieces'[k])
      /\ \A k \in 1 .. n : k \in 1 .. Len(pieces') /\ pieces'[k] = pieces[k]
      /\ Solid(start, E) # {} => /\ Len(pieces') \in 1 .. Len(pieces')
                                     /\ pieces'[Len(pieces')] = NewPiece
  <2> HIDE DEF E
  <2>1. CASE Solid(start, E) = {} /\ pieces' = pieces
    BY <1>2, <2>1
  <2>2. CASE /\ Solid(start, E) # {} /\ Len(pieces') = n + 1
             /\ \A k \in 1 .. n : pieces'[k] = pieces[k]
             /\ pieces'[n + 1] = NewPiece
    <3>1. ASSUME NEW k \in 1 .. n + 1 PROVE Owned(pieces'[k])
      <4>1. CASE k \in 1 .. n
        BY <1>2, <2>2, <4>1
      <4>2. CASE k = n + 1
        BY <1>3, <2>2, <4>2
      <4>3. QED
        BY <4>1, <4>2
    <3>2. QED
      BY <2>2, <3>1
  <2>3. QED
    BY <2>1, <2>2, CutPieces DEF E
<1>5. ASSUME NEW i \in 1 .. Len(doc), doc[i] = Letter
      PROVE  \/ \E s \in todo : Within(i, s)
             \/ body' # NoBody /\ start' <= i /\ i < body'.to
             \/ \E k \in 1 .. Len(pieces') : Within(i, pieces'[k])
  <2>1. ~IsSpace(i) /\ Len(doc) \in Nat
    BY <1>5, DocIs DEF IsSpace, ChunkingAssumption, ChunkIInv, ChunkTypeOK
  <2>2. CASE \E s \in todo : Within(i, s)
    BY <2>2
  <2>3. CASE \E k \in 1 .. n : Within(i, pieces[k])
    BY <1>4, <2>3
  <2>4. CASE start <= i /\ i < E
    <3>1. i \in start .. E - 1
      BY <1>1, <2>1, <2>4
    <3>2. Solid(start, E) # {}
      BY <2>1, <3>1 DEF Solid
    <3>3. Within(i, NewPiece)
      BY <1>3, <2>1, <3>1, <3>2
    <3>4. QED
      BY <1>4, <3>2, <3>3
  <2>5. CASE E <= i /\ i < body.to
    <3>1. ~IsLast
      BY <1>1, <2>1, <2>5, PieceEndIs DEF ChunkIInv
    <3>2. R \in start + 1 .. body.to /\ \A j \in E .. R - 1 : IsSpace(j)
      BY <1>1, <3>1, ResumeIs DEF ChunkIInv
    <3> HIDE DEF E, R
    <3>3. R <= i
      BY <1>1, <2>1, <2>5, <3>2
    <3>4. ~(R >= body.to)
      BY <1>1, <2>1, <2>5, <3>2, <3>3
    <3>5. body' = body /\ start' = R
      BY <3>1, <3>4, CutMoves DEF R
    <3>6. QED
      BY <1>1, <2>5, <3>3, <3>5
  <2>6. QED
    BY <1>1, <1>2, <1>5, <2>1, <2>2, <2>3, <2>4, <2>5
<1>6. body' # NoBody => Owned(body')
  BY <1>2, CutMoves
<1>7. \A t, i : Within(i, t)' <=> Within(i, t)
  BY DEF Within
<1> HIDE DEF E, R
<1>8. QED
  BY <1>1, <1>2, <1>4, <1>5, <1>6, <1>7, DocKept DEF LettersKept, NoBody, Section

LEMMA CutPreserves ==
  ASSUME ChunkIInv, CutWindow
  PROVE  ChunkIInv'
<1>1. RowsFaithful'
  <2>1. ~Split /\ UNCHANGED <<rows, seen, skipped>>
    BY CutPieces DEF Split
  <2>2. Len(pieces') \in Nat
    BY CutTyped DEF ChunkTypeOK
  <2>3. QED
    BY <2>1, <2>2, RowsUntouched DEF ChunkIInv
<1>2. IdsConsecutive'
  BY CutPieces DEF ChunkIInv, IdsConsecutive
<1>3. QED
  BY <1>1, <1>2, CutTyped, CutOrdered, CutSorted, CutFollows, CutLetters DEF ChunkIInv

-----------------------------------------------------------------------------
(* The rows.                                                               *)

LEMMA StretchesKept ==
  ASSUME ChunkIInv, UNCHANGED <<doc, max_chars, overlap, todo, body, start, pieces>>
  PROVE  /\ SectionsApart' /\ BodyOpen' /\ PiecesSorted'
         /\ WindowFollows' /\ LettersKept' /\ CutsClean'
<1>1. SectionsApart'
  BY DocKept DEF ChunkIInv, SectionsApart, NoBody, Section
<1>2. BodyOpen'
  BY DocKept DEF ChunkIInv, BodyOpen, NoBody, Section
<1>3. PiecesSorted'
  BY DocKept DEF ChunkIInv, PiecesSorted
<1>4. WindowFollows'
  BY DocKept DEF ChunkIInv, WindowFollows, Follows, NoBody, Section
<1>5. LettersKept'
  BY DocKept DEF ChunkIInv, LettersKept, Within, NoBody, Section
<1>6. CutsClean'
  BY DocKept DEF ChunkIInv, CutsClean, BreaksWord
<1>7. QED
  BY <1>1, <1>2, <1>3, <1>4, <1>5, <1>6

LEMMA SkipPreserves ==
  ASSUME ChunkIInv, SkipChunk
  PROVE  ChunkIInv'
<1>1. /\ UNCHANGED <<doc, max_chars, overlap, todo, body, start, pieces, seen, rows>>
      /\ Split /\ Handled < Len(pieces) /\ ~Indexable(Chunk)
      /\ skipped' = skipped + 1
  BY DEF SkipChunk, document
<1>2. skipped \in Nat /\ Len(rows) \in Nat /\ Len(pieces) \in Nat
  BY PiecesTyped DEF ChunkIInv, ChunkTypeOK
<1>3. ChunkTypeOK'
  BY <1>1, <1>2 DEF ChunkIInv, ChunkTypeOK
<1>4. RowsFaithful'
  <2>1. Handled \in Nat /\ Handled' = Handled + 1
    BY <1>1, <1>2 DEF Handled
  <2>2. ASSUME NEW j \in 1 .. Handled + 1, Indexable(pieces[j])
        PROVE  \E k \in 1 .. Len(rows) : SameStretch(rows[k], pieces[j])
    <3>1. j # Handled + 1
      BY <1>1, <2>2 DEF Chunk
    <3>2. j \in 1 .. Handled
      BY <2>1, <3>1
    <3>3. QED
      BY <2>2, <3>2 DEF ChunkIInv, RowsFaithful
  <2>3. Split'
    BY <1>1 DEF Split, NoBody, Section
  <2>4. Handled' <= Len(pieces)
    BY <1>1, <1>2, <2>1
  <2>5. \A r, p : SameStretch(r, p)' <=> SameStretch(r, p)
    BY DEF SameStretch
  <2>6. QED
    BY <1>1, <2>1, <2>2, <2>3, <2>4, <2>5, DocKept DEF ChunkIInv, RowsFaithful
<1>5. IdsConsecutive'
  BY <1>1 DEF ChunkIInv, IdsConsecutive
<1>6. QED
  BY <1>1, <1>3, <1>4, <1>5, StretchesKept DEF ChunkIInv

LEMMA AddRowPreserves ==
  ASSUME ChunkIInv, AddRow
  PROVE  ChunkIInv'
<1> PICK n \in Nat : n = Len(rows)
  BY PiecesTyped DEF ChunkIInv
<1> PICK p : p = Chunk
  OBVIOUS
<1> PICK A : A = p.article
  OBVIOUS
<1> DEFINE row == [p EXCEPT !.seq = seen[A]]
           Of(a) == {k \in 1 .. n : rows[k].article = a}
           OfNext(a) == {k \in 1 .. n + 1 : rows'[k].article = a}
<1>1. /\ UNCHANGED <<doc, max_chars, overlap, todo, body, start, pieces, skipped>>
      /\ Split /\ Handled < Len(pieces)
      /\ rows' = Append(rows, row) /\ seen' = [seen EXCEPT ![A] = seen[A] + 1]
  BY DEF AddRow, document, UniqueSeq
<1>2. /\ skipped \in Nat /\ Len(pieces) \in Nat /\ seen \in [Owners -> Nat]
      /\ rows \in Seq(Pieces) /\ Handled \in Nat /\ Handled = n + skipped
      /\ Handled + 1 \in 1 .. Len(pieces)
  <2>1. skipped \in Nat /\ Len(pieces) \in Nat /\ seen \in [Owners -> Nat] /\ rows \in Seq(Pieces)
    BY PiecesTyped DEF ChunkIInv, ChunkTypeOK
  <2>2. QED
    BY <1>1, <2>1 DEF Handled
<1>3. p \in Pieces /\ A \in Owners /\ p = pieces[Handled + 1]
  <2>1. pieces \in Seq(Pieces)
    BY PiecesTyped DEF ChunkIInv
  <2>2. p \in Pieces /\ p = pieces[Handled + 1]
    BY <1>2, <2>1 DEF Chunk
  <2>3. QED
    BY <2>2 DEF Pieces
<1>4. /\ row \in Pieces /\ row.article = A /\ row.seq = seen[A]
      /\ row.from = p.from /\ row.to = p.to
  <2>1. seen[A] \in Nat
    BY <1>2, <1>3
  <2>2. QED
    BY <1>3, <2>1 DEF Pieces
<1> HIDE DEF row
<1>5. /\ rows' \in Seq(Pieces) /\ Len(rows') = n + 1
      /\ \A k \in 1 .. n : rows'[k] = rows[k]
      /\ rows'[n + 1] = row
  BY <1>1, <1>2, <1>4
<1>6. ChunkTypeOK'
  <2>1. seen' \in [Owners -> Nat]
    BY <1>1, <1>2, <1>3
  <2>2. QED
    BY <1>1, <1>5, <2>1 DEF ChunkIInv, ChunkTypeOK, Pieces
<1>7. ASSUME NEW a \in Owners
      PROVE  /\ IsFiniteSet(Of(a)) /\ Cardinality(Of(a)) = seen[a]
             /\ Cardinality(OfNext(a)) = seen'[a]
  <2>1. IsFiniteSet(1 .. n) /\ Of(a) \subseteq 1 .. n
    BY FS_Interval
  <2>2. IsFiniteSet(Of(a)) /\ n + 1 \notin Of(a)
    <3>1. IsFiniteSet(Of(a))
      <4> HIDE DEF Of
      <4>1. QED
        BY <2>1, FS_Subset
    <3>2. QED
      BY <3>1
  <2>3. Cardinality(Of(a)) = seen[a]
    BY SameCount DEF ChunkIInv, RowsFaithful
  <2>4. CASE a = A
    <3>1. OfNext(a) = Of(a) \union {n + 1}
      BY <1>4, <1>5, <2>4
    <3>2. seen'[a] = seen[a] + 1
      BY <1>1, <1>2, <1>3, <2>4
    <3> HIDE DEF Of, OfNext
    <3>3. Cardinality(OfNext(a)) = Cardinality(Of(a)) + 1
      BY <2>2, <3>1, FS_AddElement
    <3>4. QED
      BY <2>2, <2>3, <3>2, <3>3
  <2>5. CASE a # A
    <3>1. OfNext(a) = Of(a)
      BY <1>4, <1>5, <2>5
    <3>2. seen'[a] = seen[a]
      BY <1>1, <1>2, <1>3, <2>5
    <3> HIDE DEF Of, OfNext
    <3>3. QED
      BY <2>2, <2>3, <3>1, <3>2
  <2>6. QED
    BY <2>4, <2>5
<1>8. RowsFaithful'
  <2>1. Handled' = Handled + 1
    BY <1>1, <1>2, <1>5 DEF Handled
  <2>2. SameStretch(rows'[n + 1], pieces[Handled + 1])
    BY <1>3, <1>4, <1>5 DEF SameStretch
  <2>3. ASSUME NEW k \in 1 .. n + 1
        PROVE  \E j \in 1 .. Len(pieces) : SameStretch(rows'[k], pieces[j])
    <3>1. CASE k = n + 1
      BY <1>2, <2>2, <3>1
    <3>2. CASE k \in 1 .. n
      BY <1>5, <3>2 DEF ChunkIInv, RowsFaithful
    <3>3. QED
      BY <3>1, <3>2
  <2>4. ASSUME NEW j \in 1 .. Handled + 1, Indexable(pieces[j])
        PROVE  \E k \in 1 .. n + 1 : SameStretch(rows'[k], pieces[j])
    <3>1. CASE j = Handled + 1
      BY <2>2, <3>1
    <3>2. CASE j # Handled + 1
      <4>1. j \in 1 .. Handled
        BY <1>2, <3>2
      <4>2. PICK k \in 1 .. n : SameStretch(rows[k], pieces[j])
        BY <2>4, <4>1 DEF ChunkIInv, RowsFaithful
      <4>3. QED
        BY <1>5, <4>2
    <3>3. QED
      BY <3>1, <3>2
  <2>5. Split'
    BY <1>1 DEF Split, NoBody, Section
  <2>6. Handled' <= Len(pieces)
    BY <1>2, <2>1
  <2>7. \A a \in Owners :
          seen'[a] = Cardinality({k \in 1 .. n + 1 : rows'[k].article = a})
    BY <1>7, SameCount
  <2>8. \A r, q : SameStretch(r, q)' <=> SameStretch(r, q)
    BY DEF SameStretch
  <2>9. QED
    BY <1>1, <1>5, <2>1, <2>3, <2>4, <2>5, <2>6, <2>7, <2>8, DocKept DEF RowsFaithful
<1>9. IdsConsecutive'
  <2>1. ASSUME NEW k \in 1 .. n + 1
        PROVE  rows'[k].seq =
                 Cardinality({j \in 1 .. k - 1 : rows'[j].article = rows'[k].article})
    <3>1. CASE k = n + 1
      <4>1. {j \in 1 .. k - 1 : rows'[j].article = rows'[k].article} = Of(A)
        BY <1>4, <1>5, <3>1
      <4>2. rows'[k].seq = seen[A]
        BY <1>4, <1>5, <3>1
      <4> HIDE DEF Of
      <4>3. QED
        BY <1>3, <1>7, <4>1, <4>2, SameCount
    <3>2. CASE k \in 1 .. n
      <4>1. {j \in 1 .. k - 1 : rows'[j].article = rows'[k].article}
              = {j \in 1 .. k - 1 : rows[j].article = rows[k].article}
        BY <1>5, <3>2
      <4>2. rows[k].seq = Cardinality({j \in 1 .. k - 1 : rows[j].article = rows[k].article})
        BY <3>2 DEF ChunkIInv, IdsConsecutive
      <4>3. QED
        BY <1>5, <3>2, <4>1, <4>2
    <3>3. QED
      BY <3>1, <3>2
  <2>2. QED
    BY <1>5, <2>1 DEF IdsConsecutive
<1>10. QED
  BY <1>1, <1>6, <1>8, <1>9, StretchesKept DEF ChunkIInv

LEMMA ChunkingNext ==
  ASSUME ChunkIInv, [ChunkNext]_chunkVars
  PROVE  ChunkIInv'
<1>1. ASSUME UNCHANGED chunkVars PROVE ChunkIInv'
  <2>1. UNCHANGED <<doc, max_chars, overlap, todo, body, start, pieces, seen, rows, skipped>>
    BY <1>1 DEF chunkVars, document
  <2>2. ChunkTypeOK'
    BY <2>1 DEF ChunkIInv, ChunkTypeOK
  <2>3. RowsFaithful'
    <3>1. Handled' = Handled /\ (Split' <=> Split)
      BY <2>1 DEF Handled, Split, NoBody, Section
    <3>2. \A r, p : SameStretch(r, p)' <=> SameStretch(r, p)
      BY DEF SameStretch
    <3>3. QED
      BY <2>1, <3>1, <3>2, DocKept DEF ChunkIInv, RowsFaithful
  <2>4. IdsConsecutive'
    BY <2>1 DEF ChunkIInv, IdsConsecutive
  <2>5. QED
    BY <2>1, <2>2, <2>3, <2>4, StretchesKept DEF ChunkIInv
<1>2. CASE OpenSection
  BY <1>2, OpenPreserves
<1>3. CASE CutWindow
  BY <1>3, CutPreserves
<1>4. CASE SkipChunk
  BY <1>4, SkipPreserves
<1>5. CASE AddRow
  BY <1>5, AddRowPreserves
<1>6. CASE Finished
  BY <1>1, <1>6 DEF Finished
<1>7. QED
  BY <1>1, <1>2, <1>3, <1>4, <1>5, <1>6 DEF ChunkNext

(* Whatever the document and the budget, the invariant of the sections,    *)
(* the windows, the pieces and the rows holds.                             *)
THEOREM ChunkingInvariant == ChunkSpec => []ChunkIInv
<1>1. ChunkInit => ChunkIInv
  BY ChunkingInit
<1>2. ChunkIInv /\ [ChunkNext]_chunkVars => ChunkIInv'
  BY ChunkingNext
<1>3. QED
  BY <1>1, <1>2, PTL DEF ChunkSpec

(* Nothing is dropped between the text and the rows: every letter of every *)
(* document is in a row cited under the article the letter stands in, and  *)
(* in no row of another, whatever the budget and wherever windows are cut. *)
THEOREM LettersAreCited == ChunkSpec => []EveryLetterCited
<1>1. ASSUME ChunkIInv PROVE EveryLetterCited
  <2>1. /\ Len(doc) \in Nat
        /\ \A k \in 1 .. Len(pieces) : pieces[k].from \in Nat /\ pieces[k].to \in Nat
        /\ \A k \in 1 .. Len(pieces) : 1 <= pieces[k].from /\ pieces[k].to <= Len(doc) + 1
    BY <1>1, PiecesTyped, DocIs DEF ChunkIInv, ChunkTypeOK, PiecesSorted
  <2>2. ASSUME NEW k \in 1 .. Len(pieces), NEW i, i \in Inside(pieces[k]), doc[i] = Letter
        PROVE  pieces[k].article = Stands(i)
    <3>1. i \in 1 .. Len(doc) /\ Within(i, pieces[k])
      BY <2>1, <2>2 DEF Inside, Within
    <3>2. QED
      BY <1>1, <2>2, <3>1 DEF ChunkIInv, LettersKept, Owned
  <2>3. ASSUME NEW k \in 1 .. Len(rows), NEW i \in Inside(rows[k]), doc[i] = Letter
        PROVE  rows[k].article = Stands(i)
    <3>1. PICK j \in 1 .. Len(pieces) : SameStretch(rows[k], pieces[j])
      BY <1>1, <2>3 DEF ChunkIInv, RowsFaithful
    <3>2. i \in Inside(pieces[j])
      BY <3>1 DEF SameStretch, Inside
    <3>3. QED
      BY <2>2, <2>3, <3>1, <3>2 DEF SameStretch
  <2>4. ASSUME Done, NEW i \in 1 .. Len(doc), doc[i] = Letter
        PROVE  \E k \in 1 .. Len(rows) :
                 i \in Inside(rows[k]) /\ rows[k].article = Stands(i)
    <3>1. todo = {} /\ body = NoBody /\ Handled = Len(pieces)
      BY <2>4 DEF Done, Split
    <3>2. PICK j \in 1 .. Len(pieces) : Within(i, pieces[j])
      BY <1>1, <2>4, <3>1 DEF ChunkIInv, LettersKept
    <3>3. i \in Inside(pieces[j])
      BY <2>1, <3>2 DEF Within, Inside
    <3>4. Indexable(pieces[j])
      BY <2>4, <3>3 DEF Indexable, ChunkingAssumption
    <3>5. PICK k \in 1 .. Len(rows) : SameStretch(rows[k], pieces[j])
      BY <1>1, <3>1, <3>4 DEF ChunkIInv, RowsFaithful
    <3>6. i \in Inside(rows[k])
      BY <3>3, <3>5 DEF SameStretch, Inside
    <3>7. QED
      BY <2>3, <2>4, <3>6
  <2>5. QED
    BY <2>3, <2>4 DEF EveryLetterCited
<1>2. QED
  BY <1>1, ChunkingInvariant, PTL

(* A piece fits the budget, pieces come in the order of the text and       *)
(* repeat no more than the overlap, and no word shorter than the budget is *)
(* broken, for every text and every budget.                                *)
THEOREM CutsAreClean == ChunkSpec => []CutsClean
<1>1. ChunkIInv => CutsClean
  BY DEF ChunkIInv
<1>2. QED
  BY <1>1, ChunkingInvariant, PTL

(* No two rows of a document share an id, however often an article number  *)
(* returns and whatever is skipped in between.                             *)
THEOREM IdsAreConsecutive == ChunkSpec => []IdsConsecutive
<1>1. ChunkIInv => IdsConsecutive
  BY DEF ChunkIInv
<1>2. QED
  BY <1>1, ChunkingInvariant, PTL

=============================================================================
