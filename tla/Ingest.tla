------------------------------- MODULE Ingest -------------------------------
(***************************************************************************)
(* One document on its way into the chunks table: Pub/Sub deliveries and   *)
(* POST /ingest (app/api/ingest.py, app/ingest_worker.py), the command-    *)
(* line load without vectors, and the backfill of one vector column        *)
(* (ingestion/pipeline.py, ingestion/backfill.py), all at the same time.   *)
(*                                                                         *)
(* Chunk ids begin with the document's id, so documents do not interfere   *)
(* and one is enough.  Its versions are distinct texts; a text or a vector *)
(* is named by the version it comes from.  Embedding is an await.  The     *)
(* broker delivers a message again until it is acknowledged, also while an *)
(* earlier delivery is being handled, and sets it aside after              *)
(* MaxDeliveries attempts (terraform/pubsub.tf).  Postgres holds the locks *)
(* of upserted rows until the transaction ends.                            *)
(***************************************************************************)
EXTENDS Integers, FiniteSets

CONSTANTS
  LastSlot,                     \* chunk ids are 1..LastSlot, in key order
  Versions,                     \* one message each
  Chunks,                       \* the chunk ids of each version
  Malformed,                    \* versions whose message does not decode
  Workers,                      \* concurrent handlers
  MaxDeliveries,                \* of one message
  InsertBatch,                  \* rows per INSERT
  BatchSize,                    \* rows per backfill batch
  Null                          \* no row, no vector

Slots == 1..LastSlot

ASSUME IngestAssumption ==
  /\ LastSlot \in Nat
  /\ Chunks \in [Versions -> SUBSET Slots]
  /\ Malformed \subseteq Versions
  /\ MaxDeliveries \in Nat \ {0}
  /\ InsertBatch \in Nat \ {0} /\ BatchSize \in Nat \ {0}
  /\ Null \notin Versions

VARIABLES
  broker,                       \* each message: "queued", "acked", "dead"
  deliveries,                   \* how often it was pushed
  job,                          \* each handler: [at, version, via]
  pending,                      \* rows upserted, and locked, but uncommitted
  text,                         \* each row's text: a version or Null
  vec,                          \* each row's vector: of a version, or Null
  delivered,                    \* versions a push has committed (history)
  bf,                           \* the backfill: [at, all, last]
  batch,                        \* its page: row -> the text it read
  touched                       \* rows ingested since it started (history)

queue == <<broker, deliveries>>
table == <<text, vec, delivered, touched>>
backfill == <<bf, batch>>
vars == <<queue, job, pending, table, backfill>>

Idle == [at |-> "idle", version |-> Null, via |-> "push"]
NotRunning == [at |-> "idle", all |-> FALSE, last |-> 0]
NoPage == [s \in {} |-> Null]

Init ==
  /\ broker = [v \in Versions |-> "queued"]
  /\ deliveries = [v \in Versions |-> 0]
  /\ job = [w \in Workers |-> Idle]
  /\ pending = [w \in Workers |-> {}]
  /\ text = [s \in Slots |-> Null]
  /\ vec = [s \in Slots |-> Null]
  /\ delivered = {} /\ touched = {}
  /\ bf = NotRunning
  /\ batch = NoPage

Locked(w, rows) == \E x \in Workers \ {w} : pending[x] \cap rows # {}

-----------------------------------------------------------------------------
(* The broker.                                                             *)

DeadLetter(v) ==
  /\ broker[v] = "queued" /\ deliveries[v] = MaxDeliveries
  /\ broker' = [broker EXCEPT ![v] = "dead"]
  /\ UNCHANGED <<deliveries, job, pending, table, backfill>>

Ack(v) == broker' = [broker EXCEPT ![v] = IF @ = "queued" THEN "acked" ELSE @]

-----------------------------------------------------------------------------
(* A handler.                                                              *)

Start(w, v, via) ==
  /\ job[w].at = "idle"
  /\ job' = [job EXCEPT ![w] = [at |-> "received", version |-> v, via |-> via]]

(* POST /ingest/pubsub.                                                    *)
Deliver(w, v) ==
  /\ broker[v] = "queued" /\ deliveries[v] < MaxDeliveries
  /\ Start(w, v, "push")
  /\ deliveries' = [deliveries EXCEPT ![v] = @ + 1]
  /\ UNCHANGED <<broker, pending, table, backfill>>

(* POST /ingest, or the command line's `ingest`: no envelope to decode.    *)
Submit(w, v) ==
  /\ Start(w, v, "post") \/ Start(w, v, "load")
  /\ UNCHANGED <<queue, pending, table, backfill>>

MustReject(w) == job[w].via = "push" /\ job[w].version \in Malformed

(* A message that can never succeed is acknowledged.                       *)
Reject(w) ==
  /\ job[w].at = "received" /\ MustReject(w)
  /\ Ack(job[w].version)
  /\ job' = [job EXCEPT ![w] = Idle]
  /\ UNCHANGED <<deliveries, pending, table, backfill>>

(* Chunked and, but for a load, embedded; no rows, nothing to write.       *)
Prepare(w) ==
  /\ job[w].at = "received" /\ ~MustReject(w)
  /\ job' = [job EXCEPT ![w].at =
               IF Chunks[job[w].version] = {} THEN "done" ELSE "writing"]
  /\ UNCHANGED <<queue, pending, table, backfill>>

(* The rows become visible: their text and, but for a load, their vector.  *)
Write(w, rows) ==
  LET v == job[w].version IN
  /\ text' = [s \in Slots |-> IF s \in rows THEN v ELSE text[s]]
  /\ vec' = [s \in Slots |->
               IF s \in rows /\ job[w].via # "load" THEN v ELSE vec[s]]
  /\ touched' = IF bf.at = "idle" THEN {} ELSE touched \union rows

(* Fault: every INSERT is committed on its own.                            *)
UpsertBatchCommitted(w) ==
  /\ job[w].at = "writing"
  /\ \E rows \in SUBSET (Chunks[job[w].version] \ pending[w]) :
       /\ rows # {} /\ Cardinality(rows) <= InsertBatch
       /\ ~Locked(w, rows)
       /\ pending' = [pending EXCEPT ![w] = @ \union rows]
       /\ Write(w, rows)
  /\ UNCHANGED <<queue, job, delivered, backfill>>

(* One INSERT ... ON CONFLICT DO UPDATE; it waits for rows others hold.    *)
UpsertBatch(w) ==
  /\ job[w].at = "writing"
  /\ \E rows \in SUBSET (Chunks[job[w].version] \ pending[w]) :
       /\ rows # {} /\ Cardinality(rows) <= InsertBatch
       /\ ~Locked(w, rows)
       /\ pending' = [pending EXCEPT ![w] = @ \union rows]
  /\ UNCHANGED <<queue, job, table, backfill>>

Commit(w) ==
  /\ job[w].at = "writing" /\ pending[w] = Chunks[job[w].version]
  /\ Write(w, pending[w])
  /\ delivered' = IF job[w].via = "push"
                    THEN delivered \union {job[w].version} ELSE delivered
  /\ pending' = [pending EXCEPT ![w] = {}]
  /\ job' = [job EXCEPT ![w].at = "done"]
  /\ UNCHANGED <<queue, backfill>>

(* 200; a push is acknowledged by it.                                      *)
Respond(w) ==
  /\ job[w].at = "done"
  /\ IF job[w].via = "push" THEN Ack(job[w].version) ELSE UNCHANGED broker
  /\ job' = [job EXCEPT ![w] = Idle]
  /\ UNCHANGED <<deliveries, pending, table, backfill>>

(* Fault: a failed ingest answers 200 as well.                             *)
FailAcked(w) ==
  /\ job[w].at \in {"received", "writing", "done"}
  /\ IF job[w].via = "push" THEN Ack(job[w].version) ELSE UNCHANGED broker
  /\ job' = [job EXCEPT ![w] = Idle]
  /\ pending' = [pending EXCEPT ![w] = {}]
  /\ UNCHANGED <<deliveries, table, backfill>>

(* The embedder or the database fails, a deadlock is broken, the instance  *)
(* dies or the answer is lost: the transaction is rolled back, the broker  *)
(* gets no acknowledgement.                                                *)
Fail(w) ==
  /\ job[w].at \in {"received", "writing", "done"}
  /\ job' = [job EXCEPT ![w] = Idle]
  /\ pending' = [pending EXCEPT ![w] = {}]
  /\ UNCHANGED <<queue, table, backfill>>

-----------------------------------------------------------------------------
(* The backfill of one vector column.                                      *)

BackfillStart == \E all \in BOOLEAN :
  /\ bf.at \in {"idle", "done"}
  /\ bf' = [at |-> "reading", all |-> all, last |-> 0]
  /\ batch' = NoPage
  /\ touched' = {}
  /\ UNCHANGED <<queue, job, pending, text, vec, delivered>>

(* The rows _next_batch selects: of those after last_id, the first ones.   *)
Eligible == {s \in Slots : /\ s > bf.last /\ text[s] # Null
                           /\ bf.all \/ vec[s] = Null}
Page == {s \in Eligible : Cardinality({t \in Eligible : t < s}) < BatchSize}

(* Fault: the page is not ordered by the key.                              *)
BackfillReadUnordered ==
  /\ bf.at = "reading" /\ Eligible # {}
  /\ \E page \in SUBSET Eligible :
       /\ page # {} /\ Cardinality(page) <= BatchSize
       /\ batch' = [s \in page |-> text[s]]
  /\ bf' = [bf EXCEPT !.at = "embedding"]
  /\ UNCHANGED <<queue, job, pending, table>>

BackfillRead ==
  /\ bf.at = "reading" /\ Eligible # {}
  /\ batch' = [s \in Page |-> text[s]]
  /\ bf' = [bf EXCEPT !.at = "embedding"]
  /\ UNCHANGED <<queue, job, pending, table>>

(* The vectors of the texts read are written, whatever the rows hold now.  *)
BackfillCommit == \E m \in DOMAIN batch :
  /\ bf.at = "embedding"
  /\ \A s \in DOMAIN batch : s <= m
  /\ \A w \in Workers : pending[w] \cap DOMAIN batch = {}
  /\ vec' = [s \in Slots |-> IF s \in DOMAIN batch THEN batch[s] ELSE vec[s]]
  /\ bf' = [bf EXCEPT !.at = "reading", !.last = m]
  /\ batch' = NoPage
  /\ UNCHANGED <<queue, job, pending, text, delivered, touched>>

BackfillDone ==
  /\ bf.at = "reading" /\ Eligible = {}
  /\ bf' = [bf EXCEPT !.at = "done", !.last = 0]
  /\ UNCHANGED <<queue, job, pending, table, batch>>

(* Interrupted, or the embedder or the database failed.                    *)
BackfillFails ==
  /\ bf.at \in {"reading", "embedding"}
  /\ bf' = NotRunning
  /\ batch' = NoPage
  /\ touched' = {}
  /\ UNCHANGED <<queue, job, pending, text, vec, delivered>>

-----------------------------------------------------------------------------

Handle(w) ==
  \/ Reject(w) \/ Prepare(w) \/ UpsertBatch(w) \/ Commit(w) \/ Respond(w)
  \/ Fail(w)

Next ==
  \/ \E v \in Versions : DeadLetter(v)
  \/ \E w \in Workers, v \in Versions : Deliver(w, v) \/ Submit(w, v)
  \/ \E w \in Workers : Handle(w)
  \/ BackfillStart \/ BackfillRead \/ BackfillCommit \/ BackfillDone
  \/ BackfillFails

Spec == Init /\ [][Next]_vars

-----------------------------------------------------------------------------

Maybe(S) == S \union {Null}

TypeOK ==
  /\ broker \in [Versions -> {"queued", "acked", "dead"}]
  /\ deliveries \in [Versions -> 0..MaxDeliveries]
  /\ job \in [Workers -> [at : {"idle", "received", "writing", "done"},
                          version : Maybe(Versions),
                          via : {"push", "post", "load"}]]
  /\ \A w \in Workers : job[w].at # "idle" => job[w].version \in Versions
  /\ pending \in [Workers -> SUBSET Slots]
  /\ text \in [Slots -> Maybe(Versions)] /\ vec \in [Slots -> Maybe(Versions)]
  /\ delivered \subseteq Versions
  /\ bf \in [at : {"idle", "reading", "embedding", "done"}, all : BOOLEAN,
             last : Nat]
  /\ DOMAIN batch \subseteq Slots
  /\ \A s \in DOMAIN batch : batch[s] \in Versions
  /\ touched \subseteq Slots

(* A row is locked by one live transaction at most, which is writing a     *)
(* version that has it: no failure leaves a lock behind.                   *)
LocksOwned == \A w \in Workers :
  /\ pending[w] # {} =>
       job[w].at = "writing" /\ pending[w] \subseteq Chunks[job[w].version]
  /\ \A x \in Workers \ {w} : pending[w] \cap pending[x] = {}

(* No document is dropped on the floor: a message is acknowledged only if  *)
(* it can never succeed, has nothing to store, or was committed.           *)
AckedMeansStored == \A v \in Versions :
  broker[v] = "acked" => v \in delivered \union Malformed \/ Chunks[v] = {}

(* Readers never see half a document, whichever handlers overlap or fail.  *)
Published == INSTANCE Corpus WITH Absent <- Null
CorpusSpec == Published!Spec

(* A backfill that ran to its end filled every vector that was missing     *)
(* and, with --all, replaced every vector that was stale, in every row     *)
(* that no ingestion touched meanwhile; restarts included.                 *)
Healed(s) ==
  text[s] # Null => vec[s] # Null /\ (bf.all => vec[s] = text[s])
BackfillHeals == bf.at = "done" => \A s \in Slots \ touched : Healed(s)

(* What a finished write and a running backfill can rely on; with the      *)
(* invariants above, the inductive invariant of the proofs.                *)
Settled == \A w \in Workers :
  job[w].at = "done" /\ job[w].via = "push" =>
    job[w].version \in delivered \/ Chunks[job[w].version] = {}
Behind(s) == s <= bf.last
InPage(s) == /\ bf.at = "embedding" /\ s \notin DOMAIN batch
             /\ \E m \in DOMAIN batch : s <= m
HealedSoFar ==
  bf.at \in {"reading", "embedding"} => \A s \in Slots \ touched :
    /\ Behind(s) \/ InPage(s) => Healed(s)
    /\ s \in DOMAIN batch => batch[s] = text[s]
IInv ==
  /\ TypeOK /\ LocksOwned /\ Settled /\ AckedMeansStored
  /\ HealedSoFar /\ BackfillHeals

=============================================================================
