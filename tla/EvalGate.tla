------------------------------ MODULE EvalGate ------------------------------
(***************************************************************************)
(* The regression gate of evals/gate.py with the harness (evals/harness.py)*)
(* and the metrics (evals/metrics.py) it runs: a run measures one          *)
(* retrieval configuration over the labelled pairs, and either compares    *)
(* the numbers with the recorded baseline or records them.                 *)
(*                                                                         *)
(* Runs are processes: several may share the baseline file, the corpus may *)
(* be ingested anew and the pairs edited while they measure, and a run may *)
(* be killed or fail to write.  A metric is kept in 1/Unit (four digits),  *)
(* rounded as _mean rounds it.  What is reported but not gated (hit rates, *)
(* MRR, the dialect split, latency, refusals) is left out.                 *)
(***************************************************************************)
EXTENDS Integers, FiniteSets, Sequences, Functions

CONSTANTS
  Runs,                         \* processes
  Keys, ApiKeys,                \* baseline keys; those whose questions a vendor embeds
  Pairs,                        \* labelled pairs
  DocOf,                        \* source_doc of a pair
  Gold,                         \* its source_chunk_ids, none if unanswerable
  Scale,                        \* common multiple of the numbers of gold chunks
  K,                            \* BY_DOC_K, the k of recall@k
  Tolerance, DocTolerance,      \* in 1/Unit
  MaxTries, ApiBatch,           \* of the embedding client
  Corpora,                      \* states of the corpus: what a pair's question
                                \* retrieves with the vector of a pair's question
  Datasets,                     \* pairs the file may hold, in its order
  Jobs,                         \* what the runs are asked: mode and key of each
  Committed,                    \* sets of keys the committed baseline may record
  MaxChanges                    \* bound: changes of corpus or pairs

Unit == 10000

ASSUME GateAssumption ==
  /\ ApiKeys \subseteq Keys /\ Committed \subseteq SUBSET Keys
  /\ Datasets \subseteq Seq(Pairs) /\ \A d \in Datasets : IsInjective(d)
  /\ {Tolerance, DocTolerance, K, MaxChanges} \subseteq Nat
  /\ Jobs \subseteq [Runs -> [mode : {"gate", "update"}, key : Keys]]
  /\ {MaxTries, ApiBatch, Scale} \subseteq Nat \ {0}
  /\ IsFiniteSet(Pairs)
  /\ \A p \in Pairs : /\ IsFiniteSet(Gold[p])
                      /\ Gold[p] # {} => Scale % Cardinality(Gold[p]) = 0

VARIABLES
  corpus,                       \* what is retrieved by now
  dataset,                      \* pairs in the file by now
  changes,                      \* how often either changed
  file,                         \* the baseline's entries, none without a file
  torn,                         \* whether it is cut short: not JSON
  phase, job,                   \* of each run
  entry,                        \* what a gating run read before measuring
  pairs,                        \* pairs a run loaded
  batches, tries,               \* embedding: batches done, tries of the next
  vectors,                      \* the pairs whose questions the vectors embed
  short,                        \* history: a vendor answered with too few
  results,                      \* chunk ids retrieved for each pair so far
  document,                     \* baseline an updating run read
  latest,                       \* history: results recorded last, per key
  mishap                        \* history: writers met, or one broke off

world == <<corpus, dataset, changes>>
history == <<latest, mishap>>
store == <<file, torn>>
embedding == <<batches, tries, vectors, short>>
gateVars == <<world, store, phase, job, entry, pairs, embedding, results,
          document, history>>

Ended == {"passed", "failed", "killed"}
Phases == {"new", "load", "embed", "search", "truncate", "write"} \union Ended

-----------------------------------------------------------------------------
(* evals/metrics.py.                                                       *)

(* Positional top k: slice, then dedupe.                                   *)
TopK(retrieved) == {retrieved[i] : i \in {j \in DOMAIN retrieved : j <= K}}

(* recall_at_k, in 1/Scale.                                                *)
RecallAtK(retrieved, relevant) ==
  Cardinality(relevant \intersect TopK(retrieved)) * (Scale \div Cardinality(relevant))

Scorable(measured) == {p \in DOMAIN measured : Gold[p] # {}}
InDoc(measured, doc) == {p \in Scorable(measured) : DocOf[p] = doc}
Docs(measured) == {DocOf[p] : p \in Scorable(measured)}

Points(measured, S) ==
  SumFunctionOnSet([p \in S |-> RecallAtK(measured[p], Gold[p])], S)

(* round(sum / n, 4), 0.0 of nothing; no tie arises from so few pairs.     *)
Mean(measured, S) ==
  IF S = {} THEN 0
  ELSE LET n == Scale * Cardinality(S)
       IN  (2 * Unit * Points(measured, S) + n) \div (2 * n)

(* summarise(evaluate(...)), with the raw results for reference.           *)
Summary(measured) ==
  [recall |-> Mean(measured, Scorable(measured)),
   by_doc |-> [d \in Docs(measured) |-> Mean(measured, InDoc(measured, d))],
   of |-> measured]

(* compare_to_baseline and check: new documents are not gated.             *)
NoDrop(current, baseline, tolerance) == baseline - current <= tolerance

CheckKnown(current, baseline) ==                    \* Fault: a lost document passes
  /\ NoDrop(current.recall, baseline.recall, Tolerance)
  /\ \A d \in DOMAIN baseline.by_doc \intersect DOMAIN current.by_doc :
       NoDrop(current.by_doc[d], baseline.by_doc[d], DocTolerance)
Check(current, baseline) ==
  /\ NoDrop(current.recall, baseline.recall, Tolerance)
  /\ \A d \in DOMAIN baseline.by_doc :
       /\ d \in DOMAIN current.by_doc
       /\ NoDrop(current.by_doc[d], baseline.by_doc[d], DocTolerance)

-----------------------------------------------------------------------------

Nothing == <<>>                 \* no results, no entry, no document

(* The committed baseline, if any, was recorded before.                    *)
GateInit ==
  /\ corpus \in Corpora /\ dataset \in Datasets
  /\ \E known \in Committed :
       /\ latest = [k \in known |-> [p \in Range(dataset) |-> corpus[p, p]]]
       /\ file = [k \in known |-> Summary(latest[k])] /\ torn = FALSE
  /\ phase = [r \in Runs |-> "new"]
  /\ job \in Jobs /\ changes = 0
  /\ entry = [r \in Runs |-> Nothing] /\ document = [r \in Runs |-> Nothing]
  /\ pairs = [r \in Runs |-> <<>>] /\ results = [r \in Runs |-> Nothing]
  /\ batches = [r \in Runs |-> 0] /\ tries = [r \in Runs |-> 0]
  /\ vectors = [r \in Runs |-> <<>>] /\ short = [r \in Runs |-> FALSE]
  /\ mishap = FALSE

MoveTo(r, place) == phase' = [phase EXCEPT ![r] = place]
Fail(r) == /\ MoveTo(r, "failed")
           /\ UNCHANGED <<world, store, job, entry, pairs, embedding, results, document, history>>

(* The corpus is ingested anew, the pairs are edited.                      *)
Change == changes < MaxChanges /\ changes' = changes + 1
Reingest ==
  /\ Change /\ corpus' \in Corpora \ {corpus}
  /\ UNCHANGED <<dataset, store, phase, job, entry, pairs, embedding, results, document, history>>
EditPairs ==
  /\ Change /\ dataset' \in Datasets \ {dataset}
  /\ UNCHANGED <<corpus, store, phase, job, entry, pairs, embedding, results, document, history>>

-----------------------------------------------------------------------------
(* A run.                                                                  *)

Readable(r) == ~torn /\ job[r].key \in DOMAIN file

(* The baseline is read before anything is measured; an update reads none. *)
Start(r) ==
  /\ phase[r] = "new"
  /\ IF job[r].mode = "update" THEN UNCHANGED entry
     ELSE Readable(r) /\ entry' = [entry EXCEPT ![r] = file[job[r].key]]
  /\ MoveTo(r, "load")
  /\ UNCHANGED <<world, store, job, pairs, embedding, results, document, history>>

(* No file, unreadable, not JSON, or no such entry: exit 1.                *)
NoBaseline(r) == phase[r] = "new" /\ job[r].mode = "gate" /\ Fail(r)

(* A search that needs no vendor has its vectors: none, or those of a      *)
(* local model, which encodes every question in one call or raises.        *)
LoadPairs(r) ==
  /\ phase[r] = "load"
  /\ pairs' = [pairs EXCEPT ![r] = dataset]
  /\ IF job[r].key \in ApiKeys /\ dataset # <<>>
     THEN MoveTo(r, "embed") /\ UNCHANGED vectors
     ELSE MoveTo(r, "search") /\ vectors' = [vectors EXCEPT ![r] = dataset]
  /\ UNCHANGED <<world, store, job, entry, batches, tries, short, results,
                 document, history>>

(* A malformed or duplicate pair, no API key, no model: exit 1.            *)
LoadFails(r) == phase[r] = "load" /\ Fail(r)

(* All questions are embedded first, a batch at a time.                    *)
Batch(r) ==
  LET done == batches[r] * ApiBatch
  IN  SubSeq(pairs[r], done + 1,
             IF done + ApiBatch < Len(pairs[r]) THEN done + ApiBatch ELSE Len(pairs[r]))

(* A vendor's vectors come in the order of the texts.  Nothing counts      *)
(* them: an answer with fewer is taken, and those that follow move up.     *)
Picks(n) ==
  {f \in UNION {[1 .. m -> 1 .. n] : m \in 0 .. n} :
     \A i \in DOMAIN f : \A j \in DOMAIN f : i < j => f[i] < f[j]}
Answers(texts) == {[i \in DOMAIN f |-> texts[f[i]]] : f \in Picks(Len(texts))}

EmbedBatch(r) ==
  /\ phase[r] = "embed"
  /\ \E answer \in Answers(Batch(r)) :
       /\ vectors' = [vectors EXCEPT ![r] = @ \o answer]
       /\ short' = [short EXCEPT ![r] = @ \/ answer # Batch(r)]
  /\ batches' = [batches EXCEPT ![r] = @ + 1]
  /\ tries' = [tries EXCEPT ![r] = 0]
  /\ MoveTo(r, IF batches'[r] * ApiBatch < Len(pairs[r]) THEN "embed" ELSE "search")
  /\ UNCHANGED <<world, store, job, entry, pairs, results, document, history>>

(* 429, 5xx or the transport: MAX_TRIES calls for a batch.                 *)
EmbedRetryEndless(r) ==                             \* Fault: no stop_after_attempt
  /\ phase[r] = "embed"
  /\ tries' = [tries EXCEPT ![r] = (@ + 1) % MaxTries]
  /\ UNCHANGED <<world, store, phase, job, entry, pairs, batches, vectors, short,
                 results, document, history>>
EmbedRetry(r) ==
  /\ phase[r] = "embed" /\ tries[r] + 1 < MaxTries
  /\ tries' = [tries EXCEPT ![r] = @ + 1]
  /\ UNCHANGED <<world, store, phase, job, entry, pairs, batches, vectors, short,
                 results, document, history>>

(* The last try, or an error not worth another.                            *)
EmbedFails(r) == phase[r] = "embed" /\ Fail(r)

(* Each pair is searched with the vector in its place, against the corpus  *)
(* of its moment; pairs with none in theirs are dropped: zip.              *)
Unsearched(r) ==
  {i \in DOMAIN pairs[r] \intersect DOMAIN vectors[r] :
     pairs[r][i] \notin DOMAIN results[r]}

With(entries, k, value) ==
  [j \in DOMAIN entries \union {k} |-> IF j = k THEN value ELSE entries[j]]

Search(r) ==
  /\ phase[r] = "search"
  /\ \E i \in Unsearched(r) :
       /\ \A j \in Unsearched(r) : i <= j
       /\ LET p == pairs[r][i]
          IN  results' = [results EXCEPT ![r] = With(@, p, corpus[p, vectors[r][i]])]
  /\ UNCHANGED <<world, store, phase, job, entry, pairs, embedding,
                 document, history>>

(* The database is down, or not migrated.                                  *)
SearchFails(r) == phase[r] = "search" /\ Unsearched(r) # {} /\ Fail(r)

Measured(r) == phase[r] = "search" /\ Unsearched(r) = {}

Verdict(r) ==
  /\ Measured(r) /\ job[r].mode = "gate"
  /\ MoveTo(r, IF Check(Summary(results[r]), entry[r]) THEN "passed" ELSE "failed")
  /\ UNCHANGED <<world, store, job, entry, pairs, embedding, results,
                 document, history>>

-----------------------------------------------------------------------------
(* write_baseline: read all, replace one entry, write all.                 *)

Writing == {r \in Runs : phase[r] \in {"truncate", "write"}}

ReadAll(r) ==
  /\ Measured(r) /\ job[r].mode = "update" /\ ~torn
  /\ document' = [document EXCEPT ![r] = file]
  /\ mishap' = (mishap \/ Writing # {})
  /\ MoveTo(r, "truncate")
  /\ UNCHANGED <<world, store, job, entry, pairs, embedding, results, latest>>

(* A file that is not JSON, or cannot be read, is not repaired: exit 1.    *)
ReadFails(r) == Measured(r) /\ job[r].mode = "update" /\ Fail(r)

(* write_text opens the file, which empties it, and writes.                *)
Truncate(r) ==
  /\ phase[r] = "truncate"
  /\ file' = Nothing /\ torn' = TRUE
  /\ MoveTo(r, "write")
  /\ UNCHANGED <<world, job, entry, pairs, embedding, results, document, history>>

WithOnly(r) == [k \in {job[r].key} |-> Summary(results[r])]      \* Fault: drops the others
WithEntry(r) == With(document[r], job[r].key, Summary(results[r]))

WriteAll(r) ==
  /\ phase[r] = "write"
  /\ file' = WithEntry(r) /\ torn' = FALSE
  /\ latest' = With(latest, job[r].key, results[r])
  /\ MoveTo(r, "passed")
  /\ UNCHANGED <<world, job, entry, pairs, embedding, results, document, mishap>>

(* It cannot be opened, or the disk is full: the error is reported, exit 1,*)
(* and what write_text left is left.                                       *)
OpenFails(r) == phase[r] = "truncate" /\ Fail(r)
WriteFails(r) ==
  /\ phase[r] = "write"
  /\ mishap' = TRUE
  /\ MoveTo(r, "failed")
  /\ UNCHANGED <<world, store, job, entry, pairs, embedding, results,
                 document, latest>>

Kill(r) ==
  /\ phase[r] \notin Ended \union {"new"}
  /\ mishap' = (mishap \/ phase[r] = "write")
  /\ MoveTo(r, "killed")
  /\ UNCHANGED <<world, store, job, entry, pairs, embedding, results,
                 document, latest>>

-----------------------------------------------------------------------------

Work(r) ==
  \/ Start(r) \/ NoBaseline(r) \/ LoadPairs(r) \/ LoadFails(r)
  \/ EmbedBatch(r) \/ EmbedRetry(r) \/ EmbedFails(r)
  \/ Search(r) \/ SearchFails(r) \/ Verdict(r)
  \/ ReadAll(r) \/ ReadFails(r)
  \/ Truncate(r) \/ OpenFails(r) \/ WriteAll(r) \/ WriteFails(r)

GateFinished == (\A r \in Runs : phase[r] \in Ended) /\ UNCHANGED gateVars

GateNext ==
  \/ \E r \in Runs : Work(r) \/ Kill(r)
  \/ Reingest \/ EditPairs \/ GateFinished

(* Assumed of the environment: the database and the models answer a run or *)
(* fail it.  The code bounds only a vendor's embedding (API_TIMEOUT_S and  *)
(* MAX_TRIES); no statement has a timeout (db.py, engine), nor inference.  *)
GateSpec == GateInit /\ [][GateNext]_gateVars /\ \A r \in Runs : WF_gateVars(Work(r))

-----------------------------------------------------------------------------
(* Properties.                                                             *)

GateTypeOK ==
  /\ corpus \in Corpora /\ dataset \in Datasets
  /\ phase \in [Runs -> Phases]
  /\ job \in Jobs /\ changes \in 0 .. MaxChanges
  /\ pairs \in [Runs -> Seq(Pairs)] /\ vectors \in [Runs -> Seq(Pairs)]
  /\ batches \in [Runs -> Nat] /\ tries \in [Runs -> 0 .. MaxTries - 1]
  /\ short \in [Runs -> BOOLEAN]
  /\ DOMAIN results = Runs /\ DOMAIN entry = Runs /\ DOMAIN document = Runs
  /\ DOMAIN latest \subseteq Keys /\ {torn, mishap} \subseteq BOOLEAN

(* The exact recall of the pairs of S fell by at most the tolerance, and   *)
(* by what rounding both sides may hide.                                   *)
Held(now, S, before, T, tolerance) ==
  Unit * (Points(before, T) * Cardinality(S) - Points(now, S) * Cardinality(T))
    <= (tolerance + 1) * Scale * Cardinality(S) * Cardinality(T)

(* A gate that exits 0 had read a baseline entry and lost nothing against  *)
(* the very results that entry stands for: neither overall nor in any one  *)
(* document of the baseline, however small (gate.py, the per-document      *)
(* check; exit codes of main).  It had scored every pair it loaded, each   *)
(* under its own vector - unless a vendor answered short.                  *)
PassIsEarned ==
  \A r \in Runs : phase[r] = "passed" /\ job[r].mode = "gate" =>
    /\ entry[r] # Nothing
    /\ ~short[r] => vectors[r] = pairs[r] /\ DOMAIN results[r] = Range(pairs[r])
    /\ LET now == results[r]
           before == entry[r].of
       IN  /\ Scorable(before) # {} =>
                Held(now, Scorable(now), before, Scorable(before), Tolerance)
           /\ \A d \in Docs(before) :
                /\ InDoc(now, d) # {}
                /\ Held(now, InDoc(now, d), before, InDoc(before, d), DocTolerance)

(* The baseline holds, for every configuration ever recorded, the numbers  *)
(* of its last completed measurement: a run that failed measuring left no  *)
(* trace in it, and an update left the other entries alone.  Only updates  *)
(* that overlapped, or one that was killed or could not write on once the  *)
(* file was emptied, can change that.                                      *)
Recorded == [k \in DOMAIN latest |-> Summary(latest[k])]
BaselineKept == ~mishap /\ ~torn => file = Recorded

(* A started run ends - passed, failed or killed - where the database and  *)
(* the models answer or fail.  A vendor that keeps failing is given up:    *)
(* MAX_TRIES per batch (embed.py, _post_json).                             *)
EveryRunEnds == \A r \in Runs : phase[r] = "load" ~> phase[r] \in Ended

-----------------------------------------------------------------------------
(* The inductive invariant.                                                *)

(* Entries are summaries of measurements of labelled pairs.                *)
Genuine(e) == e = Summary(e.of) /\ DOMAIN e.of \subseteq Pairs
AllGenuine(entries) == \A k \in DOMAIN entries : Genuine(entries[k])
EntriesGenuine ==
  /\ AllGenuine(file) /\ \A r \in Runs : AllGenuine(document[r])
  /\ \A r \in Runs : job[r].mode = "gate" /\ phase[r] \notin {"new", "failed"}
                     => Genuine(entry[r])

(* A run measures the pairs it loaded, and only an update writes.          *)
RunsOrderly ==
  \A r \in Runs :
    /\ DOMAIN results[r] \subseteq Range(pairs[r])
    /\ phase[r] \in {"new", "load"} =>
         results[r] = Nothing /\ vectors[r] = <<>> /\ batches[r] = 0
    /\ r \in Writing => job[r].mode = "update"

(* Until a vendor answers short, the vectors are those of the batches done,*)
(* and in the end those of the pairs.                                      *)
VectorsInPlace ==
  \A r \in Runs : ~short[r] =>
    /\ phase[r] = "embed" => LET done == batches[r] * ApiBatch
                             IN  /\ done < Len(pairs[r])
                                 /\ vectors[r] = SubSeq(pairs[r], 1, done)
    /\ phase[r] = "search" => vectors[r] = pairs[r]

(* Short of a mishap writers take turns: the one there is holds what is    *)
(* recorded, and the file is cut short only while it writes.               *)
WritersTakeTurns ==
  ~mishap => /\ \A r \in Writing : document[r] = Recorded /\ Writing = {r}
             /\ torn => \E r \in Runs : phase[r] = "write"

GateIInv == /\ GateTypeOK /\ EntriesGenuine /\ RunsOrderly
        /\ VectorsInPlace /\ WritersTakeTurns /\ BaselineKept /\ PassIsEarned

=============================================================================
