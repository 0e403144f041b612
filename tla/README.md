# Verification of arabic-rag

TLA+ models of the retrieval-augmented answering service in `src/`, the TLC
configurations that check them on small instances, and TLAPS proofs of the
properties that matter most. Every definition is a translation of the source
lines named for it in `PROJECT.json` ("map"); paths below are relative to `src/`.

## 1. Inventory

| Component | Source | State it keeps | Operations | Interacts with |
|---|---|---|---|---|
| Spend tracker | `app/observability/cost.py`, `app/data.py`, `app/api/stats.py` | one record `Spend` (UTC date, usd, calls) per process | `reserve`, `settle`, `would_exceed`, `check`, `today`, `remaining` | called by the ask service around every generation; read by `/stats` |
| Ask service | `app/service.py`, `app/api/ask.py`, `app/main.py` | per request: `Prepared`, the `recorded` list, frames sent; shared: cache rows, tracker | `answer`, `stream`, `_prepare`, `_lookup_cache`, `_store`, `_record_usage`, `_reserve_spend`; the exception handlers | everything below |
| Provider failover | `app/generation/failover.py`, `base.py`, `providers.py` | per call: vendor index, attempt, failure list, open stream | `complete`, `stream`, retry, deadline, hand-off, close | called by the ask service; calls the vendors |
| Semantic cache | `app/retrieval/cache.py`, `app/models/query_cache.py` | table `query_cache`, shared by all processes and deployments | `lookup` (and its hit counter), `store`, `guard_key`, `_pipeline_key` | ask service, Postgres |
| Ingestion | `app/api/ingest.py`, `app/ingest_worker.py`, `ingestion/pipeline.py`, `ingestion/backfill.py` | table `chunks` | `/ingest`, Pub/Sub push, upsert, backfill | Pub/Sub (at least once), Postgres, embedder |
| Chunking | `ingestion/chunk.py`, `normalize.py` | none | `split_articles`, `chunk_document`, the numbering of `ingest_documents` (`_unique_id`) | ingestion |
| Retrieval | `app/retrieval/search.py`, `rerank.py`, `app/generation/budget.py` | none; one session per leg of a search | dense and lexical legs, `rrf_fuse`, rerank, budget | ask service, Postgres |
| Planner | `app/planning/*.py` | none | rewrite, decompose, LLM plan with fallback | ask service |
| Embedder, reranker | `app/retrieval/embed.py`, `rerank.py` | lazily loaded weights, a lock for each object | `load`, `embed_queries`, `embed_passages`, `rerank`; the vendors' clients with their batches and retries | ask service, ingestion, the gate |
| Rate limiter | `app/lib/rate_limit.py` | `_hits`: address -> timestamps | `rate_limit`, `_trim`, `_sweep` | runs in the thread pool before `/ask` |
| Connections | `app/db.py`, `app/lib/stats.py`, `app/lib/health.py` | the engine's pool; per session its transaction | `session_scope`, `read_stats`, `database_reachable` | every statement of the ask service, the cache and retrieval |
| Start-up | `app/deps.py`, `get_spend_tracker`, `get_reranker` | cached singletons | `build_*`, `get_service`, `get_ingest_embedder` | all; called from the thread pool |
| Retrieval gate | `evals/gate.py`, `harness.py`, `metrics.py`, `schema.py` | the baseline file | gate, update, evaluate, check | retrieval, the corpus, other runs through the file |
| Logs, traces, static pages, other evaluation and benchmark scripts, deployment | `app/observability/logs.py`, `tracing.py`, `evals/`, `benchmark/`, `terraform/`, `app/static/` | none that a decision reads | | |

The hard behaviours:

* **Money.** An estimate is reserved before a generation is awaited and replaced
  by the real cost afterwards. Between the two, other requests run, the client
  may leave, the vendor may fail, the date may change. Correct: the counter
  covers what is held and billed, never drifts shut, and bounds admissions.
* **A stream and its client.** `_stream` is a generator that can be unwound at
  every `yield`. Correct: frames keep their order, nothing incomplete is cached,
  every reservation comes back.
* **Vendors.** A vendor may fail before or after the first token, hang, or be
  retried. Correct: the answer is one vendor's, one bill, complete failure
  reports, every response released that an adapter holds in an `async with`.
* **Documents.** Pub/Sub delivers at least once and out of order, while a
  backfill rewrites vectors. Correct: readers see whole versions, what is
  acknowledged is stored, and a finished backfill leaves no missing vector.
* **Limits.** The rate limiter takes its clock reading outside its lock; a hybrid
  search holds a connection while waiting for another, and a request keeps what
  its session has checked out. Correct: nobody exceeds a limit or is turned away
  without cause, no connection is lost, no ring of waiting requests lasts.
* **Shared answers.** The nearest stored question is looked up by processes with
  different settings, and misses overlap. Correct: what is replayed fits the question,
  the config and the vendors of today; the hit counter is exact.
* **First calls.** `functools.cache` takes no lock, loads take seconds and may raise.
  Correct: one object of each kind unless builders overlapped, weights loaded once.
* **Citations.** A text is cut on a copy without marks, into overlapping windows.
  Correct: every letter is retrievable under its article, ids do not collide.
* **The gate.** A run measures while corpus, pairs and baseline change, a vendor may
  answer with fewer vectors than it was sent texts, and the run may be killed or
  fail to write. Correct: a pass has lost nothing of what it measured; the
  baseline is what was measured last.

## 2. The modules

| Module | Models | Role |
|---|---|---|
| `SpendTracker` | `SpendTracker` of `cost.py` | the class: one operator per method |
| `SpendCap` | concurrent calls sharing one tracker, midnights | composes `SpendTracker` with its callers |
| `SpendCapProofs` | | theorems about `SpendCap` |
| `AskSession` | what `/ask` promises a client | abstract specification |
| `AskService` | `RagService` behind `POST /ask` | instantiates `SpendTracker`, implements `AskSession` and `SpendCap` |
| `AskServiceProofs` | | theorems about `AskService` |
| `Generation` | what one generation promises its caller | abstract specification |
| `Failover` | `FailoverProvider` over its vendors | implements `Generation` |
| `Corpus` | what readers of `chunks` see of one document | abstract specification |
| `Ingest` | push, post, load and backfill of one document | implements `Corpus` |
| `IngestProofs` | | theorems about `Ingest` and `Chunking` |
| `RateLimit` | `rate_limit` and its two helpers | |
| `RateLimitProofs` | | theorems about `RateLimit` |
| `ConnPool` | the sessions of requests on one connection pool | |
| `ConnPoolProofs` | | theorems about `ConnPool` |
| `Retrieval` | one question from its text to the passages of the prompt | |
| `RetrievalAndFailoverProofs` | | theorems about `Retrieval` and `Failover` |
| `SemanticCache` | requests of several deployments on `query_cache` | |
| `CacheAndGateProofs` | | theorems about `SemanticCache` and `EvalGate` |
| `ColdStart` | the first calls of a process | |
| `ColdStartProofs` | | theorems about `ColdStart` |
| `Chunking` | one document from its text to its rows | |
| `EvalGate` | runs of the retrieval gate and their baseline | |
| `MCSpendCap`, `MCAsk`, `MCIngest`, `MCRateLimit`, `MCConnPool`, `MCRetrieval`, `MCSemanticCache`, `MCColdStart`, `MCChunking`, `MCEvalGate` | | instances for TLC (`Failover` needs none) |

### SpendTracker and SpendCap

The process is one asyncio event loop and no method of the tracker awaits, so a
method is one step. `spend` is the tracker's record; `Today` is `today()`, which
replaces the record when the date has changed. `Reserve`/`Refuse` are the two
outcomes of `reserve`, `Settle` is `settle` with its clamp, `ReadStats` what
`/stats` reads. `SpendCap` adds the callers: `Admit`, `TurnAway`, `Finish` are
`_reserve_spend`, the refusal and `_record_usage` of a call; `Midnight` moves the
UTC date. `held`, `billed`, `crossed` and `overrun` are an auditor's ledger of the
current day; no action reads them. Costs are chosen freely, because the estimate
is priced at the primary vendor's rates on a character count and nothing in the
code keeps the bill below it. Amounts are naturals: rounding of floats is left
out, and so is the `calls` field, which no decision reads.

### AskService and AskSession

A request is a coroutine; `at` is the `await` or `yield` it is suspended at, and
an action is the code from one suspension to the next. `Prepare` groups
`_prepare`: cache hit or miss, the citations of a hit (`CitationsHydrated`, which can
fail after the hit was counted), failure, refusal gate, cap check and hold. `Pull` is
the client taking the next frame, `Token`/`EndGeneration` the provider's answer, its
error (`ProviderFails`, announced by an error frame) or any other exception of an
adapter (`AdapterRaises`, which no handler of the stream knows: it breaks off), `Finish`
the store, `Leave` a client that disconnects while its generator is
suspended, which unwinds it from there (`Guarded` are the places inside the
`try`/`finally`, where the hold is given back). Requests share the tracker and
the cache. A question together with its retrieval config is one cache key; a
generated text is an answer, a refusal, garbled or blank; retrieval, planning
and prompt building are one step with its ways to fail. A generation that reports no
usage, which the code marks as unreachable, settles and counts like one that cost
nothing, and is not a case of its own. The cache is on (with
it off every lookup misses); a JSON request is not cancelled, as the framework
does not cancel one; the process is not restarted. `AskSession` is the frame
protocol and the promise about kept answers; the mapping takes the authors of
cached rows for `kept`. `Ledger` maps the service to `SpendCap` as well, with a request
for a call and a single day: whatever happens to its stream, a request reserves once
and settles once or never, which is all that `SpendCap` asks of its callers.
`overrun` is a history variable: what vendors charged beyond the estimates.

### Failover and Generation

One call, from `complete()` or `stream()` to its end. `AttemptFails` is
`_with_retry` plus the `except` of the loop over the chain: retry, re-raise or
give the vendor up. `Deadline` is `_with_deadline`, `FirstToken` the commitment
made by `_open_stream`. Vendors are the environment: each attempt may answer,
fail with any `ErrorKind` or with an exception that is no `ProviderError`, or hang.
A stream is suspended at its `yield` ("yielded") or waits for the vendor ("flowing").

`live` are the vendors with a response of ours open. What closes a response depends
on where its adapter stops. If the vendor's library ends, fails or is cancelled, it
has closed it (`EndedByVendor`). If the adapter's own frame stops, by an error of its
own or because the generator is closed at its `yield`, what is held in an `async with`
is closed and nothing else (`Unwound`): Anthropic's and Hugging Face's adapters do so
(`Managed`), Gemini's, which iterates over the SDK's stream, does not. A
caller that leaves while it waits cancels the library (`CallerCancelled`); one that
leaves between two tokens (`CallerLeaves`) leaves the generator at its `yield`, "closing",
until `StreamClosed`: the `finally` of `failover.py:173`, reached when the generator is
closed, by its caller or by the finalizer of the event loop, which is what
the bare `async for` of `service.py:465` leaves it to. `Generation` says that one vendor speaks, is
never restarted, and alone bills, exactly on success.

### Ingest and Corpus

Chunk ids start with the document's id, so one document is enough. A version of
it is a set of chunk ids; a row's text and vector are named by the version they
come from. `Deliver`, `Reject`, `Respond`, `Ack` are `ingest_pubsub`, `Submit` the
endpoint without an envelope or the command-line load (which has no embedder),
`Prepare`, `UpsertBatch`, `Commit` are `ingest_documents`, `Fail` everything that
ends in a 5xx or no answer. From Postgres the model takes three facts: an upserted
row is locked until its transaction ends, a transaction becomes visible as a
whole, a failed one not at all. From the broker: it redelivers until it is
acknowledged, also while an earlier delivery runs, and sets the message aside at
the limit of `terraform/pubsub.tf`. The backfill reads a page (`BackfillRead`),
awaits the embedder, and writes whatever the rows hold by then (`BackfillCommit`);
`BackfillFails` is an interruption, after which it may be run again, with or
without `--all`. `delivered` and `touched` are history variables.

### RateLimit

The dependency runs in a thread pool. `Read` takes the clock, outside the lock;
`Reject` and `Admit` are the critical section: sweep, trim, check, append. The
deque of an address is a sequence of stamps, and `FirstFresh` is where `_trim`
stops. `admitted` records every admission. The sweep looks at the last stamp of a
deque only, which need not be the newest; `AdmissionsSpaced` bounds what an
address gains by that.

### ConnPool

Where `AskService` has one step for the database, this module has the sessions:
the request's own (`session_scope`) and one for each leg of a hybrid search. A
session is closed, waits for a connection, runs a statement, holds its connection
between statements ("open", idle in transaction), has failed with it ("broken")
or without one ("refused"). `out` is the pool's side of the account, and only
`Checkout` and the steps that close a session or end its transaction change it.
`LookupMiss` is `lookup` with its rollback, `LookupHit` and `Hydrated` the hit with
its commit and the read of the cited passages, which stays open during the replay;
`StatementEnds`, `NextQuery`, `SearchEnds` and `SearchRaises` are `_retrieve` over
`plan.search_queries`, with `gather(return_exceptions=True)` as `Settled`: a
question refused for lack of passages keeps what its session holds while the refusal
is replayed, as a hit does. `Store` and `Stored` are the answer's row. What comes between, planning, embedding, reranking and
the reservation, needs no connection and is part of the step it precedes or
follows. The pool is SQLAlchemy's, modelled by two facts: it lends at most
`pool_size + max_overflow` connections, and a waiter it cannot serve times out.

### Retrieval

The stages of `_prepare` for one question, after a cache miss: `PlanNoop`, `PlanRules`
and `PlanLLM` are the three planners (the last falls back to the second), `Dedupe`
their common end; `Retrieve` searches every query with one leg or two, fuses the legs
(`SearchResult`) and then the queries (`FuseQueries`); `Rerank` or `KeepFusedOrder`;
`Refuse` or `BuildPrompt` with `FitContext`. Nothing runs beside it that it could see,
so a stage is one step. What a leg returns, what a passage scores and what the lexicon
or the language model writes are free choices, and what the two stages of fusion
and their cuts make of it is computed. The fractions of the fusion are added exactly,
as whole multiples of 1 / `Scale`, where the code adds floats: two chunks whose exact
scores are equal may come in either order there. `legs` keeps the rankings for the properties.

### SemanticCache

`AskService` has the cache as a set of answered keys; this module has what the
lookup really does. A question is a raw text with a guard (`guard_key`: its digits and
negations) and a distance to every other. `Scope` is the WHERE clause, `Nearest` the
ORDER BY with its LIMIT of 1, `Accepts` the threshold and the guard applied to that
one row. `LookupHit` is the SELECT, `CountHit` the UPDATE of the counter and the
commit, with other requests between them; `Generate` lets any vendor of the chain
answer, a refusal or corrupted text included, which is not stored; `Store` appends.
A process runs one of `Revisions`: whether it caches at all, its embedding model, its
depths, its chain of vendors and their models, of which `PipelineKey` names all vendors
but only the first one's model.

### ColdStart

`at` is the builder or load a call is in, `cache` what each builder returns by then,
`own` what each call was handed, `lock` and `weights` those of every embedder and
reranker object. `CacheHit` and `CacheMiss` are `functools.cache`, `Build` the return of
the builder, which replaces the cached object; the tracker is the hand-written
test, set and read of `get_spend_tracker` (`TakeTracker`). A service's builder calls
the others in the order of `build_service`; without an API key it raises and nothing is
cached for it. `LoadBegins` to `LoadFails` are `load` and `_load` under the object's lock.
`building` and `raced` record which builders two calls were in at once.

### Chunking

The text is a sequence of characters of the kinds the code tells apart; "the word
for article and its number" is one of them. `Sections` is `split_articles` on the
folded text with positions mapped back; `HardSplit`, `PieceEnd` and `Resume` are the
loop of `_split_with_overlap`, one window a step; `UniqueSeq` is the numbering of
repeated articles by `_unique_id`, called from `ingest_documents`, where a piece with
nothing but marks is skipped without using up a number. Neighbouring pieces are ordered by `CutsClean`, not
strictly: see *Crawling windows* below.

### EvalGate

A run is a process: it reads the baseline entry first (`Start`), loads the pairs,
embeds the questions a batch at a time with `MAX_TRIES` calls each, searches pair by pair
(`Search`, each against the corpus of its moment) and then gives the `Verdict` or
rewrites the file (`ReadAll`, `Truncate`, `WriteAll`: `write_text` is not atomic).
A vendor may answer a batch with fewer vectors than texts (`Answers`); no code counts
them, so those that follow move up, a question is searched with a later one's
vector, and the pairs that find none in their place are dropped, by `zip`
(`Unsearched`). `vectors` names the question behind each vector, `short` records such an
answer. Every step has its failure, of the file too (`ReadFails`, `OpenFails`,
`WriteFails`); `Reingest` and `EditPairs` are the world that changes meanwhile, `Kill` an
aborted job. A kill or an error in mid-write leaves the file cut short (`torn`).
Metrics are computed as the code does, rounding included, in integers of 1/10000.

## 3. What the runs check

| Run | Question | Instance |
|---|---|---|
| `spend_cap` | Does the counter cover the day's holds and bills, bound admissions, and never drift shut? | 4 calls, cap 4, estimates 1-2, costs 1-3, 2 midnights |
| `ask` | Is the tracker used as it must be, are cache, frames and lookups of concurrent requests consistent, and does every request end but for a stall of its vendor in mid-stream? | 2 requests, 2 keys, cap 5, estimate 2, costs 0, 1 or 3 |
| `ask_leak` | Is every reservation settled? **No.** | the same |
| `failover` | One voice, one bill, complete failure report, responses released, no eternal wait before the first token? | 3 vendors, the second without `async with`, 3 attempts, 2 tokens |
| `ingest` | Do readers see whole versions, is nothing acknowledged lost, does a finished backfill leave no gap? | 2 handlers, 2 versions (2 rows and 1), 2 deliveries, batches of 1, one message malformed |
| `rate_limit` | Is an address kept to its limit, and turned away only for recent admissions? | 2 threads, 2 addresses, limit 2, window 3, sweep at 2, delay 1, clock to 6 |
| `conn_pool` | Is every connection returned once and in time, can requests wait for each other, and does every request end? | 2 requests or probes, 2 connections, 2 queries per search |
| `retrieval` | Are the user's words always searched, does fusion respect what the rankings agree on, is the prompt the best that fits? | 4 chunks, 6 rankings of at most 3, 2 queries, 2 passages, k = 2, scores 0 and 1 with the floor at 1 |
| `semantic_cache` | Does every replay fit its question and pipeline, where do duplicate rows come from, is the hit counter exact? | 3 requests, 3 questions (one a paraphrase, one a negation), 2 configs, 4 deployments |
| `cold_start` | Is there one of everything, are weights loaded once, does every first call end? | 3 calls in three mixes, with and without keys |
| `chunking` | Is every letter retrievable under its article, are cuts clean, are ids consecutive? | every text of up to 5 characters with 2 articles and of 6 with 1, every text of letters and blanks of 7 to 10; budgets (2, 0), (3, 1), (4, 9), (5, 2) |
| `eval_gate` | Is a pass earned, is the baseline what was measured last, does every run end? | any run beside an update of lexical, 2 configurations (one embedded by a vendor, in batches of 2), 3 pairs on 2 documents, 3 states of the corpus, 2 pair files, 1 change, a full baseline or none |

Why the bounds are enough: four calls let two overlap at the cap while a third
crosses a midnight and a fourth is turned away; two requests on two keys give a
hit on the other's answer, two holds at once with the cap (5) too small for both
at their dearest, and a full cap; three vendors have a first, a middle and a last one,
and three attempts a first, a middle and a last one; two deliveries of each of
two versions give every order of old and new; batches of one make every upsert of
the larger version more than one INSERT and every backfill more than one page; a
window of 3 with 7 instants lets stamps expire, and one unit of delay already
reverses two of them; two connections are the fewest with which two searches block
each other, and one search could block itself if it kept its request's connection;
four chunks and rankings of three make both fusions cut, two queries of three texts
make the planner cut, the costs (1, 4, 3, 1 of 3) make a top passage too large for the
prompt and a second one not fit behind the first. The shipped floor of 0.0 never
refuses; the run sets one that does. Three requests are a row, a reader and a writer
between its statements, and the four deployments differ in each part of the key, or
in what it leaves out; three first calls put two into a builder that a third finds
finished; six characters hold an article, a line break, a blank and a word longer
than the smallest budget, an overlap of 9 is more than a whole window, and ten letters
and blanks make windows of five that overlap each other several times; a gate or an
update beside an update is every kind of pair of runs that can disturb each other
(two gates write nothing); three pairs in batches of two let a short answer drop
the last pair and shift the others; and one change between two searches already makes
a measurement of two corpora.

Deadlock is checked in every run but the rate limiter's, where the model's
clock stops at `LastTime`. Where a model ends (`AllServed`, `Finished`), an
explicit stuttering step says so.

Every property has a *fault*: an operator of the module, marked "Fault", that
a specification never uses and that does what a plausible bug would. Put in the
place of the operator it belongs to, TLC finds the property violated.

**Fairness.** What the code itself guarantees is little, and the rest is stated as an
assumption about what surrounds it.

* `Failover` assumes weak fairness of the process's own two timers, the deadline and
  the back-off; no vendor has to answer.
* `AskService` takes one thing from there: up to the first token, and for all of a
  JSON request, the chain answers or fails in bounded time (`WF` of
  `Token \/ EndGeneration` outside `MidStream`). After the first token no deadline
  applies (`failover.py:31-33`), so nothing is assumed of a vendor in mid-stream nor of
  the client that waits for it, and `EveryRequestEnds` names that wait as the one way
  in which a request may stay open. The rest is assumed of the environment: the
  database and the models answer or fail (`WF` of `Prepare`, `Finish`), and a client to
  whom a frame is due takes it or is disconnected.
* `ConnPool` assumes of the environment that a statement ends and that what a request
  is suspended on ends; the engine's own part is that a session waiting for a
  connection gets one or times out (`WF` of `Wait`).
* `ColdStart` assumes that every thread is scheduled and that a load ends, well or
  badly (`WF` of `Advance`).
* `EvalGate` assumes that the database and the models answer a run or fail it (`WF` of
  `Work`). The code bounds only a vendor's embedding, by `API_TIMEOUT_S` and `MAX_TRIES`:
  statements have no timeout (`db.py:37`), and local inference has none.
* `SpendCap`, `Ingest`, `RateLimit`, `Retrieval`, `SemanticCache` and `Chunking` have no
  liveness property and no fairness.

### Findings

*The leaked hold* (`ask_leak`). The citations frame is yielded before the `try` whose
`finally` settles the hold; a client that leaves there keeps it until midnight
(`data.py:256-258` says "exactly once, in a finally").

Seen while modelling, without a run of their own. The models contain the behaviour,
or the text says that they do not, and the properties are stated so that they hold
beside it:

* *Midnight.* `settle` subtracts yesterday's reservation from today's counter, the
  direction that `cost.py:75-77` excludes. `SpendBounded` and its proof say how far
  it can go: by the reservations that crossed midnight.
* *Late redelivery.* A second delivery of an older version of a document undoes the
  newer one (`ingest_worker.py:13-15`: "indistinguishable from one").
* *Backfill against ingestion.* The default backfill can replace a fresh vector by
  that of the text it read before (`backfill.py:46`: "fills NULLs only"), and no
  default run repairs it. `BackfillHeals` speaks of rows no ingestion touched.
* *What a rewrite removes.* The fused list is cut to the length of its inputs, so the
  results of a rewrite can push low-ranked chunks of the original question out of it
  (`planner.py:176-178`, `service.py:54-56`). What survives is `AgreementSurvives` and
  `NeverInverts`.
* *The cut stream.* A stream that the client cuts off settles at 0, because usage is
  reported after the last chunk (`service.py:493-500`).
* *Held connections.* `RagService.stream` says of its session "The connection is checked
  out until the last frame" (`service.py:356-357`). For the default, hybrid config that
  is not so: the rollback of a miss returns it (`cache.py:200-207`) and none is held while
  the provider answers, as `GenerationHoldsNothing` shows. A search of the "dense" and
  "lexical" configs runs on the request's session and does keep its connection through
  the provider's call, as does the replay of a cache hit.
* *The stall.* A vendor that falls silent after its first token keeps its request open
  for as long as its client waits: `failover.py:31-33` bounds the first token only, by
  intention. `EveryRequestEnds` excepts it by name (`MidStream`).
* *The unclosed stream.* Closing the chain closes the adapter's generator so that no
  response stays "pinned until the GC ran it" (`failover.py:170-173`). Gemini's
  adapter holds its stream in no `async with` (`providers.py:243-255`), so its response
  stays open all the same, and on a disconnect between two tokens the chain itself is closed by the
  event loop's finalizer, as `service.py:465` iterates over it bare.
  `ResponsesReleased` confines what stays open to such adapters.
* *The missing error frame.* An exception of an adapter that is no `ProviderError` (a
  usage report it cannot read, `providers.py:259`) breaks the stream off without an
  error frame: `service.py:473` catches the chain's own errors only. The hold is given
  back (`AdapterRaises`).
* *The oversized passage.* A top passage larger than the budget leaves the prompt
  without material but still asks the model, as the gate comes first
  (`service.py:554,568`).
* *Whose answer.* An answer a backup vendor wrote is cached under a key that names the
  models of the first vendor only; `ReplayFaithful` promises the model for that one.
* *One copy.* Overlapping first calls build several embedders or trackers, and each of
  two embedders loads its own weights (`deps.py:41-43` counts on one copy);
  `OneUnlessRaced` names the only way there.
* *The exact fit.* A word of exactly `max_chars` at the end of a window is not cut, one
  of the same length behind it is (`chunk.py:125`).
* *Crawling windows.* Half the budget is the most an overlap may be, so that windows
  do not "crawl forward" (`chunk.py:131`). They still do at a word longer than the
  budget: the window before it ends at the last whitespace, the next one starts a word
  further on and ends at the same place. "a  b cccc" with budget 5 and overlap 2 gives
  "a  b", "b", "b", "cccc": with the shipped budget, the words before a blob come back
  in one shrinking chunk after another. Nothing is lost by it.
* *Short answers of a vendor.* Nothing counts the vectors of an embedding response
  (`embed.py:149-160`, `277-285`). After one with too few, `zip` (`harness.py:158`) drops the
  last pairs of a gate run, searches others with a neighbour's vector, and the run may
  still exit 0. `PassIsEarned` says what such a pass means: nothing was lost among the
  pairs it did score, document by document.
* *The torn baseline.* A baseline cut short by an update that was killed or could not
  write on (`gate.py:237`) makes every later run fail, updates included (`ReadFails`); it
  has to be deleted by hand.

## 4. What is proved

With TLAPS, for every value of the constants, from the assumptions named in the
modules (the cap, amounts and bounds are naturals, finite sets of calls, at least
one vendor and one attempt, batches of at least one row, ...). Every proof has
the same shape: the initial states satisfy an invariant `IInv`, every action
preserves it, and it implies the property. `IngestProofs` is about `Ingest` and `Chunking`,
`CacheAndGateProofs` about `SemanticCache` and `EvalGate`, `RetrievalAndFailoverProofs` about
`Retrieval` and `Failover`: each extends both modules, whose names are disjoint
(`ChunkSpec`, `GateSpec`, `SearchSpec`, ...), and assumes of each what it assumes itself.

Where a proof needs induction over a finite set, it takes a least counterexample, by
the well-foundedness of inclusion on finite subsets (`LeastSubset`): so are sums over
a set that gains or loses an element (`SumFunctionOnSet`, evaluated in whatever order
its fold picks the elements) and the least and greatest element of a set of numbers.

* **SpendCap**: `TypeOK`, `LedgerCovers`, `NoPhantomSpend`, `SpendBounded`, `AdmissionFits`. The
  inductive invariant adds `CounterBounded`: the counter passes the cap only by
  cost overruns. `LedgerCovers` and `CounterBounded` survive each step because a settlement
  takes the hold out of `held` or adds it to `crossed`, whichever matches its date,
  and the clamp at zero can only raise the counter; together they give `SpendBounded`.
  `NoPhantomSpend` says the other half, that `held` is the sum of today's open
  reservations and the counter never shows more than `held` and `billed`.
* **AskService**: `TypeOK`, `ReservationsOwned`, `OnlyPaidAnswersCached`,
  `ServedMeansAccounted`, and the refinements `SessionSpec` and `LedgerSpec`. The
  second brings the theorems of `SpendCap` to the service: within a day no call crosses a
  midnight, so the counter is to the cent what is held and charged (`CounterIsExact`), and
  the cap binds up to cost overruns (`ServiceKeepsCap`). The strengthening is
  `Places`: what a request has done by the time it is suspended at each place
  (`Untouched`, `Replaying`, `Generating`, `Generated`). Without it a stored row
  could not be traced back to a settled generation.
* **Failover**: all five safety invariants and the refinement `GenerationSpec`.
  The strengthening `InStep` ties phase, result, attempt and call counts together.
  `ResponsesReleased` follows where each response was opened and where its adapter
  stopped, whichever vendors are `Managed`.
* **Ingest**: all four invariants and the refinement `CorpusSpec`. `Settled`
  carries what a commit achieved to the acknowledgement that follows;
  `HealedSoFar` says of a running backfill that everything at or before `last_id`,
  and everything skipped within the page in hand, is healed unless ingestion
  touched it: it holds because a page is a prefix of the eligible rows in key
  order (`PageIsAPrefix`).

* **ConnPool**: all four invariants. `InPlace` says where legs may have a session
  open. `PoolExact` needs it because a step that closes one session must not leave
  another that the pool still counts; `StallNeedsFullPool` follows from it by
  counting: in a pool where every holder waits, each waiting request holds exactly
  one connection (`WaiterHoldsOne`), so holders map one to one to requests.

* **RateLimit**: `TypeOK`, `AdmissionsSpaced` and `RejectionJustified`. The stamps kept
  of an address are its last admissions (`Remembered`), and those dropped had expired,
  up to the delay: `_trim` drops expired stamps only, and a sweep, which looks at
  the last stamp, takes others along that are newer by the delay at most (`Spread`).
  So an admission finds the one `Limit` places before it dropped, and a rejection
  finds the last `Limit` still there. That `_trim` stops at all is `FirstFreshFacts`,
  by the least of a set of positions.
* **SemanticCache**: `TypeOK`, `ReplayFaithful`, `DuplicatesOverlapped` and `HitsExact`.
  `Places` says that a row's author generated it and that a replayed author is the row;
  `SeenDiffers`, that a request which missed saw no row of its own question under its
  own key, since such a row is at distance 0 and the nearest; the counter is exact
  because the request that counts is one the set of replays did not hold yet.
* **ColdStart**: `TypeOK`, `OneUnlessRaced` and `LoadedOnce`. `Placed` and `Handed` say
  where a call can be and what it holds by then; `Nested` that whoever is inside a
  builder is recorded; `Alone` that a builder no two calls were in has an empty cache
  while it runs, so it fills it once; `Services` that a service's models are those of a
  call past building, which never change; `Locked` that a loading call owns the lock of
  an object not loaded yet.

* **Chunking**: all three invariants. `SectionsApart` comes from the headings alone: a
  match starts behind every letter and heading before it (`MatchStartsLate`), so the
  sections partition the letters and each holds those that stand under its heading
  (`SectionOwned`, `LettersInSections`). The rest is what the next window owes to every
  piece cut so far (`Follows`): it repeats at most the overlap of it, starts before
  nothing solid of it, and cannot end before it, because there is whitespace behind
  the piece within the window's reach. `LettersKept` says that a letter is in a section to
  come, ahead in the open one, or in a piece; `RowsFaithful` that rows are pieces, and
  `seen` the count of rows, so ids continue where they stopped. The first version of
  `CutsClean`, that each piece ends and starts behind its neighbour's, was refuted by
  longer texts (*Crawling windows*).
* **EvalGate**: `PassIsEarned` and `BaselineKept`. `EntriesGenuine` says that whatever is in
  the file, read or about to be written is the summary of a measurement, so a
  comparison of two rounded means is one of two measurements, up to the rounding
  (`Held`): the metrics are sums of shares that the common `Scale` makes whole.
  `WritersTakeTurns` says that short of a mishap the one writer holds what is recorded.
  `VectorsInPlace` says that, until a vendor answers short, the vectors are the questions
  of the batches done, in their order: a prefix of the pairs that grows by one batch.

* **Retrieval**: all four invariants. Most of it is about the operators. Every sort of the
  code is `InOrder`: under a strict total order, the numbers of elements ahead are all
  different, so each place is taken once (`PlacesDiffer`, `InOrderSorts`). A fusion is such
  a sort by the sum of weights; who is ahead, or alone present, in every list has the
  larger sum, or else the same absence (`AheadHasMore`, `FuseKeepsOrder`), and the
  result is a ranking again, so the argument is made twice (`TwiceFused`).
  `AgreementSurvives` needs one inequality between settings, `DampedAssumption`: with it
  a chunk in all of n lists outscores every chunk missing from one (`AgreedOutscores`),
  so the chunks ahead of it are all in the first list, of at most `Limit`. The shipped 60,
  20 and 4 satisfy it; a limit of 22 would not. `SearchIInv` says what each stage left in
  terms of the stage before (`Fused`, `Ordered`, `Fitted`).

Every safety property the runs check is a theorem, and so are the type invariants of the
eleven modules. Only model-checked is liveness (`EveryRequestEnds`,
`NeverStuckBeforeFirstToken`, `EveryCallEnds`, `EveryRunEnds`), which is out of the
prover's reach.

## 5. What is not modelled

* The words of the dialect lexicon and of the prompts, answer parsing, the folds of
  letters and digits that map one character to one: data no property tells apart.
* Fetching of documents, logs and traces, static pages, deployment: output or I/O.
* The other evaluation and benchmark scripts: sequential reports over recorded
  answers, with no state that another step reads.
* The price table and the token estimate are sets of amounts; floats are integers.
* More than one process behind one counter: spend, rate limit and singletons are per
  process, as the code documents. What processes share, the tables and the
  baseline file, is modelled with several (`SemanticCache`, `Ingest`, `EvalGate`).
* The age of a cached row, and its citations after the corpus has changed: no code looks at
  either, so nothing but their absence could be stated.
* A document that shrinks leaves its last chunks in the store; no code deletes
  rows, and `Ingest` follows it in that (`CorpusSpec` speaks of what versions write).

## 6. Plan

Done, in this order: spend cap, `/ask`, failover, ingestion, rate limiter,
connection pool, retrieval, semantic cache, cold start, chunking, the gate. What is left:

1. Compose `SemanticCache` with `Ingest`: citations of rows whose chunks were rewritten.
2. The embedding clients' batching and retries as a module of their own; today they
   are in `EvalGate`, with their caller.
3. The terminal runner (`python -m ingestion`): chunking, load and backfill of several
   documents in one process, stopped between two of them.
4. Theorems: an abstract specification of the search (what `_prepare` promises the
   prompt) with `Retrieval` shown to implement it.
