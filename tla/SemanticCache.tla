---------------------------- MODULE SemanticCache ----------------------------
(***************************************************************************)
(* The table query_cache and the requests that read and write it           *)
(* (app/retrieval/cache.py and its callers in app/service.py).             *)
(*                                                                         *)
(* A request looks for the stored question nearest to its own, among the   *)
(* rows of its embedding model and its pipeline.  Within a threshold, and  *)
(* with the same digits and negations, that row's answer is replayed; else *)
(* an answer is generated and stored.  Rows are never changed or deleted.  *)
(*                                                                         *)
(* Several processes share the table, with the settings of their revision. *)
(* A request stores at most one row, so a row is named by its request.     *)
(* The search is exact, as it is at the size query_cache.py:66-69 expects. *)
(* Wording, citations and the age of a row are left out.                   *)
(***************************************************************************)
EXTENDS Integers, FiniteSets, Sequences

CONSTANTS
  Requests,                     \* requests to /ask
  Questions,                    \* raw question texts
  Configs,                      \* retrieval configs
  Revisions,                    \* settings a process may run with: whether it
                                \* caches, its model_key, its depths, the chain
                                \* of vendors and the model of each vendor
  Guard,                        \* guard_key of each question
  Distance,                     \* between the vectors of two questions
  MaxDistance,                  \* 1 - semantic_cache_threshold
  Nobody                        \* no request

(* A question is at distance 0 from itself alone.                          *)
ASSUME CacheAssumption ==
  /\ IsFiniteSet(Requests) /\ Nobody \notin Requests
  /\ MaxDistance \in Nat
  /\ Distance \in [Questions -> [Questions -> Nat]]
  /\ \A p, q \in Questions : Distance[p][q] = 0 <=> p = q
  /\ \A v \in Revisions : v.cache \in BOOLEAN /\ Len(v.chain) \in Nat \ {0}

VARIABLES
  at,                           \* what each request does next
  question, config, revision,   \* what it asks, and of which process
  author,                       \* the request whose generation it delivers
  speaker,                      \* the vendor that generated, in its chain
  reply,                        \* the row a lookup selected, and its counter
  seen,                         \* history: the rows there were at a miss
  rows,                         \* the table, each row by its request
  hits                          \* query_cache.hits

asked == <<question, config, revision>>
vars == <<at, asked, author, speaker, reply, seen, rows, hits>>

Stages == {"lookup", "count", "generate", "store", "replayed", "answered"}

(* The switch, and a model whose vectors fit the table.                    *)
CacheEnabled(r) == revision[r].cache

Init ==
  /\ question \in [Requests -> Questions]
  /\ config \in [Requests -> Configs]
  /\ revision \in [Requests -> Revisions]
  /\ at = [r \in Requests |-> IF CacheEnabled(r) THEN "lookup" ELSE "generate"]
  /\ author = [r \in Requests |-> Nobody]
  /\ speaker = [r \in Requests |-> 0]
  /\ reply = [r \in Requests |-> [row |-> Nobody, hits |-> 0]]
  /\ seen = [r \in Requests |-> {}]
  /\ rows = {}
  /\ hits = [r \in Requests |-> 0]

Goto(r, stage) == at' = [at EXCEPT ![r] = stage]

-----------------------------------------------------------------------------
(* Keys.                                                                   *)

ModelKey(r) == revision[r].embedder

(* _pipeline_key: the provider names every vendor of the chain, its model  *)
(* is the first vendor's.                                                  *)
PipelineKeyUnconfigured(r) ==                       \* Fault: one key for all
  <<revision[r].depths, revision[r].chain, revision[r].model[1]>>
PipelineKey(r) ==
  <<config[r], revision[r].depths, revision[r].chain, revision[r].model[1]>>

(* Vectors of different models compare as if they were close.              *)
Gap(r, row) ==
  IF ModelKey(r) = ModelKey(row)
  THEN Distance[question[r]][question[row]] ELSE 0

Scope(r) == {row \in rows : /\ ModelKey(row) = ModelKey(r)
                            /\ PipelineKey(row) = PipelineKey(r)}

(* ORDER BY distance LIMIT 1; ids are random, so any of the nearest.       *)
NearestReversed(r) ==                               \* Fault: descending
  {row \in Scope(r) : \A o \in Scope(r) : Gap(r, o) <= Gap(r, row)}
Nearest(r) ==
  {row \in Scope(r) : \A o \in Scope(r) : Gap(r, row) <= Gap(r, o)}

Accepts(r, row) ==
  /\ Gap(r, row) <= MaxDistance
  /\ Guard[question[row]] = Guard[question[r]]

-----------------------------------------------------------------------------
(* A request.  One that fails, loses its process or is left by its client   *)
(* takes no further step: nothing in the specification obliges it to.      *)

(* The SELECT of lookup; the row's counter is updated by a second          *)
(* statement.                                                              *)
LookupHit(r) ==
  /\ at[r] = "lookup"
  /\ \E row \in Nearest(r) :
       /\ Accepts(r, row)
       /\ reply' = [reply EXCEPT ![r] = [row |-> row, hits |-> hits[row]]]
       /\ author' = [author EXCEPT ![r] = author[row]]
  /\ Goto(r, "count")
  /\ UNCHANGED <<asked, speaker, seen, rows, hits>>

LookupMiss(r) ==
  /\ at[r] = "lookup"
  /\ Scope(r) # {} => \E row \in Nearest(r) : ~Accepts(r, row)
  /\ seen' = [seen EXCEPT ![r] = rows]
  /\ Goto(r, "generate")
  /\ UNCHANGED <<asked, author, speaker, reply, rows, hits>>

(* hits = hits + 1, computed by the database, and commit.                  *)
CountHitRead(r) ==                                  \* Fault: read, then write
  /\ at[r] = "count"
  /\ hits' = [hits EXCEPT ![reply[r].row] = reply[r].hits + 1]
  /\ Goto(r, "replayed")
  /\ UNCHANGED <<asked, author, speaker, reply, seen, rows>>
CountHit(r) ==
  /\ at[r] = "count"
  /\ hits' = [hits EXCEPT ![reply[r].row] = @ + 1]
  /\ Goto(r, "replayed")
  /\ UNCHANGED <<asked, author, speaker, reply, seen, rows>>

(* Some vendor of the chain answers.  A refusal, a blank or a corrupted    *)
(* text is not stored.                                                     *)
Generate(r) ==
  /\ at[r] = "generate"
  /\ \E v \in 1..Len(revision[r].chain), storable \in BOOLEAN :
       /\ speaker' = [speaker EXCEPT ![r] = v]
       /\ Goto(r, IF storable /\ CacheEnabled(r) THEN "store" ELSE "answered")
  /\ author' = [author EXCEPT ![r] = r]
  /\ UNCHANGED <<asked, reply, seen, rows, hits>>

Store(r) ==
  /\ at[r] = "store"
  /\ rows' = rows \union {r}
  /\ Goto(r, "answered")
  /\ UNCHANGED <<asked, author, speaker, reply, seen, hits>>

Over == {"replayed", "answered"}
Finished == (\A r \in Requests : at[r] \in Over) /\ UNCHANGED vars

Next == \/ \E r \in Requests :
             \/ LookupHit(r) \/ LookupMiss(r) \/ CountHit(r)
             \/ Generate(r) \/ Store(r)
        \/ Finished

Spec == Init /\ [][Next]_vars

-----------------------------------------------------------------------------
(* Properties.                                                             *)

TypeOK ==
  /\ at \in [Requests -> Stages]
  /\ question \in [Requests -> Questions]
  /\ config \in [Requests -> Configs]
  /\ revision \in [Requests -> Revisions]
  /\ author \in [Requests -> Requests \union {Nobody}]
  /\ speaker \in [Requests -> Nat]
  /\ reply \in [Requests -> [row : Requests \union {Nobody}, hits : Nat]]
  /\ seen \in [Requests -> SUBSET Requests]
  /\ rows \in SUBSET Requests
  /\ hits \in [Requests -> Nat]

(* Whatever is replayed was generated, by one of the vendors of today's    *)
(* chain, for a question with the same digits and negations, within the    *)
(* threshold of this one by the vectors of one model, under the same       *)
(* config and depths; and if the first vendor wrote it, with the model     *)
(* that vendor has today.  A replay is not stored again, so answers do not *)
(* drift from question to question (lookup, _pipeline_key, _store).        *)
Replaying(r) == reply[r].row # Nobody
Faithful(r, a) ==
  /\ Guard[question[a]] = Guard[question[r]]
  /\ ModelKey(a) = ModelKey(r)
  /\ Distance[question[r]][question[a]] <= MaxDistance
  /\ config[a] = config[r] /\ revision[a].depths = revision[r].depths
  /\ speaker[a] \in 1..Len(revision[r].chain)
  /\ revision[a].chain[speaker[a]] = revision[r].chain[speaker[a]]
  /\ speaker[a] = 1 => revision[a].model[1] = revision[r].model[1]
ReplayFaithful == \A r \in Requests :
  Replaying(r) => author[r] \in Requests /\ Faithful(r, author[r])

(* The table holds a question twice under one key only if neither request  *)
(* could have seen the other's row: two misses that overlapped (store has  *)
(* no uniqueness, lookup only considers the nearest row).                  *)
SameEntry(a, b) ==
  /\ question[a] = question[b]
  /\ ModelKey(a) = ModelKey(b) /\ PipelineKey(a) = PipelineKey(b)
DuplicatesOverlapped == \A a, b \in rows :
  a # b /\ SameEntry(a, b) => a \notin seen[b] /\ b \notin seen[a]

(* A row's counter is the number of requests it was replayed to, with any  *)
(* number of lookups between each other's statements.                      *)
ReplayedFrom(row) == {r \in Requests : at[r] = "replayed" /\ reply[r].row = row}
HitsExact == \A row \in Requests : hits[row] = Cardinality(ReplayedFrom(row))

(* What a request has done by the time it is at each stage, and that a     *)
(* request which missed saw no row for its own question; with the          *)
(* invariants above, the inductive invariant of the proofs.                *)
Generated(r) ==
  /\ author[r] = r
  /\ speaker[r] \in 1..Len(revision[r].chain)
Places == \A r \in Requests :
  /\ at[r] \in {"lookup", "generate", "store"} => ~Replaying(r)
  /\ at[r] \in {"count", "replayed"} => Replaying(r)
  /\ Replaying(r) => reply[r].row \in rows /\ author[r] = reply[r].row
  /\ at[r] = "store" => Generated(r)
  /\ r \in rows => Generated(r) /\ at[r] = "answered"
SeenDiffers == \A r \in Requests : \A a \in seen[r] : ~SameEntry(a, r)
IInv == /\ TypeOK /\ Places /\ SeenDiffers
        /\ ReplayFaithful /\ HitsExact

=============================================================================
