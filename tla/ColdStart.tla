------------------------------ MODULE ColdStart ------------------------------
(***************************************************************************)
(* The first calls of a process: how the shared objects of app/deps.py     *)
(* come to be, and how the models' weights are loaded                      *)
(* (app/retrieval/embed.py, rerank.py; app/observability/cost.py).         *)
(*                                                                         *)
(* The dependencies of /ask, /ingest and /stats run in a thread pool, so   *)
(* several calls can be inside the same builder.  functools.cache takes no *)
(* lock: a call that missed builds an object of its own, which the caller  *)
(* keeps and which replaces what the cache holds by then.  The spend       *)
(* tracker is tested and set by hand and read again to be returned.  Only  *)
(* the loading of weights is locked, by a lock of each object.             *)
(*                                                                         *)
(* An object is named by the call that built it; "bge" is the reranker     *)
(* that get_reranker keeps, under build_reranker's own cache.  The planner *)
(* keeps no state and is left out; db.py's engine and sessions are built   *)
(* on the event loop, in one step.                                         *)
(***************************************************************************)
EXTENDS Integers, FiniteSets

CONSTANTS
  Calls,                        \* HTTP requests served by one process
  Workloads,                    \* what the calls may be for
  Nobody                        \* no call

ASSUME ColdAssumption ==
  /\ Nobody \notin Calls
  /\ Workloads \subseteq [Calls -> {"ask", "ingest", "stats", "health"}]

VARIABLES
  keyed,                        \* the providers' API keys are configured
  kind,                         \* what each call is for
  at,                           \* what each call does next, and on what
  cache,                        \* the object each builder returns by now
  own,                          \* the objects each call was handed
  lock,                         \* _load_lock of every embedder and reranker
  weights,                      \* how often each of them loaded its weights
  building,                     \* history: the calls inside each builder
  raced                         \* history: builders that ran twice at once

vars == <<keyed, kind, at, cache, own, lock, weights, building, raced>>

Weighted == {"embedder", "reranker"}
Components == Weighted \union {"bge", "provider", "tracker", "service"}
Phases == {"look", "build", "take", "load", "loading", "done", "failed"}

At(p, phase) == [on |-> p, phase |-> phase]
Done == At("service", "done")
Failed == At("service", "failed")

FirstStep == [ask |-> At("service", "look"), ingest |-> At("embedder", "look"),
              stats |-> At("tracker", "look"), health |-> Done]

Init ==
  /\ keyed \in BOOLEAN
  /\ kind \in Workloads
  /\ at = [c \in Calls |-> FirstStep[kind[c]]]
  /\ cache = [p \in Components |-> Nobody]
  /\ own = [c \in Calls |-> [p \in Components |-> Nobody]]
  /\ lock = [p \in Weighted |-> [c \in Calls |-> Nobody]]
  /\ weights = [p \in Weighted |-> [c \in Calls |-> 0]]
  /\ building = [p \in Components |-> {}]
  /\ raced = {}

Goto(c, place) == at' = [at EXCEPT ![c] = place]
Hand(c, p, object) == own' = [own EXCEPT ![c][p] = object]

-----------------------------------------------------------------------------
(* Builders.                                                               *)

(* The arguments of RagService, in the order they are evaluated; then its  *)
(* constructor, and the weights on first use.                              *)
Following == [embedder |-> At("reranker", "look"), bge |-> At("reranker", "build"),
              reranker |-> At("provider", "look"), provider |-> At("tracker", "look"),
              tracker |-> At("service", "build"), service |-> At("embedder", "load")]

After(c, p) == CASE kind[c] = "ask" -> Following[p]
                 [] kind[c] = "ingest" -> At("embedder", "load")
                 [] kind[c] = "stats" -> Done

Looks(c, p) == at[c] = At(p, "look")

CacheHit(c, p) ==
  /\ Looks(c, p) /\ cache[p] # Nobody
  /\ IF p = "tracker"
     THEN Goto(c, At(p, "take")) /\ UNCHANGED own
     ELSE Goto(c, After(c, p)) /\ Hand(c, p, cache[p])
  /\ UNCHANGED <<keyed, kind, cache, lock, weights, building, raced>>

(* What a builder calls first, if anything.                                *)
Inner(p) == CASE p = "service" -> At("embedder", "look")
              [] p = "reranker" -> At("bge", "look")
              [] OTHER -> At(p, "build")

EnterBuilder(c, p) ==
  /\ Goto(c, Inner(p))
  /\ building' = [building EXCEPT ![p] = @ \union {c}]
  /\ raced' = IF building[p] = {} THEN raced ELSE raced \union {p}
  /\ UNCHANGED <<keyed, kind, cache, own, lock, weights>>

CacheMissUncached(c, p) ==                          \* Fault: @cache forgotten
  /\ Looks(c, p) /\ (cache[p] = Nobody \/ p = "embedder")
  /\ EnterBuilder(c, p)
CacheMiss(c, p) ==
  /\ Looks(c, p) /\ cache[p] = Nobody
  /\ EnterBuilder(c, p)

(* build_reranker returns the instance get_reranker handed it.             *)
Built(c, p) == IF p = "reranker" THEN own[c]["bge"] ELSE c

(* The builder returns: its result replaces whatever the cache holds.      *)
Build(c, p) ==
  /\ at[c] = At(p, "build") /\ (p = "provider" => keyed)
  /\ cache' = [cache EXCEPT ![p] = Built(c, p)]
  /\ building' = [building EXCEPT ![p] = @ \ {c}]
  /\ IF p = "tracker"
     THEN Goto(c, At(p, "take")) /\ UNCHANGED own
     ELSE Goto(c, After(c, p)) /\ Hand(c, p, Built(c, p))
  /\ UNCHANGED <<keyed, kind, lock, weights, raced>>

(* return _tracker                                                         *)
TakeTracker(c) ==
  /\ at[c] = At("tracker", "take")
  /\ Hand(c, "tracker", cache["tracker"])
  /\ Goto(c, After(c, "tracker"))
  /\ UNCHANGED <<keyed, kind, cache, lock, weights, building, raced>>

(* No key: nothing is cached for the provider or the service, 503.         *)
Unconfigured(c) ==
  /\ at[c] = At("provider", "build") /\ ~keyed
  /\ building' = [p \in Components |-> building[p] \ {c}]
  /\ Goto(c, Failed)
  /\ UNCHANGED <<keyed, kind, cache, own, lock, weights, raced>>

-----------------------------------------------------------------------------
(* Weights.                                                                *)

(* The object a call embeds or reranks with: a service's is the one it was *)
(* built with.                                                             *)
Mine(c, p) == IF kind[c] = "ask" THEN own[own[c]["service"]][p] ELSE own[c][p]

(* Queries and passages are embedded; /ask reranks, when it has candidates *)
(* and no cached answer.                                                   *)
Onward(c, p) == IF p = "embedder" /\ kind[c] = "ask"
                THEN {At("reranker", "load"), Done} ELSE {Done}
Proceed(c, p) == \E place \in Onward(c, p) : Goto(c, place)

Unlocked(c, p) == at[c] = At(p, "load") /\ lock[p][Mine(c, p)] = Nobody

LoadBeginsEarly(c, p) ==                            \* Fault: tested before the lock
  /\ at[c] = At(p, "load") /\ weights[p][Mine(c, p)] = 0
  /\ lock' = [lock EXCEPT ![p][Mine(c, p)] = c]
  /\ Goto(c, At(p, "loading"))
  /\ UNCHANGED <<keyed, kind, cache, own, weights, building, raced>>
LoadBegins(c, p) ==
  /\ Unlocked(c, p) /\ weights[p][Mine(c, p)] = 0
  /\ lock' = [lock EXCEPT ![p][Mine(c, p)] = c]
  /\ Goto(c, At(p, "loading"))
  /\ UNCHANGED <<keyed, kind, cache, own, weights, building, raced>>

(* With the lock, found loaded.                                            *)
LoadCached(c, p) ==
  /\ Unlocked(c, p) /\ weights[p][Mine(c, p)] # 0
  /\ Proceed(c, p)
  /\ UNCHANGED <<keyed, kind, cache, own, lock, weights, building, raced>>

Release(c, p) == lock' = [lock EXCEPT ![p][Mine(c, p)] = Nobody]

LoadEnds(c, p) ==
  /\ at[c] = At(p, "loading")
  /\ weights' = [weights EXCEPT ![p][Mine(c, p)] = @ + 1]
  /\ Release(c, p) /\ Proceed(c, p)
  /\ UNCHANGED <<keyed, kind, cache, own, building, raced>>

(* Loading may raise: the call fails, the next one tries again.            *)
LoadFailsRetried(c, p) ==                           \* Fault: try until it loads
  /\ at[c] = At(p, "loading") /\ Goto(c, At(p, "load"))
  /\ Release(c, p)
  /\ UNCHANGED <<keyed, kind, cache, own, weights, building, raced>>
LoadFails(c, p) ==
  /\ at[c] = At(p, "loading") /\ Goto(c, Failed)
  /\ Release(c, p)
  /\ UNCHANGED <<keyed, kind, cache, own, weights, building, raced>>

-----------------------------------------------------------------------------

Advance(c) ==
  \/ \E p \in Components : CacheHit(c, p) \/ CacheMiss(c, p) \/ Build(c, p)
  \/ TakeTracker(c) \/ Unconfigured(c)
  \/ \E p \in Weighted :
       LoadBegins(c, p) \/ LoadCached(c, p) \/ LoadEnds(c, p) \/ LoadFails(c, p)

Over(c) == at[c] \in {Done, Failed}
Finished == (\A c \in Calls : Over(c)) /\ UNCHANGED vars

Next == (\E c \in Calls : Advance(c)) \/ Finished

(* Every thread is scheduled, and a loading ends, well or badly.           *)
Spec == Init /\ [][Next]_vars /\ \A c \in Calls : WF_vars(Advance(c))

-----------------------------------------------------------------------------
(* Properties.                                                             *)

TypeOK ==
  /\ keyed \in BOOLEAN
  /\ kind \in Workloads
  /\ at \in [Calls -> [on : Components, phase : Phases]]
  /\ cache \in [Components -> Calls \union {Nobody}]
  /\ own \in [Calls -> [Components -> Calls \union {Nobody}]]
  /\ lock \in [Weighted -> [Calls -> Calls \union {Nobody}]]
  /\ weights \in [Weighted -> [Calls -> Nat]]
  /\ building \in [Components -> SUBSET Calls]
  /\ raced \in SUBSET Components

(* There is one of everything, for /ask, /ingest and /stats alike: two     *)
(* calls were handed different objects only if two calls were inside that  *)
(* builder at the same time.  So /stats shows the tracker the service      *)
(* spends on, and one copy of the weights serves all, unless the first     *)
(* calls overlapped (deps.py, "singletons").                               *)
OneUnlessRaced == \A p \in Components \ raced, c \in Calls :
  own[c][p] # Nobody => own[c][p] = cache[p]

(* Calls that share a model load it once between them, however they        *)
(* interleave and whichever of their loads fail; who goes on to rerank has *)
(* an embedder that is loaded (load, _load: the lock is held for the whole *)
(* load).                                                                  *)
LoadedOnce ==
  /\ \A p \in Weighted, object \in Calls : weights[p][object] <= 1
  /\ \A c \in Calls : at[c] = At("reranker", "load")
                        => weights["embedder"][Mine(c, "embedder")] = 1

(* Where a call can be, by what it is for, and what it has been handed by  *)
(* then; the builders it is inside are recorded; a builder that no two     *)
(* calls were in fills an empty cache once; a loading call owns the lock   *)
(* of an object not loaded yet.  With the invariants above, the inductive  *)
(* invariant of the proofs.                                                *)
Has(c, p) == own[c][p] \in Calls
Building(c) == at[c].phase \in {"look", "build", "take"}
Placed(c) ==
  /\ kind[c] = "health" => at[c] = Done
  /\ kind[c] = "stats" => at[c].on = "tracker" \/ at[c] = Done
  /\ kind[c] = "ingest" => at[c].on = "embedder" \/ at[c] \in {Done, Failed}
  /\ at[c].phase = "take" => at[c].on = "tracker"
  /\ at[c].phase \in {"load", "loading"} =>
       /\ at[c].on = "embedder" \/ (at[c].on = "reranker" /\ kind[c] = "ask")
       /\ Has(c, IF kind[c] = "ask" THEN "service" ELSE "embedder")
Handed(c) == kind[c] = "ask" /\ Building(c) =>
  /\ at[c].on \in {"bge", "reranker", "provider", "tracker"} \/ at[c] = At("service", "build")
       => Has(c, "embedder")
  /\ at[c] = At("reranker", "build") => Has(c, "bge")
  /\ at[c].on \in {"provider", "tracker"} \/ at[c] = At("service", "build")
       => Has(c, "reranker")
Within(c, p) ==
  \/ at[c] = At(p, "build")
  \/ p = "reranker" /\ at[c].on = "bge"
  \/ p = "service" /\ kind[c] = "ask" /\ Building(c) /\ at[c].on # "service"
Nested == \A c \in Calls, p \in Components : Within(c, p) => c \in building[p]
Alone == \A p \in Components \ raced :
  /\ \A c, d \in building[p] : c = d
  /\ building[p] # {} => cache[p] = Nobody
Complete(o) == o # Nobody =>
  o \in Calls /\ ~Building(o) /\ Has(o, "embedder") /\ Has(o, "reranker")
Services == Complete(cache["service"]) /\ \A c \in Calls : Complete(own[c]["service"])
Locked == \A c \in Calls, p \in Weighted : at[c] = At(p, "loading") =>
  lock[p][Mine(c, p)] = c /\ weights[p][Mine(c, p)] = 0
IInv ==
  /\ TypeOK /\ \A c \in Calls : Placed(c) /\ Handed(c)
  /\ Nested /\ Alone /\ OneUnlessRaced
  /\ Services /\ Locked /\ LoadedOnce

(* Every first call ends, though each may wait for a lock that a call held *)
(* which then failed.                                                      *)
EveryCallEnds == \A c \in Calls : <>Over(c)

=============================================================================
