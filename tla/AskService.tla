----------------------------- MODULE AskService -----------------------------
(***************************************************************************)
(* POST /ask: concurrent requests through RagService (app/service.py).     *)
(*                                                                         *)
(* Each request is a coroutine; `at` says where it is suspended, and one   *)
(* action is the code it runs from one suspension (an await or a yield)    *)
(* to the next.  The requests share the spend tracker and the semantic     *)
(* cache.  A streaming client may disappear while its generator is         *)
(* suspended; GeneratorExit or CancelledError then unwinds it from there.  *)
(*                                                                         *)
(* A JSON request uses _answer, a streaming one _stream.  A question and a *)
(* retrieval config are abstracted to one cache key.  The provider is the  *)
(* failover chain, reduced to its outcomes (module Failover).              *)
(***************************************************************************)
EXTENDS Integers, FiniteSets, Functions

CONSTANTS
  Requests, Keys,
  Cap, Estimates, Costs,        \* as in SpendCap
  None                          \* "not set"

ASSUME AskAssumption ==
  /\ Cap \in Nat
  /\ Estimates \subseteq Nat /\ Costs \subseteq Nat
  /\ None \notin Nat
  /\ IsFiniteSet(Requests)

VARIABLES
  at,                           \* where each coroutine is suspended
  mode,                         \* AskRequest.stream: "json" or "stream"
  key,                          \* question and config
  plan,                         \* Prepared: "cached", "refused", "generate"
  reserved,                     \* Prepared.reserved_usd while unsettled
  text,                         \* the finished generation: its kind
  sent,                         \* the last thing the client was sent
  lookups,                      \* calls of record_cache_lookup
  charged,                      \* what settle() was told the request cost
  spend,                        \* the shared SpendTracker
  overrun,                      \* history: costs beyond their estimates
  cache                         \* rows of query_cache: [key, by]

local == <<mode, key, plan, text>>
vars == <<at, local, reserved, sent, lookups, charged, spend, overrun, cache>>

(* The requests run within one UTC day; SpendCap covers the midnights.     *)
Tracker == INSTANCE SpendTracker WITH clock <- 0

(* What a generation can turn out to be: an answer, the model declining,   *)
(* text in a foreign script, or nothing but blanks.                        *)
TextKinds == {"answer", "refusal", "garbled", "blank"}

(* The places inside the try/finally of _stream and _answer.               *)
Guarded == {"generate", "token", "error", "errordone"}

Suspended == {"lookup", "hydrate", "search", "citations", "replay", "store", "final",
              "done"} \union Guarded

Init ==
  /\ at = [r \in Requests |-> "new"]
  /\ mode = [r \in Requests |-> "json"]
  /\ key \in [Requests -> Keys]
  /\ plan = [r \in Requests |-> "none"]
  /\ reserved = [r \in Requests |-> 0]
  /\ text = [r \in Requests |-> "none"]
  /\ sent = [r \in Requests |-> "nothing"]
  /\ lookups = [r \in Requests |-> 0]
  /\ charged = [r \in Requests |-> None]
  /\ spend = [date |-> 0, usd |-> 0]
  /\ overrun = 0
  /\ cache = {}

-----------------------------------------------------------------------------
(* Steps shared by the actions.                                            *)

Goto(r, place) == at' = [at EXCEPT ![r] = place]
SendFrame(r, frame) == sent' = [sent EXCEPT ![r] = frame]
CountLookup(r) == lookups' = [lookups EXCEPT ![r] = @ + 1]

(* Fault: the hold is taken out of the counter a second time.              *)
SettleReservationTwice(r, cost) ==
  /\ Tracker!Settle(2 * reserved[r], cost)
  /\ reserved' = [reserved EXCEPT ![r] = 0]
  /\ charged' = [charged EXCEPT ![r] = cost]
  /\ overrun' = overrun + Tracker!NonNegative(cost - reserved[r])

SettleReservation(r, cost) ==
  /\ Tracker!Settle(reserved[r], cost)
  /\ reserved' = [reserved EXCEPT ![r] = 0]
  /\ charged' = [charged EXCEPT ![r] = cost]
  /\ overrun' = overrun + Tracker!NonNegative(cost - reserved[r])

KeepTracker == UNCHANGED <<spend, reserved, charged, overrun>>

(* _prepare returned without a generation to run: a JSON request is done,  *)
(* a streaming one yields its citations.                                   *)
Respond(r, kind) ==
  /\ plan' = [plan EXCEPT ![r] = kind]
  /\ IF mode[r] = "json"
       THEN Goto(r, "closed") /\ SendFrame(r, "json")
       ELSE Goto(r, "citations") /\ SendFrame(r, "citations")

-----------------------------------------------------------------------------
(* _prepare.                                                               *)

(* The request arrives and runs up to the cache lookup.                    *)
Arrive(r) == \E m \in {"json", "stream"} :
  /\ at[r] = "new"
  /\ mode' = [mode EXCEPT ![r] = m]
  /\ Goto(r, "lookup")
  /\ UNCHANGED <<key, plan, text, sent, lookups, cache>>
  /\ KeepTracker

(* A row of the same key exists: counted as a hit, then its citations are  *)
(* read back.                                                              *)
CacheHit(r) ==
  /\ at[r] = "lookup"
  /\ \E row \in cache : row.key = key[r]
  /\ CountLookup(r)
  /\ Goto(r, "hydrate")
  /\ UNCHANGED <<local, sent, cache>>
  /\ KeepTracker

CitationsHydrated(r) ==
  /\ at[r] = "hydrate"
  /\ Respond(r, "cached")
  /\ UNCHANGED <<mode, key, text, lookups, cache>>
  /\ KeepTracker

CacheMiss(r) ==
  /\ at[r] = "lookup"
  /\ ~\E row \in cache : row.key = key[r]
  /\ Goto(r, "search")
  /\ UNCHANGED <<local, sent, lookups, cache>>
  /\ KeepTracker

(* Planning, embedding, the lookup, the citations of a hit, retrieval or   *)
(* reranking raised: the route still owns the status line.  What was       *)
(* counted stays counted.                                                  *)
PrepareFails(r) ==
  /\ at[r] \in {"lookup", "hydrate", "search"}
  /\ Goto(r, "closed")
  /\ SendFrame(r, "status")
  /\ UNCHANGED <<local, lookups, cache>>
  /\ KeepTracker

(* Fault: a refusal that forgets record_cache_lookup(hit=False).           *)
RefuseUncounted(r) ==
  /\ at[r] = "search"
  /\ Respond(r, "refused")
  /\ UNCHANGED <<mode, key, text, lookups, cache>>
  /\ KeepTracker

(* The refusal gate: nothing relevant was retrieved.                       *)
Refuse(r) ==
  /\ at[r] = "search"
  /\ CountLookup(r)
  /\ Respond(r, "refused")
  /\ UNCHANGED <<mode, key, text, cache>>
  /\ KeepTracker

(* The gate, the context budget and the cap check run without an await     *)
(* after the reranker: the request holds its estimate.                     *)
ReserveSpend(r) == \E estimate \in Estimates :
  /\ at[r] = "search"
  /\ Tracker!Reserve(estimate)
  /\ reserved' = [reserved EXCEPT ![r] = estimate]
  /\ plan' = [plan EXCEPT ![r] = "generate"]
  /\ IF mode[r] = "json"
       THEN Goto(r, "generate") /\ UNCHANGED sent
       ELSE Goto(r, "citations") /\ SendFrame(r, "citations")
  /\ UNCHANGED <<mode, key, text, lookups, charged, overrun, cache>>

SpendCapReached(r) == \E estimate \in Estimates :
  /\ at[r] = "search"
  /\ Tracker!Refuse(estimate)
  /\ Goto(r, "closed")
  /\ SendFrame(r, "status")
  /\ UNCHANGED <<local, reserved, charged, overrun, lookups, cache>>

-----------------------------------------------------------------------------
(* The client pulls the next frame of a stream.                            *)

(* After the citations: replay what is known, or open the generation.      *)
CitationsTaken(r) ==
  /\ at[r] = "citations"
  /\ IF plan[r] = "generate"
       THEN Goto(r, "generate") /\ UNCHANGED sent
       ELSE Goto(r, "replay") /\ SendFrame(r, "tokens")
  /\ UNCHANGED <<local, lookups, cache>>
  /\ KeepTracker

TokenTaken(r) ==
  /\ at[r] = "token"
  /\ Goto(r, "generate")
  /\ UNCHANGED <<local, sent, lookups, cache>>
  /\ KeepTracker

ReplayTaken(r) ==
  /\ at[r] = "replay"
  /\ Goto(r, "final")
  /\ SendFrame(r, "final")
  /\ UNCHANGED <<local, lookups, cache>>
  /\ KeepTracker

(* Fault: a failed generation is announced and started over.               *)
ErrorTakenRetrying(r) ==
  /\ at[r] = "error"
  /\ Goto(r, "generate")
  /\ UNCHANGED <<local, sent, lookups, cache>>
  /\ KeepTracker

(* Fault: the except branch falls through to the code after the try.       *)
ErrorFallsThrough(r) ==
  /\ at[r] = "error"
  /\ Goto(r, "final")
  /\ SendFrame(r, "final")
  /\ UNCHANGED <<local, lookups, cache>>
  /\ KeepTracker

ErrorTaken(r) ==
  /\ at[r] = "error"
  /\ Goto(r, "errordone")
  /\ SendFrame(r, "errordone")
  /\ UNCHANGED <<local, lookups, cache>>
  /\ KeepTracker

(* The generator returns after `done`; only now does the finally of a      *)
(* failed generation release the reservation.                              *)
ErrorClosed(r) ==
  /\ at[r] = "errordone"
  /\ Goto(r, "closed")
  /\ SettleReservation(r, 0)
  /\ UNCHANGED <<local, sent, lookups, cache>>

FinalTaken(r) ==
  /\ at[r] = "final"
  /\ Goto(r, "done")
  /\ SendFrame(r, "done")
  /\ UNCHANGED <<local, lookups, cache>>
  /\ KeepTracker

DoneTaken(r) ==
  /\ at[r] = "done"
  /\ Goto(r, "closed")
  /\ UNCHANGED <<local, sent, lookups, cache>>
  /\ KeepTracker

-----------------------------------------------------------------------------
(* The generation.                                                         *)

Token(r) ==
  /\ at[r] = "generate" /\ mode[r] = "stream"
  /\ Goto(r, "token")
  /\ SendFrame(r, "tokens")
  /\ UNCHANGED <<local, lookups, cache>>
  /\ KeepTracker

(* The last chunk: the usage is reported, the reservation settled and the  *)
(* lookup counted before the text is looked at.  A JSON reader gets a      *)
(* fixed apology for a garbled text, which skips the store.  (A generation *)
(* without usage, marked unreachable in the code since every adapter       *)
(* reports one, would settle and count alike, at cost 0.)                  *)
Complete(r) == \E cost \in Costs, kind \in TextKinds :
  /\ at[r] = "generate"
  /\ sent[r] = "citations" => kind = "blank"
  /\ SettleReservation(r, cost)
  /\ CountLookup(r)
  /\ text' = [text EXCEPT ![r] = kind]
  /\ IF mode[r] = "json" /\ kind = "garbled"
       THEN Goto(r, "closed") /\ SendFrame(r, "json")
       ELSE Goto(r, "store") /\ UNCHANGED sent
  /\ UNCHANGED <<mode, key, plan, cache>>

(* Fault: a failed JSON generation keeps its reservation.                  *)
ProviderFailsHolding(r) ==
  /\ at[r] = "generate"
  /\ IF mode[r] = "json"
       THEN Goto(r, "closed") /\ SendFrame(r, "status") /\ KeepTracker
       ELSE Goto(r, "error") /\ SendFrame(r, "error") /\ KeepTracker
  /\ UNCHANGED <<local, lookups, cache>>

(* ProviderError or AllProvidersFailed, at any point of the generation.    *)
ProviderFails(r) ==
  /\ at[r] = "generate"
  /\ IF mode[r] = "json"
       THEN /\ Goto(r, "closed")
            /\ SendFrame(r, "status")
            /\ SettleReservation(r, 0)
       ELSE Goto(r, "error") /\ SendFrame(r, "error") /\ KeepTracker
  /\ UNCHANGED <<local, lookups, cache>>

(* Any other exception of an adapter (a usage report it cannot read): no   *)
(* handler turns it into an error frame, the finally releases the          *)
(* reservation, and a stream breaks off.                                   *)
AdapterRaises(r) ==
  /\ at[r] = "generate"
  /\ Goto(r, "closed")
  /\ IF mode[r] = "json" THEN SendFrame(r, "status") ELSE UNCHANGED sent
  /\ SettleReservation(r, 0)
  /\ UNCHANGED <<local, lookups, cache>>

(* _store and cache.store: only a real answer becomes a row.               *)
CacheableUnlessBlank(r) == text[r] # "blank"       \* fault: caches refusals
Cacheable(r) == text[r] = "answer"
NewRows(r) == IF Cacheable(r) THEN {[key |-> key[r], by |-> r]} ELSE {}

Store(r) ==
  /\ at[r] = "store"
  /\ cache' = cache \union NewRows(r)
  /\ IF mode[r] = "json"
       THEN Goto(r, "closed") /\ SendFrame(r, "json")
       ELSE Goto(r, "final") /\ SendFrame(r, "final")
  /\ UNCHANGED <<local, lookups>>
  /\ KeepTracker

(* The insert or its commit raised: a JSON request fails although it was   *)
(* paid for, a stream breaks off without `final`.                          *)
StoreFails(r) ==
  /\ at[r] = "store" /\ Cacheable(r)
  /\ Goto(r, "closed")
  /\ IF mode[r] = "json" THEN SendFrame(r, "status") ELSE UNCHANGED sent
  /\ UNCHANGED <<local, lookups, cache>>
  /\ KeepTracker

-----------------------------------------------------------------------------
(* The client of a stream disappears.                                      *)

(* Inside the try, the finally settles; no usage was reported yet.         *)
LeaveGuarded(r) ==
  /\ mode[r] = "stream" /\ at[r] \in Guarded
  /\ Goto(r, "closed")
  /\ SettleReservation(r, 0)
  /\ UNCHANGED <<local, sent, lookups, cache>>

(* Outside it nothing is undone.  An insert that was on its way may or     *)
(* may not have been committed.                                            *)
LeaveUnguarded(r) ==
  /\ mode[r] = "stream"
  /\ at[r] \in {"citations", "replay", "store", "final", "done"}
  /\ Goto(r, "closed")
  /\ \/ UNCHANGED cache
     \/ at[r] = "store" /\ cache' = cache \union NewRows(r)
  /\ UNCHANGED <<local, sent, lookups>>
  /\ KeepTracker

-----------------------------------------------------------------------------

Pull(r) ==
  \/ CitationsTaken(r) \/ TokenTaken(r) \/ ReplayTaken(r) \/ ErrorTaken(r)
  \/ ErrorClosed(r) \/ FinalTaken(r) \/ DoneTaken(r)

Leave(r) == LeaveGuarded(r) \/ LeaveUnguarded(r)

Prepare(r) ==
  \/ CacheHit(r) \/ CitationsHydrated(r) \/ CacheMiss(r) \/ PrepareFails(r)
  \/ Refuse(r) \/ ReserveSpend(r) \/ SpendCapReached(r)

EndGeneration(r) == Complete(r) \/ ProviderFails(r) \/ AdapterRaises(r)

Finish(r) == Store(r) \/ StoreFails(r)

Terminated == \A r \in Requests : at[r] = "closed"
AllServed == Terminated /\ UNCHANGED vars

Next ==
  \/ \E r \in Requests :
       Arrive(r) \/ Prepare(r) \/ Pull(r) \/ Token(r) \/ EndGeneration(r)
       \/ Finish(r) \/ Leave(r)
  \/ AllServed

(* The generator holds a frame its client has not taken.                   *)
WithClient(r) ==
  at[r] \in {"citations", "token", "replay", "error", "errordone", "final", "done"}

(* Waiting for the next chunk of a vendor that has begun to speak: no      *)
(* deadline of this code covers that wait.                                 *)
MidStream(r) == at[r] = "generate" /\ sent[r] = "tokens"

(* The code's own part is the third conjunct: up to the first token, and   *)
(* for all of a JSON request, the failover chain answers or fails in       *)
(* bounded time (module Failover).  The others are assumed of the          *)
(* environment, which nothing in the code bounds: the database and the     *)
(* models answer or fail, and a client takes its frames or disconnects.    *)
(* A vendor in mid-stream owes nothing, nor does a client waiting for it.  *)
Fairness == \A r \in Requests :
  /\ WF_vars(Prepare(r)) /\ WF_vars(Finish(r))
  /\ WF_vars(WithClient(r) /\ (Pull(r) \/ Leave(r)))
  /\ WF_vars(~MidStream(r) /\ (Token(r) \/ EndGeneration(r)))

Spec == Init /\ [][Next]_vars
FairSpec == Spec /\ Fairness

-----------------------------------------------------------------------------

TypeOK ==
  /\ at \in [Requests -> Suspended \union {"new", "closed"}]
  /\ mode \in [Requests -> {"json", "stream"}]
  /\ key \in [Requests -> Keys]
  /\ plan \in [Requests -> {"none", "cached", "refused", "generate"}]
  /\ reserved \in [Requests -> Nat]
  /\ text \in [Requests -> TextKinds \union {"none"}]
  /\ sent \in [Requests -> {"nothing", "json", "status", "citations",
                            "tokens", "final", "done", "error", "errordone"}]
  /\ lookups \in [Requests -> 0..1]
  /\ charged \in [Requests -> Nat \union {None}]
  /\ spend \in [date : {0}, usd : Nat] /\ overrun \in Nat
  /\ cache \subseteq [key : Keys, by : Requests]

(* Money: the tracker shows the open reservations plus what settled        *)
(* requests were charged, to the cent, in every interleaving: no           *)
(* reservation is settled twice, and none is dropped.                      *)
Charged == {r \in Requests : charged[r] # None}
Committed == SumFunctionOnSet(reserved, Requests)
Paid == SumFunctionOnSet(charged, Charged)
LedgerExact == spend.usd = Committed + Paid

(* The daily cap binds the service: what its requests have spent and hold  *)
(* exceeds it by no more than what vendors charged beyond the estimates.   *)
CapBinds == Committed + Paid <= Cap + overrun

(* The protocol the tracker relies on: to it, a request is a call that     *)
(* passes the cap once, holds its estimate, and settles once or, when its  *)
(* client leaves at the citations frame, never (module SpendCap, one day). *)
Progress(r) == IF charged[r] # None THEN "over"
               ELSE IF plan[r] = "generate" THEN "inflight" ELSE "new"
Ledger == INSTANCE SpendCap
  WITH Calls <- Requests, LastDay <- 0, clock <- 0,
       phase <- [r \in Requests |-> Progress(r)], heldOn <- [r \in Requests |-> 0],
       held <- Committed, billed <- Paid, crossed <- 0
LedgerSpec == Ledger!Spec

(* A reservation belongs to a request that is about to generate or         *)
(* generating; the one way to lose it is a client that leaves at the       *)
(* citations frame.                                                        *)
ReservationsOwned == \A r \in Requests :
  reserved[r] > 0 =>
    /\ plan[r] = "generate" /\ charged[r] = None
    /\ \/ at[r] \in Guarded \union {"citations"}
       \/ at[r] = "closed" /\ sent[r] = "citations"

(* Whatever is cached was generated to the end, by a request of that key,  *)
(* is a real answer, and was paid for; no partial stream, refusal,         *)
(* corrupted text or failed generation is ever replayed.                   *)
OnlyPaidAnswersCached == \A row \in cache :
  /\ row.key = key[row.by]
  /\ text[row.by] = "answer"
  /\ charged[row.by] \in Costs
  /\ sent[row.by] \notin {"error", "errordone"}

(* A client told "final" (or answered in JSON) after a generation: its     *)
(* reservation is settled at the vendor's figure and its cache lookup is   *)
(* counted, once; cached and refused answers are counted once and free.    *)
ServedMeansAccounted == \A r \in Requests :
  sent[r] \in {"json", "final", "done"} =>
    /\ lookups[r] = 1
    /\ reserved[r] = 0
    /\ charged[r] \in IF plan[r] = "generate" THEN Costs ELSE {None}

(* What a request has done by the time it is suspended at a place; with    *)
(* the invariants above, the inductive invariant of the proofs.            *)
Untouched(r) ==
  /\ reserved[r] = 0 /\ lookups[r] = 0 /\ charged[r] = None
  /\ plan[r] = "none" /\ text[r] = "none" /\ sent[r] = "nothing"
Replaying(r) ==
  /\ plan[r] \in {"cached", "refused"} /\ text[r] = "none"
  /\ reserved[r] = 0 /\ lookups[r] = 1 /\ charged[r] = None
Generating(r) ==
  /\ plan[r] = "generate" /\ text[r] = "none"
  /\ lookups[r] = 0 /\ charged[r] = None
Generated(r) ==
  /\ plan[r] = "generate" /\ text[r] \in TextKinds
  /\ reserved[r] = 0 /\ lookups[r] = 1 /\ charged[r] \in Costs
AtPlace(r) ==
  /\ at[r] \in {"new", "lookup", "search"} => Untouched(r)
  /\ at[r] = "hydrate" =>
       /\ reserved[r] = 0 /\ lookups[r] = 1 /\ charged[r] = None
       /\ plan[r] = "none" /\ text[r] = "none" /\ sent[r] = "nothing"
  /\ at[r] = "citations" => /\ sent[r] = "citations" /\ mode[r] = "stream"
                            /\ Replaying(r) \/ Generating(r)
  /\ at[r] = "generate" => /\ Generating(r)
                           /\ sent[r] \in IF mode[r] = "json" THEN {"nothing"}
                                          ELSE {"citations", "tokens"}
  /\ at[r] = "token" => Generating(r) /\ sent[r] = "tokens" /\ mode[r] = "stream"
  /\ at[r] \in {"error", "errordone"} => Generating(r) /\ sent[r] = at[r]
  /\ at[r] = "replay" => Replaying(r) /\ sent[r] = "tokens"
  /\ at[r] = "store" => /\ Generated(r)
                        /\ sent[r] \in IF mode[r] = "json" THEN {"nothing"}
                                       ELSE {"citations", "tokens"}
  /\ at[r] \in {"final", "done"} => /\ sent[r] = at[r]
                                    /\ Replaying(r) \/ Generated(r)
Places == \A r \in Requests : AtPlace(r)
IInv ==
  /\ TypeOK /\ Places
  /\ ReservationsOwned /\ OnlyPaidAnswersCached /\ ServedMeansAccounted

(* What /ask promises its clients.                                         *)
Session == INSTANCE AskSession WITH kept <- {row.by : row \in cache}
SessionSpec == Session!Spec

(* Every request ends, except one that comes back for ever to waiting for  *)
(* the next chunk of a stream: a vendor that falls silent after its first  *)
(* token, or never stops talking, is bounded by no deadline.  A failed     *)
(* generation, an untaken frame or a vendor silent from the start do not   *)
(* keep a request open, if the database and the models answer or fail and  *)
(* clients take their frames or disconnect.                                *)
EveryRequestEnds == \A r \in Requests :
  at[r] = "lookup" ~> (at[r] = "closed" \/ []<>MidStream(r))

(* Documented on Prepared.reserved_usd: handed to settle exactly once, in  *)
(* a finally, so that no closed request holds part of the cap.             *)
ReservationReleased == \A r \in Requests : at[r] = "closed" => reserved[r] = 0

=============================================================================
