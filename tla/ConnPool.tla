------------------------------ MODULE ConnPool ------------------------------
(***************************************************************************)
(* The database connections of one process: which statement of which       *)
(* request holds one, and who waits for whom (app/db.py and the database   *)
(* calls of app/service.py, app/retrieval and app/lib/stats.py).           *)
(*                                                                         *)
(* A session takes a connection with its first statement and keeps it      *)
(* until it commits, rolls back or is closed.  A request has one session   *)
(* for its whole life; a hybrid search opens one more for each of its two  *)
(* legs, and closes neither before both have settled.                      *)
(*                                                                         *)
(* The cache is on, as shipped.  "hybrid" stands for every config that     *)
(* searches with two legs ("hybrid+rerank", the default, included) and     *)
(* "probe" for /stats and /health/db, whose statements follow one another  *)
(* on one session.  Ingestion, which runs in the same pool, is left out.   *)
(***************************************************************************)
EXTENDS Integers, FiniteSets

CONSTANTS
  Clients,                      \* concurrent HTTP requests
  PoolSize,                     \* pool_size + max_overflow of the engine
  MaxQueries,                   \* constants.MAX_SEARCH_QUERIES
  Work                          \* what a client may ask for

ASSUME PoolAssumption ==
  /\ IsFiniteSet(Clients)
  /\ PoolSize \in Nat \ {0} /\ MaxQueries \in Nat \ {0}
  /\ Work \subseteq {"hybrid", "dense", "lexical", "probe"}

VARIABLES
  stage,                        \* where each request is suspended
  work,                         \* the retrieval config, or "probe"
  left,                         \* plan.search_queries not yet searched
  session,                      \* each request's sessions: their status
  out                           \* the pool: sessions it has lent to

vars == <<stage, work, left, session, out>>

Legs == {"dense leg", "lexical leg"}
Kinds == {"request"} \union Legs
Statuses == {"closed", "waiting", "running", "open", "broken", "refused"}

(* A session that failed in a statement keeps its connection until it is   *)
(* closed; one that was refused a connection has none.                     *)
Holding == {"running", "open", "broken"}
Pending == {"waiting", "running"}
Failed == {"broken", "refused"}

AllClosed == [k \in Kinds |-> "closed"]

Init ==
  /\ stage = [c \in Clients |-> "idle"]
  /\ work = [c \in Clients |-> "probe"]
  /\ left = [c \in Clients |-> 0]
  /\ session = [c \in Clients |-> AllClosed]
  /\ out = {}

-----------------------------------------------------------------------------
(* The pool.                                                               *)

Full == Cardinality(out) = PoolSize

(* session.execute: the statement runs at once on a connection the session *)
(* still has, and asks the pool for one otherwise.                         *)
Execute(status) == IF status = "open" THEN "running" ELSE "waiting"

Lent(c, kinds) == {<<c, k>> : k \in kinds}

Checkout(c, k) ==
  /\ session[c][k] = "waiting" /\ ~Full
  /\ out' = out \union Lent(c, {k})
  /\ session' = [session EXCEPT ![c][k] = "running"]
  /\ UNCHANGED <<stage, work, left>>

(* The pool gives a waiter up after its timeout; the engine sets none, so  *)
(* the library's default applies.                                          *)
WaitForever(c, k) ==                                \* fault: legs wait on
  /\ session[c][k] = "waiting" /\ Full /\ k = "request"
  /\ session' = [session EXCEPT ![c][k] = "refused"]
  /\ UNCHANGED <<stage, work, left, out>>
CheckoutTimeout(c, k) ==
  /\ session[c][k] = "waiting" /\ Full
  /\ session' = [session EXCEPT ![c][k] = "refused"]
  /\ UNCHANGED <<stage, work, left, out>>

(* session_scope: the request's session, and with it its connection, goes  *)
(* back when the request is over, however it ends.                         *)
End(c) ==
  /\ stage' = [stage EXCEPT ![c] = "idle"]
  /\ left' = [left EXCEPT ![c] = 0]
  /\ session' = [session EXCEPT ![c] = AllClosed]
  /\ out' = out \ Lent(c, Kinds)
  /\ UNCHANGED work

-----------------------------------------------------------------------------
(* A request.                                                              *)

(* Planning and embedding come first and need no connection.               *)
Arrive(c) ==
  /\ stage[c] = "idle"
  /\ \E w \in Work, n \in 1..MaxQueries :
       /\ work' = [work EXCEPT ![c] = w]
       /\ left' = [left EXCEPT ![c] = IF w = "probe" THEN 0 ELSE n]
       /\ stage' = [stage EXCEPT ![c] = IF w = "probe" THEN "probe" ELSE "lookup"]
  /\ session' = [session EXCEPT ![c]["request"] = "waiting"]
  /\ UNCHANGED out

(* A statement of the request's own session fails, or gets no connection.  *)
RequestFails(c) ==
  /\ stage[c] \in {"lookup", "hydrate", "store", "probe"}
  /\ session[c]["request"] \in {"running", "refused"}
  /\ End(c)

ProbeAnswers(c) ==
  /\ stage[c] = "probe" /\ session[c]["request"] = "running"
  /\ End(c)

(* The cache has an equivalent question: its hit counter is updated and    *)
(* committed; then the passages it cites, if any, are read again.          *)
LookupHit(c) ==
  /\ stage[c] = "lookup" /\ session[c]["request"] = "running"
  /\ \E next \in {"hydrate", "replay"} :
       /\ stage' = [stage EXCEPT ![c] = next]
       /\ session' = [session EXCEPT ![c]["request"] =
                        IF next = "hydrate" THEN "waiting" ELSE "closed"]
  /\ out' = out \ Lent(c, {"request"})
  /\ UNCHANGED <<work, left>>

Hydrated(c) ==
  /\ stage[c] = "hydrate" /\ session[c]["request"] = "running"
  /\ stage' = [stage EXCEPT ![c] = "replay"]
  /\ session' = [session EXCEPT ![c]["request"] = "open"]
  /\ UNCHANGED <<work, left, out>>

(* The cached answer or the refusal is sent, or the client leaves.         *)
ReplayEnds(c) == stage[c] = "replay" /\ End(c)

-----------------------------------------------------------------------------
(* Searching, one query after another.                                     *)

Hybrid(c) == work[c] = "hybrid"
Team(c) == IF Hybrid(c) THEN Legs ELSE {"request"}

(* A query without a single word has nothing to match: the lexical search  *)
(* returns without a statement.                                            *)
Starts(c, own) ==
  IF Hybrid(c)
    THEN {[k \in Kinds |-> IF k = "request" THEN own
                           ELSE IF k \in legs THEN "waiting" ELSE "closed"] :
            legs \in {Legs, {"dense leg"}}}
    ELSE {[AllClosed EXCEPT !["request"] = s] :
            s \in {Execute(own)} \union (IF work[c] = "lexical" THEN {own} ELSE {})}

(* lookup rolls back before it reports a miss; then the first query.       *)
LookupMissOpen(c) ==                                \* fault: no rollback
  /\ stage[c] = "lookup" /\ session[c]["request"] = "running"
  /\ stage' = [stage EXCEPT ![c] = "search"]
  /\ \E s \in Starts(c, "open") : session' = [session EXCEPT ![c] = s]
  /\ UNCHANGED <<work, left, out>>
LookupMiss(c) ==
  /\ stage[c] = "lookup" /\ session[c]["request"] = "running"
  /\ stage' = [stage EXCEPT ![c] = "search"]
  /\ \E s \in Starts(c, "closed") : session' = [session EXCEPT ![c] = s]
  /\ out' = out \ Lent(c, {"request"})
  /\ UNCHANGED <<work, left>>

StatementEnds(c, k) ==
  /\ stage[c] = "search" /\ k \in Team(c) /\ session[c][k] = "running"
  /\ \E s \in {"open", "broken"} : session' = [session EXCEPT ![c][k] = s]
  /\ UNCHANGED <<stage, work, left, out>>

Settled(c) == \A k \in Team(c) : session[c][k] \notin Pending
Succeeded(c) == \A k \in Team(c) : session[c][k] \notin Failed

(* The query's hits are in and the legs are closed; the next query begins. *)
NextQuery(c) ==
  /\ stage[c] = "search" /\ Settled(c) /\ Succeeded(c) /\ left[c] > 1
  /\ left' = [left EXCEPT ![c] = @ - 1]
  /\ \E s \in Starts(c, session[c]["request"]) : session' = [session EXCEPT ![c] = s]
  /\ out' = out \ Lent(c, Legs)
  /\ UNCHANGED <<stage, work>>

(* After the last one: fusion, rerank, budget and reservation, none of     *)
(* which needs the database; then the provider is called, or the refusal   *)
(* is replayed.                                                            *)
SearchEnds(c) ==
  /\ stage[c] = "search" /\ Settled(c) /\ Succeeded(c) /\ left[c] = 1
  /\ \E next \in {"generate", "replay"} : stage' = [stage EXCEPT ![c] = next]
  /\ left' = [left EXCEPT ![c] = 0]
  /\ session' = [session EXCEPT ![c] =
                   [AllClosed EXCEPT !["request"] = session[c]["request"]]]
  /\ out' = out \ Lent(c, Legs)
  /\ UNCHANGED work

(* gather waits for both legs, and the first failure is raised after that; *)
(* the request also ends here when the spend cap turns it away.            *)
RaiseAtOnce(c) ==                                   \* fault: a bare gather
  /\ stage[c] = "search" /\ ~Succeeded(c)
  /\ stage' = [stage EXCEPT ![c] = "idle"]
  /\ left' = [left EXCEPT ![c] = 0]
  /\ session' = [session EXCEPT ![c] =
       [k \in Kinds |-> IF @[k] \in Pending THEN @[k] ELSE "closed"]]
  /\ out' = out \ Lent(c, Kinds)
  /\ UNCHANGED work
SearchRaises(c) ==
  /\ stage[c] = "search" /\ Settled(c)
  /\ ~Succeeded(c) \/ left[c] = 1
  /\ End(c)

-----------------------------------------------------------------------------
(* Generation and what follows.                                            *)

(* The answer is complete and worth keeping: it is stored.                 *)
Store(c) ==
  /\ stage[c] = "generate"
  /\ stage' = [stage EXCEPT ![c] = "store"]
  /\ session' = [session EXCEPT ![c]["request"] = Execute(@)]
  /\ UNCHANGED <<work, left, out>>

(* It failed, is not to be kept, or the client left.                       *)
NothingToStore(c) == stage[c] = "generate" /\ End(c)

(* store commits; what is left to send needs no connection.                *)
Stored(c) ==
  /\ stage[c] = "store" /\ session[c]["request"] = "running"
  /\ End(c)

-----------------------------------------------------------------------------
Wait(c, k) == Checkout(c, k) \/ CheckoutTimeout(c, k)

(* What the event loop, the database, the provider and the clients do for  *)
(* a request once it has arrived.                                          *)
Serve(c) ==
  \/ RequestFails(c) \/ ProbeAnswers(c)
  \/ LookupHit(c) \/ Hydrated(c) \/ ReplayEnds(c)
  \/ LookupMiss(c) \/ NextQuery(c) \/ SearchEnds(c) \/ SearchRaises(c)
  \/ Store(c) \/ NothingToStore(c) \/ Stored(c)

Next == \E c \in Clients :
  \/ Arrive(c)
  \/ Serve(c)
  \/ \E k \in Kinds : Wait(c, k) \/ StatementEnds(c, k)

(* A waiter is served or times out: the engine sees to that.  Assumed of   *)
(* the environment: a statement ends, and so does what the request is      *)
(* suspended on, a vendor included.  Nothing makes a request arrive.       *)
Fairness == \A c \in Clients :
  /\ WF_vars(Serve(c))
  /\ \A k \in Kinds : WF_vars(Wait(c, k)) /\ WF_vars(StatementEnds(c, k))

Spec == Init /\ [][Next]_vars /\ Fairness

-----------------------------------------------------------------------------
(* Properties.                                                             *)

TypeOK ==
  /\ stage \in [Clients -> {"idle", "probe", "lookup", "hydrate", "replay",
                            "search", "generate", "store"}]
  /\ work \in [Clients -> {"hybrid", "dense", "lexical", "probe"}]
  /\ left \in [Clients -> 0..MaxQueries]
  /\ session \in [Clients -> [Kinds -> Statuses]]
  /\ out \subseteq Clients \X Kinds

(* The pool lends to exactly the sessions that use a connection, to no     *)
(* more than it has: every way out of a request returns what it holds, and *)
(* no session is closed under a statement that is still running            *)
(* (hybrid_search, session_scope).                                         *)
PoolExact ==
  /\ \A c \in Clients, k \in Kinds :
       (<<c, k>> \in out) <=> (session[c][k] \in Holding)
  /\ Cardinality(out) <= PoolSize
  /\ \A c \in Clients : stage[c] = "idle" => session[c] = AllClosed

(* While the provider answers a question that was searched for with two    *)
(* legs, its request holds no connection and waits for none: the rollback  *)
(* of a miss returned its own, the legs theirs.  The docstring of          *)
(* RagService.stream says the contrary of its session ("The connection is  *)
(* checked out until the last frame", service.py:356): that is so of the   *)
(* session, not of the connection.                                         *)
GenerationHoldsNothing == \A c \in Clients :
  stage[c] = "generate" /\ Hybrid(c) => session[c] = AllClosed

(* Requests can wait for each other in a ring: each has a connection for   *)
(* one leg and waits for the other's.  That takes as many searches at once *)
(* as the pool has connections; fewer always leave one that can go on.     *)
Blocked == {c \in Clients : \E k \in Kinds : session[c][k] = "waiting"}
Stalled == Full /\ \A h \in out : h[1] \in Blocked
StallNeedsFullPool == Stalled => Cardinality(Blocked) >= PoolSize

(* Legs live inside a search, and a request that searches with legs keeps  *)
(* its own session closed meanwhile; whoever calls the provider has no     *)
(* statement in progress.                                                  *)
InPlace == \A c \in Clients :
  /\ stage[c] # "search" \/ ~Hybrid(c) => \A k \in Legs : session[c][k] = "closed"
  /\ stage[c] = "search" /\ Hybrid(c) => session[c]["request"] = "closed"
  /\ stage[c] = "generate" => session[c]["request"] \in {"closed", "open"}

IInv == TypeOK /\ PoolExact /\ GenerationHoldsNothing /\ InPlace

(* Every request ends, a ring included: the pool's timeout breaks it.      *)
EveryRequestEnds == \A c \in Clients : stage[c] # "idle" ~> stage[c] = "idle"

=============================================================================
