--------------------------- MODULE ConnPoolProofs ---------------------------
(***************************************************************************)
(* Proofs about ConnPool: for every number of requests, queries and        *)
(* connections, the pool and the sessions agree on who holds what, a       *)
(* hybrid request holds nothing while the provider answers, and a ring of  *)
(* waiting searches is at least as long as the pool is large.              *)
(***************************************************************************)
EXTENDS ConnPool, FiniteSetTheorems, TLAPS

(* What the pool has lent is a finite set, and giving back never lends.    *)
LEMMA OutFinite ==
  ASSUME out \subseteq Clients \X Kinds
  PROVE  IsFiniteSet(out) /\ Cardinality(out) \in Nat
<1>1. IsFiniteSet(Kinds)
  <2>1. IsFiniteSet({} \union {"request"})
    BY FS_EmptySet, FS_AddElement
  <2>2. IsFiniteSet(({} \union {"request"}) \union {"dense leg"})
    BY <2>1, FS_AddElement
  <2>3. IsFiniteSet((({} \union {"request"}) \union {"dense leg"}) \union {"lexical leg"})
    BY <2>2, FS_AddElement
  <2>4. Kinds = (({} \union {"request"}) \union {"dense leg"}) \union {"lexical leg"}
    BY DEF Kinds, Legs
  <2>5. QED
    BY <2>3, <2>4
<1>2. IsFiniteSet(Clients \X Kinds)
  BY <1>1, FS_Product, PoolAssumption
<1>3. QED
  BY <1>2, FS_Subset, FS_CardinalityType

LEMMA ReturningShrinks ==
  ASSUME out \subseteq Clients \X Kinds, Cardinality(out) <= PoolSize,
         NEW some, out' = out \ some
  PROVE  out' \subseteq Clients \X Kinds /\ Cardinality(out') <= PoolSize
<1>1. IsFiniteSet(out) /\ Cardinality(out) \in Nat
  BY OutFinite
<1>2. out' \in SUBSET out
  OBVIOUS
<1>3. Cardinality(out') \in Nat /\ Cardinality(out') <= Cardinality(out)
  BY <1>1, <1>2, FS_Subset, FS_CardinalityType
<1>4. QED
  BY <1>1, <1>2, <1>3, PoolAssumption

(* A pool that is not full can lend once more.                             *)
LEMMA LendingFits ==
  ASSUME out \subseteq Clients \X Kinds, Cardinality(out) <= PoolSize, ~Full,
         NEW h \in Clients \X Kinds, out' = out \union {h}
  PROVE  out' \subseteq Clients \X Kinds /\ Cardinality(out') <= PoolSize
<1>1. IsFiniteSet(out) /\ Cardinality(out) \in Nat
  BY OutFinite
<1>2. Cardinality(out') = IF h \in out THEN Cardinality(out) ELSE Cardinality(out) + 1
  BY <1>1, FS_AddElement
<1>3. QED
  BY <1>1, <1>2, PoolAssumption DEF Full

LEMMA InitEstablishes == Init => IInv
<1> SUFFICES ASSUME Init PROVE IInv
  OBVIOUS
<1>1. AllClosed \in [Kinds -> Statuses]
  BY DEF AllClosed, Kinds, Statuses
<1>2. TypeOK
  BY <1>1, PoolAssumption DEF Init, TypeOK
<1>3. PoolExact
  BY FS_EmptySet, PoolAssumption DEF Init, PoolExact, AllClosed, Holding
<1>4. GenerationHoldsNothing /\ InPlace
  BY DEF Init, GenerationHoldsNothing, InPlace, AllClosed, Kinds, Legs
<1>5. QED
  BY <1>2, <1>3, <1>4 DEF IInv

(* The other requests are not touched: their part of the invariant holds   *)
(* on, and only the request that moved has to be looked at.                *)
LEMMA OthersStay ==
  ASSUME IInv, NEW c \in Clients,
         \A d \in Clients : d # c =>
           stage'[d] = stage[d] /\ session'[d] = session[d] /\ work'[d] = work[d],
         stage'[c] = "generate" /\ work'[c] = "hybrid" => session'[c] = AllClosed,
         stage'[c] # "search" \/ work'[c] # "hybrid" =>
           \A k \in Legs : session'[c][k] = "closed",
         stage'[c] = "search" /\ work'[c] = "hybrid" => session'[c]["request"] = "closed",
         stage'[c] = "generate" => session'[c]["request"] \in {"closed", "open"}
  PROVE  GenerationHoldsNothing' /\ InPlace'
<1>1. GenerationHoldsNothing'
  BY DEF IInv, GenerationHoldsNothing, Hybrid
<1>2. InPlace'
  BY DEF IInv, InPlace, Hybrid
<1>3. QED
  BY <1>1, <1>2

-----------------------------------------------------------------------------
(* Steps of the pool.                                                      *)

LEMMA CheckoutPreserves ==
  ASSUME IInv, NEW c \in Clients, NEW k \in Kinds, Checkout(c, k)
  PROVE  IInv'
<1>1. out' = out \union {<<c, k>>} /\ <<c, k>> \in Clients \X Kinds
  BY DEF Checkout, Lent
<1>2. out' \subseteq Clients \X Kinds /\ Cardinality(out') <= PoolSize
  BY <1>1, LendingFits DEF IInv, TypeOK, PoolExact, Checkout
<1>3. /\ session' = [session EXCEPT ![c][k] = "running"]
      /\ session \in [Clients -> [Kinds -> Statuses]] /\ session[c][k] = "waiting"
      /\ stage' = stage /\ work' = work /\ left' = left
  BY DEF IInv, TypeOK, Checkout
<1>4. TypeOK'
  BY <1>2, <1>3 DEF IInv, TypeOK, Statuses
<1>5. PoolExact'
  BY <1>1, <1>2, <1>3 DEF IInv, PoolExact, Holding, AllClosed
<1>6. GenerationHoldsNothing'
  BY <1>3 DEF IInv, GenerationHoldsNothing, Hybrid, AllClosed
<1>7. InPlace'
  BY <1>3 DEF IInv, InPlace, Hybrid, Kinds, Legs
<1>8. QED
  BY <1>4, <1>5, <1>6, <1>7 DEF IInv

(* A session changes its status without a connection changing hands.       *)
LEMMA StatusPreserves ==
  ASSUME IInv, NEW c \in Clients, NEW k \in Kinds, NEW s \in {"open", "broken", "refused"},
         session' = [session EXCEPT ![c][k] = s],
         s \in Holding <=> session[c][k] \in Holding,
         session[c][k] \in Pending,
         UNCHANGED <<stage, work, left, out>>
  PROVE  IInv'
<1>1. session \in [Clients -> [Kinds -> Statuses]]
  BY DEF IInv, TypeOK
<1>2. TypeOK'
  BY <1>1 DEF IInv, TypeOK, Statuses
<1>3. PoolExact'
  BY <1>1 DEF IInv, PoolExact, AllClosed, Pending
<1>4. GenerationHoldsNothing'
  BY <1>1 DEF IInv, GenerationHoldsNothing, Hybrid, AllClosed, Pending
<1>5. InPlace'
  BY <1>1 DEF IInv, InPlace, Hybrid, Kinds, Legs, Pending
<1>6. QED
  BY <1>2, <1>3, <1>4, <1>5 DEF IInv

LEMMA WaitPreserves ==
  ASSUME IInv, NEW c \in Clients, NEW k \in Kinds, Wait(c, k)
  PROVE  IInv'
<1>1. CASE Checkout(c, k)
  BY <1>1, CheckoutPreserves
<1>2. CASE CheckoutTimeout(c, k)
  BY <1>2, StatusPreserves DEF CheckoutTimeout, Holding, Pending
<1>3. QED
  BY <1>1, <1>2 DEF Wait

LEMMA StatementEndsPreserves ==
  ASSUME IInv, NEW c \in Clients, NEW k \in Kinds, StatementEnds(c, k)
  PROVE  IInv'
  BY StatusPreserves DEF StatementEnds, Holding, Pending

(* Every way out of a request.                                             *)
LEMMA EndPreserves ==
  ASSUME IInv, NEW c \in Clients, End(c)
  PROVE  IInv'
<1>1. /\ out' = out \ Lent(c, Kinds) /\ session' = [session EXCEPT ![c] = AllClosed]
      /\ stage' = [stage EXCEPT ![c] = "idle"] /\ work' = work
      /\ left' = [left EXCEPT ![c] = 0]
  BY DEF End
<1>2. out' \subseteq Clients \X Kinds /\ Cardinality(out') <= PoolSize
  BY <1>1, ReturningShrinks DEF IInv, TypeOK, PoolExact
<1>3. AllClosed \in [Kinds -> Statuses] /\ \A k \in Kinds : AllClosed[k] = "closed"
  BY DEF AllClosed, Statuses
<1>4. TypeOK'
  BY <1>1, <1>2, <1>3, PoolAssumption DEF IInv, TypeOK
<1>5. PoolExact'
  BY <1>1, <1>2, <1>3 DEF IInv, TypeOK, PoolExact, Lent, Holding
<1>6. GenerationHoldsNothing' /\ InPlace'
  <2>1. \A d \in Clients : d # c =>
          stage'[d] = stage[d] /\ session'[d] = session[d] /\ work'[d] = work[d]
    BY <1>1 DEF IInv, TypeOK
  <2>2. session'[c] = AllClosed /\ stage'[c] = "idle"
    BY <1>1 DEF IInv, TypeOK
  <2>3. \A k \in Legs : session'[c][k] = "closed"
    BY <1>3, <2>2 DEF Kinds
  <2>4. QED
    BY <2>1, <2>2, <2>3, OthersStay
<1>7. QED
  BY <1>4, <1>5, <1>6 DEF IInv

LEMMA ArrivePreserves ==
  ASSUME IInv, NEW c \in Clients, Arrive(c)
  PROVE  IInv'
<1>1. PICK w \in Work, n \in 1..MaxQueries :
        /\ work' = [work EXCEPT ![c] = w]
        /\ left' = [left EXCEPT ![c] = IF w = "probe" THEN 0 ELSE n]
        /\ stage' = [stage EXCEPT ![c] = IF w = "probe" THEN "probe" ELSE "lookup"]
  BY DEF Arrive
<1>2. /\ session' = [session EXCEPT ![c]["request"] = "waiting"] /\ out' = out
      /\ session[c] = AllClosed /\ session \in [Clients -> [Kinds -> Statuses]]
      /\ "request" \in Kinds
  BY DEF Arrive, IInv, TypeOK, PoolExact, Kinds
<1>3. TypeOK'
  BY <1>1, <1>2, PoolAssumption DEF IInv, TypeOK, Statuses
<1>4. PoolExact'
  BY <1>1, <1>2 DEF IInv, TypeOK, PoolExact, AllClosed, Holding
<1>5. GenerationHoldsNothing' /\ InPlace'
  <2>1. \A d \in Clients : d # c =>
          stage'[d] = stage[d] /\ session'[d] = session[d] /\ work'[d] = work[d]
    BY <1>1, <1>2 DEF IInv, TypeOK
  <2>2. stage'[c] \in {"probe", "lookup"}
    BY <1>1 DEF IInv, TypeOK
  <2>3. \A k \in Legs : session'[c][k] = "closed"
    BY <1>2 DEF AllClosed, Kinds, Legs
  <2>4. QED
    BY <2>1, <2>2, <2>3, OthersStay
<1>6. QED
  BY <1>3, <1>4, <1>5 DEF IInv

-----------------------------------------------------------------------------
(* Steps of a request that goes on.                                        *)

LEMMA LookupHitPreserves ==
  ASSUME IInv, NEW c \in Clients, LookupHit(c)
  PROVE  IInv'
<1>1. PICK next \in {"hydrate", "replay"} :
        /\ stage' = [stage EXCEPT ![c] = next]
        /\ session' = [session EXCEPT ![c]["request"] =
                         IF next = "hydrate" THEN "waiting" ELSE "closed"]
  BY DEF LookupHit
<1>2. /\ out' = out \ {<<c, "request">>} /\ stage[c] = "lookup"
      /\ work' = work /\ left' = left
  BY DEF LookupHit, Lent
<1>3. out' \subseteq Clients \X Kinds /\ Cardinality(out') <= PoolSize
  BY <1>2, ReturningShrinks DEF IInv, TypeOK, PoolExact
<1>4. session \in [Clients -> [Kinds -> Statuses]] /\ "request" \in Kinds
  BY DEF IInv, TypeOK, Kinds
<1>5. TypeOK'
  BY <1>1, <1>2, <1>3, <1>4 DEF IInv, TypeOK, Statuses
<1>6. PoolExact'
  BY <1>1, <1>2, <1>3, <1>4 DEF IInv, TypeOK, PoolExact, Holding
<1>7. GenerationHoldsNothing' /\ InPlace'
  <2>1. \A d \in Clients : d # c =>
          stage'[d] = stage[d] /\ session'[d] = session[d] /\ work'[d] = work[d]
    BY <1>1, <1>2, <1>4 DEF IInv, TypeOK
  <2>2. stage'[c] \in {"hydrate", "replay"}
    BY <1>1 DEF IInv, TypeOK
  <2>3. \A k \in Legs : session'[c][k] = "closed"
    BY <1>1, <1>2, <1>4 DEF IInv, InPlace, Kinds, Legs
  <2>4. QED
    BY <2>1, <2>2, <2>3, OthersStay
<1>8. QED
  BY <1>5, <1>6, <1>7 DEF IInv

LEMMA HydratedPreserves ==
  ASSUME IInv, NEW c \in Clients, Hydrated(c)
  PROVE  IInv'
<1>1. /\ session' = [session EXCEPT ![c]["request"] = "open"]
      /\ stage' = [stage EXCEPT ![c] = "replay"]
      /\ session[c]["request"] = "running" /\ stage[c] = "hydrate"
      /\ work' = work /\ left' = left /\ out' = out
  BY DEF Hydrated
<1>2. session \in [Clients -> [Kinds -> Statuses]] /\ "request" \in Kinds
  BY DEF IInv, TypeOK, Kinds
<1>3. TypeOK'
  BY <1>1, <1>2 DEF IInv, TypeOK, Statuses
<1>4. PoolExact'
  BY <1>1, <1>2 DEF IInv, TypeOK, PoolExact, Holding
<1>5. GenerationHoldsNothing' /\ InPlace'
  <2>1. \A d \in Clients : d # c =>
          stage'[d] = stage[d] /\ session'[d] = session[d] /\ work'[d] = work[d]
    BY <1>1, <1>2 DEF IInv, TypeOK
  <2>2. stage'[c] = "replay"
    BY <1>1 DEF IInv, TypeOK
  <2>3. \A k \in Legs : session'[c][k] = "closed"
    BY <1>1, <1>2 DEF IInv, InPlace, Kinds, Legs
  <2>4. QED
    BY <2>1, <2>2, <2>3, OthersStay
<1>6. QED
  BY <1>3, <1>4, <1>5 DEF IInv

LEMMA StorePreserves ==
  ASSUME IInv, NEW c \in Clients, Store(c)
  PROVE  IInv'
<1>1. /\ session' = [session EXCEPT ![c]["request"] = Execute(session[c]["request"])]
      /\ stage' = [stage EXCEPT ![c] = "store"] /\ stage[c] = "generate"
      /\ work' = work /\ left' = left /\ out' = out
  BY DEF Store
<1>2. /\ session \in [Clients -> [Kinds -> Statuses]] /\ "request" \in Kinds
      /\ session[c]["request"] \in {"closed", "open"}
  BY <1>1 DEF IInv, TypeOK, InPlace, Kinds
<1>3. TypeOK'
  BY <1>1, <1>2 DEF IInv, TypeOK, Statuses, Execute
<1>4. PoolExact'
  BY <1>1, <1>2 DEF IInv, TypeOK, PoolExact, Holding, Execute
<1>5. GenerationHoldsNothing' /\ InPlace'
  <2>1. \A d \in Clients : d # c =>
          stage'[d] = stage[d] /\ session'[d] = session[d] /\ work'[d] = work[d]
    BY <1>1, <1>2 DEF IInv, TypeOK
  <2>2. stage'[c] = "store"
    BY <1>1 DEF IInv, TypeOK
  <2>3. \A k \in Legs : session'[c][k] = "closed"
    BY <1>1, <1>2 DEF IInv, InPlace, Kinds, Legs
  <2>4. QED
    BY <2>1, <2>2, <2>3, OthersStay
<1>6. QED
  BY <1>3, <1>4, <1>5 DEF IInv

-----------------------------------------------------------------------------
(* Steps of a search.                                                      *)

(* How the sessions stand when a query begins: no leg has a connection     *)
(* yet, and the request's own session has one exactly when it had one.     *)
LEMMA StartsFacts ==
  ASSUME NEW c \in Clients, NEW own \in {"closed", "open"}, NEW s \in Starts(c, own)
  PROVE  /\ s \in [Kinds -> Statuses]
         /\ \A k \in Legs : s[k] \notin Holding
         /\ s["request"] \in Holding <=> own = "open"
         /\ Hybrid(c) => s["request"] = own
         /\ ~Hybrid(c) => \A k \in Legs : s[k] = "closed"
<1>1. CASE Hybrid(c)
  <2>1. PICK legs \in {Legs, {"dense leg"}} :
          s = [k \in Kinds |-> IF k = "request" THEN own
                               ELSE IF k \in legs THEN "waiting" ELSE "closed"]
    BY <1>1 DEF Starts
  <2>2. QED
    BY <1>1, <2>1 DEF Kinds, Legs, Statuses, Holding
<1>2. CASE ~Hybrid(c)
  <2>1. PICK t \in {Execute(own), own} : s = [AllClosed EXCEPT !["request"] = t]
    BY <1>2 DEF Starts
  <2>2. t \in Statuses /\ (t \in Holding <=> own = "open")
    BY <2>1 DEF Execute, Statuses, Holding
  <2>3. s = [k \in Kinds |-> IF k = "request" THEN t ELSE "closed"]
    BY <2>1 DEF AllClosed
  <2>4. QED
    BY <1>2, <2>2, <2>3 DEF Kinds, Legs, Statuses, Holding
<1>3. QED
  BY <1>1, <1>2

(* A step that hands connections back and sets the sessions of one request *)
(* preserves the pool's account if those sessions agree with what is left. *)
LEMMA ReturningExact ==
  ASSUME IInv, NEW c \in Clients, NEW kinds, NEW s \in [Kinds -> Statuses],
         \A d \in Clients : stage'[d] = "idle" => stage[d] = "idle" /\ d # c,
         session' = [session EXCEPT ![c] = s], out' = out \ Lent(c, kinds),
         \A k \in Kinds : s[k] \in Holding <=> session[c][k] \in Holding /\ k \notin kinds
  PROVE  PoolExact' /\ out' \subseteq Clients \X Kinds
<1>1. out' \subseteq Clients \X Kinds /\ Cardinality(out') <= PoolSize
  BY ReturningShrinks DEF IInv, TypeOK, PoolExact
<1>2. session \in [Clients -> [Kinds -> Statuses]]
  BY DEF IInv, TypeOK
<1>3. \A d \in Clients, k \in Kinds :
        (<<d, k>> \in out') <=> (session'[d][k] \in Holding)
  <2> SUFFICES ASSUME NEW d \in Clients, NEW k \in Kinds
               PROVE  (<<d, k>> \in out') <=> (session'[d][k] \in Holding)
    OBVIOUS
  <2>1. (<<d, k>> \in out) <=> (session[d][k] \in Holding)
    BY DEF IInv, PoolExact
  <2>2. <<d, k>> \in Lent(c, kinds) <=> d = c /\ k \in kinds
    BY DEF Lent
  <2>3. QED
    BY <1>2, <2>1, <2>2
<1>4. \A d \in Clients : stage'[d] = "idle" => session'[d] = AllClosed
  BY <1>2 DEF IInv, PoolExact
<1>5. QED
  BY <1>1, <1>3, <1>4 DEF PoolExact

LEMMA LookupMissPreserves ==
  ASSUME IInv, NEW c \in Clients, LookupMiss(c)
  PROVE  IInv'
<1>1. PICK s \in Starts(c, "closed") : session' = [session EXCEPT ![c] = s]
  BY DEF LookupMiss
<1>2. /\ stage' = [stage EXCEPT ![c] = "search"] /\ stage[c] = "lookup"
      /\ out' = out \ Lent(c, {"request"}) /\ work' = work /\ left' = left
  BY DEF LookupMiss
<1>3. /\ s \in [Kinds -> Statuses] /\ \A k \in Kinds : s[k] \notin Holding
      /\ Hybrid(c) => s["request"] = "closed"
      /\ ~Hybrid(c) => \A k \in Legs : s[k] = "closed"
  BY <1>1, StartsFacts DEF Kinds
<1>4. stage \in [Clients -> {"idle", "probe", "lookup", "hydrate", "replay",
                             "search", "generate", "store"}]
  BY DEF IInv, TypeOK
<1>5. \A k \in Kinds : s[k] \in Holding <=> session[c][k] \in Holding /\ k \notin {"request"}
  BY <1>2, <1>3 DEF IInv, InPlace, Kinds, Holding
<1>6. \A d \in Clients : stage'[d] = "idle" => stage[d] = "idle" /\ d # c
  BY <1>2, <1>4
<1>7. PoolExact' /\ out' \subseteq Clients \X Kinds
  BY <1>1, <1>2, <1>3, <1>5, <1>6, ReturningExact
<1>8. TypeOK'
  BY <1>1, <1>2, <1>3, <1>7 DEF IInv, TypeOK
<1>9. GenerationHoldsNothing' /\ InPlace'
  BY <1>1, <1>2, <1>3 DEF IInv, TypeOK, GenerationHoldsNothing, InPlace, Hybrid
<1>10. QED
  BY <1>7, <1>8, <1>9 DEF IInv

(* A search whose statements all succeeded holds its connections idle.     *)
LEMMA Quiet ==
  ASSUME IInv, NEW c \in Clients, stage[c] = "search", Settled(c), Succeeded(c)
  PROVE  session[c]["request"] \in {"closed", "open"}
<1>1. session[c]["request"] \in Statuses
  BY DEF IInv, TypeOK, Kinds
<1>2. CASE Hybrid(c)
  BY <1>2 DEF IInv, InPlace
<1>3. CASE ~Hybrid(c)
  BY <1>1, <1>3 DEF Settled, Succeeded, Team, Pending, Failed, Statuses
<1>4. QED
  BY <1>2, <1>3

LEMMA NextQueryPreserves ==
  ASSUME IInv, NEW c \in Clients, NextQuery(c)
  PROVE  IInv'
<1> DEFINE own == session[c]["request"]
<1>1. PICK s \in Starts(c, own) : session' = [session EXCEPT ![c] = s]
  BY DEF NextQuery
<1>2. /\ left' = [left EXCEPT ![c] = left[c] - 1] /\ stage[c] = "search" /\ left[c] > 1
      /\ out' = out \ Lent(c, Legs) /\ work' = work /\ stage' = stage
  BY DEF NextQuery
<1>3. own \in {"closed", "open"}
  BY Quiet DEF NextQuery
<1>4. /\ s \in [Kinds -> Statuses] /\ \A k \in Legs : s[k] \notin Holding
      /\ s["request"] \in Holding <=> own = "open"
      /\ Hybrid(c) => s["request"] = own
      /\ ~Hybrid(c) => \A k \in Legs : s[k] = "closed"
  BY <1>1, <1>3, StartsFacts
<1>5. stage \in [Clients -> {"idle", "probe", "lookup", "hydrate", "replay",
                             "search", "generate", "store"}]
  BY DEF IInv, TypeOK
<1>6. \A k \in Kinds : s[k] \in Holding <=> session[c][k] \in Holding /\ k \notin Legs
  BY <1>3, <1>4 DEF Kinds, Legs, Holding
<1>7. PoolExact' /\ out' \subseteq Clients \X Kinds
  BY <1>1, <1>2, <1>4, <1>5, <1>6, ReturningExact
<1>8. TypeOK'
  BY <1>1, <1>2, <1>4, <1>7, PoolAssumption DEF IInv, TypeOK
<1>9. GenerationHoldsNothing' /\ InPlace'
  BY <1>1, <1>2, <1>4 DEF IInv, TypeOK, GenerationHoldsNothing, InPlace, Hybrid
<1>10. QED
  BY <1>7, <1>8, <1>9 DEF IInv

LEMMA SearchEndsPreserves ==
  ASSUME IInv, NEW c \in Clients, SearchEnds(c)
  PROVE  IInv'
<1> DEFINE own == session[c]["request"]
           s == [AllClosed EXCEPT !["request"] = own]
<1>1. /\ session' = [session EXCEPT ![c] = s]
      /\ left' = [left EXCEPT ![c] = 0] /\ stage[c] = "search"
      /\ \E next \in {"generate", "replay"} : stage' = [stage EXCEPT ![c] = next]
      /\ out' = out \ Lent(c, Legs) /\ work' = work
  BY DEF SearchEnds
<1>2. own \in {"closed", "open"}
  BY Quiet DEF SearchEnds
<1>3. s = [k \in Kinds |-> IF k = "request" THEN own ELSE "closed"]
  BY DEF AllClosed
<1>4. s \in [Kinds -> Statuses]
  BY <1>2, <1>3 DEF Statuses
<1>5. stage \in [Clients -> {"idle", "probe", "lookup", "hydrate", "replay",
                             "search", "generate", "store"}]
  BY DEF IInv, TypeOK
<1>6. \A k \in Kinds : s[k] \in Holding <=> session[c][k] \in Holding /\ k \notin Legs
  BY <1>3 DEF Kinds, Legs, Holding
<1> HIDE DEF s
<1>7. PoolExact' /\ out' \subseteq Clients \X Kinds
  BY <1>1, <1>4, <1>5, <1>6, ReturningExact
<1>8. TypeOK'
  BY <1>1, <1>4, <1>7, PoolAssumption DEF IInv, TypeOK
<1>9. Hybrid(c) => s = AllClosed
  BY <1>1, <1>3 DEF IInv, InPlace, AllClosed
<1>10. GenerationHoldsNothing' /\ InPlace'
  <2>1. \A d \in Clients : d # c =>
          stage'[d] = stage[d] /\ session'[d] = session[d] /\ work'[d] = work[d]
    BY <1>1 DEF IInv, TypeOK
  <2>2. session'[c] = s /\ stage'[c] \in {"generate", "replay"} /\ work'[c] = work[c]
    BY <1>1 DEF IInv, TypeOK
  <2>3. (\A k \in Legs : s[k] = "closed") /\ s["request"] = own
    BY <1>3 DEF Kinds, Legs
  <2>4. QED
    BY <1>2, <1>9, <2>1, <2>2, <2>3, OthersStay DEF Hybrid
<1>11. QED
  BY <1>7, <1>8, <1>10 DEF IInv

-----------------------------------------------------------------------------
LEMMA ServePreserves ==
  ASSUME IInv, NEW c \in Clients, Serve(c)
  PROVE  IInv'
<1>1. CASE RequestFails(c) \/ ProbeAnswers(c) \/ ReplayEnds(c) \/ SearchRaises(c)
           \/ NothingToStore(c) \/ Stored(c)
  BY <1>1, EndPreserves
  DEF RequestFails, ProbeAnswers, ReplayEnds, SearchRaises, NothingToStore, Stored
<1>2. CASE LookupHit(c) \/ Hydrated(c) \/ Store(c)
  BY <1>2, LookupHitPreserves, HydratedPreserves, StorePreserves
<1>3. CASE LookupMiss(c) \/ NextQuery(c) \/ SearchEnds(c)
  BY <1>3, LookupMissPreserves, NextQueryPreserves, SearchEndsPreserves
<1>4. QED
  BY <1>1, <1>2, <1>3 DEF Serve

LEMMA StepPreserves == IInv /\ [Next]_vars => IInv'
<1> SUFFICES ASSUME IInv, [Next]_vars PROVE IInv'
  OBVIOUS
<1>1. CASE \E c \in Clients : Arrive(c)
  BY <1>1, ArrivePreserves
<1>2. CASE \E c \in Clients : Serve(c)
  BY <1>2, ServePreserves
<1>3. CASE \E c \in Clients, k \in Kinds : Wait(c, k) \/ StatementEnds(c, k)
  BY <1>3, WaitPreserves, StatementEndsPreserves
<1>4. CASE UNCHANGED vars
  BY <1>4 DEF vars, IInv, TypeOK, PoolExact, GenerationHoldsNothing, InPlace, Hybrid
<1>5. QED
  BY <1>1, <1>2, <1>3, <1>4 DEF Next

THEOREM InvariantHolds == Spec => []IInv
  BY InitEstablishes, StepPreserves, PTL DEF Spec

(* Every variable keeps to its type, whatever the order of the requests.   *)
THEOREM TypeCorrect == Spec => []TypeOK
<1>1. IInv => TypeOK
  BY DEF IInv
<1>2. QED
  BY <1>1, InvariantHolds, PTL

(* The pool has lent exactly the connections that sessions use, and never  *)
(* more than it has (app/db.py, hybrid_search).                            *)
THEOREM PoolIsExact == Spec => []PoolExact
<1>1. IInv => PoolExact
  BY DEF IInv
<1>2. QED
  BY <1>1, InvariantHolds, PTL

(* A hybrid request holds no connection while the provider answers         *)
(* (lookup, hybrid_search).                                                *)
THEOREM NothingHeldWhileGenerating == Spec => []GenerationHoldsNothing
<1>1. IInv => GenerationHoldsNothing
  BY DEF IInv
<1>2. QED
  BY <1>1, InvariantHolds, PTL

-----------------------------------------------------------------------------
(* A request that waits for a connection has at most one.                  *)
LEMMA WaiterHoldsOne ==
  ASSUME IInv, NEW c \in Blocked, NEW j \in Kinds, NEW k \in Kinds,
         <<c, j>> \in out, <<c, k>> \in out
  PROVE  j = k
<1>1. PICK w \in Kinds : session[c][w] = "waiting"
  BY DEF Blocked
<1>2. c \in Clients
  BY DEF Blocked
<1>3. session[c][j] \in Holding /\ session[c][k] \in Holding
  BY <1>2 DEF IInv, PoolExact
<1>4. CASE w = "request"
  <2>1. \A l \in Legs : session[c][l] = "closed"
    BY <1>1, <1>2, <1>4 DEF IInv, InPlace
  <2>2. QED
    BY <1>1, <1>3, <1>4, <2>1 DEF Holding, Kinds
<1>5. CASE w \in Legs
  <2>1. session[c]["request"] = "closed"
    BY <1>1, <1>2, <1>5 DEF IInv, InPlace
  <2>2. QED
    BY <1>1, <1>3, <1>5, <2>1 DEF Holding, Kinds, Legs
<1>6. QED
  BY <1>4, <1>5 DEF Kinds

(* A pool that is stuck is shared among at least as many waiting requests  *)
(* as it has connections (hybrid_search): each of them holds one.          *)
THEOREM RingsAreLong == Spec => []StallNeedsFullPool
<1>1. IInv => StallNeedsFullPool
  <2> SUFFICES ASSUME IInv, Stalled PROVE Cardinality(Blocked) >= PoolSize
    BY DEF StallNeedsFullPool
  <2> DEFINE holder == [h \in out |-> h[1]]
  <2>1. out \subseteq Clients \X Kinds
    BY DEF IInv, TypeOK
  <2>2. holder \in [out -> Blocked]
    BY DEF Stalled
  <2>3. ASSUME NEW g \in out, NEW h \in out, holder[g] = holder[h] PROVE g = h
    <3>1. PICK c \in Clients, j \in Kinds : g = <<c, j>>
      BY <2>1
    <3>2. PICK d \in Clients, k \in Kinds : h = <<d, k>>
      BY <2>1
    <3>3. c = d /\ c \in Blocked
      BY <2>2, <2>3, <3>1, <3>2
    <3>4. QED
      BY <3>1, <3>2, <3>3, WaiterHoldsOne
  <2>4. holder \in Injection(out, Blocked)
    BY <2>2, <2>3 DEF Injection, IsInjective
  <2>5. IsFiniteSet(Blocked)
    BY FS_Subset, PoolAssumption DEF Blocked
  <2>6. Cardinality(out) <= Cardinality(Blocked)
    BY <2>4, <2>5, FS_Injection
  <2>7. Cardinality(out) = PoolSize /\ Cardinality(Blocked) \in Nat
    BY <2>5, FS_CardinalityType DEF Stalled, Full
  <2>8. QED
    BY <2>6, <2>7, PoolAssumption
<1>2. QED
  BY <1>1, InvariantHolds, PTL

=============================================================================
