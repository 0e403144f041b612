-------------------------- MODULE AskServiceProofs --------------------------
(***************************************************************************)
(* Proofs about AskService: for every set of requests, keys and amounts,   *)
(* in every interleaving, reservations have an owner, only paid answers    *)
(* are cached, whoever is served is accounted for, and every client sees   *)
(* what module AskSession promises.                                        *)
(***************************************************************************)
EXTENDS AskService, FiniteSetTheorems, TLAPS

-----------------------------------------------------------------------------
(* The tracker's record, within one day.                                   *)

SpendType == [date : {0}, usd : Nat]

LEMMA ReserveType ==
  ASSUME spend \in SpendType, NEW e \in Nat, Tracker!Reserve(e)
  PROVE  spend' \in SpendType
  BY DEF SpendType, Tracker!Reserve, Tracker!Today

LEMMA RefuseType ==
  ASSUME spend \in SpendType, NEW e \in Nat, Tracker!Refuse(e)
  PROVE  spend' \in SpendType
  BY DEF SpendType, Tracker!Refuse, Tracker!Today

LEMMA SettleType ==
  ASSUME spend \in SpendType, NEW h \in Nat, NEW c \in Nat,
         Tracker!Settle(h, c)
  PROVE  spend' \in SpendType
  BY DEF SpendType, Tracker!Settle, Tracker!Today, Tracker!NonNegative

(* Settling empties the reservation of one request and touches no other.   *)
LEMMA SettlementEffect ==
  ASSUME TypeOK, NEW r \in Requests, NEW c \in Nat, SettleReservation(r, c)
  PROVE  /\ spend' \in SpendType
         /\ reserved' = [reserved EXCEPT ![r] = 0]
         /\ charged' = [charged EXCEPT ![r] = c]
         /\ overrun' \in Nat
<1>1. reserved[r] \in Nat /\ spend \in SpendType /\ overrun \in Nat
  BY DEF TypeOK, SpendType
<1>2. overrun' \in Nat
  BY <1>1 DEF SettleReservation, Tracker!NonNegative
<1>3. QED
  BY <1>1, <1>2, SettleType DEF SettleReservation

LEMMA InitEstablishes == Init => IInv
<1> SUFFICES ASSUME Init PROVE IInv
  OBVIOUS
<1>1. TypeOK
  BY DEF Init, TypeOK
<1>2. Places
  BY DEF Init, Places, AtPlace, Untouched
<1>3. ReservationsOwned /\ OnlyPaidAnswersCached /\ ServedMeansAccounted
  BY DEF Init, ReservationsOwned, OnlyPaidAnswersCached, ServedMeansAccounted
<1>4. QED
  BY <1>1, <1>2, <1>3 DEF IInv

-----------------------------------------------------------------------------
(* Each action preserves it.                                               *)

(* A request arrives.                                                      *)
LEMMA ArrivePreserves ==
  ASSUME IInv, NEW r \in Requests,
         Arrive(r)
  PROVE  IInv'
<1> USE DEF Arrive, Goto, KeepTracker
<1> USE DEF Places, AtPlace, Untouched, Replaying, Generating, Generated,
           Guarded
<1>1. TypeOK'
  BY DEF IInv, TypeOK, Suspended
<1>2. Places'
  BY DEF IInv, TypeOK
<1>3. ReservationsOwned'
  BY DEF IInv, TypeOK, ReservationsOwned
<1>4. OnlyPaidAnswersCached'
  BY AskAssumption DEF IInv, TypeOK, OnlyPaidAnswersCached
<1>5. ServedMeansAccounted'
  BY DEF IInv, TypeOK, ServedMeansAccounted
<1>6. QED
  BY <1>1, <1>2, <1>3, <1>4, <1>5 DEF IInv

(* The cache lookup, the refusal gate, a failure on the way.               *)
LEMMA LookupPreserves ==
  ASSUME IInv, NEW r \in Requests,
         \/ CacheHit(r) \/ CitationsHydrated(r) \/ CacheMiss(r)
         \/ PrepareFails(r) \/ Refuse(r)
  PROVE  IInv'
<1> USE DEF CacheHit, CitationsHydrated, CacheMiss, PrepareFails, Refuse, Respond, CountLookup, Goto,
           SendFrame, KeepTracker, local
<1> USE DEF Places, AtPlace, Untouched, Replaying, Generating, Generated,
           Guarded
<1>1. TypeOK'
  BY DEF IInv, TypeOK, Suspended
<1>2. Places'
  BY DEF IInv, TypeOK
<1>3. ReservationsOwned'
  BY DEF IInv, TypeOK, ReservationsOwned
<1>4. OnlyPaidAnswersCached'
  BY AskAssumption DEF IInv, TypeOK, OnlyPaidAnswersCached
<1>5. ServedMeansAccounted'
  BY DEF IInv, TypeOK, ServedMeansAccounted
<1>6. QED
  BY <1>1, <1>2, <1>3, <1>4, <1>5 DEF IInv

(* The request passes the cap and holds its estimate.                      *)
LEMMA ReserveSpendPreserves ==
  ASSUME IInv, NEW r \in Requests,
         ReserveSpend(r)
  PROVE  IInv'
<1> USE DEF ReserveSpend, Goto, SendFrame
<1>t. spend' \in SpendType
  BY AskAssumption, ReserveType DEF IInv, TypeOK, SpendType
<1>1. TypeOK'
  <2>1. reserved' \in [Requests -> Nat]
    BY AskAssumption DEF IInv, TypeOK
  <2>2. at' \in [Requests -> Suspended \union {"new", "closed"}]
    BY DEF IInv, TypeOK, Suspended, Guarded
  <2>3. QED
    BY <1>t, <2>1, <2>2 DEF IInv, TypeOK, SpendType
<1> USE DEF Places, AtPlace, Untouched, Replaying, Generating, Generated,
           Guarded
<1>2. Places'
  BY DEF IInv, TypeOK
<1>3. ReservationsOwned'
  BY DEF IInv, TypeOK, ReservationsOwned
<1>4. OnlyPaidAnswersCached'
  BY AskAssumption DEF IInv, TypeOK, OnlyPaidAnswersCached
<1>5. ServedMeansAccounted'
  BY DEF IInv, TypeOK, ServedMeansAccounted
<1>6. QED
  BY <1>1, <1>2, <1>3, <1>4, <1>5 DEF IInv

(* The request is turned away by the cap.                                  *)
LEMMA SpendCapReachedPreserves ==
  ASSUME IInv, NEW r \in Requests,
         SpendCapReached(r)
  PROVE  IInv'
<1> USE DEF SpendCapReached, Goto, SendFrame, local
<1> USE DEF Places, AtPlace, Untouched, Replaying, Generating, Generated,
           Guarded
<1>t. spend' \in SpendType
  BY AskAssumption, RefuseType DEF IInv, TypeOK, SpendType
<1>1. TypeOK'
  BY <1>t DEF IInv, TypeOK, Suspended, SpendType
<1>2. Places'
  BY DEF IInv, TypeOK
<1>3. ReservationsOwned'
  BY DEF IInv, TypeOK, ReservationsOwned
<1>4. OnlyPaidAnswersCached'
  BY AskAssumption DEF IInv, TypeOK, OnlyPaidAnswersCached
<1>5. ServedMeansAccounted'
  BY DEF IInv, TypeOK, ServedMeansAccounted
<1>6. QED
  BY <1>1, <1>2, <1>3, <1>4, <1>5 DEF IInv

(* A frame is pulled or a token produced: only the place and the last     *)
(* frame change.                                                           *)
LEMMA FramePreserves ==
  ASSUME IInv, NEW r \in Requests,
         \/ CitationsTaken(r) \/ TokenTaken(r) \/ ReplayTaken(r)
         \/ ErrorTaken(r) \/ FinalTaken(r) \/ DoneTaken(r) \/ Token(r)
  PROVE  IInv'
<1> USE DEF CitationsTaken, TokenTaken, ReplayTaken, ErrorTaken, FinalTaken,
           DoneTaken, Token, Goto, SendFrame, KeepTracker, local
<1> USE DEF Places, AtPlace, Untouched, Replaying, Generating, Generated,
           Guarded
<1>1. TypeOK'
  BY DEF IInv, TypeOK, Suspended
<1>2. Places'
  BY DEF IInv, TypeOK
<1>3. ReservationsOwned'
  BY DEF IInv, TypeOK, ReservationsOwned
<1>4. OnlyPaidAnswersCached'
  BY AskAssumption DEF IInv, TypeOK, OnlyPaidAnswersCached
<1>5. ServedMeansAccounted'
  BY DEF IInv, TypeOK, ServedMeansAccounted
<1>6. QED
  BY <1>1, <1>2, <1>3, <1>4, <1>5 DEF IInv

(* The generation completes and is paid for.                               *)
LEMMA CompletePreserves ==
  ASSUME IInv, NEW r \in Requests,
         Complete(r)
  PROVE  IInv'
<1> USE DEF Complete, CountLookup, Goto, SendFrame
<1> USE DEF Places, AtPlace, Untouched, Replaying, Generating, Generated,
           Guarded
<1>t. PICK cost \in Costs :
        /\ spend' \in SpendType
        /\ reserved' = [reserved EXCEPT ![r] = 0]
        /\ charged' = [charged EXCEPT ![r] = cost]
        /\ overrun' \in Nat
  BY AskAssumption, SettlementEffect DEF IInv
<1>1. TypeOK'
  BY <1>t, AskAssumption DEF IInv, TypeOK, Suspended, SpendType
<1>2. Places'
  BY <1>t DEF IInv, TypeOK
<1>3. ReservationsOwned'
  BY <1>t DEF IInv, TypeOK, ReservationsOwned
<1>4. OnlyPaidAnswersCached'
  BY AskAssumption, <1>t DEF IInv, TypeOK, OnlyPaidAnswersCached
<1>5. ServedMeansAccounted'
  BY <1>t DEF IInv, TypeOK, ServedMeansAccounted
<1>6. QED
  BY <1>1, <1>2, <1>3, <1>4, <1>5 DEF IInv

(* The reservation is released: a failure, an exception nobody handles, or *)
(* a client that left.                                                     *)
LEMMA ReleasePreserves ==
  ASSUME IInv, NEW r \in Requests,
         ErrorClosed(r) \/ LeaveGuarded(r) \/ AdapterRaises(r)
  PROVE  IInv'
<1> USE DEF ErrorClosed, LeaveGuarded, AdapterRaises, Goto, SendFrame, local
<1> USE DEF Places, AtPlace, Untouched, Replaying, Generating, Generated,
           Guarded
<1>t. /\ spend' \in SpendType
      /\ reserved' = [reserved EXCEPT ![r] = 0]
      /\ charged' = [charged EXCEPT ![r] = 0]
      /\ overrun' \in Nat
  BY SettlementEffect DEF IInv
<1>1. TypeOK'
  BY <1>t DEF IInv, TypeOK, Suspended, SpendType
<1>2. Places'
  BY <1>t DEF IInv, TypeOK
<1>3. ReservationsOwned'
  BY <1>t DEF IInv, TypeOK, ReservationsOwned
<1>4. OnlyPaidAnswersCached'
  BY AskAssumption, <1>t DEF IInv, TypeOK, OnlyPaidAnswersCached
<1>5. ServedMeansAccounted'
  BY <1>t DEF IInv, TypeOK, ServedMeansAccounted
<1>6. QED
  BY <1>1, <1>2, <1>3, <1>4, <1>5 DEF IInv

(* The generation fails.                                                   *)
LEMMA ProviderFailsPreserves ==
  ASSUME IInv, NEW r \in Requests,
         ProviderFails(r)
  PROVE  IInv'
<1> USE DEF ProviderFails, Goto, SendFrame, KeepTracker, local
<1> USE DEF Places, AtPlace, Untouched, Replaying, Generating, Generated,
           Guarded
<1>t. \/ /\ mode[r] = "json" /\ spend' \in SpendType
         /\ reserved' = [reserved EXCEPT ![r] = 0]
         /\ charged' = [charged EXCEPT ![r] = 0] /\ overrun' \in Nat
      \/ mode[r] # "json" /\ UNCHANGED <<spend, reserved, charged, overrun>>
  BY SettlementEffect DEF IInv
<1>1. TypeOK'
  BY <1>t DEF IInv, TypeOK, Suspended, SpendType
<1>2. Places'
  BY <1>t DEF IInv, TypeOK
<1>3. ReservationsOwned'
  BY <1>t DEF IInv, TypeOK, ReservationsOwned
<1>4. OnlyPaidAnswersCached'
  BY AskAssumption, <1>t DEF IInv, TypeOK, OnlyPaidAnswersCached
<1>5. ServedMeansAccounted'
  BY <1>t DEF IInv, TypeOK, ServedMeansAccounted
<1>6. QED
  BY <1>1, <1>2, <1>3, <1>4, <1>5 DEF IInv

(* The answer is kept, or not, and announced, or the client has left.      *)
LEMMA StorePreserves ==
  ASSUME IInv, NEW r \in Requests,
         Store(r) \/ StoreFails(r) \/ LeaveUnguarded(r)
  PROVE  IInv'
<1> USE DEF Store, StoreFails, LeaveUnguarded, NewRows, Cacheable, Goto,
           SendFrame, KeepTracker, local
<1> USE DEF Places, AtPlace, Untouched, Replaying, Generating, Generated,
           Guarded
<1>1. TypeOK'
  BY DEF IInv, TypeOK, Suspended
<1>2. Places'
  BY DEF IInv, TypeOK
<1>3. ReservationsOwned'
  BY DEF IInv, TypeOK, ReservationsOwned
<1>4. OnlyPaidAnswersCached'
  BY AskAssumption DEF IInv, TypeOK, OnlyPaidAnswersCached
<1>5. ServedMeansAccounted'
  BY DEF IInv, TypeOK, ServedMeansAccounted
<1>6. QED
  BY <1>1, <1>2, <1>3, <1>4, <1>5 DEF IInv

LEMMA StutterPreserves ==
  ASSUME IInv, UNCHANGED vars
  PROVE  IInv'
<1> USE DEF vars, local
<1>1. TypeOK' /\ Places'
  BY DEF IInv, TypeOK, Places, AtPlace, Untouched, Replaying, Generating,
         Generated
<1>2. ReservationsOwned' /\ OnlyPaidAnswersCached' /\ ServedMeansAccounted'
  BY DEF IInv, ReservationsOwned, OnlyPaidAnswersCached, ServedMeansAccounted
<1>3. QED
  BY <1>1, <1>2 DEF IInv

LEMMA NextPreserves == IInv /\ [Next]_vars => IInv'
<1> SUFFICES ASSUME IInv, [Next]_vars PROVE IInv'
  OBVIOUS
<1>1. ASSUME NEW r \in Requests, Arrive(r) \/ Prepare(r) PROVE IInv'
  BY <1>1, ArrivePreserves, LookupPreserves, ReserveSpendPreserves,
     SpendCapReachedPreserves DEF Prepare
<1>2. ASSUME NEW r \in Requests, Pull(r) \/ Token(r) PROVE IInv'
  BY <1>2, FramePreserves, ReleasePreserves DEF Pull
<1>3. ASSUME NEW r \in Requests, EndGeneration(r) PROVE IInv'
  BY <1>3, CompletePreserves, ProviderFailsPreserves, ReleasePreserves
  DEF EndGeneration
<1>4. ASSUME NEW r \in Requests, Finish(r) \/ Leave(r) PROVE IInv'
  BY <1>4, StorePreserves, ReleasePreserves DEF Finish, Leave
<1>5. CASE AllServed \/ UNCHANGED vars
  BY <1>5, StutterPreserves DEF AllServed
<1>6. QED
  BY <1>1, <1>2, <1>3, <1>4, <1>5 DEF Next

THEOREM InvariantHolds == Spec => []IInv
  BY InitEstablishes, NextPreserves, PTL DEF Spec

-----------------------------------------------------------------------------
(* The results.                                                            *)

(* Every variable keeps its type: no lookup is ever counted twice.         *)
THEOREM TypeCorrect == Spec => []TypeOK
<1>1. IInv => TypeOK
  BY DEF IInv
<1>2. QED
  BY <1>1, InvariantHolds, PTL

(* A reservation belongs to a generation under way, or to a client that    *)
(* left at the citations frame.                                            *)
THEOREM EveryReservationIsOwned == Spec => []ReservationsOwned
<1>1. IInv => ReservationsOwned
  BY DEF IInv
<1>2. QED
  BY <1>1, InvariantHolds, PTL

(* Only finished, paid, real answers are ever replayed.                    *)
THEOREM CacheHoldsPaidAnswers == Spec => []OnlyPaidAnswersCached
<1>1. IInv => OnlyPaidAnswersCached
  BY DEF IInv
<1>2. QED
  BY <1>1, InvariantHolds, PTL

(* Whoever was served is settled at the vendor's figure and counted once.  *)
THEOREM WhoeverIsServedIsAccounted == Spec => []ServedMeansAccounted
<1>1. IInv => ServedMeansAccounted
  BY DEF IInv
<1>2. QED
  BY <1>1, InvariantHolds, PTL

-----------------------------------------------------------------------------
(* Refinement.                                                             *)

(* The frames that may follow a frame, one by one.                         *)
LEMMA FollowsFacts ==
  /\ Session!Follows["nothing"] = {"json", "status", "citations"}
  /\ Session!Follows["citations"] = {"tokens", "final", "error"}
  /\ Session!Follows["tokens"] = {"tokens", "final", "error"}
  /\ Session!Follows["final"] = {"done"}
  /\ Session!Follows["error"] = {"errordone"}
  BY DEF Session!Follows, Session!Frames

(* Sending a permitted frame, the cache left alone, is a step of the       *)
(* session.                                                                *)
LEMMA SendMaps ==
  ASSUME NEW r \in Requests, NEW f \in Session!Follows[sent[r]],
         f = "error" => r \notin {row.by : row \in cache},
         sent' = [sent EXCEPT ![r] = f], cache' = cache
  PROVE  Session!Next
<1>1. Session!Send(r)
  BY DEF Session!Send
<1>2. QED
  BY <1>1 DEF Session!Next

LEMMA InitMaps == Init => Session!Init
  BY DEF Init, Session!Init

(* Preparation ends in a status, a JSON body or the citations.             *)
LEMMA PrepareMaps ==
  ASSUME IInv, NEW r \in Requests, Arrive(r) \/ Prepare(r)
  PROVE  [Session!Next]_(Session!vars)
<1> USE DEF Session!vars, Goto, SendFrame, KeepTracker, local
<1>1. CASE Arrive(r) \/ CacheMiss(r)
  BY <1>1 DEF Arrive, CacheMiss
<1>2. CASE ~(Arrive(r) \/ CacheMiss(r))
  <2>1. at[r] \in {"lookup", "hydrate", "search"} /\ cache' = cache
    BY <1>2 DEF Prepare, CacheHit, CitationsHydrated, PrepareFails, Refuse, ReserveSpend,
                SpendCapReached, Arrive
  <2>2. sent[r] = "nothing"
    BY <2>1 DEF IInv, Places, AtPlace, Untouched
  <2>3. \/ UNCHANGED sent
        \/ \E f \in {"json", "status", "citations"} :
             sent' = [sent EXCEPT ![r] = f]
    BY <1>2 DEF Prepare, CacheHit, CitationsHydrated, PrepareFails, Refuse,
                ReserveSpend, SpendCapReached, Respond, Arrive
  <2>4. QED
    BY <2>1, <2>2, <2>3, FollowsFacts, SendMaps
<1>3. QED
  BY <1>1, <1>2

(* A frame follows the last one in the order of the session.               *)
LEMMA FrameMaps ==
  ASSUME IInv, NEW r \in Requests, Pull(r) \/ Token(r)
  PROVE  [Session!Next]_(Session!vars)
<1> USE DEF Session!vars, Goto, SendFrame, KeepTracker, local
<1>1. cache' = cache
  BY DEF Pull, CitationsTaken, TokenTaken, ReplayTaken, ErrorTaken, ErrorClosed,
         FinalTaken, DoneTaken, Token
<1>2. \/ UNCHANGED sent
      \/ /\ sent[r] \in {"citations", "tokens"}
         /\ \E f \in {"tokens", "final"} : sent' = [sent EXCEPT ![r] = f]
      \/ sent[r] = "final" /\ sent' = [sent EXCEPT ![r] = "done"]
      \/ sent[r] = "error" /\ sent' = [sent EXCEPT ![r] = "errordone"]
  BY DEF Pull, CitationsTaken, TokenTaken, ReplayTaken, ErrorTaken, ErrorClosed,
         FinalTaken, DoneTaken, Token, IInv, TypeOK, Places, AtPlace
<1>3. QED
  BY <1>1, <1>2, FollowsFacts, SendMaps

(* A generation ends in nothing visible, a JSON body or an error; a        *)
(* request whose generation fails has kept nothing.                        *)
LEMMA EndMaps ==
  ASSUME IInv, NEW r \in Requests, EndGeneration(r)
  PROVE  [Session!Next]_(Session!vars)
<1> USE DEF Session!vars, Goto, SendFrame, KeepTracker, local
<1>1. cache' = cache /\ at[r] = "generate"
  BY DEF EndGeneration, Complete, ProviderFails, AdapterRaises
<1>2. /\ text[r] = "none"
      /\ sent[r] \in IF mode[r] = "json" THEN {"nothing"}
                     ELSE {"citations", "tokens"}
  BY <1>1 DEF IInv, Places, AtPlace, Generating
<1>3. r \notin {row.by : row \in cache}
  BY <1>2 DEF IInv, OnlyPaidAnswersCached
<1>4. \/ UNCHANGED sent
      \/ /\ sent[r] = "nothing"
         /\ \E f \in {"json", "status"} : sent' = [sent EXCEPT ![r] = f]
      \/ /\ sent[r] \in {"citations", "tokens"}
         /\ sent' = [sent EXCEPT ![r] = "error"]
  BY <1>2 DEF EndGeneration, Complete, ProviderFails, AdapterRaises
<1>5. QED
  BY <1>1, <1>3, <1>4, FollowsFacts, SendMaps

(* An answer is kept no later than it is announced.                        *)
LEMMA StoreMaps ==
  ASSUME IInv, NEW r \in Requests, Finish(r) \/ Leave(r)
  PROVE  [Session!Next]_(Session!vars)
<1> USE DEF Session!vars, Goto, SendFrame, KeepTracker, local
<1>1. CASE at[r] = "store"
  <2>1. sent[r] \in IF mode[r] = "json" THEN {"nothing"}
                    ELSE {"citations", "tokens"}
    BY <1>1 DEF IInv, Places, AtPlace
  <2>2. cache' = cache \/ cache' = cache \union {[key |-> key[r], by |-> r]}
    BY <1>1 DEF Finish, Store, StoreFails, Leave, LeaveGuarded, LeaveUnguarded,
                NewRows
  <2>3. \/ UNCHANGED sent
        \/ /\ mode[r] = "json"
           /\ \E f \in {"json", "status"} : sent' = [sent EXCEPT ![r] = f]
           /\ cache' # cache => sent' = [sent EXCEPT ![r] = "json"]
        \/ mode[r] # "json" /\ sent' = [sent EXCEPT ![r] = "final"]
    BY <1>1 DEF Finish, Store, StoreFails, Leave, LeaveGuarded, LeaveUnguarded
  <2>4. CASE cache' = cache
    BY <2>1, <2>3, <2>4, FollowsFacts, SendMaps
  <2>5. CASE cache' # cache
    <3>1. {row.by : row \in cache}' = {row.by : row \in cache} \union {r}
      BY <2>2, <2>5
    <3>2. CASE UNCHANGED sent
      <4>1. Session!Keep(r)
        BY <2>1, <3>1, <3>2 DEF Session!Keep
      <4>2. QED
        BY <4>1 DEF Session!Next
    <3>3. CASE ~UNCHANGED sent
      <4>1. \E f \in {"json", "final"} \cap Session!Follows[sent[r]] :
              sent' = [sent EXCEPT ![r] = f]
        BY <2>1, <2>3, <2>5, <3>3, FollowsFacts
      <4>2. Session!KeepAndSend(r)
        BY <2>1, <3>1, <4>1 DEF Session!KeepAndSend
      <4>3. QED
        BY <4>2 DEF Session!Next
    <3>4. QED
      BY <3>2, <3>3
  <2>6. QED
    BY <2>4, <2>5
<1>2. CASE at[r] # "store"
  BY <1>2 DEF Finish, Store, StoreFails, Leave, LeaveGuarded, LeaveUnguarded,
              NewRows
<1>3. QED
  BY <1>1, <1>2

(* Every client sees what the session promises, however its request is     *)
(* interleaved with the others.                                            *)
THEOREM KeepsSessionPromise == Spec => SessionSpec
<1>1. ASSUME IInv, [Next]_vars PROVE [Session!Next]_(Session!vars)
  <2>1. CASE UNCHANGED vars \/ AllServed
    BY <2>1 DEF vars, AllServed, Session!vars
  <2>2. ASSUME NEW r \in Requests,
               Arrive(r) \/ Prepare(r) \/ Pull(r) \/ Token(r)
               \/ EndGeneration(r) \/ Finish(r) \/ Leave(r)
        PROVE  [Session!Next]_(Session!vars)
    BY <1>1, <2>2, PrepareMaps, FrameMaps, EndMaps, StoreMaps
  <2>3. QED
    BY <1>1, <2>1, <2>2 DEF Next
<1>2. QED
  BY <1>1, InitMaps, InvariantHolds, PTL DEF Spec, SessionSpec, Session!Spec

-----------------------------------------------------------------------------
(* The ledger: the service uses the tracker as SpendCap describes, so what *)
(* SpendCapProofs proves of the tracker's callers holds of its requests.   *)

Money == INSTANCE SpendCapProofs
  WITH Calls <- Requests, LastDay <- 0, clock <- 0,
       phase <- [r \in Requests |-> Progress(r)], heldOn <- [r \in Requests |-> 0],
       held <- Committed, billed <- Paid, crossed <- 0

(* What SpendCapProofs assumes of its constants is true of these.          *)
LEMMA SameSum ==
  ASSUME NEW f, NEW S
  PROVE  Money!SumFunctionOnSet(f, S) = SumFunctionOnSet(f, S)
  BY DEF Money!SumFunctionOnSet, Money!FoldFunctionOnSet, Money!MapThenFoldSet,
         SumFunctionOnSet, FoldFunctionOnSet, MapThenFoldSet

LEMMA SameFinite ==
  ASSUME NEW S
  PROVE  Money!IsFiniteSet(S) <=> IsFiniteSet(S)
  BY DEF Money!IsFiniteSet, IsFiniteSet

LEMMA MoneyAssumptions ==
  /\ Money!CapAssumption /\ Money!CallsAssumption
  /\ Money!AmountsAssumption /\ Money!LastDayAssumption
<1>1. Money!CallsAssumption
  BY AskAssumption, SameFinite DEF Money!CallsAssumption
<1>2. Money!CapAssumption /\ Money!AmountsAssumption
  BY AskAssumption DEF Money!CapAssumption, Money!AmountsAssumption
<1>3. Money!LastDayAssumption
  BY DEF Money!LastDayAssumption
<1>4. QED
  BY <1>1, <1>2, <1>3

LEMMA NothingPaid ==
  ASSUME NEW f
  PROVE  SumFunctionOnSet(f, {}) = 0
  BY MoneyAssumptions, Money!SumEmpty, SameSum

(* What is committed changes with one reservation.                         *)
LEMMA CommittedChanges ==
  ASSUME reserved \in [Requests -> Nat], NEW r \in Requests, NEW v \in Nat,
         reserved' = [reserved EXCEPT ![r] = v]
  PROVE  Committed \in Nat /\ Committed' = Committed - reserved[r] + v
<1>1. IsFiniteSet(Requests) /\ Money!IsFiniteSet(Requests)
  BY AskAssumption, SameFinite
<1>2. ASSUME NEW f, NEW g,
             \A q \in Requests : f[q] \in Nat /\ g[q] \in Nat,
             \A q \in Requests : q # r => g[q] = f[q]
      PROVE  /\ SumFunctionOnSet(f, Requests) \in Nat
             /\ SumFunctionOnSet(g, Requests)
                  = SumFunctionOnSet(f, Requests) - f[r] + g[r]
  BY <1>1, <1>2, MoneyAssumptions, Money!SumChanges, SameSum
<1>3. /\ \A q \in Requests : reserved[q] \in Nat /\ reserved'[q] \in Nat
      /\ \A q \in Requests : q # r => reserved'[q] = reserved[q]
      /\ reserved'[r] = v
  OBVIOUS
<1>4. QED
  BY <1>2, <1>3 DEF Committed

(* What is paid grows with one charge.                                     *)
LEMMA PaidGrows ==
  ASSUME charged \in [Requests -> Nat \union {None}], NEW r \in Requests,
         charged[r] = None, NEW c \in Nat, charged' = [charged EXCEPT ![r] = c]
  PROVE  Paid' = Paid + c
<1>1. Charged' = Charged \union {r} /\ r \notin Charged
  BY AskAssumption DEF Charged
<1>2. /\ \A q \in Charged : charged'[q] = charged[q] /\ charged[q] \in Nat
      /\ charged'[r] = c
  BY <1>1 DEF Charged
<1> DEFINE S == Charged
<1>3. Money!IsFiniteSet(S) /\ IsFiniteSet(S)
  <2>1. S \subseteq Requests
    BY DEF Charged
  <2>2. IsFiniteSet(S)
    BY <2>1, AskAssumption, FS_Subset
  <2>3. QED
    BY <2>2, SameFinite
<1>4. ASSUME NEW f, NEW e, \A q \in S : f[q] = e[q] /\ e[q] \in Nat, f[r] = c
      PROVE  SumFunctionOnSet(f, S \union {r}) = SumFunctionOnSet(e, S) + c
  <2> HIDE DEF S
  <2>1. SumFunctionOnSet(f, S) = SumFunctionOnSet(e, S)
    BY <1>3, <1>4, MoneyAssumptions, Money!SumDetermined, SameSum
  <2>2. r \notin S
    BY <1>1 DEF S
  <2>3. \A q \in S \union {r} : f[q] \in Nat
    BY <1>4
  <2>4. SumFunctionOnSet(f, S \union {r}) = c + SumFunctionOnSet(f, S)
    BY <1>3, <1>4, <2>2, <2>3, MoneyAssumptions, Money!SumPutsIn, SameSum
  <2>5. SumFunctionOnSet(e, S) \in Nat
    BY <1>3, <1>4, MoneyAssumptions, Money!SumTakesOut, SameSum
  <2>6. QED
    BY <2>1, <2>4, <2>5
<1>5. QED
  BY <1>1, <1>2, <1>4 DEF Paid

LEMMA CommittedType ==
  ASSUME reserved \in [Requests -> Nat]
  PROVE  Committed \in Nat
<1>1. Money!IsFiniteSet(Requests) /\ \A r \in Requests : reserved[r] \in Nat
  BY AskAssumption, SameFinite
<1>2. QED
  BY <1>1, MoneyAssumptions, Money!SumTakesOut, SameSum DEF Committed

LEMMA PaidType ==
  ASSUME charged \in [Requests -> Nat \union {None}]
  PROVE  Paid \in Nat
<1>1. Charged \subseteq Requests /\ \A r \in Charged : charged[r] \in Nat
  BY DEF Charged
<1>2. Money!IsFiniteSet(Charged)
  BY <1>1, AskAssumption, FS_Subset, SameFinite
<1>3. QED
  BY <1>1, <1>2, MoneyAssumptions, Money!SumTakesOut, SameSum DEF Paid

LEMMA MoneyInit == Init => Money!Init
<1> SUFFICES ASSUME Init PROVE Money!Init
  OBVIOUS
<1>1. Charged = {}
  BY DEF Init, Charged
<1>2. Paid = 0
  BY <1>1, NothingPaid DEF Paid
<1>3. Committed = 0
  <2>1. Money!IsFiniteSet(Requests)
    BY AskAssumption, SameFinite
  <2>2. \A q \in Requests : reserved[q] = 0
    BY DEF Init
  <2>3. QED
    BY <2>1, <2>2, MoneyAssumptions, Money!ZeroesAddNothing, SameSum
    DEF Committed
<1>4. [r \in Requests |-> Progress(r)] = [r \in Requests |-> "new"]
  BY DEF Init, Progress
<1>5. QED
  BY <1>2, <1>3, <1>4 DEF Init, Money!Init

(* A request that reserves is a call that is admitted.                     *)
LEMMA ReserveMaps ==
  ASSUME IInv, NEW r \in Requests, ReserveSpend(r)
  PROVE  Money!Admit(r)
<1>1. PICK e \in Estimates :
        /\ Tracker!Reserve(e)
        /\ reserved' = [reserved EXCEPT ![r] = e]
        /\ plan' = [plan EXCEPT ![r] = "generate"]
        /\ UNCHANGED <<charged, overrun>>
  BY DEF ReserveSpend
<1>2. e \in Nat
  BY AskAssumption
<1>3. charged[r] = None /\ plan[r] = "none" /\ reserved[r] = 0
  BY DEF ReserveSpend, IInv, Places, AtPlace, Untouched
<1>4. Committed' = Committed + e
  <2>1. Committed \in Nat /\ Committed' = Committed - reserved[r] + e
    BY <1>1, <1>2, CommittedChanges DEF IInv, TypeOK
  <2>2. QED
    BY <1>2, <1>3, <2>1
<1>5. Paid' = Paid
  BY <1>1 DEF Paid, Charged
<1>6. [q \in Requests |-> Progress(q)]'
        = [[q \in Requests |-> Progress(q)] EXCEPT ![r] = "inflight"]
  BY <1>1, <1>3 DEF Progress, IInv, TypeOK
<1>7. Money!Reserve(e)
  BY <1>1 DEF Money!Reserve, Money!WouldExceed, Money!Today,
              Tracker!Reserve, Tracker!WouldExceed, Tracker!Today
<1>8. [q \in Requests |-> Progress(q)][r] = "new"
  BY <1>3 DEF Progress
<1>9. [q \in Requests |-> 0]' = [[q \in Requests |-> 0] EXCEPT ![r] = 0]
  OBVIOUS
<1>10. QED
  BY <1>1, <1>4, <1>5, <1>6, <1>7, <1>8, <1>9 DEF Money!Admit

(* A request whose generation ended, or was cut off, is a call that        *)
(* finishes.                                                               *)
LEMMA SettleMaps ==
  ASSUME IInv, NEW r \in Requests, NEW c \in Costs \union {0},
         SettleReservation(r, c), at[r] \in Guarded, plan' = plan
  PROVE  Money!Finish(r)
<1>1. plan[r] = "generate" /\ charged[r] = None
  BY DEF IInv, Places, AtPlace, Generating, Guarded
<1>2. c \in Nat /\ reserved[r] \in Nat
  BY AskAssumption DEF IInv, TypeOK
<1>3. /\ Tracker!Settle(reserved[r], c)
      /\ reserved' = [reserved EXCEPT ![r] = 0]
      /\ charged' = [charged EXCEPT ![r] = c]
      /\ overrun' = overrun + Tracker!NonNegative(c - reserved[r])
  BY DEF SettleReservation
<1>4. Committed' = Committed - reserved[r]
  <2>1. Committed \in Nat /\ Committed' = Committed - reserved[r] + 0
    BY <1>3, CommittedChanges DEF IInv, TypeOK
  <2>2. QED
    BY <1>2, <2>1
<1>5. Paid' = Paid + c
  BY <1>1, <1>2, <1>3, PaidGrows DEF IInv, TypeOK
<1>6. [q \in Requests |-> Progress(q)]'
        = [[q \in Requests |-> Progress(q)] EXCEPT ![r] = "over"]
  BY <1>1, <1>2, <1>3, AskAssumption DEF Progress, IInv, TypeOK
<1>7. Money!Settle(reserved[r], c)
  BY <1>3 DEF Money!Settle, Money!Today, Money!NonNegative,
              Tracker!Settle, Tracker!Today, Tracker!NonNegative
<1>8. [q \in Requests |-> Progress(q)][r] = "inflight"
  BY <1>1 DEF Progress
<1>9. overrun' = overrun + Money!NonNegative(c - reserved[r])
  BY <1>3 DEF Tracker!NonNegative, Money!NonNegative
<1>10. [q \in Requests |-> 0][r] = 0
  OBVIOUS
<1>11. QED
  BY <1>3, <1>4, <1>5, <1>6, <1>7, <1>8, <1>9, <1>10 DEF Money!Finish

(* Nothing else touches the money.                                         *)
LEMMA KeepMaps ==
  ASSUME UNCHANGED <<reserved, charged, overrun, spend>>,
         \A q \in Requests : Progress(q)' = Progress(q)
  PROVE  UNCHANGED Money!vars
<1>1. Committed' = Committed /\ Paid' = Paid
  BY DEF Committed, Paid, Charged
<1>2. [q \in Requests |-> Progress(q)]' = [q \in Requests |-> Progress(q)]
  OBVIOUS
<1>3. QED
  BY <1>1, <1>2 DEF Money!vars, Money!callVars, Money!ledger

LEMMA MoneyNext == IInv /\ [Next]_vars => [Money!Next]_(Money!vars)
<1> SUFFICES ASSUME IInv, [Next]_vars PROVE [Money!Next]_(Money!vars)
  OBVIOUS
<1>1. ASSUME NEW r \in Requests, ReserveSpend(r) PROVE Money!Next
  BY <1>1, ReserveMaps DEF Money!Next
<1>2. ASSUME NEW r \in Requests, SpendCapReached(r)
      PROVE  [Money!Next]_(Money!vars)
  <2>1. spend' = Tracker!Today /\ UNCHANGED <<reserved, charged, overrun, plan>>
    BY <1>2 DEF SpendCapReached, Tracker!Refuse, local
  <2>2. spend' = spend
    BY <2>1 DEF Tracker!Today, IInv, TypeOK
  <2>3. QED
    BY <2>1, <2>2, KeepMaps DEF Progress
<1>3. ASSUME NEW r \in Requests, NEW c \in Costs \union {0},
             SettleReservation(r, c), at[r] \in Guarded, plan' = plan
      PROVE  Money!Next
  BY <1>3, SettleMaps DEF Money!Next
<1>4. ASSUME NEW r \in Requests,
             \/ Complete(r) \/ ProviderFails(r) \/ AdapterRaises(r)
             \/ ErrorClosed(r) \/ LeaveGuarded(r)
      PROVE  [Money!Next]_(Money!vars)
  <2>1. at[r] \in Guarded /\ plan' = plan
    BY <1>4 DEF Complete, ProviderFails, AdapterRaises, ErrorClosed,
                LeaveGuarded, Guarded, local
  <2>2. \/ \E c \in Costs \union {0} : SettleReservation(r, c)
        \/ KeepTracker
    BY <1>4 DEF Complete, ProviderFails, AdapterRaises, ErrorClosed,
                LeaveGuarded
  <2>3. QED
    BY <1>3, <2>1, <2>2, KeepMaps DEF KeepTracker, Progress
<1>5. ASSUME NEW r \in Requests,
             \/ Arrive(r) \/ CacheHit(r) \/ CitationsHydrated(r)
             \/ CacheMiss(r) \/ PrepareFails(r)
             \/ Refuse(r) \/ CitationsTaken(r) \/ TokenTaken(r) \/ ReplayTaken(r)
             \/ ErrorTaken(r) \/ FinalTaken(r) \/ DoneTaken(r) \/ Token(r)
             \/ Finish(r) \/ LeaveUnguarded(r)
      PROVE  [Money!Next]_(Money!vars)
  <2>1. KeepTracker
    BY <1>5 DEF Arrive, CacheHit, CitationsHydrated, CacheMiss,
                PrepareFails, Refuse,
                CitationsTaken, TokenTaken, ReplayTaken, ErrorTaken, FinalTaken,
                DoneTaken, Token, Finish, Store, StoreFails, LeaveUnguarded
  <2>2. \/ UNCHANGED plan
        \/ /\ plan[r] = "none"
           /\ \E kind \in {"cached", "refused"} : plan' = [plan EXCEPT ![r] = kind]
    BY <1>5 DEF Arrive, CacheHit, CitationsHydrated, CacheMiss,
                PrepareFails, Refuse, Respond,
                CitationsTaken, TokenTaken, ReplayTaken, ErrorTaken, FinalTaken,
                DoneTaken, Token, Finish, Store, StoreFails, LeaveUnguarded,
                local, IInv, Places, AtPlace, Untouched
  <2>3. \A q \in Requests : Progress(q)' = Progress(q)
    BY <2>1, <2>2 DEF KeepTracker, Progress, IInv, TypeOK
  <2>4. QED
    BY <2>1, <2>3, KeepMaps DEF KeepTracker
<1>6. CASE AllServed \/ UNCHANGED vars
  BY <1>6, KeepMaps DEF AllServed, vars, local, Progress
<1>7. QED
  BY <1>1, <1>2, <1>4, <1>5, <1>6
  DEF Next, Prepare, Pull, EndGeneration, Leave

LEMMA MoneySpec == Spec => Money!Spec
  BY MoneyInit, MoneyNext, InvariantHolds, PTL DEF Spec, Money!Spec

-----------------------------------------------------------------------------
(* What follows for the money.                                             *)

(* In every interleaving of requests, streams that break off and vendors   *)
(* that fail, the service uses the tracker by the protocol of SpendCap:    *)
(* one reservation under the cap, one settlement or none.                  *)
THEOREM KeepsLedgerProtocol == Spec => LedgerSpec
<1>1. Money!Init => Ledger!Init
  BY DEF Money!Init, Ledger!Init
<1>2. [Money!Next]_(Money!vars) => [Ledger!Next]_(Ledger!vars)
  <2> USE DEF Money!Reserve, Money!WouldExceed, Money!Today, Money!Refuse,
              Money!Settle, Money!NonNegative, Money!ReadStats, Ledger!Reserve,
              Ledger!WouldExceed, Ledger!Today, Ledger!Refuse, Ledger!Settle,
              Ledger!NonNegative, Ledger!ReadStats, Money!callVars,
              Ledger!callVars, Money!ledger, Ledger!ledger
  <2>1. ASSUME NEW r \in Requests
        PROVE  /\ Money!Admit(r) => Ledger!Admit(r)
               /\ Money!TurnAway(r) => Ledger!TurnAway(r)
               /\ Money!Finish(r) => Ledger!Finish(r)
    BY DEF Money!Admit, Ledger!Admit, Money!TurnAway, Ledger!TurnAway,
           Money!Finish, Ledger!Finish
  <2>2. /\ Money!Stats => Ledger!Stats
        /\ Money!Midnight => Ledger!Midnight
        /\ UNCHANGED Money!vars => UNCHANGED Ledger!vars
    BY DEF Money!Stats, Ledger!Stats, Money!Midnight, Ledger!Midnight,
           Money!vars, Ledger!vars
  <2>3. QED
    BY <2>1, <2>2 DEF Money!Next, Ledger!Next
<1>3. QED
  BY <1>1, <1>2, MoneySpec, PTL DEF Money!Spec, LedgerSpec, Ledger!Spec

(* The counter is exact: to the cent the open reservations and the costs   *)
(* that were charged.                                                      *)
THEOREM CounterIsExact == Spec => []LedgerExact
<1>1. TypeOK /\ Money!LedgerCovers /\ Money!NoPhantomSpend => LedgerExact
  <2> SUFFICES ASSUME TypeOK, Money!LedgerCovers, Money!NoPhantomSpend
               PROVE  LedgerExact
    OBVIOUS
  <2>1. Money!Today = spend
    BY DEF Money!Today, TypeOK
  <2>2. Committed + Paid <= spend.usd + 0 /\ spend.usd <= Committed + Paid
    BY <2>1 DEF Money!LedgerCovers, Money!NoPhantomSpend
  <2>3. Committed \in Nat
    BY CommittedType DEF TypeOK
  <2>4. Paid \in Nat
    BY PaidType DEF TypeOK
  <2>5. QED
    BY <2>2, <2>3, <2>4 DEF LedgerExact, TypeOK
<1>2. Money!Spec => []Money!LedgerCovers
  BY MoneyAssumptions, Money!TrackerCoversLedger
<1>3. Money!Spec => []Money!NoPhantomSpend
  BY MoneyAssumptions, Money!NothingPhantom
<1>4. QED
  BY <1>1, <1>2, <1>3, TypeCorrect, MoneySpec, PTL

(* The daily cap binds the service: what its requests have spent and hold  *)
(* exceeds it by no more than what vendors charged beyond the estimates.   *)
THEOREM ServiceKeepsCap == Spec => []CapBinds
<1>1. Money!Spec => []Money!SpendBounded
  BY MoneyAssumptions, Money!DaySpendBounded
<1>2. Money!SpendBounded /\ TypeOK => CapBinds
  BY AskAssumption DEF Money!SpendBounded, CapBinds, TypeOK
<1>3. QED
  BY <1>1, <1>2, TypeCorrect, MoneySpec, PTL

=============================================================================
