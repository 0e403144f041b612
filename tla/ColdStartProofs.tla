--------------------------- MODULE ColdStartProofs ---------------------------
(***************************************************************************)
(* Proofs about ColdStart: for every set of calls and what they are for,   *)
(* there is one of everything unless builders overlapped, and weights are  *)
(* loaded once per object.                                                 *)
(***************************************************************************)
EXTENDS ColdStart, TLAPS

(* A call is for one of four things.                                       *)
LEMMA Kinds ==
  ASSUME TypeOK, NEW c \in Calls
  PROVE  kind[c] \in {"ask", "ingest", "stats", "health"}
BY ColdAssumption DEF TypeOK

(* The places a call goes to.                                              *)
LEMMA FollowingIsPlace ==
  ASSUME NEW p \in Components
  PROVE  Following[p] \in [on : Components, phase : Phases]
BY DEF Following, At, Components, Weighted, Phases

LEMMA InnerIsPlace ==
  ASSUME NEW p \in Components
  PROVE  Inner(p) \in [on : Components, phase : Phases]
BY DEF Inner, At, Components, Weighted, Phases

LEMMA AfterIsPlace ==
  ASSUME NEW c \in Calls, NEW p \in Components,
         kind[c] \in {"ask", "ingest", "stats"}
  PROVE  After(c, p) \in [on : Components, phase : Phases]
<1>1. At("embedder", "load") \in [on : Components, phase : Phases]
  BY DEF At, Components, Weighted, Phases
<1>2. Done \in [on : Components, phase : Phases]
  BY DEF Done, At, Components, Weighted, Phases
<1>3. QED
  BY <1>1, <1>2, FollowingIsPlace DEF After

(* Nothing is built and nobody is inside a builder.                        *)
LEMMA InitEstablishes == Init => IInv
<1> SUFFICES ASSUME Init PROVE IInv
  OBVIOUS
<1>1. \A c \in Calls : kind[c] \in {"ask", "ingest", "stats", "health"}
  BY ColdAssumption DEF Init
<1>2. TypeOK
  <2>1. \A c \in Calls : FirstStep[kind[c]] \in [on : Components, phase : Phases]
    BY <1>1 DEF FirstStep, Done, At, Components, Weighted, Phases
  <2>2. QED
    BY <2>1 DEF Init, TypeOK
<1>3. \A c \in Calls : at[c] \in {At("service", "look"), At("embedder", "look"),
                                  At("tracker", "look"), Done}
  BY <1>1 DEF Init, FirstStep
<1>4. \A c \in Calls : Placed(c) /\ Handed(c)
  BY <1>1, <1>3 DEF Init, FirstStep, Placed, Handed, At, Done, Building
<1>5. Nested
  BY <1>1 DEF Init, FirstStep, Nested, Within, At, Done, Building
<1>6. Alone /\ OneUnlessRaced
  BY DEF Init, Alone, OneUnlessRaced
<1>7. Services
  BY DEF Init, Services, Complete, Components
<1>8. Locked
  BY <1>3 DEF Locked, At, Done
<1>9. LoadedOnce
  BY <1>3 DEF Init, LoadedOnce, At, Done, Weighted
<1> QED
  BY <1>2, <1>4, <1>5, <1>6, <1>7, <1>8, <1>9 DEF IInv

(* Where a step of a builder leads.                                        *)
LEMMA FollowingValues ==
  /\ Following["embedder"] = At("reranker", "look") /\ Following["bge"] = At("reranker", "build")
  /\ Following["reranker"] = At("provider", "look") /\ Following["provider"] = At("tracker", "look")
  /\ Following["tracker"] = At("service", "build") /\ Following["service"] = At("embedder", "load")
BY DEF Following

LEMMA AfterValues ==
  ASSUME NEW c \in Calls, NEW p \in Components
  PROVE  /\ kind[c] = "ask" => After(c, p) = Following[p]
         /\ kind[c] = "ingest" => After(c, p) = At("embedder", "load")
         /\ kind[c] = "stats" => After(c, p) = Done
BY DEF After

LEMMA InnerValues ==
  /\ Inner("service") = At("embedder", "look") /\ Inner("reranker") = At("bge", "look")
  /\ \A p \in Components \ {"service", "reranker"} : Inner(p) = At(p, "build")
BY DEF Inner

(* A call that is building changes nothing of a loading call, nor of the   *)
(* services there are.                                                     *)
LEMMA BuildersKeepLoads ==
  ASSUME IInv, NEW c \in Calls, Building(c), NEW place,
         at' = [at EXCEPT ![c] = place],
         place.phase # "loading", place # At("reranker", "load"),
         UNCHANGED <<kind, lock, weights>>,
         own' \in [Calls -> [Components -> Calls \union {Nobody}]],
         \A d \in Calls \ {c} : own'[d] = own[d]
  PROVE  Locked' /\ LoadedOnce'
<1>1. ASSUME NEW d \in Calls, NEW p \in Weighted,
             at[d].phase \in {"load", "loading"}
      PROVE  Mine(d, p)' = Mine(d, p)
  <2>1. d # c
    BY <1>1 DEF Building
  <2>2. CASE kind[d] = "ask"
    <3>1. own[d]["service"] \in Calls
      BY <1>1, <2>2 DEF IInv, Placed, Has
    <3>2. own[d]["service"] # c
      BY <3>1, ColdAssumption DEF IInv, Services, Complete
    <3> QED
      BY <2>1, <2>2, <3>1, <3>2 DEF Mine
  <2>3. CASE kind[d] # "ask"
    BY <2>1, <2>3 DEF Mine
  <2> QED
    BY <2>2, <2>3
<1>2. \A d \in Calls : at'[d].phase = "loading" \/ at'[d] = At("reranker", "load")
                         => at'[d] = at[d] /\ d # c
  BY DEF IInv, TypeOK
<1>3. Locked'
  BY <1>1, <1>2 DEF IInv, Locked, At
<1>4. LoadedOnce'
  BY <1>1, <1>2 DEF IInv, LoadedOnce, At, Weighted
<1> QED
  BY <1>3, <1>4

(* A call that is past the builders changes nothing of those inside them.  *)
LEMMA LoadsKeepBuilders ==
  ASSUME IInv, NEW c \in Calls,
         at[c].phase \in {"load", "loading"},
         \A d \in Calls \ {c} : at'[d] = at[d],
         \/ at'[c] \in {Done, Failed, At(at[c].on, "loading")}
         \/ at'[c] = At("reranker", "load") /\ kind[c] = "ask",
         kind' = kind, cache' = cache, own' = own, building' = building, raced' = raced
  PROVE  /\ \A d \in Calls : Placed(d)' /\ Handed(d)'
         /\ Nested' /\ Alone' /\ OneUnlessRaced' /\ Services'
<1>1. at'[c].phase \in {"load", "loading", "done", "failed"}
  BY DEF Done, Failed, At
<1>2. \A d \in Calls : Placed(d)'
  <2>1. Placed(c)'
    BY <1>1 DEF IInv, Placed, Has, At, Done, Failed
  <2> QED
    BY <1>1, <2>1 DEF IInv, Placed, Has
<1>3. \A d \in Calls : Handed(d)'
  BY <1>1 DEF IInv, Handed, Has, Building
<1>4. Nested'
  <2>1. at'[c].on # "bge"
    BY DEF IInv, Placed, At, Done, Failed
  <2> QED
    BY <1>1, <2>1 DEF IInv, Nested, Within, Building, At
<1>5. Alone' /\ OneUnlessRaced'
  BY DEF IInv, Alone, OneUnlessRaced
<1>6. Services'
  BY <1>1 DEF IInv, Services, Complete, Building, Has
<1> QED
  BY <1>2, <1>3, <1>4, <1>5, <1>6

(* A call is handed an object or, as the tracker may be dropped, nothing.   *)
LEMMA HandTyped ==
  ASSUME TypeOK, NEW c \in Calls, NEW p \in Components,
         NEW object \in Calls \union {Nobody}, Hand(c, p, object)
  PROVE  /\ own' \in [Calls -> [Components -> Calls \union {Nobody}]]
         /\ \A d \in Calls \ {c} : own'[d] = own[d]
         /\ \A q \in Components \ {p} : own'[c][q] = own[c][q]
         /\ own'[c][p] = object
BY DEF Hand, TypeOK

(* Who goes on to the next builder has what the earlier ones returned.     *)
LEMMA HandedOn ==
  ASSUME IInv, NEW c \in Calls, NEW p \in Components, NEW place,
         at[c] \in {At(p, "look"), At(p, "build")}, kind[c] \in {"ask", "ingest", "stats"},
         kind' = kind,
         at'[c] = place, \A d \in Calls \ {c} : at'[d] = at[d],
         \A d \in Calls \ {c} : own'[d] = own[d],
         \A q \in Components \ {p} : own'[c][q] = own[c][q],
         p # "tracker" => own'[c][p] \in Calls,
         \/ p = "tracker" /\ place = At("tracker", "take")
         \/ p # "tracker" /\ kind[c] = "ingest" /\ place = At("embedder", "load")
         \/ p # "tracker" /\ kind[c] = "ask" /\ place = Following[p]
  PROVE  \A d \in Calls : Placed(d)' /\ Handed(d)'
<1> USE DEF IInv
<1>1. at[c].on = p /\ at[c].phase \in {"look", "build"}
  BY DEF At
<1>2. Placed(c)' /\ Handed(c)'
  <2>1. CASE p = "tracker"
    BY <1>1, <2>1 DEF Placed, Handed, Has, At, Done, Failed, Building, Components, Weighted
  <2>2. CASE p # "tracker" /\ kind[c] = "ingest"
    BY <1>1, <2>2 DEF Placed, Handed, Has, At, Done, Failed, Building, Components, Weighted
  <2>3. CASE p # "tracker" /\ kind[c] = "ask"
    <3>1. Placed(c)'
      BY <1>1, <2>3, FollowingValues DEF Placed, Has, At, Done, Failed, Components, Weighted
    <3>2. Handed(c)'
      BY <1>1, <2>3, FollowingValues DEF Handed, Has, At, Building, Components, Weighted
    <3> QED
      BY <3>1, <3>2
  <2> QED
    BY <2>1, <2>2, <2>3
<1>3. \A d \in Calls \ {c} : Placed(d)' /\ Handed(d)'
  BY DEF Placed, Handed, Has, Building
<1> QED
  BY <1>2, <1>3

(* A call that finds its object cached stays inside the same builders.     *)
LEMMA StaysWithin ==
  ASSUME IInv, NEW c \in Calls, NEW p \in Components, NEW place,
         at[c].on = p, at[c].phase = "look", kind' = kind, building' = building,
         at'[c] = place, \A d \in Calls \ {c} : at'[d] = at[d],
         \/ p = "tracker" /\ place = At("tracker", "take")
         \/ p # "tracker" /\ kind[c] = "ingest" /\ place = At("embedder", "load")
         \/ p # "tracker" /\ kind[c] = "ask" /\ place = Following[p]
  PROVE  Nested'
<1>1. \A q \in Components : Within(c, q)' => Within(c, q)
  BY FollowingValues DEF Within, At, Building, Components, Weighted
<1> QED
  BY <1>1 DEF IInv, Nested, Within, Building

(* Every step preserves the invariant, action by action.                   *)
LEMMA NextPreserves == IInv /\ [Next]_vars => IInv'
<1> SUFFICES ASSUME IInv, [Next]_vars PROVE IInv'
  OBVIOUS
<1> USE DEF IInv
<1>k. \A c \in Calls : kind[c] \in {"ask", "ingest", "stats", "health"}
  BY Kinds
<1>1. ASSUME NEW c \in Calls, NEW p \in Components, CacheHit(c, p) PROVE IInv'
  <2>1. /\ kind[c] \in {"ask", "ingest", "stats"} /\ at[c].on = p /\ at[c].phase = "look"
        /\ kind[c] = "stats" => p = "tracker"
        /\ kind[c] = "ingest" => p = "embedder"
    BY <1>1, <1>k DEF CacheHit, Looks, Placed, At, Done, Failed
  <2>2. PICK place \in [on : Components, phase : Phases] :
          /\ at' = [at EXCEPT ![c] = place]
          /\ place = IF p = "tracker" THEN At("tracker", "take") ELSE After(c, p)
    <3>1. CASE p = "tracker"
      BY <1>1, <3>1 DEF CacheHit, Goto, At, Phases, Components
    <3>2. CASE p # "tracker"
      BY <1>1, <2>1, <3>2, AfterIsPlace DEF CacheHit, Goto
    <3> QED
      BY <3>1, <3>2
  <2>3. /\ own' \in [Calls -> [Components -> Calls \union {Nobody}]]
        /\ \A d \in Calls \ {c} : own'[d] = own[d]
        /\ \A q \in Components \ {p} : own'[c][q] = own[c][q]
        /\ own'[c][p] = IF p = "tracker" THEN own[c][p] ELSE cache[p]
    <3>1. CASE p = "tracker"
      BY <1>1, <3>1 DEF CacheHit, TypeOK
    <3>2. CASE p # "tracker"
      BY <1>1, <3>2, HandTyped DEF CacheHit, TypeOK
    <3> QED
      BY <3>1, <3>2
  <2>4. TypeOK'
    BY <1>1, <2>2, <2>3 DEF CacheHit, TypeOK
  <2>5. /\ cache[p] \in Calls
        /\ at'[c] = place /\ \A d \in Calls \ {c} : at'[d] = at[d]
        /\ \/ p = "tracker" /\ place = At("tracker", "take")
           \/ p # "tracker" /\ kind[c] = "ingest" /\ place = At("embedder", "load")
           \/ p # "tracker" /\ kind[c] = "ask" /\ place = Following[p]
    BY <1>1, <2>1, <2>2, AfterValues DEF CacheHit, TypeOK
  <2>6. Locked' /\ LoadedOnce'
    <3>1. place.phase # "loading" /\ place # At("reranker", "load")
      BY <2>5, FollowingValues DEF At, Done, Components, Weighted
    <3> QED
      BY <1>1, <2>1, <2>2, <2>3, <3>1, BuildersKeepLoads DEF CacheHit, Building
  <2>7. \A d \in Calls : Placed(d)' /\ Handed(d)'
    <3>1. at[c] \in {At(p, "look"), At(p, "build")} /\ kind' = kind
      BY <1>1 DEF CacheHit, Looks
    <3>2. p # "tracker" => own'[c][p] \in Calls
      BY <2>3, <2>5
    <3> QED
      BY <2>1, <2>3, <2>5, <3>1, <3>2, HandedOn
  <2>8. Nested'
    BY <1>1, <2>1, <2>5, StaysWithin DEF CacheHit
  <2>9. Alone' /\ OneUnlessRaced'
    BY <1>1, <2>3 DEF CacheHit, Alone, OneUnlessRaced
  <2>10. Services'
    BY <1>1, <2>1, <2>3, <2>5 DEF CacheHit, Services, Complete, Building, Has, Components, Weighted
  <2> QED
    BY <2>4, <2>6, <2>7, <2>8, <2>9, <2>10
<1>2. ASSUME NEW c \in Calls, NEW p \in Components, CacheMiss(c, p) PROVE IInv'
  <2>1. /\ kind[c] \in {"ask", "ingest", "stats"} /\ at[c].on = p /\ at[c].phase = "look"
        /\ kind[c] = "stats" => p = "tracker"
        /\ kind[c] = "ingest" => p = "embedder"
    BY <1>2, <1>k DEF CacheMiss, Looks, Placed, At, Done, Failed
  <2>2. /\ Inner(p) \in [on : Components, phase : Phases]
        /\ at'[c] = Inner(p) /\ \A d \in Calls \ {c} : at'[d] = at[d]
        /\ at' = [at EXCEPT ![c] = Inner(p)]
    BY <1>2, InnerIsPlace DEF CacheMiss, EnterBuilder, Goto, TypeOK
  <2>3. /\ building'[p] = building[p] \union {c}
        /\ \A q \in Components \ {p} : building'[q] = building[q]
        /\ raced' = IF building[p] = {} THEN raced ELSE raced \union {p}
        /\ UNCHANGED <<keyed, kind, cache, own, lock, weights>>
        /\ cache[p] = Nobody
    BY <1>2 DEF CacheMiss, EnterBuilder, TypeOK
  <2>4. TypeOK'
    BY <1>2, <2>2 DEF CacheMiss, EnterBuilder, TypeOK
  <2>5. /\ p = "service" => Inner(p) = At("embedder", "look")
        /\ p = "reranker" => Inner(p) = At("bge", "look")
        /\ p \notin {"service", "reranker"} => Inner(p) = At(p, "build")
    BY InnerValues
  <2>6. Locked' /\ LoadedOnce'
    <3>1. Inner(p).phase # "loading" /\ Inner(p) # At("reranker", "load")
      BY <2>5 DEF At
    <3> QED
      BY <2>1, <2>2, <2>3, <3>1, BuildersKeepLoads DEF Building, TypeOK
  <2>7. \A d \in Calls : Placed(d)' /\ Handed(d)'
    <3>1. Placed(c)' /\ Handed(c)'
      BY <2>1, <2>2, <2>3, <2>5 DEF Placed, Handed, Has, At, Done, Failed, Building
    <3>2. \A d \in Calls \ {c} : Placed(d)' /\ Handed(d)'
      BY <2>2, <2>3 DEF Placed, Handed, Has, Building
    <3> QED
      BY <3>1, <3>2
  <2>8. Nested'
    <3>1. \A q \in Components : Within(c, q)' => q = p \/ Within(c, q)
      BY <2>1, <2>2, <2>3, <2>5 DEF Within, At, Building
    <3> QED
      BY <2>2, <2>3, <3>1 DEF Nested, Within, Building
  <2>9. Alone' /\ OneUnlessRaced'
    BY <2>3 DEF Alone, OneUnlessRaced, TypeOK
  <2>10. Services'
    BY <2>1, <2>2, <2>3 DEF Services, Complete, Building, Has
  <2> QED
    BY <2>4, <2>6, <2>7, <2>8, <2>9, <2>10
<1>3. ASSUME NEW c \in Calls, NEW p \in Components, Build(c, p) PROVE IInv'
  <2>1. /\ kind[c] \in {"ask", "ingest", "stats"} /\ at[c].on = p /\ at[c].phase = "build"
        /\ kind[c] = "stats" => p = "tracker"
        /\ kind[c] = "ingest" => p = "embedder"
    BY <1>3, <1>k DEF Build, Placed, At, Done, Failed
  <2>2. PICK place \in [on : Components, phase : Phases] :
          /\ at' = [at EXCEPT ![c] = place]
          /\ place = IF p = "tracker" THEN At("tracker", "take") ELSE After(c, p)
    <3>1. CASE p = "tracker"
      BY <1>3, <3>1 DEF Build, Goto, At, Phases, Components
    <3>2. CASE p # "tracker"
      BY <1>3, <2>1, <3>2, AfterIsPlace DEF Build, Goto
    <3> QED
      BY <3>1, <3>2
  <2>b. Built(c, p) \in Calls
    BY <1>3, <2>1 DEF Build, Built, Handed, Has, Building, At
  <2>3. /\ own' \in [Calls -> [Components -> Calls \union {Nobody}]]
        /\ \A d \in Calls \ {c} : own'[d] = own[d]
        /\ \A q \in Components \ {p} : own'[c][q] = own[c][q]
        /\ own'[c][p] = IF p = "tracker" THEN own[c][p] ELSE Built(c, p)
    <3>1. CASE p = "tracker"
      BY <1>3, <3>1 DEF Build, TypeOK
    <3>2. CASE p # "tracker"
      BY <1>3, <2>b, <3>2, HandTyped DEF Build, TypeOK
    <3> QED
      BY <3>1, <3>2
  <2>c. /\ cache' = [cache EXCEPT ![p] = Built(c, p)]
        /\ cache'[p] = Built(c, p) /\ \A q \in Components \ {p} : cache'[q] = cache[q]
        /\ building'[p] = building[p] \ {c} /\ \A q \in Components \ {p} : building'[q] = building[q]
        /\ UNCHANGED <<keyed, kind, lock, weights, raced>>
    BY <1>3 DEF Build, TypeOK
  <2>4. TypeOK'
    <3>1. at' \in [Calls -> [on : Components, phase : Phases]]
      BY <2>2 DEF TypeOK
    <3>2. cache' \in [Components -> Calls \union {Nobody}]
      BY <2>b, <2>c DEF TypeOK
    <3>3. building' \in [Components -> SUBSET Calls]
      BY <1>3 DEF Build, TypeOK
    <3> QED
      BY <2>3, <2>c, <3>1, <3>2, <3>3 DEF TypeOK
  <2>5. /\ at'[c] = place /\ \A d \in Calls \ {c} : at'[d] = at[d]
        /\ \/ p = "tracker" /\ place = At("tracker", "take")
           \/ p # "tracker" /\ kind[c] = "ingest" /\ place = At("embedder", "load")
           \/ p # "tracker" /\ kind[c] = "ask" /\ place = Following[p]
    BY <2>1, <2>2, AfterValues DEF TypeOK
  <2>6. Locked' /\ LoadedOnce'
    <3>1. place.phase # "loading" /\ place # At("reranker", "load")
      BY <2>5, FollowingValues DEF At, Done, Components, Weighted
    <3> QED
      BY <2>1, <2>2, <2>3, <2>c, <3>1, BuildersKeepLoads DEF Building
  <2>7. \A d \in Calls : Placed(d)' /\ Handed(d)'
    <3>1. at[c] \in {At(p, "look"), At(p, "build")} /\ kind' = kind
      BY <1>3, <2>c DEF Build
    <3>2. p # "tracker" => own'[c][p] \in Calls
      BY <2>3, <2>b
    <3> QED
      BY <2>1, <2>3, <2>5, <3>1, <3>2, HandedOn
  <2>8. Nested'
    <3>1. \A q \in Components : Within(c, q)' => q # p /\ Within(c, q)
      BY <1>3, <2>1, <2>5, <2>c, FollowingValues DEF Build, Within, At, Building, Components, Weighted
    <3> QED
      BY <2>5, <2>c, <3>1 DEF Nested, Within, Building
  <2>9. Alone' /\ OneUnlessRaced'
    <3>1. c \in building[p]
      BY <1>3 DEF Build, Nested, Within
    <3>2. p \notin raced => building'[p] = {}
      BY <2>c, <3>1 DEF Alone
    <3>3. p \notin raced => \A d \in Calls : own[d][p] = Nobody
      BY <3>1 DEF Alone, OneUnlessRaced
    <3> QED
      BY <2>3, <2>b, <2>c, <3>2, <3>3 DEF Alone, OneUnlessRaced
  <2>10. Services'
    <3>1. \A o \in Calls \union {Nobody} : o # c /\ Complete(o) => Complete(o)'
      BY <2>3, <2>5, <2>c DEF Complete, Building, Has
    <3>2. \A o \in Calls \union {Nobody} : Complete(o) => o # c
      BY <2>1, ColdAssumption DEF Complete, Building
    <3>3. p = "service" => Built(c, p) = c /\ Complete(c)'
      BY <1>3, <2>1, <2>3, <2>5, FollowingValues
      DEF Build, Built, Handed, Complete, Building, Has, At, Components, Weighted
    <3>4. cache["service"] \in Calls \union {Nobody}
          /\ \A d \in Calls : own[d]["service"] \in Calls \union {Nobody}
      BY DEF TypeOK, Components
    <3>5. Complete(cache["service"])'
      BY <2>c, <3>1, <3>2, <3>3, <3>4 DEF Services, Components
    <3>6. \A d \in Calls : Complete(own[d]["service"])'
      BY <2>3, <3>1, <3>2, <3>3, <3>4 DEF Services, Components
    <3> QED
      BY <3>5, <3>6 DEF Services
  <2> QED
    BY <2>4, <2>6, <2>7, <2>8, <2>9, <2>10
<1>4. ASSUME NEW c \in Calls, TakeTracker(c) PROVE IInv'
  <2>1. kind[c] \in {"ask", "stats"} /\ at[c].on = "tracker" /\ at[c].phase = "take"
    BY <1>4, <1>k DEF TakeTracker, Placed, At, Done, Failed
  <2>2. /\ at' = [at EXCEPT ![c] = After(c, "tracker")]
        /\ After(c, "tracker") \in {At("service", "build"), Done}
        /\ kind[c] = "ask" => After(c, "tracker") = At("service", "build")
        /\ kind[c] = "stats" => After(c, "tracker") = Done
        /\ at'[c] = After(c, "tracker") /\ \A d \in Calls \ {c} : at'[d] = at[d]
    BY <1>4, <2>1, AfterValues, FollowingValues DEF TakeTracker, Goto, Components, TypeOK
  <2>3. /\ own' \in [Calls -> [Components -> Calls \union {Nobody}]]
        /\ \A d \in Calls \ {c} : own'[d] = own[d]
        /\ \A q \in Components \ {"tracker"} : own'[c][q] = own[c][q]
        /\ own'[c]["tracker"] = cache["tracker"]
        /\ UNCHANGED <<keyed, kind, cache, lock, weights, building, raced>>
    <3>1. cache["tracker"] \in Calls \union {Nobody} /\ "tracker" \in Components
      BY DEF TypeOK, Components
    <3>2. Hand(c, "tracker", cache["tracker"])
          /\ UNCHANGED <<keyed, kind, cache, lock, weights, building, raced>>
      BY <1>4 DEF TakeTracker
    <3> QED
      BY <3>1, <3>2, HandTyped
  <2>4. TypeOK'
    <3>1. After(c, "tracker") \in [on : Components, phase : Phases]
      BY <2>2 DEF Done, At, Components, Phases
    <3>2. at' \in [Calls -> [on : Components, phase : Phases]]
      BY <2>2, <3>1 DEF TypeOK
    <3> QED
      BY <2>3, <3>2 DEF TypeOK
  <2>6. Locked' /\ LoadedOnce'
    <3>1. After(c, "tracker").phase # "loading" /\ After(c, "tracker") # At("reranker", "load")
      BY <2>2 DEF At, Done
    <3> QED
      BY <2>1, <2>2, <2>3, <3>1, BuildersKeepLoads DEF Building
  <2>7. \A d \in Calls : Placed(d)' /\ Handed(d)'
    <3>1. Placed(c)' /\ Handed(c)'
      BY <2>1, <2>2, <2>3 DEF Placed, Handed, Has, At, Done, Failed, Building, Components, Weighted
    <3>2. \A d \in Calls \ {c} : Placed(d)' /\ Handed(d)'
      BY <2>2, <2>3 DEF Placed, Handed, Has, Building
    <3> QED
      BY <3>1, <3>2
  <2>8. Nested'
    <3>1. \A q \in Components : Within(c, q)' => Within(c, q)
      BY <2>1, <2>2, <2>3 DEF Within, At, Done, Building
    <3> QED
      BY <2>2, <2>3, <3>1 DEF Nested, Within, Building
  <2>9. Alone' /\ OneUnlessRaced'
    BY <2>3 DEF Alone, OneUnlessRaced
  <2>10. Services'
    BY <2>1, <2>2, <2>3 DEF Services, Complete, Building, Has, Components, Weighted
  <2> QED
    BY <2>4, <2>6, <2>7, <2>8, <2>9, <2>10
<1>5. ASSUME NEW c \in Calls, Unconfigured(c) PROVE IInv'
  <2>1. kind[c] = "ask" /\ at[c].on = "provider" /\ at[c].phase = "build"
    BY <1>5, <1>k DEF Unconfigured, Placed, At, Done, Failed
  <2>2. /\ at' = [at EXCEPT ![c] = Failed]
        /\ at'[c] = Failed /\ \A d \in Calls \ {c} : at'[d] = at[d]
        /\ \A q \in Components : building'[q] = building[q] \ {c}
        /\ UNCHANGED <<keyed, kind, cache, own, lock, weights, raced>>
    BY <1>5 DEF Unconfigured, Goto, TypeOK
  <2>4. TypeOK'
    BY <1>5 DEF Unconfigured, Goto, TypeOK, Failed, At, Phases, Components, Weighted
  <2>6. Locked' /\ LoadedOnce'
    <3>1. Failed.phase # "loading" /\ Failed # At("reranker", "load")
      BY DEF Failed, At
    <3> QED
      BY <2>1, <2>2, <3>1, BuildersKeepLoads DEF Building, TypeOK
  <2>7. \A d \in Calls : Placed(d)' /\ Handed(d)'
    BY <2>1, <2>2 DEF Placed, Handed, Has, Building, Failed, At
  <2>8. Nested'
    BY <2>2 DEF Nested, Within, Building, Failed, At
  <2>9. Alone' /\ OneUnlessRaced'
    BY <2>2 DEF Alone, OneUnlessRaced
  <2>10. Services'
    BY <2>1, <2>2 DEF Services, Complete, Building, Has, Failed, At
  <2> QED
    BY <2>4, <2>6, <2>7, <2>8, <2>9, <2>10
<1>m. \A c \in Calls, p \in Weighted : at[c].on = p /\ at[c].phase \in {"load", "loading"}
        => Mine(c, p) \in Calls
  BY ColdAssumption DEF Placed, Services, Complete, Has, Mine, Weighted
<1>6. ASSUME NEW c \in Calls, NEW p \in Weighted, LoadBegins(c, p) PROVE IInv'
  <2>1. TypeOK'
    BY <1>6 DEF LoadBegins, Goto, TypeOK, At, Phases, Components
  <2>2. /\ at' = [at EXCEPT ![c] = At(p, "loading")]
        /\ at[c].on = p /\ at[c].phase = "load"
        /\ UNCHANGED <<kind, cache, own, building, raced, weights>>
    BY <1>6 DEF LoadBegins, Unlocked, Goto, At
  <2>3. /\ \A d \in Calls : Placed(d)' /\ Handed(d)'
        /\ Nested' /\ Alone' /\ OneUnlessRaced' /\ Services'
    <3>1. at[c].phase \in {"load", "loading"} /\ kind' = kind /\ cache' = cache
          /\ own' = own /\ building' = building /\ raced' = raced
      BY <2>2
    <3>2. at'[c] = At(at[c].on, "loading") /\ \A d \in Calls \ {c} : at'[d] = at[d]
      BY <2>2 DEF TypeOK
    <3> QED
      BY <3>1, <3>2, LoadsKeepBuilders
  <2>4. Locked'
    <3>1. /\ \A d \in Calls, q \in Weighted : Mine(d, q)' = Mine(d, q)
          /\ Mine(c, p) \in Calls
      BY <1>m, <2>2 DEF Mine
    <3>2. /\ lock[p][Mine(c, p)] = Nobody /\ weights[p][Mine(c, p)] = 0
          /\ lock' = [lock EXCEPT ![p][Mine(c, p)] = c]
      BY <1>6 DEF LoadBegins, Unlocked
    <3> QED
      BY <2>2, <3>1, <3>2, ColdAssumption DEF Locked, TypeOK, At
  <2>5. LoadedOnce'
    <3>1. \A d \in Calls : at'[d] = At("reranker", "load") => at'[d] = at[d]
      BY <2>2 DEF TypeOK, At
    <3> QED
      BY <2>2, <3>1 DEF LoadedOnce, Mine
  <2> QED
    BY <2>1, <2>3, <2>4, <2>5
<1>7. ASSUME NEW c \in Calls, NEW p \in Weighted, LoadCached(c, p) PROVE IInv'
  <2>1. TypeOK'
    BY <1>7 DEF LoadCached, Proceed, Onward, Goto, TypeOK, Done, At, Phases, Components, Weighted
  <2>2. PICK place \in Onward(c, p) : at' = [at EXCEPT ![c] = place]
    BY <1>7 DEF LoadCached, Proceed, Goto
  <2>3. /\ at[c].on = p /\ at[c].phase = "load"
        /\ UNCHANGED <<kind, cache, own, building, raced, weights, lock>>
        /\ weights[p][Mine(c, p)] # 0
    BY <1>7 DEF LoadCached, Unlocked, At
  <2>4. /\ \A d \in Calls : Placed(d)' /\ Handed(d)'
        /\ Nested' /\ Alone' /\ OneUnlessRaced' /\ Services'
    <3>1. at[c].phase \in {"load", "loading"} /\ kind' = kind /\ cache' = cache
          /\ own' = own /\ building' = building /\ raced' = raced
      BY <2>3
    <3>2. at'[c] = place /\ \A d \in Calls \ {c} : at'[d] = at[d]
      BY <2>2 DEF TypeOK
    <3>3. place = Done \/ (place = At("reranker", "load") /\ kind[c] = "ask")
      BY <2>2 DEF Onward
    <3> QED
      BY <3>1, <3>2, <3>3, LoadsKeepBuilders
  <2>5. Locked'
    BY <2>2, <2>3 DEF Locked, Onward, Mine, TypeOK, At, Done
  <2>6. LoadedOnce'
    <3>1. place = At("reranker", "load") => p = "embedder"
      BY DEF Onward, At, Done
    <3>2. p = "embedder" => weights["embedder"][Mine(c, "embedder")] = 1
      <4>1. Mine(c, p) \in Calls
        BY <1>m, <2>3
      <4>2. weights[p][Mine(c, p)] \in Nat /\ weights[p][Mine(c, p)] <= 1
        BY <4>1 DEF LoadedOnce, TypeOK
      <4> QED
        BY <2>3, <4>2
    <3> QED
      BY <2>2, <2>3, <3>1, <3>2 DEF LoadedOnce, Mine, TypeOK
  <2> QED
    BY <2>1, <2>4, <2>5, <2>6
<1>8. ASSUME NEW c \in Calls, NEW p \in Weighted, LoadEnds(c, p) PROVE IInv'
  <2>1. TypeOK'
    <3>1. at' \in [Calls -> [on : Components, phase : Phases]]
      BY <1>8 DEF LoadEnds, Proceed, Onward, Goto, TypeOK, Done, At, Phases, Components, Weighted
    <3>2. lock' \in [Weighted -> [Calls -> Calls \union {Nobody}]]
      BY <1>8 DEF LoadEnds, Release, TypeOK
    <3>3. weights' \in [Weighted -> [Calls -> Nat]]
      <4>1. \A n \in Nat : n + 1 \in Nat
        OBVIOUS
      <4>2. weights' = [weights EXCEPT ![p] = [weights[p] EXCEPT ![Mine(c, p)] = @ + 1]]
        BY <1>8 DEF LoadEnds
      <4>3. [weights[p] EXCEPT ![Mine(c, p)] = @ + 1] \in [Calls -> Nat]
        <5>1. Mine(c, p) \in Calls /\ weights[p] \in [Calls -> Nat]
          <6>1. at[c].on = p /\ at[c].phase = "loading"
            BY <1>8 DEF LoadEnds, At
          <6> QED
            BY <6>1, <1>m DEF TypeOK
        <5>2. weights[p][Mine(c, p)] + 1 \in Nat
          BY <4>1, <5>1
        <5> QED
          BY <5>1, <5>2
      <4> QED
        BY <4>2, <4>3 DEF TypeOK
    <3> QED
      BY <1>8, <3>1, <3>2, <3>3 DEF LoadEnds, TypeOK
  <2>2. PICK place \in Onward(c, p) : at' = [at EXCEPT ![c] = place]
    BY <1>8 DEF LoadEnds, Proceed, Goto
  <2>3. /\ at[c] = At(p, "loading") /\ at[c].on = p /\ at[c].phase = "loading"
        /\ weights' = [weights EXCEPT ![p][Mine(c, p)] = @ + 1]
        /\ lock' = [lock EXCEPT ![p][Mine(c, p)] = Nobody]
        /\ UNCHANGED <<kind, cache, own, building, raced>>
    BY <1>8 DEF LoadEnds, Release, At
  <2>4. /\ \A d \in Calls : Placed(d)' /\ Handed(d)'
        /\ Nested' /\ Alone' /\ OneUnlessRaced' /\ Services'
    <3>1. at[c].phase \in {"load", "loading"} /\ kind' = kind /\ cache' = cache
          /\ own' = own /\ building' = building /\ raced' = raced
      BY <2>3
    <3>2. at'[c] = place /\ \A d \in Calls \ {c} : at'[d] = at[d]
      BY <2>2 DEF TypeOK
    <3>3. place = Done \/ (place = At("reranker", "load") /\ kind[c] = "ask")
      BY <2>2 DEF Onward
    <3> QED
      BY <3>1, <3>2, <3>3, LoadsKeepBuilders
  <2>5. /\ \A d \in Calls, q \in Weighted : Mine(d, q)' = Mine(d, q)
        /\ Mine(c, p) \in Calls
        /\ lock[p][Mine(c, p)] = c /\ weights[p][Mine(c, p)] = 0
    BY <1>m, <2>3 DEF Mine, Locked
  <2>6. Locked'
    <3>1. \A d \in Calls, q \in Weighted : at'[d] = At(q, "loading") =>
            d # c /\ at[d] = At(q, "loading")
      BY <2>2 DEF TypeOK, Onward, At, Done
    <3> QED
      BY <2>3, <2>5, <3>1 DEF Locked, TypeOK
  <2>7. LoadedOnce'
    <3>1. \A q \in Weighted, object \in Calls :
            weights'[q][object] = IF q = p /\ object = Mine(c, p) THEN 1 ELSE weights[q][object]
      BY <2>3, <2>5 DEF TypeOK
    <3>2. place = At("reranker", "load") => p = "embedder"
      BY DEF Onward, At, Done
    <3>3. \A d \in Calls : at[d] = At("reranker", "load") => Mine(d, "embedder") \in Calls
      BY ColdAssumption DEF Placed, Services, Complete, Has, Mine, At
    <3>4. \A d \in Calls : at'[d] = At("reranker", "load")
            => weights'["embedder"][Mine(d, "embedder")] = 1
      BY <2>2, <2>5, <3>1, <3>2, <3>3 DEF LoadedOnce, TypeOK, Weighted
    <3>5. \A d \in Calls : at'[d] = At("reranker", "load")
            => weights'["embedder"][Mine(d, "embedder")'] = 1
      BY <2>5, <3>4 DEF Weighted
    <3>6. \A q \in Weighted, object \in Calls : weights'[q][object] <= 1
      BY <3>1 DEF LoadedOnce
    <3> QED
      BY <3>5, <3>6 DEF LoadedOnce
  <2> QED
    BY <2>1, <2>4, <2>6, <2>7
<1>9. ASSUME NEW c \in Calls, NEW p \in Weighted, LoadFails(c, p) PROVE IInv'
  <2>1. TypeOK'
    BY <1>9 DEF LoadFails, Release, Goto, TypeOK, Failed, At, Phases, Components
  <2>2. /\ at' = [at EXCEPT ![c] = Failed]
        /\ at[c] = At(p, "loading") /\ at[c].on = p /\ at[c].phase = "loading"
        /\ lock' = [lock EXCEPT ![p][Mine(c, p)] = Nobody]
        /\ UNCHANGED <<kind, cache, own, building, raced, weights>>
    BY <1>9 DEF LoadFails, Release, Goto, At
  <2>3. /\ \A d \in Calls : Placed(d)' /\ Handed(d)'
        /\ Nested' /\ Alone' /\ OneUnlessRaced' /\ Services'
    <3>1. at[c].phase \in {"load", "loading"} /\ kind' = kind /\ cache' = cache
          /\ own' = own /\ building' = building /\ raced' = raced
      BY <2>2
    <3>2. at'[c] = Failed /\ \A d \in Calls \ {c} : at'[d] = at[d]
      BY <2>2 DEF TypeOK
    <3> QED
      BY <3>1, <3>2, LoadsKeepBuilders
  <2>4. Locked'
    <3>1. /\ \A d \in Calls, q \in Weighted : Mine(d, q)' = Mine(d, q)
          /\ Mine(c, p) \in Calls /\ lock[p][Mine(c, p)] = c
      BY <1>m, <2>2 DEF Mine, Locked
    <3>2. \A d \in Calls, q \in Weighted : at'[d] = At(q, "loading") =>
            d # c /\ at[d] = At(q, "loading")
      BY <2>2 DEF TypeOK, Failed, At
    <3> QED
      BY <2>2, <3>1, <3>2 DEF Locked, TypeOK
  <2>5. LoadedOnce'
    BY <2>2 DEF LoadedOnce, Mine, TypeOK, Failed, At
  <2> QED
    BY <2>1, <2>3, <2>4, <2>5
<1>10. ASSUME UNCHANGED vars PROVE IInv'
  BY <1>10 DEF vars, TypeOK, Placed, Handed, Has, Building, Nested, Within, Alone,
    OneUnlessRaced, Services, Complete, Locked, LoadedOnce, Mine
<1> QED
  BY <1>1, <1>2, <1>3, <1>4, <1>5, <1>6, <1>7, <1>8, <1>9, <1>10 DEF Next, Advance, Finished

-----------------------------------------------------------------------------
(* The theorems.                                                           *)

(* The inductive invariant holds in every reachable state.                 *)
THEOREM Invariance == Spec => []IInv
<1>1. IInv /\ [Next]_vars => IInv'
  BY NextPreserves
<1> QED
  BY <1>1, InitEstablishes, PTL DEF Spec

(* Types of every variable.                                                *)
THEOREM TypeCorrect == Spec => []TypeOK
<1>1. IInv => TypeOK
  BY DEF IInv
<1> QED
  BY <1>1, Invariance, PTL

(* There is one of everything unless builders overlapped (deps.py,         *)
(* "singletons").                                                          *)
THEOREM OneOfEverything == Spec => []OneUnlessRaced
<1>1. IInv => OneUnlessRaced
  BY DEF IInv
<1> QED
  BY <1>1, Invariance, PTL

(* Weights are loaded once per object, whichever loads fail (embed.py      *)
(* load, rerank.py _load).                                                 *)
THEOREM WeightsLoadOnce == Spec => []LoadedOnce
<1>1. IInv => LoadedOnce
  BY DEF IInv
<1> QED
  BY <1>1, Invariance, PTL

=============================================================================
