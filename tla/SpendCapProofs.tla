--------------------------- MODULE SpendCapProofs ---------------------------
(***************************************************************************)
(* Proofs about SpendCap: the spend ledger is sound for every cap, every   *)
(* set of calls, every amounts and any number of midnights.                *)
(***************************************************************************)
EXTENDS SpendCap, FiniteSetTheorems, TLAPS

-----------------------------------------------------------------------------
(* Sums over finite sets.  Induction on the set is a least counterexample: *)
(* strict inclusion is well-founded on the subsets of a finite set.        *)

LEMMA LeastSubset ==
  ASSUME NEW S, IsFiniteSet(S), NEW F \in SUBSET SUBSET S, F # {}
  PROVE  \E U \in F : \A V \in F : V \subseteq U => V = U
<1>1. IsWellFoundedOn(StrictSubsetOrdering(S), FiniteSubsetsOf(S))
  BY FS_StrictSubsetOrderingWellFounded
<1>2. F \subseteq FiniteSubsetsOf(S)
  BY FS_FiniteSubsetsOfFinite
<1>3. PICK U \in F : \A V \in F : <<V, U>> \notin StrictSubsetOrdering(S)
  BY <1>1, <1>2, WFMin
<1>4. QED
  BY <1>3 DEF StrictSubsetOrdering

(* total maps every subset of S to the sum of f over it, element by        *)
(* element, in the order in which the fold picks them.                     *)
First(s) == CHOOSE x \in s : TRUE
Adds(total, f, S) ==
  total = [s \in SUBSET S |-> IF s = {} THEN 0
                              ELSE f[First(s)] + total[s \ {First(s)}]]

(* Such a map is determined by the values of f.                            *)
LEMMA AddsDetermined ==
  ASSUME NEW f, NEW e, NEW S, NEW g, NEW h, NEW U \in SUBSET S, IsFiniteSet(U),
         Adds(g, f, S), Adds(h, e, U),
         \A x \in U : f[x] = e[x]
  PROVE  g[U] = h[U]
<1> DEFINE Bad == {V \in SUBSET U : g[V] # h[V]}
<1>1. SUFFICES ASSUME Bad # {} PROVE FALSE
  OBVIOUS
<1>2. PICK V \in Bad : \A W \in Bad : W \subseteq V => W = V
  <2> HIDE DEF Bad
  <2>1. Bad \in SUBSET SUBSET U
    BY DEF Bad
  <2>2. QED
    BY <1>1, <2>1, LeastSubset
<1>3. CASE V = {}
  BY <1>3 DEF Adds
<1>4. CASE V # {}
  <2>1. First(V) \in V
    BY <1>4 DEF First
  <2>2. g[V \ {First(V)}] = h[V \ {First(V)}]
    BY <1>2, <2>1
  <2>3. g[V] = f[First(V)] + g[V \ {First(V)}]
    BY <1>4 DEF Adds
  <2>4. h[V] = e[First(V)] + h[V \ {First(V)}]
    BY <1>4 DEF Adds
  <2>5. QED
    BY <2>1, <2>2, <2>3, <2>4
<1>5. QED
  BY <1>3, <1>4

(* There is one for every finite set.                                      *)
LEMMA AddsExists ==
  ASSUME NEW f, NEW S, IsFiniteSet(S)
  PROVE  \E g : Adds(g, f, S)
<1> DEFINE Bad == {T \in SUBSET S : ~\E g : Adds(g, f, T)}
<1>1. SUFFICES ASSUME Bad # {} PROVE FALSE
  OBVIOUS
<1>2. PICK T \in Bad : \A W \in Bad : W \subseteq T => W = T
  <2> HIDE DEF Bad
  <2>1. Bad \in SUBSET SUBSET S
    BY DEF Bad
  <2>2. QED
    BY <1>1, <2>1, LeastSubset
<1> DEFINE of(U) == CHOOSE g : Adds(g, f, U)
           rest(U) == U \ {First(U)}
<1>3. ASSUME NEW U \in SUBSET T, U # T PROVE Adds(of(U), f, U)
  <2>1. \E g : Adds(g, f, U)
    BY <1>2, <1>3
  <2>2. QED
    BY <2>1
<1>4. ASSUME NEW U \in SUBSET T, U # T, U # {}
      PROVE  of(U)[U] = f[First(U)] + of(rest(U))[rest(U)]
  <2>1. rest(U) \subseteq U /\ rest(U) # T
    BY <1>4 DEF First
  <2>2. IsFiniteSet(rest(U))
    BY FS_Subset
  <2>3. Adds(of(U), f, U) /\ Adds(of(rest(U)), f, rest(U))
    BY <1>3, <1>4, <2>1
  <2>4. of(U)[rest(U)] = of(rest(U))[rest(U)]
    <3> DEFINE g == of(U)
               h == of(rest(U))
               R == rest(U)
    <3>1. Adds(g, f, U) /\ Adds(h, f, R) /\ IsFiniteSet(R) /\ R \subseteq U
      BY <2>1, <2>2, <2>3
    <3> HIDE DEF g, h, R
    <3>2. R \in SUBSET R /\ \A x \in R : f[x] = f[x]
      OBVIOUS
    <3>3. g[R] = h[R]
      BY <3>1, <3>2, AddsDetermined
    <3>4. QED
      BY <3>3 DEF g, h, R
  <2>5. of(U)[U] = f[First(U)] + of(U)[rest(U)]
    BY <1>4, <2>3 DEF Adds
  <2>6. QED
    BY <2>4, <2>5
<1>5. ASSUME T # {} PROVE of({})[{}] = 0
  BY <1>3, <1>5 DEF Adds
<1> DEFINE h == [s \in SUBSET T |->
                   IF s # T THEN of(s)[s]
                   ELSE IF T = {} THEN 0 ELSE f[First(T)] + of(rest(T))[rest(T)]]
<1>6. ASSUME NEW s \in SUBSET T
      PROVE  h[s] = IF s = {} THEN 0 ELSE f[First(s)] + h[rest(s)]
  <2>1. CASE s = {}
    BY <1>5, <2>1
  <2>2. CASE s # {}
    <3>1. rest(s) \in SUBSET T /\ rest(s) # T
      BY <2>2 DEF First
    <3>2. h[rest(s)] = of(rest(s))[rest(s)]
      BY <3>1
    <3>3. h[s] = f[First(s)] + of(rest(s))[rest(s)]
      BY <1>4, <2>2
    <3>4. QED
      BY <2>2, <3>2, <3>3
  <2>3. QED
    BY <2>1, <2>2
<1>7. h = [s \in SUBSET T |-> h[s]]
  OBVIOUS
<1>8. Adds(h, f, T)
  <2> HIDE DEF h
  <2>1. QED
    BY <1>6, <1>7 DEF Adds
<1>9. QED
  BY <1>2, <1>8

(* The library's sum is such a map.                                        *)
LEMMA SumAdds ==
  ASSUME NEW f, NEW S, IsFiniteSet(S)
  PROVE  \E g : Adds(g, f, S) /\ SumFunctionOnSet(f, S) = g[S]
<1> DEFINE g == CHOOSE h : Adds(h, f, S)
<1>1. Adds(g, f, S)
  BY AddsExists
<1>2. SumFunctionOnSet(f, S) = g[S]
  BY DEF SumFunctionOnSet, FoldFunctionOnSet, MapThenFoldSet, Adds, First
<1>3. QED
  BY <1>1, <1>2

LEMMA SumEmpty ==
  ASSUME NEW f
  PROVE  SumFunctionOnSet(f, {}) = 0
<1>1. PICK g : Adds(g, f, {}) /\ SumFunctionOnSet(f, {}) = g[{}]
  BY SumAdds, FS_EmptySet
<1>2. QED
  BY <1>1 DEF Adds

(* A sum depends only on the values summed.                                *)
LEMMA SumDetermined ==
  ASSUME NEW f, NEW e, NEW S, IsFiniteSet(S), \A x \in S : f[x] = e[x]
  PROVE  SumFunctionOnSet(f, S) = SumFunctionOnSet(e, S)
<1>1. PICK g : Adds(g, f, S) /\ SumFunctionOnSet(f, S) = g[S]
  BY SumAdds
<1>2. PICK h : Adds(h, e, S) /\ SumFunctionOnSet(e, S) = h[S]
  BY SumAdds
<1>3. S \in SUBSET S /\ IsFiniteSet(S) /\ \A x \in S : f[x] = e[x]
  OBVIOUS
<1>4. g[S] = h[S]
  BY <1>1, <1>2, <1>3, AddsDetermined
<1>5. QED
  BY <1>1, <1>2, <1>4

(* One map serves all subsets of a set.                                    *)
LEMMA SumOfSubset ==
  ASSUME NEW f, NEW S, IsFiniteSet(S), NEW g, Adds(g, f, S), NEW U \in SUBSET S
  PROVE  SumFunctionOnSet(f, U) = g[U]
<1>1. IsFiniteSet(U)
  BY FS_Subset
<1>2. PICK h : Adds(h, f, U) /\ SumFunctionOnSet(f, U) = h[U]
  BY <1>1, SumAdds
<1>3. U \in SUBSET U /\ U \in SUBSET S /\ \A x \in U : f[x] = f[x]
  OBVIOUS
<1>4. g[U] = h[U]
  BY <1>1, <1>2, <1>3, AddsDetermined
<1>5. QED
  BY <1>2, <1>4

(* The sum of naturals is one, and any element can be taken out of it.     *)
LEMMA SumTakesOut ==
  ASSUME NEW f, NEW S, IsFiniteSet(S), \A x \in S : f[x] \in Nat
  PROVE  /\ SumFunctionOnSet(f, S) \in Nat
         /\ \A x \in S :
              /\ SumFunctionOnSet(f, S \ {x}) \in Nat
              /\ SumFunctionOnSet(f, S) = f[x] + SumFunctionOnSet(f, S \ {x})
<1>1. PICK g : Adds(g, f, S)
  BY AddsExists
<1> DEFINE Good(U) == g[U] \in Nat /\ \A x \in U : g[U] = f[x] + g[U \ {x}]
           Bad == {U \in SUBSET S : ~Good(U)}
<1>2. Bad = {}
  <2>1. SUFFICES ASSUME Bad # {} PROVE FALSE
    OBVIOUS
  <2>2. PICK U \in Bad : \A W \in Bad : W \subseteq U => W = U
    <3> HIDE DEF Bad
    <3>1. Bad \in SUBSET SUBSET S
      BY DEF Bad
    <3>2. QED
      BY <2>1, <3>1, LeastSubset
  <2>3. \A W \in SUBSET U : W # U => Good(W)
    BY <2>2
  <2>4. CASE U = {}
    BY <1>1, <2>2, <2>4 DEF Adds
  <2>5. CASE U # {}
    <3> DEFINE c == First(U)
    <3>1. c \in U /\ g[U] = f[c] + g[U \ {c}]
      BY <1>1, <2>5 DEF Adds, First
    <3> HIDE DEF c
    <3>2. g[U \ {c}] \in Nat
      BY <2>3, <3>1
    <3>3. ASSUME NEW x \in U, x # c PROVE g[U] = f[x] + g[U \ {x}]
      <4> DEFINE R == (U \ {c}) \ {x}
      <4>1. /\ g[U \ {c}] = f[x] + g[R]
            /\ g[R] \in Nat
        BY <2>3, <3>1, <3>3
      <4>2. g[U \ {x}] = f[c] + g[(U \ {x}) \ {c}]
        BY <2>3, <3>1, <3>3
      <4>3. (U \ {x}) \ {c} = R
        OBVIOUS
      <4>4. f[x] \in Nat /\ f[c] \in Nat
        BY <3>1
      <4> HIDE DEF R
      <4>5. QED
        BY <3>1, <4>1, <4>2, <4>3, <4>4
    <3>4. g[U] \in Nat
      BY <3>1, <3>2
    <3>5. QED
      BY <2>2, <3>1, <3>3, <3>4
  <2>6. QED
    BY <2>4, <2>5
<1>3. \A U \in SUBSET S : SumFunctionOnSet(f, U) = g[U]
  BY <1>1, SumOfSubset
<1>4. \A U \in SUBSET S : Good(U)
  BY <1>2
<1>5. QED
  BY <1>3, <1>4

(* A set grows by one element.                                             *)
LEMMA SumPutsIn ==
  ASSUME NEW f, NEW S, IsFiniteSet(S), NEW x, x \notin S,
         \A y \in S \union {x} : f[y] \in Nat
  PROVE  SumFunctionOnSet(f, S \union {x}) = f[x] + SumFunctionOnSet(f, S)
<1>1. IsFiniteSet(S \union {x}) /\ (S \union {x}) \ {x} = S
  BY FS_AddElement
<1>2. QED
  BY <1>1, SumTakesOut

(* A sum of nothings.                                                      *)
LEMMA ZeroesAddNothing ==
  ASSUME NEW f, NEW S, IsFiniteSet(S), \A x \in S : f[x] = 0
  PROVE  SumFunctionOnSet(f, S) = 0
<1> DEFINE Bad == {U \in SUBSET S : SumFunctionOnSet(f, U) # 0}
<1>1. SUFFICES ASSUME Bad # {} PROVE FALSE
  BY S \in SUBSET S
<1>2. PICK U \in Bad : \A V \in Bad : V \subseteq U => V = U
  <2> HIDE DEF Bad
  <2>1. Bad \in SUBSET SUBSET S
    BY DEF Bad
  <2>2. QED
    BY <1>1, <2>1, LeastSubset
<1>3. PICK x : x \in U
  BY <1>2, SumEmpty
<1>4. IsFiniteSet(U) /\ \A y \in U : f[y] \in Nat
  BY FS_Subset
<1>5. SumFunctionOnSet(f, U) = f[x] + SumFunctionOnSet(f, U \ {x})
  BY <1>3, <1>4, SumTakesOut
<1>6. SumFunctionOnSet(f, U \ {x}) = 0
  BY <1>2, <1>3
<1>7. QED
  BY <1>2, <1>3, <1>5, <1>6

(* One value of the function changes.                                      *)
LEMMA SumChanges ==
  ASSUME NEW S, IsFiniteSet(S), NEW x \in S, NEW f, NEW g,
         \A y \in S : f[y] \in Nat /\ g[y] \in Nat,
         \A y \in S : y # x => g[y] = f[y]
  PROVE  /\ SumFunctionOnSet(f, S) \in Nat
         /\ SumFunctionOnSet(g, S) = SumFunctionOnSet(f, S) - f[x] + g[x]
<1> DEFINE R == S \ {x}
<1>1. IsFiniteSet(R) /\ \A y \in R : g[y] = f[y]
  BY FS_Subset
<1>2. SumFunctionOnSet(g, R) = SumFunctionOnSet(f, R)
  <2> HIDE DEF R
  <2>1. QED
    BY <1>1, SumDetermined
<1>3. /\ SumFunctionOnSet(f, S) = f[x] + SumFunctionOnSet(f, R)
      /\ SumFunctionOnSet(f, R) \in Nat /\ SumFunctionOnSet(f, S) \in Nat
  BY SumTakesOut
<1>4. SumFunctionOnSet(g, S) = g[x] + SumFunctionOnSet(g, R)
  BY SumTakesOut
<1>5. f[x] \in Nat /\ g[x] \in Nat
  OBVIOUS
<1> HIDE DEF R
<1>6. QED
  BY <1>2, <1>3, <1>4, <1>5

-----------------------------------------------------------------------------
(* What the tracker's methods do to its record.                            *)

(* Today is always a well-formed record of the current date.               *)
LEMMA TodayType ==
  ASSUME clock \in Nat, spend \in [date : Nat, usd : Nat]
  PROVE  /\ Today \in [date : Nat, usd : Nat]
         /\ Today.date = clock
  BY DEF Today

(* A successful reservation adds the estimate and stays below the cap.     *)
LEMMA ReserveEffect ==
  ASSUME clock \in Nat, spend \in [date : Nat, usd : Nat],
         NEW e \in Nat, Reserve(e), clock' = clock
  PROVE  /\ spend' \in [date : Nat, usd : Nat]
         /\ spend'.date = clock
         /\ Today'.usd = Today.usd + e
         /\ Today.usd + e < Cap
<1>1. Today \in [date : Nat, usd : Nat] /\ Today.date = clock
  BY TodayType
<1>2. spend' = [Today EXCEPT !.usd = @ + e] /\ Today.usd + e < Cap
  BY <1>1, CapAssumption DEF Reserve, WouldExceed
<1>3. spend' \in [date : Nat, usd : Nat] /\ spend'.date = clock
      /\ spend'.usd = Today.usd + e
  BY <1>1, <1>2
<1>4. QED
  BY <1>2, <1>3 DEF Today

(* A settlement never moves the counter below what the swap leaves.        *)
LEMMA SettleEffect ==
  ASSUME clock \in Nat, spend \in [date : Nat, usd : Nat],
         NEW r \in Nat, NEW a \in Nat, Settle(r, a), clock' = clock
  PROVE  /\ spend' \in [date : Nat, usd : Nat]
         /\ spend'.date = clock
         /\ Today'.usd = NonNegative(Today.usd - r + a)
<1>1. Today \in [date : Nat, usd : Nat] /\ Today.date = clock
  BY TodayType
<1>2. NonNegative(Today.usd - r + a) \in Nat
  BY <1>1 DEF NonNegative
<1>3. spend' \in [date : Nat, usd : Nat] /\ spend'.date = clock
      /\ spend'.usd = NonNegative(Today.usd - r + a)
  BY <1>1, <1>2 DEF Settle
<1>4. QED
  BY <1>3 DEF Today

(* A read (or a refusal) shows the record it found.                        *)
LEMMA ReadEffect ==
  ASSUME clock \in Nat, spend \in [date : Nat, usd : Nat],
         spend' = Today, clock' = clock
  PROVE  /\ spend' \in [date : Nat, usd : Nat]
         /\ spend'.date = clock
         /\ Today'.usd = Today.usd
  BY TodayType DEF Today

-----------------------------------------------------------------------------
(* The inductive invariant.                                                *)

LEMMA InitEstablishes == Init => IInv
<1> SUFFICES ASSUME Init PROVE IInv
  OBVIOUS
<1>1. HeldToday = {}
  BY DEF Init, HeldToday
<1>2. NoPhantomSpend
  BY <1>1, SumEmpty DEF Init, NoPhantomSpend, Today
<1>3. QED
  BY <1>2, CapAssumption
  DEF Init, IInv, TypeOK, LedgerCovers, CounterBounded, Today

(* The sum of today's holds is that of naturals over a finite set.         *)
LEMMA HoldsType ==
  ASSUME TypeOK
  PROVE  IsFiniteSet(HeldToday) /\ \A c \in HeldToday : reserved[c] \in Nat
<1>1. HeldToday \subseteq Calls
  BY DEF HeldToday
<1>2. IsFiniteSet(HeldToday)
  BY <1>1, CallsAssumption, FS_Subset
<1>3. QED
  BY <1>1, <1>2 DEF TypeOK

(* Nothing said about today's holds changes when nothing they are made of  *)
(* does and the counter shows what it showed.                              *)
LEMMA SameHolds ==
  ASSUME TypeOK, NoPhantomSpend, Today'.usd = Today.usd,
         UNCHANGED <<clock, reserved, heldOn, held, billed>>,
         \A c \in Calls : phase'[c] = "inflight" <=> phase[c] = "inflight"
  PROVE  NoPhantomSpend'
<1>1. HeldToday' = HeldToday
  BY DEF HeldToday
<1>2. QED
  BY <1>1 DEF NoPhantomSpend

LEMMA AdmitPreserves ==
  ASSUME IInv, NEW c \in Calls, Admit(c)
  PROVE  IInv'
<1>1. PICK e \in Estimates :
        /\ Reserve(e)
        /\ phase' = [phase EXCEPT ![c] = "inflight"]
        /\ reserved' = [reserved EXCEPT ![c] = e]
        /\ heldOn' = [heldOn EXCEPT ![c] = clock]
        /\ held' = held + e
        /\ UNCHANGED <<clock, billed, crossed, overrun>>
  BY DEF Admit
<1>2. e \in Nat
  BY AmountsAssumption
<1>3. clock \in Nat /\ spend \in [date : Nat, usd : Nat] /\ clock' = clock
  BY <1>1 DEF IInv, TypeOK
<1>4. /\ spend' \in [date : Nat, usd : Nat] /\ spend'.date = clock
      /\ Today'.usd = Today.usd + e
      /\ Today.usd + e < Cap
  BY <1>1, <1>2, <1>3, ReserveEffect
<1>5. TypeOK'
  BY <1>1, <1>2, <1>3, <1>4 DEF IInv, TypeOK
<1>6. Today.usd \in Nat
  BY <1>3, TodayType
<1>7. LedgerCovers'
  BY <1>1, <1>2, <1>4, <1>6 DEF IInv, TypeOK, LedgerCovers
<1>8. CounterBounded'
  BY <1>1, <1>2, <1>4, <1>6, CapAssumption DEF IInv, TypeOK, CounterBounded
<1>9. SumFunctionOnSet(reserved', HeldToday') = e + held
  <2>1. HeldToday' = HeldToday \union {c} /\ c \notin HeldToday
    BY <1>1 DEF HeldToday, IInv, TypeOK, Admit
  <2>2. /\ reserved'[c] = e
        /\ \A d \in HeldToday : reserved'[d] = reserved[d] /\ reserved[d] \in Nat
    BY <1>1, <2>1 DEF IInv, TypeOK, HeldToday
  <2>3. IsFiniteSet(HeldToday)
    BY HoldsType DEF IInv
  <2>4. SumFunctionOnSet(reserved', HeldToday) = SumFunctionOnSet(reserved, HeldToday)
    BY <2>2, <2>3, SumDetermined
  <2>5. \A d \in HeldToday \union {c} : reserved'[d] \in Nat
    BY <1>2, <2>2
  <2>6. SumFunctionOnSet(reserved', HeldToday \union {c})
          = e + SumFunctionOnSet(reserved', HeldToday)
    BY <2>1, <2>2, <2>3, <2>5, SumPutsIn
  <2>7. QED
    BY <2>1, <2>4, <2>6 DEF IInv, NoPhantomSpend
<1>10. NoPhantomSpend'
  BY <1>1, <1>2, <1>4, <1>6, <1>9 DEF IInv, TypeOK, NoPhantomSpend
<1>11. QED
  BY <1>5, <1>7, <1>8, <1>10 DEF IInv

LEMMA TurnAwayPreserves ==
  ASSUME IInv, NEW c \in Calls, TurnAway(c)
  PROVE  IInv'
<1>1. clock \in Nat /\ spend \in [date : Nat, usd : Nat] /\ clock' = clock
      /\ spend' = Today
  BY DEF TurnAway, Refuse, IInv, TypeOK
<1>2. /\ spend' \in [date : Nat, usd : Nat] /\ spend'.date = clock
      /\ Today'.usd = Today.usd
  BY <1>1, ReadEffect
<1>3. NoPhantomSpend'
  <2>1. \A d \in Calls : phase'[d] = "inflight" <=> phase[d] = "inflight"
    BY DEF TurnAway, IInv, TypeOK
  <2>2. QED
    BY <1>1, <1>2, <2>1, SameHolds DEF TurnAway, IInv, ledger
<1>4. QED
  BY <1>1, <1>2, <1>3
  DEF TurnAway, IInv, TypeOK, LedgerCovers, CounterBounded, ledger

LEMMA FinishPreserves ==
  ASSUME IInv, NEW c \in Calls, Finish(c)
  PROVE  IInv'
<1>1. PICK a \in Costs \union {0} :
        /\ Settle(reserved[c], a)
        /\ phase' = [phase EXCEPT ![c] = "over"]
        /\ billed' = billed + a
        /\ overrun' = overrun + NonNegative(a - reserved[c])
        /\ IF heldOn[c] = clock
             THEN held' = held - reserved[c] /\ UNCHANGED crossed
             ELSE crossed' = crossed + reserved[c] /\ UNCHANGED held
        /\ reserved' = [reserved EXCEPT ![c] = 0]
        /\ UNCHANGED <<clock, heldOn>>
  BY DEF Finish
<1> DEFINE r == reserved[c]
<1>2. a \in Nat /\ r \in Nat
  BY AmountsAssumption DEF IInv, TypeOK
<1>3. clock \in Nat /\ spend \in [date : Nat, usd : Nat] /\ clock' = clock
  BY <1>1 DEF IInv, TypeOK
<1>4. /\ spend' \in [date : Nat, usd : Nat] /\ spend'.date = clock
      /\ Today'.usd = NonNegative(Today.usd - r + a)
  BY <1>1, <1>2, <1>3, SettleEffect
<1>5. Today.usd \in Nat
  BY <1>3, TodayType
<1>6. /\ Today'.usd >= Today.usd - r + a
      /\ Today'.usd <= Today.usd + NonNegative(a - r)
      /\ NonNegative(a - r) \in Nat
  BY <1>2, <1>4, <1>5 DEF NonNegative
<1>7. Today'.usd \in Nat
  BY <1>2, <1>4, <1>5 DEF NonNegative
<1>8. TypeOK'
  BY <1>1, <1>2, <1>3, <1>4, <1>6 DEF IInv, TypeOK
<1>9. held' - held + crossed - crossed' = -r
  BY <1>1, <1>2 DEF IInv, TypeOK
<1>10. LedgerCovers'
  BY <1>1, <1>2, <1>5, <1>6, <1>7, <1>8, <1>9 DEF IInv, TypeOK, LedgerCovers
<1>11. CounterBounded'
  BY <1>1, <1>5, <1>6, <1>7, CapAssumption DEF IInv, TypeOK, CounterBounded
<1>12. held' = SumFunctionOnSet(reserved', HeldToday') /\ held' >= 0
  <2>1. /\ IsFiniteSet(HeldToday) /\ \A d \in HeldToday : reserved[d] \in Nat
        /\ held = SumFunctionOnSet(reserved, HeldToday)
    BY HoldsType DEF IInv, NoPhantomSpend
  <2>2. HeldToday' = HeldToday \ {c}
    BY <1>1 DEF HeldToday, IInv, TypeOK
  <2>3. SumFunctionOnSet(reserved', HeldToday \ {c})
          = SumFunctionOnSet(reserved, HeldToday \ {c})
    <3>1. \A d \in HeldToday \ {c} : reserved'[d] = reserved[d]
      BY <1>1 DEF HeldToday, IInv, TypeOK
    <3>2. IsFiniteSet(HeldToday \ {c})
      BY <2>1, FS_Difference
    <3>3. QED
      BY <3>1, <3>2, SumDetermined
  <2>4. CASE heldOn[c] = clock
    <3>1. c \in HeldToday
      BY <2>4 DEF HeldToday, Finish
    <3>2. /\ SumFunctionOnSet(reserved, HeldToday \ {c}) \in Nat
          /\ held = r + SumFunctionOnSet(reserved, HeldToday \ {c})
      BY <2>1, <3>1, SumTakesOut
    <3>3. held' = held - r
      BY <1>1, <2>4
    <3>4. QED
      BY <1>2, <2>2, <2>3, <3>2, <3>3
  <2>5. CASE heldOn[c] # clock
    <3>1. HeldToday \ {c} = HeldToday /\ held' = held
      BY <1>1, <2>5 DEF HeldToday
    <3>2. held \in Nat
      BY <2>1, SumTakesOut
    <3>3. QED
      BY <2>1, <2>2, <2>3, <3>1, <3>2
  <2>6. QED
    BY <2>4, <2>5
<1>13. NoPhantomSpend'
  <2>1. held' >= held - r /\ billed' = billed + a /\ Today.usd <= held + billed
    BY <1>1, <1>2 DEF IInv, TypeOK, NoPhantomSpend
  <2>2. Today'.usd <= held' + billed'
    BY <1>2, <1>4, <1>5, <1>8, <1>12, <2>1 DEF NonNegative, IInv, TypeOK
  <2>3. QED
    BY <1>12, <2>2 DEF NoPhantomSpend
<1>14. QED
  BY <1>8, <1>10, <1>11, <1>13 DEF IInv

LEMMA StatsPreserves ==
  ASSUME IInv, Stats
  PROVE  IInv'
<1>1. clock \in Nat /\ spend \in [date : Nat, usd : Nat] /\ clock' = clock
      /\ spend' = Today
  BY DEF Stats, ReadStats, IInv, TypeOK
<1>2. /\ spend' \in [date : Nat, usd : Nat] /\ spend'.date = clock
      /\ Today'.usd = Today.usd
  BY <1>1, ReadEffect
<1>3. NoPhantomSpend'
  BY <1>1, <1>2, SameHolds DEF Stats, IInv, ledger, callVars
<1>4. QED
  BY <1>1, <1>2, <1>3
  DEF Stats, IInv, TypeOK, LedgerCovers, CounterBounded, ledger, callVars

(* At midnight both the auditor's page and the tracker's view are empty:   *)
(* the record is still dated yesterday, so Today is fresh.                 *)
LEMMA MidnightPreserves ==
  ASSUME IInv, Midnight
  PROVE  IInv'
<1>1. clock' \in Nat /\ spend'.date # clock' /\ spend'.date <= clock'
  BY DEF IInv, TypeOK, Midnight
<1>2. Today'.usd = 0
  BY <1>1 DEF Today
<1>3. TypeOK'
  BY <1>1 DEF IInv, TypeOK, Midnight, callVars
<1>4. LedgerCovers' /\ CounterBounded'
  BY <1>2, CapAssumption DEF Midnight, LedgerCovers, CounterBounded
<1>5. HeldToday' = {}
  BY DEF HeldToday, IInv, TypeOK, Midnight, callVars
<1>6. NoPhantomSpend'
  BY <1>2, <1>5, SumEmpty DEF Midnight, NoPhantomSpend
<1>7. QED
  BY <1>3, <1>4, <1>6 DEF IInv

LEMMA NextPreserves == IInv /\ [Next]_vars => IInv'
<1> SUFFICES ASSUME IInv, [Next]_vars PROVE IInv'
  OBVIOUS
<1>1. CASE \E c \in Calls : Admit(c)
  BY <1>1, AdmitPreserves
<1>2. CASE \E c \in Calls : TurnAway(c)
  BY <1>2, TurnAwayPreserves
<1>3. CASE \E c \in Calls : Finish(c)
  BY <1>3, FinishPreserves
<1>4. CASE Stats
  BY <1>4, StatsPreserves
<1>5. CASE Midnight
  BY <1>5, MidnightPreserves
<1>6. CASE UNCHANGED vars
  <2>1. Today' = Today
    BY <1>6 DEF vars, Today
  <2>2. NoPhantomSpend'
    BY <1>6, <2>1, SameHolds DEF vars, callVars, ledger, IInv
  <2>3. QED
    BY <1>6, <2>1, <2>2
    DEF vars, callVars, ledger, IInv, TypeOK, LedgerCovers, CounterBounded
<1>7. QED
  BY <1>1, <1>2, <1>3, <1>4, <1>5, <1>6 DEF Next

(* The invariant holds in every reachable state.                           *)
THEOREM InvariantHolds == Spec => []IInv
  BY InitEstablishes, NextPreserves, PTL DEF Spec

-----------------------------------------------------------------------------
(* The results.                                                            *)

(* Every variable keeps its type, and the tracker's date never runs ahead. *)
THEOREM TypeCorrect == Spec => []TypeOK
<1>1. IInv => TypeOK
  BY DEF IInv
<1>2. QED
  BY <1>1, InvariantHolds, PTL

(* The tracker under-counts the day by at most the reservations that were  *)
(* made before a midnight and settled after it.                            *)
THEOREM TrackerCoversLedger == Spec => []LedgerCovers
<1>1. IInv => LedgerCovers
  BY DEF IInv
<1>2. QED
  BY <1>1, InvariantHolds, PTL

(* The counter never drifts shut: in every state what it shows is the sum  *)
(* of the estimates of calls in flight and of real costs, no more.         *)
THEOREM NothingPhantom == Spec => []NoPhantomSpend
<1>1. IInv => NoPhantomSpend
  BY DEF IInv
<1>2. QED
  BY <1>1, InvariantHolds, PTL

(* What is spent or committed in a day stays within the cap, cost overruns *)
(* and midnight-crossing reservations aside.                               *)
THEOREM DaySpendBounded == Spec => []SpendBounded
<1>1. IInv => SpendBounded
  <2> SUFFICES ASSUME IInv PROVE SpendBounded
    OBVIOUS
  <2>1. Today.usd \in Nat
    BY TodayType DEF IInv, TypeOK
  <2>2. QED
    BY <2>1, CapAssumption
    DEF IInv, TypeOK, LedgerCovers, CounterBounded, SpendBounded
<1>2. QED
  BY <1>1, InvariantHolds, PTL

(* A call that turns "inflight" was admitted by Admit.                     *)
LEMMA OnlyAdmitAdmits ==
  ASSUME IInv, Next, NEW c \in Calls,
         phase[c] = "new", phase'[c] = "inflight"
  PROVE  \E d \in Calls : Admit(d)
<1>1. phase \in [Calls -> {"new", "inflight", "over"}]
  BY DEF IInv, TypeOK
<1>2. ASSUME NEW d \in Calls, TurnAway(d) \/ Finish(d) PROVE FALSE
  BY <1>1, <1>2 DEF TurnAway, Finish
<1>3. ~Stats /\ ~Midnight
  BY <1>1 DEF Stats, Midnight, callVars
<1>4. QED
  BY <1>2, <1>3 DEF Next

(* Every admission fits under the cap at the moment it is made, however    *)
(* many calls are in flight.                                               *)
THEOREM EveryAdmissionFits == Spec => AdmissionFits
<1>1. ASSUME IInv, [Next]_vars, Admitted
      PROVE  held' + billed' < Cap + crossed'
  <2>1. PICK c \in Calls : phase[c] = "new" /\ phase'[c] = "inflight"
    BY <1>1 DEF Admitted
  <2>2. Next
    BY <1>1, <2>1 DEF vars, callVars
  <2>3. PICK d \in Calls : Admit(d)
    BY <1>1, <2>1, <2>2, OnlyAdmitAdmits
  <2>4. PICK e \in Estimates : Reserve(e) /\ held' = held + e
                               /\ UNCHANGED <<clock, billed, crossed>>
    BY <2>3 DEF Admit
  <2>5. e \in Nat /\ Today.usd \in Nat /\ Today.usd + e < Cap
    BY <1>1, <2>4, AmountsAssumption, TodayType, ReserveEffect DEF IInv, TypeOK
  <2>6. QED
    BY <1>1, <2>4, <2>5, CapAssumption DEF IInv, TypeOK, LedgerCovers
<1>2. IInv /\ [Next]_vars => [Admitted => held' + billed' < Cap + crossed']_vars
  BY <1>1
<1>3. QED
  BY <1>2, InvariantHolds, PTL DEF Spec, AdmissionFits

=============================================================================
