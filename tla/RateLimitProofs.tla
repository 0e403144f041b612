--------------------------- MODULE RateLimitProofs ---------------------------
(***************************************************************************)
(* Proofs about RateLimit: for every limit, window, sweep threshold and    *)
(* delay between the reading of the clock and the lock, the limit is kept  *)
(* and nobody is turned away for admissions that have aged out.            *)
(***************************************************************************)
EXTENDS RateLimit, FiniteSetTheorems, SequenceTheorems, TLAPS

(* A set of positions has a least one.                                     *)
LEMMA LeastPosition ==
  ASSUME NEW J \in SUBSET Nat, J # {}
  PROVE  \E m \in J : \A j \in J : m <= j
<1> DEFINE Upto == {0..j : j \in J}
<1>1. \A j \in J : 0..j \in FiniteSubsetsOf(Nat)
  <2> TAKE j \in J
  <2>1. IsFiniteSet(0..j)
    BY FS_Interval
  <2> QED
    BY <2>1 DEF FiniteSubsetsOf
<1>2. Upto \subseteq FiniteSubsetsOf(Nat) /\ Upto # {}
  BY <1>1
<1>3. IsWellFoundedOn(StrictSubsetOrdering(Nat), FiniteSubsetsOf(Nat))
  BY FS_StrictSubsetOrderingWellFounded
<1>4. PICK first \in Upto : \A other \in Upto :
        <<other, first>> \notin StrictSubsetOrdering(Nat)
  <2> HIDE DEF Upto
  <2> QED
    BY <1>2, <1>3, WFMin
<1>5. PICK m \in J : first = 0..m
  OBVIOUS
<1>6. ASSUME NEW j \in J PROVE m <= j
  <2>1. SUFFICES ASSUME j < m PROVE FALSE
    OBVIOUS
  <2>2. 0..j \subseteq 0..m /\ 0..j # 0..m
    <3>1. m \in 0..m /\ m \notin 0..j
      BY <2>1
    <3> QED
      BY <2>1, <3>1
  <2>3. <<0..j, 0..m>> \in StrictSubsetOrdering(Nat)
    BY <2>2 DEF StrictSubsetOrdering
  <2> QED
    BY <1>4, <1>5, <2>3
<1> QED
  BY <1>6

(* The trimming stops at a stamp that has not expired, or at the end.      *)
LEMMA FirstFreshFacts ==
  ASSUME NEW seen \in Seq(Nat), NEW now \in Nat
  PROVE  /\ FirstFresh(seen, now) \in 1..(Len(seen) + 1)
         /\ \A i \in 1..(FirstFresh(seen, now) - 1) : Expired(seen[i], now)
         /\ FirstFresh(seen, now) <= Len(seen)
              => ~Expired(seen[FirstFresh(seen, now)], now)
<1> DEFINE Stops(k) == /\ \A i \in 1..(k - 1) : Expired(seen[i], now)
                       /\ k <= Len(seen) => ~Expired(seen[k], now)
           J == {k \in 1..(Len(seen) + 1) : k <= Len(seen) => ~Expired(seen[k], now)}
<1>1. Len(seen) \in Nat
  OBVIOUS
<1>2. J \in SUBSET Nat /\ J # {}
  <2>1. Len(seen) + 1 \in J
    BY <1>1
  <2> QED
    BY <2>1, <1>1
<1>3. PICK m \in J : \A j \in J : m <= j
  <2> HIDE DEF J
  <2> QED
    BY <1>2, LeastPosition
<1>4. m \in 1..(Len(seen) + 1) /\ Stops(m)
  BY <1>1, <1>3
<1>5. FirstFresh(seen, now) = CHOOSE k \in 1..(Len(seen) + 1) : Stops(k)
  BY DEF FirstFresh
<1>6. \E k \in 1..(Len(seen) + 1) : Stops(k)
  BY <1>4
<1> HIDE DEF Stops
<1>7. FirstFresh(seen, now) \in 1..(Len(seen) + 1) /\ Stops(FirstFresh(seen, now))
  BY <1>5, <1>6
<1> QED
  BY <1>7 DEF Stops

(* What trimming drops and keeps.                                          *)
LEMMA TrimFacts ==
  ASSUME NEW seen \in Seq(Nat), NEW now \in Nat
  PROVE  \E k \in 0..Len(seen) :
           /\ Trim(seen, now) \in Seq(Nat)
           /\ Len(Trim(seen, now)) = Len(seen) - k
           /\ \A i \in 1..(Len(seen) - k) : Trim(seen, now)[i] = seen[k + i]
           /\ \A i \in 1..k : Expired(seen[i], now)
           /\ k < Len(seen) => ~Expired(seen[k + 1], now)
<1> DEFINE f == FirstFresh(seen, now)
           k == f - 1
<1>1. /\ f \in 1..(Len(seen) + 1)
      /\ \A i \in 1..(f - 1) : Expired(seen[i], now)
      /\ f <= Len(seen) => ~Expired(seen[f], now)
  BY FirstFreshFacts
<1>2. Trim(seen, now) = SubSeq(seen, f, Len(seen))
  BY DEF Trim
<1> HIDE DEF f
<1>3. f \in Int /\ Len(seen) \in Nat /\ \A i \in f..Len(seen) : seen[i] \in Nat
  BY <1>1
<1>4. /\ SubSeq(seen, f, Len(seen)) \in Seq(Nat)
      /\ Len(SubSeq(seen, f, Len(seen))) = IF f <= Len(seen) THEN Len(seen) - f + 1 ELSE 0
      /\ \A i \in 1..(Len(seen) - f + 1) : SubSeq(seen, f, Len(seen))[i] = seen[f + i - 1]
  BY <1>3, SubSeqProperties
<1>5. k \in 0..Len(seen)
  BY <1>1, <1>3
<1>6. Len(Trim(seen, now)) = Len(seen) - k
  BY <1>1, <1>2, <1>3, <1>4
<1>7. \A i \in 1..(Len(seen) - k) : Trim(seen, now)[i] = seen[k + i]
  <2> TAKE i \in 1..(Len(seen) - k)
  <2>1. i \in 1..(Len(seen) - f + 1) /\ f + i - 1 = k + i
    BY <1>1, <1>3
  <2> QED
    BY <1>2, <1>4, <2>1
<1>8. k < Len(seen) => ~Expired(seen[k + 1], now)
  BY <1>1, <1>3
<1> QED
  BY <1>1, <1>2, <1>4, <1>5, <1>6, <1>7, <1>8

(* Trimming the stamps of an address leaves its last admissions, none of   *)
(* which the first has outlived.                                           *)
LEMMA TrimFaithful ==
  ASSUME IInv, NEW a \in Addresses, NEW kept \in Seq(Nat), Faithful(kept, admitted[a], clock),
         NEW now \in Nat, now <= clock
  PROVE  /\ Trim(kept, now) \in Seq(Nat) /\ Len(Trim(kept, now)) <= Len(kept)
         /\ Faithful(Trim(kept, now), admitted[a], clock)
         /\ Len(Trim(kept, now)) > 0 => ~Expired(Trim(kept, now)[1], now)
<1>1. PICK k \in 0..Len(kept) :
        /\ Trim(kept, now) \in Seq(Nat)
        /\ Len(Trim(kept, now)) = Len(kept) - k
        /\ \A i \in 1..(Len(kept) - k) : Trim(kept, now)[i] = kept[k + i]
        /\ \A i \in 1..k : Expired(kept[i], now)
        /\ k < Len(kept) => ~Expired(kept[k + 1], now)
  BY TrimFacts
<1>2. PICK past \in 0..Len(admitted[a]) :
        /\ Len(admitted[a]) = past + Len(kept)
        /\ \A i \in 1..Len(kept) : kept[i] = admitted[a][past + i]
        /\ \A i \in 1..past : clock - admitted[a][i] >= Window - MaxDelay
  BY DEF Faithful
<1>3. /\ admitted[a] \in Seq(Nat) /\ Len(admitted[a]) \in Nat /\ Len(kept) \in Nat
      /\ clock \in Nat /\ Window \in Nat /\ MaxDelay \in Nat
      /\ \A i \in 1..Len(admitted[a]) : admitted[a][i] \in Nat
  BY RateAssumption DEF IInv, TypeOK
<1>4. \A i \in 1..(past + k) : clock - admitted[a][i] >= Window - MaxDelay
  <2> TAKE i \in 1..(past + k)
  <2>1. CASE i <= past
    BY <1>2, <2>1
  <2>2. CASE i > past
    <3>1. i - past \in 1..k /\ i - past \in 1..Len(kept) /\ past + (i - past) = i
      BY <1>3, <2>2
    <3>2. Expired(kept[i - past], now) /\ kept[i - past] = admitted[a][i]
      BY <1>1, <1>2, <3>1
    <3>3. i \in 1..Len(admitted[a])
      BY <1>2, <1>3
    <3>4. admitted[a][i] \in Nat /\ now - admitted[a][i] >= Window
      BY <1>3, <3>2, <3>3 DEF Expired
    <3> QED
      BY <1>3, <3>4
  <2> QED
    BY <1>3, <2>1, <2>2
<1>5. \A i \in 1..Len(Trim(kept, now)) : Trim(kept, now)[i] = admitted[a][(past + k) + i]
  <2> TAKE i \in 1..Len(Trim(kept, now))
  <2>1. i \in 1..(Len(kept) - k) /\ k + i \in 1..Len(kept)
        /\ past + (k + i) = (past + k) + i
    BY <1>1, <1>3
  <2> QED
    BY <1>1, <1>2, <2>1
<1>6. past + k \in 0..Len(admitted[a])
      /\ Len(admitted[a]) = (past + k) + Len(Trim(kept, now))
  BY <1>1, <1>2, <1>3
<1>7. Faithful(Trim(kept, now), admitted[a], clock)
  BY <1>4, <1>5, <1>6 DEF Faithful
<1>8. ASSUME Len(Trim(kept, now)) > 0 PROVE ~Expired(Trim(kept, now)[1], now)
  <2>1. k < Len(kept) /\ 1 \in 1..(Len(kept) - k)
    BY <1>1, <1>3, <1>8
  <2> QED
    BY <1>1, <2>1
<1>9. Len(Trim(kept, now)) <= Len(kept)
  BY <1>1, <1>3
<1> QED
  BY <1>1, <1>7, <1>8, <1>9

(* A sweep forgets an address only when everything it keeps of it has      *)
(* expired, the stamps out of order within the delay.                      *)
LEMMA SweptFaithful ==
  ASSUME IInv, NEW now \in Nat, now <= clock
  PROVE  /\ Swept(now) \in [Addresses -> Seq(Nat)]
         /\ \A a \in Addresses :
              Len(Swept(now)[a]) <= Limit /\ Faithful(Swept(now)[a], admitted[a], clock)
<1>1. /\ clock \in Nat /\ Window \in Nat /\ MaxDelay \in Nat /\ Limit \in Nat
      /\ hits \in [Addresses -> Seq(Nat)] /\ admitted \in [Addresses -> Seq(Nat)]
      /\ \A a \in Addresses : Len(hits[a]) <= Limit /\ Faithful(hits[a], admitted[a], clock)
  BY RateAssumption DEF IInv, TypeOK, Remembered
<1>2. ASSUME NEW a \in Addresses, hits[a] # << >>,
             Expired(hits[a][Len(hits[a])], now)
      PROVE  Faithful(<< >>, admitted[a], clock)
  <2>1. PICK past \in 0..Len(admitted[a]) :
          /\ Len(admitted[a]) = past + Len(hits[a])
          /\ \A i \in 1..Len(hits[a]) : hits[a][i] = admitted[a][past + i]
          /\ \A i \in 1..past : clock - admitted[a][i] >= Window - MaxDelay
    BY <1>1 DEF Faithful
  <2> DEFINE n == Len(admitted[a])
  <2>2. /\ Len(hits[a]) \in Nat \ {0} /\ n \in Nat
        /\ \A i \in 1..n : admitted[a][i] \in Nat
    BY <1>1, <1>2
  <2>3. hits[a][Len(hits[a])] = admitted[a][n]
    <3>1. Len(hits[a]) \in 1..Len(hits[a]) /\ past + Len(hits[a]) = n
      BY <2>1, <2>2
    <3> HIDE DEF n
    <3> QED
      BY <2>1, <3>1
  <2>4. now - admitted[a][n] >= Window
    BY <1>2, <2>3 DEF Expired
  <2>5. \A i \in 1..n : admitted[a][i] - admitted[a][n] <= MaxDelay
    BY <2>1, <2>2 DEF IInv, Spread
  <2>6. \A i \in 1..n : clock - admitted[a][i] >= Window - MaxDelay
    <3> TAKE i \in 1..n
    <3>1. admitted[a][i] \in Nat /\ admitted[a][n] \in Nat
      BY <2>1, <2>2
    <3>2. now - admitted[a][n] >= Window /\ admitted[a][i] - admitted[a][n] <= MaxDelay
      BY <2>4, <2>5
    <3>3. \A x, y, c, u, w, d \in Nat :
            u - y >= w /\ x - y <= d /\ u <= c => c - x >= w - d
      OBVIOUS
    <3> HIDE DEF n
    <3> QED
      BY <1>1, <3>1, <3>2, <3>3
  <2>7. Len(<< >>) = 0 /\ n \in 0..n /\ n = n + 0
    BY <2>2
  <2> QED
    BY <2>6, <2>7 DEF Faithful
<1>3. /\ Sweep(hits, now) \in [Addresses -> Seq(Nat)]
      /\ \A a \in Addresses :
           Len(Sweep(hits, now)[a]) <= Limit /\ Faithful(Sweep(hits, now)[a], admitted[a], clock)
  <2>1. << >> \in Seq(Nat) /\ Len(<< >>) = 0
    OBVIOUS
  <2>2. Sweep(hits, now) \in [Addresses -> Seq(Nat)]
    BY <1>1, <2>1 DEF Sweep
  <2>3. ASSUME NEW a \in Addresses
        PROVE  Len(Sweep(hits, now)[a]) <= Limit /\ Faithful(Sweep(hits, now)[a], admitted[a], clock)
    <3>1. CASE hits[a] # << >> /\ Expired(hits[a][Len(hits[a])], now)
      <4>1. Sweep(hits, now)[a] = << >>
        BY <3>1 DEF Sweep
      <4> QED
        BY <1>1, <1>2, <2>1, <3>1, <4>1
    <3>2. CASE ~(hits[a] # << >> /\ Expired(hits[a][Len(hits[a])], now))
      <4>1. Sweep(hits, now)[a] = hits[a]
        BY <3>2 DEF Sweep
      <4> QED
        BY <1>1, <4>1
    <3> QED
      BY <3>1, <3>2
  <2> QED
    BY <2>2, <2>3
<1> QED
  BY <1>1, <1>3 DEF Swept

(* What a thread that holds the lock finds of its address.                 *)
LEMMA SeenFacts ==
  ASSUME IInv, NEW t \in Threads, thread[t].at = "timed"
  PROVE  LET a == thread[t].key
             now == thread[t].now
             seen == Trim(Swept(now)[a], now)
         IN  /\ a \in Addresses /\ now \in Nat /\ now <= clock
             /\ seen \in Seq(Nat) /\ Len(seen) \in Nat /\ Len(seen) <= Limit
             /\ Faithful(seen, admitted[a], clock)
             /\ Len(seen) > 0 => ~Expired(seen[1], now)
<1> DEFINE a == thread[t].key
           now == thread[t].now
           kept == Swept(now)[a]
<1>1. a \in Addresses /\ now \in Nat
  BY DEF IInv, TypeOK, Ready, Timed
<1>2. now <= clock
  BY DEF IInv, Timely
<1> HIDE DEF a, now
<1>3. kept \in Seq(Nat) /\ Len(kept) <= Limit /\ Faithful(kept, admitted[a], clock)
  BY <1>1, <1>2, SweptFaithful
<1> HIDE DEF kept
<1>4. /\ Trim(kept, now) \in Seq(Nat) /\ Len(Trim(kept, now)) <= Len(kept)
      /\ Faithful(Trim(kept, now), admitted[a], clock)
      /\ Len(Trim(kept, now)) > 0 => ~Expired(Trim(kept, now)[1], now)
  BY <1>1, <1>2, <1>3, TrimFaithful
<1>5. Len(Trim(kept, now)) \in Nat /\ Len(Trim(kept, now)) <= Limit
  BY <1>3, <1>4, RateAssumption
<1> QED
  BY <1>1, <1>2, <1>4, <1>5 DEF a, now, kept

-----------------------------------------------------------------------------

(* Nothing is admitted yet.                                                *)
LEMMA InitEstablishes == Init => IInv
<1> SUFFICES ASSUME Init PROVE IInv
  OBVIOUS
<1>1. << >> \in Seq(Nat) /\ Len(<< >>) = 0
  OBVIOUS
<1>2. \A a \in Addresses : Len(hits[a]) = 0 /\ Len(admitted[a]) = 0
  BY <1>1 DEF Init
<1>3. TypeOK
  BY <1>1, <1>2, RateAssumption DEF Init, TypeOK
<1>4. Timely
  BY DEF Init, Timely, Ready
<1>5. Spread /\ AdmissionsSpaced
  BY <1>2, RateAssumption DEF Spread, AdmissionsSpaced
<1>6. Remembered
  BY <1>2 DEF Remembered, Faithful
<1> QED
  BY <1>3, <1>4, <1>5, <1>6 DEF IInv

(* The critical section leaves each address its last admissions, whatever  *)
(* becomes of this request's own.                                          *)
LEMMA OthersFaithful ==
  ASSUME IInv, NEW now \in Nat, now <= clock, NEW a \in Addresses, NEW stamps \in Seq(Nat),
         clock' = clock, hits' = [Swept(now) EXCEPT ![a] = stamps],
         \A b \in Addresses \ {a} : admitted'[b] = admitted[b],
         Len(stamps) <= Limit, Faithful(stamps, admitted'[a], clock)
  PROVE  /\ hits' \in [Addresses -> Seq(Nat)]
         /\ \A b \in Addresses : Len(hits'[b]) <= Limit
         /\ Remembered'
<1> DEFINE T == Swept(now)
<1>1. /\ T \in [Addresses -> Seq(Nat)]
      /\ \A b \in Addresses : Len(T[b]) <= Limit /\ Faithful(T[b], admitted[b], clock)
  BY SweptFaithful
<1>2. hits' = [T EXCEPT ![a] = stamps]
  OBVIOUS
<1> HIDE DEF T
<1>3. hits' \in [Addresses -> Seq(Nat)]
  BY <1>1, <1>2
<1>4. hits'[a] = stamps /\ \A b \in Addresses \ {a} : hits'[b] = T[b]
  BY <1>1, <1>2
<1>5. \A b \in Addresses : Len(hits'[b]) <= Limit
  BY <1>1, <1>4
<1>6. \A b \in Addresses : Faithful(hits'[b], admitted'[b], clock')
  BY <1>1, <1>4
<1> QED
  BY <1>3, <1>5, <1>6 DEF Remembered

(* A rejection admits nobody.                                              *)
LEMMA RejectPreserves ==
  ASSUME IInv, NEW t \in Threads, Reject(t)
  PROVE  IInv'
<1>1. PICK a \in Addresses, now \in Nat, seen \in Seq(Nat) :
        /\ now <= clock /\ Len(seen) <= Limit /\ Faithful(seen, admitted[a], clock)
        /\ hits' = [Swept(now) EXCEPT ![a] = seen]
  <2>1. thread[t].at = "timed"
    BY DEF Reject
  <2> QED
    BY <2>1, SeenFacts DEF Reject
<1>2. thread' = [thread EXCEPT ![t] = Ready] /\ clock' = clock /\ admitted' = admitted
  BY DEF Reject
<1>3. /\ hits' \in [Addresses -> Seq(Nat)]
      /\ \A b \in Addresses : Len(hits'[b]) <= Limit
      /\ Remembered'
  BY <1>1, <1>2, OthersFaithful
<1>4. TypeOK'
  BY <1>2, <1>3 DEF IInv, TypeOK
<1>5. Timely'
  BY <1>2 DEF IInv, TypeOK, Timely, Ready
<1>6. Spread' /\ AdmissionsSpaced'
  BY <1>2 DEF IInv, Spread, AdmissionsSpaced
<1> QED
  BY <1>3, <1>4, <1>5, <1>6 DEF IInv

(* An admission is almost a window after the one Limit places before it:   *)
(* that one is no longer kept.                                             *)
LEMMA AdmitPreserves ==
  ASSUME IInv, NEW t \in Threads, Admit(t)
  PROVE  IInv'
<1>1. PICK a \in Addresses, now \in Nat, seen \in Seq(Nat) :
        /\ now <= clock /\ Len(seen) < Limit /\ Faithful(seen, admitted[a], clock)
        /\ hits' = [Swept(now) EXCEPT ![a] = Append(seen, now)]
        /\ admitted' = [admitted EXCEPT ![a] = Append(@, now)]
        /\ clock - now <= MaxDelay
  <2>1. thread[t].at = "timed"
    BY DEF Admit
  <2>2. clock - thread[t].now <= MaxDelay
    BY <2>1 DEF IInv, Timely
  <2>3. LET a == thread[t].key
            now == thread[t].now
            seen == Trim(Swept(now)[a], now)
        IN  Len(seen) \in Nat /\ ~(Len(seen) >= Limit)
    BY <2>1, SeenFacts DEF Admit, Full
  <2>4. LET a == thread[t].key
            now == thread[t].now
            seen == Trim(Swept(now)[a], now)
        IN  Len(seen) < Limit
    BY <2>3, RateAssumption
  <2> QED
    BY <2>1, <2>2, <2>4, SeenFacts DEF Admit
<1>2. thread' = [thread EXCEPT ![t] = Ready] /\ clock' = clock
  BY DEF Admit
<1> DEFINE n == Len(admitted[a])
<1>3. /\ admitted[a] \in Seq(Nat) /\ n \in Nat /\ Len(seen) \in Nat
      /\ clock \in Nat /\ Window \in Nat /\ MaxDelay \in Nat /\ Limit \in Nat \ {0}
      /\ \A i \in 1..n : admitted[a][i] \in Nat
  BY RateAssumption DEF IInv, TypeOK
<1>4. /\ admitted'[a] = Append(admitted[a], now)
      /\ \A b \in Addresses \ {a} : admitted'[b] = admitted[b]
  BY <1>1 DEF IInv, TypeOK
<1>5. /\ admitted'[a] \in Seq(Nat) /\ Len(admitted'[a]) = n + 1
      /\ \A i \in 1..n : admitted'[a][i] = admitted[a][i]
      /\ admitted'[a][n + 1] = now
  BY <1>1, <1>3, <1>4, AppendProperties
<1>6. PICK past \in 0..n :
        /\ n = past + Len(seen)
        /\ \A i \in 1..Len(seen) : seen[i] = admitted[a][past + i]
        /\ \A i \in 1..past : clock - admitted[a][i] >= Window - MaxDelay
  BY <1>1 DEF Faithful
<1>7. /\ Append(seen, now) \in Seq(Nat) /\ Len(Append(seen, now)) = Len(seen) + 1
      /\ \A i \in 1..Len(seen) : Append(seen, now)[i] = seen[i]
      /\ Append(seen, now)[Len(seen) + 1] = now
  BY <1>1, AppendProperties
<1> HIDE DEF n
<1>8. Faithful(Append(seen, now), admitted'[a], clock)
  <2>1. past \in 0..Len(admitted'[a])
        /\ Len(admitted'[a]) = past + Len(Append(seen, now))
    BY <1>3, <1>5, <1>6, <1>7
  <2>2. \A i \in 1..Len(Append(seen, now)) : Append(seen, now)[i] = admitted'[a][past + i]
    <3> TAKE i \in 1..Len(Append(seen, now))
    <3>1. CASE i \in 1..Len(seen)
      <4>1. past + i \in 1..n
        BY <1>3, <1>6, <3>1
      <4> QED
        BY <1>5, <1>6, <1>7, <3>1, <4>1
    <3>2. CASE i = Len(seen) + 1
      BY <1>3, <1>5, <1>6, <1>7, <3>2
    <3> QED
      BY <1>3, <1>7, <3>1, <3>2
  <2>3. \A i \in 1..past : clock - admitted'[a][i] >= Window - MaxDelay
    <3> TAKE i \in 1..past
    <3>1. i \in 1..n
      BY <1>3, <1>6
    <3> QED
      BY <1>5, <1>6, <3>1
  <2> QED
    BY <2>1, <2>2, <2>3 DEF Faithful
<1>9. /\ hits' \in [Addresses -> Seq(Nat)]
      /\ \A b \in Addresses : Len(hits'[b]) <= Limit
      /\ Remembered'
  <2>1. Len(Append(seen, now)) <= Limit
    BY <1>1, <1>3, <1>7
  <2> QED
    BY <1>1, <1>2, <1>4, <1>7, <1>8, <2>1, OthersFaithful
<1>10. TypeOK'
  <2>1. admitted' \in [Addresses -> Seq(Nat)]
    BY <1>1, <1>4, <1>5 DEF IInv, TypeOK
  <2> QED
    BY <1>2, <1>9, <2>1 DEF IInv, TypeOK
<1>11. Timely'
  BY <1>2 DEF IInv, TypeOK, Timely, Ready
<1>12. Spread'
  <2>1. ASSUME NEW b \in Addresses, NEW j \in 1..Len(admitted'[b])
        PROVE  /\ admitted'[b][j] <= clock
               /\ \A i \in 1..j : admitted'[b][i] - admitted'[b][j] <= MaxDelay
    <3>1. CASE b # a
      BY <1>4, <3>1 DEF IInv, Spread
    <3>2. CASE b = a /\ j \in 1..n
      <4>1. \A i \in 1..j : i \in 1..n
        BY <1>3, <3>2
      <4> QED
        BY <1>5, <3>2, <4>1 DEF IInv, Spread, n
    <3>3. CASE b = a /\ j = n + 1
      <4>1. ASSUME NEW i \in 1..n PROVE admitted'[a][i] - now <= MaxDelay
        <5>1. admitted[a][i] <= clock /\ admitted[a][i] \in Nat
          BY <1>3 DEF IInv, Spread, n
        <5> QED
          BY <1>1, <1>3, <1>5, <5>1
      <4>2. now - now <= MaxDelay
        BY <1>3
      <4>3. \A i \in 1..j : i \in 1..n \/ i = n + 1
        BY <1>3, <3>3
      <4> QED
        BY <1>1, <1>5, <3>3, <4>1, <4>2, <4>3
    <3> QED
      BY <1>3, <1>5, <3>1, <3>2, <3>3
  <2> QED
    BY <1>2, <2>1 DEF Spread
<1>13. AdmissionsSpaced'
  <2>1. ASSUME NEW b \in Addresses, NEW i \in 1..(Len(admitted'[b]) - Limit)
        PROVE  admitted'[b][i + Limit] - admitted'[b][i] >= Window - 2 * MaxDelay
    <3>1. CASE b # a
      BY <1>4, <3>1 DEF IInv, AdmissionsSpaced
    <3>2. CASE b = a /\ i + Limit <= n
      <4>1. i \in 1..(n - Limit) /\ i \in 1..n /\ i + Limit \in 1..n
        BY <1>3, <3>2
      <4> QED
        BY <1>5, <3>2, <4>1 DEF IInv, AdmissionsSpaced, n
    <3>3. CASE b = a /\ i + Limit = n + 1
      <4>1. i \in 1..past /\ i \in 1..n
        BY <1>1, <1>3, <1>6, <3>3
      <4>2. admitted'[a][i] = admitted[a][i] /\ admitted[a][i] \in Nat
            /\ clock - admitted[a][i] >= Window - MaxDelay
        BY <1>3, <1>5, <1>6, <4>1
      <4>3. now - admitted[a][i] >= Window - 2 * MaxDelay
        BY <1>1, <1>3, <4>2
      <4> QED
        BY <1>5, <3>3, <4>2, <4>3
    <3> QED
      BY <1>3, <1>5, <3>1, <3>2, <3>3
  <2> QED
    BY <2>1 DEF AdmissionsSpaced
<1> QED
  BY <1>9, <1>10, <1>11, <1>12, <1>13 DEF IInv

(* A reading is taken now; and time passes no further than the delay.      *)
LEMMA NextPreserves == IInv /\ [Next]_vars => IInv'
<1> SUFFICES ASSUME IInv, [Next]_vars PROVE IInv'
  OBVIOUS
<1>1. ASSUME NEW t \in Threads, NEW a \in Addresses, Read(t, a) PROVE IInv'
  <2>1. TypeOK'
    BY <1>1 DEF Read, IInv, TypeOK, Timed
  <2>2. Timely'
    BY <1>1, RateAssumption DEF Read, IInv, TypeOK, Timely, Timed
  <2>3. Spread' /\ Remembered' /\ AdmissionsSpaced'
    BY <1>1 DEF Read, IInv, Spread, Remembered, AdmissionsSpaced
  <2> QED
    BY <2>1, <2>2, <2>3 DEF IInv
<1>2. ASSUME NEW t \in Threads, Reject(t) PROVE IInv'
  BY <1>2, RejectPreserves
<1>3. ASSUME NEW t \in Threads, Admit(t) PROVE IInv'
  BY <1>3, AdmitPreserves
<1>4. ASSUME Tick PROVE IInv'
  <2>1. PICK later \in Nat : later = clock + 1
    BY DEF IInv, TypeOK
  <2>2. clock' = later /\ UNCHANGED <<hits, thread, admitted>>
    BY <1>4, <2>1 DEF Tick
  <2>3. TypeOK'
    BY <2>2 DEF IInv, TypeOK
  <2>4. clock \in Nat /\ MaxDelay \in Nat /\ Window \in Nat
    BY RateAssumption DEF IInv, TypeOK
  <2>5. Timely'
    <3>1. ASSUME NEW t \in Threads, thread[t].at = "timed"
          PROVE  thread[t].now <= later /\ later - thread[t].now <= MaxDelay
      <4>1. thread[t].now \in Nat
        BY <3>1 DEF IInv, TypeOK, Ready, Timed
      <4>2. thread[t].now <= clock /\ clock - thread[t].now < MaxDelay
        BY <1>4, <3>1 DEF Tick, IInv, Timely
      <4> QED
        BY <2>1, <2>4, <4>1, <4>2
    <3> QED
      BY <2>2, <3>1 DEF Timely
  <2>6. \A a \in Addresses : admitted[a] \in Seq(Nat) /\ Len(admitted[a]) \in Nat
          /\ \A i \in 1..Len(admitted[a]) : admitted[a][i] \in Nat
    BY DEF IInv, TypeOK
  <2>7. Spread'
    <3> SUFFICES ASSUME NEW a \in Addresses, NEW j \in 1..Len(admitted[a])
                 PROVE  /\ admitted[a][j] <= later
                        /\ \A i \in 1..j : admitted[a][i] - admitted[a][j] <= MaxDelay
      BY <2>2 DEF Spread
    <3> QED
      BY <2>1, <2>4, <2>6 DEF IInv, Spread
  <2>8. Remembered'
    <3>1. ASSUME NEW a \in Addresses PROVE Faithful(hits[a], admitted[a], later)
      <4>1. PICK past \in 0..Len(admitted[a]) :
              /\ Len(admitted[a]) = past + Len(hits[a])
              /\ \A i \in 1..Len(hits[a]) : hits[a][i] = admitted[a][past + i]
              /\ \A i \in 1..past : clock - admitted[a][i] >= Window - MaxDelay
        BY DEF IInv, Remembered, Faithful
      <4>2. \A i \in 1..past : later - admitted[a][i] >= Window - MaxDelay
        <5> TAKE i \in 1..past
        <5>1. admitted[a][i] \in Nat /\ clock - admitted[a][i] >= Window - MaxDelay
          BY <2>6, <4>1
        <5> QED
          BY <2>1, <2>4, <5>1
      <4> QED
        BY <4>1, <4>2 DEF Faithful
    <3> QED
      BY <2>2, <3>1 DEF Remembered
  <2>9. AdmissionsSpaced'
    BY <2>2 DEF IInv, AdmissionsSpaced
  <2> QED
    BY <2>3, <2>5, <2>7, <2>8, <2>9 DEF IInv
<1>5. ASSUME UNCHANGED vars PROVE IInv'
  BY <1>5 DEF vars, IInv, TypeOK, Timely, Spread, Remembered, AdmissionsSpaced
<1> QED
  BY <1>1, <1>2, <1>3, <1>4, <1>5 DEF Next

(* Who finds the limit reached finds the last Limit admissions, the first  *)
(* of them not expired and the others hardly older.                        *)
LEMMA FullMeansRecent == IInv => RejectionJustified
<1> SUFFICES ASSUME IInv, NEW t \in Threads, thread[t].at = "timed",
                    Full(Trim(Swept(thread[t].now)[thread[t].key], thread[t].now))
             PROVE  /\ Len(admitted[thread[t].key]) >= Limit
                    /\ \A i \in (Len(admitted[thread[t].key]) - Limit + 1)
                                ..Len(admitted[thread[t].key]) :
                         thread[t].now - admitted[thread[t].key][i] < Window + MaxDelay
  BY DEF RejectionJustified
<1>1. PICK a \in Addresses, now \in Nat, seen \in Seq(Nat) :
        /\ a = thread[t].key /\ now = thread[t].now
        /\ Faithful(seen, admitted[a], clock)
        /\ Len(seen) = Limit /\ ~Expired(seen[1], now)
  <2> DEFINE found == Trim(Swept(thread[t].now)[thread[t].key], thread[t].now)
  <2>1. /\ found \in Seq(Nat) /\ Len(found) \in Nat /\ Len(found) <= Limit
        /\ Faithful(found, admitted[thread[t].key], clock)
        /\ thread[t].key \in Addresses /\ thread[t].now \in Nat
        /\ Len(found) > 0 => ~Expired(found[1], thread[t].now)
    BY SeenFacts
  <2>2. Len(found) >= Limit
    BY DEF Full
  <2> HIDE DEF found
  <2>3. Len(found) = Limit /\ Len(found) > 0
    BY <2>1, <2>2, RateAssumption
  <2> QED
    BY <2>1, <2>3
<1>2. PICK past \in 0..Len(admitted[a]) :
        /\ Len(admitted[a]) = past + Len(seen)
        /\ \A i \in 1..Len(seen) : seen[i] = admitted[a][past + i]
  BY <1>1 DEF Faithful
<1>3. /\ Len(admitted[a]) \in Nat /\ Limit \in Nat \ {0} /\ Window \in Nat /\ MaxDelay \in Nat
      /\ \A i \in 1..Len(admitted[a]) : admitted[a][i] \in Nat
  BY RateAssumption DEF IInv, TypeOK
<1>4. Len(admitted[a]) = past + Limit /\ past + 1 \in 1..Len(admitted[a])
  BY <1>1, <1>2, <1>3
<1>5. now - admitted[a][past + 1] < Window
  <2>1. seen[1] = admitted[a][past + 1]
    BY <1>1, <1>2, <1>3
  <2>2. ~(now - admitted[a][past + 1] >= Window)
    BY <1>1, <2>1 DEF Expired
  <2>3. now \in Nat /\ admitted[a][past + 1] \in Nat /\ Window \in Nat
    BY <1>3, <1>4
  <2> QED
    BY <2>2, <2>3
<1>6. ASSUME NEW i \in (Len(admitted[a]) - Limit + 1)..Len(admitted[a])
      PROVE  now - admitted[a][i] < Window + MaxDelay
  <2>1. i \in 1..Len(admitted[a]) /\ past + 1 \in 1..i
    BY <1>3, <1>4
  <2>2. admitted[a][past + 1] - admitted[a][i] <= MaxDelay
    BY <2>1 DEF IInv, Spread
  <2>3. admitted[a][i] \in Nat /\ admitted[a][past + 1] \in Nat
    BY <1>3, <1>4, <2>1
  <2>4. \A x, y, u, w, d \in Nat : u - x < w /\ x - y <= d => u - y < w + d
    OBVIOUS
  <2> QED
    BY <1>3, <1>5, <2>2, <2>3, <2>4
<1>7. Len(admitted[a]) >= Limit
  BY <1>3, <1>4
<1> QED
  BY <1>1, <1>6, <1>7

-----------------------------------------------------------------------------
(* The theorems.                                                           *)

(* The inductive invariant holds in every reachable state.                 *)
THEOREM Invariance == Spec => []IInv
<1> QED
  BY InitEstablishes, NextPreserves, PTL DEF Spec

(* Types of every variable; no address is kept more stamps than the limit. *)
THEOREM TypeCorrect == Spec => []TypeOK
<1>1. IInv => TypeOK
  BY DEF IInv
<1> QED
  BY <1>1, Invariance, PTL

(* The limit itself, whatever order threads get the lock in (rate_limit).  *)
THEOREM LimitKept == Spec => []AdmissionsSpaced
<1>1. IInv => AdmissionsSpaced
  BY DEF IInv
<1> QED
  BY <1>1, Invariance, PTL

(* A 429 only for admissions still in the window (_trim, _sweep).          *)
THEOREM RejectionsEarned == Spec => []RejectionJustified
<1> QED
  BY FullMeansRecent, Invariance, PTL

=============================================================================
