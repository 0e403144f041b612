----------------------------- MODULE RateLimit ------------------------------
(***************************************************************************)
(* The sliding-window rate limit of POST /ask (app/lib/rate_limit.py).     *)
(*                                                                         *)
(* rate_limit is a sync dependency and runs in a thread pool.  A thread    *)
(* reads the monotonic clock first and takes the lock afterwards, so two   *)
(* threads may enter the critical section in the opposite order of their   *)
(* readings.  What happens under the lock is one step.                     *)
(*                                                                         *)
(* An address is in the table when its deque is not empty: a new deque     *)
(* gets its first stamp before the lock is released.  A limit of 0, which  *)
(* switches the check off, is left out.                                    *)
(***************************************************************************)
EXTENDS Integers, Sequences, FiniteSets

CONSTANTS
  Addresses,                    \* client addresses
  Threads,                      \* threads of the pool
  Limit,                        \* settings.ask_rate_limit_per_minute
  Window,                       \* constants.RATE_WINDOW_S
  SweepAt,                      \* constants.RATE_SWEEP_AT
  MaxDelay,                     \* bound: from the reading to the lock
  LastTime                      \* bound: the clock stops here

ASSUME RateAssumption ==
  /\ Limit \in Nat \ {0} /\ Window \in Nat \ {0} /\ SweepAt \in Nat
  /\ MaxDelay \in Nat /\ LastTime \in Nat

VARIABLES
  clock,                        \* time.monotonic()
  hits,                         \* _hits: each address's timestamps
  thread,                       \* each thread: [at, key, now]
  admitted                      \* each address's admissions (history)

vars == <<clock, hits, thread, admitted>>

Ready == [at |-> "ready"]

Init ==
  /\ clock = 0
  /\ hits = [a \in Addresses |-> << >>]
  /\ thread = [t \in Threads |-> Ready]
  /\ admitted = [a \in Addresses |-> << >>]

Expired(stamp, now) == now - stamp >= Window

(* _trim: expired timestamps are dropped from the front, up to the first   *)
(* one that has not expired.                                               *)
FirstFresh(seen, now) == CHOOSE k \in 1..(Len(seen) + 1) :
  /\ \A i \in 1..(k - 1) : Expired(seen[i], now)
  /\ k <= Len(seen) => ~Expired(seen[k], now)
TrimNothing(seen, now) == seen                     \* fault: never trims
Trim(seen, now) == SubSeq(seen, FirstFresh(seen, now), Len(seen))

(* _sweep: an address goes when its last timestamp has expired.            *)
SweepAll(table, now) == [a \in Addresses |-> << >>]  \* fault: forgets all
Sweep(table, now) == [a \in Addresses |->
  IF table[a] # << >> /\ Expired(table[a][Len(table[a])], now)
    THEN << >> ELSE table[a]]

Size == Cardinality({a \in Addresses : hits[a] # << >>})
Swept(now) == IF Size >= SweepAt THEN Sweep(hits, now) ELSE hits

(* The request arrives and the clock is read, outside the lock.            *)
Read(t, a) ==
  /\ thread[t].at = "ready"
  /\ thread' = [thread EXCEPT ![t] = [at |-> "timed", key |-> a, now |-> clock]]
  /\ UNCHANGED <<clock, hits, admitted>>

Full(seen) == Len(seen) >= Limit

(* Under the lock: sweep, trim, check, append.                             *)
Reject(t) ==
  LET a == thread[t].key
      now == thread[t].now
      seen == Trim(Swept(now)[a], now)
  IN
  /\ thread[t].at = "timed"
  /\ Full(seen)
  /\ hits' = [Swept(now) EXCEPT ![a] = seen]
  /\ thread' = [thread EXCEPT ![t] = Ready]
  /\ UNCHANGED <<clock, admitted>>

Admit(t) ==
  LET a == thread[t].key
      now == thread[t].now
      seen == Trim(Swept(now)[a], now)
  IN
  /\ thread[t].at = "timed"
  /\ ~Full(seen)
  /\ hits' = [Swept(now) EXCEPT ![a] = Append(seen, now)]
  /\ thread' = [thread EXCEPT ![t] = Ready]
  /\ admitted' = [admitted EXCEPT ![a] = Append(@, now)]
  /\ UNCHANGED clock

(* Time passes; no thread waits for the lock longer than MaxDelay.         *)
Tick ==
  /\ clock < LastTime
  /\ \A t \in Threads : thread[t].at = "timed" =>
                          clock - thread[t].now < MaxDelay
  /\ clock' = clock + 1
  /\ UNCHANGED <<hits, thread, admitted>>

Next ==
  \/ \E t \in Threads, a \in Addresses : Read(t, a)
  \/ \E t \in Threads : Reject(t) \/ Admit(t)
  \/ Tick

Spec == Init /\ [][Next]_vars

-----------------------------------------------------------------------------

Timed == [at : {"timed"}, key : Addresses, now : Nat]

TypeOK ==
  /\ clock \in Nat
  /\ hits \in [Addresses -> Seq(Nat)]
  /\ \A a \in Addresses : Len(hits[a]) <= Limit
  /\ thread \in [Threads -> {Ready} \union Timed]
  /\ admitted \in [Addresses -> Seq(Nat)]

(* The limit itself: from one admission of an address to the one Limit     *)
(* places later, almost a whole window passes; each side may be off by the *)
(* time a thread waited for the lock.                                      *)
AdmissionsSpaced == \A a \in Addresses : \A i \in 1..(Len(admitted[a]) - Limit) :
  admitted[a][i + Limit] - admitted[a][i] >= Window - 2 * MaxDelay

(* A request is turned away only when the last Limit admissions of its     *)
(* address fell within the window, the same allowance aside: timestamps    *)
(* that arrived out of order, or that a sweep passed over, do not linger.  *)
RejectionJustified == \A t \in Threads :
  LET a == thread[t].key
      now == thread[t].now
  IN
  thread[t].at = "timed" /\ Full(Trim(Swept(now)[a], now)) =>
    /\ Len(admitted[a]) >= Limit
    /\ \A i \in (Len(admitted[a]) - Limit + 1)..Len(admitted[a]) :
         now - admitted[a][i] < Window + MaxDelay

(* What holds them up, with the types and AdmissionsSpaced the inductive   *)
(* invariant of the proofs: the clock was read MaxDelay ago at most; stamps *)
(* out of order are off by no more; the stamps kept of an address are its  *)
(* last admissions; and those dropped had expired, but for the ones that a *)
(* sweep takes along with the last.                                        *)
Timely == \A t \in Threads : thread[t].at = "timed" =>
  thread[t].now <= clock /\ clock - thread[t].now <= MaxDelay
Spread == \A a \in Addresses : \A j \in 1..Len(admitted[a]) :
  /\ admitted[a][j] <= clock
  /\ \A i \in 1..j : admitted[a][i] - admitted[a][j] <= MaxDelay
Faithful(kept, all, time) == \E past \in 0..Len(all) :
  /\ Len(all) = past + Len(kept)
  /\ \A i \in 1..Len(kept) : kept[i] = all[past + i]
  /\ \A i \in 1..past : time - all[i] >= Window - MaxDelay
Remembered == \A a \in Addresses : Faithful(hits[a], admitted[a], clock)
IInv == TypeOK /\ Timely /\ Spread /\ Remembered /\ AdmissionsSpaced

=============================================================================
