------------------------------ MODULE SpendCap ------------------------------
(***************************************************************************)
(* Concurrent LLM calls sharing one SpendTracker, across UTC midnights.    *)
(*                                                                         *)
(* A call reserves an estimate before it awaits the provider and settles   *)
(* the real cost afterwards (app/service.py, _reserve_spend and            *)
(* _record_usage).  Between the two, other calls run and the date may      *)
(* change.  The real cost is whatever the vendor reports: the estimate is  *)
(* priced at the primary's rates and on a character count of the prompt,   *)
(* so nothing in the code keeps the cost below it.                         *)
(*                                                                         *)
(* held, billed, crossed and overrun are history variables: the ledger of  *)
(* the current day as an auditor would keep it.  No action reads them.     *)
(***************************************************************************)
EXTENDS SpendTracker, FiniteSets, Functions

CONSTANTS
  Calls,                        \* LLM calls, each made once
  Estimates,                    \* the amounts a call may reserve
  Costs,                        \* the amounts a call may turn out to cost
  LastDay                       \* bound: the clock stops at this day

ASSUME CallsAssumption == IsFiniteSet(Calls)
ASSUME AmountsAssumption == Estimates \subseteq Nat /\ Costs \subseteq Nat
ASSUME LastDayAssumption == LastDay \in Nat

VARIABLES
  phase,                        \* each call: "new", "inflight", "over"
  reserved,                     \* Prepared.reserved_usd while unsettled
  heldOn,                       \* the day each call's reservation was made
  held,                         \* today's reservations not yet settled
  billed,                       \* real costs settled today
  crossed,                      \* reservations of earlier days settled today
  overrun                       \* today's costs in excess of their estimates

callVars == <<phase, reserved, heldOn>>
ledger == <<held, billed, crossed, overrun>>
vars == <<clock, spend, callVars, ledger>>

Init ==
  /\ clock = 0
  /\ spend = [date |-> 0, usd |-> 0]
  /\ phase = [c \in Calls |-> "new"]
  /\ reserved = [c \in Calls |-> 0]
  /\ heldOn = [c \in Calls |-> 0]
  /\ held = 0 /\ billed = 0 /\ crossed = 0 /\ overrun = 0

(* A call passes the cap check and holds its estimate.                     *)
Admit(c) == \E estimate \in Estimates :
  /\ phase[c] = "new"
  /\ Reserve(estimate)
  /\ phase' = [phase EXCEPT ![c] = "inflight"]
  /\ reserved' = [reserved EXCEPT ![c] = estimate]
  /\ heldOn' = [heldOn EXCEPT ![c] = clock]
  /\ held' = held + estimate
  /\ UNCHANGED <<clock, billed, crossed, overrun>>

(* A call is turned away with SpendCapExceeded.                            *)
TurnAway(c) == \E estimate \in Estimates :
  /\ phase[c] = "new"
  /\ Refuse(estimate)
  /\ phase' = [phase EXCEPT ![c] = "over"]
  /\ UNCHANGED <<clock, reserved, heldOn, ledger>>

(* A call's outcome reaches the tracker: its cost, or 0 when it failed.    *)
Finish(c) == \E cost \in Costs \union {0} :
  /\ phase[c] = "inflight"
  /\ Settle(reserved[c], cost)
  /\ phase' = [phase EXCEPT ![c] = "over"]
  /\ reserved' = [reserved EXCEPT ![c] = 0]
  /\ billed' = billed + cost
  /\ overrun' = overrun + NonNegative(cost - reserved[c])
  /\ IF heldOn[c] = clock
       THEN held' = held - reserved[c] /\ UNCHANGED crossed
       ELSE crossed' = crossed + reserved[c] /\ UNCHANGED held
  /\ UNCHANGED <<clock, heldOn>>

(* GET /stats reads the tracker.                                           *)
Stats == ReadStats /\ UNCHANGED <<clock, callVars, ledger>>

(* UTC midnight: the auditor opens a new page, the tracker does not know.  *)
Midnight ==
  /\ clock < LastDay
  /\ clock' = clock + 1
  /\ held' = 0 /\ billed' = 0 /\ crossed' = 0 /\ overrun' = 0
  /\ UNCHANGED <<spend, callVars>>

Next ==
  \/ \E c \in Calls : Admit(c) \/ TurnAway(c) \/ Finish(c)
  \/ Stats
  \/ Midnight

Spec == Init /\ [][Next]_vars

-----------------------------------------------------------------------------

(* Types of every variable; the tracker's date never runs ahead of the     *)
(* clock and no reservation is dated in the future.                        *)
TypeOK ==
  /\ clock \in Nat
  /\ spend \in [date : Nat, usd : Nat]
  /\ spend.date <= clock
  /\ phase \in [Calls -> {"new", "inflight", "over"}]
  /\ reserved \in [Calls -> Nat]
  /\ heldOn \in [Calls -> Nat] /\ \A c \in Calls : heldOn[c] <= clock
  /\ held \in Int
  /\ billed \in Nat /\ crossed \in Nat /\ overrun \in Nat

(* The tracker never under-counts the day by more than the reservations    *)
(* that were made before midnight and settled after it (settle() takes     *)
(* them out of a counter they were never added to).                        *)
LedgerCovers == held + billed <= Today.usd + crossed

(* The counter passes the cap only by what calls cost beyond their         *)
(* estimates.                                                              *)
CounterBounded == Today.usd <= Cap + overrun

(* The cap itself: what is spent or committed today exceeds it by no more  *)
(* than midnight-crossing reservations and cost overruns.                  *)
SpendBounded == held + billed <= Cap + crossed + overrun

(* Whoever is admitted fits: at the moment a call is admitted, everything  *)
(* spent or committed today, the new estimate included, is strictly below  *)
(* the cap, midnight-crossing reservations aside, however many calls are   *)
(* in flight and whatever the earlier ones cost (reserve(), "one           *)
(* uninterrupted step").                                                   *)
Admitted == \E c \in Calls : phase[c] = "new" /\ phase'[c] = "inflight"
AdmissionFits == [][Admitted => held' + billed' < Cap + crossed']_vars

(* The budget never drifts shut: what the counter shows is explained by    *)
(* the calls that are in flight and by money really spent today.           *)
HeldToday == {c \in Calls : phase[c] = "inflight" /\ heldOn[c] = clock}
NoPhantomSpend ==
  /\ held = SumFunctionOnSet(reserved, HeldToday)
  /\ Today.usd <= held + billed

(* The inductive invariant of the proofs.                                  *)
IInv == TypeOK /\ LedgerCovers /\ CounterBounded /\ NoPhantomSpend

=============================================================================
