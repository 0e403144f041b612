---------------------------- MODULE SpendTracker ----------------------------
(***************************************************************************)
(* The daily spend counter of app/observability/cost.py (SpendTracker).    *)
(*                                                                         *)
(* One record, `spend`, keyed by a UTC date.  No method of the class       *)
(* awaits, so in the single-threaded asyncio process each method call is   *)
(* one atomic step; the interleavings that matter are those BETWEEN calls, *)
(* and the modules that use this one provide them.                         *)
(*                                                                         *)
(* Money is a natural number of the smallest unit that matters.  The       *)
(* counter `calls` of the Spend record is left out: no decision reads it.  *)
(***************************************************************************)
EXTENDS Integers

CONSTANT Cap                    \* settings.daily_spend_cap_usd

ASSUME CapAssumption == Cap \in Nat

VARIABLES
  clock,                        \* the UTC date, as a day number
  spend                         \* the tracker's record [date, usd]

NonNegative(x) == IF x < 0 THEN 0 ELSE x

(* today(): the record, replaced by an empty one once the date changed.    *)
Today == IF spend.date = clock THEN spend ELSE [date |-> clock, usd |-> 0]

(* Fault variants of the operators below, one per way the class could go   *)
(* wrong; the specifications never use them.                               *)
WouldExceedIgnoringEstimate(estimate) == Today.usd >= Cap
WouldExceedPastCap(estimate) == Today.usd + estimate > Cap
ReserveCheckOnly(estimate) ==
  /\ Today.usd + estimate < Cap
  /\ spend' = Today
SettleKeepingHold(reserved, actual) ==
  spend' = [Today EXCEPT !.usd = @ + actual]

(* would_exceed(): reaching the cap exactly counts as exceeding it.        *)
WouldExceed(estimate) == Today.usd + estimate >= Cap

(* reserve(): the check and the debit in one uninterrupted step.           *)
Reserve(estimate) ==
  /\ ~WouldExceed(estimate)
  /\ spend' = [Today EXCEPT !.usd = @ + estimate]

(* reserve() raising SpendCapExceeded: nothing is held, but the check has  *)
(* rolled the record over.                                                 *)
Refuse(estimate) ==
  /\ WouldExceed(estimate)
  /\ spend' = Today

(* settle(): swap a reservation for the real cost, clamped at zero.        *)
Settle(reserved, actual) ==
  spend' = [Today EXCEPT !.usd = NonNegative(@ - reserved + actual)]

(* remaining(), today() as /stats reads them: a read that may roll over.   *)
ReadStats == spend' = Today

=============================================================================
