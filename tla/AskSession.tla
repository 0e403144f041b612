----------------------------- MODULE AskSession -----------------------------
(***************************************************************************)
(* What POST /ask promises its clients, whatever happens inside.           *)
(*                                                                         *)
(* A request ends in one JSON body, one error status, or a stream of       *)
(* frames in a fixed order: citations, tokens, final, done; or, when the   *)
(* generation fails, citations, tokens, error, done.  A stream may stop    *)
(* after any frame (the client left, or the connection broke).  An answer  *)
(* is kept for replay only before it is announced as final, and never      *)
(* after a failure was announced.                                          *)
(***************************************************************************)
CONSTANT Requests

VARIABLES
  sent,                         \* the last thing each client was sent
  kept                          \* the requests whose answer is kept for replay

Frames == {"nothing", "json", "status", "citations", "tokens", "final",
           "done", "error", "errordone"}

(* The frames that may follow a frame.                                     *)
Follows == [f \in Frames |->
  CASE f = "nothing"   -> {"json", "status", "citations"}
    [] f = "citations" -> {"tokens", "final", "error"}
    [] f = "tokens"    -> {"tokens", "final", "error"}
    [] f = "final"     -> {"done"}
    [] f = "error"     -> {"errordone"}
    [] OTHER           -> {}]

vars == <<sent, kept>>

Init == sent = [r \in Requests |-> "nothing"] /\ kept = {}

Send(r) == \E f \in Follows[sent[r]] :
  /\ f = "error" => r \notin kept
  /\ sent' = [sent EXCEPT ![r] = f]
  /\ UNCHANGED kept

Keep(r) ==
  /\ sent[r] \in {"nothing", "citations", "tokens"}
  /\ kept' = kept \union {r}
  /\ UNCHANGED sent

(* The answer is kept and announced in one step.                           *)
KeepAndSend(r) ==
  /\ sent[r] \in {"nothing", "citations", "tokens"}
  /\ kept' = kept \union {r}
  /\ \E f \in {"json", "final"} \cap Follows[sent[r]] :
       sent' = [sent EXCEPT ![r] = f]

Next == \E r \in Requests : Send(r) \/ Keep(r) \/ KeepAndSend(r)

Spec == Init /\ [][Next]_vars

=============================================================================
