------------------------------ MODULE Failover ------------------------------
(***************************************************************************)
(* One call of FailoverProvider (app/generation/failover.py) over an       *)
(* ordered list of vendors: retry the same vendor on 429/5xx, move to the  *)
(* next on timeouts, connection errors and exhausted retries, never on our *)
(* own errors, and never once a token reached the caller.                  *)
(*                                                                         *)
(* The vendors are the environment: an attempt may answer, fail in any way *)
(* an adapter of providers.py can report, or hang.  A hang before the      *)
(* first token is ended by the deadline; afterwards nothing ends it.       *)
(*                                                                         *)
(* An attempt holds a response of its vendor open.  The vendor's library   *)
(* closes it when it ends, fails or is cancelled there; what stops in the  *)
(* adapter's own frame (an error of its own, or a generator closed at its  *)
(* yield) closes only a response held in an `async with`.                  *)
(***************************************************************************)
EXTENDS Integers, Sequences

CONSTANTS
  N,                            \* number of vendors; 1 is the primary
  MaxAttempts,                  \* constants.MAX_ATTEMPTS
  MaxTokens,                    \* bound: tokens of one stream
  Managed                       \* vendors whose adapter streams in an `async
                                \* with`: Anthropic and Hugging Face, not Gemini

ASSUME FailoverAssumption ==
  N \in Nat \ {0} /\ MaxAttempts \in Nat \ {0} /\ MaxTokens \in Nat \ {0}

VARIABLES
  mode,                         \* "complete" or "stream"
  phase,                        \* "calling" and "backoff", before the first
                                \* token; "yielded" (the caller has a token),
                                \* "flowing" (it waits for the next);
                                \* "closing" (abandoned at a token), "over"
  vendor,                       \* index of the vendor being tried
  attempt,                      \* number of the attempt on that vendor
  failures,                     \* AllProvidersFailed.failures: [by, kind]
  handoffs,                     \* provider.failover events: [from, to]
  spoken,                       \* the vendor behind every token yielded
  usage,                        \* vendors that reported usage, in order
  live,                         \* vendors with a response of ours open
  calls,                        \* attempts made on each vendor
  result                        \* "none", "ok", "all_failed", "fatal",
                                \* "broken", "left"

vars == <<mode, phase, vendor, attempt, failures, handoffs, spoken, usage,
          live, calls, result>>

Vendors == 1..N
(* How an attempt fails: the kinds of ProviderError, and an exception that *)
(* is none, which no handler of the chain catches.                         *)
Kinds == {"rate_limit", "server", "timeout", "connection", "fatal", "untyped"}
OurErrors == {"fatal", "untyped"}
IsRetryable(kind) == kind \in {"rate_limit", "server"}
ShouldFailOverAlways(kind) == TRUE      \* fault: our own errors move on too
ShouldFailOver(kind) == kind \notin OurErrors

(* A new attempt on vendor v opens a response beside those still open.     *)
Call(v, open) ==
  /\ phase' = "calling"
  /\ live' = open \union {v}
  /\ calls' = [calls EXCEPT ![v] = @ + 1]

(* What is still open after the adapter stopped: nothing when the vendor's *)
(* library stopped first, the unmanaged response when its own frame did.   *)
EndedByVendor == {}
Unwound == live \ Managed

Over(outcome, open) ==
  /\ phase' = "over"
  /\ result' = outcome
  /\ live' = open

Init ==
  /\ mode \in {"complete", "stream"}
  /\ phase = "calling"
  /\ vendor = 1 /\ attempt = 1
  /\ failures = <<>> /\ handoffs = <<>> /\ spoken = <<>> /\ usage = <<>>
  /\ live = {1}
  /\ calls = [v \in Vendors |-> IF v = 1 THEN 1 ELSE 0]
  /\ result = "none"

-----------------------------------------------------------------------------
(* The attempt in progress fails.                                          *)

(* tenacity: another attempt on the same vendor, after a pause.            *)
Retry(kind) ==
  /\ IsRetryable(kind) /\ attempt < MaxAttempts
  /\ attempt' = attempt + 1
  /\ phase' = "backoff"
  /\ live' = EndedByVendor
  /\ UNCHANGED <<mode, vendor, failures, handoffs, spoken, usage, calls,
                 result>>

(* FATAL is re-raised as it is, and so is what is no ProviderError.        *)
Raise(kind) ==
  /\ ~ShouldFailOver(kind)
  /\ \/ Over("fatal", EndedByVendor)
     \/ mode = "stream" /\ Over("fatal", Unwound)
  /\ UNCHANGED <<mode, vendor, attempt, failures, handoffs, spoken, usage,
                 calls>>

(* Fault: a retryable error moves on without using up the retries.         *)
GiveUpEarly(kind) ==
  /\ ShouldFailOver(kind)
  /\ failures' = Append(failures, [by |-> vendor, kind |-> kind])
  /\ IF vendor < N
       THEN /\ handoffs' = Append(handoffs, [from |-> vendor, to |-> vendor + 1])
            /\ vendor' = vendor + 1
            /\ attempt' = 1
            /\ Call(vendor + 1, EndedByVendor)
            /\ UNCHANGED result
       ELSE /\ Over("all_failed", EndedByVendor)
            /\ UNCHANGED <<handoffs, vendor, attempt, calls>>
  /\ UNCHANGED <<mode, spoken, usage>>

(* The vendor is given up: the next one is called, or there is none.       *)
GiveUp(kind) ==
  /\ ShouldFailOver(kind)
  /\ IsRetryable(kind) => attempt = MaxAttempts
  /\ failures' = Append(failures, [by |-> vendor, kind |-> kind])
  /\ IF vendor < N
       THEN /\ handoffs' = Append(handoffs, [from |-> vendor, to |-> vendor + 1])
            /\ vendor' = vendor + 1
            /\ attempt' = 1
            /\ Call(vendor + 1, EndedByVendor)
            /\ UNCHANGED result
       ELSE /\ Over("all_failed", EndedByVendor)
            /\ UNCHANGED <<handoffs, vendor, attempt, calls>>
  /\ UNCHANGED <<mode, spoken, usage>>

AttemptFails(kind) ==
  /\ phase = "calling"
  /\ Retry(kind) \/ Raise(kind) \/ GiveUp(kind)

VendorFails == \E kind \in Kinds : AttemptFails(kind)

(* Fault: streams are opened outside the deadline.                         *)
DeadlineForCompletionsOnly == mode = "complete" /\ AttemptFails("timeout")

(* _with_deadline: no response in time.                                    *)
Deadline == AttemptFails("timeout")

BackoffEnds ==
  /\ phase = "backoff"
  /\ Call(vendor, live)
  /\ UNCHANGED <<mode, vendor, attempt, failures, handoffs, spoken, usage,
                 result>>

-----------------------------------------------------------------------------
(* The attempt in progress answers.                                        *)

(* A completion with its usage, or a stream that ends without a chunk.     *)
AnswersAtOnce ==
  /\ phase = "calling"
  /\ usage' = Append(usage, vendor)
  /\ Over("ok", EndedByVendor)
  /\ UNCHANGED <<mode, vendor, attempt, failures, handoffs, spoken, calls>>

(* _open_stream pulled the first chunk: committed to this vendor.          *)
FirstToken ==
  /\ phase = "calling" /\ mode = "stream"
  /\ phase' = "yielded"
  /\ spoken' = Append(spoken, vendor)
  /\ UNCHANGED <<mode, vendor, attempt, failures, handoffs, usage, live,
                 calls, result>>

TokenTaken ==
  /\ phase = "yielded"
  /\ phase' = "flowing"
  /\ UNCHANGED <<mode, vendor, attempt, failures, handoffs, spoken, usage,
                 live, calls, result>>

NextToken ==
  /\ phase = "flowing" /\ Len(spoken) < MaxTokens
  /\ phase' = "yielded"
  /\ spoken' = Append(spoken, vendor)
  /\ UNCHANGED <<mode, vendor, attempt, failures, handoffs, usage, live,
                 calls, result>>

(* The last chunk was delivered; on_usage fires and the response closes.   *)
StreamEnds ==
  /\ phase = "flowing"
  /\ usage' = Append(usage, vendor)
  /\ Over("ok", EndedByVendor)
  /\ UNCHANGED <<mode, vendor, attempt, failures, handoffs, spoken, calls>>

(* Fault: reports usage for a stream that broke.                           *)
StreamBreaksBilled ==
  /\ phase = "flowing"
  /\ usage' = Append(usage, vendor)
  /\ Over("broken", EndedByVendor)
  /\ UNCHANGED <<mode, vendor, attempt, failures, handoffs, spoken, calls>>

(* An error after the first token, an unreadable usage report after the    *)
(* last one included: it reaches the caller unwrapped.                     *)
StreamBreaks ==
  /\ phase = "flowing"
  /\ Over("broken", EndedByVendor) \/ Over("broken", Unwound)
  /\ UNCHANGED <<mode, vendor, attempt, failures, handoffs, spoken, usage,
                 calls>>

-----------------------------------------------------------------------------
(* The caller of a stream leaves.                                          *)

(* Its task is cancelled where it waits: inside the vendor's library, or   *)
(* in the pause between two attempts.                                      *)
CallerCancelled ==
  /\ phase \in {"calling", "backoff", "flowing"} /\ mode = "stream"
  /\ Over("left", EndedByVendor)
  /\ UNCHANGED <<mode, vendor, attempt, failures, handoffs, spoken, usage,
                 calls>>

(* Between two tokens: the generator stays suspended at its yield until it *)
(* is closed, by the caller or by the event loop's finalizer.              *)
CallerLeaves ==
  /\ phase = "yielded"
  /\ phase' = "closing"
  /\ result' = "left"
  /\ UNCHANGED <<mode, vendor, attempt, failures, handoffs, spoken, usage,
                 live, calls>>

(* Fault: the adapter's generator is not closed with the chain's.          *)
StreamDropped ==
  /\ phase = "closing"
  /\ Over(result, live)
  /\ UNCHANGED <<mode, vendor, attempt, failures, handoffs, spoken, usage,
                 calls>>

(* The finally of the chain closes the adapter's generator at its yield.   *)
StreamClosed ==
  /\ phase = "closing"
  /\ Over(result, Unwound)
  /\ UNCHANGED <<mode, vendor, attempt, failures, handoffs, spoken, usage,
                 calls>>

Finished == phase = "over" /\ UNCHANGED vars

Next ==
  \/ VendorFails \/ Deadline \/ BackoffEnds
  \/ AnswersAtOnce \/ FirstToken \/ TokenTaken \/ NextToken
  \/ StreamEnds \/ StreamBreaks
  \/ CallerCancelled \/ CallerLeaves \/ StreamClosed
  \/ Finished

(* Only the process's own timers are fair: no vendor has to answer.        *)
Spec == Init /\ [][Next]_vars /\ WF_vars(Deadline) /\ WF_vars(BackoffEnds)

-----------------------------------------------------------------------------

Failure == [by : Vendors, kind : Kinds]

TypeOK ==
  /\ mode \in {"complete", "stream"}
  /\ phase \in {"calling", "backoff", "yielded", "flowing", "closing", "over"}
  /\ vendor \in Vendors /\ attempt \in 1..MaxAttempts
  /\ failures \in Seq(Failure)
  /\ handoffs \in Seq([from : Vendors, to : Vendors])
  /\ spoken \in Seq(Vendors) /\ usage \in Seq(Vendors)
  /\ live \in SUBSET Vendors
  /\ calls \in [Vendors -> 0..MaxAttempts]
  /\ result \in {"none", "ok", "all_failed", "fatal", "broken", "left"}

(* Every word the caller received came from the vendor it ended with, and  *)
(* usage is reported once, by that vendor, exactly for a call that         *)
(* succeeded (what /ask bills and attributes).                             *)
OneVoiceOneBill ==
  /\ \A i \in DOMAIN spoken : spoken[i] = vendor
  /\ IF result = "ok" THEN usage = <<vendor>> ELSE usage = <<>>

(* The list of failures is the whole story: one entry per vendor given up, *)
(* in order, none of them our own error, every one announced as a hand-off *)
(* unless it was the last vendor; and "all failed" means all of them.      *)
FailuresComplete ==
  /\ Len(failures) = IF result = "all_failed" THEN N ELSE vendor - 1
  /\ \A i \in DOMAIN failures : failures[i].by = i /\ failures[i].kind \notin OurErrors
  /\ Len(handoffs) = vendor - 1
  /\ \A i \in DOMAIN handoffs : handoffs[i] = [from |-> i, to |-> i + 1]

(* Retries are spent where they help: a vendor given up on a retryable     *)
(* error was tried to the limit, no vendor was tried beyond it, and none   *)
(* after the current one was tried at all.                                 *)
RetriesSpent ==
  /\ \A i \in DOMAIN failures :
       IsRetryable(failures[i].kind) => calls[i] = MaxAttempts
  /\ \A v \in Vendors : v > vendor => calls[v] = 0
  /\ calls[vendor] <= attempt

(* No two vendors' responses are open at once, none while the call pauses  *)
(* between attempts; and one that is still open after the call belongs to  *)
(* an adapter without `async with`, in whose frame a stream was cut short: *)
(* it is left to the garbage collector.                                    *)
ResponsesReleased ==
  /\ live \subseteq {vendor}
  /\ phase = "backoff" => live = {}
  /\ phase = "over" /\ live # {} =>
       /\ mode = "stream" /\ vendor \notin Managed
       /\ result \in {"fatal", "broken", "left"}

(* How the pieces of one call fit together; with the invariants above, the *)
(* inductive invariant of the proofs.                                      *)
InStep ==
  /\ phase \in {"closing", "over"} <=> result # "none"
  /\ phase = "closing" => result = "left"
  /\ phase \in {"calling", "backoff"} => spoken = <<>>
  /\ phase \in {"yielded", "flowing", "closing"} => spoken # <<>> /\ mode = "stream"
  /\ phase \in {"calling", "yielded", "flowing"} => calls[vendor] = attempt
  /\ phase = "backoff" => calls[vendor] = attempt - 1
  /\ result = "all_failed" => vendor = N
IInv ==
  /\ TypeOK /\ InStep
  /\ OneVoiceOneBill /\ FailuresComplete /\ RetriesSpent /\ ResponsesReleased

(* The promise to the caller.                                              *)
Gen == INSTANCE Generation WITH
  Nobody <- 0,
  stage <- CASE result = "none" -> IF phase \in {"yielded", "flowing"} THEN "flowing" ELSE "open"
             [] result \in {"ok", "left"} -> result
             [] OTHER -> "failed",
  speaker <- IF spoken = <<>> THEN 0 ELSE spoken[1],
  biller <- IF usage = <<>> THEN 0 ELSE usage[1]
GenerationSpec == Gen!Spec

(* Even if no vendor ever answers, the caller gets a first token or an     *)
(* error in the end.                                                       *)
NeverStuckBeforeFirstToken ==
  phase \in {"calling", "backoff"} ~> phase \in {"yielded", "over"}

=============================================================================
