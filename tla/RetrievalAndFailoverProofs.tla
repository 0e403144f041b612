---------------------- MODULE RetrievalAndFailoverProofs ----------------------
(***************************************************************************)
(* Proofs about the two halves of an answer: calling the vendors and       *)
(* finding the passages.                                                   *)
(*                                                                         *)
(* Failover: for every number of vendors, every retry limit and every      *)
(* length of a stream, a call speaks with one voice, bills it once,        *)
(* reports every failure and closes every response it can; and it keeps    *)
(* the promise of module Generation.                                       *)
(*                                                                         *)
(* Retrieval, further down: for every corpus, ranking, score, cost and     *)
(* budget the plan is sound, fusion keeps what the legs agree on, and the  *)
(* prompt holds the best of what was found.                                *)
(***************************************************************************)
EXTENDS Failover, Retrieval, FiniteSetTheorems, SequenceTheorems, TLAPS

(* A sequence grows at its end and nowhere else.                           *)
LEMMA AppendFacts ==
  ASSUME NEW S, NEW s \in Seq(S), NEW e \in S
  PROVE  /\ Append(s, e) \in Seq(S)
         /\ Len(Append(s, e)) = Len(s) + 1
         /\ DOMAIN Append(s, e) = 1..(Len(s) + 1)
         /\ \A i \in 1..Len(s) : Append(s, e)[i] = s[i]
         /\ Append(s, e)[Len(s) + 1] = e
  OBVIOUS

LEMMA InitEstablishes == Init => IInv
<1> SUFFICES ASSUME Init PROVE IInv
  OBVIOUS
<1>1. TypeOK
  BY FailoverAssumption DEF Init, TypeOK, Vendors
<1>2. InStep /\ OneVoiceOneBill /\ FailuresComplete
  BY FailoverAssumption DEF Init, InStep, OneVoiceOneBill, FailuresComplete, Vendors
<1>3. RetriesSpent /\ ResponsesReleased
  BY FailoverAssumption DEF Init, RetriesSpent, ResponsesReleased, Vendors
<1>4. QED
  BY <1>1, <1>2, <1>3 DEF IInv

-----------------------------------------------------------------------------
(* The attempt in progress fails.                                          *)

LEMMA RetryPreserves ==
  ASSUME IInv, phase = "calling", NEW kind \in Kinds, Retry(kind)
  PROVE  IInv'
<1>1. TypeOK'
  BY FailoverAssumption DEF IInv, TypeOK, Retry, Failure, EndedByVendor
<1>2. InStep' /\ OneVoiceOneBill' /\ FailuresComplete'
  BY DEF IInv, TypeOK, InStep, OneVoiceOneBill, FailuresComplete, Retry
<1>3. RetriesSpent' /\ ResponsesReleased'
  BY DEF IInv, TypeOK, InStep, RetriesSpent, ResponsesReleased, Retry,
         EndedByVendor
<1>4. QED
  BY <1>1, <1>2, <1>3 DEF IInv

(* What stays open is at most what was.                                    *)
LEMMA LeftOpen ==
  /\ EndedByVendor \subseteq live /\ Unwound \subseteq live
  /\ EndedByVendor = {} /\ Unwound \cap Managed = {}
  BY DEF EndedByVendor, Unwound

LEMMA RaisePreserves ==
  ASSUME IInv, phase = "calling", NEW kind \in Kinds, Raise(kind)
  PROVE  IInv'
<1>1. /\ phase' = "over" /\ result' = "fatal"
      /\ live' \subseteq live
      /\ live' # {} => mode = "stream" /\ live' \cap Managed = {}
      /\ UNCHANGED <<mode, vendor, attempt, failures, handoffs, spoken, usage,
                     calls>>
  BY LeftOpen DEF Raise, Over
<1>2. TypeOK'
  BY <1>1 DEF IInv, TypeOK
<1>3. InStep' /\ OneVoiceOneBill' /\ FailuresComplete'
  BY <1>1 DEF IInv, TypeOK, InStep, OneVoiceOneBill, FailuresComplete
<1>4. RetriesSpent' /\ ResponsesReleased'
  BY <1>1 DEF IInv, TypeOK, InStep, RetriesSpent, ResponsesReleased
<1>5. QED
  BY <1>2, <1>3, <1>4 DEF IInv

LEMMA GiveUpPreserves ==
  ASSUME IInv, phase = "calling", NEW kind \in Kinds, GiveUp(kind)
  PROVE  IInv'
<1> DEFINE entry == [by |-> vendor, kind |-> kind]
<1>1. /\ kind \notin OurErrors /\ kind \in Kinds
      /\ IsRetryable(kind) => calls[vendor] = MaxAttempts
      /\ vendor \in Nat /\ N \in Nat /\ 1 <= vendor /\ vendor <= N
      /\ failures \in Seq(Failure) /\ entry \in Failure
      /\ failures' = Append(failures, entry)
      /\ Len(failures) = vendor - 1 /\ Len(handoffs) = vendor - 1
      /\ handoffs \in Seq([from : Vendors, to : Vendors])
  BY FailoverAssumption
  DEF GiveUp, ShouldFailOver, IInv, TypeOK, InStep, FailuresComplete, Failure, Vendors
<1>2. /\ failures' \in Seq(Failure)
      /\ Len(failures') = vendor
      /\ DOMAIN failures' = 1..vendor
      /\ \A i \in 1..(vendor - 1) : failures'[i] = failures[i]
      /\ failures'[vendor] = entry
  BY <1>1, AppendFacts
<1>3. /\ \A i \in 1..vendor : failures'[i].by = i /\ failures'[i].kind \notin OurErrors
      /\ \A i \in 1..vendor :
           IsRetryable(failures'[i].kind) => calls[i] = MaxAttempts
  <2>1. \A i \in 1..(vendor - 1) :
          /\ failures[i].by = i /\ failures[i].kind \notin OurErrors
          /\ IsRetryable(failures[i].kind) => calls[i] = MaxAttempts
    <3>1. DOMAIN failures = 1..(vendor - 1)
      BY <1>1
    <3>2. QED
      BY <3>1 DEF IInv, FailuresComplete, RetriesSpent
  <2>2. \A i \in 1..vendor : i \in 1..(vendor - 1) \/ i = vendor
    BY <1>1
  <2>3. QED
    BY <1>1, <1>2, <2>1, <2>2
<1>4. CASE vendor < N
  <2> DEFINE hand == [from |-> vendor, to |-> vendor + 1]
  <2>1. /\ handoffs' = Append(handoffs, hand)
        /\ vendor' = vendor + 1 /\ attempt' = 1
        /\ phase' = "calling" /\ live' = {vendor + 1}
        /\ calls' = [calls EXCEPT ![vendor + 1] = @ + 1]
        /\ UNCHANGED <<mode, spoken, usage, result>>
    BY <1>4 DEF GiveUp, Call, EndedByVendor
  <2>2. vendor + 1 \in Vendors /\ hand \in [from : Vendors, to : Vendors]
    BY <1>1, <1>4 DEF Vendors
  <2>3. /\ handoffs' \in Seq([from : Vendors, to : Vendors])
        /\ Len(handoffs') = vendor /\ DOMAIN handoffs' = 1..vendor
        /\ \A i \in 1..(vendor - 1) : handoffs'[i] = handoffs[i]
        /\ handoffs'[vendor] = hand
    BY <1>1, <2>1, <2>2, AppendFacts
  <2>4. calls[vendor + 1] = 0 /\ calls \in [Vendors -> 0..MaxAttempts]
    BY <1>1, <2>2 DEF IInv, TypeOK, RetriesSpent
  <2>5. /\ calls' \in [Vendors -> 0..MaxAttempts]
        /\ calls'[vendor + 1] = 1
        /\ \A v \in Vendors \ {vendor + 1} : calls'[v] = calls[v]
    BY <2>1, <2>2, <2>4, FailoverAssumption
  <2>6. TypeOK'
    BY <1>2, <2>1, <2>2, <2>3, <2>5, FailoverAssumption DEF IInv, TypeOK
  <2>7. InStep' /\ OneVoiceOneBill'
    BY <1>1, <2>1, <2>5 DEF IInv, InStep, OneVoiceOneBill
  <2>8. FailuresComplete'
    <3>1. result' # "all_failed"
      BY <2>1 DEF IInv, InStep
    <3>2. \A i \in 1..vendor : handoffs'[i] = [from |-> i, to |-> i + 1]
      <4>1. DOMAIN handoffs = 1..(vendor - 1)
        BY <1>1
      <4>2. \A i \in 1..(vendor - 1) : handoffs[i] = [from |-> i, to |-> i + 1]
        BY <4>1 DEF IInv, FailuresComplete
      <4>3. \A i \in 1..vendor : i \in 1..(vendor - 1) \/ i = vendor
        BY <1>1
      <4>4. QED
        BY <2>3, <4>2, <4>3
    <3>3. QED
      BY <1>1, <1>2, <1>3, <2>1, <2>3, <3>1, <3>2 DEF FailuresComplete
  <2>9. RetriesSpent'
    <3>1. \A i \in 1..vendor : i \in Vendors \ {vendor + 1}
      BY <1>1 DEF Vendors
    <3>2. \A i \in DOMAIN failures' :
            IsRetryable(failures'[i].kind) => calls'[i] = MaxAttempts
      BY <1>2, <1>3, <2>5, <3>1
    <3>3. \A v \in Vendors : v > vendor + 1 => calls'[v] = 0
      <4> SUFFICES ASSUME NEW v \in Vendors, v > vendor + 1
                   PROVE  calls'[v] = 0
        OBVIOUS
      <4>1. v > vendor /\ v # vendor + 1
        BY <1>1 DEF Vendors
      <4>2. QED
        BY <2>5, <4>1 DEF IInv, RetriesSpent
    <3>4. QED
      BY <2>1, <2>5, <3>2, <3>3 DEF RetriesSpent
  <2>10. ResponsesReleased'
    BY <2>1, <1>1 DEF ResponsesReleased
  <2>11. QED
    BY <2>6, <2>7, <2>8, <2>9, <2>10 DEF IInv
<1>5. CASE ~(vendor < N)
  <2>1. /\ phase' = "over" /\ result' = "all_failed" /\ live' = {}
        /\ UNCHANGED <<handoffs, vendor, attempt, calls, mode, spoken, usage>>
    BY <1>5 DEF GiveUp, Over, EndedByVendor
  <2>2. vendor = N
    BY <1>1, <1>5
  <2>3. TypeOK'
    BY <1>2, <2>1 DEF IInv, TypeOK
  <2>4. InStep' /\ OneVoiceOneBill'
    BY <2>1, <2>2 DEF IInv, InStep, OneVoiceOneBill
  <2>5. FailuresComplete'
    BY <1>1, <1>2, <1>3, <2>1, <2>2 DEF IInv, FailuresComplete
  <2>6. RetriesSpent'
    BY <1>2, <1>3, <2>1 DEF IInv, RetriesSpent
  <2>7. ResponsesReleased'
    BY <2>1 DEF ResponsesReleased
  <2>8. QED
    BY <2>3, <2>4, <2>5, <2>6, <2>7 DEF IInv
<1>6. QED
  BY <1>4, <1>5

(* A failure of the attempt is one of the three, whatever reported it.     *)
LEMMA AttemptFailsPreserves ==
  ASSUME IInv, NEW kind \in Kinds, AttemptFails(kind)
  PROVE  IInv'
  BY RetryPreserves, RaisePreserves, GiveUpPreserves DEF AttemptFails

LEMMA BackoffEndsPreserves ==
  ASSUME IInv, BackoffEnds
  PROVE  IInv'
<1>1. /\ phase = "backoff" /\ phase' = "calling" /\ live' = {vendor}
      /\ calls' = [calls EXCEPT ![vendor] = @ + 1]
      /\ UNCHANGED <<mode, vendor, attempt, failures, handoffs, spoken, usage,
                     result>>
  BY DEF BackoffEnds, Call, IInv, ResponsesReleased
<1>2. /\ vendor \in Vendors /\ attempt \in 1..MaxAttempts
      /\ calls \in [Vendors -> 0..MaxAttempts] /\ calls[vendor] = attempt - 1
  BY <1>1 DEF IInv, TypeOK, InStep
<1>3. /\ calls' \in [Vendors -> 0..MaxAttempts] /\ calls'[vendor] = attempt
      /\ \A v \in Vendors \ {vendor} : calls'[v] = calls[v]
  BY <1>1, <1>2, FailoverAssumption
<1>4. TypeOK'
  BY <1>1, <1>3 DEF IInv, TypeOK
<1>5. InStep' /\ OneVoiceOneBill' /\ FailuresComplete'
  BY <1>1, <1>3 DEF IInv, InStep, OneVoiceOneBill, FailuresComplete
<1>6. RetriesSpent'
  <2>1. result # "all_failed" /\ Len(failures) = vendor - 1
        /\ failures \in Seq(Failure)
    BY <1>1 DEF IInv, TypeOK, InStep, FailuresComplete
  <2>2. \A i \in DOMAIN failures : i \in Vendors \ {vendor}
    BY <1>2, <2>1, FailoverAssumption DEF Vendors
  <2>3. QED
    BY <1>1, <1>2, <1>3, <2>2 DEF IInv, RetriesSpent, Vendors
<1>7. ResponsesReleased'
  BY <1>1 DEF ResponsesReleased
<1>8. QED
  BY <1>4, <1>5, <1>6, <1>7 DEF IInv

-----------------------------------------------------------------------------
(* The attempt in progress answers, or the caller leaves.                  *)

LEMMA UsagePreserves ==
  ASSUME IInv, AnswersAtOnce \/ StreamEnds
  PROVE  IInv'
<1>1. /\ phase \in {"calling", "flowing"} /\ phase' = "over"
      /\ result' = "ok" /\ live' = {} /\ usage' = Append(usage, vendor)
      /\ UNCHANGED <<mode, vendor, attempt, failures, handoffs, spoken, calls>>
  BY DEF AnswersAtOnce, StreamEnds, Over, EndedByVendor
<1>2. usage = <<>> /\ vendor \in Vendors /\ result = "none"
  BY <1>1 DEF IInv, TypeOK, InStep, OneVoiceOneBill
<1>3. usage' = <<vendor>> /\ usage' \in Seq(Vendors)
  BY <1>1, <1>2
<1>4. TypeOK'
  BY <1>1, <1>3 DEF IInv, TypeOK
<1>5. InStep' /\ OneVoiceOneBill' /\ FailuresComplete'
  BY <1>1, <1>2, <1>3 DEF IInv, InStep, OneVoiceOneBill, FailuresComplete
<1>6. RetriesSpent' /\ ResponsesReleased'
  BY <1>1 DEF IInv, RetriesSpent, ResponsesReleased
<1>7. QED
  BY <1>4, <1>5, <1>6 DEF IInv

LEMMA TokenPreserves ==
  ASSUME IInv, FirstToken \/ NextToken
  PROVE  IInv'
<1>1. /\ phase \in {"calling", "flowing"} /\ phase' = "yielded"
      /\ mode = "stream"
      /\ spoken' = Append(spoken, vendor)
      /\ UNCHANGED <<mode, vendor, attempt, failures, handoffs, usage, live,
                     calls, result>>
  BY DEF FirstToken, NextToken, IInv, InStep
<1>2. spoken \in Seq(Vendors) /\ vendor \in Vendors
  BY DEF IInv, TypeOK
<1>3. /\ spoken' \in Seq(Vendors) /\ spoken' # <<>>
      /\ \A i \in DOMAIN spoken' : spoken'[i] = vendor
  BY <1>1, <1>2 DEF IInv, OneVoiceOneBill
<1>4. TypeOK'
  BY <1>1, <1>3 DEF IInv, TypeOK
<1>5. InStep' /\ OneVoiceOneBill' /\ FailuresComplete'
  BY <1>1, <1>3 DEF IInv, InStep, OneVoiceOneBill, FailuresComplete
<1>6. RetriesSpent' /\ ResponsesReleased'
  BY <1>1 DEF IInv, RetriesSpent, ResponsesReleased
<1>7. QED
  BY <1>4, <1>5, <1>6 DEF IInv

(* The caller takes a token, or leaves with it.                            *)
LEMMA CallerPreserves ==
  ASSUME IInv, TokenTaken \/ CallerLeaves
  PROVE  IInv'
<1>1. /\ phase = "yielded"
      /\ \/ phase' = "flowing" /\ result' = result
         \/ phase' = "closing" /\ result' = "left"
      /\ UNCHANGED <<mode, vendor, attempt, failures, handoffs, spoken, usage,
                     live, calls>>
  BY DEF TokenTaken, CallerLeaves
<1>2. TypeOK'
  BY <1>1 DEF IInv, TypeOK
<1>3. InStep' /\ OneVoiceOneBill' /\ FailuresComplete'
  BY <1>1 DEF IInv, InStep, OneVoiceOneBill, FailuresComplete
<1>4. RetriesSpent' /\ ResponsesReleased'
  BY <1>1 DEF IInv, RetriesSpent, ResponsesReleased
<1>5. QED
  BY <1>2, <1>3, <1>4 DEF IInv

LEMMA EndPreserves ==
  ASSUME IInv, StreamBreaks \/ CallerCancelled \/ StreamClosed
  PROVE  IInv'
<1>1. /\ phase # "over" /\ phase' = "over" /\ mode = "stream"
      /\ result' \in {"broken", "left"}
      /\ live' \subseteq live /\ live' \cap Managed = {}
      /\ UNCHANGED <<mode, vendor, attempt, failures, handoffs, spoken, usage,
                     calls>>
  BY LeftOpen DEF StreamBreaks, CallerCancelled, StreamClosed, Over, IInv, InStep
<1>2. TypeOK'
  BY <1>1 DEF IInv, TypeOK
<1>3. InStep' /\ OneVoiceOneBill' /\ FailuresComplete'
  BY <1>1 DEF IInv, InStep, OneVoiceOneBill, FailuresComplete
<1>4. RetriesSpent' /\ ResponsesReleased'
  BY <1>1 DEF IInv, RetriesSpent, ResponsesReleased
<1>5. QED
  BY <1>2, <1>3, <1>4 DEF IInv

LEMMA StutterPreserves ==
  ASSUME IInv, UNCHANGED vars
  PROVE  IInv'
  BY DEF vars, IInv, TypeOK, InStep, OneVoiceOneBill, FailuresComplete,
         RetriesSpent, ResponsesReleased

LEMMA NextPreserves == IInv /\ [Next]_vars => IInv'
<1> SUFFICES ASSUME IInv, [Next]_vars PROVE IInv'
  OBVIOUS
<1>1. CASE VendorFails
  BY <1>1, AttemptFailsPreserves DEF VendorFails
<1>2. CASE Deadline
  BY <1>2, AttemptFailsPreserves DEF Deadline, Kinds
<1>3. CASE BackoffEnds
  BY <1>3, BackoffEndsPreserves
<1>4. CASE AnswersAtOnce \/ StreamEnds
  BY <1>4, UsagePreserves
<1>5. CASE FirstToken \/ NextToken
  BY <1>5, TokenPreserves
<1>6. CASE TokenTaken \/ CallerLeaves
  BY <1>6, CallerPreserves
<1>7. CASE StreamBreaks \/ CallerCancelled \/ StreamClosed
  BY <1>7, EndPreserves
<1>8. CASE Finished \/ UNCHANGED vars
  BY <1>8, StutterPreserves DEF Finished
<1>9. QED
  BY <1>1, <1>2, <1>3, <1>4, <1>5, <1>6, <1>7, <1>8 DEF Next

THEOREM InvariantHolds == Spec => []IInv
  BY InitEstablishes, NextPreserves, PTL DEF Spec

-----------------------------------------------------------------------------
(* The results.                                                            *)

(* Every variable keeps its type: no vendor is tried beyond MaxAttempts.   *)
THEOREM TypeCorrect == Spec => []TypeOK
<1>1. IInv => TypeOK
  BY DEF IInv
<1>2. QED
  BY <1>1, InvariantHolds, PTL

(* One vendor speaks, and usage is reported once, by it, exactly when the  *)
(* call succeeds.                                                          *)
THEOREM SpeaksWithOneVoice == Spec => []OneVoiceOneBill
<1>1. IInv => OneVoiceOneBill
  BY DEF IInv
<1>2. QED
  BY <1>1, InvariantHolds, PTL

(* Every vendor given up is reported, in order, and handed off.            *)
THEOREM ReportsEveryFailure == Spec => []FailuresComplete
<1>1. IInv => FailuresComplete
  BY DEF IInv
<1>2. QED
  BY <1>1, InvariantHolds, PTL

(* Retries are used up before a vendor is given up on a retryable error.   *)
THEOREM SpendsItsRetries == Spec => []RetriesSpent
<1>1. IInv => RetriesSpent
  BY DEF IInv
<1>2. QED
  BY <1>1, InvariantHolds, PTL

(* Every response is closed when an attempt ends, is abandoned or is        *)
(* handed on, but that of a stream cut short in the frame of an adapter    *)
(* without `async with`.                                                   *)
THEOREM ReleasesItsResponses == Spec => []ResponsesReleased
<1>1. IInv => ResponsesReleased
  BY DEF IInv
<1>2. QED
  BY <1>1, InvariantHolds, PTL

-----------------------------------------------------------------------------
(* Refinement.                                                             *)

LEMMA InitMaps == Init => Gen!Init
  BY DEF Init, Gen!Init

(* A step that keeps the result, the words and the bill, and neither       *)
(* enters nor leaves the flowing phase, is invisible to the caller.        *)
LEMMA StepMaps ==
  ASSUME IInv, [Next]_vars
  PROVE  [Gen!Next]_(Gen!vars)
<1> USE DEF Gen!Next, Gen!vars
<1>1. CASE VendorFails \/ Deadline
  <2>1. PICK kind \in Kinds : AttemptFails(kind)
    BY <1>1 DEF VendorFails, Deadline, Kinds
  <2>2. phase = "calling" /\ result = "none" /\ UNCHANGED <<spoken, usage>>
    BY <2>1 DEF AttemptFails, Retry, Raise, GiveUp, IInv, InStep
  <2>3. \/ phase' \in {"calling", "backoff"} /\ result' = "none"
        \/ result' \in {"fatal", "all_failed"}
    BY <2>1, <2>2 DEF AttemptFails, Retry, Raise, GiveUp, Over, Call
  <2>4. CASE phase' \in {"calling", "backoff"} /\ result' = "none"
    BY <2>2, <2>4
  <2>5. CASE result' \in {"fatal", "all_failed"}
    BY <2>2, <2>5 DEF Gen!Break
  <2>6. QED
    BY <2>3, <2>4, <2>5
<1>2. CASE BackoffEnds
  BY <1>2 DEF BackoffEnds, Call, IInv, InStep
<1>3. CASE AnswersAtOnce
  <2>1. spoken = <<>> /\ usage = <<>> /\ vendor \in Vendors /\ result = "none"
    BY <1>3 DEF AnswersAtOnce, IInv, TypeOK, InStep, OneVoiceOneBill
  <2>2. spoken' = spoken /\ usage' = <<vendor>> /\ result' = "ok"
    BY <1>3, <2>1 DEF AnswersAtOnce, Over
  <2>3. Gen!End(vendor)
    BY <1>3, <2>1, <2>2 DEF Gen!End, AnswersAtOnce
  <2>4. QED
    BY <2>1, <2>3
<1>4. CASE StreamEnds
  <2>1. spoken # <<>> /\ spoken[1] = vendor /\ usage = <<>> /\ vendor \in Vendors
        /\ result = "none" /\ phase = "flowing"
    BY <1>4 DEF StreamEnds, IInv, TypeOK, InStep, OneVoiceOneBill
  <2>2. spoken' = spoken /\ usage' = <<vendor>> /\ result' = "ok"
    BY <1>4, <2>1 DEF StreamEnds, Over
  <2>3. Gen!End(vendor)
    BY <2>1, <2>2 DEF Gen!End
  <2>4. QED
    BY <2>1, <2>3
<1>5. CASE FirstToken
  <2>1. spoken = <<>> /\ vendor \in Vendors /\ result = "none" /\ phase = "calling"
    BY <1>5 DEF FirstToken, IInv, TypeOK, InStep
  <2>2. /\ spoken' = <<vendor>> /\ phase' = "yielded"
        /\ UNCHANGED <<usage, result>>
    BY <1>5, <2>1 DEF FirstToken
  <2>3. Gen!FirstWord(vendor)
    BY <2>1, <2>2 DEF Gen!FirstWord
  <2>4. QED
    BY <2>1, <2>3
<1>6. CASE NextToken
  <2>1. spoken # <<>> /\ spoken \in Seq(Vendors) /\ vendor \in Vendors
        /\ spoken' = Append(spoken, vendor)
        /\ phase = "flowing" /\ phase' = "yielded"
        /\ UNCHANGED <<usage, result>>
    BY <1>6 DEF NextToken, IInv, TypeOK, InStep
  <2>2. spoken' # <<>> /\ spoken'[1] = spoken[1]
    BY <2>1
  <2>3. QED
    BY <2>1, <2>2
<1>7. CASE StreamBreaks \/ CallerCancelled \/ CallerLeaves
  <2>1. phase \notin {"closing", "over"} /\ result = "none"
    BY <1>7 DEF StreamBreaks, CallerCancelled, CallerLeaves, IInv, TypeOK, InStep
  <2>2. result' \in {"broken", "left"} /\ UNCHANGED <<spoken, usage>>
    BY <1>7 DEF StreamBreaks, CallerCancelled, CallerLeaves, Over
  <2>3. Gen!Break
    BY <2>1, <2>2 DEF Gen!Break
  <2>4. QED
    BY <2>3
<1>8. CASE TokenTaken \/ StreamClosed
  <2>1. /\ UNCHANGED <<spoken, usage, result>>
        /\ \/ phase = "yielded" /\ phase' = "flowing"
           \/ result # "none"
    BY <1>8 DEF TokenTaken, StreamClosed, Over, IInv, InStep
  <2>2. QED
    BY <2>1
<1>9. CASE Finished \/ UNCHANGED vars
  BY <1>9 DEF Finished, vars
<1>10. QED
  BY <1>1, <1>2, <1>3, <1>4, <1>5, <1>6, <1>7, <1>8, <1>9 DEF Next

(* However many vendors stand behind it, a call is one generation.         *)
THEOREM KeepsGenerationPromise == Spec => GenerationSpec
<1>1. IInv /\ [Next]_vars => [Gen!Next]_(Gen!vars)
  BY StepMaps
<1>2. QED
  BY <1>1, InitMaps, InvariantHolds, PTL DEF Spec, GenerationSpec, Gen!Spec

-----------------------------------------------------------------------------
(***************************************************************************)
(* Retrieval                                                               *)
(***************************************************************************)

(* What SpendCapProofs shows of sums speaks of none of its constants and   *)
(* variables, so any values do for them.                                   *)
Sums == INSTANCE SpendCapProofs WITH
  Cap <- 0, Calls <- {}, Estimates <- {}, Costs <- {}, LastDay <- 0,
  clock <- 0, spend <- 0, phase <- 0, reserved <- 0, heldOn <- 0, held <- 0,
  billed <- 0, crossed <- 0, overrun <- 0

(* A sum is a natural number and gives up its terms one by one.            *)
LEMMA SumFacts ==
  ASSUME NEW f, NEW S, IsFiniteSet(S), \A x \in S : f[x] \in Nat
  PROVE  /\ SumFunctionOnSet(f, S) \in Nat
         /\ \A x \in S :
              /\ SumFunctionOnSet(f, S \ {x}) \in Nat
              /\ SumFunctionOnSet(f, S) = f[x] + SumFunctionOnSet(f, S \ {x})
<1>1. \A g, T : SumFunctionOnSet(g, T) = Sums!SumFunctionOnSet(g, T)
  BY DEF SumFunctionOnSet, FoldFunctionOnSet, MapThenFoldSet,
         Sums!SumFunctionOnSet, Sums!FoldFunctionOnSet, Sums!MapThenFoldSet
<1>2. \A T : Sums!IsFiniteSet(T) <=> IsFiniteSet(T)
  BY DEF Sums!IsFiniteSet, IsFiniteSet
<1>3. Sums!CapAssumption /\ Sums!CallsAssumption
      /\ Sums!AmountsAssumption /\ Sums!LastDayAssumption
  <2>1. Sums!CallsAssumption
    BY <1>2, FS_EmptySet DEF Sums!CallsAssumption
  <2>2. QED
    BY <2>1 DEF Sums!CapAssumption, Sums!AmountsAssumption, Sums!LastDayAssumption
<1>4. Sums!IsFiniteSet(S) /\ \A x \in S : f[x] \in Nat
  BY <1>2
<1>5. /\ Sums!SumFunctionOnSet(f, S) \in Nat
      /\ \A x \in S :
           /\ Sums!SumFunctionOnSet(f, S \ {x}) \in Nat
           /\ Sums!SumFunctionOnSet(f, S) = f[x] + Sums!SumFunctionOnSet(f, S \ {x})
  BY <1>3, <1>4, Sums!SumTakesOut
<1>6. QED
  BY <1>1, <1>5

(* Nothing sums to zero.                                                   *)
LEMMA EmptySum == ASSUME NEW f PROVE SumFunctionOnSet(f, {}) = 0
<1>1. \A g, T : SumFunctionOnSet(g, T) = Sums!SumFunctionOnSet(g, T)
  BY DEF SumFunctionOnSet, FoldFunctionOnSet, MapThenFoldSet,
         Sums!SumFunctionOnSet, Sums!FoldFunctionOnSet, Sums!MapThenFoldSet
<1>2. \A T : Sums!IsFiniteSet(T) <=> IsFiniteSet(T)
  BY DEF Sums!IsFiniteSet, IsFiniteSet
<1>3. Sums!CapAssumption /\ Sums!CallsAssumption
      /\ Sums!AmountsAssumption /\ Sums!LastDayAssumption
  <2>1. Sums!CallsAssumption
    BY <1>2, FS_EmptySet DEF Sums!CallsAssumption
  <2>2. QED
    BY <2>1 DEF Sums!CapAssumption, Sums!AmountsAssumption, Sums!LastDayAssumption
<1>4. QED
  BY <1>1, <1>3, Sums!SumEmpty

-----------------------------------------------------------------------------
(* Induction on a finite set: strict inclusion is well-founded.            *)
LEMMA LeastOf ==
  ASSUME NEW S, IsFiniteSet(S), NEW F \in SUBSET SUBSET S, F # {}
  PROVE  \E U \in F : \A V \in F : V \subseteq U => V = U
<1>1. IsWellFoundedOn(StrictSubsetOrdering(S), FiniteSubsetsOf(S))
  BY FS_StrictSubsetOrderingWellFounded
<1>2. F \subseteq FiniteSubsetsOf(S)
  BY FS_FiniteSubsetsOfFinite
<1>3. PICK U \in F : \A V \in F : <<V, U>> \notin StrictSubsetOrdering(S)
  BY <1>1, <1>2, WFMin
<1>4. QED
  BY <1>3 DEF StrictSubsetOrdering

(* A sum is monotone in its terms, strictly where one of them is.          *)
LEMMA SumMonotone ==
  ASSUME NEW S, IsFiniteSet(S), NEW f, NEW g,
         \A x \in S : f[x] \in Nat /\ g[x] \in Nat /\ f[x] <= g[x]
  PROVE  SumFunctionOnSet(f, S) <= SumFunctionOnSet(g, S)
<1> DEFINE Bad == {U \in SUBSET S : ~(SumFunctionOnSet(f, U) <= SumFunctionOnSet(g, U))}
<1>1. SUFFICES ASSUME Bad # {} PROVE FALSE
  BY S \in SUBSET S
<1>2. PICK U \in Bad : \A V \in Bad : V \subseteq U => V = U
  <2> HIDE DEF Bad
  <2>1. Bad \in SUBSET SUBSET S
    BY DEF Bad
  <2>2. QED
    BY <1>1, <2>1, LeastOf
<1>3. PICK x : x \in U
  <2>1. SumFunctionOnSet(f, {}) = 0 /\ SumFunctionOnSet(g, {}) = 0
    BY EmptySum
  <2>2. ASSUME U = {} PROVE FALSE
    <3>1. SumFunctionOnSet(f, U) = 0 /\ SumFunctionOnSet(g, U) = 0
      BY <2>1, <2>2, Zenon
    <3>2. QED
      BY <1>2, <3>1
  <2>3. QED
    BY <2>2
<1>4. IsFiniteSet(U) /\ \A y \in U : f[y] \in Nat /\ g[y] \in Nat
  BY FS_Subset
<1> DEFINE R == U \ {x}
<1>5. /\ SumFunctionOnSet(f, U) = f[x] + SumFunctionOnSet(f, R)
      /\ SumFunctionOnSet(f, R) \in Nat
  BY <1>3, <1>4, SumFacts
<1>6. /\ SumFunctionOnSet(g, U) = g[x] + SumFunctionOnSet(g, R)
      /\ SumFunctionOnSet(g, R) \in Nat
  BY <1>3, <1>4, SumFacts
<1>7. SumFunctionOnSet(f, R) <= SumFunctionOnSet(g, R)
  BY <1>2, <1>3
<1>8. f[x] \in Nat /\ g[x] \in Nat /\ f[x] <= g[x]
  BY <1>3
<1> HIDE DEF R
<1>9. SumFunctionOnSet(f, U) <= SumFunctionOnSet(g, U)
  BY <1>5, <1>6, <1>7, <1>8
<1>10. QED
  BY <1>2, <1>9

LEMMA SumStrictlyMonotone ==
  ASSUME NEW S, IsFiniteSet(S), NEW f, NEW g, NEW x \in S, f[x] < g[x],
         \A y \in S : f[y] \in Nat /\ g[y] \in Nat /\ f[y] <= g[y]
  PROVE  SumFunctionOnSet(f, S) < SumFunctionOnSet(g, S)
<1> DEFINE R == S \ {x}
<1>1. IsFiniteSet(R) /\ \A y \in S : f[y] \in Nat
  BY FS_Subset
<1>2. /\ SumFunctionOnSet(f, S) = f[x] + SumFunctionOnSet(f, R)
      /\ SumFunctionOnSet(f, R) \in Nat
  BY <1>1, SumFacts
<1>3. /\ SumFunctionOnSet(g, S) = g[x] + SumFunctionOnSet(g, R)
      /\ SumFunctionOnSet(g, R) \in Nat
  BY SumFacts
<1>4. \A y \in R : f[y] \in Nat /\ g[y] \in Nat /\ f[y] <= g[y]
  OBVIOUS
<1> HIDE DEF R
<1>5. SumFunctionOnSet(f, R) <= SumFunctionOnSet(g, R)
  BY <1>1, <1>4, SumMonotone
<1>6. f[x] \in Nat /\ g[x] \in Nat
  OBVIOUS
<1>7. QED
  BY <1>2, <1>3, <1>5, <1>6

(* A sum of equal terms.                                                   *)
LEMMA SumOfEqual ==
  ASSUME NEW S, IsFiniteSet(S), NEW w \in Nat, NEW f, \A x \in S : f[x] = w
  PROVE  SumFunctionOnSet(f, S) = Cardinality(S) * w
<1> DEFINE Bad == {U \in SUBSET S : SumFunctionOnSet(f, U) # Cardinality(U) * w}
<1>1. SUFFICES ASSUME Bad # {} PROVE FALSE
  BY S \in SUBSET S
<1>2. PICK U \in Bad : \A V \in Bad : V \subseteq U => V = U
  <2> HIDE DEF Bad
  <2>1. Bad \in SUBSET SUBSET S
    BY DEF Bad
  <2>2. QED
    BY <1>1, <2>1, LeastOf
<1>3. PICK x : x \in U
  <2>1. SumFunctionOnSet(f, {}) = 0 /\ Cardinality({}) = 0
    BY EmptySum, FS_EmptySet
  <2>2. ASSUME U = {} PROVE FALSE
    <3>1. SumFunctionOnSet(f, U) = 0 /\ Cardinality(U) = 0
      BY <2>1, <2>2, Zenon
    <3>2. QED
      BY <1>2, <3>1
  <2>3. QED
    BY <2>2
<1>4. IsFiniteSet(U) /\ \A y \in U : f[y] \in Nat
  BY FS_Subset
<1> DEFINE R == U \ {x}
<1>5. SumFunctionOnSet(f, U) = w + SumFunctionOnSet(f, R)
  BY <1>3, <1>4, SumFacts
<1>6. SumFunctionOnSet(f, R) = Cardinality(R) * w
  BY <1>2, <1>3
<1>7. /\ Cardinality(R) = Cardinality(U) - 1 /\ Cardinality(U) \in Nat
  BY <1>3, <1>4, FS_RemoveElement, FS_CardinalityType
<1> HIDE DEF R
<1>8. w + (Cardinality(U) - 1) * w = Cardinality(U) * w
  BY <1>7
<1>9. QED
  BY <1>2, <1>5, <1>6, <1>7, <1>8

-----------------------------------------------------------------------------
(* Sorting.                                                                *)
IsOrder(R, S) ==
  /\ \A c \in S : <<c, c>> \notin R
  /\ \A c, d \in S : c = d \/ <<c, d>> \in R \/ <<d, c>> \in R
  /\ \A c, d, e \in S : <<c, d>> \in R /\ <<d, e>> \in R => <<c, e>> \in R

Ahead(c, S, R) == {d \in S : <<d, c>> \in R}

(* By an order there is one element with each number of others ahead.      *)
LEMMA PlacesDiffer ==
  ASSUME NEW S, IsFiniteSet(S), NEW R, IsOrder(R, S)
  PROVE  /\ \A c \in S : /\ IsFiniteSet(Ahead(c, S, R))
                         /\ Cardinality(Ahead(c, S, R)) \in 0 .. Cardinality(S) - 1
         /\ \A c, d \in S : <<c, d>> \in R =>
              Cardinality(Ahead(c, S, R)) < Cardinality(Ahead(d, S, R))
         /\ \A k \in 1 .. Cardinality(S) : \E c \in S :
              Cardinality(Ahead(c, S, R)) = k - 1
<1> DEFINE n == Cardinality(S)
           place == [c \in S |-> Cardinality(Ahead(c, S, R)) + 1]
<1>0. n \in Nat
  BY FS_CardinalityType
<1>1. ASSUME NEW c \in S
      PROVE  IsFiniteSet(Ahead(c, S, R)) /\ Cardinality(Ahead(c, S, R)) \in 0 .. n - 1
  <2>1. Ahead(c, S, R) \in SUBSET (S \ {c})
    BY DEF Ahead, IsOrder
  <2>2. IsFiniteSet(S \ {c}) /\ Cardinality(S \ {c}) = n - 1
    BY FS_RemoveElement
  <2>3. IsFiniteSet(Ahead(c, S, R)) /\ Cardinality(Ahead(c, S, R)) <= n - 1
    BY <2>1, <2>2, FS_Subset
  <2>4. Cardinality(Ahead(c, S, R)) \in Nat
    BY <2>3, FS_CardinalityType
  <2> HIDE DEF n
  <2>5. QED
    BY <1>0, <2>3, <2>4
<1>2. ASSUME NEW c \in S, NEW d \in S, <<c, d>> \in R
      PROVE  Cardinality(Ahead(c, S, R)) < Cardinality(Ahead(d, S, R))
  <2>1. /\ Ahead(c, S, R) \in SUBSET Ahead(d, S, R)
        /\ c \in Ahead(d, S, R) /\ c \notin Ahead(c, S, R)
    BY <1>2 DEF Ahead, IsOrder
  <2>2. /\ Cardinality(Ahead(c, S, R)) <= Cardinality(Ahead(d, S, R))
        /\ Cardinality(Ahead(d, S, R)) # Cardinality(Ahead(c, S, R))
    BY <1>1, <2>1, FS_Subset
  <2>3. Cardinality(Ahead(c, S, R)) \in Nat /\ Cardinality(Ahead(d, S, R)) \in Nat
    BY <1>1
  <2>4. QED
    BY <2>2, <2>3
<1>3. place \in Surjection(S, 1 .. n)
  <2>1. place \in [S -> 1 .. n]
    <3>1. ASSUME NEW c \in S PROVE Cardinality(Ahead(c, S, R)) + 1 \in 1 .. n
      <4> HIDE DEF n
      <4>1. QED
        BY <1>0, <1>1
    <3>2. QED
      BY <3>1
  <2>2. ASSUME NEW c \in S, NEW d \in S, place[c] = place[d] PROVE c = d
    <3>1. Cardinality(Ahead(c, S, R)) = Cardinality(Ahead(d, S, R))
      <4>1. Cardinality(Ahead(c, S, R)) \in Nat /\ Cardinality(Ahead(d, S, R)) \in Nat
        BY <1>1
      <4>2. Cardinality(Ahead(c, S, R)) + 1 = Cardinality(Ahead(d, S, R)) + 1
        BY <2>2
      <4>3. QED
        BY <4>1, <4>2
    <3>2. Cardinality(Ahead(c, S, R)) \in Nat
      BY <1>1
    <3>3. ~(Cardinality(Ahead(c, S, R)) < Cardinality(Ahead(d, S, R)))
          /\ ~(Cardinality(Ahead(d, S, R)) < Cardinality(Ahead(c, S, R)))
      BY <3>1, <3>2
    <3>4. QED
      BY <1>2, <3>3 DEF IsOrder
  <2>3. place \in Injection(S, 1 .. n)
    BY <2>1, <2>2 DEF Injection, IsInjective
  <2>4. IsFiniteSet(1 .. n) /\ Cardinality(1 .. n) = n
    BY <1>0, FS_Interval
  <2> HIDE DEF place
  <2>5. QED
    BY <2>3, <2>4, FS_Injection
<1>4. ASSUME NEW k \in 1 .. n PROVE \E c \in S : Cardinality(Ahead(c, S, R)) = k - 1
  <2>1. PICK c \in S : place[c] = k
    BY <1>3 DEF Surjection
  <2>2. Cardinality(Ahead(c, S, R)) \in Nat /\ Cardinality(Ahead(c, S, R)) + 1 = k
    BY <1>1, <2>1
  <2>3. QED
    BY <1>0, <2>2
<1>5. QED
  BY <1>1, <1>2, <1>4

(* InOrder lists S without repetition, in the order.                       *)
LEMMA InOrderSorts ==
  ASSUME NEW S, IsFiniteSet(S), NEW R, IsOrder(R, S)
  PROVE  /\ Cardinality(S) \in Nat
         /\ InOrder(S, R) \in [1 .. Cardinality(S) -> S]
         /\ \A i \in 1 .. Cardinality(S) :
              Cardinality(Ahead(InOrder(S, R)[i], S, R)) = i - 1
         /\ \A c \in S : \E i \in 1 .. Cardinality(S) : InOrder(S, R)[i] = c
         /\ \A i, j \in 1 .. Cardinality(S) :
              i < j <=> <<InOrder(S, R)[i], InOrder(S, R)[j]>> \in R
<1> DEFINE n == Cardinality(S)
           s == InOrder(S, R)
           C(c) == Cardinality(Ahead(c, S, R))
<1>0. n \in Nat
  BY FS_CardinalityType
<1>1. /\ \A c \in S : C(c) \in 0 .. n - 1
      /\ \A c, d \in S : <<c, d>> \in R => C(c) < C(d)
      /\ \A k \in 1 .. n : \E c \in S : C(c) = k - 1
  BY PlacesDiffer
<1>2. \A c, d \in S : C(c) = C(d) => c = d
  <2>1. SUFFICES ASSUME NEW c \in S, NEW d \in S, C(c) = C(d) PROVE c = d
    OBVIOUS
  <2>2. C(c) \in Nat /\ C(d) \in Nat
    BY <1>1
  <2>3. ~(C(c) < C(d)) /\ ~(C(d) < C(c))
    <3> HIDE DEF C
    <3>1. QED
      BY <2>1, <2>2
  <2>4. QED
    BY <1>1, <2>3 DEF IsOrder
<1>3. ASSUME NEW i \in 1 .. n PROVE s[i] \in S /\ C(s[i]) = i - 1
  <2>1. s[i] = CHOOSE c \in S : <<c, i>> \in {<<d, C(d) + 1>> : d \in S}
    BY DEF InOrder, Ahead
  <2>2. PICK c \in S : C(c) = i - 1
    BY <1>1
  <2>3. <<c, i>> \in {<<d, C(d) + 1>> : d \in S}
    <3>1. C(c) + 1 = i
      <4> HIDE DEF C
      <4>1. QED
        BY <1>0, <2>2
    <3>2. QED
      BY <3>1
  <2>4. s[i] \in S /\ <<s[i], i>> \in {<<d, C(d) + 1>> : d \in S}
    BY <2>1, <2>3
  <2>5. PICK d \in S : <<s[i], i>> = <<d, C(d) + 1>>
    BY <2>4
  <2>6. C(s[i]) + 1 = i
    BY <2>5
  <2>7. C(s[i]) \in Nat
    BY <1>1, <2>4
  <2> HIDE DEF C, s
  <2>8. QED
    BY <1>0, <2>4, <2>6, <2>7
<1>4. s \in [1 .. n -> S]
  <2> DEFINE e(k) == CHOOSE c \in S : <<c, k>> \in
                       {<<d, Cardinality({b \in S : <<b, d>> \in R}) + 1>> : d \in S}
  <2>1. s = [k \in 1 .. n |-> e(k)]
    BY DEF InOrder
  <2> HIDE DEF s, e
  <2>2. QED
    BY <1>3, <2>1
<1>5. ASSUME NEW c \in S PROVE \E i \in 1 .. n : s[i] = c
  <2> DEFINE i == C(c) + 1
  <2>1. C(c) \in 0 .. n - 1
    BY <1>1
  <2>2. i \in 1 .. n /\ C(c) = i - 1
    <3> HIDE DEF C
    <3>1. QED
      BY <1>0, <2>1
  <2>3. s[i] \in S /\ C(s[i]) = C(c)
    BY <1>3, <2>2
  <2>4. s[i] = c
    BY <1>2, <2>3
  <2>5. QED
    BY <2>2, <2>4
<1>6. ASSUME NEW i \in 1 .. n, NEW j \in 1 .. n
      PROVE  i < j <=> <<s[i], s[j]>> \in R
  <2>1. s[i] \in S /\ s[j] \in S /\ C(s[i]) = i - 1 /\ C(s[j]) = j - 1
    BY <1>3
  <2>2. ASSUME <<s[i], s[j]>> \in R PROVE i < j
    <3>1. C(s[i]) < C(s[j])
      BY <1>1, <2>1, <2>2
    <3> HIDE DEF C, s
    <3>2. QED
      BY <1>0, <2>1, <3>1
  <2>3. ASSUME i < j PROVE <<s[i], s[j]>> \in R
    <3>1. ~(<<s[j], s[i]>> \in R)
      <4>1. ASSUME <<s[j], s[i]>> \in R PROVE FALSE
        <5>1. C(s[j]) < C(s[i])
          BY <1>1, <2>1, <4>1
        <5> HIDE DEF C, s
        <5>2. QED
          BY <1>0, <2>1, <2>3, <5>1
      <4>2. QED
        BY <4>1
    <3>2. s[i] # s[j]
      <4> HIDE DEF C, s
      <4>1. QED
        BY <1>0, <2>1, <2>3
    <3>3. QED
      BY <2>1, <3>1, <3>2 DEF IsOrder
  <2>4. QED
    BY <2>2, <2>3
<1>7. QED
  BY <1>0, <1>3, <1>4, <1>5, <1>6

-----------------------------------------------------------------------------
(* Heads of sequences, places in rankings.                                 *)
Least(m, n) == IF m <= n THEN m ELSE n

(* The head of a sequence: as long as asked, or as the sequence.           *)
LEMMA FirstIs ==
  ASSUME NEW S, NEW s \in Seq(S), NEW n \in Nat
  PROVE  /\ First(s, n) \in [1 .. Least(n, Len(s)) -> S]
         /\ Len(First(s, n)) = Least(n, Len(s)) /\ Least(n, Len(s)) \in 0 .. Len(s)
         /\ Least(n, Len(s)) <= n
         /\ \A i \in 1 .. Least(n, Len(s)) : First(s, n)[i] = s[i]
<1>1. Len(s) \in Nat /\ s \in [1 .. Len(s) -> S]
  OBVIOUS
<1> DEFINE k == Least(n, Len(s))
<1>2. k \in 0 .. Len(s) /\ k <= n /\ k \in Nat
  BY <1>1 DEF Least
<1>3. First(s, n) = SubSeq(s, 1, k)
  BY <1>1 DEF First, Least
<1> HIDE DEF k
<1>4. SubSeq(s, 1, k) = [i \in 1 .. k |-> s[i]]
  BY <1>1, <1>2
<1>5. \A i \in 1 .. k : s[i] \in S
  BY <1>1, <1>2
<1>6. First(s, n) \in [1 .. k -> S] /\ \A i \in 1 .. k : First(s, n)[i] = s[i]
  BY <1>3, <1>4, <1>5
<1>7. Len(First(s, n)) = k
  BY <1>2, <1>6
<1>8. QED
  BY <1>2, <1>6, <1>7 DEF k

(* A ranking of at most Limit chunks, none of them twice.                  *)
IsRanking(r) ==
  \E m \in 0 .. Limit : /\ r \in [1 .. m -> Chunks]
                        /\ \A i, j \in 1 .. m : r[i] = r[j] => i = j

(* What a leg returns is a ranking.                                        *)
LEMMA RankingsRank == ASSUME NEW r \in Rankings PROVE IsRanking(r)
<1>1. r \in Seq(Chunks) /\ Len(r) <= Limit /\ Limit \in Nat
      /\ \A i, j \in DOMAIN r : r[i] = r[j] => i = j
  BY CorpusAssumption, SettingsAssumption
<1>2. Len(r) \in 0 .. Limit /\ r \in [1 .. Len(r) -> Chunks]
  BY <1>1
<1>3. QED
  BY <1>1, <1>2 DEF IsRanking

(* In a ranking, chunks and places determine each other.                   *)
LEMMA RankingIs ==
  ASSUME NEW r, IsRanking(r)
  PROVE  /\ Limit \in Nat /\ Len(r) \in 0 .. Limit /\ r \in [1 .. Len(r) -> Chunks]
         /\ \A i, j \in 1 .. Len(r) : r[i] = r[j] => i = j
         /\ Range(r) \subseteq Chunks
         /\ \A i \in 1 .. Len(r) : r[i] \in Range(r) /\ Position(r, r[i]) = i
         /\ \A e \in Range(r) : Position(r, e) \in 1 .. Len(r) /\ r[Position(r, e)] = e
<1>1. PICK m \in 0 .. Limit : /\ r \in [1 .. m -> Chunks]
                              /\ \A i, j \in 1 .. m : r[i] = r[j] => i = j
  BY DEF IsRanking
<1>2. Limit \in Nat /\ m \in Nat
  BY SettingsAssumption
<1>3. Len(r) = m
  BY <1>1, <1>2
<1>4. Range(r) \subseteq Chunks /\ \A i \in 1 .. m : r[i] \in Range(r)
  BY <1>1 DEF Range
<1>5. \A e \in Range(r) : Position(r, e) \in 1 .. m /\ r[Position(r, e)] = e
  BY <1>1 DEF Range, Position
<1>6. \A i \in 1 .. m : Position(r, r[i]) = i
  BY <1>1, <1>4, <1>5
<1>7. QED
  BY <1>1, <1>2, <1>3, <1>4, <1>5, <1>6

(* Equal products: the larger factor meets the smaller one.                *)
LEMMA LargerMeetsSmaller ==
  ASSUME NEW u \in Nat, NEW v \in Nat, NEW x \in Nat, NEW y \in Nat,
         u * x = v * y, u > 0, x < y
  PROVE  v < u
<1>1. SUFFICES ASSUME u <= v PROVE FALSE
  OBVIOUS
<1> DEFINE t == v - u
           e == y - x
<1>2. t \in Nat /\ e \in Nat /\ e > 0 /\ v = u + t /\ y = x + e
  BY <1>1
<1> HIDE DEF t, e
<1>3. v * y = u * x + u * e + t * x + t * e
  BY <1>2
<1>4. u * e \in Nat /\ t * x \in Nat /\ t * e \in Nat /\ u * x \in Nat
  BY <1>2
<1>5. u * e > 0
  BY <1>2
<1>6. QED
  BY <1>3, <1>4, <1>5

(* The weight of a rank is its share of the common denominator.            *)
LEMMA WeightIs ==
  ASSUME NEW rank \in 1 .. Limit
  PROVE  /\ Weight(rank) \in Nat /\ Weight(rank) > 0 /\ RrfK + rank \in Nat
         /\ Weight(rank) * (RrfK + rank) = Scale
<1>1. /\ RrfK \in Nat /\ Limit \in Nat /\ Scale \in Nat /\ Scale > 0
      /\ Scale % (RrfK + rank) = 0
  BY SettingsAssumption
<1> DEFINE m == RrfK + rank
<1>2. m \in Nat /\ m > 0 /\ Scale % m = 0
  BY <1>1
<1>3. Weight(rank) = Scale \div m
  BY DEF Weight
<1> HIDE DEF m
<1>4. Scale \div m \in Nat /\ Scale = m * (Scale \div m) + (Scale % m)
  BY <1>1, <1>2
<1>5. (Scale \div m) * m = Scale
  BY <1>1, <1>2, <1>4
<1>6. Scale \div m > 0
  BY <1>1, <1>2, <1>4, <1>5
<1>7. QED
  BY <1>2, <1>3, <1>4, <1>5, <1>6 DEF m

(* An earlier place weighs strictly more.                                  *)
LEMMA BetterRankWeighsMore ==
  ASSUME NEW a \in 1 .. Limit, NEW b \in 1 .. Limit, a < b
  PROVE  Weight(b) < Weight(a)
<1>1. /\ Weight(a) \in Nat /\ Weight(a) > 0 /\ Weight(b) \in Nat
      /\ RrfK + a \in Nat /\ RrfK + b \in Nat
      /\ Weight(a) * (RrfK + a) = Weight(b) * (RrfK + b)
  BY WeightIs
<1>2. RrfK + a < RrfK + b
  BY SettingsAssumption
<1>3. QED
  BY <1>1, <1>2, LargerMeetsSmaller

(* What a ranking adds to the score of a chunk.                            *)
LEMMA ShareIs ==
  ASSUME NEW r, IsRanking(r), NEW c
  PROVE  /\ Share(r, c) \in Nat
         /\ c \in Range(r) => /\ Position(r, c) \in 1 .. Limit /\ Share(r, c) > 0
                              /\ Share(r, c) = Weight(Position(r, c))
         /\ c \notin Range(r) => Share(r, c) = 0
<1>1. CASE c \in Range(r)
  <2>1. Limit \in Nat /\ Len(r) \in 0 .. Limit /\ Position(r, c) \in 1 .. Len(r)
    BY <1>1, RankingIs
  <2>2. Position(r, c) \in 1 .. Limit
    BY <2>1
  <2>3. QED
    BY <1>1, <2>2, WeightIs DEF Share
<1>2. CASE c \notin Range(r)
  BY <1>2 DEF Share
<1>3. QED
  BY <1>1, <1>2

(* The places of PlaceIn, the one past the end included.                   *)
LEMMA PlaceIs ==
  ASSUME NEW r, IsRanking(r), NEW c
  PROVE  /\ Limit \in Nat /\ PlaceIn(r, c) \in 1 .. Limit + 1
         /\ c \in Range(r) => PlaceIn(r, c) = Position(r, c) /\ PlaceIn(r, c) \in 1 .. Limit
         /\ c \notin Range(r) => PlaceIn(r, c) = Limit + 1
<1>1. Limit \in Nat /\ (c \in Range(r) => Position(r, c) \in 1 .. Limit)
  BY SettingsAssumption, ShareIs
<1>2. QED
  BY <1>1 DEF PlaceIn

(* Who is ahead in a list has the larger share of it.                      *)
LEMMA AheadHasMore ==
  ASSUME NEW r, IsRanking(r), NEW c, NEW d, c # d, PlaceIn(r, c) <= PlaceIn(r, d)
  PROVE  /\ Share(r, d) <= Share(r, c)
         /\ d \in Range(r) => Share(r, d) < Share(r, c)
<1>1. Share(r, c) \in Nat /\ Limit \in Nat
  BY ShareIs, PlaceIs
<1>2. CASE d \notin Range(r)
  BY <1>1, <1>2, ShareIs
<1>3. CASE d \in Range(r)
  <2>1. PlaceIn(r, d) = Position(r, d) /\ PlaceIn(r, d) \in 1 .. Limit
    BY <1>3, PlaceIs
  <2>2. c \in Range(r)
    <3>1. ASSUME c \notin Range(r) PROVE FALSE
      <4>1. PlaceIn(r, c) = Limit + 1
        BY <3>1, PlaceIs
      <4>2. QED
        BY <1>1, <2>1, <4>1
    <3>2. QED
      BY <3>1
  <2>3. PlaceIn(r, c) = Position(r, c) /\ PlaceIn(r, c) \in 1 .. Limit
    BY <2>2, PlaceIs
  <2>4. r[Position(r, c)] = c /\ r[Position(r, d)] = d
    BY <1>3, <2>2, RankingIs
  <2>5. Position(r, c) < Position(r, d)
    BY <1>1, <2>1, <2>3, <2>4
  <2>6. Weight(Position(r, d)) < Weight(Position(r, c))
    BY <2>1, <2>3, <2>5, BetterRankWeighsMore
  <2>7. Share(r, d) < Share(r, c) /\ Share(r, d) \in Nat
    BY <1>3, <2>2, <2>6, ShareIs
  <2>8. QED
    BY <1>1, <2>7
<1>4. QED
  BY <1>2, <1>3

-----------------------------------------------------------------------------
(* Fusion of n rankings.                                                   *)

Shares(lists, c) == [i \in DOMAIN lists |-> Share(lists[i], c)]

(* A score is the sum of the shares of all lists.                          *)
LEMMA ScoreIs ==
  ASSUME NEW n \in Nat, NEW A, \A r \in A : IsRanking(r), NEW lists \in [1 .. n -> A]
  PROVE  /\ IsFiniteSet(Found(lists)) /\ Found(lists) \subseteq Chunks
         /\ \A c \in Found(lists) : c \in Nat
         /\ IsFiniteSet(1 .. n) /\ Cardinality(1 .. n) = n
         /\ \A c : /\ RrfScore(lists, c) \in Nat
                   /\ RrfScore(lists, c) = SumFunctionOnSet(Shares(lists, c), 1 .. n)
                   /\ \A i \in 1 .. n : /\ Shares(lists, c)[i] \in Nat
                                        /\ Shares(lists, c)[i] = Share(lists[i], c)
<1>1. DOMAIN lists = 1 .. n /\ \A i \in 1 .. n : IsRanking(lists[i])
  OBVIOUS
<1>2. Found(lists) \subseteq Chunks
  BY <1>1, RankingIs DEF Found
<1>3. IsFiniteSet(Found(lists)) /\ \A c \in Found(lists) : c \in Nat
  BY <1>2, CorpusAssumption, FS_Subset
<1>4. IsFiniteSet(1 .. n) /\ Cardinality(1 .. n) = n
  BY FS_Interval
<1>5. ASSUME NEW c
      PROVE  /\ RrfScore(lists, c) \in Nat
             /\ RrfScore(lists, c) = SumFunctionOnSet(Shares(lists, c), 1 .. n)
             /\ \A i \in 1 .. n : /\ Shares(lists, c)[i] \in Nat
                                  /\ Shares(lists, c)[i] = Share(lists[i], c)
  <2>1. \A i \in 1 .. n : Share(lists[i], c) \in Nat
    BY <1>1, ShareIs
  <2>2. \A i \in 1 .. n : Shares(lists, c)[i] = Share(lists[i], c)
    BY <1>1 DEF Shares
  <2>3. RrfScore(lists, c) = SumFunctionOnSet(Shares(lists, c), 1 .. n)
    BY <1>1 DEF RrfScore, Shares
  <2>4. SumFunctionOnSet(Shares(lists, c), 1 .. n) \in Nat
    BY <1>4, <2>1, <2>2, SumFacts
  <2>5. QED
    BY <2>1, <2>2, <2>3, <2>4
<1>6. QED
  BY <1>2, <1>3, <1>4, <1>5

(* Outranks compares scores, then ids.                                     *)
LEMMA OutranksIs ==
  ASSUME NEW lists, NEW c \in Found(lists), NEW d \in Found(lists)
  PROVE  <<c, d>> \in Outranks(lists) <=>
           \/ RrfScore(lists, c) > RrfScore(lists, d)
           \/ RrfScore(lists, c) = RrfScore(lists, d) /\ c < d
<1> DEFINE s(x) == RrfScore(lists, x)
           scored == {<<x, s(x)>> : x \in Found(lists)}
           Ahead2(p) == p[1][2] > p[2][2] \/ (p[1][2] = p[2][2] /\ p[1][1] < p[2][1])
           ordered == {p \in scored \X scored : Ahead2(p)}
<1>1. Outranks(lists) = {<<p[1][1], p[2][1]>> : p \in ordered}
  BY DEF Outranks
<1>2. ASSUME <<c, d>> \in Outranks(lists)
      PROVE  s(c) > s(d) \/ (s(c) = s(d) /\ c < d)
  <2>1. PICK p \in ordered : <<c, d>> = <<p[1][1], p[2][1]>>
    BY <1>1, <1>2
  <2>2. PICK x \in Found(lists), y \in Found(lists) : p = <<<<x, s(x)>>, <<y, s(y)>>>>
    BY <2>1
  <2>3. x = c /\ y = d
    BY <2>1, <2>2
  <2>4. Ahead2(p)
    BY <2>1
  <2> HIDE DEF s
  <2>5. QED
    BY <2>2, <2>3, <2>4
<1>3. ASSUME s(c) > s(d) \/ (s(c) = s(d) /\ c < d)
      PROVE  <<c, d>> \in Outranks(lists)
  <2> DEFINE p == <<<<c, s(c)>>, <<d, s(d)>>>>
  <2>1. p \in scored \X scored
    OBVIOUS
  <2>2. Ahead2(p)
    <3> HIDE DEF s
    <3>1. QED
      BY <1>3
  <2>3. <<c, d>> = <<p[1][1], p[2][1]>>
    OBVIOUS
  <2> HIDE DEF p, Ahead2, scored
  <2>4. QED
    BY <1>1, <2>1, <2>2, <2>3
<1>4. QED
  BY <1>2, <1>3

(* Outranks is a strict total order of what was found.                     *)
LEMMA OutranksOrders ==
  ASSUME NEW n \in Nat, NEW A, \A r \in A : IsRanking(r), NEW lists \in [1 .. n -> A]
  PROVE  IsOrder(Outranks(lists), Found(lists))
<1> DEFINE s(c) == RrfScore(lists, c)
           F == Found(lists)
           R == Outranks(lists)
<1>1. \A c \in F : s(c) \in Nat /\ c \in Nat
  BY ScoreIs
<1>2. \A c, d \in F : <<c, d>> \in R <=> s(c) > s(d) \/ (s(c) = s(d) /\ c < d)
  BY OutranksIs
<1> HIDE DEF s, F, R
<1>3. \A c \in F : <<c, c>> \notin R
  BY <1>1, <1>2
<1>4. ASSUME NEW c \in F, NEW d \in F, c # d
      PROVE  <<c, d>> \in R \/ <<d, c>> \in R
  <2>1. s(c) \in Nat /\ s(d) \in Nat /\ c \in Nat /\ d \in Nat
    BY <1>1
  <2>2. \/ s(c) > s(d) \/ (s(c) = s(d) /\ c < d)
        \/ s(d) > s(c) \/ (s(d) = s(c) /\ d < c)
    BY <1>4, <2>1
  <2>3. QED
    BY <1>2, <2>2
<1>5. ASSUME NEW c \in F, NEW d \in F, NEW e \in F, <<c, d>> \in R, <<d, e>> \in R
      PROVE  <<c, e>> \in R
  <2>1. /\ s(c) \in Nat /\ s(d) \in Nat /\ s(e) \in Nat
        /\ c \in Nat /\ d \in Nat /\ e \in Nat
    BY <1>1
  <2>2. s(c) > s(e) \/ (s(c) = s(e) /\ c < e)
    BY <1>2, <1>5, <2>1
  <2>3. QED
    BY <1>2, <2>2
<1>6. IsOrder(R, F)
  BY <1>3, <1>4, <1>5 DEF IsOrder
<1>7. QED
  BY <1>6 DEF R, F

(* The fused ranking: the first Limit of what was found, best first.       *)
LEMMA FuseIs ==
  ASSUME NEW n \in Nat, NEW A, \A r \in A : IsRanking(r), NEW lists \in [1 .. n -> A]
  PROVE  /\ IsRanking(RrfFuse(lists))
         /\ Range(RrfFuse(lists)) \subseteq Found(lists)
         /\ \A c \in Found(lists), d \in Range(RrfFuse(lists)) :
              <<c, d>> \in Outranks(lists) =>
                /\ c \in Range(RrfFuse(lists))
                /\ Position(RrfFuse(lists), c) < Position(RrfFuse(lists), d)
         /\ \A c \in Found(lists) :
              Cardinality(Ahead(c, Found(lists), Outranks(lists))) < Limit
                => c \in Range(RrfFuse(lists))
<1> DEFINE F == Found(lists)
           R == Outranks(lists)
           s == InOrder(F, R)
           size == Cardinality(F)
           f == RrfFuse(lists)
           m == Least(Limit, size)
<1>1. IsFiniteSet(F) /\ F \subseteq Chunks /\ IsOrder(R, F)
  BY ScoreIs, OutranksOrders
<1>2. /\ size \in Nat /\ s \in [1 .. size -> F]
      /\ \A i \in 1 .. size : Cardinality(Ahead(s[i], F, R)) = i - 1
      /\ \A c \in F : \E i \in 1 .. size : s[i] = c
      /\ \A i, j \in 1 .. size : i < j <=> <<s[i], s[j]>> \in R
  <2> HIDE DEF F, R
  <2>1. QED
    BY <1>1, InOrderSorts
<1>3. Limit \in Nat /\ f = First(s, Limit)
  BY SettingsAssumption DEF RrfFuse
<1> HIDE DEF F, R, s, size, f
<1>4. /\ f \in [1 .. m -> F] /\ Len(f) = m /\ m \in 0 .. size /\ m <= Limit
      /\ \A i \in 1 .. m : f[i] = s[i]
  <2>1. /\ First(s, Limit) \in [1 .. Least(Limit, size) -> F]
        /\ Len(First(s, Limit)) = Least(Limit, size)
        /\ Least(Limit, size) \in 0 .. size /\ Least(Limit, size) <= Limit
        /\ \A i \in 1 .. Least(Limit, size) : First(s, Limit)[i] = s[i]
    <3>1. Limit \in Nat /\ s \in Seq(F) /\ Len(s) = size
      BY <1>2, <1>3
    <3>2. QED
      BY <3>1, FirstIs
  <2>2. QED
    BY <1>3, <2>1
<1>m. m \in Nat /\ m \in 0 .. Limit /\ \A i \in 1 .. m : i \in 1 .. size
  BY <1>2, <1>3, <1>4
<1>5. \A i, j \in 1 .. size : s[i] = s[j] => i = j
  <2>1. SUFFICES ASSUME NEW i \in 1 .. size, NEW j \in 1 .. size, s[i] = s[j] PROVE i = j
    OBVIOUS
  <2>2. s[i] \in F
    BY <1>2
  <2>3. <<s[i], s[j]>> \notin R /\ <<s[j], s[i]>> \notin R
    BY <1>1, <2>1, <2>2 DEF IsOrder
  <2>4. ~(i < j) /\ ~(j < i)
    BY <1>2, <2>3
  <2>5. QED
    BY <1>2, <2>4
<1> HIDE DEF m
<1>6. IsRanking(f)
  <2>1. f \in [1 .. m -> Chunks]
    BY <1>1, <1>4
  <2>2. \A i, j \in 1 .. m : f[i] = f[j] => i = j
    BY <1>4, <1>5, <1>m
  <2>3. QED
    BY <1>m, <2>1, <2>2 DEF IsRanking
<1>7. Range(f) \subseteq F
  BY <1>4 DEF Range
<1>8. ASSUME NEW c \in F, NEW d \in Range(f), <<c, d>> \in R
      PROVE  c \in Range(f) /\ Position(f, c) < Position(f, d)
  <2>1. Position(f, d) \in 1 .. m /\ f[Position(f, d)] = d
    BY <1>4, <1>6, RankingIs
  <2>2. PICK i \in 1 .. size : s[i] = c
    BY <1>2
  <2> DEFINE j == Position(f, d)
  <2>3. j \in 1 .. size /\ s[j] = d
    BY <1>4, <1>m, <2>1
  <2>4. i < j
    BY <1>2, <1>8, <2>2, <2>3
  <2>5. i \in 1 .. m
    BY <1>m, <2>1, <2>4
  <2>6. f[i] = c
    BY <1>4, <2>2, <2>5
  <2>7. c \in Range(f) /\ Position(f, c) = i
    BY <1>4, <1>6, <2>5, <2>6, RankingIs
  <2>8. QED
    BY <2>4, <2>7
<1>9. ASSUME NEW c \in F, Cardinality(Ahead(c, F, R)) < Limit PROVE c \in Range(f)
  <2>1. PICK i \in 1 .. size : s[i] = c
    BY <1>2
  <2>2. i - 1 < Limit
    BY <1>2, <1>9, <2>1
  <2>3. i \in 1 .. m
    BY <1>2, <1>3, <2>2 DEF m, Least
  <2>4. f[i] = c
    BY <1>4, <2>1, <2>3
  <2>5. QED
    BY <1>4, <2>3, <2>4 DEF Range
<1>10. QED
  BY <1>6, <1>7, <1>8, <1>9 DEF F, R, f

(* Fusion does not turn round what all rankings agree on.                  *)
LEMMA FuseKeepsOrder ==
  ASSUME NEW n \in Nat, NEW A, \A r \in A : IsRanking(r), NEW lists \in [1 .. n -> A],
         NEW c, NEW d, c # d,
         \A i \in 1 .. n : PlaceIn(lists[i], c) <= PlaceIn(lists[i], d)
  PROVE  PlaceIn(RrfFuse(lists), c) <= PlaceIn(RrfFuse(lists), d)
<1> DEFINE f == RrfFuse(lists)
<1>1. IsRanking(f) /\ Range(f) \subseteq Found(lists)
  BY FuseIs
<1>2. CASE d \notin Range(f)
  <2> HIDE DEF f
  <2>1. /\ PlaceIn(f, d) = Limit + 1 /\ Limit \in Nat
        /\ PlaceIn(f, c) \in 1 .. Limit + 1
    BY <1>1, <1>2, PlaceIs
  <2>2. PlaceIn(f, c) <= PlaceIn(f, d)
    BY <2>1
  <2>3. QED
    BY <2>2 DEF f
<1>3. CASE d \in Range(f)
  <2>1. PICK k \in 1 .. n : d \in Range(lists[k])
    BY <1>1, <1>3 DEF Found
  <2>2. \A i \in 1 .. n : IsRanking(lists[i])
    OBVIOUS
  <2> DEFINE g == Shares(lists, d)
             h == Shares(lists, c)
  <2>a. \A i \in 1 .. n : /\ g[i] \in Nat /\ g[i] = Share(lists[i], d)
                          /\ h[i] \in Nat /\ h[i] = Share(lists[i], c)
    <3>1. \A e : \A i \in 1 .. n : /\ Shares(lists, e)[i] \in Nat
                                  /\ Shares(lists, e)[i] = Share(lists[i], e)
      BY ScoreIs
    <3>2. QED
      BY <3>1
  <2> HIDE DEF g, h
  <2>3. /\ \A i \in 1 .. n : g[i] \in Nat /\ h[i] \in Nat /\ g[i] <= h[i]
        /\ g[k] < h[k]
    BY <2>a, <2>1, <2>2, AheadHasMore
  <2>4. /\ IsFiniteSet(1 .. n)
        /\ RrfScore(lists, d) = SumFunctionOnSet(g, 1 .. n)
        /\ RrfScore(lists, c) = SumFunctionOnSet(h, 1 .. n)
        /\ RrfScore(lists, c) \in Nat /\ RrfScore(lists, d) \in Nat
    <3>1. IsFiniteSet(1 .. n)
      BY FS_Interval
    <3>2. /\ RrfScore(lists, d) \in Nat
          /\ RrfScore(lists, d) = SumFunctionOnSet(g, 1 .. n)
          /\ RrfScore(lists, c) \in Nat
          /\ RrfScore(lists, c) = SumFunctionOnSet(h, 1 .. n)
      BY ScoreIs DEF g, h
    <3>3. QED
      BY <3>1, <3>2
  <2>5. Share(lists[k], c) > 0
    BY <2>a, <2>3
  <2>6. RrfScore(lists, d) < RrfScore(lists, c)
    BY <2>3, <2>4, SumStrictlyMonotone
  <2>7. c \in Range(lists[k])
    BY <2>2, <2>5, ShareIs
  <2>8. c \in Found(lists) /\ d \in Found(lists)
    BY <1>1, <1>3, <2>7 DEF Found
  <2>9. <<c, d>> \in Outranks(lists)
    BY <2>4, <2>6, <2>8, OutranksIs
  <2>10. c \in Range(f) /\ Position(f, c) < Position(f, d)
    BY <1>3, <2>8, <2>9, FuseIs
  <2>11. PlaceIn(f, c) = Position(f, c) /\ PlaceIn(f, d) = Position(f, d)
         /\ PlaceIn(f, c) \in 1 .. Limit + 1 /\ PlaceIn(f, d) \in 1 .. Limit + 1 /\ Limit \in Nat
    BY <1>1, <1>3, <2>10, PlaceIs
  <2> HIDE DEF f
  <2>12. PlaceIn(f, c) <= PlaceIn(f, d)
    BY <2>10, <2>11
  <2>13. QED
    BY <2>12 DEF f
<1>4. QED
  BY <1>2, <1>3

(* Weights of the best and of the last rank, where n chunks at the last    *)
(* rank outweigh n - 1 at the best one.                                    *)
LEMMA DampedWeights ==
  ASSUME NEW n \in Nat, n >= 1, NEW a \in Nat, NEW b \in Nat, NEW u \in Nat, NEW w \in Nat,
         NEW s \in Nat, s > 0, u * a = s, w * b = s, n * a > (n - 1) * b
  PROVE  n * w > (n - 1) * u
<1>1. SUFFICES ASSUME n * w <= (n - 1) * u PROVE FALSE
  <2>1. n * w \in Int /\ (n - 1) * u \in Int
    OBVIOUS
  <2> DEFINE x == n * w
             y == (n - 1) * u
  <2> HIDE DEF x, y
  <2>2. x \in Int /\ y \in Int => (x <= y \/ x > y)
    OBVIOUS
  <2>3. QED
    BY <2>1, <2>2 DEF x, y
<1> DEFINE X == n * a
           Y == (n - 1) * b
           P == n * w
           Q == (n - 1) * u
           m == a * b
<1>2. X \in Nat /\ Y \in Nat /\ P \in Nat /\ Q \in Nat /\ m \in Nat
  <2>1. n - 1 \in Nat
    OBVIOUS
  <2>2. QED
    BY <2>1
<1>3. P * m = X * s
  <2>1. P * m = (n * a) * (w * b)
    OBVIOUS
  <2>2. QED
    BY <2>1
<1>4. Q * m = Y * s
  <2>1. Q * m = ((n - 1) * b) * (u * a)
    OBVIOUS
  <2>2. QED
    BY <2>1
<1>5. P <= Q /\ X > Y
  BY <1>1
<1> HIDE DEF X, Y, P, Q, m
<1>6. P * m <= Q * m
  BY <1>2, <1>5
<1>7. X * s > Y * s
  <2>1. X >= Y + 1
    BY <1>2, <1>5
  <2>2. X * s >= (Y + 1) * s
    BY <1>2, <2>1
  <2>3. (Y + 1) * s = Y * s + s
    BY <1>2
  <2>4. X * s \in Nat /\ Y * s \in Nat
    BY <1>2
  <2>5. QED
    BY <2>2, <2>3, <2>4
<1>8. X * s \in Nat /\ Y * s \in Nat
  BY <1>2
<1>9. QED
  BY <1>3, <1>4, <1>6, <1>7, <1>8

(* Every weight lies between that of the last place and that of the first. *)
LEMMA WeightsBetween ==
  ASSUME NEW rank \in 1 .. Limit
  PROVE  /\ 1 \in 1 .. Limit /\ Limit \in 1 .. Limit
         /\ Weight(Limit) <= Weight(rank) /\ Weight(rank) <= Weight(1)
<1>1. Limit \in Nat /\ rank \in Nat /\ 1 \in 1 .. Limit /\ Limit \in 1 .. Limit
  BY SettingsAssumption
<1>2. Weight(rank) \in Nat /\ Weight(1) \in Nat /\ Weight(Limit) \in Nat
  BY <1>1, WeightIs
<1>3. Weight(Limit) <= Weight(rank)
  <2>1. CASE rank = Limit
    BY <1>2, <2>1
  <2>2. CASE rank < Limit
    BY <1>1, <1>2, <2>2, BetterRankWeighsMore
  <2>3. QED
    BY <1>1, <2>1, <2>2
<1>4. Weight(rank) <= Weight(1)
  <2>1. CASE rank = 1
    BY <1>2, <2>1
  <2>2. CASE 1 < rank
    BY <1>1, <1>2, <2>2, BetterRankWeighsMore
  <2>3. QED
    BY <1>1, <2>1, <2>2
<1>5. QED
  BY <1>1, <1>3, <1>4

(* What all of n rankings found outscores what one of them missed.         *)
LEMMA AgreedOutscores ==
  ASSUME NEW n \in 2 .. MaxQueries, NEW A, \A r \in A : IsRanking(r),
         NEW lists \in [1 .. n -> A],
         NEW c, \A i \in 1 .. n : c \in Range(lists[i]),
         NEW d, NEW k \in 1 .. n, d \notin Range(lists[k])
  PROVE  RrfScore(lists, d) < RrfScore(lists, c)
<1> DEFINE low == Weight(Limit)
           high == Weight(1)
           f == Shares(lists, c)
           g == Shares(lists, d)
           I == 1 .. n
<1>1. n \in Nat /\ n >= 2 /\ MaxQueries \in Nat /\ \A i \in I : IsRanking(lists[i])
  BY SettingsAssumption
<1>2. /\ IsFiniteSet(I) /\ Cardinality(I) = n
      /\ RrfScore(lists, c) = SumFunctionOnSet(f, I) /\ RrfScore(lists, c) \in Nat
      /\ RrfScore(lists, d) = SumFunctionOnSet(g, I) /\ RrfScore(lists, d) \in Nat
      /\ \A i \in I : f[i] \in Nat /\ f[i] = Share(lists[i], c)
      /\ \A i \in I : g[i] \in Nat /\ g[i] = Share(lists[i], d)
  <2>1. \A e : /\ RrfScore(lists, e) \in Nat
               /\ RrfScore(lists, e) = SumFunctionOnSet(Shares(lists, e), I)
               /\ \A i \in I : /\ Shares(lists, e)[i] \in Nat
                               /\ Shares(lists, e)[i] = Share(lists[i], e)
    BY <1>1, ScoreIs
  <2>2. IsFiniteSet(I) /\ Cardinality(I) = n
    BY <1>1, FS_Interval
  <2>3. QED
    BY <2>1, <2>2
<1>3. /\ Limit \in Nat /\ 1 \in 1 .. Limit /\ Limit \in 1 .. Limit
      /\ low \in Nat /\ high \in Nat
  <2>1. Limit \in Nat /\ 1 \in 1 .. Limit /\ Limit \in 1 .. Limit
    BY SettingsAssumption
  <2>2. QED
    BY <2>1, WeightIs
<1>4. \A i \in I : low <= f[i] /\ g[i] <= high
  <2>1. SUFFICES ASSUME NEW i \in I PROVE low <= f[i] /\ g[i] <= high
    OBVIOUS
  <2>2. Position(lists[i], c) \in 1 .. Limit /\ f[i] = Weight(Position(lists[i], c))
    BY <1>1, <1>2, ShareIs
  <2>3. low <= f[i]
    BY <2>2, WeightsBetween
  <2>4. CASE d \in Range(lists[i])
    <3>1. Position(lists[i], d) \in 1 .. Limit /\ g[i] = Weight(Position(lists[i], d))
      BY <1>1, <1>2, <2>4, ShareIs
    <3>2. QED
      BY <2>3, <3>1, WeightsBetween
  <2>5. CASE d \notin Range(lists[i])
    <3>1. g[i] = 0
      BY <1>1, <1>2, <2>5, ShareIs
    <3> HIDE DEF high, low, f, g
    <3>2. QED
      BY <1>3, <2>3, <3>1
  <2>6. QED
    BY <2>4, <2>5
<1>5. g[k] = 0
  BY <1>1, <1>2, ShareIs
<1>6. n * low > (n - 1) * high
  <2> DEFINE a == RrfK + 1
             b == RrfK + Limit
  <2>1. /\ a \in Nat /\ b \in Nat /\ high * a = Scale /\ low * b = Scale
    BY <1>3, WeightIs
  <2>2. n * a > (n - 1) * b
    BY DampedAssumption
  <2>3. Scale \in Nat /\ Scale > 0
    BY SettingsAssumption
  <2> HIDE DEF a, b, high, low
  <2>4. QED
    BY <1>1, <1>3, <2>1, <2>2, <2>3, DampedWeights
<1> HIDE DEF low, high, f, g, I
<1>7. n * low <= SumFunctionOnSet(f, I)
  <2> DEFINE e == [i \in I |-> low]
  <2>1. \A i \in I : e[i] = low /\ e[i] \in Nat /\ f[i] \in Nat /\ e[i] <= f[i]
    BY <1>2, <1>3, <1>4
  <2> HIDE DEF e
  <2>2. SumFunctionOnSet(e, I) = Cardinality(I) * low
    BY <1>2, <1>3, <2>1, SumOfEqual
  <2>3. SumFunctionOnSet(e, I) <= SumFunctionOnSet(f, I)
    BY <1>2, <2>1, SumMonotone
  <2>4. QED
    BY <1>2, <2>2, <2>3
<1>8. SumFunctionOnSet(g, I) <= (n - 1) * high
  <2> DEFINE R == I \ {k}
             e == [i \in R |-> high]
  <2>1. k \in I
    BY DEF I
  <2>2. IsFiniteSet(R) /\ Cardinality(R) = n - 1
    BY <1>2, <2>1, FS_RemoveElement
  <2>3. \A i \in R : e[i] = high /\ e[i] \in Nat /\ g[i] \in Nat /\ g[i] <= e[i]
    BY <1>2, <1>3, <1>4
  <2>4. /\ SumFunctionOnSet(g, I) = g[k] + SumFunctionOnSet(g, R)
        /\ SumFunctionOnSet(g, R) \in Nat
    <3>1. IsFiniteSet(I) /\ (\A x \in I : g[x] \in Nat)
      BY <1>2, <1>4
    <3>2. IsFiniteSet(R) /\ (\A x \in R : g[x] \in Nat)
      BY <2>2, <2>3
    <3>3. SumFunctionOnSet(g, R) \in Nat
      BY <3>2, SumFacts
    <3> HIDE DEF R, e
    <3>4. \A x \in I : SumFunctionOnSet(g, I) = g[x] + SumFunctionOnSet(g, I \ {x})
      BY <3>1, SumFacts
    <3>5. QED
      BY <2>1, <3>3, <3>4 DEF R
  <2> HIDE DEF e, R
  <2>5. SumFunctionOnSet(e, R) = Cardinality(R) * high
    BY <1>3, <2>2, <2>3, SumOfEqual
  <2>6. SumFunctionOnSet(g, R) <= SumFunctionOnSet(e, R)
    BY <2>2, <2>3, SumMonotone
  <2>7. QED
    BY <1>5, <2>2, <2>4, <2>5, <2>6
<1>9. QED
  <2> DEFINE x == n * low
             y == (n - 1) * high
  <2>1. x \in Int /\ y \in Int
    BY <1>1, <1>3
  <2> HIDE DEF x, y
  <2>2. x <= RrfScore(lists, c) /\ RrfScore(lists, d) <= y /\ x > y
    BY <1>2, <1>6, <1>7, <1>8 DEF x, y
  <2>3. QED
    BY <1>2, <2>1, <2>2

(* Only chunks of the first list can be ahead of one that is in all of them.*)
LEMMA FuseKeepsAgreed ==
  ASSUME NEW n \in 2 .. MaxQueries, NEW A, \A r \in A : IsRanking(r),
         NEW lists \in [1 .. n -> A],
         NEW c, \A i \in 1 .. n : c \in Range(lists[i])
  PROVE  c \in Range(RrfFuse(lists))
<1> DEFINE F == Found(lists)
           before == Ahead(c, F, Outranks(lists))
           top == Range(lists[1])
<1>1. n \in Nat /\ 1 \in 1 .. n /\ IsRanking(lists[1]) /\ c \in top
  BY SettingsAssumption
<1>2. c \in F
  BY <1>1 DEF Found
<1>3. before \subseteq top \ {c}
  <2>1. SUFFICES ASSUME NEW d \in before PROVE d \in top \ {c}
    OBVIOUS
  <2>2. d \in F /\ <<d, c>> \in Outranks(lists)
    BY DEF Ahead
  <2>3. RrfScore(lists, c) \in Nat /\ RrfScore(lists, d) \in Nat
    BY <1>1, ScoreIs
  <2>4. ~(RrfScore(lists, d) < RrfScore(lists, c))
    BY <1>2, <2>2, <2>3, OutranksIs
  <2>5. d \in top
    BY <1>1, <2>4, AgreedOutscores
  <2>6. d # c
    BY <1>1, <1>2, <2>2, OutranksOrders DEF IsOrder
  <2>7. QED
    BY <2>5, <2>6
<1>4. IsFiniteSet(top) /\ Cardinality(top) <= Limit /\ Cardinality(top) \in Nat
  <2> DEFINE m == Len(lists[1])
  <2>1. /\ m \in Nat /\ m <= Limit /\ Limit \in Nat
        /\ lists[1] \in [1 .. m -> Chunks]
    BY <1>1, RankingIs
  <2> HIDE DEF m
  <2>2. lists[1] \in Surjection(1 .. m, top)
    <3>1. \A i \in 1 .. m : lists[1][i] \in top
      BY <2>1 DEF Range
    <3>2. lists[1] \in [1 .. m -> top]
      BY <2>1, <3>1
    <3>3. \A e \in top : \E i \in 1 .. m : lists[1][i] = e
      BY <2>1 DEF Range
    <3> HIDE DEF top
    <3>4. QED
      BY <3>2, <3>3 DEF Surjection
  <2>3. IsFiniteSet(1 .. m) /\ Cardinality(1 .. m) = m
    BY <2>1, FS_Interval
  <2> HIDE DEF top
  <2>4. IsFiniteSet(top) /\ Cardinality(top) <= m
    BY <2>2, <2>3, FS_Surjection
  <2>5. QED
    BY <2>1, <2>4, FS_CardinalityType
<1>5. Cardinality(before) < Limit
  <2> HIDE DEF top, before
  <2>1. IsFiniteSet(top \ {c}) /\ Cardinality(top \ {c}) = Cardinality(top) - 1
    BY <1>1, <1>4, FS_RemoveElement
  <2>2. IsFiniteSet(before) /\ Cardinality(before) <= Cardinality(top) - 1
    BY <1>3, <2>1, FS_Subset
  <2>3. Cardinality(before) \in Nat /\ Limit \in Nat
    BY <2>2, FS_CardinalityType, SettingsAssumption
  <2>4. QED
    BY <1>4, <2>2, <2>3
<1>6. QED
  BY <1>1, <1>2, <1>5, FuseIs

-----------------------------------------------------------------------------
(* The planner's queries.                                                  *)

(* Distinct keeps the first use of every text, in order.                   *)
LEMMA DistinctIs ==
  ASSUME NEW n \in Nat, n >= 1, NEW texts \in [1 .. n -> Texts \cup {Blank}],
         texts[1] = Question
  PROVE  \E size \in Nat :
           /\ size >= 1 /\ Distinct(texts) \in [1 .. size -> Texts]
           /\ Distinct(texts)[1] = Question
           /\ n >= 2 /\ texts[2] # Blank =>
                \E i \in 1 .. 2 : i <= size /\ Distinct(texts)[i] = texts[2]
           /\ \A i, j \in 1 .. size : Distinct(texts)[i] = Distinct(texts)[j] => i = j
<1> DEFINE U == FirstUses(texts)
           R == {p \in U \X U : p[1] < p[2]}
           s == InOrder(U, R)
           size == Cardinality(U)
<1>1. /\ U \subseteq 1 .. n /\ IsFiniteSet(U)
      /\ \A i \in U : /\ i \in Nat /\ i >= 1 /\ texts[i] \in Texts
                      /\ \A j \in 1 .. i - 1 : texts[j] # texts[i]
  <2>1. U \subseteq 1 .. n
    BY DEF FirstUses
  <2>2. IsFiniteSet(U)
    BY <2>1, FS_Interval, FS_Subset
  <2>3. ASSUME NEW i \in U
        PROVE  /\ i \in Nat /\ i >= 1 /\ texts[i] \in Texts
               /\ \A j \in 1 .. i - 1 : texts[j] # texts[i]
    BY <2>1 DEF FirstUses
  <2>4. QED
    BY <2>1, <2>2, <2>3
<1>2. IsOrder(R, U)
  <2>1. \A c, d \in U : <<c, d>> \in R <=> c < d
    OBVIOUS
  <2>2. \A c \in U : c \in Nat
    BY <1>1
  <2> HIDE DEF R, U
  <2>3. QED
    BY <2>1, <2>2 DEF IsOrder
<1>3. 1 \in U
  BY TextAssumption DEF FirstUses
<1>4. /\ size \in Nat /\ s \in [1 .. size -> U]
      /\ \A c \in U : \E i \in 1 .. size : s[i] = c
      /\ \A i, j \in 1 .. size : i < j <=> <<s[i], s[j]>> \in R
  <2> HIDE DEF R, U
  <2>1. QED
    BY <1>1, <1>2, InOrderSorts
<1>5. \A i, j \in 1 .. size : i < j <=> s[i] < s[j]
  BY <1>4
<1>6. Distinct(texts) = [k \in 1 .. size |-> texts[s[k]]]
  BY <1>4 DEF Distinct
<1> DEFINE d == Distinct(texts)
<1>7. 2 \in U \/ ~(n >= 2) \/ texts[2] = Blank \/ texts[2] = Question
  BY DEF FirstUses
<1> HIDE DEF U, R, s, size, d
<1>8. d \in [1 .. size -> Texts] /\ \A k \in 1 .. size : d[k] = texts[s[k]]
  BY <1>1, <1>4, <1>6 DEF d
<1>9. 1 \in 1 .. size /\ s[1] = 1
  <2>1. PICK i \in 1 .. size : s[i] = 1
    BY <1>3, <1>4
  <2>2. 1 \in 1 .. size /\ s[1] \in U
    BY <1>4, <2>1
  <2>3. s[1] \in Nat /\ s[1] >= 1
    BY <1>1, <2>2
  <2>4. ~(1 < i)
    BY <1>5, <2>1, <2>2, <2>3
  <2>5. QED
    BY <1>4, <2>1, <2>2, <2>4
<1>10. d[1] = Question
  BY <1>8, <1>9
<1>11. ASSUME n >= 2, texts[2] # Blank
       PROVE  \E i \in 1 .. 2 : i <= size /\ d[i] = texts[2]
  <2>1. CASE texts[2] = Question
    BY <1>4, <1>9, <1>10, <2>1
  <2>2. CASE 2 \in U
    <3>1. PICK i \in 1 .. size : s[i] = 2
      BY <1>4, <2>2
    <3>2. ~(2 < i)
      <4>1. SUFFICES ASSUME 2 < i PROVE FALSE
        OBVIOUS
      <4>2. 2 \in 1 .. size /\ s[2] \in U
        BY <1>4, <4>1
      <4>3. s[1] < s[2] /\ s[2] < s[i]
        BY <1>5, <1>9, <4>1, <4>2
      <4>4. s[2] \in Nat
        BY <1>1, <4>2
      <4>5. QED
        BY <1>9, <3>1, <4>3, <4>4
    <3>3. i \in 1 .. 2 /\ i <= size /\ d[i] = texts[2]
      BY <1>4, <1>8, <3>1, <3>2
    <3>4. QED
      BY <3>3
  <2>3. QED
    BY <1>7, <1>11, <2>1, <2>2
<1>12. ASSUME NEW i \in 1 .. size, NEW j \in 1 .. size, i < j PROVE d[i] # d[j]
  <2>1. s[i] < s[j] /\ s[i] \in U /\ s[j] \in U
    BY <1>4, <1>5, <1>12
  <2>2. s[i] \in 1 .. s[j] - 1
    <3>1. s[i] \in Nat /\ s[i] >= 1 /\ s[j] \in Nat
      BY <1>1, <2>1
    <3>2. QED
      BY <2>1, <3>1
  <2>3. texts[s[i]] # texts[s[j]]
    BY <1>1, <2>1, <2>2
  <2>4. QED
    BY <1>8, <2>3
<1>13. \A i, j \in 1 .. size : d[i] = d[j] => i = j
  <2>1. \A i, j \in 1 .. size : i < j \/ j < i \/ i = j
    BY <1>4
  <2>2. QED
    BY <1>12, <2>1
<1>14. size >= 1
  BY <1>4, <1>9
<1>15. QED
  BY <1>4, <1>8, <1>10, <1>11, <1>13, <1>14 DEF d

(* The cut leaves the question and the rewrite.                            *)
LEMMA DedupeIs ==
  ASSUME NEW n \in Nat, n >= 1, NEW texts \in [1 .. n -> Texts \cup {Blank}],
         texts[1] = Question
  PROVE  /\ Dedupe(texts) \in UpTo(MaxQueries, Texts)
         /\ Dedupe(texts) # <<>> /\ Dedupe(texts)[1] = Question
         /\ n >= 2 /\ texts[2] # Blank => texts[2] \in Range(Dedupe(texts))
         /\ \A i, j \in DOMAIN Dedupe(texts) : Dedupe(texts)[i] = Dedupe(texts)[j] => i = j
<1> DEFINE d == Distinct(texts)
           f == Dedupe(texts)
<1>1. PICK size \in Nat :
           /\ size >= 1 /\ d \in [1 .. size -> Texts] /\ d[1] = Question
           /\ n >= 2 /\ texts[2] # Blank => \E i \in 1 .. 2 : i <= size /\ d[i] = texts[2]
           /\ \A i, j \in 1 .. size : d[i] = d[j] => i = j
  BY DistinctIs
<1>2. MaxQueries \in Nat /\ MaxQueries >= 2 /\ f = First(d, MaxQueries)
  BY SettingsAssumption DEF Dedupe
<1> HIDE DEF d, f
<1> DEFINE m == Least(MaxQueries, size)
<1>3. /\ f \in [1 .. m -> Texts] /\ m \in 0 .. size /\ m <= MaxQueries
      /\ \A i \in 1 .. m : f[i] = d[i]
  <2>1. d \in Seq(Texts) /\ Len(d) = size
    BY <1>1
  <2>2. QED
    BY <1>2, <2>1, FirstIs
<1>4. m \in 0 .. MaxQueries /\ m >= 1 /\ (size >= 2 => m >= 2) /\ \A i \in 1 .. m : i \in 1 .. size
  BY <1>1, <1>2, <1>3 DEF Least
<1> HIDE DEF m
<1>5. f \in UpTo(MaxQueries, Texts)
  BY <1>3, <1>4 DEF UpTo
<1>6. f # <<>> /\ f[1] = Question
  <2>1. 1 \in 1 .. m /\ DOMAIN f = 1 .. m
    BY <1>3, <1>4
  <2>2. QED
    BY <1>1, <1>3, <2>1
<1>7. ASSUME n >= 2, texts[2] # Blank PROVE texts[2] \in Range(f)
  <2>1. PICK i \in 1 .. 2 : i <= size /\ d[i] = texts[2]
    BY <1>1, <1>7
  <2>2. i \in 1 .. m
    BY <1>1, <1>4, <2>1
  <2>3. QED
    BY <1>3, <2>1, <2>2 DEF Range
<1>8. \A i, j \in DOMAIN f : f[i] = f[j] => i = j
  BY <1>1, <1>3, <1>4
<1>9. QED
  BY <1>5, <1>6, <1>7, <1>8 DEF f

-----------------------------------------------------------------------------
(* Both levels of fusion.                                                  *)

(* One ranking is returned as it is, more of them are fused.               *)
LEMMA FusionIs ==
  ASSUME NEW n \in 1 .. MaxQueries, NEW A, \A r \in A : IsRanking(r),
         NEW lists \in [1 .. n -> A]
  PROVE  /\ SearchResult(lists) = FuseQueries(lists)
         /\ IsRanking(FuseQueries(lists))
         /\ \A c, d : c # d /\ (\A i \in 1 .. n : PlaceIn(lists[i], c) <= PlaceIn(lists[i], d))
              => PlaceIn(FuseQueries(lists), c) <= PlaceIn(FuseQueries(lists), d)
         /\ \A c : (\A i \in 1 .. n : c \in Range(lists[i]))
              => c \in Range(FuseQueries(lists))
<1> DEFINE f == FuseQueries(lists)
<1>1. n \in Nat /\ n >= 1 /\ n <= MaxQueries /\ Len(lists) = n
  BY SettingsAssumption
<1>2. SearchResult(lists) = f
  BY DEF SearchResult, FuseQueries
<1>3. CASE n = 1
  <2>1. f = lists[1] /\ 1 \in 1 .. n
    BY <1>1, <1>3 DEF FuseQueries
  <2> HIDE DEF f
  <2>2. IsRanking(f)
    BY <2>1
  <2>3. QED
    BY <1>2, <2>1, <2>2 DEF f
<1>4. CASE n # 1
  <2>1. f = RrfFuse(lists) /\ n \in 2 .. MaxQueries
    BY <1>1, <1>4, SettingsAssumption DEF FuseQueries
  <2> HIDE DEF f
  <2>2. IsRanking(f)
    BY <1>1, <2>1, FuseIs
  <2>3. \A c, d : c # d /\ (\A i \in 1 .. n : PlaceIn(lists[i], c) <= PlaceIn(lists[i], d))
              => PlaceIn(f, c) <= PlaceIn(f, d)
    BY <1>1, <2>1, FuseKeepsOrder
  <2>4. \A c : (\A i \in 1 .. n : c \in Range(lists[i])) => c \in Range(f)
    BY <2>1, FuseKeepsAgreed
  <2>5. QED
    BY <1>2, <2>2, <2>3, <2>4 DEF f
<1>5. QED
  BY <1>3, <1>4

(* What the rankings of every leg of every query agree on, the fusion of   *)
(* the fusions keeps.                                                      *)
LEMMA TwiceFused ==
  ASSUME NEW n \in 1 .. MaxQueries, NEW k \in 1 .. 2,
         NEW found \in [1 .. n -> [1 .. k -> Rankings]],
         NEW f, f = FuseQueries([q \in 1 .. n |-> SearchResult(found[q])])
  PROVE  /\ IsRanking(f)
         /\ \A c, d : c # d /\ (\A q \in 1 .. n, i \in 1 .. k :
                                  PlaceIn(found[q][i], c) <= PlaceIn(found[q][i], d))
              => PlaceIn(f, c) <= PlaceIn(f, d)
         /\ \A c : (\A q \in 1 .. n, i \in 1 .. k : c \in Range(found[q][i]))
              => c \in Range(f)
<1> DEFINE A == {SearchResult(l) : l \in [1 .. k -> Rankings]}
           lists == [q \in 1 .. n |-> SearchResult(found[q])]
<1>1. k \in 1 .. MaxQueries
  BY SettingsAssumption
<1>2. ASSUME NEW l \in [1 .. k -> Rankings]
      PROVE  /\ IsRanking(SearchResult(l))
             /\ \A c, d : c # d /\ (\A i \in 1 .. k : PlaceIn(l[i], c) <= PlaceIn(l[i], d))
                  => PlaceIn(SearchResult(l), c) <= PlaceIn(SearchResult(l), d)
             /\ \A c : (\A i \in 1 .. k : c \in Range(l[i])) => c \in Range(SearchResult(l))
  BY <1>1, RankingsRank, FusionIs
<1>3. \A r \in A : IsRanking(r)
  BY <1>2
<1>4. lists \in [1 .. n -> A] /\ \A q \in 1 .. n : lists[q] = SearchResult(found[q])
  OBVIOUS
<1>5. f = FuseQueries(lists)
  OBVIOUS
<1> HIDE DEF A, lists
<1>6. /\ IsRanking(f)
      /\ \A c, d : c # d /\ (\A q \in 1 .. n : PlaceIn(lists[q], c) <= PlaceIn(lists[q], d))
           => PlaceIn(f, c) <= PlaceIn(f, d)
      /\ \A c : (\A q \in 1 .. n : c \in Range(lists[q])) => c \in Range(f)
  BY <1>3, <1>4, <1>5, FusionIs
<1>7. ASSUME NEW c, NEW d, c # d,
             \A q \in 1 .. n, i \in 1 .. k :
               PlaceIn(found[q][i], c) <= PlaceIn(found[q][i], d)
      PROVE  PlaceIn(f, c) <= PlaceIn(f, d)
  <2>1. ASSUME NEW q \in 1 .. n PROVE PlaceIn(lists[q], c) <= PlaceIn(lists[q], d)
    <3>1. found[q] \in [1 .. k -> Rankings]
      OBVIOUS
    <3>2. \A i \in 1 .. k : PlaceIn(found[q][i], c) <= PlaceIn(found[q][i], d)
      BY <1>7
    <3>3. QED
      BY <1>2, <1>4, <1>7, <3>1, <3>2
  <2>2. QED
    BY <1>6, <1>7, <2>1
<1>8. ASSUME NEW c, \A q \in 1 .. n, i \in 1 .. k : c \in Range(found[q][i])
      PROVE  c \in Range(f)
  <2>1. ASSUME NEW q \in 1 .. n PROVE c \in Range(lists[q])
    <3>1. found[q] \in [1 .. k -> Rankings]
      OBVIOUS
    <3>2. QED
      BY <1>2, <1>4, <1>8, <3>1
  <2>2. QED
    BY <1>6, <2>1
<1>9. QED
  BY <1>6, <1>7, <1>8

-----------------------------------------------------------------------------
(* The reranker's order and the budget.                                    *)

(* ByScore rearranges a ranking: higher scores first, ties as they were.   *)
LEMMA ByScoreIs ==
  ASSUME NEW r, IsRanking(r), NEW score, \A c \in Range(r) : score[c] \in Nat
  PROVE  /\ ByScore(r, score) \in [1 .. Len(r) -> Chunks]
         /\ Range(ByScore(r, score)) = Range(r)
         /\ \A i, j \in 1 .. Len(r) : i < j =>
              \/ score[ByScore(r, score)[i]] > score[ByScore(r, score)[j]]
              \/ /\ score[ByScore(r, score)[i]] = score[ByScore(r, score)[j]]
                 /\ Position(r, ByScore(r, score)[i]) < Position(r, ByScore(r, score)[j])
<1> DEFINE S == Range(r)
           R == ScoresHigher(r, score)
           s == ByScore(r, score)
           m == Len(r)
           Higher(c, d) == \/ score[c] > score[d]
                           \/ score[c] = score[d] /\ Position(r, c) < Position(r, d)
<1>1. /\ m \in Nat /\ r \in [1 .. m -> Chunks] /\ S \subseteq Chunks
      /\ \A i, j \in 1 .. m : r[i] = r[j] => i = j
      /\ \A i \in 1 .. m : r[i] \in S
      /\ \A c \in S : Position(r, c) \in 1 .. m /\ r[Position(r, c)] = c
  BY RankingIs
<1>2. IsFiniteSet(S) /\ Cardinality(S) = m
  <2>1. r \in Bijection(1 .. m, S)
    <3>1. \A c \in S : \E i \in 1 .. m : r[i] = c
      BY <1>1
    <3> HIDE DEF S, m
    <3>2. QED
      BY <1>1, <3>1 DEF Bijection, Injection, IsInjective, Surjection
  <2>2. IsFiniteSet(1 .. m) /\ Cardinality(1 .. m) = m
    BY <1>1, FS_Interval
  <2> DEFINE I == 1 .. m
  <2> HIDE DEF S, m, I
  <2>3. ExistsBijection(I, S)
    BY <2>1 DEF ExistsBijection, I
  <2>4. IsFiniteSet(I) /\ Cardinality(I) = m
    BY <2>2 DEF I
  <2>5. QED
    BY <2>3, <2>4, FS_Bijection
<1>3. \A c, d \in S : <<c, d>> \in R <=> Higher(c, d)
  BY DEF ScoresHigher
<1>4. \A c \in S : score[c] \in Nat /\ Position(r, c) \in Nat
  BY <1>1
<1>5. s = InOrder(S, R)
  BY DEF ByScore
<1> HIDE DEF S, R, s, m
<1>6. IsOrder(R, S)
  <2>1. \A c \in S : <<c, c>> \notin R
    BY <1>3, <1>4
  <2>2. ASSUME NEW c \in S, NEW d \in S PROVE c = d \/ <<c, d>> \in R \/ <<d, c>> \in R
    <3>1. Position(r, c) = Position(r, d) => c = d
      BY <1>1
    <3>2. QED
      BY <1>3, <1>4, <3>1
  <2>3. \A c, d, e \in S : <<c, d>> \in R /\ <<d, e>> \in R => <<c, e>> \in R
    BY <1>3, <1>4
  <2>4. QED
    BY <2>1, <2>2, <2>3 DEF IsOrder
<1>7. /\ s \in [1 .. m -> S]
      /\ \A c \in S : \E i \in 1 .. m : s[i] = c
      /\ \A i, j \in 1 .. m : i < j <=> <<s[i], s[j]>> \in R
  BY <1>2, <1>5, <1>6, InOrderSorts
<1>8. Range(s) = S
  BY <1>7 DEF Range
<1>9. s \in [1 .. m -> Chunks]
  BY <1>1, <1>7
<1>10. \A i, j \in 1 .. m : i < j => Higher(s[i], s[j])
  BY <1>3, <1>7
<1>11. QED
  BY <1>8, <1>9, <1>10 DEF S, s, m

(* The walk stops at the first chunk that does not fit.                    *)
LEMMA FitContextIs ==
  ASSUME NEW m \in Nat, NEW s \in [1 .. m -> Chunks]
  PROVE  \E n \in 0 .. m :
           /\ FitContext(s) = First(s, n)
           /\ Tokens(First(s, n)) <= Budget
           /\ n < m => Tokens(First(s, n + 1)) > Budget
<1>1. Len(s) = m /\ s \in Seq(Chunks)
  OBVIOUS
<1>2. ASSUME NEW n \in 0 .. m PROVE Tokens(First(s, n)) \in Nat
  <2> DEFINE t == First(s, n)
             l == Least(n, m)
             f == [i \in DOMAIN t |-> Cost[t[i]]]
  <2>1. t \in [1 .. l -> Chunks] /\ l \in Nat
    BY <1>1, FirstIs
  <2> HIDE DEF t, l
  <2>2. IsFiniteSet(1 .. l) /\ (\A i \in 1 .. l : f[i] \in Nat)
    BY <2>1, FS_Interval, SettingsAssumption
  <2>3. Tokens(t) = SumFunctionOnSet(f, 1 .. l)
    BY <2>1 DEF Tokens
  <2> HIDE DEF f
  <2>4. SumFunctionOnSet(f, 1 .. l) \in Nat
    BY <2>2, SumFacts
  <2>5. QED
    BY <2>3, <2>4 DEF t
<1>3. Tokens(First(s, 0)) <= Budget
  <2>1. First(s, 0) = <<>>
    BY <1>1, FirstIs DEF Least
  <2> DEFINE f == [i \in DOMAIN <<>> |-> Cost[<<>>[i]]]
  <2>2. Tokens(<<>>) = SumFunctionOnSet(f, DOMAIN <<>>) /\ DOMAIN <<>> = {}
    BY DEF Tokens
  <2> HIDE DEF f
  <2>3. SumFunctionOnSet(f, {}) = 0
    BY EmptySum
  <2>4. QED
    BY <2>1, <2>2, <2>3, SettingsAssumption
<1> DEFINE T == {k \in 1 .. m : ~(Tokens(First(s, k)) <= Budget)}
           Stops(n) == Fits(s, n) /\ (n < Len(s) => ~Fits(s, n + 1))
<1>4. \E n \in 0 .. m : Stops(n)
  <2>1. CASE T = {}
    BY <1>1, <2>1 DEF Fits
  <2>2. CASE T # {}
    <3> DEFINE F == {0 .. x : x \in T}
    <3>1. PICK U \in F : \A V \in F : V \subseteq U => V = U
      <4> DEFINE I == 0 .. m
      <4>1. \A x \in T : 0 .. x \subseteq I
        OBVIOUS
      <4>2. IsFiniteSet(I)
        BY FS_Interval
      <4> HIDE DEF T, I
      <4>3. F \in SUBSET SUBSET I /\ F # {}
        BY <2>2, <4>1
      <4> HIDE DEF F
      <4>4. QED
        BY <4>2, <4>3, LeastOf
    <3>2. PICK k \in T : U = 0 .. k
      BY <3>1
    <3>3. \A y \in T : k <= y
      <4>1. SUFFICES ASSUME NEW y \in T, y < k PROVE FALSE
        OBVIOUS
      <4>2. 0 .. y \in F /\ 0 .. y \subseteq U /\ k \in U /\ k \notin 0 .. y
        BY <3>2, <4>1
      <4>3. QED
        BY <3>1, <4>2
    <3>4. Fits(s, k - 1)
      <4>1. SUFFICES ASSUME NEW i \in 1 .. k - 1 PROVE Tokens(First(s, i)) <= Budget
        BY DEF Fits
      <4>2. i \in 1 .. m /\ i \notin T
        BY <3>3
      <4>3. QED
        BY <4>2
    <3>5. ~Fits(s, k)
      BY DEF Fits
    <3>6. k - 1 \in 0 .. m /\ (k - 1) + 1 = k
      OBVIOUS
    <3>7. QED
      BY <3>4, <3>5, <3>6
  <2>3. QED
    BY <2>1, <2>2
<1> DEFINE n == CHOOSE n \in 0 .. m : Stops(n)
<1>5. n \in 0 .. m /\ Stops(n)
  BY <1>4
<1>6. FitContext(s) = First(s, n)
  BY <1>1 DEF FitContext
<1> HIDE DEF n, T
<1>7. Tokens(First(s, n)) <= Budget
  <2>1. n = 0 \/ n \in 1 .. n
    BY <1>5
  <2>2. QED
    BY <1>3, <1>5, <2>1 DEF Fits
<1>8. ASSUME n < m PROVE Tokens(First(s, n + 1)) > Budget
  <2>1. PICK k \in 1 .. n + 1 : ~(Tokens(First(s, k)) <= Budget)
    BY <1>1, <1>5, <1>8 DEF Fits
  <2>2. k \notin 1 .. n
    BY <1>5, <2>1 DEF Fits
  <2>3. k = n + 1 /\ k \in 0 .. m
    BY <1>5, <1>8, <2>2
  <2>4. Tokens(First(s, k)) \in Nat /\ Budget \in Nat
    BY <1>2, <2>3, SettingsAssumption
  <2>5. QED
    BY <2>1, <2>3, <2>4
<1>9. QED
  BY <1>5, <1>6, <1>7, <1>8

-----------------------------------------------------------------------------
(* The inductive invariant.                                                *)

(* A question that has not been planned yet.                               *)
LEMMA SearchInitEstablishes == SearchInit => SearchIInv
<1> SUFFICES ASSUME SearchInit PROVE SearchIInv
  OBVIOUS
<1>1. \A n \in Nat : \A S : <<>> \in UpTo(n, S)
  <2>1. SUFFICES ASSUME NEW n \in Nat, NEW S PROVE <<>> \in UpTo(n, S)
    OBVIOUS
  <2>2. 0 \in 0 .. n /\ <<>> \in [1 .. 0 -> S]
    OBVIOUS
  <2>3. QED
    BY <2>2 DEF UpTo
<1>2. Limit \in Nat /\ TopK \in Nat /\ MaxQueries \in Nat
  BY SettingsAssumption
<1>3. <<>> \in UNION {[1 .. n -> UNION {[1 .. l -> Rankings] : l \in 1 .. 2}] :
                         n \in 0 .. MaxQueries}
  <2>1. 0 \in 0 .. MaxQueries
    BY <1>2
  <2>2. <<>> \in [1 .. 0 -> UNION {[1 .. l -> Rankings] : l \in 1 .. 2}]
    OBVIOUS
  <2>3. QED
    BY <2>1, <2>2
<1>4. SearchTypeOK
  BY <1>1, <1>2, <1>3 DEF SearchInit, SearchTypeOK, Stages
<1>5. PlanSound /\ Fused /\ Ordered /\ Fitted
  BY DEF SearchInit, PlanSound, Planned, Fused, Searched, Ordered, Fitted
<1>6. QED
  BY <1>4, <1>5 DEF SearchIInv

(* Whatever texts a plan is made of, as long as the question comes first   *)
(* and the rewrite second.                                                 *)
LEMMA SetPlanKeeps ==
  ASSUME SearchIInv, NEW rewrite \in Texts \cup {Blank},
         NEW n \in Nat, n >= 1, NEW texts \in [1 .. n -> Texts \cup {Blank}],
         texts[1] = Question, rewrite # Blank => n >= 2 /\ texts[2] = rewrite,
         SetPlan(texts, rewrite)
  PROVE  SearchIInv'
<1>1. /\ Dedupe(texts) \in UpTo(MaxQueries, Texts)
      /\ Dedupe(texts) # <<>> /\ Dedupe(texts)[1] = Question
      /\ rewrite # Blank => rewrite \in Range(Dedupe(texts))
      /\ \A i, j \in DOMAIN Dedupe(texts) : Dedupe(texts)[i] = Dedupe(texts)[j] => i = j
  BY DedupeIs
<1>2. queries' = Dedupe(texts) /\ rewritten' = rewrite /\ stage' = "retrieve"
  BY DEF SetPlan
<1>3. SearchTypeOK'
  BY <1>1, <1>2 DEF SearchIInv, SearchTypeOK, SetPlan, Stages
<1>4. PlanSound'
  BY <1>1, <1>2 DEF PlanSound
<1>5. Fused' /\ Ordered' /\ Fitted'
  BY <1>2 DEF Fused, Searched, Ordered, Fitted
<1>6. QED
  BY <1>3, <1>4, <1>5 DEF SearchIInv

(* Each planner puts the question first and its rewrite second.            *)
LEMMA PlanKeeps == SearchIInv /\ (PlanNoop \/ PlanRules \/ PlanLLM) => SearchIInv'
<1>1. ASSUME NEW rewrite \in Texts \cup {Blank}, NEW parts \in UpTo(MaxParts, Texts)
      PROVE  \E n \in Nat :
               /\ n >= 2
               /\ <<Question, rewrite>> \o parts \in [1 .. n -> Texts \cup {Blank}]
               /\ (<<Question, rewrite>> \o parts)[1] = Question
               /\ (<<Question, rewrite>> \o parts)[2] = rewrite
  <2>1. PICK m \in 0 .. MaxParts : parts \in [1 .. m -> Texts]
    BY DEF UpTo
  <2>2. m \in Nat
    BY TextAssumption
  <2> DEFINE S == Texts \cup {Blank}
             head == <<Question, rewrite>>
  <2>3. head \in Seq(S) /\ Len(head) = 2 /\ head[1] = Question /\ head[2] = rewrite
    BY TextAssumption
  <2>4. parts \in Seq(S) /\ Len(parts) = m /\ \A i \in 1 .. m : parts[i] \in S
    BY <2>1, <2>2
  <2> HIDE DEF head, S
  <2>5. /\ head \o parts \in Seq(S) /\ Len(head \o parts) = 2 + m
        /\ (head \o parts)[1] = head[1] /\ (head \o parts)[2] = head[2]
    <3>1. /\ head \o parts \in Seq(S) /\ Len(head \o parts) = 2 + m
          /\ \A i \in 1 .. 2 + m :
               (head \o parts)[i] = IF i <= 2 THEN head[i] ELSE parts[i - 2]
      <4>1. /\ head \o parts \in Seq(S)
            /\ Len(head \o parts) = Len(head) + Len(parts)
            /\ \A i \in 1 .. Len(head) + Len(parts) :
                 (head \o parts)[i] = IF i <= Len(head) THEN head[i] ELSE parts[i - Len(head)]
        BY <2>3, <2>4, ConcatProperties, Zenon
      <4>2. Len(head) = 2 /\ Len(parts) = m
        BY <2>3, <2>4
      <4>3. QED
        BY <4>1, <4>2, Zenon
    <3>2. 1 \in 1 .. 2 + m /\ 2 \in 1 .. 2 + m
      BY <2>2
    <3>3. QED
      BY <3>1, <3>2
  <2>6. head \o parts \in [1 .. 2 + m -> S] /\ 2 + m \in Nat /\ 2 + m >= 2
    <3> DEFINE t == head \o parts
    <3>1. t \in Seq(S) /\ Len(t) = 2 + m
      BY <2>5
    <3> HIDE DEF t
    <3>2. t \in [1 .. 2 + m -> S] /\ 2 + m \in Nat /\ 2 + m >= 2
      BY <2>2, <3>1
    <3>3. QED
      BY <3>2 DEF t
  <2>7. QED
    BY <2>3, <2>5, <2>6 DEF head, S
<1>2. ASSUME SearchIInv, PlanNoop PROVE SearchIInv'
  <2> DEFINE texts == <<Question>>
  <2>1. texts \in [1 .. 1 -> Texts \cup {Blank}] /\ texts[1] = Question
    BY TextAssumption
  <2>2. SetPlan(texts, Blank) /\ Blank \in Texts \cup {Blank}
    BY <1>2 DEF PlanNoop
  <2> HIDE DEF texts
  <2>3. QED
    <3> DEFINE rewrite == Blank
    <3>1. /\ rewrite # Blank => 1 >= 2 /\ texts[2] = rewrite
          /\ rewrite \in Texts \cup {Blank} /\ SetPlan(texts, rewrite)
          /\ 1 \in Nat /\ 1 >= 1
      BY <2>2
    <3> HIDE DEF rewrite
    <3>2. QED
      BY <1>2, <2>1, <3>1, SetPlanKeeps
<1>3. ASSUME SearchIInv, PlanRules PROVE SearchIInv'
  <2>1. PICK candidate \in Texts, parts \in UpTo(MaxParts, Texts) :
          SetPlan(<<Question, IF candidate = Question THEN Blank ELSE candidate>> \o parts,
                  IF candidate = Question THEN Blank ELSE candidate)
    BY <1>3 DEF PlanRules, LexiconRewrites, Decompositions
  <2> DEFINE rewrite == IF candidate = Question THEN Blank ELSE candidate
             texts == <<Question, rewrite>> \o parts
  <2>2. rewrite \in Texts \cup {Blank} /\ SetPlan(texts, rewrite)
    BY <2>1
  <2> HIDE DEF rewrite
  <2>3. \E n \in Nat : n >= 2 /\ texts \in [1 .. n -> Texts \cup {Blank}]
                       /\ texts[1] = Question /\ texts[2] = rewrite
    BY <1>1, <2>2
  <2> HIDE DEF texts
  <2>4. QED
    BY <1>3, <2>2, <2>3, SetPlanKeeps
<1>4. ASSUME SearchIInv, PlanLLM PROVE SearchIInv'
  <2>1. PICK rewrite \in Texts \cup {Blank}, parts \in UpTo(MaxParts, Texts) :
          SetPlan(<<Question, rewrite>> \o parts,
                  IF rewrite = Question THEN Blank ELSE rewrite)
    BY <1>4 DEF PlanLLM
  <2> DEFINE kind == IF rewrite = Question THEN Blank ELSE rewrite
             texts == <<Question, rewrite>> \o parts
  <2>2. /\ kind \in Texts \cup {Blank} /\ SetPlan(texts, kind)
        /\ kind # Blank => kind = rewrite
    BY <2>1
  <2> HIDE DEF kind
  <2>3. \E n \in Nat : n >= 2 /\ texts \in [1 .. n -> Texts \cup {Blank}]
                       /\ texts[1] = Question /\ texts[2] = rewrite
    BY <1>1
  <2> HIDE DEF texts
  <2>4. QED
    BY <1>4, <2>2, <2>3, SetPlanKeeps
<1>5. QED
  BY <1>2, <1>3, <1>4

(* The legs of a request: as many for every query, one or two.             *)
LEMMA LegsAre ==
  ASSUME queries \in UpTo(MaxQueries, Texts), queries # <<>>,
         NEW found \in [DOMAIN queries -> LegSearches]
  PROVE  \E n \in 1 .. MaxQueries, k \in 1 .. 2 :
           DOMAIN queries = 1 .. n /\ found \in [1 .. n -> [1 .. k -> Rankings]]
<1>1. PICK n \in 0 .. MaxQueries : queries \in [1 .. n -> Texts]
  BY DEF UpTo
<1>2. n # 0
  <2>1. SUFFICES ASSUME n = 0 PROVE FALSE
    OBVIOUS
  <2>2. queries \in Seq(Texts) /\ Len(queries) = 0
    BY <1>1, <2>1
  <2>3. QED
    BY <2>2
<1>3. n \in 1 .. MaxQueries /\ DOMAIN queries = 1 .. n
  BY <1>1, <1>2, SettingsAssumption
<1>4. PICK k \in 1 .. 2 : LegSearches = [1 .. k -> Rankings]
  BY DEF LegSearches, Legs
<1>5. QED
  BY <1>3, <1>4

(* Whatever the legs return, both fusions make a ranking of it.            *)
LEMMA RetrieveKeeps == SearchIInv /\ Retrieve => SearchIInv'
<1> SUFFICES ASSUME SearchIInv, Retrieve PROVE SearchIInv'
  OBVIOUS
<1>1. /\ stage = "retrieve" /\ stage' = "rerank" /\ legs' \in [DOMAIN queries -> LegSearches]
      /\ ranked' = FuseQueries([q \in DOMAIN queries |-> SearchResult(legs'[q])])
      /\ UNCHANGED <<config, queries, rewritten, scores, hits, kept>>
  BY DEF Retrieve
<1>2. SearchTypeOK /\ PlanSound'
  BY <1>1 DEF SearchIInv, PlanSound, Planned
<1>3. queries \in UpTo(MaxQueries, Texts) /\ queries # <<>>
  BY <1>1 DEF SearchIInv, SearchTypeOK, PlanSound, Planned
<1>4. PICK n \in 1 .. MaxQueries, k \in 1 .. 2 :
        DOMAIN queries = 1 .. n /\ legs' \in [1 .. n -> [1 .. k -> Rankings]]
  BY <1>1, <1>3, LegsAre
<1>5. n \in 0 .. MaxQueries
  BY SettingsAssumption
<1>6. ranked' \in UpTo(Limit, Chunks)
  <2>1. ranked' = FuseQueries([q \in 1 .. n |-> SearchResult(legs'[q])])
    BY <1>1, <1>4
  <2>2. IsRanking(ranked')
    BY <1>4, <2>1, TwiceFused
  <2>3. QED
    BY <2>2, RankingIs DEF UpTo
<1>7. legs' \in UNION {[1 .. m -> UNION {[1 .. l -> Rankings] : l \in 1 .. 2}] :
                         m \in 0 .. MaxQueries}
  <2> DEFINE S == UNION {[1 .. l -> Rankings] : l \in 1 .. 2}
  <2>1. [1 .. k -> Rankings] \subseteq S
    OBVIOUS
  <2> HIDE DEF S
  <2>2. legs' \in [1 .. n -> S]
    BY <1>4, <2>1
  <2>3. QED
    BY <1>5, <2>2 DEF S
<1>8. SearchTypeOK'
  BY <1>1, <1>2, <1>6, <1>7 DEF SearchTypeOK, Stages
<1>9. Fused'
  BY <1>1 DEF Fused, LegSearches, Legs
<1>10. Ordered' /\ Fitted'
  BY <1>1 DEF Ordered, Fitted
<1>11. QED
  BY <1>2, <1>8, <1>9, <1>10 DEF SearchIInv

(* What fusion left is a ranking.                                          *)
LEMMA FusedRanks ==
  ASSUME SearchTypeOK, PlanSound, Fused, Searched
  PROVE  \E n \in 1 .. MaxQueries, k \in 1 .. 2 :
           /\ legs \in [1 .. n -> [1 .. k -> Rankings]]
           /\ IsRanking(ranked)
           /\ \A c, d : c # d /\ (\A q \in 1 .. n, i \in 1 .. k :
                                    PlaceIn(legs[q][i], c) <= PlaceIn(legs[q][i], d))
                => PlaceIn(ranked, c) <= PlaceIn(ranked, d)
           /\ \A c : (\A q \in 1 .. n, i \in 1 .. k : c \in Range(legs[q][i]))
                => c \in Range(ranked)
<1>1. queries \in UpTo(MaxQueries, Texts) /\ queries # <<>>
  BY DEF SearchTypeOK, PlanSound, Searched, Planned
<1>2. legs \in [DOMAIN queries -> LegSearches]
      /\ ranked = FuseQueries([q \in DOMAIN queries |-> SearchResult(legs[q])])
  BY DEF Fused
<1>3. PICK n \in 1 .. MaxQueries, k \in 1 .. 2 :
        DOMAIN queries = 1 .. n /\ legs \in [1 .. n -> [1 .. k -> Rankings]]
  BY <1>1, <1>2, LegsAre
<1>4. ranked = FuseQueries([q \in 1 .. n |-> SearchResult(legs[q])])
  BY <1>2, <1>3
<1>5. /\ IsRanking(ranked)
      /\ \A c, d : c # d /\ (\A q \in 1 .. n, i \in 1 .. k :
                               PlaceIn(legs[q][i], c) <= PlaceIn(legs[q][i], d))
           => PlaceIn(ranked, c) <= PlaceIn(ranked, d)
      /\ \A c : (\A q \in 1 .. n, i \in 1 .. k : c \in Range(legs[q][i]))
           => c \in Range(ranked)
  BY <1>3, <1>4, TwiceFused
<1>6. QED
  BY <1>3, <1>5, Zenon

(* What the head of a sequence of chunks is made of.                       *)
LEMMA HeadTyped ==
  ASSUME NEW m \in Nat, NEW s \in [1 .. m -> Chunks], NEW n \in Nat
  PROVE  First(s, n) \in UpTo(n, Chunks)
<1>1. s \in Seq(Chunks) /\ Len(s) = m
  OBVIOUS
<1>2. First(s, n) \in [1 .. Least(n, m) -> Chunks] /\ Least(n, m) \in 0 .. m /\ Least(n, m) <= n
  BY <1>1, FirstIs
<1>3. Least(n, m) \in 0 .. n
  BY <1>2
<1>4. QED
  BY <1>2, <1>3 DEF UpTo

(* The reranked head is that of the ranking sorted by score.               *)
LEMMA RerankKeeps == SearchIInv /\ Rerank => SearchIInv'
<1> SUFFICES ASSUME SearchIInv, Rerank PROVE SearchIInv'
  OBVIOUS
<1>1. /\ stage = "rerank" /\ Reranks /\ stage' = "gate"
      /\ scores' \in [Range(ranked) -> Scores]
      /\ hits' = First(ByScore(ranked, scores'), TopK)
      /\ UNCHANGED <<config, queries, rewritten, legs, ranked, kept>>
  BY DEF Rerank
<1>2. SearchTypeOK /\ PlanSound /\ Fused
  BY DEF SearchIInv
<1>3. IsRanking(ranked)
  BY <1>1, <1>2, FusedRanks DEF Searched
<1>4. /\ Range(ranked) \subseteq Chunks /\ Len(ranked) \in Nat
      /\ TopK \in Nat
  BY <1>3, RankingIs, SettingsAssumption
<1>5. \A c \in Range(ranked) : scores'[c] \in Nat
  BY <1>1, SettingsAssumption
<1>6. ByScore(ranked, scores') \in [1 .. Len(ranked) -> Chunks]
  BY <1>3, <1>5, ByScoreIs
<1>7. hits' \in UpTo(TopK, Chunks)
  BY <1>1, <1>4, <1>6, HeadTyped
<1>8. SearchTypeOK'
  BY <1>1, <1>2, <1>4, <1>7 DEF SearchTypeOK, Stages
<1>9. PlanSound' /\ Fused'
  BY <1>1, <1>2 DEF PlanSound, Planned, Fused, Searched, LegSearches, Legs
<1>10. Ordered' /\ Fitted'
  BY <1>1 DEF Ordered, Order, Fitted, Reranks
<1>11. QED
  BY <1>8, <1>9, <1>10 DEF SearchIInv

(* Without a reranker it is that of the ranking itself.                    *)
LEMMA KeepFusedOrderKeeps == SearchIInv /\ KeepFusedOrder => SearchIInv'
<1> SUFFICES ASSUME SearchIInv, KeepFusedOrder PROVE SearchIInv'
  OBVIOUS
<1>1. /\ stage = "rerank" /\ ~Reranks /\ stage' = "gate"
      /\ hits' = First(ranked, TopK)
      /\ UNCHANGED <<config, queries, rewritten, legs, ranked, scores, kept>>
  BY DEF KeepFusedOrder
<1>2. SearchTypeOK /\ PlanSound /\ Fused
  BY DEF SearchIInv
<1>3. IsRanking(ranked)
  BY <1>1, <1>2, FusedRanks DEF Searched
<1>4. Len(ranked) \in Nat /\ ranked \in [1 .. Len(ranked) -> Chunks] /\ TopK \in Nat
  BY <1>3, RankingIs, SettingsAssumption
<1>5. hits' \in UpTo(TopK, Chunks)
  BY <1>1, <1>4, HeadTyped
<1>6. SearchTypeOK'
  BY <1>1, <1>2, <1>5 DEF SearchTypeOK, Stages
<1>7. PlanSound' /\ Fused'
  BY <1>1, <1>2 DEF PlanSound, Planned, Fused, Searched, LegSearches, Legs
<1>8. Ordered' /\ Fitted'
  BY <1>1 DEF Ordered, Order, Fitted, Reranks
<1>9. QED
  BY <1>6, <1>7, <1>8 DEF SearchIInv

(* The passages of the prompt are the fitting head of the hits.            *)
LEMMA BuildPromptKeeps == SearchIInv /\ BuildPrompt => SearchIInv'
<1> SUFFICES ASSUME SearchIInv, BuildPrompt PROVE SearchIInv'
  OBVIOUS
<1>1. /\ stage = "gate" /\ stage' = "answer" /\ kept' = FitContext(hits)
      /\ UNCHANGED <<config, queries, rewritten, legs, ranked, scores, hits>>
  BY DEF BuildPrompt
<1>2. SearchTypeOK /\ PlanSound /\ Fused /\ Ordered
  BY DEF SearchIInv
<1>3. PICK m \in 0 .. TopK : hits \in [1 .. m -> Chunks]
  BY <1>2 DEF SearchTypeOK, UpTo
<1>4. m \in Nat /\ TopK \in Nat /\ hits \in Seq(Chunks) /\ Len(hits) = m
  BY <1>3, SettingsAssumption
<1>5. PICK n \in 0 .. m : FitContext(hits) = First(hits, n)
  BY <1>3, <1>4, FitContextIs
<1>6. kept' \in UpTo(TopK, Chunks)
  <2>1. n \in Nat /\ n \in 0 .. TopK
    BY <1>3, <1>4
  <2>2. PICK l \in 0 .. n : First(hits, n) \in [1 .. l -> Chunks]
    <3>1. First(hits, n) \in UpTo(n, Chunks)
      BY <1>3, <1>4, <2>1, HeadTyped
    <3>2. QED
      BY <3>1 DEF UpTo
  <2>3. l \in 0 .. TopK
    BY <1>4, <2>1
  <2>4. QED
    BY <1>1, <1>5, <2>2, <2>3 DEF UpTo
<1>7. SearchTypeOK'
  BY <1>1, <1>2, <1>6 DEF SearchTypeOK, Stages
<1>8. PlanSound' /\ Fused'
  BY <1>1, <1>2 DEF PlanSound, Planned, Fused, Searched, LegSearches, Legs
<1>9. Ordered' /\ Fitted'
  BY <1>1, <1>2 DEF Ordered, Order, Fitted, Reranks
<1>10. QED
  BY <1>7, <1>8, <1>9 DEF SearchIInv

(* No step breaks the invariant.                                           *)
LEMMA SearchStepKeeps == SearchIInv /\ [SearchNext]_searchVars => SearchIInv'
<1> SUFFICES ASSUME SearchIInv, [SearchNext]_searchVars PROVE SearchIInv'
  OBVIOUS
<1>1. CASE PlanNoop \/ PlanRules \/ PlanLLM
  BY <1>1, PlanKeeps
<1>2. CASE Retrieve
  BY <1>2, RetrieveKeeps
<1>3. CASE Rerank
  BY <1>3, RerankKeeps
<1>4. CASE KeepFusedOrder
  BY <1>4, KeepFusedOrderKeeps
<1>5. CASE BuildPrompt
  BY <1>5, BuildPromptKeeps
<1>6. CASE Refuse \/ Fails
  <2>1. /\ (stage = "gate" /\ stage' = "refused") \/ stage' = "failed"
        /\ UNCHANGED <<config, queries, rewritten, legs, ranked, scores, hits, kept>>
    BY <1>6 DEF Refuse, Fails
  <2>2. SearchTypeOK'
    BY <2>1 DEF SearchIInv, SearchTypeOK, Stages
  <2>3. PlanSound' /\ Fused'
    BY <2>1 DEF SearchIInv, PlanSound, Planned, Fused, Searched, LegSearches, Legs
  <2>4. Ordered' /\ Fitted'
    BY <2>1 DEF SearchIInv, Ordered, Order, Fitted, Reranks
  <2>5. QED
    BY <2>2, <2>3, <2>4 DEF SearchIInv
<1>7. CASE UNCHANGED searchVars
  BY <1>7 DEF searchVars, SearchIInv, SearchTypeOK, PlanSound, Planned, Fused, Searched,
              LegSearches, Legs, Ordered, Order, Fitted, Reranks
<1>8. QED
  BY <1>1, <1>2, <1>3, <1>4, <1>5, <1>6, <1>7 DEF SearchNext, SearchFinished

(* Every state a question can be in satisfies the inductive invariant.     *)
THEOREM SearchInvariant == SearchSpec => []SearchIInv
  BY SearchInitEstablishes, SearchStepKeeps, PTL DEF SearchSpec

(* Every variable of Retrieval stays in its type.                          *)
THEOREM SearchTypeCorrect == SearchSpec => []SearchTypeOK
<1>1. SearchIInv => SearchTypeOK
  BY DEF SearchIInv
<1>2. QED
  BY <1>1, SearchInvariant, PTL

(* The user's own words are searched and come first, the rewrite is        *)
(* searched, no query is searched twice.                                   *)
THEOREM PlanIsSound == SearchSpec => []PlanSound
<1>1. SearchIInv => PlanSound
  BY DEF SearchIInv
<1>2. QED
  BY <1>1, SearchInvariant, PTL

(* Every leg of every query is one of the results.                         *)
LEMMA ResultsAre ==
  ASSUME NEW n, NEW k, legs \in [1 .. n -> [1 .. k -> Rankings]]
  PROVE  \A q \in 1 .. n, i \in 1 .. k : legs[q][i] \in LegResults
<1>1. SUFFICES ASSUME NEW q \in 1 .. n, NEW i \in 1 .. k PROVE legs[q][i] \in LegResults
  OBVIOUS
<1>2. legs[q] \in [1 .. k -> Rankings] /\ DOMAIN legs = 1 .. n
  OBVIOUS
<1>3. legs[q][i] \in Range(legs[q])
  BY <1>2 DEF Range
<1>4. QED
  BY <1>2, <1>3 DEF LegResults

(* The order all legs agree on holds in what both fusions made of them.    *)
LEMMA FusedNeverInverts == SearchIInv => NeverInverts
<1> SUFFICES ASSUME SearchIInv, Searched PROVE NeverInverts
  BY DEF NeverInverts
<1>1. PICK n \in 1 .. MaxQueries, k \in 1 .. 2 :
        /\ legs \in [1 .. n -> [1 .. k -> Rankings]]
        /\ IsRanking(ranked)
        /\ \A c, d : c # d /\ (\A q \in 1 .. n, i \in 1 .. k :
                                 PlaceIn(legs[q][i], c) <= PlaceIn(legs[q][i], d))
             => PlaceIn(ranked, c) <= PlaceIn(ranked, d)
  BY FusedRanks DEF SearchIInv
<1>2. \A q \in 1 .. n, i \in 1 .. k : legs[q][i] \in LegResults
  BY <1>1, ResultsAre
<1>3. ASSUME NEW c, NEW d \in Range(ranked), c # d,
             \A l \in LegResults : PlaceIn(l, c) <= PlaceIn(l, d)
      PROVE  c \in Range(ranked) /\ Position(ranked, c) < Position(ranked, d)
  <2>1. PlaceIn(ranked, c) <= PlaceIn(ranked, d)
    BY <1>1, <1>2, <1>3
  <2>2. /\ Limit \in Nat /\ PlaceIn(ranked, d) \in 1 .. Limit
        /\ PlaceIn(ranked, d) = Position(ranked, d)
        /\ c \notin Range(ranked) => PlaceIn(ranked, c) = Limit + 1
        /\ c \in Range(ranked) =>
             PlaceIn(ranked, c) = Position(ranked, c) /\ PlaceIn(ranked, c) \in 1 .. Limit
    BY <1>1, <1>3, PlaceIs
  <2>3. c \in Range(ranked)
    BY <2>1, <2>2
  <2>4. Position(ranked, c) # Position(ranked, d)
    <3>1. ranked[Position(ranked, c)] = c /\ ranked[Position(ranked, d)] = d
      BY <1>1, <1>3, <2>3, RankingIs
    <3>2. QED
      BY <1>3, <3>1
  <2>5. QED
    BY <2>1, <2>2, <2>3, <2>4
<1>4. QED
  BY <1>3 DEF NeverInverts

(* A unanimous order of two chunks is never turned round by fusing twice,  *)
(* cutting twice and breaking ties.                                        *)
THEOREM FusionKeepsOrder == SearchSpec => []NeverInverts
  BY FusedNeverInverts, SearchInvariant, PTL

(* So does the presence all legs agree on.                                 *)
LEMMA FusedKeepsAgreed == SearchIInv => AgreementSurvives
<1> SUFFICES ASSUME SearchIInv, Searched PROVE AgreementSurvives
  BY DEF AgreementSurvives
<1>1. PICK n \in 1 .. MaxQueries, k \in 1 .. 2 :
        /\ legs \in [1 .. n -> [1 .. k -> Rankings]]
        /\ \A c : (\A q \in 1 .. n, i \in 1 .. k : c \in Range(legs[q][i]))
             => c \in Range(ranked)
  BY FusedRanks DEF SearchIInv
<1>2. \A q \in 1 .. n, i \in 1 .. k : legs[q][i] \in LegResults
  BY <1>1, ResultsAre
<1>3. ASSUME NEW c, \A l \in LegResults : c \in Range(l) PROVE c \in Range(ranked)
  BY <1>1, <1>2, <1>3
<1>4. QED
  BY <1>3 DEF AgreementSurvives

(* A chunk every leg of every query found survives both cuts, for every    *)
(* damping, limit and number of queries that DampedAssumption relates.     *)
THEOREM FusionKeepsAgreement == SearchSpec => []AgreementSurvives
  BY FusedKeepsAgreed, SearchInvariant, PTL

(* The reranked or the fused order: the ranking rearranged.                *)
LEMMA OrderIs ==
  ASSUME SearchIInv, stage = "answer"
  PROVE  /\ Len(ranked) \in Nat /\ ranked \in [1 .. Len(ranked) -> Chunks]
         /\ Order \in [1 .. Len(ranked) -> Chunks] /\ Range(Order) = Range(ranked)
         /\ \A i, j \in 1 .. Len(ranked) : i < j =>
              IF Reranks
              THEN \/ scores[Order[i]] > scores[Order[j]]
                   \/ /\ scores[Order[i]] = scores[Order[j]]
                      /\ Position(ranked, Order[i]) < Position(ranked, Order[j])
              ELSE Position(ranked, Order[i]) < Position(ranked, Order[j])
<1>1. IsRanking(ranked)
  BY FusedRanks DEF SearchIInv, Searched
<1>2. /\ Len(ranked) \in Nat /\ ranked \in [1 .. Len(ranked) -> Chunks]
      /\ \A i \in 1 .. Len(ranked) : Position(ranked, ranked[i]) = i
  BY <1>1, RankingIs
<1>3. CASE Reranks
  <2>1. Order = ByScore(ranked, scores)
    BY <1>3 DEF Order
  <2>2. DOMAIN scores = Range(ranked) /\ \A c \in DOMAIN scores : scores[c] \in Scores
    BY <1>3 DEF SearchIInv, Ordered, SearchTypeOK
  <2>3. \A c \in Range(ranked) : scores[c] \in Nat
    BY <2>2, SettingsAssumption
  <2>4. /\ Order \in [1 .. Len(ranked) -> Chunks] /\ Range(Order) = Range(ranked)
        /\ \A i, j \in 1 .. Len(ranked) : i < j =>
              \/ scores[Order[i]] > scores[Order[j]]
              \/ /\ scores[Order[i]] = scores[Order[j]]
                 /\ Position(ranked, Order[i]) < Position(ranked, Order[j])
    BY <1>1, <2>1, <2>3, ByScoreIs
  <2>5. QED
    BY <1>2, <1>3, <2>4
<1>4. CASE ~Reranks
  <2>1. Order = ranked
    BY <1>4 DEF Order
  <2>2. QED
    BY <1>2, <1>4, <2>1
<1>5. QED
  BY <1>3, <1>4

(* A head of a head of a sorted ranking has its best.                      *)
LEMMA PromptIsBest == SearchIInv => ContextIsBest
<1> SUFFICES ASSUME SearchIInv, stage = "answer" PROVE ContextIsBest
  BY DEF ContextIsBest
<1> DEFINE m == Len(ranked)
           s == Order
           h == Least(TopK, m)
<1>1. /\ m \in Nat /\ ranked \in [1 .. m -> Chunks]
      /\ s \in [1 .. m -> Chunks] /\ Range(s) = Range(ranked)
      /\ \A i, j \in 1 .. m : i < j =>
           IF Reranks
           THEN \/ scores[s[i]] > scores[s[j]]
                \/ /\ scores[s[i]] = scores[s[j]]
                   /\ Position(ranked, s[i]) < Position(ranked, s[j])
           ELSE Position(ranked, s[i]) < Position(ranked, s[j])
  BY OrderIs
<1>2. hits = First(s, TopK) /\ kept = FitContext(hits) /\ TopK \in Nat
  BY SettingsAssumption DEF SearchIInv, Ordered, Fitted
<1> HIDE DEF m, s
<1>3. /\ hits \in [1 .. h -> Chunks] /\ h \in 0 .. m
      /\ \A i \in 1 .. h : hits[i] = s[i]
  <2>1. s \in Seq(Chunks) /\ Len(s) = m
    BY <1>1
  <2>2. QED
    BY <1>2, <2>1, FirstIs
<1>4. Len(First(ranked, TopK)) = h
  <2>1. ranked \in Seq(Chunks) /\ Len(ranked) = m
    BY <1>1
  <2>2. QED
    BY <1>2, <2>1, FirstIs
<1> HIDE DEF h
<1>5. h \in Nat
  BY <1>1, <1>3
<1>6. PICK n \in 0 .. h : /\ kept = First(hits, n)
                          /\ Tokens(First(hits, n)) <= Budget
                          /\ n < h => Tokens(First(hits, n + 1)) > Budget
  BY <1>2, <1>3, <1>5, FitContextIs
<1>7. kept \in [1 .. n -> Chunks] /\ Len(kept) = n /\ \A i \in 1 .. n : kept[i] = hits[i]
  <2>1. hits \in Seq(Chunks) /\ Len(hits) = h /\ n \in Nat /\ Least(n, h) = n
    BY <1>3, <1>5 DEF Least
  <2>2. QED
    BY <1>6, <2>1, FirstIs
<1>8. \A i \in 1 .. n : i \in 1 .. m /\ kept[i] = s[i]
  <2>1. SUFFICES ASSUME NEW i \in 1 .. n PROVE i \in 1 .. m /\ kept[i] = s[i]
    OBVIOUS
  <2>2. i \in 1 .. h /\ i \in 1 .. m
    BY <1>1, <1>3, <1>5
  <2>3. QED
    BY <1>3, <1>7, <2>2
<1>9. Tokens(kept) <= Budget
  BY <1>6
<1>10. \/ Len(kept) = Len(First(ranked, TopK))
       \/ Tokens(First(hits, Len(kept) + 1)) > Budget
  BY <1>4, <1>5, <1>6, <1>7
<1>11. ASSUME NEW c \in Range(kept), NEW d \in Range(ranked) \ Range(kept)
       PROVE  IF Reranks
              THEN scores[c] > scores[d]
                   \/ (scores[c] = scores[d] /\ Position(ranked, c) < Position(ranked, d))
              ELSE Position(ranked, c) < Position(ranked, d)
  <2>1. PICK i \in 1 .. n : kept[i] = c
    BY <1>7 DEF Range
  <2>2. PICK j \in 1 .. m : s[j] = d
    BY <1>1 DEF Range
  <2>3. ~(j <= n)
    <3>1. SUFFICES ASSUME j <= n PROVE FALSE
      OBVIOUS
    <3>2. j \in 1 .. n
      BY <1>1, <1>5, <3>1
    <3>3. d \in Range(kept)
      BY <1>7, <1>8, <2>2, <3>2 DEF Range
    <3>4. QED
      BY <3>3
  <2>4. i \in 1 .. m /\ s[i] = c /\ i < j
    BY <1>1, <1>5, <1>8, <2>1, <2>3
  <2>5. QED
    BY <1>1, <2>2, <2>4
<1>12. QED
  BY <1>9, <1>10, <1>11 DEF ContextIsBest

(* The prompt holds the best of what was fused, as much of it as fits, for *)
(* every ranking, score, cost and budget.                                  *)
THEOREM BestContext == SearchSpec => []ContextIsBest
  BY PromptIsBest, SearchInvariant, PTL

===============================================================================
