----------------------------- MODULE Generation -----------------------------
(***************************************************************************)
(* What one generation promises its caller, however many vendors stand     *)
(* behind it: the words come from one vendor, once started they are never  *)
(* restarted, and the usage is reported exactly when the generation ran to *)
(* its end, in the name of the vendor that spoke.                          *)
(***************************************************************************)
CONSTANTS Vendors, Nobody

VARIABLES
  stage,                        \* "open", "flowing", "ok", "failed", "left"
  speaker,                      \* the vendor whose words the caller received
  biller                        \* the vendor whose usage was reported

vars == <<stage, speaker, biller>>

Init == stage = "open" /\ speaker = Nobody /\ biller = Nobody

FirstWord(v) ==
  /\ stage = "open"
  /\ stage' = "flowing"
  /\ speaker' = v
  /\ UNCHANGED biller

(* The generation ends, possibly without a word.                           *)
End(v) ==
  /\ stage = "open" \/ (stage = "flowing" /\ speaker = v)
  /\ stage' = "ok"
  /\ biller' = v
  /\ speaker' \in {speaker, v}

Break ==
  /\ stage \in {"open", "flowing"}
  /\ stage' \in {"failed", "left"}
  /\ UNCHANGED <<speaker, biller>>

Next == Break \/ \E v \in Vendors : FirstWord(v) \/ End(v)

Spec == Init /\ [][Next]_vars

=============================================================================
