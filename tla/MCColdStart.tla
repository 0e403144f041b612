----------------------------- MODULE MCColdStart -----------------------------
(* A small instance of ColdStart for TLC: two questions, and a question    *)
(* beside documents and /stats.                                            *)
EXTENDS ColdStart, TLC

CONSTANTS c1, c2, c3

ThreeCalls == {c1, c2, c3}

Mix(k1, k2, k3) == c1 :> k1 @@ c2 :> k2 @@ c3 :> k3
FirstCalls == {Mix("ask", "ask", "health"), Mix("ask", "ingest", "stats"),
               Mix("ask", "ingest", "ingest")}

=============================================================================
