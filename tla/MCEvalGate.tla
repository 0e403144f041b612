----------------------------- MODULE MCEvalGate -----------------------------
(* A small instance of EvalGate for TLC: two documents with an answerable  *)
(* pair each, and an unanswerable pair.  The aggregate tolerates the loss  *)
(* of a document, the per-document check tolerates half of one.            *)
EXTENDS EvalGate, TLC

CONSTANTS r1, r2, p1, p2, p3, docA, docB, g1, g2, g3, x

TwoRuns == {r1, r2}
TwoKeys == {"lexical", "openai:dense"}
OneApi == {"openai:dense"}
ThreePairs == {p1, p2, p3}
TwoDocs == p1 :> docA @@ p2 :> docB @@ p3 :> docB
GoldChunks == p1 :> {g1, g2} @@ p2 :> {g3} @@ p3 :> {}

Healthy == p1 :> <<g1, g2, x>> @@ p2 :> <<x, g3>> @@ p3 :> <<x>>
HalfLost == [Healthy EXCEPT ![p1] = <<x, g1, g2>>]
SmallLost == [Healthy EXCEPT ![p2] = <<x>>]
ByVector(found) == [q \in ThreePairs \X ThreePairs |-> found[q[2]]]
ThreeCorpora == {ByVector(found) : found \in {Healthy, HalfLost, SmallLost}}

(* Any other run beside one that records its lexical numbers.              *)
Recording == [mode |-> "update", key |-> "lexical"]
Others == [mode : {"gate", "update"}, key : TwoKeys] \ {Recording}
TwoJobs == {r1 :> j @@ r2 :> Recording : j \in Others}

NoneOrAll == {{}, TwoKeys}

TwoDatasets == {<<p1, p2, p3>>, <<p1, p3>>}

=============================================================================
