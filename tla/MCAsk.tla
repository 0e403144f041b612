------------------------------- MODULE MCAsk --------------------------------
(* Small instances of AskService for TLC.                                  *)
EXTENDS AskService, TLC

CONSTANTS r1, r2, r3, k1, k2

TwoRequests == {r1, r2}
ThreeRequests == {r1, r2, r3}
OneKey == {k1}
TwoKeys == {k1, k2}
AskSymmetry == Permutations(ThreeRequests)
MCEstimates == {2}
MCCosts == {0, 1, 3}

=============================================================================
