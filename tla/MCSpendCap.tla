----------------------------- MODULE MCSpendCap -----------------------------
(* Small instances of SpendCap for TLC.                                    *)
EXTENDS SpendCap, TLC

CONSTANTS c1, c2, c3, c4

MCCalls == {c1, c2, c3, c4}
MCEstimates == {1, 2}
MCCosts == {1, 2, 3}
CallSymmetry == Permutations(MCCalls)

=============================================================================
