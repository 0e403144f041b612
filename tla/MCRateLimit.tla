---------------------------- MODULE MCRateLimit -----------------------------
(* A small instance of RateLimit for TLC.                                  *)
EXTENDS RateLimit, TLC

CONSTANTS a1, a2, t1, t2

MCAddresses == {a1, a2}
MCThreads == {t1, t2}
RateSymmetry == Permutations(MCAddresses) \union Permutations(MCThreads)

=============================================================================
