----------------------------- MODULE MCConnPool -----------------------------
(* A small instance of ConnPool for TLC.                                   *)
EXTENDS ConnPool

CONSTANTS c1, c2

TwoClients == {c1, c2}
AllWork == {"hybrid", "dense", "lexical", "probe"}

=============================================================================
