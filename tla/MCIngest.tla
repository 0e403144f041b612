------------------------------ MODULE MCIngest ------------------------------
(* Small instances of Ingest for TLC.                                      *)
EXTENDS Ingest, TLC

CONSTANTS w1, w2, v1, v2

MCWorkers == {w1, w2}
MCVersions == {v1, v2}
MCChunks == (v1 :> {1, 2}) @@ (v2 :> {1})
MCMalformed == {v2}
WorkerSymmetry == Permutations(MCWorkers)

=============================================================================
