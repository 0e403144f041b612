------------------------------ MODULE MCRetrieval ------------------------------
(***************************************************************************)
(* Instance of Retrieval for TLC: four chunks, three of which a search     *)
(* returns and two of which reach the prompt.  A leg returns one of six    *)
(* rankings: none, short, full, and opposite orders of the same chunks.    *)
(***************************************************************************)
EXTENDS Retrieval, TLC

CONSTANTS q, r, s, none

MCRankings == {<<>>, <<2, 1>>, <<1, 2, 3>>, <<3, 2, 1>>, <<4, 3, 2>>, <<3, 4, 1>>}
MCCost == <<1, 4, 3, 1>>
Rewrites == Permutations({r, s})
================================================================================
