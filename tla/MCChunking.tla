----------------------------- MODULE MCChunking -----------------------------
(* A small instance of Chunking for TLC: every text of up to five          *)
(* characters with two article numbers, of six with one, and every text of *)
(* letters and blanks of up to ten, long enough for windows that overlap   *)
(* several times over.                                                     *)
EXTENDS Chunking

CONSTANTS article1, article2

TwoArticles == {article1, article2}
ShortTexts == UNION {[1 .. n -> Characters] : n \in 0 .. 5}
                \union [1 .. 6 -> Characters \ {article2}]
PlainTexts == UNION {[1 .. n -> {Letter, Blank}] : n \in 7 .. 10}
AllTexts == ShortTexts \union PlainTexts
TightBudgets == {<<2, 0>>, <<3, 1>>, <<4, 9>>, <<5, 2>>}

=============================================================================
