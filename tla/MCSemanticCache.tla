--------------------------- MODULE MCSemanticCache ---------------------------
(* A small instance of SemanticCache for TLC: a question, a paraphrase of  *)
(* it, and its negation, which is as close to it as the paraphrase.        *)
EXTENDS SemanticCache, TLC

CONSTANTS r1, r2, r3

ThreeRequests == {r1, r2, r3}
Interchangeable == Permutations(ThreeRequests)

MCQuestions == {"asked", "paraphrased", "negated"}
MCGuard == [q \in MCQuestions |-> IF q = "negated" THEN "not" ELSE ""]
MCDistance == [p \in MCQuestions |-> [q \in MCQuestions |->
  IF p = q THEN 0 ELSE IF "asked" \in {p, q} THEN 1 ELSE 2]]

(* The shipped settings, another model at either vendor, and an embedding  *)
(* model whose vectors do not fit the table.                               *)
Shipped == [cache |-> TRUE, embedder |-> "bge", depths |-> 20,
            chain |-> <<"anthropic", "openai">>, model |-> <<"a1", "o1">>]
MCRevisions == {Shipped,
                [Shipped EXCEPT !.model = <<"a2", "o1">>],
                [Shipped EXCEPT !.model = <<"a1", "o2">>],
                [Shipped EXCEPT !.embedder = "openai", !.cache = FALSE]}

=============================================================================
