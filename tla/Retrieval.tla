------------------------------- MODULE Retrieval -------------------------------
(***************************************************************************)
(* What one question goes through between its text and the passages the    *)
(* model reads: the planner's queries (app/planning/planner.py), the       *)
(* rankings of the two legs and their reciprocal rank fusion               *)
(* (app/retrieval/search.py), fused again over the queries, the reranker   *)
(* (app/retrieval/rerank.py), the refusal gate and the token budget        *)
(* (app/generation/budget.py), in the order of _prepare (app/service.py).  *)
(*                                                                         *)
(* What a leg finds and what a passage scores are chosen freely.  Chunk    *)
(* ids are naturals, their order standing for that of the id strings.      *)
(* Texts are equal when they are after strip().  Fusion adds the fractions *)
(* 1 / (k + rank) exactly: they are scaled to naturals.                    *)
(***************************************************************************)
EXTENDS Integers, FiniteSets, Sequences, Functions

CONSTANTS
    Chunks,         \* the ids of the corpus
    Rankings,       \* the results one leg may return
    RrfK,           \* RRF_K
    Limit,          \* settings.top_k_retrieve
    TopK,           \* settings.top_k_context
    Scale,          \* common denominator of the fractions 1 / (k + rank)
    Cost,           \* the tokens of each chunk, rendered
    Budget,         \* settings.max_context_tokens less the reserve
    MaxQueries,     \* MAX_SEARCH_QUERIES
    Scores,         \* the reranker's scale
    MinScore,       \* settings.rerank_min_score
    RerankEnabled,  \* settings.rerank_enabled
    Texts,          \* non-blank texts of questions and queries
    Question,       \* the user's own, already stripped
    Blank,          \* a text that strips to nothing; None for a rewrite
    MaxParts        \* sub-queries of a decomposition (bound of the model)

ASSUME CorpusAssumption ==
    /\ Chunks \subseteq Nat /\ IsFiniteSet(Chunks)
    /\ \A r \in Rankings : /\ r \in Seq(Chunks) /\ Len(r) <= Limit
                           /\ \A i, j \in DOMAIN r : r[i] = r[j] => i = j
ASSUME SettingsAssumption ==
    /\ RrfK \in Nat \ {0} /\ Limit \in Nat \ {0} /\ TopK \in Nat \ {0}
    /\ MaxQueries \in Nat /\ MaxQueries >= 2
    /\ Scale \in Nat \ {0} /\ \A rank \in 1..Limit : Scale % (RrfK + rank) = 0
    /\ Budget \in Nat /\ Cost \in [Chunks -> Nat]
    /\ Scores \subseteq Nat /\ MinScore \in Nat /\ RerankEnabled \in BOOLEAN
ASSUME TextAssumption == Question \in Texts /\ Blank \notin Texts /\ MaxParts \in Nat

\* A chunk found by all of n rankings beats every chunk that one of them
\* missed: n / (k + limit) > (n - 1) / (k + 1).  With the shipped 60, 20 and 4
\* that is 244 > 240; it no longer holds with a limit of 22.
ASSUME DampedAssumption ==
    \A n \in 2..MaxQueries : n * (RrfK + 1) > (n - 1) * (RrfK + Limit)

Configs == {"dense", "lexical", "hybrid", "hybrid+rerank"}

VARIABLES
    stage,      \* where _prepare is
    config,     \* the retrieval config of the request
    queries,    \* plan.search_queries
    rewritten,  \* plan.rewritten
    legs,       \* per query, what its legs returned (history: the code keeps the fusion)
    ranked,     \* the fused hits
    scores,     \* the reranker's score of each of them, if it ran
    hits,       \* the hits the gate sees
    kept        \* the passages of the prompt

searchVars == <<stage, config, queries, rewritten, legs, ranked, scores, hits, kept>>

Stages == {"plan", "retrieve", "rerank", "gate", "answer", "refused", "failed"}
Reranks == config = "hybrid+rerank" /\ RerankEnabled
First(s, n) == SubSeq(s, 1, IF n <= Len(s) THEN n ELSE Len(s))
Position(s, e) == CHOOSE i \in DOMAIN s : s[i] = e
UpTo(n, S) == UNION {[1..m -> S] : m \in 0..n}

\* The elements of S in order: each where as many are ahead of it as places.
\* "ahead" has the pairs <<c, d>> with c before d.
InOrder(S, ahead) ==
    LET places == {<<c, Cardinality({d \in S : <<d, c>> \in ahead}) + 1>> : c \in S}
    IN  [k \in 1..Cardinality(S) |-> CHOOSE c \in S : <<c, k>> \in places]

--------------------------------------------------------------------------------
(* Planning *)

\* Blank and repeated queries fall away.
FirstUses(texts) ==
    {i \in DOMAIN texts : texts[i] # Blank /\ \A j \in 1..i - 1 : texts[j] # texts[i]}
Distinct(texts) ==
    LET order == InOrder(FirstUses(texts),
                         {p \in FirstUses(texts) \X FirstUses(texts) : p[1] < p[2]})
    IN  [k \in DOMAIN order |-> texts[order[k]]]

\* Fault: the cut keeps the last queries.
DedupeKeepsLast(texts) ==
    LET over == Len(Distinct(texts)) - MaxQueries
    IN  IF over <= 0 THEN Distinct(texts)
        ELSE [k \in 1..MaxQueries |-> Distinct(texts)[over + k]]

\* What is left is cut.
Dedupe(texts) == First(Distinct(texts), MaxQueries)

SetPlan(texts, rewrite) ==
    /\ stage = "plan"
    /\ stage' = "retrieve"
    /\ queries' = Dedupe(texts)
    /\ rewritten' = rewrite
    /\ UNCHANGED <<config, legs, ranked, scores, hits, kept>>

PlanNoop == SetPlan(<<Question>>, Blank)

\* What the lexicon makes of the question: itself, when it is not dialect.
LexiconRewrites == Texts
\* The parts of a question, rewritten too; one part is no decomposition.
Decompositions == {parts \in UpTo(MaxParts, Texts) : Len(parts) # 1}

\* Original, rewrite and parts.  The LLM planner falls back to this when it
\* cannot use the reply.
PlanRules ==
    \E candidate \in LexiconRewrites, parts \in Decompositions :
        LET rewrite == IF candidate = Question THEN Blank ELSE candidate
        IN  SetPlan(<<Question, rewrite>> \o parts, rewrite)

\* The model's rewrite, if any, and its sub-queries, however many.
PlanLLM ==
    \E rewrite \in Texts \cup {Blank}, subQueries \in UpTo(MaxParts, Texts) :
        SetPlan(<<Question, rewrite>> \o subQueries,
                IF rewrite = Question THEN Blank ELSE rewrite)

--------------------------------------------------------------------------------
(* Searching and fusing *)

\* 1 / (k + rank), over the common denominator.
Weight(rank) == Scale \div (RrfK + rank)
Found(lists) == UNION {Range(lists[i]) : i \in DOMAIN lists}
Share(list, c) == IF c \in Range(list) THEN Weight(Position(list, c)) ELSE 0

\* Fault: a chunk's best rank counts, not the sum.
BestRankScore(lists, c) ==
    CHOOSE w \in {Share(lists[i], c) : i \in DOMAIN lists} :
        \A i \in DOMAIN lists : Share(lists[i], c) <= w

RrfScore(lists, c) ==
    SumFunctionOnSet([i \in DOMAIN lists |-> Share(lists[i], c)], DOMAIN lists)

\* Fault: sorted(scores.items()), the key forgotten.
FuseById(lists) ==
    First(InOrder(Found(lists), {p \in Found(lists) \X Found(lists) : p[1] < p[2]}), Limit)

\* By score, then by id.
Outranks(lists) ==
    LET scored == {<<c, RrfScore(lists, c)>> : c \in Found(lists)}
        ordered == {p \in scored \X scored :
                       \/ p[1][2] > p[2][2]
                       \/ p[1][2] = p[2][2] /\ p[1][1] < p[2][1]}
    IN  {<<p[1][1], p[2][1]>> : p \in ordered}
RrfFuse(lists) == First(InOrder(Found(lists), Outranks(lists)), Limit)

\* hybrid_search fuses two legs; the other configs have one.
Legs == IF config \in {"dense", "lexical"} THEN 1..1 ELSE 1..2
\* What the legs of one query return: the head of an order by (distance, id) or
\* (rank, id), or nothing.
LegSearches == [Legs -> Rankings]
SearchResult(found) == IF Len(found) = 1 THEN found[1] ELSE RrfFuse(found)
FuseQueries(lists) == IF Len(lists) = 1 THEN lists[1] ELSE RrfFuse(lists)

Retrieve ==
    /\ stage = "retrieve"
    /\ stage' = "rerank"
    /\ legs' \in [DOMAIN queries -> LegSearches]
    /\ ranked' = FuseQueries([q \in DOMAIN queries |-> SearchResult(legs'[q])])
    /\ UNCHANGED <<config, queries, rewritten, scores, hits, kept>>

--------------------------------------------------------------------------------
(* Reranking, the gate and the budget *)

\* By score, a stable sort.
ScoresHigher(candidates, score) ==
    {p \in Range(candidates) \X Range(candidates) :
        \/ score[p[1]] > score[p[2]]
        \/ /\ score[p[1]] = score[p[2]]
           /\ Position(candidates, p[1]) < Position(candidates, p[2])}
ByScore(candidates, score) == InOrder(Range(candidates), ScoresHigher(candidates, score))

Rerank ==
    /\ stage = "rerank" /\ Reranks
    /\ stage' = "gate"
    /\ scores' \in [Range(ranked) -> Scores]
    /\ hits' = First(ByScore(ranked, scores'), TopK)
    /\ UNCHANGED <<config, queries, rewritten, legs, ranked, kept>>

KeepFusedOrder ==
    /\ stage = "rerank" /\ ~Reranks
    /\ stage' = "gate"
    /\ hits' = First(ranked, TopK)
    /\ UNCHANGED <<config, queries, rewritten, legs, ranked, scores, kept>>

\* Only a reranker's score is compared with the floor.
IsRefusal == hits # <<>> => Reranks /\ scores[hits[1]] < MinScore

Tokens(passages) ==
    SumFunctionOnSet([i \in DOMAIN passages |-> Cost[passages[i]]], DOMAIN passages)
Fits(candidates, n) == \A m \in 1..n : Tokens(First(candidates, m)) <= Budget

\* Fault: the walk goes on past a chunk that does not fit.
FitSkips(candidates) ==
    LET fitted[n \in 0..Len(candidates)] ==
            IF n = 0 THEN <<>>
            ELSE LET more == Append(fitted[n - 1], candidates[n])
                 IN  IF Tokens(more) <= Budget THEN more ELSE fitted[n - 1]
    IN  fitted[Len(candidates)]

\* The walk from the top, up to the first chunk that does not fit.
FitContext(candidates) ==
    First(candidates, CHOOSE n \in 0..Len(candidates) :
        Fits(candidates, n) /\ (n < Len(candidates) => ~Fits(candidates, n + 1)))

Refuse ==
    /\ stage = "gate" /\ IsRefusal
    /\ stage' = "refused"
    /\ UNCHANGED <<config, queries, rewritten, legs, ranked, scores, hits, kept>>

BuildPrompt ==
    /\ stage = "gate" /\ ~IsRefusal
    /\ stage' = "answer"
    /\ kept' = FitContext(hits)
    /\ UNCHANGED <<config, queries, rewritten, legs, ranked, scores, hits>>

\* The planner's or the embedder's vendor, the database or the reranker fails.
Fails ==
    /\ stage \in {"plan", "retrieve", "rerank"}
    /\ stage' = "failed"
    /\ UNCHANGED <<config, queries, rewritten, legs, ranked, scores, hits, kept>>

SearchFinished == stage \in {"answer", "refused", "failed"} /\ UNCHANGED searchVars

SearchInit ==
    /\ stage = "plan"
    /\ config \in Configs
    /\ queries = <<>> /\ rewritten = Blank
    /\ legs = <<>> /\ ranked = <<>> /\ scores = <<>>
    /\ hits = <<>> /\ kept = <<>>

SearchNext ==
    \/ PlanNoop \/ PlanRules \/ PlanLLM
    \/ Retrieve
    \/ Rerank \/ KeepFusedOrder
    \/ Refuse \/ BuildPrompt
    \/ Fails \/ SearchFinished

SearchSpec == SearchInit /\ [][SearchNext]_searchVars

--------------------------------------------------------------------------------
(* Properties *)

\* Every variable stays in its type.
SearchTypeOK ==
    /\ stage \in Stages /\ config \in Configs
    /\ queries \in UpTo(MaxQueries, Texts) /\ rewritten \in Texts \cup {Blank}
    /\ legs \in UNION {[1..n -> UNION {[1..l -> Rankings] : l \in 1..2}] : n \in 0..MaxQueries}
    /\ ranked \in UpTo(Limit, Chunks)
    /\ DOMAIN scores \subseteq Chunks /\ \A c \in DOMAIN scores : scores[c] \in Scores
    /\ hits \in UpTo(TopK, Chunks) /\ kept \in UpTo(TopK, Chunks)

Planned == stage \notin {"plan", "failed"}
Searched == stage \in {"rerank", "gate", "answer", "refused"}
LegResults == UNION {Range(legs[q]) : q \in DOMAIN legs}

\* Whatever the planner and the cut do, the user's own words are searched and
\* come first, the rewrite the reranker will score against is searched too, and
\* no query is searched twice, which would count its ranks double
\* (planner.py:48-57, 223-254, 303-331; service.py:705-707).
PlanSound ==
    Planned =>
        /\ queries # <<>> /\ queries[1] = Question
        /\ rewritten # Blank => rewritten \in Range(queries)
        /\ \A i, j \in DOMAIN queries : queries[i] = queries[j] => i = j

\* Place in a ranking, the same place past the end for all it did not find.
PlaceIn(ranking, c) == IF c \in Range(ranking) THEN Position(ranking, c) ELSE Limit + 1

\* Two levels of fusion, two cuts and the ties never turn a unanimous order
\* round: of two chunks of which one is ahead, or both are missing, in every leg
\* of every query, the other is never placed above it (search.py:168-194;
\* service.py:653-664).
NeverInverts ==
    Searched =>
        LET results == LegResults
        IN  \A c \in UNION {Range(l) : l \in results}, d \in Range(ranked) :
                (c # d /\ \A l \in results : PlaceIn(l, c) <= PlaceIn(l, d))
                => c \in Range(ranked) /\ Position(ranked, c) < Position(ranked, d)

\* A chunk that every leg of every query found is not cut off by either fusion,
\* however badly each of them ranks it (search.py:168-194 with RRF_K,
\* top_k_retrieve and MAX_SEARCH_QUERIES as shipped).
AgreementSurvives ==
    Searched =>
        LET results == LegResults
        IN  \A c \in Chunks : (\A l \in results : c \in Range(l)) => c \in Range(ranked)

\* The prompt holds the best of what was fused: within the budget, nothing
\* behind a passage that was left out, room for no further one, and no passage
\* left out that the reranker scored higher (rerank.py:126-141; budget.py:36-70).
ContextIsBest ==
    stage = "answer" =>
        /\ Tokens(kept) <= Budget
        /\ \A c \in Range(kept), d \in Range(ranked) \ Range(kept) :
               IF Reranks
               THEN scores[c] > scores[d]
                    \/ (scores[c] = scores[d] /\ Position(ranked, c) < Position(ranked, d))
               ELSE Position(ranked, c) < Position(ranked, d)
        /\ \/ Len(kept) = Len(First(ranked, TopK))
           \/ Tokens(First(hits, Len(kept) + 1)) > Budget

--------------------------------------------------------------------------------
(* The inductive invariant *)

\* What each stage leaves behind, in terms of what the stage before left.
Fused ==
    Searched => /\ legs \in [DOMAIN queries -> LegSearches]
                /\ ranked = FuseQueries([q \in DOMAIN queries |-> SearchResult(legs[q])])

Order == IF Reranks THEN ByScore(ranked, scores) ELSE ranked
Ordered ==
    stage \in {"gate", "answer", "refused"} =>
        hits = First(Order, TopK) /\ (Reranks => DOMAIN scores = Range(ranked))

Fitted == stage = "answer" => kept = FitContext(hits)

SearchIInv == SearchTypeOK /\ PlanSound /\ Fused /\ Ordered /\ Fitted

================================================================================
