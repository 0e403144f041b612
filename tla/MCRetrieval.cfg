SPECIFICATION SearchSpec
CONSTANTS
    q = q
    r = r
    s = s
    none = none
    Chunks = {1, 2, 3, 4}
    Rankings <- MCRankings
    RrfK = 2
    Limit = 3
    Scale = 60
    TopK = 2
    Cost <- MCCost
    Budget = 3
    MaxQueries = 2
    Scores = {0, 1}
    MinScore = 1
    RerankEnabled = TRUE
    Texts = {q, r, s}
    Question = q
    Blank = none
    MaxParts = 2
SYMMETRY Rewrites
INVARIANTS
    PlanSound
    NeverInverts
    AgreementSurvives
    ContextIsBest
