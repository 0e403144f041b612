SPECIFICATION Spec
CONSTANTS
  r1 = r1
  r2 = r2
  r3 = r3
  Nobody = Nobody
  Requests <- ThreeRequests
  Questions <- MCQuestions
  Configs = {"hybrid", "lexical"}
  Revisions <- MCRevisions
  Guard <- MCGuard
  Distance <- MCDistance
  MaxDistance = 1
SYMMETRY Interchangeable
INVARIANTS
  ReplayFaithful
  DuplicatesOverlapped
  HitsExact
