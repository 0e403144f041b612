SPECIFICATION FairSpec
CONSTANTS
  r1 = r1
  r2 = r2
  r3 = r3
  k1 = k1
  k2 = k2
  None = None
  Cap = 5
  Requests <- TwoRequests
  Keys <- TwoKeys
  Estimates <- MCEstimates
  Costs <- MCCosts
INVARIANTS
  ReservationsOwned
  OnlyPaidAnswersCached
  ServedMeansAccounted
PROPERTIES
  LedgerSpec
  SessionSpec
  EveryRequestEnds
