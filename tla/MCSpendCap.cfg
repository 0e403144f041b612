SPECIFICATION Spec
CONSTANTS
  c1 = c1
  c2 = c2
  c3 = c3
  c4 = c4
  Cap = 4
  LastDay = 2
  Calls <- MCCalls
  Estimates <- MCEstimates
  Costs <- MCCosts
SYMMETRY CallSymmetry
INVARIANTS
  LedgerCovers
  SpendBounded
  NoPhantomSpend
PROPERTY
  AdmissionFits
