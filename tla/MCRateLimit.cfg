SPECIFICATION Spec
CONSTANTS
  a1 = a1
  a2 = a2
  t1 = t1
  t2 = t2
  Addresses <- MCAddresses
  Threads <- MCThreads
  Limit = 2
  Window = 3
  SweepAt = 2
  MaxDelay = 1
  LastTime = 6
SYMMETRY RateSymmetry
INVARIANTS
  AdmissionsSpaced
  RejectionJustified
CHECK_DEADLOCK FALSE
