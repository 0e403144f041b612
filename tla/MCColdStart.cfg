SPECIFICATION Spec
CONSTANTS
  c1 = c1
  c2 = c2
  c3 = c3
  Nobody = Nobody
  Calls <- ThreeCalls
  Workloads <- FirstCalls
INVARIANTS
  OneUnlessRaced
  LoadedOnce
PROPERTY
  EveryCallEnds
