SPECIFICATION GateSpec
CONSTANTS
  r1 = r1
  r2 = r2
  p1 = p1
  p2 = p2
  p3 = p3
  docA = docA
  docB = docB
  g1 = g1
  g2 = g2
  g3 = g3
  x = x
  Runs <- TwoRuns
  Keys <- TwoKeys
  ApiKeys <- OneApi
  Pairs <- ThreePairs
  DocOf <- TwoDocs
  Gold <- GoldChunks
  Scale = 2
  K = 2
  Tolerance = 5000
  DocTolerance = 5000
  MaxTries = 2
  ApiBatch = 2
  Corpora <- ThreeCorpora
  Jobs <- TwoJobs
  MaxChanges = 1
  Committed <- NoneOrAll
  Datasets <- TwoDatasets
INVARIANTS
  PassIsEarned
  BaselineKept
PROPERTY
  EveryRunEnds
