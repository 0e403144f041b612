SPECIFICATION Spec
CONSTANTS
  w1 = w1
  w2 = w2
  v1 = v1
  v2 = v2
  Null = Null
  LastSlot = 2
  MaxDeliveries = 2
  InsertBatch = 1
  BatchSize = 1
  Workers <- MCWorkers
  Versions <- MCVersions
  Chunks <- MCChunks
  Malformed <- MCMalformed
SYMMETRY WorkerSymmetry
INVARIANTS
  AckedMeansStored
  BackfillHeals
PROPERTY
  CorpusSpec
