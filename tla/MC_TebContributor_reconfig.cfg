\* Indices returned in the last run are still in flight when configure() refills the lists.
CONSTANTS
  Tebs = {0, 1}
  Groups = {0, 1}
  CommonGroup = 0
  Contractor = {0, 1}
  Kinds <- MCKinds
  Batching = TRUE
  MaxEntries = 2
  MaxBatches = 2
  MaxLatency = 3
  TrBuffers = 1
  MaxPid = 5
  MaxGap = 2
  MaxFailures = 0
  MaxConfigs = 1
  Nil = Nil
SPECIFICATION Spec
INVARIANTS
  TrBufferNeverOverwritten
