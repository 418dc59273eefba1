\* A Disable outside the common group after an open batch is forwarded to the other TEB.
CONSTANTS
  Tebs = {0, 1}
  Groups = {0, 1}
  CommonGroup = 0
  Contractor = {0, 1}
  Kinds <- MCKinds
  Batching = TRUE
  MaxEntries = 2
  MaxBatches = 2
  MaxLatency = 3
  TrBuffers = 1
  MaxPid = 5
  MaxGap = 2
  MaxFailures = 0
  MaxConfigs = 0
  Nil = Nil
SPECIFICATION Spec
INVARIANTS
  BypassNeverSent
