\* One failed link->post(): of a batch, a forwarded transition or a returned index.
CONSTANTS
  Tebs = {0, 1}
  Groups = {0, 1}
  CommonGroup = 0
  Contractor = {0, 1}
  Kinds <- MCKinds
  Batching = TRUE
  MaxEntries = 2
  MaxBatches = 2
  MaxLatency = 3
  TrBuffers = 1
  MaxPid = 5
  MaxGap = 2
  MaxFailures = 1
  MaxConfigs = 0
  Nil = Nil
SPECIFICATION Spec
\* a batch whose write failed keeps its slot: the worker may then block in
\* fetchW for good, which is a state without successor
CHECK_DEADLOCK FALSE
INVARIANTS
  TrBufferNeverOverwritten
