\* Liveness: every _pending entry is retired, with pulse gaps up to 3, which
\* reach the open batch's slot in a later window.
CONSTANTS
  Tebs = {0, 1}
  Groups = {0, 1}
  CommonGroup = 0
  Contractor = {0, 1}
  Kinds <- MCKinds
  Batching = TRUE
  MaxEntries = 2
  MaxBatches = 2
  MaxLatency = 3
  TrBuffers = 1
  MaxPid = 4
  MaxGap = 3
  MaxFailures = 0
  MaxConfigs = 0
  Nil = Nil
SPECIFICATION Spec
\* behaviours end at MaxPid, and a worker blocked in fetchW (H3) is a state
\* without successor; PendingRetired is checked over both
CHECK_DEADLOCK FALSE
INVARIANTS
  TrBuffersConserved
PROPERTIES
  PendingRetired
