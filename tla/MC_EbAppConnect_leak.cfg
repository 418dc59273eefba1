\* a builder reconnected with fewer contributors and then destroyed: is
\* every region it allocated freed?
CONSTANTS
  Masks <- MCMasks
  Sizes = {2, 4}
  Guess = 3
  TrSpace = 0
  MaxCycles = 3
  MaxPrepareFailures = 1
  MaxAllocFailures = 0
  NumGroups = 2
  ContractWidth = 8
  IntWidth = 4
  Configured <- MCConfigured
  Dsts = {0, 1, 2}
SPECIFICATION Spec
\* every behaviour ends with the destructor or at the bound on connect() calls
CHECK_DEADLOCK FALSE
INVARIANTS
  AllFreedAtDestruction
