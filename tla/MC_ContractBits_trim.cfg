\* trim() of the ids at and past the int sign bit (31 and 32..63 at full width)
CONSTANTS
  NumGroups = 2
  ContractWidth = 8
  IntWidth = 4
  Configured <- MCConfigured
  Dsts = {3, 5}
SPECIFICATION Spec
INVARIANTS
  TrimRemovesOnlyDst
