CONSTANTS
  Srcs = {0, 1}
  Groups = {0, 1}
  ContractTable <- MCContractTable
  RoG <- MCRoG
  MaxPid = 4
  Entries = 2
  Epochs = 2
  EventPoolSize = 2
  EventTimeout = 2
  FlushPerEpoch = FALSE
  Nil = Nil

SPECIFICATION Spec

\* quiescent states (all input handled, nothing due) and states after an
\* abort() have no successor; the pend loop then only times out.
CHECK_DEADLOCK FALSE

INVARIANTS
  TypeOK
  InOrderDelivery
  DeliveryAccountsForContract
  EpochLutConsistent

PROPERTIES
  EveryEventDelivered
