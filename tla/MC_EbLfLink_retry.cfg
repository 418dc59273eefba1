\* A prepare that failed is called again over the same connection, with what
\* the earlier attempt left in flight.
CONSTANTS
  PosterId = 0
  PenderId = 1
  RaSize = 2
  TrSpace = 1
  Keys = {4, 5}
  Extents = {0, 1, 2, 3, 4, 5, 6}
  PenderSized = {FALSE, TRUE}
  PosterSizes = {2, 3}
  MaxFailures = 1
  MaxRestarts = 1
  RxDepth = 2
  Window = 2
  MaxWrites = 3
  MaxShortPosts = 0
  TxDepth = 1
  MaxCqErrors = 0
  Nil = Nil
SPECIFICATION Spec
\* an end blocked in recv_sync after its peer failed has no further step
CHECK_DEADLOCK FALSE
PROPERTIES
  ImplementsLinkHandshake
