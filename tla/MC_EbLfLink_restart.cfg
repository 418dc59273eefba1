\* Up to two failed calls, each end's prepare called again after a failure;
\* a prepared link then carries 4 writes into 3 receives, one top-up short;
\* post() meets a full TX queue of 2 and one failed TX CQ read.
CONSTANTS
  PosterId = 0
  PenderId = 1
  RaSize = 2
  TrSpace = 1
  Keys = {4, 5}
  Extents = {0, 1, 2, 3, 4, 5, 6}
  PenderSized = {FALSE, TRUE}
  PosterSizes = {2, 3}
  MaxFailures = 2
  MaxRestarts = 2
  RxDepth = 3
  Window = 3
  MaxWrites = 4
  MaxShortPosts = 1
  TxDepth = 2
  MaxCqErrors = 1
  Nil = Nil
SPECIFICATION Spec
\* an end blocked in recv_sync after its peer failed has no further step
CHECK_DEADLOCK FALSE
INVARIANTS
  PosterLearnsPenderId
  ROutsAccounts
  ReplenishReachable
  PostRcMeansSubmitted
PROPERTIES
  PostReturns
