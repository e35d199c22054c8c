SPECIFICATION FairSpec
CONSTANTS
  Clients = {c1, c2}
  MULTI_MAX_CLIENTS = 1
  do_warm_start = TRUE
INVARIANTS
  CountIsExact
  NativeIsPaired
  TransferredClientsExist
PROPERTIES
  EndsOnlyWhenIdle
  NativeFollowsSessions
  DestroyedThreadEnds
CHECK_DEADLOCK FALSE
