SPECIFICATION FairSpec
CONSTANTS
  FrameCount = 2
  MaxFrames = 3
  MaxTime = 2
INVARIANTS
  AssertsHold
  ProgressHasOneOwner
  SlotsAreSound
PROPERTIES
  NeverBackwards
  BlockedIsReleased
  DestroyEnds
CHECK_DEADLOCK FALSE
