SPECIFICATION FairSpec
CONSTANTS
  ImageCount = 3
  MaxIndices = 4
  MaxLayers = 2
  Failures = {"acquire", "wait", "barrier", "release"}
  Recoverable = {"acquire", "barrier"}
INVARIANTS
  ImagesAreSound
  DestroyedUnused
PROPERTIES
  ImagesKeepPromise
  
CHECK_DEADLOCK FALSE
