SPECIFICATION FairSpec
CONSTANTS
  MaxFrames = 3
  MaxSessions = 1
  Android = TRUE
  Failures = {"wait", "begin", "discard", "commit", "end", "poll"}
  Recoverable = {"wait", "commit", "poll"}
INVARIANTS
  
  FramesAreSound
  OneTurn
PROPERTIES
  WaiterIsReleased
CHECK_DEADLOCK FALSE
