SPECIFICATION FairSpec
CONSTANTS
  a = a
  b = b
  c = c
  src = src
  Queues = {a, b, c}
  Simple = {b}
  Source = src
  MaxSize <- SplitSize
  Down <- SplitDown
  MaxFrames = 4
INVARIANTS
  GraphIsSound
  NoUseAfterDestroy
PROPERTIES
  QueuesKeepPromise
  QueuedFrameLeaves
  TeardownEnds
CHECK_DEADLOCK FALSE
