SPECIFICATION FairSpec
CONSTANTS
  c1 = c1
  c2 = c2
  g1 = g1
  g2 = g2
  None = None
  Threads = {t1, t2}
  Callers = {c1, c2}
  Groups = {g1, g2}
  Uses <- OwnGroups
  MAX_TASK_COUNT = 2
  starting_worker_count = 1
  MaxTasks = 4
INVARIANTS
  PoolIsSound
  NoStrandedTask
PROPERTIES
  WaitAllReturns
  PoolDestroyEnds
CHECK_DEADLOCK FALSE
