SPECIFICATION FairSpec
CONSTANTS
  NumSlots = 2
  IdModulus = 3
  MaxConnects = 3
  MaxSessions = 1
  Failures = {"shm", "epoll"}
  exit_on_disconnect = FALSE
  exit_when_idle = TRUE
INVARIANTS
  SlotsAreSound
PROPERTIES
  SlotHandover
  IdleExitOnlyWhenIdle
  IdleLeadsToExit
  DepartedLosesFocus
CHECK_DEADLOCK FALSE
