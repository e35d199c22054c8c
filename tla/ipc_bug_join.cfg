SPECIFICATION FairSpec
CONSTANTS
  NumSlots = 2
  IdModulus = 4
  MaxConnects = 3
  MaxSessions = 0
  Failures = {}
  exit_on_disconnect = FALSE
  exit_when_idle = FALSE
PROPERTY ConnectionIsHandled
CHECK_DEADLOCK FALSE
