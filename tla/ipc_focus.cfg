SPECIFICATION Spec
CONSTANTS
  NumSlots = 3
  IdModulus = 5
  MaxConnects = 3
  MaxSessions = 1
  Failures = {}
  exit_on_disconnect = FALSE
  exit_when_idle = FALSE
INVARIANTS
  FocusIsSound
  CompositorAgrees
  OverlayKnowsMainApp
CHECK_DEADLOCK FALSE
