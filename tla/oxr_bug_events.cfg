SPECIFICATION Spec
CONSTANTS
  Sessions = {A}
  MaxEvents = 3
INVARIANT ClearedEventsAreGone
CHECK_DEADLOCK FALSE
