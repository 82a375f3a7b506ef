SPECIFICATION Spec
CONSTANTS
  Viewers = {v1, v2}
  MaxCommands = 1
INVARIANT
  GracefulShutdown
CHECK_DEADLOCK FALSE
