SPECIFICATION FairSpec
CONSTANTS
  Viewers = {v1, v2}
  MaxCommands = 2
INVARIANTS
  TypeOK
  ShellInOrder
  ShellOpenLogged
PROPERTIES
  LeaveEndsSession
  EndReachesViewer
  StopsOnSignal
\* The process ends.
CHECK_DEADLOCK FALSE
