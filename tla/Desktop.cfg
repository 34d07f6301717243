CONSTANTS
  Windows = {1, 2}
  KdeTtl = 1
  CacheTtl = 1
  CommandTime = 1
  MaxNow = 3
  MaxOff = 1
  MaxCalls = 2
  Pids = {1}
  MaxWrites = 3
SPECIFICATION Spec
CHECK_DEADLOCK FALSE
INVARIANTS
  FocusAnswersAreRecent
  UsesAreAlive
  HudPagesAgree
PROPERTIES
  FocusReachesWindow
  QuitEnds
