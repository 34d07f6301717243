CONSTANTS
  Windows = {1, 2}
  KdeTtl = 2
  CacheTtl = 1
  CommandTime = 1
  MaxNow = 4
  MaxOff = 0
  MaxCalls = 2
  Pids = {1}
  MaxWrites = 3
SPECIFICATION Spec
CHECK_DEADLOCK FALSE
INVARIANTS
  KdeFollowsWindow
