SPECIFICATION Spec
CONSTANTS
  Pids = {1, 2}
  Self = 9
  MaxStart = 3
  Interval = 1
  MaxBack = 1
  Sustained = 2
INVARIANTS
  OverlayKeepsLastApp
