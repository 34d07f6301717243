SPECIFICATION Spec
CONSTANTS
  Containers = {c1, c2}
  HealthyMs = 4
  IssueMs = 2
  AbsentMs = 3
  BackoffStartMs = 2
  BackoffCapMs = 5
  TimeoutMs = 2
  KillGraceMs = 1
  MaxStarts = 2
  Chatty = TRUE
SYMMETRY Interchangeable
INVARIANTS
  TypeOK
  Supervised
PROPERTIES
  AbortedNeverFresh
  StopIsFinal
  CrashMarksAreEarned
