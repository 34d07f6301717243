SPECIFICATION Spec
CONSTANTS
  Containers = {c1}
  HealthyMs = 4
  IssueMs = 2
  AbsentMs = 3
  BackoffStartMs = 2
  BackoffCapMs = 5
  TimeoutMs = 2
  KillGraceMs = 1
  MaxStarts = 1
  Chatty = FALSE
INVARIANTS
  IssuePolledSooner
