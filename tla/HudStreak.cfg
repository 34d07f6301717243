SPECIFICATION Spec
CONSTANTS
  Rules = {1, 3, 6}
  Sustained <- MCSustained
  SourceOf <- MCSourceOf
  Sources = {"sample", "kube"}
  Latched = {3}
  ResolveAfter = 2
  KeepResolved = 1
  Clock = {0, 1, 2}
  MaxIncidents = 2
INVARIANTS
  FiringIsSustained
