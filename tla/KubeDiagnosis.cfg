SPECIFICATION Spec
CONSTANTS
  PodOrder <- MCPodOrder
  PodStates <- ReasonedStates
  DeploymentOrder <- MCDeploymentOrder
  DeploymentStates <- MCDeploymentStates
  MaxTimeline = 1
INVARIANTS
  IssuesAreDiagnosed
