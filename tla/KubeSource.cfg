SPECIFICATION Spec
CONSTANTS
  PodOrder <- MCPodOrder
  PodStates <- MCPodStates
  DeploymentOrder <- MCDeploymentOrder
  DeploymentStates <- MCDeploymentStates
  MaxTimeline = 3
INVARIANTS
  TypeOK
  Supervised
  TimelineTellsListing
PROPERTIES
  AbortedNeverFresh
  NewIssueIsLogged
  ImplementsFeed
