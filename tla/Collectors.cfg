CONSTANTS
  ServiceUnits = {"nginx", "cron"}
  UnitStates = {"active", "failed"}
  FailedStates = {"failed"}
  MaxLog = 3
  JournalEntries <- MCEntries
  Masked <- MCMasked
  MaxEntries = 3
  Probes <- MCProbes
  Statuses = {204, 301, 404, 500}
  Hops <- MCHops
  Endpoints <- MCEndpoints
  Lifetimes <- MCLifetimes
  Commits = {0, 1}
  MaxTicks = 2
  Conns = {"c1", "c2"}
  Requests <- MCRequests
  MaxSpans = 2
  MaxRequests = 3
  MaxRecent = 1
  Lines <- MCLines
  MaxLines = 1
  MaxDatagrams = 3
  LoadedLists <- MCLoaded
  PackageOf <- MCPackageOf
  Chunk = 2
  MaxResolves = 3
  Times <- MCTimes
  Keep = 2
  Burn <- MCBurn
  AllowedBad = 10
  MaxSamples = 3
  MaxHistory = 4
  CounterKeys = {"k1", "k2"}
  MaxNow = 2
  MaxMoved = 1
  Values = {0, 1, 4}
  Capacity = 6
  Lookback = 5
  Horizon = 4
  Limit = 5
  MaxPushes = 7
  Raw <- MCRaw
  MaxKeys = 2
  Pids <- MCPids
  RootPid = 2
  MaxBirths = 2
  Messages <- MCMessages
  Lower <- MCLower
  StampTimes <- MCStampTimes
  BucketCapacity = 2
  LeakSeconds = 4
  ThreatLimit = 1
SPECIFICATION Spec
CHECK_DEADLOCK FALSE
INVARIANTS
  ServiceLogTellsUnits
  RoundsAreComplete
  StreamsStayInStep
  AggregatesTellInputs
  SbomListsTheAsked
  RatesCoverTheirTime
  TreeIsShown
  ConfigIsUsable
PROPERTIES
  SilenceHasACause
