\* Four plans: no network, Squid, Postgres with agent memory, and the LLM broker
\* with its guards and two local models; three faults; some containers may exit.
SPECIFICATION FairSpec
CONSTANTS
  Workload = "metisa_workload"
  NoNetwork = "none"
  MCLlmServers <- TwoLlmServers
  CapabilitySets <- SmallRuns
  LlmServer <- MCLlmServer
  Container <- MCContainer
  Network <- MCNetwork
  CleanUpOrder <- MCCleanUpOrder
  NetworkOrder <- MCNetworkOrder
  Plans <- MCPlans
  Crashable <- SmallCrashes
  FixedName = {"postgres"}
  MaxFaults = 3
  Interruptible = TRUE
INVARIANTS
  WorkloadStartsLast
  TrackedResidueIsReported
  LeakIsConfined
  FaultFreeRunIsClean
  OtherRunsAreLeftAlone
PROPERTIES
  FilesOutliveContainers
  SetUpSettles
  WorkloadExitEndsRun
