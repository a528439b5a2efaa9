SPECIFICATION Spec
CONSTANTS
  Workload = "metisa_workload"
  NoNetwork = "none"
  MCLlmServers <- NoLlmServer
  CapabilitySets <- ProxiedRun
  LlmServer <- MCLlmServer
  Container <- MCContainer
  Network <- MCNetwork
  CleanUpOrder <- MCCleanUpOrder
  NetworkOrder <- MCNetworkOrder
  Plans <- MCPlans
  Crashable <- WorkloadExits
  FixedName = {}
  MaxFaults = 1
  Interruptible = FALSE
INVARIANTS
  EveryContainerIsHandled
