SPECIFICATION ConfinedFairSpec
CONSTANTS
  ProbeGroups = 21
  Shortfalls <- MCShortfalls
INVARIANTS
  KeyIsWholeOrAbsent
  WorkloadIsGuarded
  HostAgreesWithContainer
  WorkloadRunsConfined
  WorkloadCannotStartPython
PROPERTIES
  StartupIsSequenced
  BootDecides
  ProvisioningEnds
