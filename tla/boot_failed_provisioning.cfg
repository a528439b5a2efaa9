SPECIFICATION Spec
CONSTANTS
  ProbeGroups = 2
INVARIANTS
  FailedProvisioningPreventsWorkload
