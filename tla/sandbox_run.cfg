SPECIFICATION ProbedSpec
CONSTANTS
  LlmServers <- OneLlmServer
  Declarations <- MCDeclarations
  Conditions <- MCConditions
INVARIANTS
  PlansAreWellFormed
  
  ServicesAreReachable
  WorkloadIsConfined
  ProbesAgreeWithPlan
  WorkloadRunsAsDeclared
