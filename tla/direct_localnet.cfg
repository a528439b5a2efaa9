SPECIFICATION ProbedSpec
CONSTANTS
  LlmServers <- OneLlmServer
  Declarations <- MCDeclarations
  Conditions <- MCConditions
INVARIANTS
  DirectLocalnetReachesHaproxy
