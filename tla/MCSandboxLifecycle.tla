------------------------- MODULE MCSandboxLifecycle -------------------------
(***************************************************************************)
(* Bounded instances of SandboxLifecycle.  The plans are the sequences     *)
(* SetupPlan computes for a few capability sets; the containers and        *)
(* networks are those the plans mention, in the manager's order.           *)
(***************************************************************************)
EXTENDS SandboxLifecycle

CONSTANTS
  CapabilitySets,  \* the specifications that are run
  MCLlmServers     \* their [llm_server].models

P == INSTANCE SetupPlan WITH LlmServers <- MCLlmServers

ASSUME \A caps \in CapabilitySets : P!ValidSpecification(caps)

MCPlans == {P!SetupSequence(caps, P!Table) : caps \in CapabilitySets}

Mentioned == UNION {{p[i].on : i \in DOMAIN p} : p \in MCPlans}

MCCleanUpOrder ==
  SelectSeq(P!FixedContainers \o MCLlmServers, LAMBDA c : c \in Mentioned)

MCNetworkOrder == P!AllNetworks

MCContainer == Mentioned
MCLlmServer == {MCLlmServers[i] : i \in DOMAIN MCLlmServers}
MCNetwork   == {MCNetworkOrder[i] : i \in DOMAIN MCNetworkOrder}

TwoLlmServers == <<"llm_small", "llm_large">>
NoLlmServer   == << >>

(* The LLM broker with its guards and two local models.                    *)
BrokerRuns ==
  { {"network", "prompt_guard", "entity_guard", "llm_broker", "llm_server"} }

(* And a workload without network, behind Squid, and with agent memory.    *)
SmallRuns ==
  { {}, {"network", "internet"}, {"network", "postgres", "agent_memory"} } \cup BrokerRuns

ProxiedRun == { {"network", "internet"} }

(* Sidecars that may exit on their own.                                    *)
WorkloadExits  == {"metisa_workload"}
SmallCrashes   == {"metisa_workload", "squid_proxy", "agent_memory", "llm_broker", "llm_small"}

=============================================================================
