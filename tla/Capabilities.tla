---------------------------- MODULE Capabilities ----------------------------
(***************************************************************************)
(* What a metisa.toml may declare and what the host makes of it: the       *)
(* capability rules of metisa_common/_specification_validator.py and the   *)
(* requirement flags of SandboxRequirements.  A specification is           *)
(* represented by its capability set and by the tables it gives beside     *)
(* them.  The rules look at the capabilities alone: a capability passes    *)
(* without its table, and it is left to the manager that creates the       *)
(* container to refuse it (SetupPlan).  What a table contains is left out. *)
(***************************************************************************)

(* specification_models.Capability.  "openai" and "playwright_chromium"    *)
(* select dependencies of the workload image and decide nothing here.      *)
Capability ==
  { "code_execution", "docling", "documents", "interactive", "internet",
    "jina_reader", "llm_broker", "llm_server", "localnet", "mcp_server",
    "network", "openai", "playwright_chromium", "prompt_guard",
    "entity_guard", "qdrant", "embeddings", "otel_collector", "postgres",
    "agent_memory" }

(* The tables that the creation of a container insists on.  An empty table *)
(* counts as none.  [documents] counts as given if it also names a         *)
(* directory of the host that exists.  The parser accepts [docling] with   *)
(* an embedding model only, so that the table stands for the model too.    *)
Table ==
  { "squid_proxy", "haproxy", "mcp_server", "llm_broker", "docling",
    "documents", "qdrant", "postgres", "agent_memory" }

Needs(caps, cap, required) == cap \in caps => required \subseteq caps

-----------------------------------------------------------------------------
(* The rules, one operator per _validate_..._specification function.       *)

ValidSquidProxy(caps)     == Needs(caps, "internet", {"network"})
ValidHaproxy(caps)        == Needs(caps, "localnet", {"network"})
ValidInteractive(caps)    == Needs(caps, "interactive", {"mcp_server"})
ValidMcpServer(caps)      ==
  Needs(caps, "mcp_server", {"network", "prompt_guard", "entity_guard"})
ValidLlmServer(caps)      == Needs(caps, "llm_server", {"network"})
ValidLlmBroker(caps)      ==
  Needs(caps, "llm_broker", {"network", "prompt_guard", "entity_guard"})
ValidJinaReader(caps)     ==
  Needs(caps, "jina_reader", {"internet", "mcp_server"})
ValidCodeExecution(caps)  == Needs(caps, "code_execution", {"mcp_server"})
ValidDocling(caps)        ==
  Needs(caps, "docling", {"mcp_server", "documents"})
ValidEmbeddings(caps)     == Needs(caps, "embeddings", {"docling"})
ValidAgentMemory(caps)    == Needs(caps, "agent_memory", {"postgres"})

(* validate_specification.  Documents, Qdrant, OpenTelemetry and Postgres  *)
(* have validators too; they accept every capability set.  No rule asks    *)
(* whether a table is given.                                               *)
ValidSpecification(caps) ==
  /\ ValidSquidProxy(caps)
  /\ ValidHaproxy(caps)
  /\ ValidInteractive(caps)
  /\ ValidMcpServer(caps)
  /\ ValidLlmServer(caps)
  /\ ValidLlmBroker(caps)
  /\ ValidJinaReader(caps)
  /\ ValidCodeExecution(caps)
  /\ ValidDocling(caps)
  /\ ValidEmbeddings(caps)
  /\ ValidAgentMemory(caps)

-----------------------------------------------------------------------------
(* SandboxRequirements: which networks the run creates.                    *)

WorkloadNetworkRequired(caps) == "network" \in caps

BackendNetworkRequired(caps) ==
  caps \cap {"mcp_server", "llm_broker", "agent_memory"} # {}

EgressNetworkRequired(caps) == caps \cap {"internet", "localnet"} # {}

(* The guards run beside whichever of the two servers screens text.        *)
GuardsRequired(caps) == caps \cap {"mcp_server", "llm_broker"} # {}

(* Mutation: the workload joins Squid even where the broker stands in.     *)
WorkloadAlwaysNeedsSquid(caps) == "internet" \in caps

WorkloadNeedsSquidProxy(caps) ==
  "internet" \in caps /\ "llm_broker" \notin caps

=============================================================================
