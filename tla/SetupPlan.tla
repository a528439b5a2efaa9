------------------------------ MODULE SetupPlan ------------------------------
(***************************************************************************)
(* The order in which run_metisa_container_workload_in_sandbox builds a    *)
(* sandbox, as data: for a specification, the sequence of calls that the   *)
(* body of its try statement makes, each with the container and network it *)
(* touches.  SandboxLifecycle executes such a sequence one call at a time, *)
(* any of which may fail; SandboxRun checks that the sequences themselves  *)
(* are right for every specification the validator accepts.                *)
(***************************************************************************)
EXTENDS Capabilities, Sequences, Naturals

CONSTANT
  LlmServers   \* containers of [llm_server].models, in declaration order

Offline == "none"

FixedContainers ==
  << "metisa_workload", "squid_proxy", "haproxy", "mcp_server",
     "jina_reader", "code_execution", "llm_broker", "prompt_guard",
     "entity_guard", "docling", "documents", "qdrant", "embeddings",
     "otel_collector", "postgres", "agent_memory" >>

AllNetworks == << "workload", "backend", "egress" >>

(* Named "llm_server_" and an alias; the parser rejects a repeated alias.  *)
ASSUME LlmServersAssumption ==
  /\ LlmServers \in Seq(STRING)
  /\ \A i \in DOMAIN LlmServers :
       /\ \A k \in DOMAIN FixedContainers : LlmServers[i] # FixedContainers[k]
       /\ \A j \in DOMAIN LlmServers : LlmServers[i] = LlmServers[j] => i = j

-----------------------------------------------------------------------------
(* Single calls.  A step names its operation, its container and a network; *)
(* the parts an operation does not use are filled with placeholders.       *)

NetworkStep(net) ==
  <<[op |-> "network", on |-> "metisa_workload", net |-> net]>>

On(op, container) == <<[op |-> op, on |-> container, net |-> Offline]>>

OnNetwork(op, container, net) == <<[op |-> op, on |-> container, net |-> net]>>

Connect(container, nets) ==
  [k \in 1..Len(nets) - 1 |->
     [op |-> "connect", on |-> container, net |-> nets[k + 1]]]

(* create_<sidecar>_container followed by set_created.                     *)
Created(container, nets) ==
  OnNetwork("create", container, nets[1])
    \o Connect(container, nets) \o On("record", container)

StagedAndCreated(container, nets) ==
  On("stage", container) \o Created(container, nets)

SealedAndCreated(container, nets) ==
  On("stage", container) \o On("seal", container) \o Created(container, nets)

(* _start_docker_container: docker start, health polling, set_started.     *)
Started(container) == On("start", container) \o On("health", container)

When(condition, steps) == IF condition THEN steps ELSE <<>>

(* A create function that reads a table of the specification begins with   *)
(* raise RuntimeError if the table is absent: "refuse" is a call that      *)
(* cannot succeed.  Nothing has been staged or created by then.            *)
Without(table, given, container) ==
  When(table \notin given, On("refuse", container))

-----------------------------------------------------------------------------
(* Network membership, from the _create_..._container helpers.  The first  *)
(* network is given to docker create, the others are connected.            *)

SquidNetworks(caps) ==
  <<"egress">>
    \o When(BackendNetworkRequired(caps), <<"backend">>)
    \o When(WorkloadNeedsSquidProxy(caps) \/ ~BackendNetworkRequired(caps),
            <<"workload">>)

HaproxyNetworks(caps) ==
  << "egress",
     IF BackendNetworkRequired(caps) THEN "backend" ELSE "workload" >>

WorkloadNetworks(caps) ==
  IF WorkloadNetworkRequired(caps) THEN <<"workload">> ELSE <<Offline>>

BackendOnly == <<"backend">>

-----------------------------------------------------------------------------
(* The calls of each create_..._container function up to set_created.      *)

CreateSquidProxy(caps, given) ==
  Without("squid_proxy", given, "squid_proxy")
    \o Created("squid_proxy", SquidNetworks(caps))

CreateHaproxy(caps, given) ==
  Without("haproxy", given, "haproxy")
    \o Created("haproxy", HaproxyNetworks(caps))

CreateMcpServer(given) ==
  Without("mcp_server", given, "mcp_server")
    \o SealedAndCreated("mcp_server", <<"workload", "backend">>)

CreateLlmBroker(given) ==
  Without("llm_broker", given, "llm_broker")
    \o SealedAndCreated("llm_broker", <<"backend", "workload">>)

(* Mutation: agent memory is created on the backend network alone.         *)
CreateAgentMemoryOnBackend(given) ==
  Without("agent_memory", given, "agent_memory")
    \o SealedAndCreated("agent_memory", BackendOnly)

CreateAgentMemory(given) ==
  Without("agent_memory", given, "agent_memory")
    \o SealedAndCreated("agent_memory", <<"workload", "backend">>)

CreateQdrant(given) ==
  Without("qdrant", given, "qdrant") \o Created("qdrant", BackendOnly)

CreatePostgres(given) ==
  Without("postgres", given, "postgres") \o Created("postgres", BackendOnly)

CreateDocuments(given) ==
  Without("documents", given, "documents")
    \o StagedAndCreated("documents", BackendOnly)

CreateDocling(given) ==
  Without("docling", given, "docling")
    \o StagedAndCreated("docling", BackendOnly)

(* Mutation: the embeddings service insists on a table of its own name.    *)
EmbeddingsWithOwnTable(given) ==
  Without("embeddings", given, "embeddings")
    \o StagedAndCreated("embeddings", BackendOnly)

(* The embedding model is read from [docling], not from [embeddings].      *)
CreateEmbeddings(given) ==
  Without("docling", given, "embeddings")
    \o StagedAndCreated("embeddings", BackendOnly)

(* [llm_server], [jina_reader], [code_execution] and the tables of the     *)
(* guards and the collector may be absent.                                 *)
CreateLlmServer(server) == Created(server, BackendOnly)
CreateJinaReader        == Created("jina_reader", BackendOnly)
CreateCodeExecution     == Created("code_execution", BackendOnly)
CreatePromptGuard       == StagedAndCreated("prompt_guard", BackendOnly)
CreateEntityGuard       == StagedAndCreated("entity_guard", BackendOnly)

(* The manager lists workload and backend, but the collector's create      *)
(* function uses the first entry alone.                                    *)
CreateOtelCollector     == Created("otel_collector", <<"workload">>)

CreateMetisaWorkload(caps) ==
  SealedAndCreated("metisa_workload", WorkloadNetworks(caps))

-----------------------------------------------------------------------------
(* The sidecars, in the order in which the manager brings them up.         *)

NetworkPlan(caps) ==
  When(WorkloadNetworkRequired(caps), NetworkStep("workload"))
    \o When(BackendNetworkRequired(caps), NetworkStep("backend"))
    \o When(EgressNetworkRequired(caps), NetworkStep("egress"))

SquidProxyPlan(caps, given) ==
  When("internet" \in caps, CreateSquidProxy(caps, given) \o Started("squid_proxy"))

LlmBrokerPlan(caps, given) ==
  When("llm_broker" \in caps,
       CreateLlmBroker(given) \o Started("llm_broker") \o On("provision", "llm_broker"))

(* Every LLM server is created before any of them joins all_containers     *)
(* ("extend"), and only then are they started.  Creating one takes two     *)
(* calls, and so does starting it.                                         *)
LlmServerPlan(caps) ==
  LET ForEach(F(_)) ==
        [k \in 1..2 * Len(LlmServers) |->
           F(LlmServers[(k + 1) \div 2])[IF k % 2 = 1 THEN 1 ELSE 2]]
  IN  When("llm_server" \in caps /\ LlmServers # <<>>,
           ForEach(CreateLlmServer)
             \o On("extend", LlmServers[1]) \o ForEach(Started))

JinaReaderPlan(caps) ==
  When("jina_reader" \in caps, CreateJinaReader \o Started("jina_reader"))

CodeExecutionPlan(caps) ==
  When("code_execution" \in caps,
       CreateCodeExecution \o Started("code_execution"))

(* "verify" is here the query for the server's address on the backend      *)
(* network, which haproxy.cfg needs.                                       *)
McpServerPlan(caps, given) ==
  When("mcp_server" \in caps,
       CreateMcpServer(given) \o Started("mcp_server")
         \o On("verify", "mcp_server") \o On("provision", "mcp_server"))

DoclingPlan(caps, given) ==
  When("docling" \in caps, CreateDocling(given) \o Started("docling"))

DocumentsPlan(caps, given) ==
  When("documents" \in caps, CreateDocuments(given) \o Started("documents"))

GuardsPlan(caps) ==
  When(GuardsRequired(caps),
       CreatePromptGuard \o Started("prompt_guard")
         \o CreateEntityGuard \o Started("entity_guard"))

(* "verify" is here verify_haproxy_configuration.                          *)
HaproxyPlan(caps, given) ==
  When("localnet" \in caps,
       CreateHaproxy(caps, given) \o Started("haproxy") \o On("verify", "haproxy"))

QdrantPlan(caps, given) ==
  When("qdrant" \in caps, CreateQdrant(given) \o Started("qdrant"))

EmbeddingsPlan(caps, given) ==
  When("embeddings" \in caps, CreateEmbeddings(given) \o Started("embeddings"))

OtelCollectorPlan(caps) ==
  When("otel_collector" \in caps,
       CreateOtelCollector \o Started("otel_collector"))

(* "verify" is here initialize_postgres_schema.                            *)
PostgresPlan(caps, given) ==
  When("postgres" \in caps,
       CreatePostgres(given) \o Started("postgres") \o On("verify", "postgres"))

AgentMemoryPlan(caps, given) ==
  When("agent_memory" \in caps,
       CreateAgentMemory(given) \o Started("agent_memory")
         \o On("provision", "agent_memory"))

(* docker start --attach, wait_until_container_running, the key.           *)
WorkloadPlan(caps) ==
  CreateMetisaWorkload(caps)
    \o On("attach", "metisa_workload")
    \o On("await", "metisa_workload")
    \o On("provision", "metisa_workload")

(* Mutation: HAProxy comes up before the MCP server.                       *)
HaproxyBeforeMcpServer(caps, given) ==
  NetworkPlan(caps)
    \o SquidProxyPlan(caps, given) \o LlmBrokerPlan(caps, given) \o LlmServerPlan(caps)
    \o JinaReaderPlan(caps) \o CodeExecutionPlan(caps) \o HaproxyPlan(caps, given)
    \o McpServerPlan(caps, given) \o DoclingPlan(caps, given) \o DocumentsPlan(caps, given)
    \o GuardsPlan(caps) \o QdrantPlan(caps, given) \o EmbeddingsPlan(caps, given)
    \o OtelCollectorPlan(caps) \o PostgresPlan(caps, given) \o AgentMemoryPlan(caps, given)
    \o WorkloadPlan(caps)

SetupSequence(caps, given) ==
  NetworkPlan(caps)
    \o SquidProxyPlan(caps, given) \o LlmBrokerPlan(caps, given) \o LlmServerPlan(caps)
    \o JinaReaderPlan(caps) \o CodeExecutionPlan(caps) \o McpServerPlan(caps, given)
    \o DoclingPlan(caps, given) \o DocumentsPlan(caps, given) \o GuardsPlan(caps)
    \o HaproxyPlan(caps, given) \o QdrantPlan(caps, given) \o EmbeddingsPlan(caps, given)
    \o OtelCollectorPlan(caps) \o PostgresPlan(caps, given) \o AgentMemoryPlan(caps, given)
    \o WorkloadPlan(caps)

=============================================================================
