----------------------------- MODULE SandboxRun -----------------------------
(***************************************************************************)
(* From a specification to a running sandbox: the validator accepts a      *)
(* capability set, SetupPlan lists the calls the manager makes for it and  *)
(* the tables given with it, and SandboxLifecycle makes them, until the    *)
(* set-up is over.  A call fails here for a reason that lies in the        *)
(* specification, not in the host or in Docker: faults, to which belong    *)
(* model files, Dockerfiles and secrets that the host lacks, and the       *)
(* clean-up are the subject of SandboxLifecycle alone.                     *)
(***************************************************************************)
EXTENDS SetupPlan, FiniteSets

CONSTANT
  Declarations   \* the metisa.toml files: [caps, given], as below

VARIABLES
  caps,          \* specification.capabilities
  given,         \* the tables beside them, of those some manager insists on
  plan, at, pc, cursor, stopped, outcome, faults, listed, created, started,
  netCreated, errors, printed, docker, attached, networks, attachCli,
  published, foreign, staged, secrets, scratch

AllContainers == FixedContainers \o LlmServers

Members(s) == {s[i] : i \in DOMAIN s}

PlannedRuns ==
  {SetupSequence(m.caps, m.given) : m \in {d \in Declarations : ValidSpecification(d.caps)}}

Run == INSTANCE SandboxLifecycle WITH
  Container <- Members(AllContainers),
  Network <- Members(AllNetworks),
  NoNetwork <- Offline,
  Workload <- "metisa_workload",
  LlmServer <- Members(LlmServers),
  CleanUpOrder <- AllContainers,
  NetworkOrder <- AllNetworks,
  Plans <- PlannedRuns,
  Crashable <- {"metisa_workload"},
  FixedName <- {},
  MaxFaults <- 0,
  Interruptible <- FALSE

Init ==
  /\ \E m \in Declarations : caps = m.caps /\ given = m.given
  /\ ValidSpecification(caps)
  /\ plan = SetupSequence(caps, given)
  /\ Run!NothingCalled /\ foreign = {}

vars ==
  << caps, given, plan, at, pc, cursor, stopped, outcome, faults, listed, created,
     started, netCreated, errors, printed, docker, attached, networks,
     attachCli, published, foreign, staged, secrets, scratch >>

SetUpIsOver == pc # "setup" /\ UNCHANGED vars

Next ==
  \/ (Run!SetUp \/ Run!Environment) /\ UNCHANGED <<caps, given>>
  \/ SetUpIsOver

Spec == Init /\ [][Next]_vars

-----------------------------------------------------------------------------
(* Who calls whom, from the network aliases the services' clients use.     *)

WorkloadCalls == {"mcp_server", "llm_broker", "agent_memory"}

McpServerCalls ==
  { "prompt_guard", "entity_guard", "jina_reader", "documents", "docling",
    "embeddings", "code_execution", "haproxy" }

(* A local alias is called directly, an online one through Squid.          *)
LlmBrokerCalls ==
  {"prompt_guard", "entity_guard", "squid_proxy"} \cup Members(LlmServers)

DoclingCalls     == {"documents"}
EmbeddingsCalls  == {"docling", "qdrant"}
AgentMemoryCalls == {"postgres"}

Calls ==
  ({"metisa_workload"} \X WorkloadCalls)
    \cup ({"mcp_server"} \X McpServerCalls)
    \cup ({"llm_broker"} \X LlmBrokerCalls)
    \cup ({"docling"} \X DoclingCalls)
    \cup ({"embeddings"} \X EmbeddingsCalls)
    \cup ({"agent_memory"} \X AgentMemoryCalls)

-----------------------------------------------------------------------------
(* Properties.                                                             *)

Index(p, op, c) == {i \in DOMAIN p : p[i].op = op /\ p[i].on = c}

(* HAProxy's configuration names the address of the MCP server on the      *)
(* backend network: when both run, it is read before HAProxy is created.   *)
AddressPrecedesHaproxy(p) ==
  \A i \in Index(p, "create", "haproxy") :
    Index(p, "create", "mcp_server") # {} =>
      \E j \in Index(p, "verify", "mcp_server") : j < i

(* Every plan the manager follows for a valid specification has the shape  *)
(* the theorems about SandboxLifecycle assume: the workload last, every    *)
(* sidecar checked, every sealed secret provisioned, nothing recorded that *)
(* was not created and nothing created that is not recorded next, no       *)
(* network joined that was not made.  And a configuration is written when  *)
(* what it names is known.                                                 *)
PlansAreWellFormed ==
  at = 1 =>
    /\ Run!AttachComesLast(plan)
    /\ Run!EverySidecarIsChecked(plan)
    /\ Run!RecordsFollowCreation(plan)
    /\ Run!CreationsAreRecorded(plan)
    /\ Run!ConnectionsArePrepared(plan)
    /\ Run!LlmServersAreListed(plan)
    /\ AddressPrecedesHaproxy(plan)

NetworkMissing ==
  \/ caps \cap {"otel_collector", "agent_memory"} # {}
     /\ ~WorkloadNetworkRequired(caps)
  \/ caps \cap {"documents", "qdrant", "postgres"} # {}
     /\ ~BackendNetworkRequired(caps)
  \/ "llm_server" \in caps /\ LlmServers # <<>> /\ ~BackendNetworkRequired(caps)

(* "internet" and "localnet" are served by the proxies, and the embeddings *)
(* service works with what [docling] says.                                 *)
TablesNeeded(c) ==
  {t \in Table : CASE t = "squid_proxy" -> "internet" \in c
                   [] t = "haproxy"     -> "localnet" \in c
                   [] t = "docling"     -> c \cap {"docling", "embeddings"} # {}
                   [] OTHER             -> t \in c}

TableMissing == ~(TablesNeeded(caps) \subseteq given)

(* README.md leaves tables and service dependencies to the author of a     *)
(* specification: the validator does not check them all.  What it accepts  *)
(* sets up, as far as that lies in the specification, or fails for one of  *)
(* two reasons: a sidecar is to join a network nobody asked for, or a      *)
(* capability comes without the table its container needs.  And then it    *)
(* never comes to the workload, however many sidecars are up by then.      *)
SetUpFailsOnlyForGapsInSpecification ==
  /\ attachCli # "idle" => ~NetworkMissing /\ ~TableMissing
  /\ outcome = "raised" /\ attachCli = "idle" => NetworkMissing \/ TableMissing

SharesNetwork(a, b) == attached[a] \cap attached[b] # {}

(* When the workload is started, every service that another one calls is   *)
(* healthy and on a network of its caller, whatever the capabilities.      *)
ServicesAreReachable ==
  attachCli = "pending" =>
    \A call \in Calls :
      LET caller == call[1]
          callee == call[2]
      IN  docker[caller] # "absent" /\ docker[callee] # "absent" =>
            SharesNetwork(caller, callee) /\ callee \in started

FrontServices ==
  { "metisa_workload", "squid_proxy", "haproxy", "mcp_server", "llm_broker",
    "agent_memory", "otel_collector" }

(* The workload never shares a network with a service behind the servers   *)
(* that authenticate and screen, is never on the egress network, and with  *)
(* the LLM broker in place cannot reach Squid.                             *)
WorkloadIsConfined ==
  /\ "egress" \notin attached["metisa_workload"]
  /\ \A c \in Members(AllContainers) :
       SharesNetwork("metisa_workload", c) => c \in FrontServices
  /\ "llm_broker" \in caps => ~SharesNetwork("metisa_workload", "squid_proxy")

=============================================================================
