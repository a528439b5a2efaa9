---------------------------- MODULE ProbedSandbox ----------------------------
(***************************************************************************)
(* The sandbox that SandboxRun sets up, tested from inside: the network,   *)
(* MCP and LLM probes that metisa_probes runs in the workload's container  *)
(* before the workload.  A probe reads the specification and looks at what *)
(* the container can reach; the sandbox may be as planned or differ from   *)
(* the plan in one place.  A probe group is one action; the groups that    *)
(* look at the container alone are in ConfinedBoot.                        *)
(***************************************************************************)
EXTENDS SandboxRun

CONSTANT
  Conditions(_)    \* the tables a metisa.toml with these capabilities may have,
                   \* whether everybody answers, what differs from the plan

VARIABLES
  tables,    \* the parts of the specification's tables that a probe reads
  answers,   \* example.com and the sidecars answer before the time-outs
  slip,      \* how this sandbox differs from its plan
  verdict,   \* what each probe group found
  runner     \* what the first process of the container is doing

probeVars == <<tables, answers, slip, verdict, runner>>

Group == {"network", "mcp", "llm"}

NoTables == [allowed |-> {}, ports |-> {}, tools |-> {}, resources |-> {},
             local |-> {}]

NoSlip == [on |-> "nothing", nets |-> {}]

(* A slip that concerns no container is told from one that does: the name  *)
(* of an LLM server begins with "llm_server_".                             *)
ASSUME SlipAssumption ==
  {"nothing", "proxy_environment"} \cap Members(AllContainers) = {}

ProbedInit ==
  /\ Init
  /\ tables = NoTables /\ answers = TRUE /\ slip = NoSlip
  /\ verdict = [g \in Group |-> "pending"]
  /\ runner = "waiting"

-----------------------------------------------------------------------------
(* What the container can reach.                                           *)

W == "metisa_workload"

Wired(c) == IF slip.on = c THEN slip.nets ELSE attached[c]

(* Squid and HAProxy have no alias on the egress network, and no other     *)
(* service is on it.                                                       *)
SharedAliases(a, b) == (Wired(a) \cap Wired(b)) \ {"egress"}

Resolves(c) == docker[c] = "running" /\ SharedAliases(W, c) # {}

(* configure_http_proxy                                                    *)
PlannedProxy ==
  WorkloadNetworkRequired(caps) /\ WorkloadNeedsSquidProxy(caps)

HasProxy == PlannedProxy # (slip.on = "proxy_environment")

(* Squid answers 403 for a destination its two lists do not contain; only  *)
(* the egress network has a route to the outside.                          *)
Fetch(site) ==
  LET outside == answers /\ site = "example.com"
      proxied == IF site \notin tables.allowed THEN "denied"
                 ELSE IF outside /\ "egress" \in Wired("squid_proxy") THEN "ok"
                 ELSE "error"
  IN  CASE HasProxy /\ ~Resolves("squid_proxy") -> "unreachable"
        [] HasProxy /\ Resolves("squid_proxy")  -> proxied
        [] ~HasProxy -> IF outside /\ "egress" \in Wired(W) THEN "ok" ELSE "unreachable"

-----------------------------------------------------------------------------
(* The network probes.                                                     *)

Has(cap) == cap \in caps

(* Mutation: the broker that stands in for direct access is forgotten.     *)
InternetIsDirect == Has("internet")

DirectInternet == Has("internet") /\ ~Has("llm_broker")
DirectLocalnet == Has("localnet") /\ ~Has("mcp_server")

OwnAliasResolves == Has("network") => "workload" \in Wired(W)

(* The resolver's own probe asks for the same alias.                       *)
DockerDnsWorks == Has("network") => Wired(W) # {} /\ OwnAliasResolves

OnlyLoopbackExists == ~Has("network") => Wired(W) = {}

(* Docker's resolver listens in a container that has a network.            *)
OnlyDockerDnsListens == Has("network") = (Wired(W) # {})

ProxyConfigurationIsAbsent == ~DirectInternet => ~HasProxy
ProxyConfigurationExists   == DirectInternet => HasProxy

(* Each for HTTP and for HTTPS, which differ in wording alone.             *)
ExternalIsBlocked == ~DirectInternet => Fetch("example.com") = "unreachable"
ExternalIsAllowed == DirectInternet => Fetch("example.com") = "ok"

DisallowedIsDenied == DirectInternet => Fetch("example.invalid") = "denied"

HaproxyAliasResolves == DirectLocalnet => Resolves("haproxy")

HaproxyAliasIsAbsent ==
  Has("network") /\ ~DirectLocalnet => ~Resolves("haproxy")

(* Every listener binds the address behind the alias.                      *)
HaproxyListenersAreReachable ==
  DirectLocalnet /\ tables.ports # {} => Resolves("haproxy")

HaproxyListenersAreUnavailable ==
  Has("localnet") /\ Has("mcp_server") /\ tables.ports # {} =>
    ~Resolves("haproxy")

(* The port has to be refused, so that there must be a host to refuse it.  *)
UndeclaredPortIsRefused == DirectLocalnet => Resolves("haproxy")

HealthPort == 8404

HealthEndpointIsPrivate ==
  DirectLocalnet => HealthPort \notin tables.ports /\ Resolves("haproxy")

CollectorIsReachable ==
  Has("network") /\ Has("otel_collector") => Resolves("otel_collector")

(* By its alias, and at its port.                                          *)
CollectorIsAbsent ==
  Has("network") /\ ~Has("otel_collector") => ~Resolves("otel_collector")

(* Mutation: a route is only looked for without direct internet access.    *)
NoRouteUnlessDirect == ~DirectInternet => "egress" \notin Wired(W)

(* Networks other than egress are created --internal.                      *)
NoDefaultRoute == "egress" \notin Wired(W)

NetworkProbesPass ==
  /\ OwnAliasResolves /\ DockerDnsWorks /\ OnlyLoopbackExists
  /\ OnlyDockerDnsListens
  /\ ProxyConfigurationIsAbsent /\ ProxyConfigurationExists
  /\ ExternalIsBlocked /\ ExternalIsAllowed /\ DisallowedIsDenied
  /\ HaproxyAliasResolves /\ HaproxyAliasIsAbsent
  /\ HaproxyListenersAreReachable /\ HaproxyListenersAreUnavailable
  /\ UndeclaredPortIsRefused /\ HealthEndpointIsPrivate
  /\ CollectorIsReachable /\ CollectorIsAbsent
  /\ NoDefaultRoute

-----------------------------------------------------------------------------
(* The MCP probes, all of them skipped without the capability.             *)

RequiredTools == {"screen_user_input", "test_greeting_1"}

OptionalTools ==
  { "anonymize_entities_in_text", "convert_document_to_markdown",
    "execute_starlark_code", "get_active_items_from_database",
    "get_classification_indicators", "get_matching_chunks_from_document",
    "get_moderation_labels", "get_title_from_url", "read_content_from_url",
    "retrieve_content_from_document", "test_greeting_2", "test_greeting_3" }

(* TOOL_REGISTRY, RESOURCE_REGISTRY                                        *)
OfferedTools == RequiredTools \cup (OptionalTools \cap tables.tools)

OfferedResources ==
  {"test_resource_1"}
    \cup ({"test_resource_2", "test_resource_3"} \cap tables.resources)

(* The token of the run is in the secrets of both ends.                    *)
McpServerAnswers ==
  answers /\ Resolves("mcp_server") /\ {W, "mcp_server"} \subseteq published

(* A sidecar behind the MCP server.                                        *)
McpServerReaches(c) ==
  answers /\ c \in started /\ SharedAliases("mcp_server", c) # {}

McpAliasResolves == Resolves("mcp_server")

(* A 401 answer is an answer, and the probe has a token to falsify.        *)
CredentialsAreRequired == McpServerAnswers

Greeting1Works == McpServerAnswers /\ "test_greeting_1" \in OfferedTools

GreetingsMatchDeclaration ==
  \A t \in {"test_greeting_2", "test_greeting_3"} :
    t \in OfferedTools <=> t \in tables.tools

ResourcesMatchDeclaration ==
  /\ "test_resource_1" \in OfferedResources
  /\ \A r \in {"test_resource_2", "test_resource_3"} :
       r \in OfferedResources <=> r \in tables.resources

(* screen_user_input asks both guards.                                     *)
ScreeningWorks ==
  McpServerReaches("prompt_guard") /\ McpServerReaches("entity_guard")

ReadContentWorks ==
  Has("jina_reader") =>
    /\ "read_content_from_url" \in OfferedTools
    /\ McpServerReaches("jina_reader")
    /\ SharedAliases("jina_reader", "squid_proxy") # {}
    /\ "example.com" \in tables.allowed

ClassificationWorks ==
  "get_classification_indicators" \in tables.tools => McpServerReaches("prompt_guard")

ModerationWorks ==
  "get_moderation_labels" \in tables.tools => McpServerReaches("prompt_guard")

AnonymizationWorks ==
  "anonymize_entities_in_text" \in tables.tools => McpServerReaches("entity_guard")

StarlarkWorks ==
  Has("code_execution") /\ "execute_starlark_code" \in tables.tools =>
    McpServerReaches("code_execution")

McpProbesPass ==
  Has("mcp_server") =>
    /\ McpAliasResolves /\ CredentialsAreRequired /\ Greeting1Works
    /\ GreetingsMatchDeclaration /\ ResourcesMatchDeclaration
    /\ ScreeningWorks /\ ReadContentWorks /\ ClassificationWorks
    /\ ModerationWorks /\ AnonymizationWorks /\ StarlarkWorks

-----------------------------------------------------------------------------
(* The LLM probes, all of them skipped without the broker.                 *)

LocalServerIsReady(m) ==
  /\ m \in Members(LlmServers)
  /\ m \in started /\ SharedAliases("llm_broker", m) # {}

BrokerAliasResolves == Resolves("llm_broker")

LlmServersAreReady == answers /\ \A m \in tables.local : LocalServerIsReady(m)

(* The broker advertises the aliases it was configured with, once it has   *)
(* its key and serves.                                                     *)
LlmModelsAreAvailable == answers /\ "llm_broker" \in published

LlmProbesPass ==
  Has("llm_broker") =>
    BrokerAliasResolves /\ LlmServersAreReady /\ LlmModelsAreAvailable

-----------------------------------------------------------------------------
(* The runner.  The groups run in this order, each whether or not an       *)
(* earlier one failed.                                                     *)

Pass(group) ==
  CASE group = "network" -> NetworkProbesPass
    [] group = "mcp"     -> McpProbesPass
    [] group = "llm"     -> LlmProbesPass

ProbesRun == docker[W] = "running" /\ W \in published

(* The rest of the specification matters from here on.                     *)
LoadSpecification ==
  /\ ProbesRun
  /\ runner = "waiting"
  /\ runner' = "probing"
  /\ \E found \in Conditions(caps) :
       /\ tables' = found.tables
       /\ answers' = found.answers
       /\ slip' = found.slip
  /\ UNCHANGED <<vars, verdict>>

Pending(group) == verdict[group] = "pending"

RunGroup(group) ==
  /\ ProbesRun
  /\ runner = "probing"
  /\ Pending(group)
  /\ group = "mcp" => ~Pending("network")
  /\ group = "llm" => ~Pending("mcp")
  /\ verdict' = [verdict EXCEPT ![group] = IF Pass(group) THEN "passed" ELSE "failed"]
  /\ UNCHANGED <<vars, tables, answers, slip, runner>>

ProbesPassed == \A g \in Group : verdict[g] = "passed"

ExecuteWorkload ==
  /\ ProbesRun
  /\ runner = "probing"
  /\ ProbesPassed
  /\ runner' = "workload"
  /\ UNCHANGED <<vars, tables, answers, slip, verdict>>

ProbedNext ==
  \/ Next /\ UNCHANGED probeVars
  \/ LoadSpecification
  \/ \E g \in Group : RunGroup(g)
  \/ ExecuteWorkload

ProbedSpec == ProbedInit /\ [][ProbedNext]_<<vars, probeVars>>

-----------------------------------------------------------------------------
(* Properties.                                                             *)

ProbesAreOver == \A g \in Group : ~Pending(g)

AsPlanned == slip = NoSlip /\ answers

(* Valid specifications that their own probes refuse, always: HAProxy      *)
(* stands on the backend network although the workload is to call it, or   *)
(* has a backend on its health port; Squid's lists lack the site the       *)
(* probes read, or contain the one they expect to be denied; the Jina      *)
(* reader runs without the tool that calls it; the broker names a model    *)
(* that no server has.                                                     *)
RefusedByItsProbes ==
  \/ DirectLocalnet /\ BackendNetworkRequired(caps)
  \/ DirectLocalnet /\ HealthPort \in tables.ports
  \/ DirectInternet /\ "example.com" \notin tables.allowed
  \/ DirectInternet /\ "example.invalid" \in tables.allowed
  \/ Has("jina_reader") /\ "example.com" \notin tables.allowed
  \/ Has("jina_reader") /\ "read_content_from_url" \notin tables.tools
  \/ Has("llm_broker")
     /\ ~(tables.local \subseteq IF Has("llm_server") THEN Members(LlmServers) ELSE {})

(* In a sandbox as planned, with everybody answering in time, the probes   *)
(* fail for exactly the specifications of this list: plan and probes,      *)
(* which derive from the capabilities independently, agree elsewhere.      *)
ProbesAgreeWithPlan ==
  ProbesAreOver /\ AsPlanned => (ProbesPassed <=> ~RefusedByItsProbes)

(* Whichever container or setting differs from the plan, a workload that   *)
(* runs has no route out of its own, no interface unless networking is on, *)
(* reaches HAProxy exactly when nothing mediates its localnet access and   *)
(* the collector exactly when it is declared, and can send a request to    *)
(* the outside exactly when it has direct internet access.                 *)
WorkloadRunsAsDeclared ==
  runner = "workload" =>
    /\ "egress" \notin Wired(W)
    /\ Has("network") <=> Wired(W) # {}
    /\ DirectLocalnet <=> Resolves("haproxy")
    /\ Has("otel_collector") <=> Resolves("otel_collector")
    /\ DirectInternet <=> Fetch("example.com") = "ok"

(* "Ensure a workload with direct localnet access can resolve HAProxy."    *)
(* (_network_probes.py): such a workload, in a sandbox as planned, finds   *)
(* HAProxy on its network.                                                 *)
DirectLocalnetReachesHaproxy ==
  ProbesAreOver /\ AsPlanned /\ DirectLocalnet => Resolves("haproxy")

=============================================================================
