----------------------------- MODULE MCSandboxRun -----------------------------
(***************************************************************************)
(* ProbedSandbox for every capability set, with the tables it needs; of    *)
(* three tables or fewer, any may be missing.  The two guards are declared *)
(* together: every rule that names one names the other.  "interactive",    *)
(* "openai" and "playwright_chromium" are left out, no call of the plan    *)
(* and no network, MCP or LLM probe depends on them.                       *)
(***************************************************************************)
EXTENDS ProbedSandbox

OneLlmServer == <<"llm_small">>

Deciding ==
  Capability \ {"interactive", "openai", "playwright_chromium", "prompt_guard"}

CapabilitySets ==
  { IF "entity_guard" \in d THEN d \cup {"prompt_guard"} ELSE d :
      d \in SUBSET Deciding }

GivenOf(needed) == IF Cardinality(needed) <= 3 THEN SUBSET needed ELSE {needed}

MCDeclarations ==
  UNION { [caps : {c}, given : GivenOf(TablesNeeded(c))] :
            c \in {d \in CapabilitySets : ValidSpecification(d)} }

If(declared, values) == IF declared THEN values ELSE {{}}

(* A table counts when its capability is declared.                         *)
MCTables(c) ==
  [ allowed : If("internet" \in c,
                 {{}, {"example.com"}, {"example.com", "example.invalid"}}),
    ports   : If("localnet" \in c, {{3306}, {8404}}),
    tools   : If("mcp_server" \in c,
                 {{}, {"read_content_from_url", "execute_starlark_code",
                       "get_moderation_labels", "test_greeting_2"}}),
    resources : {{"test_resource_2"}},
    local   : If("llm_broker" \in c, {{"llm_small"}, {"llm_other"}}) ]

(* The tables of a specification whose probes pass, if any do.             *)
Sufficient(c) ==
  [ allowed |-> {"example.com"}, ports |-> {3306},
    tools   |-> {"read_content_from_url", "execute_starlark_code"},
    resources |-> {},
    local   |-> IF "llm_server" \in c THEN {"llm_small"} ELSE {} ]

(* One container on networks it should not be on, or none; or the proxy    *)
(* variables where they do not belong, or missing.                         *)
MCSlips ==
  [on : {"metisa_workload"}, nets : SUBSET {"workload", "backend", "egress"}]
    \cup [on : {"haproxy"}, nets : {{"egress", "workload"}, {"egress", "backend"}}]
    \cup [on : {"otel_collector"}, nets : {{}, {"workload"}, {"backend"}}]
    \cup [on : {"squid_proxy"}, nets : {{"egress"}, {"workload", "backend"}}]
    \cup [on : {"proxy_environment"}, nets : {{}}]

MCConditions(c) ==
  [tables : MCTables(c), answers : {TRUE}, slip : {NoSlip}]
    \cup [tables : {Sufficient(c)}, answers : {FALSE}, slip : {NoSlip}]
    \cup [tables : {Sufficient(c)}, answers : {TRUE}, slip : MCSlips]

=============================================================================
