----------------------------- MODULE MCLlmBroker -----------------------------
(* The models of the sample agent and one that the broker cannot route, a  *)
(* broker without its provider's key, and one whose local server bears the *)
(* name of the provider's model.                                           *)
EXTENDS LlmBroker

Asks(endpoint, alias, flaws, options) ==
  [endpoint |-> endpoint, alias |-> alias, flaws |-> flaws, options |-> options]

MCMenu ==
  {Asks(e, a, {}, "none") : e \in {"chat", "responses"}, a \in {"granite-4-1b", "gpt-4o", "gpt-5"}}
    \cup {Asks("model_health", a, {}, "none") : a \in {"granite-4-1b", "gpt-4o", "unknown"}}
    \cup {Asks("chat", a, {}, "thinking") : a \in {"granite-4-1b", "qwen-3-small"}}
    \cup {Asks("chat", "unknown", {}, "none"), Asks("responses", "granite-4-1b", {}, "other"),
          Asks("models", "", {}, "none")}
    \cup {Asks("chat", "granite-4-1b", flaws, "none") : flaws \in
           {{"media_type"}, {"too_large"}, {"nested"}, {"malformed"}, {"fields"}, {"numbers"}}}

MCCatalogs ==
  { [local |-> {"granite-4-1b", "qwen-3-small"}, online |-> {"gpt-4o", "gpt-5"}, keyed |-> TRUE],
    [local |-> {"granite-4-1b"}, online |-> {"gpt-4o"}, keyed |-> FALSE],
    [local |-> {"gpt-4o"}, online |-> {"gpt-4o"}, keyed |-> TRUE] }
=============================================================================
