----------------------------- MODULE MCMcpServer -----------------------------
(* A tool of every kind, requests that must not reach one, and documents   *)
(* of several chunks.                                                      *)
EXTENDS McpServer

CONSTANTS plain, blank, injected, labelled

Asks(kind, token, name, arguments, text) ==
  [kind |-> kind, token |-> token, name |-> name, arguments |-> arguments, text |-> text]

Calling(name, text) == Asks("call", "run", name, "fine", text)

MCMenu ==
  {Calling("screen_user_input", t) : t \in Texts}
  \cup {Calling(name, plain) : name \in {"get_matching_chunks_from_document",
           "read_content_from_url", "execute_starlark_code", "anonymize_entities_in_text",
           "get_moderation_labels", "test_greeting_1", "get_title_from_url"}}
  \cup {Asks("health", "other", "", "fine", plain), Asks("list", "other", "", "fine", plain),
         Asks("read", "run", "test_resource_1", "fine", plain),
         Asks("call", "run", "read_content_from_url", "refused", plain)}

MCFetched == {<< >>, <<plain>>, <<injected>>, <<blank, plain>>, <<plain, injected>>, <<plain, labelled>>}
=============================================================================
