\* Two requests at once; two failures of back ends or guards.
SPECIFICATION LiveSpec
CONSTANTS
  Calls = {c1, c2}
  NoCall = NoCall
  plain = plain
  blank = blank
  injected = injected
  labelled = labelled
  Texts = {plain, blank, injected, labelled}
  Blank = {blank}
  Injected = {injected}
  Labelled = {labelled}
  Menu <- MCMenu
  DeclaredTools = {"get_matching_chunks_from_document", "read_content_from_url", "execute_starlark_code", "anonymize_entities_in_text", "get_moderation_labels"}
  DeclaredResources = {}
  Fetched <- MCFetched
  MaxFaults = 2
INVARIANTS
  ResultsAreScreened
  AcceptedInputIsClean
PROPERTIES
  CallsEnd
