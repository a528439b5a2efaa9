\* Two requests and one thread; answers of up to two portions are read.
SPECIFICATION FairSpec
CONSTANTS
  Calls = {c1, c2}
  Names = {"granite-4-1b", "qwen-3-small", "gpt-4o", "gpt-5", "unknown", ""}
  Menu <- MCMenu
  Catalogs <- MCCatalogs
  Statuses = {200, 204, 401, 429}
  Threads = 1
  MaxPortions = 2
INVARIANTS
  ExchangesAreFaithful
PROPERTIES
  RequestsEnd
