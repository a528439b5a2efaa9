\* Windows of four words that share two; two threads around two classifiers.
SPECIFICATION Spec
CONSTANTS
  h1 = h1
  h2 = h2
  Handlers = {h1, h2}
  Arrivals <- MCArrivals
  Categories = {"S", "H"}
  ChunkSize = 4
  Overlap = 2
INVARIANTS
  ShortAttemptsAreFound
  FoundAttemptsExist
  AnswersReflectWindows
  LockFollowsInference
PROPERTIES
  HandlersEnd
