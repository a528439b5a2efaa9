SPECIFICATION LiveSpec
CONSTANTS
  Calls = {first, second, third}
  report = report
  scan = scan
  c1 = c1
  c2 = c2
  Documents = {report, scan}
  Chunks = {c1, c2}
  ChunksOf <- MCChunksOf
  MaxFaults = 2
INVARIANTS
  ManifestMeansStored
  AnswersAreOfWholeDocuments
  ConvertedAgainOnlyAfterFailure
PROPERTY
  HandlersEnd
