\* A readable document, ingested by the code as it stands: every download raises.
SPECIFICATION Spec
CONSTANTS
  Docs = {d1}
  Groups = {}
  MaxVersion = 2
  MaxRetries = 0
  MaxFaults = 0
  NoDoc = NoDoc
  PatchStatuses = {}
  Runs = {r1}
  Workers = {w1}
  MaxChunks = 2
  Batch = 1
  ChunkCount <- Growing
  BodyIsAsync = FALSE
INVARIANT IndexingMeansInProgress
CHECK_DEADLOCK FALSE
