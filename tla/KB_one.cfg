\* One worker, one sync run, one retry, one crash, an archiving administrator and no groups; fair workers.
SPECIFICATION FairSpec
CONSTANTS
  Docs = {d1}
  Groups = {}
  MaxVersion = 2
  MaxRetries = 1
  MaxFaults = 1
  NoDoc = NoDoc
  PatchStatuses = {"archived"}
  Runs = {r1}
  Workers = {w1}
  MaxChunks = 2
  Batch = 1
  ChunkCount <- Growing
  BodyIsAsync = TRUE
INVARIANTS TypeOK NothingStuck MetadataNotAhead
PROPERTIES ContentNeverRegresses EveryTaskEnds
CHECK_DEADLOCK FALSE
