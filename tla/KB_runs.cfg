\* Two overlapping sync runs feed one document to one worker.
SPECIFICATION Spec
CONSTANTS
  Docs = {d1}
  Groups = {}
  MaxVersion = 2
  MaxRetries = 0
  MaxFaults = 0
  NoDoc = NoDoc
  PatchStatuses = {}
  Runs = {r1, r2}
  Workers = {w1}
  MaxChunks = 2
  Batch = 2
  ChunkCount <- Shrinking
  BodyIsAsync = TRUE
INVARIANT UndisturbedIsCurrent
SYMMETRY RunSymmetry
CHECK_DEADLOCK FALSE
