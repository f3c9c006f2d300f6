\* Two workers whose ingests of one document overlap: an edit or a redelivery
\* reaches the second while the first is at work.
SPECIFICATION Spec
CONSTANTS
  Docs = {d1}
  Groups = {g1}
  MaxVersion = 2
  MaxRetries = 0
  MaxFaults = 1
  NoDoc = NoDoc
  PatchStatuses = {}
  Runs = {r1}
  Workers = {w1, w2}
  MaxChunks = 2
  Batch = 1
  ChunkCount <- Growing
  BodyIsAsync = TRUE
INVARIANTS ChunksHavePoints IndexedHasChunks WorkerProgress NothingStuck UndisturbedIsCurrent
SYMMETRY WorkerSymmetry
CHECK_DEADLOCK FALSE
