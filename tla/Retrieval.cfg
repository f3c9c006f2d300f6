SPECIFICATION RetrievalSpec
CONSTANTS
  Files = {d}
  Circles = {g}
  Seekers = {u}
  Askers = {q1, q2}
  Deliveries = {i1, i2}
  TopK = 1
  CacheTTL = 2
  MaxEdition = 2
CONSTRAINT AtWork
SYMMETRY Symmetric
CHECK_DEADLOCK FALSE
INVARIANTS
  RetrievalTypeOK CitedWasGranted PointMatchesText
