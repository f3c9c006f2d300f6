\* Two workers whose runs of one source overlap; the first sync starts at the head.
SPECIFICATION Spec
CONSTANTS
  w1 = w1
  w2 = w2
  Workers = {w1, w2}
  MaxChanges = 2
  MaxRetries = 0
  MaxQueue = 1
  Patches = {}
  MaxFaults = 1
  NoCursor = NoCursor
  StartsAtHead = TRUE
SYMMETRY Symmetry
INVARIANT NothingPassedOver
