\* One fair worker, retries, faults of every kind and a source that is paused,
\* archived and restored.
SPECIFICATION FairSpec
CONSTANTS
  w1 = w1
  Workers = {w1}
  MaxChanges = 2
  MaxRetries = 1
  MaxQueue = 1
  Patches = {"active", "paused", "archived"}
  MaxFaults = 2
  NoCursor = NoCursor
  StartsAtHead = FALSE
INVARIANTS TypeOK NothingPassedOver
PROPERTIES EveryChangeSettled
