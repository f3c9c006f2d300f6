SPECIFICATION SessionSpec
CONSTANTS
  Access = {a1, a2}
  Refreshers = {f1, f2}
  SignIns = {w1, w2}
  AccessTTL = 1
  RefreshTTL = 2
  LinkTTL = 2
CHECK_DEADLOCK FALSE
INVARIANTS
  SessionTypeOK LoggedOutStaysOut
PROPERTIES
  ClaimsFollowRights RightsEnd
