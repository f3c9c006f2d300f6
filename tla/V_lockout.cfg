SPECIFICATION AdminSpec
CONSTANTS
  Users = {u1, u2}
  Roles = {r1}
  AdminId = r1
  RoleNames = {"admin"}
  StaticNames = {"admin"}
  Handlers = {h1, h2}
CHECK_DEADLOCK FALSE
INVARIANT NoLockout
