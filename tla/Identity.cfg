SPECIFICATION Spec
CONSTANTS
  x1 = x1
  x2 = x2
  p1 = p1
  p2 = p2
  n1 = n1
  n2 = n2
  Users <- MCThings
  Roles = {r1, r2}
  AdminId = r1
  RoleNames <- MCRoleNames
  StaticNames <- MCStaticNames
  Handlers <- MCProcesses
  GroupIds <- MCThings
  GroupNames <- MCNames
  People = {u}
  Papers = {d}
  Editors <- MCProcesses
  Accounts <- MCThings
  NoAccount = none
  Commands <- MCProcesses
  MaxPairs = 3
SYMMETRY Symmetric
VIEW MCView
CHECK_DEADLOCK FALSE
INVARIANTS
  TypeOK AdminRemains OneBootstrap MembershipsKept
  OwnTokens RenewableServed IndexBacked
