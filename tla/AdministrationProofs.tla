------------------------- MODULE AdministrationProofs -------------------------
(***************************************************************************)
(* The last administrator and the first user, for any users, roles, names  *)
(* and requests in flight.                                                 *)
(***************************************************************************)
EXTENDS Administration, FiniteSetTheorems, TLAPS

\* Requests that may take an administrator away.
Removes(r) == \/ r.op = "status" /\ r.to \in Gone
              \/ r.op = "revoke" /\ r.role = AdminId

\* What was read for a request and stays true, whatever others commit.
Fits(r) ==
  /\ r.op # "register" => registered # {}
  /\ r.op \in {"status", "assign"} => status[r.user] # "absent"
  /\ r.op \in {"rename", "delete"} /\ ~overlapped => r.role # AdminId

\* What was read for a request and may be outrun.
Counted(r) ==
  /\ Removes(r) /\ ~overlapped => ActiveAdmins \ {r.user} # {}
  /\ r.op = "register" => \A v \in Users : status[v] = "absent"

Pending == \A h \in Handlers : request[h] # Nothing =>
             Fits(request[h]) /\ (h \notin stale => Counted(request[h]))

\* Every grant and every claim goes back to a registration.
Origin == claims \/ holds # {} => registered # {}

\* The seeded row keeps its name as long as somebody must hold it.
Seat == ~overlapped => name[AdminId] = "admin"

One == /\ \A u \in registered : status[u] # "absent"
       /\ \A u, v \in registered \ raced : u = v

AdminInv == AdminTypeOK /\ Origin /\ Seat /\ Pending /\ One /\ AdminRemains

LEMMA AdminInitInv == AdminInit => AdminInv
<1> SUFFICES ASSUME AdminInit PROVE AdminInv
  OBVIOUS
<1>1. AdminTypeOK
  BY AdminAssumption DEF AdminInit, AdminTypeOK
<1>2. Origin /\ Seat /\ Pending /\ One /\ AdminRemains
  BY DEF AdminInit, Origin, Seat, Pending, One, AdminRemains
<1> QED
  BY <1>1, <1>2 DEF AdminInv

\* What a request says of its fields.
LEMMA RequestFields ==
  ASSUME AdminTypeOK, NEW h \in Handlers
  PROVE  LET r == request[h] IN
         /\ r.op \in {"status", "assign", "revoke", "invite", "register"} => r.user \in Users
         /\ r.op \in {"assign", "revoke", "create", "rename", "delete"} => r.role \in Roles
         /\ r.op = "status" => r.to \in Statuses
         /\ r.op \in {"invite", "create", "rename"} => r.to \in RoleNames
<1>1. request[h] \in Requests \cup {Nothing}
  BY DEF AdminTypeOK
<1> QED
  BY <1>1 DEF Requests, Nothing

\* While the seat is kept, who holds admin holds the seeded row.
LEMMA SeatNamed ==
  ASSUME AdminTypeOK, name[AdminId] = "admin"
  PROVE  /\ Named("admin") = {AdminId}
         /\ ActiveAdmins = {u \in Users : status[u] = "active" /\ <<u, AdminId>> \in holds}
<1>1. Named("admin") = {AdminId}
  BY AdminAssumption DEF AdminTypeOK, Named
<1> QED
  BY <1>1 DEF ActiveAdmins, HoldsAdmin

\* A decision that read what it needs keeps the invariant.
LEMMA DecidesKeeps ==
  ASSUME AdminInv, NEW h \in Handlers, NEW r \in Requests, Decides(h, r),
         Fits(r), Counted(r)
  PROVE  AdminInv'
<1>1. AdminTypeOK' /\ Origin' /\ Seat' /\ One' /\ AdminRemains'
  BY DEF AdminInv, Decides, AdminTypeOK, Origin, Seat, One, AdminRemains, ActiveAdmins,
         HoldsAdmin, Named
<1>2. ASSUME NEW q \in Handlers, request'[q] # Nothing
      PROVE  Fits(request'[q]) /\ (q \notin stale => Counted(request'[q]))
  BY <1>2 DEF AdminInv, AdminTypeOK, Decides, Pending
<1>3. Pending'
  BY <1>2 DEF Pending, Fits, Counted, ActiveAdmins, HoldsAdmin, Named, Decides
<1> QED
  BY <1>1, <1>3 DEF AdminInv

\* A commit keeps what the others have read, or notes that it was outrun.
LEMMA SettlesKeeps ==
  ASSUME AdminInv, NEW h \in Handlers, Settles(h),
         registered \subseteq registered',
         \A u \in Users : status[u] # "absent" => status'[u] # "absent"
  PROVE  /\ claims' \in BOOLEAN
         /\ request' \in [Handlers -> Requests \cup {Nothing}]
         /\ stale' \subseteq Handlers /\ overlapped' \in BOOLEAN
         /\ Pending'
         /\ ~overlapped' => ~overlapped /\ (h \in stale => ActiveAdmins \subseteq ActiveAdmins')
<1>1. /\ claims' \in BOOLEAN
      /\ request' \in [Handlers -> Requests \cup {Nothing}]
      /\ stale' \subseteq Handlers /\ overlapped' \in BOOLEAN
  BY DEF AdminInv, AdminTypeOK, Settles
<1>2. ~overlapped' => ~overlapped /\ (h \in stale => ActiveAdmins \subseteq ActiveAdmins')
  BY DEF Settles
<1>3. ASSUME NEW q \in Handlers, request'[q] # Nothing
      PROVE  /\ q # h /\ request'[q] = request[q]
             /\ Fits(request[q])'
             /\ q \notin stale' => Counted(request[q])'
  <2>1. q # h /\ request'[q] = request[q] /\ request[q] # Nothing
    BY <1>3 DEF AdminInv, AdminTypeOK, Settles
  <2>2. Fits(request[q]) /\ (q \notin stale => Counted(request[q]))
    BY <2>1 DEF AdminInv, Pending
  <2>3. Fits(request[q])'
    BY <1>2, <2>1, <2>2, RequestFields DEF Fits, AdminInv
  <2>4. ASSUME q \notin stale' PROVE Counted(request[q])'
    <3>1. q \notin stale /\ ~Outruns(q)
      BY <2>1, <2>4 DEF Settles
    <3>2. CASE request[q].op = "register"
      BY <2>1, <2>2, <3>1, <3>2 DEF Outruns, Counted, Removes
    <3>3. CASE request[q].op # "register"
      <4>1. ActiveAdmins \subseteq ActiveAdmins'
        BY <2>1, <3>1, <3>3 DEF Outruns
      <4> QED
        BY <1>2, <2>1, <2>2, <3>1, <3>3, <4>1 DEF Counted, Removes
    <3> QED
      BY <3>2, <3>3
  <2> QED
    BY <2>1, <2>3, <2>4
<1>4. Pending'
  BY <1>3 DEF Pending
<1> QED
  BY <1>1, <1>2, <1>4

\* An administrator is left by a commit that takes none away, or only the one
\* it was decided on, of which it was counted that others remain.
LEMMA SomeoneLeft ==
  ASSUME AdminInv, NEW h \in Handlers, Settles(h), request[h] # Nothing,
         \/ ActiveAdmins \subseteq ActiveAdmins'
         \/ Removes(request[h]) /\ ActiveAdmins \ {request[h].user} \subseteq ActiveAdmins',
         registered # {}, ~overlapped'
  PROVE  ActiveAdmins' # {}
<1>1. ~overlapped /\ (h \in stale => ActiveAdmins \subseteq ActiveAdmins')
  BY DEF Settles
<1>2. ActiveAdmins # {}
  BY <1>1 DEF AdminInv, AdminRemains
<1>3. h \notin stale => Counted(request[h])
  BY DEF AdminInv, Pending
<1> QED
  BY <1>1, <1>2, <1>3 DEF Counted

\* The decisions of the handlers are sound requests.
LEMMA DecisionsKeep ==
  ASSUME AdminInv, NEW h \in Handlers
  PROVE  /\ \A u \in Users :
              /\ \A to \in Statuses : UpdateUser(h, u, to) => AdminInv'
              /\ SoftDeleteUser(h, u) => AdminInv'
              /\ Register(h, u) => AdminInv'
              /\ \A n \in RoleNames : InviteUser(h, u, n) => AdminInv'
              /\ \A r \in Roles : AssignRole(h, u, r) \/ RevokeRole(h, u, r) => AdminInv'
         /\ \A r \in Roles :
              /\ \A n \in RoleNames : CreateRole(h, r, n) \/ UpdateRole(h, r, n) => AdminInv'
              /\ DeleteRole(h, r) => AdminInv'
<1>0. AdminTypeOK /\ Origin /\ Seat /\ One /\ AdminRemains
  BY DEF AdminInv
<1>a. Authorised => registered # {} /\ (~overlapped => ActiveAdmins # {})
  BY <1>0 DEF Authorised, Origin, AdminRemains
<1>1. ASSUME NEW u \in Users, NEW to \in Statuses,
             Authorised, status[u] # "absent",
             to \in Gone /\ HoldsAdmin(u) => OthersRemain(u),
             Decides(h, [op |-> "status", user |-> u, to |-> to])
      PROVE  AdminInv'
  <2> DEFINE r == [op |-> "status", user |-> u, to |-> to]
  <2>1. r \in Requests /\ Fits(r)
    BY <1>1, <1>a DEF Requests, Fits
  <2>2. Counted(r)
    BY <1>1, <1>a DEF Counted, Removes, OthersRemain, ActiveAdmins
  <2> QED
    BY <1>1, <2>1, <2>2, DecidesKeeps
<1>2. ASSUME NEW u \in Users, Register(h, u) PROVE AdminInv'
  <2> DEFINE r == [op |-> "register", user |-> u]
  <2>1. r \in Requests /\ Fits(r) /\ Counted(r)
    BY <1>2 DEF Requests, Fits, Counted, Removes, Register
  <2> QED
    BY <1>2, <2>1, DecidesKeeps DEF Register
<1>3. ASSUME NEW u \in Users, NEW n \in RoleNames, InviteUser(h, u, n) PROVE AdminInv'
  <2> DEFINE r == [op |-> "invite", user |-> u, to |-> n]
  <2>1. r \in Requests /\ Fits(r) /\ Counted(r)
    BY <1>3, <1>a DEF Requests, Fits, Counted, Removes, InviteUser
  <2> QED
    BY <1>3, <2>1, DecidesKeeps DEF InviteUser
<1>4. ASSUME NEW u \in Users, NEW r \in Roles, AssignRole(h, u, r) PROVE AdminInv'
  <2> DEFINE q == [op |-> "assign", user |-> u, role |-> r]
  <2>1. q \in Requests /\ Fits(q) /\ Counted(q)
    BY <1>4, <1>a DEF Requests, Fits, Counted, Removes, AssignRole
  <2> QED
    BY <1>4, <2>1, DecidesKeeps DEF AssignRole
<1>5. ASSUME NEW u \in Users, NEW r \in Roles, RevokeRole(h, u, r) PROVE AdminInv'
  <2> DEFINE q == [op |-> "revoke", user |-> u, role |-> r]
  <2>1. q \in Requests /\ Fits(q)
    BY <1>5, <1>a DEF Requests, Fits, RevokeRole
  <2>2. Counted(q)
    BY <1>0, <1>5 DEF Counted, Removes, RevokeRole, OthersRemain, Seat
  <2> QED
    BY <1>5, <2>1, <2>2, DecidesKeeps DEF RevokeRole
<1>6. ASSUME NEW r \in Roles, NEW n \in RoleNames, CreateRole(h, r, n) PROVE AdminInv'
  <2> DEFINE q == [op |-> "create", role |-> r, to |-> n]
  <2>1. q \in Requests /\ Fits(q) /\ Counted(q)
    BY <1>6, <1>a DEF Requests, Fits, Counted, Removes, CreateRole
  <2> QED
    BY <1>6, <2>1, DecidesKeeps DEF CreateRole
<1>7. ASSUME NEW r \in Roles, NEW n \in RoleNames, UpdateRole(h, r, n) PROVE AdminInv'
  <2> DEFINE q == [op |-> "rename", role |-> r, to |-> n]
  <2>1. ~overlapped => r # AdminId
    BY <1>0, <1>7, AdminAssumption DEF UpdateRole, Seat
  <2>2. q \in Requests /\ Fits(q) /\ Counted(q)
    BY <1>7, <1>a, <2>1 DEF Requests, Fits, Counted, Removes, UpdateRole
  <2> QED
    BY <1>7, <2>2, DecidesKeeps DEF UpdateRole
<1>8. ASSUME NEW r \in Roles, DeleteRole(h, r) PROVE AdminInv'
  <2> DEFINE q == [op |-> "delete", role |-> r]
  <2>1. ~overlapped => r # AdminId
    BY <1>0, <1>8, <1>a, SeatNamed DEF DeleteRole, Seat
  <2>2. q \in Requests /\ Fits(q) /\ Counted(q)
    BY <1>8, <1>a, <2>1 DEF Requests, Fits, Counted, Removes, DeleteRole
  <2> QED
    BY <1>8, <2>2, DecidesKeeps DEF DeleteRole
<1>9. ASSUME NEW u \in Users PROVE SoftDeleteUser(h, u) => AdminInv'
  BY <1>1 DEF SoftDeleteUser, Statuses, Gone
<1>10. ASSUME NEW u \in Users, NEW to \in Statuses PROVE UpdateUser(h, u, to) => AdminInv'
  BY <1>1 DEF UpdateUser
<1> QED
  BY <1>2, <1>3, <1>4, <1>5, <1>6, <1>7, <1>8, <1>9, <1>10

\* What a commit may do to the tables.
Lawful ==
  /\ status' \in [Users -> Statuses \cup {"absent"}]
  /\ name' \in [Roles -> RoleNames \cup {"none"}]
  /\ \A r, q \in Roles : name'[r] = name'[q] /\ name'[r] # "none" => r = q
  /\ holds' \subseteq {u \in Users : status'[u] # "absent"} \X {r \in Roles : name'[r] # "none"}
  /\ \A u \in Users : status[u] # "absent" => status'[u] # "absent"
  /\ ~overlapped => name'[AdminId] = "admin"

\* A commit of any request but a registration keeps the invariant if it takes
\* away no administrator but the one it was decided on.
LEMMA CommitKeeps ==
  ASSUME AdminInv, NEW h \in Handlers, Settles(h), Lawful,
         request[h] # Nothing, request[h].op # "register",
         UNCHANGED <<registered, raced>>,
         ~overlapped =>
           \/ ActiveAdmins \subseteq ActiveAdmins'
           \/ Removes(request[h]) /\ ActiveAdmins \ {request[h].user} \subseteq ActiveAdmins'
  PROVE  AdminInv'
<1>0. AdminTypeOK /\ Origin /\ Seat /\ Pending /\ One /\ AdminRemains
  BY DEF AdminInv
<1>1. /\ claims' \in BOOLEAN
      /\ request' \in [Handlers -> Requests \cup {Nothing}]
      /\ stale' \subseteq Handlers /\ overlapped' \in BOOLEAN
      /\ Pending'
      /\ ~overlapped' => ~overlapped /\ (h \in stale => ActiveAdmins \subseteq ActiveAdmins')
  BY SettlesKeeps DEF Lawful
<1>2. AdminTypeOK'
  BY <1>0, <1>1 DEF AdminTypeOK, Lawful
<1>3. Origin'
  BY <1>0 DEF Origin, Pending, Fits, Settles
<1>4. Seat' /\ One'
  BY <1>0, <1>1 DEF Seat, One, Lawful, AdminTypeOK
<1>5. AdminRemains'
  BY <1>1, SomeoneLeft DEF AdminRemains
<1> QED
  BY <1>1, <1>2, <1>3, <1>4, <1>5 DEF AdminInv

LEMMA WriteStatusKeeps ==
  ASSUME AdminInv, NEW h \in Handlers, WriteStatus(h) PROVE AdminInv'
<1> DEFINE u == request[h].user
<1>0. /\ AdminTypeOK /\ Seat
      /\ u \in Users /\ request[h].to \in Statuses /\ status[u] # "absent"
  BY RequestFields DEF AdminInv, WriteStatus, Pending, Fits, Nothing
<1>1. Lawful
  BY <1>0 DEF Lawful, WriteStatus, AdminTypeOK, Seat, Statuses
<1>2. \/ ActiveAdmins \subseteq ActiveAdmins'
      \/ Removes(request[h]) /\ ActiveAdmins \ {u} \subseteq ActiveAdmins'
  <2>1. \A v \in Users : v # u => status'[v] = status[v]
    BY <1>0 DEF WriteStatus, AdminTypeOK
  <2>2. CASE request[h].to = "active"
    BY <1>0, <2>1, <2>2 DEF WriteStatus, AdminTypeOK, ActiveAdmins, HoldsAdmin, Named
  <2>3. CASE request[h].to \in Gone
    BY <2>1, <2>3 DEF WriteStatus, Removes, ActiveAdmins, HoldsAdmin, Named
  <2> QED
    BY <1>0, <2>2, <2>3 DEF Statuses, Gone
<1> QED
  BY <1>1, <1>2, CommitKeeps DEF WriteStatus, Nothing

LEMMA WriteInviteKeeps ==
  ASSUME AdminInv, NEW h \in Handlers, WriteInvite(h) PROVE AdminInv'
<1> DEFINE u == request[h].user
           granted == Named(request[h].to)
<1>0. AdminTypeOK /\ Seat /\ u \in Users /\ request[h].to \in RoleNames
  BY RequestFields DEF AdminInv, WriteInvite
<1>1. granted \subseteq {r \in Roles : name[r] # "none"}
  BY <1>0, AdminAssumption DEF Named
<1>2. Lawful
  BY <1>0, <1>1 DEF Lawful, WriteInvite, AdminTypeOK, Seat, Statuses
<1>3. ActiveAdmins \subseteq ActiveAdmins'
  BY <1>0 DEF WriteInvite, AdminTypeOK, ActiveAdmins, HoldsAdmin, Named
<1> QED
  BY <1>2, <1>3, CommitKeeps DEF WriteInvite, Nothing

LEMMA WriteAssignKeeps ==
  ASSUME AdminInv, NEW h \in Handlers, WriteAssign(h) PROVE AdminInv'
<1> DEFINE u == request[h].user
           r == request[h].role
<1>0. AdminTypeOK /\ Seat /\ u \in Users /\ r \in Roles /\ status[u] # "absent"
  BY RequestFields DEF AdminInv, WriteAssign, Pending, Fits, Nothing
<1>1. Lawful
  BY <1>0 DEF Lawful, WriteAssign, AdminTypeOK, Seat
<1>2. ActiveAdmins \subseteq ActiveAdmins'
  BY DEF WriteAssign, ActiveAdmins, HoldsAdmin, Named
<1> QED
  BY <1>1, <1>2, CommitKeeps DEF WriteAssign, Nothing

LEMMA WriteRevokeKeeps ==
  ASSUME AdminInv, NEW h \in Handlers, WriteRevoke(h) PROVE AdminInv'
<1> DEFINE u == request[h].user
           r == request[h].role
<1>0. AdminTypeOK /\ Seat /\ u \in Users /\ r \in Roles
  BY RequestFields DEF AdminInv, WriteRevoke
<1>1. Lawful
  BY <1>0 DEF Lawful, WriteRevoke, AdminTypeOK, Seat
<1>2. ASSUME ~overlapped
      PROVE  \/ ActiveAdmins \subseteq ActiveAdmins'
             \/ Removes(request[h]) /\ ActiveAdmins \ {u} \subseteq ActiveAdmins'
  <2>1. name[AdminId] = "admin" /\ name'[AdminId] = "admin"
    BY <1>0, <1>1, <1>2 DEF Seat, Lawful
  <2>2. Named("admin") = {AdminId} /\ Named("admin")' = {AdminId}
    BY <1>0, <2>1, SeatNamed DEF WriteRevoke, Named
  <2>3. CASE r = AdminId
    BY <2>2, <2>3 DEF WriteRevoke, Removes, ActiveAdmins, HoldsAdmin
  <2>4. CASE r # AdminId
    BY <2>2, <2>4 DEF WriteRevoke, ActiveAdmins, HoldsAdmin
  <2> QED
    BY <2>3, <2>4
<1> QED
  BY <1>1, <1>2, CommitKeeps DEF WriteRevoke, Nothing

LEMMA WriteRoleKeeps ==
  ASSUME AdminInv, NEW h \in Handlers, WriteRole(h) PROVE AdminInv'
<1> DEFINE r == request[h].role
           n == request[h].to
<1>0. AdminTypeOK /\ Seat /\ r \in Roles /\ n \in RoleNames
  BY RequestFields DEF AdminInv, WriteRole
<1>1. ~overlapped => name'[AdminId] = "admin"
  <2> SUFFICES ASSUME ~overlapped PROVE name'[AdminId] = "admin"
    OBVIOUS
  <2>1. name[AdminId] = "admin"
    BY <1>0 DEF Seat
  <2>2. request[h].op = "rename" => r # AdminId
    BY DEF AdminInv, Pending, Fits, WriteRole, Nothing
  <2>3. request[h].op = "create" /\ r = AdminId => name' = name
    BY <2>1, AdminAssumption DEF WriteRole
  <2> QED
    BY <1>0, <2>1, <2>2, <2>3, AdminAssumption DEF WriteRole, AdminTypeOK
<1>2. \A q \in Roles : name[q] # "none" => name'[q] # "none"
  BY <1>0, AdminAssumption DEF WriteRole, AdminTypeOK
<1>3. \A p, q \in Roles : name'[p] = name'[q] /\ name'[p] # "none" => p = q
  BY <1>0 DEF WriteRole, AdminTypeOK, Named
<1>4. Lawful
  BY <1>0, <1>1, <1>2, <1>3 DEF Lawful, WriteRole, AdminTypeOK
<1>5. ~overlapped => ActiveAdmins \subseteq ActiveAdmins'
  <2> SUFFICES ASSUME ~overlapped PROVE ActiveAdmins \subseteq ActiveAdmins'
    OBVIOUS
  <2>1. name[AdminId] = "admin" /\ name'[AdminId] = "admin"
    BY <1>0, <1>1 DEF Seat
  <2>2. ActiveAdmins = {u \in Users : status[u] = "active" /\ <<u, AdminId>> \in holds}
    BY <1>0, <2>1, SeatNamed
  <2> QED
    BY <2>1, <2>2, AdminAssumption DEF WriteRole, ActiveAdmins, HoldsAdmin, Named
<1> QED
  BY <1>4, <1>5, CommitKeeps DEF WriteRole, Nothing

LEMMA WriteDeleteKeeps ==
  ASSUME AdminInv, NEW h \in Handlers, WriteDelete(h) PROVE AdminInv'
<1> DEFINE r == request[h].role
<1>0. AdminTypeOK /\ Seat /\ r \in Roles
  BY RequestFields DEF AdminInv, WriteDelete
<1>1. ~overlapped => r # AdminId
  BY DEF AdminInv, Pending, Fits, WriteDelete, Nothing
<1>2. Lawful
  BY <1>0, <1>1, AdminAssumption DEF Lawful, WriteDelete, AdminTypeOK, Seat
<1>3. ~overlapped => ActiveAdmins \subseteq ActiveAdmins'
  <2> SUFFICES ASSUME ~overlapped PROVE ActiveAdmins \subseteq ActiveAdmins'
    OBVIOUS
  <2>1. name[AdminId] = "admin" /\ name'[AdminId] = "admin"
    BY <1>0, <1>2 DEF Seat, Lawful
  <2>2. ActiveAdmins = {u \in Users : status[u] = "active" /\ <<u, AdminId>> \in holds}
    BY <1>0, <2>1, SeatNamed
  <2> QED
    BY <1>1, <2>1, <2>2, AdminAssumption DEF WriteDelete, ActiveAdmins, HoldsAdmin, Named
<1> QED
  BY <1>2, <1>3, CommitKeeps DEF WriteDelete, Nothing

\* A registration makes an administrator, or nothing.
LEMMA WriteRegisterKeeps ==
  ASSUME AdminInv, NEW h \in Handlers, WriteRegister(h) PROVE AdminInv'
<1> DEFINE u == request[h].user
<1>0. /\ AdminTypeOK /\ Origin /\ Seat /\ One /\ AdminRemains
      /\ u \in Users /\ Settles(h)
  BY RequestFields DEF AdminInv, WriteRegister
<1>1. Lawful /\ registered \subseteq registered'
  <2>1. Named("admin") \subseteq {r \in Roles : name[r] # "none"}
    BY AdminAssumption DEF Named
  <2> QED
    BY <1>0, <2>1 DEF Lawful, WriteRegister, AdminTypeOK, Seat, Statuses
<1>2. /\ claims' \in BOOLEAN
      /\ request' \in [Handlers -> Requests \cup {Nothing}]
      /\ stale' \subseteq Handlers /\ overlapped' \in BOOLEAN
      /\ Pending'
      /\ ~overlapped' => ~overlapped
  BY <1>0, <1>1, SettlesKeeps DEF Lawful
<1>3. AdminTypeOK'
  BY <1>0, <1>1, <1>2 DEF AdminTypeOK, Lawful, WriteRegister
<1>4. Origin' /\ Seat'
  BY <1>0, <1>1, <1>2 DEF Origin, Seat, Lawful, WriteRegister, Settles
<1>5. One'
  <2>1. CASE status[u] # "absent"
    BY <1>0, <2>1 DEF WriteRegister, One
  <2>2. CASE status[u] = "absent" /\ h \in stale
    BY <1>0, <2>2 DEF WriteRegister, One, AdminTypeOK
  <2>3. CASE status[u] = "absent" /\ h \notin stale
    <3>1. \A v \in Users : status[v] = "absent"
      BY <2>3 DEF AdminInv, Pending, Counted, WriteRegister, Nothing
    <3>2. registered = {}
      BY <1>0, <3>1 DEF One, AdminTypeOK
    <3> QED
      BY <1>0, <2>3, <3>2 DEF WriteRegister, One, AdminTypeOK
  <2> QED
    BY <2>1, <2>2, <2>3
<1>6. AdminRemains'
  <2> SUFFICES ASSUME registered' # {}, ~overlapped' PROVE ActiveAdmins' # {}
    BY DEF AdminRemains
  <2>1. CASE status[u] # "absent"
    BY <1>0, <1>2, <2>1 DEF WriteRegister, AdminRemains, ActiveAdmins, HoldsAdmin, Named
  <2>2. CASE status[u] = "absent"
    <3>1. AdminId \in Named("admin") /\ AdminId \in Named("admin")'
      BY <1>0, <1>2, AdminAssumption DEF Seat, Named, WriteRegister
    <3>2. status'[u] = "active" /\ <<u, AdminId>> \in holds'
      BY <1>0, <2>2, <3>1 DEF WriteRegister, AdminTypeOK
    <3> QED
      BY <1>0, <3>1, <3>2 DEF ActiveAdmins, HoldsAdmin
  <2> QED
    BY <2>1, <2>2
<1> QED
  BY <1>2, <1>3, <1>4, <1>5, <1>6 DEF AdminInv

\* A sign-in claims what the grants say, and a token that expires claims nothing.
LEMMA ClaimsKeep ==
  ASSUME AdminInv, claims' \in BOOLEAN, claims' => claims \/ holds # {},
         UNCHANGED <<status, name, holds, request, stale, overlapped, registered, raced>>
  PROVE  AdminInv'
<1>1. AdminTypeOK' /\ Origin' /\ Seat' /\ One' /\ AdminRemains'
  BY DEF AdminInv, AdminTypeOK, Origin, Seat, One, AdminRemains, ActiveAdmins, HoldsAdmin, Named
<1>2. Pending'
  BY DEF AdminInv, Pending, Fits, Counted, Removes, ActiveAdmins, HoldsAdmin, Named
<1> QED
  BY <1>1, <1>2 DEF AdminInv

LEMMA AdminStep == AdminInv /\ [AdminNext]_adminVars => AdminInv'
<1> SUFFICES ASSUME AdminInv, [AdminNext]_adminVars PROVE AdminInv'
  OBVIOUS
<1>1. ASSUME NEW h \in Handlers,
             \/ WriteStatus(h) \/ WriteInvite(h) \/ WriteRegister(h) \/ WriteAssign(h)
             \/ WriteRevoke(h) \/ WriteRole(h) \/ WriteDelete(h)
      PROVE  AdminInv'
  BY <1>1, WriteStatusKeeps, WriteInviteKeeps, WriteRegisterKeeps, WriteAssignKeeps,
     WriteRevokeKeeps, WriteRoleKeeps, WriteDeleteKeeps
<1>2. ASSUME NEW u \in Users, SignIn(u) PROVE AdminInv'
  BY <1>2, ClaimsKeep DEF SignIn, HoldsAdmin
<1>3. CASE Expire
  BY <1>3, ClaimsKeep DEF Expire
<1>4. CASE UNCHANGED adminVars
  BY <1>4, ClaimsKeep DEF adminVars, AdminInv, AdminTypeOK
<1> QED
  BY <1>1, <1>2, <1>3, <1>4, DecisionsKeep DEF AdminNext

LEMMA AdminAlways == AdminSpec => []AdminInv
BY AdminInitInv, AdminStep, PTL DEF AdminSpec

\* Users, roles, grants and what requests have decided keep their types, and
\* no two roles have one name (api/v1/users.py, api/v1/roles.py).
THEOREM AdministrationTypeCorrect == AdminSpec => []AdminTypeOK
<1>1. AdminInv => AdminTypeOK
  BY DEF AdminInv
<1> QED
  BY AdminAlways, <1>1, PTL

\* Once somebody has registered, some active user holds admin, unless a
\* removal was written on a count that another had outrun
\* (users.py:317-337, 389-406, 490-508).
THEOREM AnAdminRemains == AdminSpec => []AdminRemains
<1>1. AdminInv => AdminRemains
  BY DEF AdminInv
<1> QED
  BY AdminAlways, <1>1, PTL

\* Registration makes one user, unless two requests saw no user at once
\* (auth.py:123-151).
THEOREM OneFirstUser == AdminSpec => []OneBootstrap
<1>1. AdminInv => OneBootstrap
  <2> SUFFICES ASSUME AdminInv PROVE Cardinality(registered \ raced) <= 1
    BY DEF OneBootstrap
  <2>1. CASE registered \ raced = {}
    BY <2>1, FS_EmptySet
  <2>2. CASE registered \ raced # {}
    <3>1. PICK u : registered \ raced = {u}
      BY <2>2 DEF AdminInv, One
    <3> QED
      BY <3>1, FS_Singleton
  <2> QED
    BY <2>1, <2>2
<1> QED
  BY AdminAlways, <1>1, PTL
==============================================================================
