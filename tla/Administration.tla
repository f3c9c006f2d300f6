---------------------------- MODULE Administration ----------------------------
(***************************************************************************)
(* The users, roles and grants of api/v1/users.py and api/v1/roles.py, and *)
(* the first user of api/v1/auth.py.  A handler reads rows, decides, and   *)
(* commits what it decided; Postgres runs it READ COMMITTED, so what others *)
(* commit in between it has not seen.  Only unique names, unique emails    *)
(* and foreign keys are checked again at the commit.  A refused request    *)
(* changes nothing and is not a step.  The actor is known by its token,    *)
(* which keeps the roles of the sign-in until it expires.                  *)
(***************************************************************************)
EXTENDS Naturals, FiniteSets

CONSTANTS Users,       \* email addresses
          Roles,       \* ids a role row may have
          RoleNames,   \* names a role may have, "admin" among them
          StaticNames, \* STATIC_ROLE_NAMES
          AdminId,     \* the id of the seeded admin role
          Handlers     \* requests in flight at once

ASSUME AdminAssumption ==
  /\ IsFiniteSet(Users)
  /\ AdminId \in Roles
  /\ "admin" \in StaticNames /\ StaticNames \subseteq RoleNames
  /\ "none" \notin RoleNames

VARIABLES status,     \* of each user row, "absent" when there is none
          name,       \* of each role row, "none" when there is none
          holds,      \* the rows of user_roles
          claims,     \* some live access token says admin
          request,    \* what each handler has decided to write
          stale,      \* history: handlers whose decision others have outrun
          overlapped, \* history: an admin was removed by such a handler
          registered, \* history: users made by register
          raced       \* history: those registered by such a handler

adminVars == <<status, name, holds, claims, request, stale, overlapped, registered, raced>>

Statuses == {"active", "suspended", "deleted"}
Gone == {"suspended", "deleted"}
Nothing == [op |-> "none"]
Requests == [op : {"status"}, user : Users, to : Statuses]
            \cup [op : {"assign", "revoke"}, user : Users, role : Roles]
            \cup [op : {"invite"}, user : Users, to : RoleNames]
            \cup [op : {"register"}, user : Users]
            \cup [op : {"create", "rename"}, role : Roles, to : RoleNames]
            \cup [op : {"delete"}, role : Roles]

Named(n) == {r \in Roles : name[r] = n}
HoldsAdmin(u) == \E r \in Named("admin") : <<u, r>> \in holds
ActiveAdmins == {u \in Users : status[u] = "active" /\ HoldsAdmin(u)}

AdminInit ==
  /\ status = [u \in Users |-> "absent"]
  /\ name \in {f \in [Roles -> RoleNames \cup {"none"}] :
                 /\ f[AdminId] = "admin"
                 /\ \A r, q \in Roles : f[r] = f[q] /\ f[r] # "none" => r = q}
  /\ holds = {} /\ claims = FALSE
  /\ request = [h \in Handlers |-> Nothing]
  /\ stale = {} /\ overlapped = FALSE /\ registered = {} /\ raced = {}

\* Handler h has read what it reads and goes on to write r.
Decides(h, r) ==
  /\ request[h] = Nothing /\ request' = [request EXCEPT ![h] = r]
  /\ UNCHANGED <<status, name, holds, claims, stale, overlapped, registered, raced>>

Authorised == claims  \* require_permission(MANAGE_USERS or MANAGE_ROLES)
------------------------------------------------------------------------------
\* The last-admin guard of update_user, soft_delete_user and revoke_role.
OthersRemain(u) == ActiveAdmins \ {u} # {}

UpdateUser(h, u, to) ==
  /\ Authorised
  /\ status[u] \notin {"absent", to}
  /\ to \in Gone /\ HoldsAdmin(u) => OthersRemain(u)
  /\ Decides(h, [op |-> "status", user |-> u, to |-> to])

SoftDeleteUser(h, u) ==
  /\ Authorised
  /\ status[u] \notin {"absent", "deleted"}
  /\ HoldsAdmin(u) => OthersRemain(u)
  /\ Decides(h, [op |-> "status", user |-> u, to |-> "deleted"])

InviteUser(h, u, n) ==
  /\ Authorised
  /\ status[u] = "absent" /\ Named(n) # {}
  /\ Decides(h, [op |-> "invite", user |-> u, to |-> n])

AssignRole(h, u, r) ==
  /\ Authorised
  /\ name[r] # "none" /\ status[u] # "absent" /\ <<u, r>> \notin holds
  /\ Decides(h, [op |-> "assign", user |-> u, role |-> r])

\* Plausible slip: the guard counts the target as well.
RevokeCountingAll(h, u, r) ==
  /\ Authorised
  /\ name[r] # "none"
  /\ name[r] = "admin" => ActiveAdmins # {}
  /\ Decides(h, [op |-> "revoke", user |-> u, role |-> r])

RevokeRole(h, u, r) ==
  /\ Authorised
  /\ name[r] # "none"
  /\ name[r] = "admin" => OthersRemain(u)
  /\ Decides(h, [op |-> "revoke", user |-> u, role |-> r])

\* Plausible slip: only the address is looked for, not any user.
RegisterNewAddress(h, u) ==
  /\ status[u] = "absent"
  /\ Decides(h, [op |-> "register", user |-> u])

Register(h, u) ==
  /\ \A v \in Users : status[v] = "absent"
  /\ Decides(h, [op |-> "register", user |-> u])

CreateRole(h, r, n) ==
  /\ Authorised
  /\ name[r] = "none" /\ Named(n) = {}
  /\ Decides(h, [op |-> "create", role |-> r, to |-> n])

UpdateRole(h, r, n) ==
  /\ Authorised
  /\ name[r] \notin StaticNames \cup {"none", n} /\ Named(n) = {}
  /\ Decides(h, [op |-> "rename", role |-> r, to |-> n])

DeleteRole(h, r) ==
  /\ Authorised
  /\ name[r] # "none" /\ \A u \in Users : <<u, r>> \notin holds
  /\ Decides(h, [op |-> "delete", role |-> r])
------------------------------------------------------------------------------
\* What handler h's commit means to the handlers that have decided already:
\* register read that there was no user, the others who the admins were.
Outruns(q) ==
  IF request[q].op = "register"
  THEN \E u \in Users : status[u] = "absent" /\ status'[u] # "absent"
  ELSE request[q] # Nothing /\ ActiveAdmins \ ActiveAdmins' # {}

Settles(h) ==
  /\ request' = [request EXCEPT ![h] = Nothing]
  /\ stale' = {q \in Handlers \ {h} : q \in stale \/ Outruns(q)}
  /\ overlapped' = (overlapped \/ (h \in stale /\ ActiveAdmins \ ActiveAdmins' # {}))
  /\ UNCHANGED claims

\* The UPDATE names the columns that differ from what was read, by id.
WriteStatus(h) ==
  /\ request[h].op = "status"
  /\ status' = [status EXCEPT ![request[h].user] = request[h].to]
  /\ UNCHANGED <<name, holds, registered, raced>>
  /\ Settles(h)

\* The user, and the roles looked up by name once more, in one transaction.
WriteInvite(h) ==
  /\ request[h].op = "invite"
  /\ LET u == request[h].user
         granted == Named(request[h].to)
     IN IF status[u] = "absent" /\ granted # {}
        THEN /\ status' = [status EXCEPT ![u] = "active"]
             /\ holds' = holds \cup {u} \X granted
        ELSE UNCHANGED <<status, holds>>
  /\ UNCHANGED <<name, registered, raced>>
  /\ Settles(h)

WriteRegister(h) ==
  /\ request[h].op = "register"
  /\ LET u == request[h].user
     IN IF status[u] = "absent"
        THEN /\ status' = [status EXCEPT ![u] = "active"]
             /\ holds' = holds \cup {u} \X Named("admin")
             /\ registered' = registered \cup {u}
             /\ raced' = IF h \in stale THEN raced \cup {u} ELSE raced
        ELSE UNCHANGED <<status, holds, registered, raced>>
  /\ UNCHANGED name
  /\ Settles(h)

\* Plausible slip: user_roles without its foreign keys.
WriteAssignUnchecked(h) ==
  /\ request[h].op = "assign"
  /\ holds' = holds \cup {<<request[h].user, request[h].role>>}
  /\ UNCHANGED <<status, name, registered, raced>>
  /\ Settles(h)

WriteAssign(h) ==
  /\ request[h].op = "assign"
  /\ holds' = IF name[request[h].role] = "none" THEN holds
              ELSE holds \cup {<<request[h].user, request[h].role>>}
  /\ UNCHANGED <<status, name, registered, raced>>
  /\ Settles(h)

WriteRevoke(h) ==
  /\ request[h].op = "revoke"
  /\ holds' = holds \ {<<request[h].user, request[h].role>>}
  /\ UNCHANGED <<status, name, registered, raced>>
  /\ Settles(h)

\* INSERT or UPDATE of a role; a name taken meanwhile, or a row gone, fails.
WriteRole(h) ==
  /\ request[h].op \in {"create", "rename"}
  /\ LET r == request[h].role
         free == Named(request[h].to) = {}
         there == name[r] # "none"
     IN name' = IF free /\ (there <=> request[h].op = "rename")
                THEN [name EXCEPT ![r] = request[h].to] ELSE name
  /\ UNCHANGED <<status, holds, registered, raced>>
  /\ Settles(h)

\* DELETE of a role, whose grants go with it.
WriteDelete(h) ==
  /\ request[h].op = "delete"
  /\ name' = [name EXCEPT ![request[h].role] = "none"]
  /\ holds' = {g \in holds : g[2] # request[h].role}
  /\ UNCHANGED <<status, registered, raced>>
  /\ Settles(h)

\* Sign-in and refresh put the roles of the row into a token: Authority says
\* what is assumed of them.
SignIn(u) ==
  /\ HoldsAdmin(u) /\ claims' = TRUE
  /\ UNCHANGED <<status, name, holds, request, stale, overlapped, registered, raced>>

Expire ==
  /\ claims' = FALSE
  /\ UNCHANGED <<status, name, holds, request, stale, overlapped, registered, raced>>

AdminNext ==
  \/ \E h \in Handlers :
       \/ \E u \in Users :
            \/ \E to \in Statuses : UpdateUser(h, u, to)
            \/ SoftDeleteUser(h, u) \/ Register(h, u)
            \/ \E n \in RoleNames : InviteUser(h, u, n)
            \/ \E r \in Roles : AssignRole(h, u, r) \/ RevokeRole(h, u, r)
       \/ \E r \in Roles :
            \/ \E n \in RoleNames : CreateRole(h, r, n) \/ UpdateRole(h, r, n)
            \/ DeleteRole(h, r)
       \/ WriteStatus(h) \/ WriteInvite(h) \/ WriteRegister(h) \/ WriteAssign(h)
       \/ WriteRevoke(h) \/ WriteRole(h) \/ WriteDelete(h)
  \/ (\E u \in Users : SignIn(u)) \/ Expire

AdminSpec == AdminInit /\ [][AdminNext]_adminVars
------------------------------------------------------------------------------
AdminTypeOK ==
  /\ status \in [Users -> Statuses \cup {"absent"}]
  /\ name \in [Roles -> RoleNames \cup {"none"}]
  /\ \A r, q \in Roles : name[r] = name[q] /\ name[r] # "none" => r = q
  /\ holds \subseteq {u \in Users : status[u] # "absent"} \X {r \in Roles : name[r] # "none"}
  /\ claims \in BOOLEAN
  /\ request \in [Handlers -> Requests \cup {Nothing}]
  /\ stale \subseteq Handlers /\ overlapped \in BOOLEAN
  /\ registered \subseteq Users /\ raced \subseteq registered

\* Once somebody has registered, some active user holds admin for ever,
\* whatever is suspended, deleted, revoked, renamed or deleted of roles in
\* whatever order, unless a removal was written on a count that another had
\* outrun (users.py:317-337, 389-406, 490-508).
AdminRemains == registered # {} /\ ~overlapped => ActiveAdmins # {}

\* Registration makes one user, unless two requests saw no user at once
\* (auth.py:123-151).
OneBootstrap == Cardinality(registered \ raced) <= 1

\* What users.py:317 says of the guard: that it avoids lockout.
NoLockout == registered # {} => ActiveAdmins # {}

\* What auth.py:123 says of register: that it makes the first user only.
FirstUserOnly == Cardinality(registered) <= 1
==============================================================================
