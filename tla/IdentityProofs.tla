---------------------------- MODULE IdentityProofs ----------------------------
(***************************************************************************)
(* Memberships end by removal only; tokens stay with their accounts,       *)
(* whatever terminals sign in and out at once; and what each component     *)
(* promises, it promises in Identity too.  For any users, roles, groups,   *)
(* accounts, requests in flight and terminals.                             *)
(***************************************************************************)
EXTENDS Identity, AdministrationProofs

\* A deletion was decided when the group had no members: those it has now
\* have joined since.
LateJoiners == \A e \in Editors : edit[e].op = "delete" =>
             \A m \in Members : <<m, edit[e].group>> \in members => m \in joined[e]

\* MembershipsKept is not inductive: a deletion that is decided takes from
\* kept what it takes from members only because of LateJoiners.
GroupInv == GroupTypeOK /\ LateJoiners /\ MembershipsKept

LEMMA GroupInitInv == GroupInit => GroupInv
<1> SUFFICES ASSUME GroupInit PROVE GroupInv
  OBVIOUS
<1>1. GroupTypeOK
  BY DEF GroupInit, GroupTypeOK, Edits, NoEdit
<1>2. LateJoiners
  BY DEF GroupInit, LateJoiners, NoEdit
<1> QED
  BY <1>1, <1>2 DEF GroupInv, MembershipsKept, GroupInit

\* Deciding an edit that fits its group keeps the invariant.
LEMMA PlansKeeps ==
  ASSUME GroupInv, NEW e \in Editors, NEW r \in Edits, Plans(e, r),
         r.op = "delete" => \A m \in Members : <<m, r.group>> \notin members
  PROVE  GroupInv'
<1>1. GroupTypeOK'
  BY DEF GroupInv, GroupTypeOK, Plans
<1>2. LateJoiners'
  BY DEF GroupInv, GroupTypeOK, LateJoiners, Plans
<1> QED
  BY <1>1, <1>2 DEF GroupInv, MembershipsKept, Plans

\* A commit of any edit keeps LateJoiners, for it notes who has joined.
LEMMA CommitsKeeps ==
  ASSUME GroupInv, NEW e \in Editors, Commits(e)
  PROVE  /\ LateJoiners'
         /\ edit' \in [Editors -> Edits \cup {NoEdit}]
         /\ joined' \in [Editors -> SUBSET Members]
<1>1. edit' \in [Editors -> Edits \cup {NoEdit}]
  BY DEF GroupInv, GroupTypeOK, Commits
<1>2. joined' \in [Editors -> SUBSET Members]
  BY DEF GroupInv, GroupTypeOK, Commits
<1>3. ASSUME NEW q \in Editors, edit'[q].op = "delete", NEW m \in Members,
             <<m, edit'[q].group>> \in members'
      PROVE  m \in joined'[q]
  <2>1. q # e /\ edit'[q] = edit[q]
    BY <1>3 DEF GroupInv, GroupTypeOK, Commits, NoEdit
  <2>2. joined'[q] = joined[q] \cup {n \in Members : <<n, edit[q].group>> \in members' \ members}
    BY <2>1, <1>3 DEF Commits
  <2> QED
    BY <2>1, <2>2, <1>3 DEF GroupInv, LateJoiners
<1> QED
  BY <1>1, <1>2, <1>3 DEF LateJoiners

LEMMA EditFields ==
  ASSUME GroupTypeOK, NEW e \in Editors
  PROVE  /\ edit[e].op # "none" => edit[e].group \in GroupIds
         /\ edit[e].op \in {"create", "rename"} => edit[e].to \in GroupNames
         /\ edit[e].op = "add" => edit[e].who \in Members
<1>1. edit[e] \in Edits \cup {NoEdit}
  BY DEF GroupTypeOK
<1> QED
  BY <1>1 DEF Edits, NoEdit

LEMMA GroupStep == GroupInv /\ [GroupNext]_groupVars => GroupInv'
<1> SUFFICES ASSUME GroupInv, [GroupNext]_groupVars PROVE GroupInv'
  OBVIOUS
<1>0. GroupTypeOK /\ LateJoiners /\ MembershipsKept
  BY DEF GroupInv
<1>1. ASSUME NEW e \in Editors, NEW g \in GroupIds, NEW n \in GroupNames,
             CreateGroup(e, g, n) \/ UpdateGroup(e, g, n)
      PROVE  GroupInv'
  <2>1. /\ [op |-> "create", group |-> g, to |-> n] \in Edits
        /\ [op |-> "rename", group |-> g, to |-> n] \in Edits
    BY DEF Edits
  <2> QED
    BY <1>1, <2>1, PlansKeeps DEF CreateGroup, UpdateGroup
<1>2. ASSUME NEW e \in Editors, NEW g \in GroupIds, DeleteGroup(e, g) PROVE GroupInv'
  <2>1. [op |-> "delete", group |-> g] \in Edits
    BY DEF Edits
  <2> QED
    BY <1>2, <2>1, PlansKeeps DEF DeleteGroup
<1>3. ASSUME NEW e \in Editors, NEW g \in GroupIds, NEW m \in Members, AddToGroup(e, g, m)
      PROVE  GroupInv'
  <2>1. [op |-> "add", group |-> g, who |-> m] \in Edits
    BY DEF Edits
  <2> QED
    BY <1>3, <2>1, PlansKeeps DEF AddToGroup
<1>4. ASSUME NEW e \in Editors, WriteName(e) PROVE GroupInv'
  <2>1. gname' \in [GroupIds -> GroupNames \cup {"none"}]
    BY <1>0, <1>4, EditFields DEF WriteName, GroupTypeOK
  <2> QED
    BY <1>0, <1>4, <2>1, CommitsKeeps DEF WriteName, GroupInv, GroupTypeOK, MembershipsKept
<1>5. ASSUME NEW e \in Editors, WriteAdd(e) PROVE GroupInv'
  <2>1. edit[e].who \in Members /\ edit[e].group \in GroupIds
    BY <1>0, <1>5, EditFields DEF WriteAdd
  <2>2. PICK new \in SUBSET (Members \X GroupIds) : Join(new)
    BY <1>5, <2>1 DEF WriteAdd
  <2> QED
    BY <1>0, <1>5, <2>2, CommitsKeeps DEF WriteAdd, Join, GroupInv, GroupTypeOK, MembershipsKept
<1>6. ASSUME NEW e \in Editors, WriteDeleteGroup(e) PROVE GroupInv'
  <2> DEFINE g == edit[e].group
  <2>1. g \in GroupIds /\ edit[e].op = "delete"
    BY <1>0, <1>6, EditFields DEF WriteDeleteGroup
  <2>2. GroupTypeOK'
    BY <1>0, <1>6, <2>1, CommitsKeeps DEF WriteDeleteGroup, GroupTypeOK
  <2>3. MembershipsKept'
    <3>1. ASSUME NEW p \in kept' PROVE p \in members'
      <4>1. p \in kept /\ p \in members /\ p \notin joined[e] \X {g}
        BY <1>0, <1>6, <3>1 DEF WriteDeleteGroup, MembershipsKept
      <4>2. PICK m \in Members, h \in GroupIds : p = <<m, h>>
        BY <1>0, <4>1 DEF GroupTypeOK
      <4>3. h # g
        BY <1>0, <2>1, <4>1, <4>2 DEF LateJoiners
      <4> QED
        BY <1>6, <4>1, <4>2, <4>3 DEF WriteDeleteGroup
    <3> QED
      BY <3>1 DEF MembershipsKept
  <2> QED
    BY <1>6, <2>2, <2>3, CommitsKeeps DEF WriteDeleteGroup, GroupInv
<1>7. ASSUME NEW g \in GroupIds, NEW m \in Members, RemoveFromGroup(g, m) PROVE GroupInv'
  <2>1. GroupTypeOK' /\ MembershipsKept'
    BY <1>0, <1>7 DEF RemoveFromGroup, GroupTypeOK, MembershipsKept
  <2>2. LateJoiners'
    BY <1>0, <1>7 DEF RemoveFromGroup, LateJoiners
  <2> QED
    BY <2>1, <2>2 DEF GroupInv
<1>8. ASSUME NEW p \in People, NEW G \in SUBSET GroupIds, InviteInto(p, G) PROVE GroupInv'
  <2> DEFINE new == {p} \X {g \in G : Exists(g)}
  <2>1. new \subseteq Members \X GroupIds /\ members' = members \cup new /\ kept' = kept \cup new
    BY <1>8 DEF InviteInto, Join, Members
  <2>2. GroupTypeOK'
    <3>1. joined' \in [Editors -> SUBSET Members]
      BY <1>0, <1>8 DEF InviteInto, GroupTypeOK, Members
    <3> QED
      BY <1>0, <1>8, <2>1, <3>1 DEF InviteInto, GroupTypeOK
  <2>3. MembershipsKept'
    BY <1>0, <2>1 DEF MembershipsKept
  <2>4. ASSUME NEW q \in Editors, edit[q].op = "delete", NEW m \in Members,
               <<m, edit[q].group>> \in members'
        PROVE  m \in joined'[q]
    <3>1. CASE <<m, edit[q].group>> \in members
      BY <1>0, <1>8, <2>4, <3>1 DEF InviteInto, LateJoiners
    <3>2. CASE <<m, edit[q].group>> \notin members
      BY <1>8, <2>1, <2>4, <3>2 DEF InviteInto
    <3> QED
      BY <3>1, <3>2
  <2> QED
    BY <1>8, <2>2, <2>3, <2>4 DEF InviteInto, GroupInv, LateJoiners
<1>9. CASE UNCHANGED groupVars
  BY <1>0, <1>9 DEF groupVars, GroupInv, GroupTypeOK, LateJoiners, MembershipsKept
<1> QED
  BY <1>1, <1>2, <1>3, <1>4, <1>5, <1>6, <1>7, <1>8, <1>9 DEF GroupNext

\* The tables of groups and memberships, and what is planned on them, keep
\* their types (api/v1/groups.py).
THEOREM GroupsTypeCorrect == GroupSpec => []GroupTypeOK
<1>1. GroupInv => GroupTypeOK
  BY DEF GroupInv
<1> QED
  BY GroupInitInv, GroupStep, <1>1, PTL DEF GroupSpec

\* A membership ends by its removal only, whoever joins between the count and
\* the deletion of a group (groups.py:239-257).
THEOREM MembershipsLast == GroupSpec => []MembershipsKept
<1>1. GroupInv => MembershipsKept
  BY DEF GroupInv
<1> QED
  BY GroupInitInv, GroupStep, <1>1, PTL DEF GroupSpec
------------------------------------------------------------------------------
CommandStates(n) ==
  [does : {"none", "ask", "login", "logout"},
   at : {"idle", "send", "refresh", "clear", "read", "write"},
   as : Accounts \cup {NoAccount}, pair : 0..n,
   to : Accounts \cup {NoAccount}, retried : BOOLEAN, seen : Seq(Accounts)]

\* A command knows the account it was told, and has in memory a pair of the
\* account it began with; a pair it has just renewed has not expired.
Apt(k) ==
  /\ k.does \in {"login", "logout"} => k.to \in Accounts
  /\ k.pair # 0 => k.as \in Accounts /\ owner[k.pair] = k.as
  /\ k.does = "ask" /\ k.at = "send" /\ k.retried => k.pair # 0 /\ k.pair \notin lapsed
  /\ k.does = "login" /\ k.at = "write" => \A i \in 1..Len(k.seen) : k.seen[i] # k.to
  /\ IsInjective(k.seen)
CommandsApt == \A c \in Commands : Apt(command[c])

\* A logout that has cleared its account has yet to strike it out.
Leaving(c, e) == command[c].does = "logout" /\ command[c].at \in {"read", "write"}
                 /\ command[c].to = e
\* IndexBacked is not inductive: a logout that has not cleared yet may be
\* interrupted, and a login may list an account that was cleared since.
Backed == ~mixed =>
  /\ \A i \in 1..Len(index) : keyring[index[i]] # 0 \/ \E c \in Commands : Leaving(c, index[i])
  /\ \A c \in Commands : command[c].does = "login" /\ command[c].at \in {"read", "write"}
       => keyring[command[c].to] # 0

CliInv == CliTypeOK /\ OwnTokens /\ RenewableServed /\ CommandsApt /\ Backed

LEMMA EmptyIndex == <<>> \in Seq(Accounts) /\ IsInjective(<<>>) /\ Len(<<>>) = 0
BY DEF IsInjective

LEMMA NoCommandApt == NoCommand \in CommandStates(0) /\ Apt(NoCommand)
BY EmptyIndex DEF NoCommand, Running, CommandStates, Apt

LEMMA CliInitInv == CliInit => CliInv
<1> SUFFICES ASSUME CliInit PROVE CliInv
  OBVIOUS
<1>1. CliTypeOK
  <2>1. command \in [Commands -> CommandStates(Len(owner))]
    BY EmptyIndex, NoCommandApt DEF CliInit
  <2>2. keyring \in [Accounts -> 0..Len(owner)]
    BY EmptyIndex DEF CliInit
  <2> QED
    BY <2>1, <2>2, EmptyIndex DEF CliInit, CliTypeOK, CommandStates
<1>2. CommandsApt
  BY NoCommandApt DEF CliInit, CommandsApt
<1> QED
  BY <1>1, <1>2, EmptyIndex
  DEF CliInit, CliInv, OwnTokens, RenewableServed, Backed, NoCommand, Running

\* A command goes on to another state, and nothing else changes but the history.
LEMMA CommandKeeps ==
  ASSUME CliInv, NEW c \in Commands, NEW r \in CommandStates(Len(owner)), Apt(r),
         command' = [command EXCEPT ![c] = r],
         UNCHANGED <<index, keyring, owner, lapsed, ended, refused>>,
         mixed' \in BOOLEAN, mixed => mixed',
         ~mixed' => \A e \in Accounts : Leaving(c, e) =>
                      r.does = "logout" /\ r.at \in {"read", "write"} /\ r.to = e,
         ~mixed' /\ r.does = "login" /\ r.at \in {"read", "write"} => keyring[r.to] # 0
  PROVE  CliInv'
<1>0. CliTypeOK /\ OwnTokens /\ RenewableServed /\ CommandsApt /\ Backed
  BY DEF CliInv
<1>1. command \in [Commands -> CommandStates(Len(owner))]
  BY <1>0 DEF CliTypeOK, CommandStates
<1>2. command' \in [Commands -> CommandStates(Len(owner))]
  BY <1>1
<1>3. CliTypeOK'
  BY <1>0, <1>2 DEF CliTypeOK, CommandStates, Issued
<1>4. CommandsApt'
  BY <1>0, <1>1 DEF CommandsApt, Apt
<1>5. Backed'
  <2> SUFFICES ASSUME ~mixed' PROVE Backed'
    BY DEF Backed
  <2>1. ASSUME NEW i \in 1..Len(index)
        PROVE  keyring[index[i]] # 0 \/ \E d \in Commands : Leaving(d, index[i])'
    <3>1. index[i] \in Accounts
      BY <1>0 DEF CliTypeOK
    <3>2. keyring[index[i]] # 0 \/ \E d \in Commands : Leaving(d, index[i])
      BY <1>0 DEF Backed
    <3>3. ASSUME NEW d \in Commands, Leaving(d, index[i]) PROVE Leaving(d, index[i])'
      BY <1>1, <3>1, <3>3 DEF Leaving
    <3> QED
      BY <3>2, <3>3
  <2> QED
    BY <1>0, <1>1, <2>1 DEF Backed
<1> QED
  BY <1>0, <1>3, <1>4, <1>5 DEF CliInv, OwnTokens, RenewableServed

\* The state of a terminal, and the pair it would begin with.
LEMMA CommandFields ==
  ASSUME CliInv, NEW c \in Commands
  PROVE  /\ command[c] \in CommandStates(Len(owner)) /\ Apt(command[c])
         /\ Len(owner) \in Nat
         /\ \A e \in Accounts : keyring[e] \in 0..Len(owner)
BY DEF CliInv, CliTypeOK, CommandStates, CommandsApt

\* A command that has changed nothing ends.
LEMMA FinishKeeps ==
  ASSUME CliInv, NEW c \in Commands, Finish(c),
         UNCHANGED <<index, keyring, owner, lapsed, ended, refused>>,
         mixed' \in BOOLEAN, mixed => mixed',
         ~mixed' => command[c].at \notin {"read", "write"} \/ command[c].does # "logout"
  PROVE  CliInv'
<1>1. NoCommand \in CommandStates(Len(owner)) /\ Apt(NoCommand)
  BY CommandFields, NoCommandApt DEF CommandStates
<1>2. NoCommand.does # "login"
  BY DEF NoCommand, Running
<1> QED
  BY <1>1, <1>2, CommandKeeps DEF Finish, Leaving

LEMMA BeginKeeps ==
  ASSUME CliInv, NEW c \in Commands,
         Ask(c) \/ \E e \in Accounts : LogIn(c, e) \/ LogOut(c, e)
  PROVE  CliInv'
<1>0. /\ CliTypeOK /\ OwnTokens /\ mixed \in BOOLEAN
      /\ command[c].does = "none"
  BY DEF CliInv, CliTypeOK, Ask, LogIn, LogOut, Begin, NoCommand, Running
<1> DEFINE pair == IF First = NoAccount THEN 0 ELSE keyring[First]
<1>1. /\ First \in Accounts \cup {NoAccount} /\ pair \in 0..Len(owner)
      /\ pair # 0 => First \in Accounts /\ owner[pair] = First
  <2>1. index # <<>> => index[1] \in Accounts
    BY <1>0 DEF CliTypeOK
  <2> QED
    BY <1>0, <2>1, CommandFields, CommandAssumption DEF First, OwnTokens
<1>2. ASSUME NEW does \in {"ask", "login"}, NEW to \in Accounts \cup {NoAccount},
             does = "login" => to \in Accounts, Begin(c, does, to)
      PROVE  CliInv'
  <2> DEFINE r == Running(does, "send", First, pair, to)
  <2>1. r \in CommandStates(Len(owner)) /\ Apt(r) /\ r.at = "send"
    BY <1>1, <1>2, EmptyIndex DEF Running, CommandStates, Apt
  <2> QED
    BY <1>0, <1>2, <2>1, CommandKeeps DEF Begin, Leaving
<1>3. ASSUME NEW e \in Accounts, LogOut(c, e) PROVE CliInv'
  <2> DEFINE r == Running("logout", "clear", NoAccount, 0, e)
  <2>1. r \in CommandStates(Len(owner)) /\ Apt(r) /\ r.at = "clear"
    BY EmptyIndex, CommandFields DEF Running, CommandStates, Apt
  <2> QED
    BY <1>0, <1>3, <2>1, CommandKeeps DEF LogOut, Leaving
<1> QED
  BY <1>2, <1>3 DEF Ask, LogIn

\* A pair that was renewed a moment ago is accepted, so that a second 401 is
\* of a login, or of a pair that cannot be renewed.
LEMMA UnauthorizedKeeps ==
  ASSUME CliInv, NEW c \in Commands, Unauthorized(c),
         command[c].does \in {"ask", "login"}, command[c].at = "send",
         command[c].does = "ask" => command[c].pair = 0 \/ command[c].pair \in lapsed,
         UNCHANGED <<index, keyring, owner, lapsed, ended, mixed>>
  PROVE  CliInv'
<1>0. command[c] \in CommandStates(Len(owner)) /\ Apt(command[c]) /\ mixed \in BOOLEAN
  BY CommandFields DEF CliInv, CliTypeOK
<1>1. CASE command[c].retried
  <2>1. refused' = refused /\ Finish(c)
    BY <1>0, <1>1 DEF Unauthorized, Apt, CliInv, RenewableServed, CliTypeOK
  <2> QED
    BY <1>0, <2>1, FinishKeeps
<1>2. CASE ~command[c].retried
  <2> DEFINE r == [command[c] EXCEPT !.at = "refresh"]
  <2>1. r \in CommandStates(Len(owner)) /\ r.at = "refresh" /\ Apt(r)
    BY <1>0 DEF CommandStates, Apt
  <2>2. command' = [command EXCEPT ![c] = r] /\ UNCHANGED refused
    BY <1>2 DEF Unauthorized, Now
  <2> QED
    BY <1>0, <2>1, <2>2, CommandKeeps DEF Leaving
<1> QED
  BY <1>1, <1>2

LEMMA RequestsKeep ==
  ASSUME CliInv, NEW c \in Commands,
         Asked(c) \/ Unanswered(c) \/ LoginRefused(c) \/ NotRenewed(c) \/ Interrupt(c)
  PROVE  CliInv'
<1>0. mixed \in BOOLEAN
  BY DEF CliInv, CliTypeOK
<1>1. CASE Asked(c)
  BY <1>0, <1>1, UnauthorizedKeeps, FinishKeeps DEF Asked, At
<1>2. CASE Unanswered(c) \/ NotRenewed(c)
  BY <1>0, <1>2, FinishKeeps DEF Unanswered, NotRenewed, At
<1>3. CASE LoginRefused(c)
  BY <1>3, UnauthorizedKeeps DEF LoginRefused, At
<1>4. CASE Interrupt(c)
  BY <1>0, <1>4, FinishKeeps DEF Interrupt
<1> QED
  BY <1>1, <1>2, <1>3, <1>4

LEMMA ReadIndexKeeps ==
  ASSUME CliInv, NEW c \in Commands, ReadIndex(c) PROVE CliInv'
<1>0. /\ command[c] \in CommandStates(Len(owner)) /\ Apt(command[c])
      /\ CliTypeOK /\ Backed /\ mixed \in BOOLEAN
      /\ command[c].does \in {"login", "logout"} /\ command[c].at = "read"
  BY CommandFields DEF CliInv, CliTypeOK, ReadIndex, At
<1>1. CASE command[c].does = "login" /\ Contains(index, command[c].to)
  BY <1>0, <1>1, FinishKeeps DEF ReadIndex
<1>2. CASE ~(command[c].does = "login" /\ Contains(index, command[c].to))
  <2> DEFINE r == [command[c] EXCEPT !.at = "write", !.seen = index]
  <2>1. /\ r \in CommandStates(Len(owner)) /\ r.at = "write" /\ r.does = command[c].does
        /\ r.to = command[c].to
    BY <1>0 DEF CommandStates, CliTypeOK
  <2>2. Apt(r)
    BY <1>0, <1>2 DEF CommandStates, Apt, CliTypeOK, Contains
  <2>3. command' = [command EXCEPT ![c] = r]
    BY <1>2 DEF ReadIndex
  <2> QED
    BY <1>0, <2>1, <2>2, <2>3, CommandKeeps DEF ReadIndex, Leaving, Backed
<1> QED
  BY <1>1, <1>2

\* What is left of a list without repetitions when one account is struck out.
LEMMA StruckOut ==
  ASSUME NEW s \in Seq(Accounts), IsInjective(s), NEW e
  PROVE  LET t == RemoveFirst(s, e)
         IN /\ t \in Seq(Accounts) /\ IsInjective(t)
            /\ \A i \in 1..Len(t) : t[i] # e /\ \E j \in 1..Len(s) : t[i] = s[j]
<1>1. CASE ~\E i \in 1..Len(s) : s[i] = e
  BY <1>1 DEF RemoveFirst
<1>2. CASE \E i \in 1..Len(s) : s[i] = e
  <2>1. PICK i \in 1..Len(s) : s[i] = e
    BY <1>2
  <2> DEFINE t == SubSeq(s, 1, i - 1) \o SubSeq(s, i + 1, Len(s))
  <2>2. \A j, k \in 1..Len(s) : s[j] = s[k] => j = k
    BY DEF IsInjective
  <2>3. {j \in 1..Len(s) : s[j] = e} = {i}
    BY <2>1, <2>2
  <2>4. SelectInSeq(s, LAMBDA v : v = e) = i
    BY <2>3 DEF SelectInSeq, Min
  <2>5. RemoveFirst(s, e) = t
    BY <1>2, <2>4 DEF RemoveFirst, RemoveAt
  <2> DEFINE front == SubSeq(s, 1, i - 1)
             back == SubSeq(s, i + 1, Len(s))
  <2>a. /\ front \in Seq(Accounts) /\ Len(front) = i - 1
        /\ \A k \in 1..i - 1 : front[k] = s[k]
    BY <2>1
  <2>b. /\ back \in Seq(Accounts) /\ Len(back) = Len(s) - i
        /\ \A k \in 1..Len(s) - i : back[k] = s[k + i]
    BY <2>1
  <2> HIDE DEF front, back
  <2>6. \A f, g \in Seq(Accounts) :
          /\ f \o g \in Seq(Accounts) /\ Len(f \o g) = Len(f) + Len(g)
          /\ \A k \in 1..Len(f) + Len(g) :
               (f \o g)[k] = IF k <= Len(f) THEN f[k] ELSE g[k - Len(f)]
    OBVIOUS
  <2>7. /\ front \o back \in Seq(Accounts) /\ Len(front \o back) = Len(s) - 1
        /\ \A k \in 1..Len(s) - 1 : (front \o back)[k] = s[IF k < i THEN k ELSE k + 1]
    <3>1. Len(front) + Len(back) = Len(s) - 1
      BY <2>1, <2>a, <2>b
    <3>2. front \o back \in Seq(Accounts) /\ Len(front \o back) = Len(s) - 1
      BY <2>6, <2>a, <2>b, <3>1
    <3>3. ASSUME NEW k \in 1..Len(s) - 1
          PROVE  (front \o back)[k] = s[IF k < i THEN k ELSE k + 1]
      <4>1. (front \o back)[k] = IF k <= Len(front) THEN front[k] ELSE back[k - Len(front)]
        BY <2>6, <2>a, <2>b, <3>1
      <4>2. CASE k < i
        BY <2>1, <2>a, <4>1, <4>2
      <4>3. CASE k >= i
        <5>1. k - Len(front) = k - i + 1 /\ k - i + 1 \in 1..Len(s) - i
          BY <2>1, <2>a, <4>3
        <5>2. back[k - i + 1] = s[k - i + 1 + i] /\ k - i + 1 + i = k + 1
          BY <2>1, <2>b, <5>1
        <5>3. (front \o back)[k] = back[k - i + 1]
          BY <2>1, <2>a, <4>1, <4>3, <5>1
        <5> QED
          BY <2>1, <4>3, <5>2, <5>3
      <4>4. k < i \/ k >= i
        BY <2>1
      <4> QED
        BY <4>2, <4>3, <4>4, Zenon
    <3> QED
      BY <3>2, <3>3
  <2>c. PICK u : u = t
    OBVIOUS
  <2>d. /\ u \in Seq(Accounts) /\ Len(u) = Len(s) - 1
        /\ \A k \in 1..Len(u) : u[k] = s[IF k < i THEN k ELSE k + 1]
    BY <2>7, <2>c DEF front, back
  <2> HIDE DEF t
  <2> DEFINE place(k) == IF k < i THEN k ELSE k + 1
  <2>g. ASSUME NEW k \in 1..Len(u)
        PROVE  place(k) \in 1..Len(s) /\ place(k) # i /\ u[k] = s[place(k)]
    <3>1. k \in 1..Len(s) - 1 /\ u[k] = s[place(k)]
      BY <2>d
    <3> QED
      BY <2>1, <3>1
  <2>h. \A j, k \in 1..Len(u) : place(j) = place(k) => j = k
    <3>1. 1..Len(u) \subseteq Int
      BY <2>1, <2>d
    <3> QED
      BY <2>1, <3>1
  <2> HIDE DEF place
  <2>8. \A j, k \in 1..Len(u) : u[j] = u[k] => j = k
    <3> SUFFICES ASSUME NEW j \in 1..Len(u), NEW k \in 1..Len(u), u[j] = u[k]
                 PROVE  j = k
      OBVIOUS
    <3>1. place(j) = place(k)
      BY <2>2, <2>g
    <3> QED
      BY <2>h, <3>1
  <2>9. \A k \in 1..Len(u) : u[k] # e /\ \E j \in 1..Len(s) : u[k] = s[j]
    <3> SUFFICES ASSUME NEW k \in 1..Len(u)
                 PROVE  u[k] # e /\ \E j \in 1..Len(s) : u[k] = s[j]
      OBVIOUS
    <3> QED
      BY <2>1, <2>2, <2>g
  <2>e. IsInjective(u)
    BY <2>d, <2>8 DEF IsInjective
  <2>f. RemoveFirst(s, e) = u
    BY <2>5, <2>c DEF front, back
  <2> HIDE DEF t
  <2> QED
    BY <2>d, <2>e, <2>f, <2>9
<1> QED
  BY <1>1, <1>2

LEMMA WriteIndexKeeps ==
  ASSUME CliInv, NEW c \in Commands, WriteIndex(c) PROVE CliInv'
<1> DEFINE k == command[c]
<1>0. /\ k \in CommandStates(Len(owner)) /\ Apt(k)
      /\ CliTypeOK /\ OwnTokens /\ RenewableServed /\ CommandsApt /\ Backed
      /\ k.does \in {"login", "logout"} /\ k.at = "write" /\ k.to \in Accounts
      /\ k.seen \in Seq(Accounts) /\ IsInjective(k.seen)
      /\ command \in [Commands -> CommandStates(Len(owner))]
      /\ command' = [command EXCEPT ![c] = NoCommand]
      /\ mixed' = (mixed \/ k.seen # index)
      /\ UNCHANGED <<keyring, owner, lapsed, ended, refused>>
  BY CommandFields DEF CliInv, CliTypeOK, WriteIndex, At, Apt, CommandStates, Finish
<1>1. /\ index' \in Seq(Accounts) /\ IsInjective(index')
      /\ \A i \in 1..Len(index') :
           \/ k.does = "login" /\ index'[i] = k.to
           \/ /\ \E j \in 1..Len(k.seen) : index'[i] = k.seen[j]
              /\ k.does = "logout" => index'[i] # k.to
  <2>1. CASE k.does = "login"
    <3>1. index' = Append(k.seen, k.to)
      BY <1>0, <2>1 DEF WriteIndex
    <3>2. index' \in Seq(Accounts) /\ Len(index') = Len(k.seen) + 1
      BY <1>0, <3>1
    <3>3. \A i \in 1..Len(index') : index'[i] = IF i <= Len(k.seen) THEN k.seen[i] ELSE k.to
      BY <1>0, <3>1
    <3>4. \A i \in 1..Len(k.seen) : k.seen[i] # k.to
      BY <1>0, <2>1 DEF Apt
    <3>5. \A i, j \in 1..Len(k.seen) : k.seen[i] = k.seen[j] => i = j
      BY <1>0 DEF IsInjective
    <3>6. \A i, j \in 1..Len(index') : index'[i] = index'[j] => i = j
      BY <1>0, <3>2, <3>3, <3>4, <3>5
    <3>7. IsInjective(index')
      BY <3>2, <3>6 DEF IsInjective
    <3> QED
      BY <1>0, <2>1, <3>2, <3>3, <3>7
  <2>2. CASE k.does = "logout"
    <3>1. index' = RemoveFirst(k.seen, k.to)
      BY <1>0, <2>2 DEF WriteIndex
    <3> QED
      BY <1>0, <2>2, <3>1, StruckOut
  <2> QED
    BY <1>0, <2>1, <2>2
<1>2. CommandsApt' /\ command' \in [Commands -> CommandStates(Len(owner))]
  <2>1. NoCommand \in CommandStates(Len(owner)) /\ Apt(NoCommand)
    BY CommandFields, NoCommandApt DEF CommandStates
  <2>2. \A r : Apt(r)' <=> Apt(r)
    BY <1>0 DEF Apt
  <2> QED
    BY <1>0, <2>1, <2>2 DEF CommandsApt
<1>3. CliTypeOK'
  BY <1>0, <1>1, <1>2 DEF CliTypeOK, CommandStates, Issued
<1>4. Backed'
  <2> SUFFICES ASSUME ~mixed' PROVE Backed'
    BY DEF Backed
  <2>1. ~mixed /\ k.seen = index
    BY <1>0
  <2>2. ASSUME NEW e \in Accounts, NEW i \in 1..Len(index'), e = index'[i]
        PROVE  keyring[e] # 0 \/ \E d \in Commands : Leaving(d, e)'
    <3>1. CASE k.does = "login" /\ e = k.to
      BY <1>0, <2>1, <3>1 DEF Backed
    <3>2. CASE (\E j \in 1..Len(index) : e = index[j]) /\ (k.does = "logout" => e # k.to)
      <4>1. keyring[e] # 0 \/ \E d \in Commands : Leaving(d, e)
        BY <1>0, <2>1, <3>2 DEF Backed
      <4>2. ASSUME NEW d \in Commands, Leaving(d, e) PROVE d # c /\ command'[d] = command[d]
        BY <1>0, <3>2, <4>2 DEF Leaving
      <4> QED
        BY <1>0, <4>1, <4>2 DEF Leaving
    <3> QED
      BY <1>1, <2>1, <2>2, <3>1, <3>2
  <2>3. ASSUME NEW d \in Commands, command'[d].does = "login", command'[d].at \in {"read", "write"}
        PROVE  keyring[command'[d].to] # 0
    <3>1. command'[d] = command[d]
      BY <1>0, <2>3 DEF NoCommand, Running
    <3> QED
      BY <1>0, <2>1, <2>3, <3>1 DEF Backed
  <2>4. \A i \in 1..Len(index') : index'[i] \in Accounts
    BY <1>1
  <2> QED
    BY <1>0, <2>2, <2>3, <2>4 DEF Backed
<1> QED
  BY <1>0, <1>2, <1>3, <1>4 DEF CliInv, OwnTokens, RenewableServed

\* One more pair is issued, and what was known of the others stays so.
LEMMA PairIssued ==
  ASSUME CliInv, NEW e \in Accounts, owner' = Append(owner, e), UNCHANGED <<lapsed, ended>>
  PROVE  /\ owner' \in Seq(Accounts) /\ Len(owner) \in Nat /\ Len(owner') = Len(owner) + 1
         /\ owner'[Len(owner')] = e
         /\ \A n \in 1..Len(owner) : owner'[n] = owner[n]
         /\ lapsed' \subseteq 1..Len(owner) /\ ended' \subseteq lapsed'
         /\ \A r \in CommandStates(Len(owner)) :
              Apt(r) => r \in CommandStates(Len(owner')) /\ Apt(r)'
<1>1. owner \in Seq(Accounts) /\ lapsed \subseteq 1..Len(owner) /\ ended \subseteq lapsed
  BY DEF CliInv, CliTypeOK, Issued
<1>2. /\ owner' \in Seq(Accounts) /\ Len(owner) \in Nat /\ Len(owner') = Len(owner) + 1
      /\ owner'[Len(owner')] = e
      /\ \A n \in 1..Len(owner) : owner'[n] = owner[n]
  BY <1>1
<1>3. ASSUME NEW r \in CommandStates(Len(owner)), Apt(r)
      PROVE  r \in CommandStates(Len(owner')) /\ Apt(r)'
  <2>1. r \in CommandStates(Len(owner'))
    BY <1>2 DEF CommandStates
  <2>2. r.pair # 0 => owner'[r.pair] = owner[r.pair]
    BY <1>2 DEF CommandStates
  <2> QED
    BY <1>3, <2>1, <2>2 DEF Apt
<1> QED
  BY <1>1, <1>2, <1>3

\* A command is given a pair that was issued just now, and may store it.
LEMMA IssuedKeeps ==
  ASSUME CliInv, NEW c \in Commands, NEW e \in Accounts, owner' = Append(owner, e),
         NEW r \in CommandStates(Len(owner')), Apt(r)',
         command' = [command EXCEPT ![c] = r],
         keyring' \in {keyring, [keyring EXCEPT ![e] = Len(owner')]},
         UNCHANGED <<index, lapsed, ended, mixed, refused>>,
         command[c].at \notin {"read", "write"},
         r.at \in {"read", "write"} => r.to = e /\ keyring' # keyring
  PROVE  CliInv'
<1>0. /\ CliTypeOK /\ OwnTokens /\ RenewableServed /\ CommandsApt /\ Backed
      /\ command \in [Commands -> CommandStates(Len(owner))]
      /\ keyring \in [Accounts -> 0..Len(owner)]
  BY DEF CliInv, CliTypeOK, CommandStates
<1>1. /\ owner' \in Seq(Accounts) /\ Len(owner) \in Nat /\ Len(owner') = Len(owner) + 1
      /\ owner'[Len(owner')] = e
      /\ \A n \in 1..Len(owner) : owner'[n] = owner[n]
      /\ lapsed' \subseteq 1..Len(owner) /\ ended' \subseteq lapsed'
      /\ \A q \in CommandStates(Len(owner)) :
           Apt(q) => q \in CommandStates(Len(owner')) /\ Apt(q)'
  BY PairIssued
<1>2. /\ command' \in [Commands -> CommandStates(Len(owner'))]
      /\ \A d \in Commands : \E q : q = command'[d] /\ Apt(q)'
  <2>1. \A d \in Commands : command[d] \in CommandStates(Len(owner)) /\ Apt(command[d])
    BY CommandFields
  <2>2. ASSUME NEW d \in Commands
        PROVE  command'[d] \in CommandStates(Len(owner')) /\ \E q : q = command'[d] /\ Apt(q)'
    <3>1. CASE d = c
      BY <1>0, <3>1
    <3>2. CASE d # c
      <4>1. PICK q \in CommandStates(Len(owner)) : q = command[d] /\ Apt(q)
        BY <2>1
      <4>2. command'[d] = q
        BY <1>0, <3>2, <4>1
      <4> QED
        BY <1>1, <4>1, <4>2
    <3> QED
      BY <3>1, <3>2
  <2> QED
    BY <1>0, <2>2
<1>3. /\ keyring' \in [Accounts -> 0..Len(owner')]
      /\ \A a \in Accounts : keyring'[a] \in {keyring[a], Len(owner')}
      /\ \A a \in Accounts \ {e} : keyring'[a] = keyring[a]
  BY <1>0, <1>1
<1>4. CliTypeOK'
  BY <1>0, <1>1, <1>2, <1>3 DEF CliTypeOK, CommandStates, Issued
<1>5. CommandsApt'
  <2>1. ASSUME NEW d \in Commands PROVE Apt(command[d])'
    <3>1. PICK q : q = command'[d] /\ Apt(q)'
      BY <1>2
    <3> QED
      BY <3>1 DEF Apt
  <2> QED
    BY <2>1 DEF CommandsApt
<1>6. OwnTokens'
  BY <1>0, <1>1, <1>3 DEF OwnTokens
<1>7. Backed'
  <2> SUFFICES ASSUME ~mixed' PROVE Backed'
    BY DEF Backed
  <2>1. \A a \in Accounts : keyring[a] # 0 => keyring'[a] # 0
    BY <1>0, <1>1, <1>3
  <2>2. ASSUME NEW d \in Commands, NEW a \in Accounts, Leaving(d, a) PROVE Leaving(d, a)'
    BY <1>0, <2>2 DEF Leaving
  <2>3. \A i \in 1..Len(index) : index[i] \in Accounts
    BY <1>0 DEF CliTypeOK
  <2>4. ASSUME NEW d \in Commands, command'[d].does = "login", command'[d].at \in {"read", "write"}
        PROVE  keyring'[command'[d].to] # 0
    <3>1. CASE d = c
      BY <1>0, <1>1, <2>4, <3>1
    <3>2. CASE d # c
      BY <1>0, <2>1, <2>4, <3>2 DEF Backed, CommandsApt, Apt
    <3> QED
      BY <3>1, <3>2
  <2>5. ASSUME NEW i \in 1..Len(index)
        PROVE  keyring'[index[i]] # 0 \/ \E d \in Commands : Leaving(d, index[i])'
    BY <1>0, <2>1, <2>2, <2>3 DEF Backed
  <2> QED
    BY <2>4, <2>5 DEF Backed
<1> QED
  BY <1>0, <1>4, <1>5, <1>6, <1>7 DEF CliInv, RenewableServed

LEMMA LoginAcceptedKeeps ==
  ASSUME CliInv, NEW c \in Commands, LoginAccepted(c) PROVE CliInv'
<1>0. PICK e, r : e = command[c].to /\ r = Running("login", "read", NoAccount, 0, e)
  OBVIOUS
<1>1. e \in Accounts /\ command[c].at = "send" /\ owner \in Seq(Accounts)
  BY <1>0, CommandFields DEF LoginAccepted, At, Apt, CliInv, CliTypeOK
<1>2. r \in CommandStates(Len(owner')) /\ r.at = "read" /\ r.to = e /\ Apt(r)'
  BY <1>0, <1>1, EmptyIndex DEF LoginAccepted, Running, CommandStates, Apt
<1>3. owner' = Append(owner, e) /\ keyring' = [keyring EXCEPT ![e] = Len(owner')]
  BY <1>0 DEF LoginAccepted
<1>4. keyring' # keyring
  <2>1. keyring \in [Accounts -> 0..Len(owner)] /\ Len(owner') = Len(owner) + 1 /\ Len(owner) \in Nat
    BY <1>1, <1>3 DEF CliInv, CliTypeOK
  <2>2. keyring[e] # Len(owner')
    BY <1>1, <2>1
  <2> QED
    BY <1>1, <1>3, <2>1, <2>2
<1> QED
  BY <1>0, <1>1, <1>2, <1>3, <1>4, IssuedKeeps DEF LoginAccepted

LEMMA RenewedKeeps ==
  ASSUME CliInv, NEW c \in Commands, Renewed(c) PROVE CliInv'
<1>0. PICK e, k, r :
        /\ k = command[c] /\ e = k.as
        /\ r = [k EXCEPT !.at = "send", !.retried = TRUE, !.pair = Len(owner')]
  OBVIOUS
<1>1. /\ k \in CommandStates(Len(owner)) /\ Apt(k) /\ k.at = "refresh"
      /\ k.pair # 0 /\ e \in Accounts /\ owner[k.pair] = e
  BY <1>0, CommandFields DEF Renewed, Renewable, Apt
<1>2. owner' = Append(owner, e) /\ UNCHANGED <<lapsed, ended>>
  BY <1>0, <1>1 DEF Renewed
<1>3. /\ Len(owner') = Len(owner) + 1 /\ Len(owner) \in Nat /\ owner'[Len(owner')] = e
      /\ lapsed' \subseteq 1..Len(owner)
  BY <1>1, <1>2, PairIssued
<1>4. /\ r \in CommandStates(Len(owner')) /\ r.at = "send" /\ r.as = e /\ r.pair = Len(owner')
      /\ r.does = k.does /\ r.to = k.to /\ r.seen = k.seen
  <2>1. PICK n : n = Len(owner') /\ n \in 0..n
    BY <1>3
  <2>2. r = [k EXCEPT !.at = "send", !.retried = TRUE, !.pair = n]
    BY <1>0, <2>1
  <2> QED
    BY <1>0, <1>1, <2>1, <2>2 DEF CommandStates
<1>5. Apt(r)'
  BY <1>1, <1>3, <1>4 DEF Apt
<1>6. /\ command' = [command EXCEPT ![c] = r]
      /\ keyring' \in {keyring, [keyring EXCEPT ![e] = Len(owner')]}
      /\ UNCHANGED <<index, lapsed, ended, mixed, refused>>
  BY <1>0 DEF Renewed
<1>7. command[c].at \notin {"read", "write"} /\ r.at \notin {"read", "write"}
  BY <1>0, <1>1, <1>4
<1> QED
  BY <1>1, <1>2, <1>4, <1>5, <1>6, <1>7, IssuedKeeps

LEMMA ClearKeeps ==
  ASSUME CliInv, NEW c \in Commands, Clear(c) PROVE CliInv'
<1>0. /\ CliTypeOK /\ OwnTokens /\ RenewableServed /\ CommandsApt /\ Backed
      /\ command \in [Commands -> CommandStates(Len(owner))]
      /\ keyring \in [Accounts -> 0..Len(owner)] /\ Len(owner) \in Nat
      /\ mixed \in BOOLEAN
  BY DEF CliInv, CliTypeOK, CommandStates
<1>1. PICK e, r : e = command[c].to /\ r = [command[c] EXCEPT !.at = "read"]
  OBVIOUS
<1>2. /\ command[c].does = "logout" /\ command[c].at = "clear" /\ e \in Accounts
      /\ Apt(command[c]) /\ command[c] \in CommandStates(Len(owner))
  BY <1>1, CommandFields DEF Clear, At, Apt
<1>3. r \in CommandStates(Len(owner)) /\ r.at = "read" /\ r.does = "logout" /\ r.to = e /\ Apt(r)
  BY <1>1, <1>2 DEF CommandStates, Apt
<1>4. /\ command' = [command EXCEPT ![c] = r] /\ keyring' = [keyring EXCEPT ![e] = 0]
      /\ UNCHANGED <<index, owner, lapsed, ended, refused>>
      /\ mixed' = (mixed \/ \E d \in Commands : /\ At(d, {"login"}, "read") \/ At(d, {"login"}, "write")
                                                /\ command[d].to = e)
  BY <1>1 DEF Clear, Now
<1>5. CliTypeOK'
  <2>1. command' \in [Commands -> CommandStates(Len(owner))]
    BY <1>0, <1>3, <1>4
  <2>2. keyring' \in [Accounts -> 0..Len(owner)]
    BY <1>0, <1>2, <1>4
  <2> QED
    BY <1>0, <1>4, <2>1, <2>2 DEF CliTypeOK, CommandStates, Issued
<1>6. CommandsApt' /\ OwnTokens'
  BY <1>0, <1>2, <1>3, <1>4 DEF CommandsApt, Apt, OwnTokens
<1>7. Backed'
  <2> SUFFICES ASSUME ~mixed' PROVE Backed'
    BY DEF Backed
  <2>1. ASSUME NEW a \in Accounts, keyring[a] # 0 \/ \E d \in Commands : Leaving(d, a)
        PROVE  keyring'[a] # 0 \/ \E d \in Commands : Leaving(d, a)'
    <3>1. CASE a = e
      BY <1>0, <1>3, <1>4, <3>1 DEF Leaving
    <3>2. CASE a # e
      BY <1>0, <1>2, <1>4, <2>1, <3>2 DEF Leaving
    <3> QED
      BY <3>1, <3>2
  <2>2. \A i \in 1..Len(index) : index[i] \in Accounts
    BY <1>0 DEF CliTypeOK
  <2>3. ASSUME NEW d \in Commands, command'[d].does = "login", command'[d].at \in {"read", "write"}
        PROVE  keyring'[command'[d].to] # 0
    <3>1. d # c /\ command'[d] = command[d]
      BY <1>0, <1>3, <1>4, <2>3
    <3>2. command[d].to \in Accounts
      BY <1>0, <2>3, <3>1 DEF CommandsApt, Apt
    <3>3. command[d].to # e
      BY <1>4, <2>3, <3>1 DEF At
    <3> QED
      BY <1>0, <1>4, <2>3, <3>1, <3>2, <3>3 DEF Backed
  <2> QED
    BY <1>0, <1>4, <2>1, <2>2, <2>3 DEF Backed
<1> QED
  BY <1>0, <1>4, <1>5, <1>6, <1>7 DEF CliInv, RenewableServed

\* Tokens expire, but not in the moment between a renewal and the request that
\* is made again with the new pair.
LEMMA ExpiryKeeps ==
  ASSUME CliInv, NEW n \in Held, ExpireAccess(n) \/ EndPair(n) PROVE CliInv'
<1>0. /\ CliTypeOK /\ OwnTokens /\ RenewableServed /\ CommandsApt /\ Backed
      /\ n \in Issued
      /\ UNCHANGED <<index, keyring, owner, command, mixed, refused>>
  BY DEF CliInv, Held, ExpireAccess, EndPair
<1>1. CliTypeOK'
  BY <1>0 DEF CliTypeOK, Issued, ExpireAccess, EndPair
<1>2. CommandsApt'
  BY <1>0 DEF CommandsApt, Apt, At, ExpireAccess, EndPair
<1> QED
  BY <1>0, <1>1, <1>2 DEF CliInv, OwnTokens, RenewableServed, Backed, Leaving

LEMMA CliStep == CliInv /\ [CliNext]_cliVars => CliInv'
<1> SUFFICES ASSUME CliInv, [CliNext]_cliVars PROVE CliInv'
  OBVIOUS
<1>1. CASE UNCHANGED cliVars
  <2>1. CliTypeOK'
    BY <1>1 DEF cliVars, CliInv, CliTypeOK, Issued
  <2> QED
    BY <1>1, <2>1
    DEF cliVars, CliInv, OwnTokens, RenewableServed, CommandsApt, Apt, Backed, Leaving
<1> QED
  BY <1>1, BeginKeeps, RequestsKeep, LoginAcceptedKeeps, RenewedKeeps, ClearKeeps,
     ReadIndexKeeps, WriteIndexKeeps, ExpiryKeeps DEF CliNext
------------------------------------------------------------------------------
\* Every step is a step of one component, and the others rest.
IdentityInv == AdminInv /\ GroupInv /\ CliInv

LEMMA IdentityAlways == Spec => []IdentityInv
<1>1. Init => IdentityInv
  BY AdminInitInv, GroupInitInv, CliInitInv DEF Init, IdentityInv
<1>2. IdentityInv /\ [Next]_ivars => IdentityInv'
  <2>1. [Next]_ivars => [AdminNext]_adminVars /\ [GroupNext]_groupVars /\ [CliNext]_cliVars
    BY DEF Next, Others, ivars
  <2> QED
    BY <2>1, AdminStep, GroupStep, CliStep DEF IdentityInv
<1> QED
  BY <1>1, <1>2, PTL DEF Spec

\* All the tables, files and commands of Identity keep their types, and the
\* index of accounts lists none twice.
THEOREM IdentityTypeCorrect == Spec => []TypeOK
<1>1. IdentityInv => TypeOK
  BY DEF IdentityInv, AdminInv, GroupInv, CliInv, TypeOK
<1> QED
  BY IdentityAlways, <1>1, PTL

\* What the proofs of the components establish of their own specifications
\* holds of the whole.
THEOREM IdentitySafe == Spec => [](AdminRemains /\ MembershipsKept)
<1>1. IdentityInv => AdminRemains /\ MembershipsKept
  BY DEF IdentityInv, AdminInv, GroupInv
<1> QED
  BY IdentityAlways, <1>1, PTL

\* No pair is stored under another account than its own, whichever accounts
\* sign in and out while a command renews its tokens (auth.py:203-226).
THEOREM TokensStayOwn == Spec => []OwnTokens
<1>1. IdentityInv => OwnTokens
  BY DEF IdentityInv, CliInv
<1> QED
  BY IdentityAlways, <1>1, PTL

\* A command whose pair can be renewed is not turned away with a 401, however
\* many terminals renew the same pair (client.py:186-241).
THEOREM RenewableAreServed == Spec => []RenewableServed
<1>1. IdentityInv => RenewableServed
  BY DEF IdentityInv, CliInv
<1> QED
  BY IdentityAlways, <1>1, PTL

\* While no two changes of the index and the keyring ran across one another,
\* and none was cut short, a listed account has its tokens or is being logged
\* out (auth.py:114-187, 276-302).
THEOREM IndexIsBacked == Spec => []IndexBacked
<1>1. IdentityInv => IndexBacked
  <2> SUFFICES ASSUME IdentityInv, ~mixed, NEW e \in ToSet(index)
               PROVE  keyring[e] # 0
                        \/ \E c \in Commands : command[c].does = "logout" /\ command[c].to = e
    BY DEF IndexBacked
  <2>1. PICK i \in 1..Len(index) : e = index[i]
    BY DEF ToSet, IdentityInv, CliInv, CliTypeOK
  <2> QED
    BY <2>1 DEF IdentityInv, CliInv, Backed, Leaving
<1> QED
  BY IdentityAlways, <1>1, PTL
==============================================================================
