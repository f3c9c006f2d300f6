------------------------------- MODULE Sessions -------------------------------
(***************************************************************************)
(* The sessions of one user: api/v1/auth.py, auth/jwt.py,                  *)
(* auth/magic_link.py and get_current_user of auth/permissions.py.  Users  *)
(* have no part in each other's sessions.  Tokens are signed, not stored;  *)
(* what is stored is a link's hash and the jti of a revoked token, each in *)
(* Redis with a time to live.  Time is in half seconds, so that whole      *)
(* seconds, which is what the code counts in, begin at the even ones; a    *)
(* timer is the half seconds that something still has.                     *)
(***************************************************************************)
EXTENDS Naturals, FiniteSets

CONSTANTS Access,      \* access tokens that may be live at once
          Refreshers,  \* refresh tokens that may be live at once
          SignIns,     \* requests in flight at once
          AccessTTL, RefreshTTL,  \* in seconds
          LinkTTL      \* in half seconds

ASSUME SessionAssumption ==
  AccessTTL \in Nat \ {0} /\ RefreshTTL \in Nat \ {0} /\ LinkTTL \in Nat \ {0}

VARIABLES active, admin, \* the user's row says active, and its grants admin
          half,      \* 1 in the second half of a second
          access,    \* timer and claim of each access token
          refresh,   \* timer of each refresh token
          revoked,   \* timer of each access token's jti in Redis
          link,      \* timer of the magic link in Redis
          signin,    \* where each request is
          left,      \* history: access tokens logged out
          exchanged  \* history: refresh tokens exchanged already

sessionVars == <<active, admin, half, access, refresh, revoked, link, signin,
                 left, exchanged>>

NoToken == [timer |-> 0, admin |-> FALSE]
Idle == [how |-> "none", admin |-> FALSE]
Hows == {"login", "magic", "popped", "refresh"}

SessionInit ==
  /\ active \in BOOLEAN /\ admin \in BOOLEAN /\ half = 0
  /\ access = [a \in Access |-> NoToken]
  /\ refresh = [f \in Refreshers |-> 0]
  /\ revoked = [a \in Access |-> 0]
  /\ link = 0
  /\ signin = [w \in SignIns |-> Idle]
  /\ left = {} /\ exchanged = {}

\* verify_token, and the jti looked up in Redis.
Valid(a) == access[a].timer > 0
Accepted(a) == Valid(a) /\ revoked[a] = 0

Turns(w, how, to) == signin[w].how = how /\ signin' = [signin EXCEPT ![w] = to]
------------------------------------------------------------------------------
\* Administrators suspend, delete, restore, grant and revoke.
ChangeRights ==
  /\ active' \in BOOLEAN /\ admin' \in BOOLEAN
  /\ <<active', admin'>> # <<active, admin>>
  /\ UNCHANGED <<half, access, refresh, revoked, link, signin, left, exchanged>>

\* Plausible slip: a timer that has run out runs on.
DownForEver(t) == t - 1

Down(t) == IF t = 0 THEN 0 ELSE t - 1

Pass ==
  /\ half' = 1 - half
  /\ access' = [a \in Access |-> IF access[a].timer <= 1 THEN NoToken
                                 ELSE [access[a] EXCEPT !.timer = @ - 1]]
  /\ refresh' = [f \in Refreshers |-> Down(refresh[f])]
  /\ revoked' = [a \in Access |-> Down(revoked[a])]
  /\ link' = Down(link)
  /\ left' = {a \in left : access[a].timer > 1}
  /\ exchanged' = {f \in exchanged : refresh[f] > 1}
  /\ UNCHANGED <<active, admin, signin>>
------------------------------------------------------------------------------
\* login reads the user and the password, and in another session the roles.
Login(w) ==
  /\ active
  /\ Turns(w, "none", [how |-> "login", admin |-> FALSE])
  /\ UNCHANGED <<active, admin, half, access, refresh, revoked, link, left, exchanged>>

LoginRoles(w) ==
  /\ signin[w].how = "login"
  /\ Turns(w, "login", [how |-> "mint", admin |-> admin])
  /\ UNCHANGED <<active, admin, half, access, refresh, revoked, link, left, exchanged>>

\* request_magic_link: SETEX, for an active user, of a token never used before.
RequestLink ==
  /\ active /\ link = 0 /\ \A w \in SignIns : signin[w].how # "popped"
  /\ link' = LinkTTL
  /\ UNCHANGED <<active, admin, half, access, refresh, revoked, signin, left, exchanged>>

\* verify_magic_link: GET and DEL in one transaction.
PopLink(w) ==
  /\ link > 0
  /\ link' = 0
  /\ Turns(w, "none", [how |-> "popped", admin |-> FALSE])
  /\ UNCHANGED <<active, admin, half, access, refresh, revoked, left, exchanged>>

\* Then the user and the roles, in one session.
LinkUser(w) ==
  /\ signin[w].how = "popped"
  /\ Turns(w, "popped", IF active THEN [how |-> "mint", admin |-> admin] ELSE Idle)
  /\ UNCHANGED <<active, admin, half, access, refresh, revoked, link, left, exchanged>>

\* Plausible slip: the user's status is not looked at again.
RefreshUnchecked(w, f) ==
  /\ refresh[f] > 0
  /\ exchanged' = exchanged \cup {f}
  /\ Turns(w, "none", [how |-> "mint", admin |-> admin])
  /\ UNCHANGED <<active, admin, half, access, refresh, revoked, link, left>>

\* Plausible slip: the claims are copied from a token instead of the grants.
RefreshCopies(w, f) ==
  /\ refresh[f] > 0 /\ active
  /\ exchanged' = exchanged \cup {f}
  /\ \E a \in Access : Valid(a) /\ Turns(w, "none", [how |-> "mint", admin |-> access[a].admin])
  /\ UNCHANGED <<active, admin, half, access, refresh, revoked, link, left>>

\* refresh: any token that has not expired; its jti is revoked, which nothing reads.
RefreshTaken(w, f) ==
  /\ refresh[f] > 0 /\ active
  /\ exchanged' = exchanged \cup {f}
  /\ Turns(w, "none", [how |-> "mint", admin |-> admin])
  /\ UNCHANGED <<active, admin, half, access, refresh, revoked, link, left>>

\* _build_jwt_pair: exp is the whole second plus the lifetime.  A token slot
\* is used again when nothing is left of its jti.
Mint(w, a, f) ==
  /\ access[a].timer = 0 /\ revoked[a] = 0 /\ refresh[f] = 0
  /\ signin[w].how = "mint"
  /\ access' = [access EXCEPT ![a] = [timer |-> 2 * AccessTTL - half,
                                      admin |-> signin[w].admin]]
  /\ refresh' = [refresh EXCEPT ![f] = 2 * RefreshTTL - half]
  /\ signin' = [signin EXCEPT ![w] = Idle]
  /\ UNCHANGED <<active, admin, half, revoked, link, left, exchanged>>

\* Bound: no more tokens than slots; the answer is lost.
Unminted(w) ==
  /\ \/ \A a \in Access : access[a].timer > 0 \/ revoked[a] > 0
     \/ \A f \in Refreshers : refresh[f] > 0
  /\ Turns(w, "mint", Idle)
  /\ UNCHANGED <<active, admin, half, access, refresh, revoked, link, left, exchanged>>

\* Plausible slip: the lifetime left is cut to whole seconds.
RevokeTruncated(a) ==
  /\ Accepted(a)
  /\ revoked' = [revoked EXCEPT ![a] = 2 * (access[a].timer \div 2)]
  /\ left' = left \cup {a}
  /\ UNCHANGED <<active, admin, half, access, refresh, link, signin, exchanged>>

\* logout: the jti for exp minus the whole second it is now.
Logout(a) ==
  /\ Accepted(a)
  /\ revoked' = [revoked EXCEPT ![a] = access[a].timer + half]
  /\ left' = left \cup {a}
  /\ UNCHANGED <<active, admin, half, access, refresh, link, signin, exchanged>>

SignInSteps(w) == \/ LoginRoles(w) \/ LinkUser(w) \/ Unminted(w)
                  \/ \E a \in Access, f \in Refreshers : Mint(w, a, f)

SessionNext ==
  \/ ChangeRights \/ Pass \/ RequestLink
  \/ \E w \in SignIns :
       \/ Login(w) \/ PopLink(w) \/ SignInSteps(w)
       \/ \E f \in Refreshers : RefreshTaken(w, f)
  \/ \E a \in Access : Logout(a)

\* Time passes, and a request that has begun goes on.
SessionFairness ==
  /\ WF_sessionVars(Pass)
  /\ \A w \in SignIns : WF_sessionVars(SignInSteps(w))

SessionSpec == SessionInit /\ [][SessionNext]_sessionVars /\ SessionFairness
------------------------------------------------------------------------------
SessionTypeOK ==
  /\ active \in BOOLEAN /\ admin \in BOOLEAN /\ half \in {0, 1}
  /\ access \in [Access -> [timer : 0..2 * AccessTTL, admin : BOOLEAN]]
  /\ refresh \in [Refreshers -> 0..2 * RefreshTTL]
  /\ revoked \in [Access -> 0..2 * AccessTTL + 1]
  /\ link \in 0..LinkTTL
  /\ signin \in [SignIns -> [how : Hows \cup {"none", "mint"}, admin : BOOLEAN]]
  /\ left \subseteq Access /\ exchanged \subseteq Refreshers

\* A token that was logged out is not accepted again, down to the last half
\* second before it expires by itself (auth.py:425-436, permissions.py:103-110).
LoggedOutStaysOut == \A a \in left : ~Accepted(a)

\* What a token may claim follows the grants as Administration assumes.
Claimed == \/ \E a \in Access : Accepted(a) /\ access[a].admin
           \/ \E w \in SignIns : signin[w].how = "mint" /\ signin[w].admin
Follows == INSTANCE Authority WITH entitled <- admin, claimed <- Claimed
ClaimsFollowRights == Follows!Spec

\* When a user is suspended or deleted for good, refreshing does not keep
\* the session alive: in the end no token is left (auth.py:400-419).  When
\* the grant goes for good, so does the last token that says admin.
RightsEnd ==
  /\ <>[]~active => <>[](\A a \in Access, f \in Refreshers : ~Valid(a) /\ refresh[f] = 0)
  /\ <>[]~admin => <>[]~Claimed

\* What docs/system-architecture.md:191 says of the user's session: that it is
\* invalidated on logout and on role change.
RoleChangeEndsSession ==
  [][admin' # admin => \A a \in Access, f \in Refreshers : ~Accepted(a)' /\ refresh'[f] = 0]_sessionVars

\* What auth.py:386 says of a refresh token: that it can only be used once.
RefreshOnce == [][\A w \in SignIns, f \in Refreshers :
                    RefreshTaken(w, f) => f \notin exchanged]_sessionVars
==============================================================================
