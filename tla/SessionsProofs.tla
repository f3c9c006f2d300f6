---------------------------- MODULE SessionsProofs ----------------------------
(***************************************************************************)
(* Tokens that are logged out stay out, and what tokens claim follows the  *)
(* grants, for any lifetimes and any number of tokens and requests.        *)
(***************************************************************************)
EXTENDS Sessions, TLAPS

\* The jti of a token outlives the token: the whole second that logout
\* counts from is not later than the moment of the logout.
Outlives ==
  /\ \A a \in Access : revoked[a] = 0 \/ revoked[a] >= access[a].timer
  /\ \A a \in left : access[a].timer > 0 /\ revoked[a] > 0

SessionInv == SessionTypeOK /\ Outlives

LEMMA SessionInitInv == SessionInit => SessionInv
BY SessionAssumption
   DEF SessionInit, SessionInv, SessionTypeOK, Outlives, NoToken, Idle, Hows

LEMMA DownTypes == \A n \in Nat : \A t \in 0..n : Down(t) \in 0..n
BY DEF Down

\* A request that goes from one place to another keeps the type of signin.
LEMMA TurnsTypes ==
  ASSUME SessionTypeOK, NEW w \in SignIns, NEW how, NEW to, Turns(w, how, to),
         to \in [how : Hows \cup {"none", "mint"}, admin : BOOLEAN]
  PROVE  signin' \in [SignIns -> [how : Hows \cup {"none", "mint"}, admin : BOOLEAN]]
BY DEF SessionTypeOK, Turns

LEMMA PassKeeps == ASSUME SessionInv, Pass PROVE SessionInv'
<1> USE SessionAssumption
<1>0. SessionTypeOK /\ Outlives
  BY DEF SessionInv
<1>1. \A a \in Access : /\ access[a].timer \in 0..2 * AccessTTL /\ access[a].admin \in BOOLEAN
                        /\ revoked[a] \in 0..2 * AccessTTL + 1
  BY <1>0 DEF SessionTypeOK
<1>2. access' \in [Access -> [timer : 0..2 * AccessTTL, admin : BOOLEAN]]
  BY <1>0, <1>1 DEF SessionTypeOK, Pass, NoToken
<1>3. /\ refresh' \in [Refreshers -> 0..2 * RefreshTTL]
      /\ revoked' \in [Access -> 0..2 * AccessTTL + 1]
      /\ link' \in 0..LinkTTL
  <2>1. 2 * RefreshTTL \in Nat /\ 2 * AccessTTL + 1 \in Nat /\ LinkTTL \in Nat
    OBVIOUS
  <2> QED
    BY <1>0, <2>1, DownTypes DEF SessionTypeOK, Pass
<1>4. SessionTypeOK'
  BY <1>0, <1>2, <1>3 DEF SessionTypeOK, Pass
<1>5. \A a \in Access : access'[a].timer = IF access[a].timer <= 1 THEN 0 ELSE access[a].timer - 1
  BY <1>0, <1>1 DEF Pass, NoToken, SessionTypeOK
<1>6. \A a \in Access : revoked'[a] = IF revoked[a] = 0 THEN 0 ELSE revoked[a] - 1
  BY DEF Pass, Down
<1>7. \A a \in Access : revoked'[a] = 0 \/ revoked'[a] >= access'[a].timer
  BY <1>0, <1>1, <1>5, <1>6 DEF Outlives
<1>8. \A a \in left' : access'[a].timer > 0 /\ revoked'[a] > 0
  <2> SUFFICES ASSUME NEW a \in left' PROVE access'[a].timer > 0 /\ revoked'[a] > 0
    OBVIOUS
  <2>1. a \in left /\ a \in Access /\ access[a].timer > 1
    BY <1>0 DEF Pass, SessionTypeOK
  <2>2. revoked[a] >= access[a].timer
    BY <1>0, <2>1 DEF Outlives
  <2> QED
    BY <1>1, <1>5, <1>6, <2>1, <2>2
<1> QED
  BY <1>4, <1>7, <1>8 DEF SessionInv, Outlives

LEMMA MintKeeps ==
  ASSUME SessionInv, NEW w \in SignIns, NEW a \in Access, NEW f \in Refreshers, Mint(w, a, f)
  PROVE  SessionInv'
<1> USE SessionAssumption
<1>0. SessionTypeOK /\ Outlives
  BY DEF SessionInv
<1>1. /\ 2 * AccessTTL - half \in 0..2 * AccessTTL
      /\ 2 * RefreshTTL - half \in 0..2 * RefreshTTL
      /\ signin[w].admin \in BOOLEAN
  BY <1>0 DEF SessionTypeOK
<1>2. access' \in [Access -> [timer : 0..2 * AccessTTL, admin : BOOLEAN]]
  BY <1>0, <1>1 DEF SessionTypeOK, Mint
<1>3. SessionTypeOK'
  BY <1>0, <1>1, <1>2 DEF SessionTypeOK, Mint, Idle
<1>4. a \notin left /\ revoked[a] = 0
  BY <1>0 DEF Outlives, Mint
<1>5. \A b \in Access : b # a => access'[b] = access[b]
  BY <1>0 DEF Mint, SessionTypeOK
<1>6. left \subseteq Access
  BY <1>0 DEF SessionTypeOK
<1>7. Outlives'
  BY <1>0, <1>4, <1>5, <1>6 DEF Outlives, Mint
<1> QED
  BY <1>3, <1>7 DEF SessionInv

LEMMA LogoutKeeps == ASSUME SessionInv, NEW a \in Access, Logout(a) PROVE SessionInv'
<1>0. SessionTypeOK /\ Outlives
  BY DEF SessionInv
<1>1. access[a].timer \in 0..2 * AccessTTL /\ half \in {0, 1} /\ access[a].timer > 0
  BY <1>0 DEF SessionTypeOK, Logout, Accepted, Valid
<1>2. access[a].timer + half \in 1..2 * AccessTTL + 1 /\ access[a].timer + half >= access[a].timer
  BY <1>1, SessionAssumption
<1>3. SessionTypeOK'
  BY <1>0, <1>2 DEF SessionTypeOK, Logout
<1>4. revoked'[a] = access[a].timer + half
  BY <1>0 DEF SessionTypeOK, Logout
<1>5. \A b \in Access : b # a => revoked'[b] = revoked[b]
  BY <1>0 DEF SessionTypeOK, Logout
<1>6. left \subseteq Access
  BY <1>0 DEF SessionTypeOK
<1>7. Outlives'
  BY <1>0, <1>1, <1>2, <1>4, <1>5, <1>6 DEF Outlives, Logout
<1> QED
  BY <1>3, <1>7 DEF SessionInv

\* Nothing else touches a token or its jti.
LEMMA SessionStep == SessionInv /\ [SessionNext]_sessionVars => SessionInv'
<1> SUFFICES ASSUME SessionInv, [SessionNext]_sessionVars PROVE SessionInv'
  OBVIOUS
<1>0. SessionTypeOK /\ Outlives
  BY DEF SessionInv
<1>1. ASSUME ChangeRights \/ RequestLink PROVE SessionInv'
  BY <1>0, <1>1, SessionAssumption
     DEF ChangeRights, RequestLink, SessionInv, SessionTypeOK, Outlives
<1>2. ASSUME NEW w \in SignIns,
             \/ Login(w) \/ PopLink(w) \/ LoginRoles(w) \/ LinkUser(w) \/ Unminted(w)
             \/ \E f \in Refreshers : RefreshTaken(w, f)
      PROVE  SessionInv'
  <2>1. signin' \in [SignIns -> [how : Hows \cup {"none", "mint"}, admin : BOOLEAN]]
    <3>1. active \in BOOLEAN /\ admin \in BOOLEAN
      BY <1>0 DEF SessionTypeOK
    <3>2. CASE Login(w)
      BY <1>0, <3>2, TurnsTypes DEF Login, Hows
    <3>3. CASE PopLink(w)
      BY <1>0, <3>3, TurnsTypes DEF PopLink, Hows
    <3>4. CASE LoginRoles(w)
      BY <1>0, <3>1, <3>4, TurnsTypes DEF LoginRoles
    <3>5. CASE LinkUser(w)
      BY <1>0, <3>1, <3>5, TurnsTypes DEF LinkUser, Idle
    <3>6. CASE Unminted(w)
      BY <1>0, <3>6, TurnsTypes DEF Unminted, Idle
    <3>7. CASE \E f \in Refreshers : RefreshTaken(w, f)
      BY <1>0, <3>1, <3>7, TurnsTypes DEF RefreshTaken
    <3> QED
      BY <1>2, <3>2, <3>3, <3>4, <3>5, <3>6, <3>7
  <2>2. UNCHANGED <<active, admin, half, access, refresh, revoked, left>>
    BY <1>2 DEF Login, PopLink, LoginRoles, LinkUser, Unminted, RefreshTaken
  <2>3. link' \in 0..LinkTTL /\ exchanged' \subseteq Refreshers
    BY <1>0, <1>2, SessionAssumption
       DEF SessionTypeOK, Login, PopLink, LoginRoles, LinkUser, Unminted, RefreshTaken
  <2> QED
    BY <1>0, <2>1, <2>2, <2>3 DEF SessionInv, SessionTypeOK, Outlives
<1>3. CASE UNCHANGED sessionVars
  BY <1>0, <1>3 DEF sessionVars, SessionInv, SessionTypeOK, Outlives
<1> QED
  BY <1>1, <1>2, <1>3, PassKeeps, MintKeeps, LogoutKeeps DEF SessionNext, SignInSteps

LEMMA SessionAlways == SessionSpec => []SessionInv
BY SessionInitInv, SessionStep, PTL DEF SessionSpec

\* Timers, tokens, links and requests keep their types for any lifetimes.
THEOREM SessionsTypeCorrect == SessionSpec => []SessionTypeOK
<1>1. SessionInv => SessionTypeOK
  BY DEF SessionInv
<1> QED
  BY SessionAlways, <1>1, PTL

\* A token that was logged out is not accepted again, down to the last half
\* second before it expires by itself (auth.py:425-436, permissions.py:103-110).
THEOREM LogoutLasts == SessionSpec => []LoggedOutStaysOut
<1>1. SessionInv => LoggedOutStaysOut
  BY DEF SessionInv, Outlives, LoggedOutStaysOut, Accepted
<1> QED
  BY SessionAlways, <1>1, PTL
------------------------------------------------------------------------------
LEMMA FollowsInit == SessionInit => Follows!Init
BY DEF SessionInit, Follows!Init, Claimed, Accepted, Valid, NoToken, Idle

\* Each step changes the grants, lets a claim go, makes one of a grant, or
\* is a stutter of Authority.
LEMMA FollowsStep ==
  SessionInv /\ SessionInv' /\ [SessionNext]_sessionVars
    => [Follows!Next]_<<admin, Claimed>>
<1> SUFFICES ASSUME SessionInv, SessionInv', [SessionNext]_sessionVars
             PROVE  [Follows!Next]_<<admin, Claimed>>
  OBVIOUS
<1> USE DEF Follows!Next, Follows!Change, Follows!Claim, Follows!Lapse
<1>0. SessionTypeOK /\ Outlives
  BY DEF SessionInv
<1>a. Claimed \in BOOLEAN /\ Claimed' \in BOOLEAN
  BY DEF Claimed
<1>b. ASSUME UNCHANGED admin, Claimed' => Claimed
      PROVE  [Follows!Next]_<<admin, Claimed>>
  BY <1>a, <1>b
<1>1. CASE ChangeRights
  <2>1. Claimed' = Claimed /\ admin' \in BOOLEAN
    BY <1>1 DEF ChangeRights, Claimed, Accepted, Valid
  <2> QED
    BY <2>1
<1>2. CASE Pass
  <2>1. \A a \in Access : access[a].timer \in Nat /\ revoked[a] \in Nat
    BY <1>0, SessionAssumption DEF SessionTypeOK
  <2>2. ASSUME NEW a \in Access, access'[a].timer > 0, revoked'[a] = 0
        PROVE  access[a].timer > 0 /\ revoked[a] = 0 /\ access'[a].admin = access[a].admin
    <3>1. access'[a] = IF access[a].timer <= 1 THEN NoToken
                       ELSE [access[a] EXCEPT !.timer = @ - 1]
      BY <1>2 DEF Pass
    <3>2. /\ access[a].timer > 1 /\ access'[a] = [access[a] EXCEPT !.timer = @ - 1]
      BY <2>1, <2>2, <3>1 DEF NoToken
    <3>3. access'[a].admin = access[a].admin
      BY <1>0, <3>2 DEF SessionTypeOK
    <3>4. revoked[a] = 0
      BY <1>0, <1>2, <2>1, <2>2, <3>2 DEF Outlives, Pass, Down
    <3> QED
      BY <2>1, <3>2, <3>3, <3>4
  <2>3. signin' = signin /\ admin' = admin
    BY <1>2 DEF Pass
  <2>4. Claimed' => Claimed
    BY <2>2, <2>3 DEF Claimed, Accepted, Valid
  <2> QED
    BY <1>b, <2>3, <2>4
<1>3. CASE RequestLink
  <2>1. Claimed' = Claimed /\ admin' = admin
    BY <1>3 DEF RequestLink, Claimed, Accepted, Valid
  <2> QED
    BY <1>b, <2>1
<1>4. ASSUME NEW w \in SignIns,
             \/ Login(w) \/ PopLink(w) \/ LoginRoles(w) \/ LinkUser(w) \/ Unminted(w)
             \/ \E f \in Refreshers : RefreshTaken(w, f)
      PROVE  [Follows!Next]_<<admin, Claimed>>
  <2>1. PICK how, to : Turns(w, how, to) /\ (to.how = "mint" /\ to.admin => admin)
    <3>1. CASE Login(w)
      BY <3>1 DEF Login
    <3>2. CASE PopLink(w)
      BY <3>2 DEF PopLink
    <3>3. CASE LoginRoles(w)
      BY <3>3 DEF LoginRoles
    <3>4. CASE LinkUser(w)
      BY <3>4 DEF LinkUser, Idle
    <3>5. CASE Unminted(w)
      BY <3>5 DEF Unminted, Idle
    <3>6. CASE \E f \in Refreshers : RefreshTaken(w, f)
      BY <3>6 DEF RefreshTaken
    <3> QED
      BY <1>4, <3>1, <3>2, <3>3, <3>4, <3>5, <3>6
  <2>2. UNCHANGED <<admin, access, revoked>>
    BY <1>4 DEF Login, PopLink, LoginRoles, LinkUser, Unminted, RefreshTaken
  <2>3. signin' = [signin EXCEPT ![w] = to]
    BY <2>1 DEF Turns
  <2>4. \A v \in SignIns : signin'[v] = IF v = w THEN to ELSE signin[v]
    BY <1>0, <2>3 DEF SessionTypeOK
  <2>5. Claimed' => Claimed \/ admin
    BY <2>1, <2>2, <2>4 DEF Claimed, Accepted, Valid
  <2>6. admin \in BOOLEAN
    BY <1>0 DEF SessionTypeOK
  <2> QED
    BY <1>a, <2>2, <2>5, <2>6
<1>5. ASSUME NEW w \in SignIns, NEW a \in Access, NEW f \in Refreshers, Mint(w, a, f)
      PROVE  [Follows!Next]_<<admin, Claimed>>
  <2>1. \A b \in Access : access'[b] = IF b = a THEN [timer |-> 2 * AccessTTL - half,
                                                      admin |-> signin[w].admin] ELSE access[b]
    BY <1>0, <1>5 DEF SessionTypeOK, Mint
  <2>2. \A v \in SignIns : signin'[v] = IF v = w THEN Idle ELSE signin[v]
    BY <1>0, <1>5 DEF SessionTypeOK, Mint
  <2>3. UNCHANGED <<admin, revoked>> /\ signin[w].how = "mint"
    BY <1>5 DEF Mint
  <2>4. Claimed' => Claimed
    BY <2>1, <2>2, <2>3 DEF Claimed, Accepted, Valid, Idle
  <2> QED
    BY <1>b, <2>3, <2>4
<1>6. ASSUME NEW a \in Access, Logout(a) PROVE [Follows!Next]_<<admin, Claimed>>
  <2>1. \A b \in Access : revoked'[b] = 0 => revoked[b] = 0
    <3>1. revoked[a] = 0
      BY <1>6 DEF Logout, Accepted
    <3> QED
      BY <1>0, <1>6, <3>1 DEF SessionTypeOK, Logout
  <2>2. UNCHANGED <<admin, access, signin>>
    BY <1>6 DEF Logout
  <2>3. Claimed' => Claimed
    BY <2>1, <2>2 DEF Claimed, Accepted, Valid
  <2> QED
    BY <1>b, <2>2, <2>3
<1>7. CASE UNCHANGED sessionVars
  BY <1>7 DEF sessionVars, Claimed, Accepted, Valid
<1> QED
  BY <1>1, <1>2, <1>3, <1>4, <1>5, <1>6, <1>7 DEF SessionNext, SignInSteps

\* What requests and tokens claim is what Administration takes for granted of
\* them: every claim of admin was made of a grant (auth.py:79-113, 205-419).
THEOREM SessionsImplementAuthority == SessionSpec => ClaimsFollowRights
BY SessionAlways, FollowsInit, FollowsStep, PTL
   DEF SessionSpec, ClaimsFollowRights, Follows!Spec
==============================================================================
