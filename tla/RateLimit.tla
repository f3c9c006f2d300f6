------------------------------ MODULE RateLimit ------------------------------
(***************************************************************************)
(* rate_limit_incr of cache/helpers.py for one key: a sliding window kept  *)
(* in a Redis sorted set by four calls, each of which may interleave with  *)
(* the calls of other requests.  The member is the request's own time, so  *)
(* two requests of one instant are one member.                             *)
(***************************************************************************)
EXTENDS Clock, FiniteSets

CONSTANTS Requests,  \* the requests of one key
          Window,    \* window_seconds, an even number of ticks
          Limit

ASSUME LimitAssumption ==
  /\ IsFiniteSet(Requests)
  /\ Window \in Nat \ {0} /\ Limit \in Nat

NoExpiry == MaxNow + 2 * Window + 1

VARIABLES zset,    \* the members of the key, which are also their scores
          expires, \* when Redis drops the key
          step,    \* how far each request has come
          stamp,   \* its time.time()
          slipped, \* history: requests that have no member of their own
          late     \* history: requests added after a trim had passed their time

limitVars == <<zset, expires, step, stamp, slipped, late>>

Steps == {"new", "stamped", "trimmed", "added", "kept", "admitted", "refused"}
InSet == {"added", "kept", "admitted", "refused"}  \* ZADD is done

LimitInit ==
  /\ zset = {} /\ expires = NoExpiry
  /\ step = [r \in Requests |-> "new"]
  /\ stamp = [r \in Requests |-> 0]
  /\ slipped = {} /\ late = {}

Goes(r, from, to) == step[r] = from /\ step' = [step EXCEPT ![r] = to]
------------------------------------------------------------------------------
Arrive(r) ==
  /\ Goes(r, "new", "stamped")
  /\ stamp' = [stamp EXCEPT ![r] = now]
  /\ UNCHANGED <<now, zset, expires, slipped, late>>

\* ZREMRANGEBYSCORE key 0 now-window; Redis deletes a key left empty.
Trim(r) ==
  /\ Goes(r, "stamped", "trimmed")
  /\ zset' = {t \in zset : t + Window > stamp[r]}
  /\ expires' = IF zset' = {} THEN NoExpiry ELSE expires
  /\ UNCHANGED <<now, stamp, slipped, late>>

\* ZADD key now member
Add(r) ==
  /\ Goes(r, "trimmed", "added")
  /\ zset' = zset \cup {stamp[r]}
  /\ slipped' = IF \E q \in Requests \ {r} : step[q] \in InSet /\ stamp[q] = stamp[r]
                THEN slipped \cup {r} ELSE slipped
  /\ late' = IF \E q \in Requests : /\ step[q] \notin {"new", "stamped"}
                                     /\ stamp[r] + Window <= stamp[q]
             THEN late \cup {r} ELSE late
  /\ UNCHANGED <<now, expires, stamp>>

\* EXPIRE key int(window * 1.5), without effect on a key that is gone.
Expire(r) ==
  /\ Goes(r, "added", "kept")
  /\ expires' = IF zset = {} THEN expires ELSE now + (3 * Window) \div 2
  /\ UNCHANGED <<now, zset, stamp, slipped, late>>

\* Plausible slip: the request itself is not counted.
DecideOthers(r) ==
  /\ step[r] = "kept"
  /\ step' = [step EXCEPT ![r] = IF Cardinality(zset) <= Limit + 1
                                 THEN "admitted" ELSE "refused"]
  /\ UNCHANGED <<now, zset, expires, stamp, slipped, late>>

\* ZCARD key
Decide(r) ==
  /\ step[r] = "kept"
  /\ step' = [step EXCEPT ![r] = IF Cardinality(zset) <= Limit
                                 THEN "admitted" ELSE "refused"]
  /\ UNCHANGED <<now, zset, expires, stamp, slipped, late>>

\* Time passes; Redis drops the key when its time has come.  A request
\* between its ZADD and its EXPIRE may then lose its member.
Elapse ==
  /\ Tick
  /\ IF expires <= now'
     THEN /\ zset' = {} /\ expires' = NoExpiry
          /\ slipped' = slipped \cup {r \in Requests : step[r] = "added"}
     ELSE UNCHANGED <<zset, expires, slipped, late>>
  /\ UNCHANGED <<step, stamp, late>>

LimitNext ==
  \/ \E r \in Requests : \/ Arrive(r) \/ Trim(r) \/ Add(r) \/ Expire(r) \/ Decide(r)
  \/ Elapse
------------------------------------------------------------------------------
LimitTypeOK ==
  /\ zset \subseteq 0..now /\ expires \in Nat
  /\ step \in [Requests -> Steps]
  /\ stamp \in [Requests -> 0..now]
  /\ slipped \subseteq Requests /\ late \subseteq Requests

Admitted == {r \in Requests : step[r] = "admitted"}

\* The requests admitted with a time of the last window are at most Limit,
\* those of one instant counted once and those whose key expired under them
\* left out.
WithinLimit ==
  Cardinality({r \in Admitted \ slipped : stamp[r] + Window > now}) <= Limit

\* A refused request met more than Limit others whose times are less than a
\* window before its own, or that came so late to the set that a trim had
\* passed them: nothing older counts against it.
RefusedWithReason ==
  \A r \in Requests : step[r] = "refused" =>
    Cardinality({q \in Requests : /\ step[q] \in InSet
                                  /\ stamp[q] + Window > stamp[r] \/ q \in late}) > Limit

\* Whatever the interleaving of the four calls of several requests, neither too
\* many are let through nor one refused for requests long past
\* (cache/helpers.py:56-86).
LimitKept == WithinLimit /\ RefusedWithReason
==============================================================================
