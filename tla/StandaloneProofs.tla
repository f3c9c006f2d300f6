--------------------------- MODULE StandaloneProofs ---------------------------
(***************************************************************************)
(* The circuit breaker, the stream of a job, the rate limit, the token     *)
(* bucket, the listings of the API and of Notion and the chunker keep what *)
(* they promise, for any calls, streams, requests, rows, pages, documents, *)
(* thresholds, limits, windows and rates.                                  *)
(***************************************************************************)
EXTENDS Standalone, ChunkerProofs, FunctionTheorems, SequenceTheorems

(***************************************************************************)
(* CircuitBreaker                                                          *)
(***************************************************************************)
BreakerInv == BreakerTypeOK /\ OneProbe

LEMMA BreakerInitInv == BreakerInit /\ now = 0 => BreakerInv
<1> SUFFICES ASSUME BreakerInit, now = 0 PROVE BreakerInv
  OBVIOUS
<1>1. BreakerTypeOK
  <2>1. now \in Nat /\ consecutive_failures \in Nat /\ opened_at \in 0..now /\ probes \in Nat
    BY DEF BreakerInit
  <2>2. model \in [Calls -> Model \cup {"none"}]
    BY DEF BreakerInit
  <2>3. half_open_in_flight \in BOOLEAN /\ state \in {"closed", "open", "half_open"}
    BY DEF BreakerInit
  <2>4. probing \in SUBSET Calls /\ \A c, d \in probing : c = d
    BY DEF BreakerInit
  <2> QED
    BY <2>1, <2>2, <2>3, <2>4 DEF BreakerTypeOK
<1>2. OneProbe
  BY DEF BreakerInit, OneProbe
<1> QED
  BY <1>1, <1>2 DEF BreakerInv

AbstractBreakerStep == Promise!Next \/ (AnothersReport /\ Promise!Meddle)
BreakerStill == UNCHANGED <<state, opened_at, probes, probing, now>>

\* A call that asks for a model; only the probe of an open breaker that has
\* cooled down moves it, for the place of a half-open one is taken.
LEMMA AskKeeps ==
  ASSUME BreakerInv, NEW c \in Calls, ModelToCall(c)
  PROVE  BreakerInv' /\ (Promise!Probe \/ BreakerStill)
<1> USE BreakerAssumption, ClockAssumption
<1>0. BreakerTypeOK /\ OneProbe
  BY DEF BreakerInv
<1>1. CASE Use(c)
  <2>1. BreakerInv'
    BY <1>0, <1>1 DEF ModelToCall, Use, BreakerInv, BreakerTypeOK, OneProbe, Model
  <2> QED
    BY <1>1, <2>1 DEF ModelToCall, Use, BreakerStill
<1>2. CASE Probe(c)
  <2>1. state = "open" /\ now - opened_at >= CoolDown /\ probes = 0
    BY <1>0, <1>2 DEF Probe, MayProbe, OneProbe, BreakerTypeOK
  <2>2. BreakerInv'
    BY <1>0, <1>2, <2>1
       DEF ModelToCall, Probe, BreakerInv, BreakerTypeOK, OneProbe, Model
  <2>3. Promise!Probe
    <3>1. now >= opened_at + CoolDown
      BY <1>0, <2>1 DEF BreakerTypeOK
    <3>2. probing' # {}
      BY <1>2 DEF Probe
    <3>3. state' = "half_open" /\ probes' = 1 /\ UNCHANGED <<opened_at, now>>
      BY <1>2, <2>1 DEF ModelToCall, Probe
    <3> QED
      BY <2>1, <3>1, <3>2, <3>3 DEF Promise!Probe
  <2> QED
    BY <2>2, <2>3
<1>3. CASE FallBack(c)
  <2>1. BreakerInv'
    BY <1>0, <1>3 DEF ModelToCall, FallBack, BreakerInv, BreakerTypeOK, OneProbe, Model
  <2> QED
    BY <1>3, <2>1 DEF ModelToCall, FallBack, BreakerStill
<1> QED
  BY <1>1, <1>2, <1>3 DEF ModelToCall

\* The probe is the only one in flight: its end is its answer, and the end of
\* another call leaves it where it is.
LEMMA EndOfCall ==
  ASSUME BreakerTypeOK, NEW c \in Calls, EndCall(c)
  PROVE  /\ model' \in [Calls -> Model \cup {"none"}]
         /\ probing' \in SUBSET Calls /\ \A d, e \in probing' : d = e
         /\ c \in probing => probing # {} /\ probing' = {}
         /\ c \notin probing => probing' = probing
BY DEF EndCall, BreakerTypeOK

\* A success, of whichever model and however old, closes a half-open breaker.
LEMMA SuccessKeeps ==
  ASSUME BreakerInv, NEW c \in Calls, RecordSuccess(c)
  PROVE  BreakerInv' /\ (AbstractBreakerStep \/ BreakerStill)
<1>0. BreakerTypeOK /\ OneProbe /\ EndCall(c)
  BY DEF BreakerInv, RecordSuccess
<1>1. BreakerInv'
  <2>1. BreakerTypeOK'
    BY <1>0, EndOfCall DEF RecordSuccess, BreakerTypeOK
  <2>2. OneProbe'
    <3>1. CASE state = "half_open"
      BY <1>0, <3>1 DEF RecordSuccess, OneProbe
    <3>2. CASE state # "half_open"
      BY <1>0, <3>2 DEF RecordSuccess, OneProbe
    <3> QED
      BY <3>1, <3>2
  <2> QED
    BY <2>1, <2>2 DEF BreakerInv
<1>2. CASE state = "half_open"
  <2>1. Promise!Closed
    BY <1>2 DEF RecordSuccess, Promise!Closed
  <2>2. CASE c \in probing
    <3>1. Promise!Close
      BY <1>0, <1>2, <2>1, <2>2, EndOfCall DEF Promise!Close, Promise!Answered
    <3> QED
      BY <1>1, <3>1 DEF AbstractBreakerStep, Promise!Next
  <2>3. CASE c \notin probing
    BY <1>0, <1>1, <1>2, <2>1, <2>3, EndOfCall
       DEF AbstractBreakerStep, AnothersReport, Promise!Meddle
  <2> QED
    BY <2>2, <2>3
<1>3. CASE state # "half_open"
  <2>1. UNCHANGED <<state, opened_at, probes, now>>
    BY <1>3 DEF RecordSuccess
  <2>2. Promise!Lose \/ BreakerStill
    BY <1>0, <2>1, EndOfCall DEF Promise!Lose, Promise!Answered, BreakerStill
  <2> QED
    BY <1>1, <2>2 DEF AbstractBreakerStep, Promise!Next
<1> QED
  BY <1>2, <1>3

\* A failure opens a breaker that is half open or has had its fill.
LEMMA FailureKeeps ==
  ASSUME BreakerInv, NEW c \in Calls, RecordFailure(c)
  PROVE  BreakerInv' /\ (AbstractBreakerStep \/ BreakerStill)
<1>0. BreakerTypeOK /\ OneProbe /\ EndCall(c)
  BY DEF BreakerInv, RecordFailure
<1>1. BreakerInv'
  <2>1. BreakerTypeOK'
    <3>1. half_open_in_flight' \in BOOLEAN
      BY <1>0 DEF RecordFailure, BreakerTypeOK
    <3> QED
      BY <1>0, <3>1, EndOfCall DEF RecordFailure, BreakerTypeOK
  <2>2. OneProbe'
    <3>1. CASE Opens
      BY <1>0, <3>1 DEF RecordFailure, Opens, OneProbe
    <3>2. CASE ~Opens
      BY <1>0, <3>2 DEF RecordFailure, OneProbe
    <3> QED
      BY <3>1, <3>2
  <2> QED
    BY <2>1, <2>2 DEF BreakerInv
<1>2. CASE Opens
  <2>1. Promise!Opened /\ state \in {"closed", "half_open"}
    BY <1>2 DEF RecordFailure, Opens, Promise!Opened
  <2>2. CASE state = "closed"
    <3>1. Promise!Open
      BY <1>0, <2>1, <2>2, EndOfCall DEF Promise!Open
    <3> QED
      BY <1>1, <3>1 DEF AbstractBreakerStep, Promise!Next
  <2>3. CASE state = "half_open" /\ c \in probing
    <3>1. Promise!Reopen
      BY <1>0, <2>1, <2>3, EndOfCall DEF Promise!Reopen, Promise!Answered
    <3> QED
      BY <1>1, <3>1 DEF AbstractBreakerStep, Promise!Next
  <2>4. CASE state = "half_open" /\ c \notin probing
    BY <1>0, <1>1, <2>1, <2>4, EndOfCall
       DEF AbstractBreakerStep, AnothersReport, Promise!Meddle
  <2> QED
    BY <2>1, <2>2, <2>3, <2>4
<1>3. CASE ~Opens
  <2>1. UNCHANGED <<state, opened_at, probes, now>>
    BY <1>3 DEF RecordFailure
  <2>2. Promise!Lose \/ BreakerStill
    BY <1>0, <2>1, EndOfCall DEF Promise!Lose, Promise!Answered, BreakerStill
  <2> QED
    BY <1>1, <2>2 DEF AbstractBreakerStep, Promise!Next
<1> QED
  BY <1>2, <1>3

LEMMA BreakerStep ==
  BreakerInv /\ [BreakerNext]_<<now, breakerVars>>
    => BreakerInv' /\ (AbstractBreakerStep \/ BreakerStill)
<1> SUFFICES ASSUME BreakerInv, [BreakerNext]_<<now, breakerVars>>
             PROVE  BreakerInv' /\ (AbstractBreakerStep \/ BreakerStill)
  OBVIOUS
<1>0. BreakerTypeOK /\ OneProbe
  BY DEF BreakerInv
<1>1. ASSUME NEW c \in Calls, EndUnrecorded(c)
      PROVE  BreakerInv' /\ (Promise!Lose \/ BreakerStill)
  <2>1. BreakerInv'
    BY <1>0, <1>1, EndOfCall DEF EndUnrecorded, BreakerInv, BreakerTypeOK, OneProbe
  <2>2. Promise!Lose \/ BreakerStill
    BY <1>0, <1>1, EndOfCall
       DEF EndUnrecorded, Promise!Lose, Promise!Answered, BreakerStill
  <2> QED
    BY <2>1, <2>2
<1>2. ASSUME Tick, UNCHANGED breakerVars PROVE BreakerInv' /\ Promise!Pass
  BY <1>0, <1>2 DEF Tick, breakerVars, BreakerInv, BreakerTypeOK, OneProbe, Promise!Pass
<1>3. ASSUME UNCHANGED <<now, breakerVars>> PROVE BreakerInv' /\ BreakerStill
  BY <1>0, <1>3 DEF breakerVars, BreakerInv, BreakerTypeOK, OneProbe, BreakerStill
<1> QED
  BY <1>1, <1>2, <1>3, AskKeeps, SuccessKeeps, FailureKeeps
     DEF BreakerNext, AbstractBreakerStep, Promise!Next

(***************************************************************************)
(* JobStream                                                               *)
(***************************************************************************)
\* A run ends once, so that what a stream has been told stays so.
StreamInv ==
  /\ StreamTypeOK /\ ToldTheTruth
  /\ job \in Final => finished

LEMMA StreamInitInv == StreamInit => StreamInv
<1> SUFFICES ASSUME StreamInit PROVE StreamInv
  OBVIOUS
<1>1. inbox \in [Streams -> Seq({"progress"})] /\ published \in 0..MaxEvents
  BY StreamAssumption DEF StreamInit
<1> QED
  BY <1>1 DEF StreamInit, StreamInv, StreamTypeOK, ToldTheTruth, Final, Terminal, At

LEMMA StreamStep == StreamInv /\ [StreamNext]_streamVars => StreamInv'
<1> SUFFICES ASSUME StreamInv, [StreamNext]_streamVars PROVE StreamInv'
  OBVIOUS
<1> USE DEF StreamInv, StreamTypeOK, ToldTheTruth, Final, Terminal
<1>1. CASE CreateJob
  BY <1>1 DEF CreateJob
<1>2. CASE PublishEvent
  <2>1. inbox' \in [Streams -> Seq({"progress"})]
    BY <1>2 DEF PublishEvent
  <2>2. published' \in 0..MaxEvents
    BY <1>2, StreamAssumption DEF PublishEvent
  <2> QED
    BY <1>2, <2>1, <2>2 DEF PublishEvent
<1>3. CASE FinishJob
  BY <1>3 DEF FinishJob
<1>4. ASSUME NEW s \in Streams, Open(s) PROVE StreamInv'
  BY <1>4 DEF Open, Close, At
<1>5. ASSUME NEW s \in Streams, Subscribe(s) PROVE StreamInv'
  BY <1>5 DEF Subscribe, At
<1>6. ASSUME NEW s \in Streams, GetMessage(s) PROVE StreamInv'
  <2>1. inbox' \in [Streams -> Seq({"progress"})]
    BY <1>6 DEF GetMessage
  <2> QED
    BY <1>6, <2>1 DEF GetMessage, At
<1>7. ASSUME NEW s \in Streams, CheckRow(s) PROVE StreamInv'
  BY <1>7 DEF CheckRow, Close, At
<1>8. ASSUME NEW s \in Streams, Disconnect(s) PROVE StreamInv'
  BY <1>8 DEF Disconnect, Close, At
<1>9. CASE UNCHANGED streamVars
  BY <1>9 DEF streamVars
<1> QED
  BY <1>1, <1>2, <1>3, <1>4, <1>5, <1>6, <1>7, <1>8, <1>9 DEF StreamNext, StreamSteps

(***************************************************************************)
(* RateLimit                                                               *)
(***************************************************************************)
\* Requests whose EXPIRE is done.
Kept == {"kept", "admitted", "refused"}
\* A request of the last window that has a member of its own has it still: the
\* key outlives what its requests have added by a window.
MembersStay ==
  /\ zset = {} => expires = NoExpiry
  /\ \A r \in Requests : step[r] \in Kept => stamp[r] + Window <= expires
  /\ \A r \in Requests \ slipped :
       step[r] \in InSet /\ stamp[r] + Window > now => stamp[r] \in zset
  /\ \A r, q \in Requests \ slipped :
       step[r] \in InSet /\ step[q] \in InSet /\ stamp[r] = stamp[q] => r = q
\* A member is the time of a request, and no older than a window for those that
\* have trimmed, unless it came late.
MembersFresh ==
  /\ \A t \in zset : \E q \in Requests : step[q] \in InSet /\ stamp[q] = t
  /\ \A r \in Requests : step[r] \notin {"new", "stamped"} =>
       \A t \in zset : \/ t + Window > stamp[r]
                       \/ \E q \in late : step[q] \in InSet /\ stamp[q] = t

LimitInv == LimitTypeOK /\ now \in 0..MaxNow /\ MembersStay /\ MembersFresh /\ LimitKept

LEMMA LimitInitInv == LimitInit /\ now \in 0..MaxNow => LimitInv
<1> SUFFICES ASSUME LimitInit, now \in 0..MaxNow PROVE LimitInv
  OBVIOUS
<1> USE LimitAssumption, ClockAssumption
<1>1. LimitTypeOK /\ MembersStay /\ MembersFresh
  BY DEF LimitInit, LimitTypeOK, MembersStay, MembersFresh, Steps, InSet, Kept, NoExpiry
<1>2. WithinLimit
  <2>1. {r \in Admitted \ slipped : stamp[r] + Window > now} = {}
    BY DEF LimitInit, Admitted
  <2> QED
    BY <2>1, FS_EmptySet DEF WithinLimit
<1>3. RefusedWithReason
  BY DEF LimitInit, RefusedWithReason
<1> QED
  BY <1>1, <1>2, <1>3 DEF LimitInv, LimitKept

\* Fewer of the last window, or more that count against a refusal, do no harm.
LEMMA DecidedKept ==
  ASSUME LimitInv, now' \in Nat, now <= now', slipped \subseteq slipped', late \subseteq late',
         late' \subseteq Requests,
         \A r \in Requests : step'[r] \in {"admitted", "refused"} => step'[r] = step[r],
         \A r \in Requests : step[r] \in InSet => step'[r] \in InSet,
         \A r \in Requests : step[r] # "new" => stamp'[r] = stamp[r],
         step' \in [Requests -> Steps]
  PROVE  LimitKept'
<1> USE LimitAssumption
<1>0. LimitTypeOK /\ WithinLimit /\ RefusedWithReason
  BY DEF LimitInv, LimitKept
<1> DEFINE Recent == {r \in Admitted \ slipped : stamp[r] + Window > now}
           Against(r) == {q \in Requests : /\ step[q] \in InSet
                                           /\ stamp[q] + Window > stamp[r] \/ q \in late}
<1>1. WithinLimit'
  <2>1. ASSUME NEW r \in Recent' PROVE r \in Recent
    <3>1. r \in Requests /\ step'[r] = "admitted" /\ r \notin slipped' /\ stamp'[r] + Window > now'
      BY <2>1 DEF Admitted
    <3>2. step[r] = "admitted" /\ stamp'[r] = stamp[r] /\ r \notin slipped
      BY <3>1
    <3>3. stamp[r] + Window > now
      BY <1>0, <3>1, <3>2 DEF LimitTypeOK, LimitInv
    <3> QED
      BY <3>1, <3>2, <3>3 DEF Admitted
  <2>2. IsFiniteSet(Recent)
    BY FS_Subset DEF Admitted
  <2>3. Cardinality(Recent') <= Cardinality(Recent) /\ Cardinality(Recent) <= Limit
    BY <1>0, <2>1, <2>2, FS_Subset DEF WithinLimit
  <2>4. Cardinality(Recent') \in Nat /\ Cardinality(Recent) \in Nat
    BY <2>1, <2>2, FS_Subset, FS_CardinalityType
  <2> QED
    BY <2>3, <2>4 DEF WithinLimit
<1>2. RefusedWithReason'
  <2> SUFFICES ASSUME NEW r \in Requests, step'[r] = "refused"
               PROVE  Cardinality(Against(r)') > Limit
    BY DEF RefusedWithReason
  <2>1. step[r] = "refused" /\ stamp'[r] = stamp[r]
    OBVIOUS
  <2>2. Against(r) \subseteq Against(r)'
    BY <1>0, <2>1 DEF InSet
  <2>3. IsFiniteSet(Against(r)')
    BY FS_Subset
  <2>4. Cardinality(Against(r)) <= Cardinality(Against(r)') /\ Cardinality(Against(r)) > Limit
    BY <1>0, <2>1, <2>2, <2>3, FS_Subset DEF RefusedWithReason
  <2>5. Cardinality(Against(r)) \in Nat /\ Cardinality(Against(r)') \in Nat
    BY <2>2, <2>3, FS_Subset, FS_CardinalityType
  <2> QED
    BY <2>4, <2>5
<1> QED
  BY <1>1, <1>2 DEF LimitKept

LEMMA ArriveKeeps ==
  ASSUME LimitInv, NEW r \in Requests, Arrive(r) PROVE LimitInv'
<1>0. /\ LimitTypeOK /\ MembersStay /\ MembersFresh /\ now \in 0..MaxNow
      /\ step[r] = "new" /\ step' = [step EXCEPT ![r] = "stamped"]
      /\ stamp' = [stamp EXCEPT ![r] = now]
      /\ UNCHANGED <<now, zset, expires, slipped, late>>
  BY DEF LimitInv, Arrive, Goes
<1>1. LimitTypeOK'
  BY <1>0 DEF LimitTypeOK, Steps
<1>2. MembersStay' /\ MembersFresh'
  BY <1>0 DEF MembersStay, MembersFresh, LimitTypeOK, InSet, Kept, NoExpiry
<1>3. LimitKept'
  <2>1. now' \in Nat /\ now <= now' /\ late' \subseteq Requests /\ step' \in [Requests -> Steps]
    BY <1>0, <1>1 DEF LimitTypeOK
  <2>2. \A q \in Requests : step[q] # "new" => stamp'[q] = stamp[q]
    BY <1>0 DEF LimitTypeOK
  <2>3. \A q \in Requests : /\ step'[q] \in {"admitted", "refused"} => step'[q] = step[q]
                           /\ step[q] \in InSet => step'[q] \in InSet
    BY <1>0 DEF LimitTypeOK, InSet
  <2> QED
    BY <1>0, <2>1, <2>2, <2>3, DecidedKept
<1> QED
  BY <1>0, <1>1, <1>2, <1>3 DEF LimitInv

\* A trim passes what is older than a window, and nothing that counts.
LEMMA TrimKeeps ==
  ASSUME LimitInv, NEW r \in Requests, Trim(r) PROVE LimitInv'
<1> USE LimitAssumption, ClockAssumption
<1>0. /\ LimitTypeOK /\ MembersStay /\ MembersFresh /\ now \in 0..MaxNow
      /\ step[r] = "stamped" /\ step' = [step EXCEPT ![r] = "trimmed"]
      /\ zset' = {t \in zset : t + Window > stamp[r]}
      /\ expires' = IF zset' = {} THEN NoExpiry ELSE expires
      /\ UNCHANGED <<now, stamp, slipped, late>>
  BY DEF LimitInv, Trim, Goes
<1>1. LimitTypeOK'
  <2>1. step' \in [Requests -> Steps]
    BY <1>0 DEF LimitTypeOK, Steps
  <2>2. NoExpiry \in Nat /\ zset' \subseteq zset
    BY <1>0 DEF NoExpiry
  <2> QED
    BY <1>0, <2>1, <2>2 DEF LimitTypeOK
<1>2. stamp[r] <= now /\ \A q \in Requests : stamp[q] \in 0..now /\ stamp[q] + Window <= NoExpiry
  BY <1>0 DEF LimitTypeOK, NoExpiry
<1>3. MembersStay'
  BY <1>0, <1>2 DEF MembersStay, LimitTypeOK, InSet, Kept, NoExpiry
<1>4. MembersFresh'
  BY <1>0 DEF MembersFresh, LimitTypeOK, InSet
<1>5. LimitKept'
  BY <1>0, <1>1, DecidedKept DEF LimitTypeOK, InSet
<1> QED
  BY <1>0, <1>1, <1>3, <1>4, <1>5 DEF LimitInv

LEMMA AddKeeps ==
  ASSUME LimitInv, NEW r \in Requests, Add(r) PROVE LimitInv'
<1> USE LimitAssumption, ClockAssumption
<1>0. /\ LimitTypeOK /\ MembersStay /\ MembersFresh /\ now \in 0..MaxNow
      /\ step[r] = "trimmed" /\ step' = [step EXCEPT ![r] = "added"]
      /\ zset' = zset \cup {stamp[r]}
      /\ UNCHANGED <<now, expires, stamp>>
      /\ slipped \subseteq slipped' /\ slipped' \subseteq slipped \cup {r}
      /\ r \notin slipped' => \A q \in Requests \ {r} : step[q] \in InSet => stamp[q] # stamp[r]
      /\ late \subseteq late' /\ late' \subseteq late \cup {r}
      /\ r \notin late' => \A q \in Requests : step[q] \notin {"new", "stamped"}
                                                 => stamp[r] + Window > stamp[q]
  <2>1. \A q \in Requests : stamp[q] \in Nat
    BY DEF LimitInv, LimitTypeOK
  <2> QED
    BY <2>1 DEF LimitInv, Add, Goes
<1>1. LimitTypeOK'
  BY <1>0 DEF LimitTypeOK, Steps
<1>2. MembersStay'
  BY <1>0 DEF MembersStay, LimitTypeOK, InSet, Kept, NoExpiry
<1>3. MembersFresh'
  <2>1. \A q \in Requests : step[q] \in InSet => step'[q] \in InSet
    BY <1>0 DEF LimitTypeOK, InSet
  <2>2. step'[r] \in InSet
    BY <1>0 DEF LimitTypeOK, InSet
  <2>3. \A t \in zset' : \E q \in Requests : step'[q] \in InSet /\ stamp'[q] = t
    BY <1>0, <2>1, <2>2 DEF MembersFresh
  <2>4. ASSUME NEW p \in Requests, step'[p] \notin {"new", "stamped"}, NEW t \in zset'
        PROVE  \/ t + Window > stamp'[p]
               \/ \E q \in late' : step'[q] \in InSet /\ stamp'[q] = t
    <3>1. step[p] \notin {"new", "stamped"} /\ stamp'[p] = stamp[p]
      BY <1>0, <2>4 DEF LimitTypeOK
    <3>2. CASE t \in zset
      BY <1>0, <2>1, <3>1, <3>2 DEF MembersFresh, LimitTypeOK
    <3>3. CASE t = stamp[r]
      BY <1>0, <2>2, <3>1, <3>3
    <3> QED
      BY <1>0, <3>2, <3>3
  <2> QED
    BY <2>3, <2>4 DEF MembersFresh
<1>4. LimitKept'
  <2>1. late' \subseteq Requests
    BY <1>0 DEF LimitTypeOK
  <2> QED
    BY <1>0, <1>1, <2>1, DecidedKept DEF LimitTypeOK, InSet
<1> QED
  BY <1>0, <1>1, <1>2, <1>3, <1>4 DEF LimitInv

LEMMA ExpireKeeps ==
  ASSUME LimitInv, NEW r \in Requests, Expire(r) PROVE LimitInv'
<1> USE LimitAssumption, ClockAssumption
<1>0. /\ LimitTypeOK /\ MembersStay /\ MembersFresh /\ now \in 0..MaxNow
      /\ step[r] = "added" /\ step' = [step EXCEPT ![r] = "kept"]
      /\ expires' = IF zset = {} THEN expires ELSE now + (3 * Window) \div 2
      /\ UNCHANGED <<now, zset, stamp, slipped, late>>
  BY DEF LimitInv, Expire, Goes
<1>1. (3 * Window) \div 2 \in Nat /\ (3 * Window) \div 2 >= Window
  OBVIOUS
<1>2. LimitTypeOK'
  BY <1>0, <1>1 DEF LimitTypeOK, Steps
<1>3. MembersStay'
  <2>1. \A q \in Requests : stamp[q] \in 0..now
    BY <1>0 DEF LimitTypeOK
  <2>2. \A q \in Requests : step'[q] \in Kept => stamp[q] + Window <= expires'
    <3>1. CASE zset = {}
      BY <1>0, <2>1, <3>1 DEF MembersStay, NoExpiry
    <3>2. CASE zset # {}
      BY <1>0, <1>1, <2>1, <3>2
    <3> QED
      BY <3>1, <3>2
  <2>3. \A q \in Requests : step'[q] \in InSet <=> step[q] \in InSet
    BY <1>0 DEF LimitTypeOK, InSet
  <2> QED
    BY <1>0, <2>2, <2>3 DEF MembersStay, NoExpiry
<1>4. MembersFresh'
  BY <1>0 DEF MembersFresh, LimitTypeOK, InSet
<1>5. LimitKept'
  BY <1>0, <1>2, DecidedKept DEF LimitTypeOK, InSet
<1> QED
  BY <1>0, <1>2, <1>3, <1>4, <1>5 DEF LimitInv

LEMMA ElapseKeeps == ASSUME LimitInv, Elapse PROVE LimitInv'
<1> USE LimitAssumption, ClockAssumption
<1>0. /\ LimitTypeOK /\ MembersStay /\ MembersFresh /\ now \in 0..MaxNow
      /\ now' = now + 1 /\ now' \in 0..MaxNow
      /\ UNCHANGED <<step, stamp, late>>
      /\ slipped \subseteq slipped' /\ slipped' \subseteq Requests
      /\ \/ /\ expires <= now' /\ zset' = {} /\ expires' = NoExpiry
            /\ \A q \in Requests : step[q] = "added" => q \in slipped'
         \/ UNCHANGED <<zset, expires>>
  BY DEF LimitInv, LimitTypeOK, Elapse, Tick
<1>1. LimitTypeOK'
  <2>1. 0..now \subseteq 0..now' /\ NoExpiry \in Nat
    BY <1>0 DEF NoExpiry
  <2>2. stamp' \in [Requests -> 0..now']
    BY <1>0, <2>1 DEF LimitTypeOK
  <2>3. zset' \subseteq 0..now' /\ expires' \in Nat
    BY <1>0, <2>1 DEF LimitTypeOK
  <2> QED
    BY <1>0, <2>2, <2>3 DEF LimitTypeOK
<1>2. MembersStay'
  <2>1. \A q \in Requests : stamp[q] \in 0..now /\ step[q] \in Steps
    BY <1>0 DEF LimitTypeOK
  <2>2. CASE UNCHANGED <<zset, expires>>
    BY <1>0, <2>1, <2>2 DEF MembersStay, NoExpiry
  <2>3. CASE /\ expires <= now' /\ zset' = {} /\ expires' = NoExpiry
             /\ \A q \in Requests : step[q] = "added" => q \in slipped'
    <3>1. \A q \in Requests : stamp[q] + Window <= NoExpiry
      BY <1>0, <2>1 DEF NoExpiry
    <3>2. expires \in Nat
      BY <1>0 DEF LimitTypeOK
    <3>3. \A q \in Requests \ slipped' : step[q] \in InSet => stamp[q] + Window <= now'
      BY <1>0, <2>1, <2>3, <3>2 DEF MembersStay, InSet, Kept
    <3> QED
      BY <1>0, <2>1, <2>3, <3>1, <3>3 DEF MembersStay, NoExpiry
  <2> QED
    BY <1>0, <2>2, <2>3
<1>3. MembersFresh'
  BY <1>0 DEF MembersFresh
<1>4. LimitKept'
  <2>1. now' \in Nat /\ now <= now' /\ late' \subseteq Requests /\ step' \in [Requests -> Steps]
    BY <1>0 DEF LimitTypeOK
  <2> QED
    BY <1>0, <2>1, DecidedKept
<1> QED
  BY <1>0, <1>1, <1>2, <1>3, <1>4 DEF LimitInv

\* Every request admitted has a member, and every member is a request that
\* counts against the one refused.
LEMMA DecideKeeps ==
  ASSUME LimitInv, NEW r \in Requests, Decide(r) PROVE LimitInv'
<1> USE LimitAssumption, ClockAssumption
<1>0. /\ LimitTypeOK /\ MembersStay /\ MembersFresh /\ now \in 0..MaxNow
      /\ WithinLimit /\ RefusedWithReason
      /\ step[r] = "kept" /\ step' = [step EXCEPT ![r] = IF Cardinality(zset) <= Limit
                                                       THEN "admitted" ELSE "refused"]
      /\ UNCHANGED <<now, zset, expires, stamp, slipped, late>>
  BY DEF LimitInv, LimitKept, Decide
<1>1. /\ step' \in [Requests -> Steps]
      /\ \A q \in Requests : q # r => step'[q] = step[q]
      /\ step'[r] \in {"admitted", "refused"}
  BY <1>0 DEF LimitTypeOK, Steps
<1>2. LimitTypeOK' /\ MembersStay' /\ MembersFresh'
  <2>1. \A q \in Requests : step'[q] \in InSet => step[q] \in InSet
    BY <1>0, <1>1 DEF InSet
  <2>2. \A q \in Requests : step[q] \in InSet => step'[q] \in InSet
    BY <1>0, <1>1 DEF InSet
  <2>3. \A q \in Requests : step'[q] \in Kept => step[q] \in Kept
    BY <1>0, <1>1 DEF Kept
  <2>4. \A q \in Requests : step'[q] \notin {"new", "stamped"} => step[q] \notin {"new", "stamped"}
    BY <1>0, <1>1
  <2>5. LimitTypeOK'
    BY <1>0, <1>1 DEF LimitTypeOK
  <2>6. MembersStay'
    BY <1>0, <2>1, <2>3 DEF MembersStay
  <2>7. MembersFresh'
    <3>1. \A t \in zset : \E q \in Requests : step'[q] \in InSet /\ stamp[q] = t
      BY <1>0, <2>2 DEF MembersFresh
    <3>2. ASSUME NEW p \in Requests, step'[p] \notin {"new", "stamped"}, NEW t \in zset
          PROVE  t + Window > stamp[p] \/ \E q \in late : step'[q] \in InSet /\ stamp[q] = t
      BY <1>0, <2>2, <2>4, <3>2 DEF MembersFresh, LimitTypeOK
    <3> QED
      BY <1>0, <3>1, <3>2 DEF MembersFresh
  <2> QED
    BY <2>5, <2>6, <2>7
<1>3. IsFiniteSet(zset) /\ Cardinality(zset) \in Nat
  <2>1. zset \subseteq 0..now /\ IsFiniteSet(0..now)
    BY <1>0, FS_Interval DEF LimitTypeOK
  <2> QED
    BY <2>1, FS_Subset, FS_CardinalityType
<1>4. WithinLimit'
  <2> DEFINE Recent == {q \in Admitted \ slipped : stamp[q] + Window > now}
  <2>1. CASE Cardinality(zset) > Limit
    <3>1. Recent' = Recent
      BY <1>0, <1>1, <1>3, <2>1 DEF Admitted, LimitTypeOK
    <3> QED
      BY <1>0, <3>1 DEF WithinLimit
  <2>2. CASE Cardinality(zset) <= Limit
    <3> DEFINE m == [q \in Recent' |-> stamp[q]]
    <3>1. ASSUME NEW q \in Recent'
          PROVE  q \in Requests \ slipped /\ step[q] \in InSet /\ stamp[q] + Window > now
      BY <1>0, <1>1, <3>1 DEF Admitted, InSet
    <3>2. m \in Injection(Recent', zset)
      <4>1. \A q \in Recent' : stamp[q] \in zset
        BY <1>0, <3>1 DEF MembersStay
      <4>2. \A p, q \in Recent' : stamp[p] = stamp[q] => p = q
        BY <1>0, <3>1 DEF MembersStay
      <4> QED
        BY <4>1, <4>2 DEF Injection, IsInjective
    <3>3. Recent' \subseteq Requests
      BY <3>1
    <3>4. IsFiniteSet(Recent') /\ Cardinality(Recent') \in Nat
      BY <3>3, FS_Subset, FS_CardinalityType
    <3>5. Cardinality(Recent') <= Cardinality(zset)
      BY <1>3, <3>2, <3>4, FS_Injection
    <3> HIDE DEF Recent
    <3>6. Cardinality(Recent') <= Limit
      BY <1>3, <2>2, <3>4, <3>5
    <3> QED
      BY <3>6 DEF WithinLimit, Recent
  <2> QED
    BY <1>3, <2>1, <2>2
<1>5. RefusedWithReason'
  <2> DEFINE Against(p) == {q \in Requests : /\ step[q] \in InSet
                                             /\ stamp[q] + Window > stamp[p] \/ q \in late}
  <2>1. ASSUME NEW p \in Requests PROVE Against(p)' = Against(p)
    <3>1. \A q \in Requests : step'[q] \in InSet <=> step[q] \in InSet
      BY <1>0, <1>1 DEF InSet
    <3> QED
      BY <1>0, <3>1
  <2>2. ASSUME NEW p \in Requests, p # r, step'[p] = "refused"
        PROVE  Cardinality(Against(p)') > Limit
    BY <1>0, <1>1, <2>1, <2>2 DEF RefusedWithReason
  <2>3. ASSUME step'[r] = "refused" PROVE Cardinality(Against(r)) > Limit
    <3>1. Cardinality(zset) > Limit
      BY <1>0, <1>3, <2>3 DEF LimitTypeOK
    <3>2. \A t \in zset : \E q \in Against(r) : stamp[q] = t
      <4>1. \A t \in zset : \/ t + Window > stamp[r]
                           \/ \E q \in late : step[q] \in InSet /\ stamp[q] = t
        BY <1>0 DEF MembersFresh
      <4>2. \A t \in zset : \E q \in Requests : step[q] \in InSet /\ stamp[q] = t
        BY <1>0 DEF MembersFresh
      <4> QED
        BY <1>0, <4>1, <4>2 DEF LimitTypeOK
    <3> DEFINE w == [t \in zset |-> CHOOSE q \in Against(r) : stamp[q] = t]
    <3>3. \A t \in zset : w[t] \in Against(r) /\ stamp[w[t]] = t
      BY <3>2
    <3>4. w \in Injection(zset, Against(r))
      BY <3>3 DEF Injection, IsInjective
    <3>5. IsFiniteSet(Against(r)) /\ Cardinality(Against(r)) \in Nat
      BY FS_Subset, FS_CardinalityType
    <3> HIDE DEF Against
    <3>6. Cardinality(zset) <= Cardinality(Against(r))
      BY <1>3, <3>4, <3>5, FS_Injection
    <3> QED
      BY <1>3, <3>1, <3>5, <3>6
  <2> HIDE DEF Against
  <2>4. \A p \in Requests : step'[p] = "refused" => Cardinality(Against(p)') > Limit
    BY <2>1, <2>2, <2>3
  <2> QED
    BY <2>4 DEF RefusedWithReason, Against
<1> QED
  BY <1>0, <1>2, <1>4, <1>5 DEF LimitInv, LimitKept

LEMMA LimitStep == LimitInv /\ [LimitNext]_<<now, limitVars>> => LimitInv'
<1> SUFFICES ASSUME LimitInv, [LimitNext]_<<now, limitVars>> PROVE LimitInv'
  OBVIOUS
<1>1. CASE UNCHANGED <<now, limitVars>>
  BY <1>1 DEF limitVars, LimitInv, LimitTypeOK, MembersStay, MembersFresh, LimitKept,
              WithinLimit, RefusedWithReason, Admitted
<1> QED
  BY <1>1, ArriveKeeps, TrimKeeps, AddKeeps, ExpireKeeps, DecideKeeps, ElapseKeeps
     DEF LimitNext

(***************************************************************************)
(* TokenBucket                                                             *)
(***************************************************************************)
LEMMA WholeTicks ==
  ASSUME NEW n \in Nat, NEW d \in Nat \ {0} PROVE (n * d) \div d = n
  OBVIOUS

LEMMA Scaled ==
  ASSUME NEW x \in Int, NEW y \in Int, NEW d \in Nat, x <= y PROVE x * d <= y * d
  OBVIOUS

LEMMA Cancelled ==
  ASSUME NEW x \in Int, NEW y \in Int, NEW d \in Nat \ {0}, x * d <= y * d PROVE x <= y
<1>1. ASSUME y + 1 <= x PROVE FALSE
  <2>1. (y + 1) * d <= x * d
    BY <1>1, Scaled
  <2>2. PICK u \in Int : u = x * d
    OBVIOUS
  <2>3. PICK v \in Int : v = y * d
    OBVIOUS
  <2>4. (y + 1) * d = v + d
    BY <2>3
  <2> QED
    BY <2>1, <2>2, <2>3, <2>4
<1> QED
  BY <1>1

LEMMA Product ==
  ASSUME NEW x \in Int, NEW d \in Int
  PROVE  /\ x * d \in Int /\ (x + 1) * d = x * d + d /\ 0 * d = 0
         /\ \A y \in Int : (x - y) * d = x * d - y * d
  OBVIOUS

\* Two tokens' worth for each tick.
LEMMA Earned ==
  ASSUME NEW a \in Int, NEW b \in Int, NEW d \in Nat
  PROVE  /\ 2 * (b - a) * d \in Int /\ 2 * ((b + 1) - a) * d = 2 * (b - a) * d + 2 * d
         /\ 2 * (b - b) * d = 0 /\ a <= b => 2 * (b - a) * d \in Nat
         /\ \A c \in Int : 2 * (b - a) * d = 2 * (c - a) * d + 2 * ((b - c) * d)
<1>1. PICK e \in Int : e = (b - a) * d
  OBVIOUS
<1>2. 2 * (b - a) * d = 2 * e /\ 2 * ((b + 1) - a) * d = 2 * e + 2 * d
  BY <1>1
<1>3. ASSUME a <= b PROVE e >= 0
  BY <1>1, <1>3, Scaled
<1>4. \A c \in Int : 2 * (b - a) * d = 2 * (c - a) * d + 2 * ((b - c) * d)
  OBVIOUS
<1> QED
  BY <1>2, <1>3, <1>4

\* Tokens come back Rate units at a time, so that no wait is cut short by its
\* rounding.
WholeTokens == \E m \in Nat : tokens = m * Rate
\* What was let through since a and what is at hand are the burst and what was
\* earned since, the time slept twice.
PaceAwake ==
  wakes = Awake =>
    \A a \in 0..now : SentIn(a, now) * Period + Refill <= Full + 2 * (now - a) * Rate + Period
\* The sleeper has the lock: nothing is let through, and it goes on once the
\* token it is short of is earned.
PaceAsleep ==
  wakes # Awake =>
    /\ wakes >= last_refill /\ Period - tokens <= (wakes - last_refill) * Rate
    /\ \A a \in 0..last_refill :
         SentIn(a, now) * Period + tokens <= Full + 2 * (last_refill - a) * Rate + Period
    /\ \A a \in last_refill + 1..now : SentIn(a, now) = 0
SentSoFar == \A t \in now..MaxNow : sent[t] = sent[now]

BucketInv ==
  /\ BucketTypeOK /\ now \in 0..MaxNow /\ WholeTokens /\ SentSoFar
  /\ PaceAwake /\ PaceAsleep /\ PaceAtMostDoubled

LEMMA BucketParameters ==
  /\ Rate \in Nat \ {0} /\ Period \in Nat \ {0} /\ Full \in Nat /\ Period <= Full
  /\ MaxNow \in Nat /\ Awake \in Nat /\ Awake > MaxNow + Period
  /\ \E k \in Nat : Period = k * Rate
  BY BucketAssumption, ClockAssumption DEF Full, Awake

\* What a refill gives is whole, and no more than the time since the last one
\* has earned.
LEMMA RefillWhole ==
  ASSUME BucketTypeOK, WholeTokens, now \in 0..MaxNow
  PROVE  /\ Refill \in 0..Full /\ Refill <= tokens + (now - last_refill) * Rate
         /\ Refill >= tokens
         /\ \E m \in Nat : Refill = m * Rate
<1>1. /\ tokens \in 0..Full /\ last_refill \in 0..now /\ now - last_refill \in Nat
  BY DEF BucketTypeOK
<1>2. PICK m \in Nat : tokens = m * Rate
  BY DEF WholeTokens
<1>3. PICK d \in Nat : d = now - last_refill
  BY <1>1
<1>4. PICK g \in Nat : g = d * Rate
  BY BucketParameters
<1>5. RefillUnbounded = tokens + g
  BY <1>3, <1>4 DEF RefillUnbounded
<1>6. tokens + g = (m + d) * Rate /\ Full = Period * Rate
  BY <1>2, <1>4, BucketParameters DEF Full
<1>7. Refill \in 0..Full /\ Refill <= tokens + g /\ Refill >= tokens
  BY <1>1, <1>4, <1>5, BucketParameters DEF Refill
<1>8. \E n \in Nat : Refill = n * Rate
  <2>1. CASE Refill = Full
    BY <1>6, <2>1, BucketParameters
  <2>2. CASE Refill = tokens + g
    BY <1>6, <2>2
  <2> QED
    BY <1>5, <2>1, <2>2 DEF Refill
<1> QED
  BY <1>3, <1>4, <1>7, <1>8

LEMMA BucketInitInv == BucketInit /\ now = 0 => BucketInv
<1> SUFFICES ASSUME BucketInit, now = 0 PROVE BucketInv
  OBVIOUS
<1> USE BucketParameters
<1>1. BucketTypeOK /\ SentSoFar /\ now \in 0..MaxNow
  BY DEF BucketInit, BucketTypeOK, SentSoFar
<1>2. WholeTokens
  BY DEF BucketInit, WholeTokens, Full
<1>3. \A a \in 0..now : a = 0 /\ SentIn(a, now) = 0
  BY <1>1 DEF SentIn, BucketInit
<1>4. Refill \in 0..Full
  BY <1>1, <1>2, RefillWhole
<1>5. PaceAwake
  BY <1>3, <1>4 DEF PaceAwake
<1>6. PaceAtMostDoubled
  BY <1>3 DEF PaceAtMostDoubled
<1> QED
  BY <1>1, <1>2, <1>5, <1>6 DEF BucketInv, BucketInit, PaceAsleep

\* A request let through now counts once in every stretch that ends now, and in
\* no earlier one.
LEMMA LetThroughCounts ==
  ASSUME BucketTypeOK, now \in 0..MaxNow, SentSoFar, LetThrough, now' = now
  PROVE  /\ sent' \in [0..MaxNow -> Nat]
         /\ SentSoFar'
         /\ \A a \in 0..now : SentIn(a, now)' = SentIn(a, now) + 1 /\ SentIn(a, now) \in Int
         /\ \A a, b \in 0..now : b < now /\ a <= b => SentIn(a, b)' = SentIn(a, b)
<1>1. /\ \A t \in 0..MaxNow : sent[t] \in Nat
      /\ \A t \in 0..MaxNow : sent'[t] = IF t < now THEN sent[t] ELSE sent[t] + 1
      /\ sent' = [t \in 0..MaxNow |-> sent'[t]]
  BY DEF BucketTypeOK, LetThrough
<1>2. sent' \in [0..MaxNow -> Nat]
  BY <1>1
<1>3. SentSoFar'
  BY <1>1 DEF SentSoFar
<1>4. \A a \in 0..now : SentIn(a, now)' = SentIn(a, now) + 1 /\ SentIn(a, now) \in Int
  <2> SUFFICES ASSUME NEW a \in 0..now
               PROVE  SentIn(a, now)' = SentIn(a, now) + 1 /\ SentIn(a, now) \in Int
    OBVIOUS
  <2>1. sent'[now] = sent[now] + 1 /\ sent[now] \in Nat
    BY <1>1
  <2>2. CASE a = 0
    BY <2>1, <2>2 DEF SentIn
  <2>3. CASE a > 0
    <3>1. a - 1 \in 0..MaxNow /\ a - 1 < now
      BY <2>3, BucketParameters
    <3>2. sent'[a - 1] = sent[a - 1] /\ sent[a - 1] \in Nat
      BY <1>1, <3>1
    <3> QED
      BY <2>1, <2>3, <3>2 DEF SentIn
  <2> QED
    BY <2>2, <2>3
<1>5. \A a, b \in 0..now : b < now /\ a <= b => SentIn(a, b)' = SentIn(a, b)
  BY <1>1, BucketParameters DEF SentIn
<1> QED
  BY <1>2, <1>3, <1>4, <1>5

\* With nothing at hand overdrawn, the stretches that end now keep the pace.
LEMMA PaceNow ==
  ASSUME now' = now, now \in 0..MaxNow, Refill' \in Nat, PaceAwake', wakes' = Awake, PaceAtMostDoubled, \A a, b \in 0..now : b < now /\ a <= b => SentIn(a, b)' = SentIn(a, b),
         \A a \in 0..now : SentIn(a, now)' \in Int
  PROVE  PaceAtMostDoubled'
<1> USE BucketParameters
<1> SUFFICES ASSUME NEW a \in 0..now, NEW b \in 0..now, a <= b
             PROVE  SentIn(a, b)' * Period <= Full + 2 * (b - a) * Rate + Period
  BY DEF PaceAtMostDoubled
<1>2. CASE b < now
  BY <1>2 DEF PaceAtMostDoubled
<1>3. CASE b = now
  <2>1. SentIn(a, now)' * Period + Refill' <= Full + 2 * (now - a) * Rate + Period
    BY DEF PaceAwake
  <2>2. PICK x \in Int : x = SentIn(a, now)' * Period
    OBVIOUS
  <2>3. PICK y \in Int : y = Full + 2 * (now - a) * Rate + Period
    OBVIOUS
  <2> QED
    BY <1>3, <2>1, <2>2, <2>3
<1> QED
  BY <1>2, <1>3

LEMMA TakeKeeps == BucketInv /\ Take => BucketInv'
<1> SUFFICES ASSUME BucketInv, Take PROVE BucketInv'
  OBVIOUS
<1> USE BucketParameters
<1>1. /\ BucketTypeOK /\ now \in 0..MaxNow /\ WholeTokens /\ SentSoFar
      /\ PaceAwake /\ PaceAtMostDoubled
      /\ wakes = Awake /\ wakes' = Awake /\ Refill >= Period
      /\ tokens' = Refill - Period /\ last_refill' = now /\ now' = now
      /\ LetThrough
  BY DEF BucketInv, Take
<1>2. PICK m \in Nat : Refill = m * Rate
  BY <1>1, RefillWhole
<1>3. Refill \in 0..Full
  BY <1>1, RefillWhole
<1>4. /\ sent' \in [0..MaxNow -> Nat] /\ SentSoFar'
      /\ \A a \in 0..now : SentIn(a, now)' = SentIn(a, now) + 1 /\ SentIn(a, now) \in Int
      /\ \A a, b \in 0..now : b < now /\ a <= b => SentIn(a, b)' = SentIn(a, b)
  BY <1>1, LetThroughCounts
<1>5. BucketTypeOK'
  <2>1. tokens' \in 0..Full /\ last_refill' \in 0..now'
    BY <1>1, <1>3
  <2> QED
    BY <1>1, <1>4, <2>1 DEF BucketTypeOK
<1>6. WholeTokens'
  <2>1. PICK k \in Nat : Period = k * Rate
    OBVIOUS
  <2>2. k <= m
    BY <1>1, <1>2, <2>1, Cancelled
  <2>3. m - k \in Nat /\ Refill - Period = (m - k) * Rate
    BY <1>2, <2>1, <2>2, Product
  <2> QED
    BY <1>1, <2>3 DEF WholeTokens
<1>7. Refill' = Refill - Period
  BY <1>1, <1>3 DEF Refill, RefillUnbounded
<1>8. PaceAwake'
  <2> SUFFICES ASSUME NEW a \in 0..now
               PROVE  SentIn(a, now)' * Period + Refill' <= Full + 2 * (now - a) * Rate + Period
    BY <1>1 DEF PaceAwake
  <2>1. SentIn(a, now) * Period + Refill <= Full + 2 * (now - a) * Rate + Period
    BY <1>1 DEF PaceAwake
  <2>2. SentIn(a, now)' * Period = SentIn(a, now) * Period + Period
    BY <1>4, Product
  <2>3. SentIn(a, now) * Period \in Int /\ 2 * (now - a) * Rate \in Int
    BY <1>1, <1>4, Product, Earned
  <2> QED
    BY <1>3, <1>7, <2>1, <2>2, <2>3
<1>9. PaceAtMostDoubled'
  <2>1. Refill' \in Nat
    BY <1>1, <1>3, <1>7
  <2>2. \A a \in 0..now : SentIn(a, now)' \in Int
    BY <1>4
  <2> QED
    BY <1>1, <1>4, <1>8, <2>1, <2>2, PaceNow
<1> QED
  BY <1>1, <1>4, <1>5, <1>6, <1>8, <1>9 DEF BucketInv, PaceAsleep

LEMMA SleepKeeps == BucketInv /\ Sleep => BucketInv'
<1> SUFFICES ASSUME BucketInv, Sleep PROVE BucketInv'
  OBVIOUS
<1> USE BucketParameters
<1>1. /\ BucketTypeOK /\ now \in 0..MaxNow /\ WholeTokens /\ SentSoFar
      /\ PaceAwake /\ PaceAtMostDoubled
      /\ wakes = Awake /\ Refill < Period
      /\ tokens' = Refill /\ last_refill' = now /\ now' = now /\ sent' = sent
      /\ wakes' = now + (Period - Refill) \div Rate
  BY DEF BucketInv, Sleep
<1>2. PICK m \in Nat : Refill = m * Rate
  BY <1>1, RefillWhole
<1>3. Refill \in 0..Full
  BY <1>1, RefillWhole
<1>4. PICK n \in Nat : Period - Refill = n * Rate /\ n <= Period
  <2>1. PICK k \in Nat : Period = k * Rate
    OBVIOUS
  <2>2. m <= k
    BY <1>1, <1>2, <2>1, Cancelled
  <2>3. k - m \in Nat /\ Period - Refill = (k - m) * Rate
    BY <1>2, <2>1, <2>2, Product
  <2>4. k - m <= Period
    BY <2>1, <2>2, Scaled
  <2> QED
    BY <2>3, <2>4
<1>5. wakes' = now + n
  <2>1. (Period - Refill) \div Rate = n
    BY <1>4, WholeTicks
  <2> QED
    BY <1>1, <2>1
<1>6. BucketTypeOK' /\ wakes' # Awake /\ SentSoFar' /\ WholeTokens'
  BY <1>1, <1>2, <1>3, <1>4, <1>5 DEF BucketTypeOK, SentSoFar, WholeTokens
<1>7. PaceAsleep'
  <2>1. wakes' >= last_refill' /\ Period - tokens' <= (wakes' - last_refill') * Rate
    BY <1>1, <1>4, <1>5
  <2>2. \A a \in 0..now : SentIn(a, now)' = SentIn(a, now)
    BY <1>1 DEF SentIn
  <2> QED
    BY <1>1, <2>1, <2>2 DEF PaceAsleep, PaceAwake
<1>8. PaceAtMostDoubled'
  BY <1>1 DEF PaceAtMostDoubled, SentIn
<1> QED
  BY <1>1, <1>6, <1>7, <1>8 DEF BucketInv, PaceAwake

LEMMA WakeKeeps == BucketInv /\ Wake => BucketInv'
<1> SUFFICES ASSUME BucketInv, Wake PROVE BucketInv'
  OBVIOUS
<1> USE BucketParameters
<1>1. /\ BucketTypeOK /\ now \in 0..MaxNow /\ SentSoFar
      /\ PaceAsleep /\ PaceAtMostDoubled
      /\ now >= wakes /\ wakes' = Awake
      /\ tokens' = 0 /\ last_refill' = last_refill /\ now' = now
      /\ LetThrough
  BY DEF BucketInv, Wake
<1>2. wakes # Awake /\ wakes \in Nat /\ tokens \in Nat /\ last_refill \in 0..now
  BY <1>1 DEF BucketTypeOK
<1>3. /\ sent' \in [0..MaxNow -> Nat] /\ SentSoFar'
      /\ \A a \in 0..now : SentIn(a, now)' = SentIn(a, now) + 1 /\ SentIn(a, now) \in Int
      /\ \A a, b \in 0..now : b < now /\ a <= b => SentIn(a, b)' = SentIn(a, b)
  BY <1>1, LetThroughCounts
<1>4. BucketTypeOK' /\ WholeTokens'
  BY <1>1, <1>3 DEF BucketTypeOK, WholeTokens
<1>5. PICK g \in Nat : g = (now - last_refill) * Rate
  <2>1. now - last_refill \in Nat
    BY <1>1, <1>2
  <2> QED
    BY <2>1
<1>6. Refill' \in Nat /\ Refill' <= g /\ Refill' <= Full
  BY <1>1, <1>5 DEF Refill, RefillUnbounded
<1>7. Period - tokens <= g
  <2>1. (wakes - last_refill) * Rate <= (now - last_refill) * Rate
    BY <1>1, <1>2, Scaled
  <2>2. Period - tokens <= (wakes - last_refill) * Rate /\ (wakes - last_refill) * Rate \in Int
    BY <1>1, <1>2 DEF PaceAsleep
  <2> QED
    BY <1>2, <1>5, <2>1, <2>2
<1>8. PaceAwake'
  <2> SUFFICES ASSUME NEW a \in 0..now
               PROVE  SentIn(a, now)' * Period + Refill' <= Full + 2 * (now - a) * Rate + Period
    BY <1>1 DEF PaceAwake
  <2>1. SentIn(a, now)' * Period = SentIn(a, now) * Period + Period
    BY <1>3, Product
  <2>2. SentIn(a, now) * Period \in Int
    BY <1>3, Product
  <2>3. CASE a <= last_refill
    <3>1. SentIn(a, now) * Period + tokens <= Full + 2 * (last_refill - a) * Rate + Period
      BY <1>1, <1>2, <2>3 DEF PaceAsleep
    <3>2. 2 * (now - a) * Rate = 2 * (last_refill - a) * Rate + 2 * g
      BY <1>1, <1>2, <1>5, Earned
    <3>3. 2 * (last_refill - a) * Rate \in Int
      BY <1>2, Earned
    <3> QED
      BY <1>2, <1>6, <1>7, <2>1, <2>2, <3>1, <3>2, <3>3
  <2>4. CASE a > last_refill
    <3>1. SentIn(a, now) = 0
      BY <1>1, <1>2, <2>4 DEF PaceAsleep
    <3>2. 2 * (now - a) * Rate \in Nat
      BY <1>1, Earned
    <3> QED
      BY <1>6, <2>1, <3>1, <3>2
  <2> QED
    BY <1>2, <2>3, <2>4
<1>9. PaceAtMostDoubled'
  <2>1. \A a \in 0..now : SentIn(a, now)' \in Int
    BY <1>3
  <2> QED
    BY <1>1, <1>3, <1>6, <1>8, <2>1, PaceNow
<1> QED
  BY <1>1, <1>3, <1>4, <1>8, <1>9 DEF BucketInv, PaceAsleep

LEMMA TimeKeepsPace == BucketInv /\ Tick /\ UNCHANGED bucketVars => BucketInv'
<1> SUFFICES ASSUME BucketInv, Tick, UNCHANGED bucketVars PROVE BucketInv'
  OBVIOUS
<1> USE BucketParameters
<1>0. PICK next \in 0..MaxNow : next = now + 1 /\ now' = next
  BY DEF BucketInv, Tick
<1>1. /\ BucketTypeOK /\ now \in 0..MaxNow /\ WholeTokens /\ SentSoFar
      /\ PaceAwake /\ PaceAsleep /\ PaceAtMostDoubled
      /\ tokens' = tokens /\ last_refill' = last_refill /\ wakes' = wakes /\ sent' = sent
  BY DEF BucketInv, bucketVars
<1>2. /\ \A t \in 0..MaxNow : sent[t] \in Nat
      /\ tokens \in 0..Full /\ last_refill \in 0..now /\ wakes \in Nat
  BY <1>1 DEF BucketTypeOK
<1>3. sent[next] = sent[now]
  BY <1>0, <1>1 DEF SentSoFar
<1>4. BucketTypeOK' /\ WholeTokens' /\ SentSoFar'
  <2>1. last_refill' \in 0..next
    BY <1>0, <1>1, <1>2
  <2>2. \A t \in next..MaxNow : t \in now..MaxNow
    BY <1>0, <1>1
  <2> QED
    BY <1>0, <1>1, <1>3, <2>1, <2>2 DEF BucketTypeOK, WholeTokens, SentSoFar
<1>5. /\ \A a \in 0..now : SentIn(a, next) = SentIn(a, now) /\ SentIn(a, now) \in Int
      /\ SentIn(next, next) = 0
      /\ \A a, b \in 0..next : SentIn(a, b)' = SentIn(a, b)
  <2>1. \A a \in 0..now : a # 0 => a - 1 \in 0..MaxNow
    BY <1>1
  <2>2. SentIn(next, next) = sent[next] - sent[now]
    BY <1>0, <1>1 DEF SentIn
  <2>3. \A a, b \in 0..next : SentIn(a, b)' = SentIn(a, b)
    BY <1>1 DEF SentIn
  <2> QED
    BY <1>1, <1>2, <1>3, <2>1, <2>2, <2>3 DEF SentIn
<1>6. /\ Refill \in 0..Full /\ Refill' \in 0..Full /\ Refill' <= Refill + Rate
  <2>1. Refill \in 0..Full
    BY <1>1, RefillWhole
  <2>2. now - last_refill \in Nat
    BY <1>1, <1>2
  <2>3. PICK g \in Nat : g = (now - last_refill) * Rate
    BY <2>2
  <2>4. (next - last_refill) * Rate = g + Rate
    BY <1>0, <1>1, <1>2, <2>2, <2>3
  <2>5. RefillUnbounded = tokens + g /\ RefillUnbounded' = tokens + (g + Rate)
    BY <1>0, <1>1, <2>3, <2>4 DEF RefillUnbounded
  <2> QED
    BY <1>2, <2>1, <2>5 DEF Refill
<1>7. PaceAwake'
  <2> SUFFICES ASSUME wakes = Awake, NEW a \in 0..next
               PROVE  SentIn(a, next)' * Period + Refill' <= Full + 2 * (next - a) * Rate + Period
    BY <1>0, <1>1 DEF PaceAwake
  <2>0. SentIn(a, next)' = SentIn(a, next)
    BY <1>5
  <2>1. CASE a = next
    <3>1. SentIn(a, next)' * Period = 0 /\ 2 * (next - a) * Rate = 0
      BY <1>5, <2>0, <2>1, Earned, Product
    <3> QED
      BY <1>6, <3>1
  <2>2. CASE a \in 0..now
    <3>1. SentIn(a, now) * Period + Refill <= Full + 2 * (now - a) * Rate + Period
      BY <1>1, <2>2 DEF PaceAwake
    <3>2. 2 * (next - a) * Rate = 2 * (now - a) * Rate + 2 * Rate
      BY <1>0, <1>1, Earned
    <3>3. SentIn(a, next)' * Period = SentIn(a, now) * Period /\ SentIn(a, now) * Period \in Int
      BY <1>5, <2>0, <2>2, Product
    <3>4. 2 * (now - a) * Rate \in Int
      BY <1>1, <2>2, Earned
    <3> QED
      BY <1>6, <3>1, <3>2, <3>3, <3>4
  <2> QED
    BY <1>0, <1>1, <2>1, <2>2
<1>8. PaceAsleep'
  <2> SUFFICES ASSUME wakes # Awake PROVE PaceAsleep'
    BY <1>1 DEF PaceAsleep
  <2>1. \A a \in 0..last_refill : SentIn(a, next)' = SentIn(a, now)
    BY <1>0, <1>1, <1>2, <1>5
  <2>2. \A a \in last_refill + 1..next : SentIn(a, next)' = 0
    <3> SUFFICES ASSUME NEW a \in last_refill + 1..next PROVE SentIn(a, next)' = 0
      OBVIOUS
    <3>1. SentIn(a, next)' = SentIn(a, next)
      BY <1>0, <1>1, <1>2, <1>5
    <3>2. CASE a = next
      BY <1>5, <3>1, <3>2
    <3>3. CASE a \in last_refill + 1..now
      BY <1>0, <1>1, <1>2, <1>5, <3>1, <3>3 DEF PaceAsleep
    <3> QED
      BY <1>0, <1>1, <1>2, <3>2, <3>3
  <2> QED
    BY <1>0, <1>1, <2>1, <2>2 DEF PaceAsleep
<1>9. PaceAtMostDoubled'
  <2> SUFFICES ASSUME NEW a \in 0..next, NEW b \in 0..next, a <= b
               PROVE  SentIn(a, b)' * Period <= Full + 2 * (b - a) * Rate + Period
    BY <1>0 DEF PaceAtMostDoubled
  <2>1. SentIn(a, b)' = SentIn(a, b)
    BY <1>5
  <2>2. CASE b \in 0..now
    BY <1>0, <1>1, <2>1, <2>2 DEF PaceAtMostDoubled
  <2>3. CASE b = next /\ a = next
    <3>1. SentIn(a, b)' * Period = 0 /\ 2 * (b - a) * Rate = 0
      BY <1>5, <2>1, <2>3, Earned, Product
    <3> QED
      BY <3>1
  <2>4. CASE b = next /\ a \in 0..now
    <3>1. SentIn(a, b) = SentIn(a, now)
      BY <1>5, <2>4
    <3>2. SentIn(a, now) * Period <= Full + 2 * (now - a) * Rate + Period
      BY <1>1, <2>4 DEF PaceAtMostDoubled
    <3>3. 2 * (b - a) * Rate = 2 * (now - a) * Rate + 2 * Rate
      BY <1>0, <1>1, <2>4, Earned
    <3>4. SentIn(a, now) * Period \in Int /\ 2 * (now - a) * Rate \in Int
      BY <1>1, <1>5, <2>4, Product, Earned
    <3> QED
      BY <2>1, <3>1, <3>2, <3>3, <3>4
  <2> QED
    BY <1>0, <1>1, <2>2, <2>3, <2>4
<1> QED
  BY <1>0, <1>1, <1>4, <1>7, <1>8, <1>9 DEF BucketInv

LEMMA BucketStep == BucketInv /\ [BucketNext]_<<now, bucketVars>> => BucketInv'
<1> SUFFICES ASSUME BucketInv, UNCHANGED <<now, bucketVars>> PROVE BucketInv'
  BY TakeKeeps, SleepKeeps, WakeKeeps, TimeKeepsPace DEF BucketNext
<1> QED
  BY DEF bucketVars, BucketInv, BucketTypeOK, WholeTokens, SentSoFar, PaceAwake, PaceAsleep,
         PaceAtMostDoubled, SentIn, Refill, RefillUnbounded

(***************************************************************************)
(* NotionListing                                                           *)
(***************************************************************************)
\* How many results a listing has.
Count == Cardinality(NotionPages)

LEMMA CountPages == IsFiniteSet(NotionPages) /\ Count \in Nat \ {0}
  BY NotionAssumption, FS_CardinalityType, FS_EmptySet DEF Count

\* The results have every page once.
LEMMA OrderOfAll ==
  ASSUME NEW o \in Orders
  PROVE  /\ DOMAIN o = 1..Count /\ Len(o) = Count
         /\ \A i \in 1..Count : o[i] \in NotionPages
         /\ \A i, j \in 1..Count : o[i] = o[j] => i = j
         /\ \A p \in NotionPages : \E i \in 1..Count : o[i] = p
         /\ \A k \in 1..Count : (CHOOSE i \in DOMAIN o : o[i] = o[k]) = k
<1>1. o \in [1..Count -> NotionPages] /\ IsInjective(o)
  BY DEF Orders, Count
<1>2. \A i, j \in 1..Count : o[i] = o[j] => i = j
  BY <1>1 DEF IsInjective
<1>3. Len(o) = Count
  <2>1. o \in Seq(NotionPages)
    BY <1>1, CountPages
  <2>2. Len(o) \in Nat /\ 1..Len(o) = 1..Count
    BY <1>1, <2>1
  <2>3. 1 \in 1..Count /\ Count \in 1..Count
    BY CountPages
  <2>4. Count \in 1..Len(o) /\ Len(o) \in 1..Len(o)
    BY <2>2, <2>3
  <2> QED
    BY <2>2, <2>4, CountPages
<1>4. \A p \in NotionPages : \E i \in 1..Count : o[i] = p
  <2>1. o \in Injection(1..Count, NotionPages)
    BY <1>1 DEF Injection
  <2>2. Cardinality(1..Count) = Count
    BY CountPages, FS_Interval
  <2>3. o \in Surjection(1..Count, NotionPages)
    BY <2>1, <2>2, CountPages, FS_Injection DEF Count
  <2> QED
    BY <2>3 DEF Surjection
<1> QED
  BY <1>1, <1>2, <1>3, <1>4

LEMMA InFrontOrders ==
  ASSUME NEW o \in Orders, NEW n \in 1..Count
  PROVE  /\ InFront(o, n) \in Orders
         /\ InFront(o, n)[1] = o[n]
         /\ \A i \in 1..Count : /\ i < n => i + 1 \in 1..Count /\ InFront(o, n)[i + 1] = o[i]
                                /\ i > n => InFront(o, n)[i] = o[i]
<1> DEFINE From(i) == IF i = 1 THEN n ELSE IF i <= n THEN i - 1 ELSE i
<1>1. \A i \in 1..Count : From(i) \in 1..Count /\ InFront(o, n)[i] = o[From(i)]
  BY OrderOfAll, CountPages DEF InFront
<1>2. \A i, j \in 1..Count : From(i) = From(j) => i = j
  BY CountPages
<1>3. InFront(o, n) = [i \in 1..Count |-> o[From(i)]]
  BY OrderOfAll DEF InFront
<1> HIDE DEF From
<1>4. InFront(o, n) \in [1..Count -> NotionPages]
  BY <1>1, <1>3, OrderOfAll
<1>5. \A i, j \in 1..Count : InFront(o, n)[i] = InFront(o, n)[j] => i = j
  <2> SUFFICES ASSUME NEW i \in 1..Count, NEW j \in 1..Count, InFront(o, n)[i] = InFront(o, n)[j]
               PROVE  i = j
    OBVIOUS
  <2>1. o[From(i)] = o[From(j)] /\ From(i) \in 1..Count /\ From(j) \in 1..Count
    BY <1>1
  <2>2. From(i) = From(j)
    BY <2>1, OrderOfAll
  <2> QED
    BY <1>2, <2>2
<1>6. InFront(o, n) \in Orders
  BY <1>4, <1>5 DEF Orders, Count, IsInjective
<1> QED
  BY <1>1, <1>6, CountPages DEF From

\* What is edited comes first, so that the results are in the order of their
\* edits, the last one first.
LastFirst == \A i, j \in 1..Count : i < j => edited[order[j]] <= edited[order[i]]
\* The promise holds while a listing turns as well.
Caught == \A p \in NotionPages \ gaps : synced[p] = edited[p] \/ edited[p] > stored
\* What the stored cursor lets through and has stayed where it was is found
\* already, or yet to come.
FoundOrAhead ==
  turning =>
    /\ from \in NotionPages
    /\ \A p \in NotionPages \ moved : edited[p] > stored =>
         \/ <<p, edited[p]>> \in found
         \/ \E i \in 1..Count : i >= Start /\ order[i] = p

NotionInv == NotionTypeOK /\ LastFirst /\ Caught /\ FoundOrAhead

LEMMA NotionInitInv == NotionInit => NotionInv
<1> SUFFICES ASSUME NotionInit PROVE NotionInv
  OBVIOUS
<1>1. NotionTypeOK
  BY NotionAssumption DEF NotionInit, NotionTypeOK
<1>2. \A i \in 1..Count : order[i] \in NotionPages
  BY OrderOfAll DEF NotionInit
<1>3. LastFirst /\ Caught /\ FoundOrAhead
  BY <1>2 DEF NotionInit, LastFirst, Caught, FoundOrAhead
<1> QED
  BY <1>1, <1>3 DEF NotionInv

\* Where a listing goes on, and what the next response gives.
LEMMA TurnFacts ==
  ASSUME NotionInv, turning
  PROVE  /\ Start \in 1..Count /\ order[Start] = from
         /\ End \in Start..Count /\ Len(order) = Count
         /\ Newer \subseteq NotionPages \X (1..minute)
         /\ \A i \in Start..End : edited[order[i]] > stored => <<order[i], edited[order[i]]>> \in Newer
         /\ Latest \in 0..minute
<1>1. /\ NotionTypeOK /\ LastFirst /\ order \in Orders /\ from \in NotionPages
      /\ edited \in [NotionPages -> 1..minute] /\ minute \in 1..MaxMinute /\ latest \in 0..minute
      /\ stored \in 0..minute /\ PageSize \in Nat \ {0} /\ MaxMinute \in Nat
  BY NotionAssumption DEF NotionInv, FoundOrAhead, NotionTypeOK
<1>2. PICK k \in 1..Count : order[k] = from
  BY <1>1, OrderOfAll
<1>3. Start = k
  BY <1>1, <1>2, OrderOfAll DEF Start
<1>4. Len(order) = Count /\ Count \in Nat
  BY <1>1, OrderOfAll, CountPages
<1>5. End \in k..Count
  BY <1>1, <1>3, <1>4 DEF End
<1>6. \A i \in k..End : i \in 1..Count /\ order[i] \in NotionPages /\ edited[order[i]] \in 1..minute
  BY <1>1, <1>4, <1>5, OrderOfAll
<1>7. \A r \in Newer : \E i \in k..End : r = <<order[i], edited[order[i]]>> /\ r[2] > stored
  BY <1>3 DEF Newer, Results
<1>8. Newer \subseteq NotionPages \X (1..minute)
  BY <1>6, <1>7
<1>9. \A i \in k..End : edited[order[i]] > stored => <<order[i], edited[order[i]]>> \in Newer
  BY <1>3 DEF Newer, Results
<1>10. Latest \in 0..minute
  <2>1. CASE \E r \in Newer : r[2] > latest
    <3> DEFINE t == edited[order[k]]
    <3>1. k \in k..End /\ t \in 1..minute
      BY <1>5, <1>6
    <3>2. \A r \in Newer : r[2] <= t /\ t > stored
      <4> SUFFICES ASSUME NEW r \in Newer PROVE r[2] <= t /\ t > stored
        OBVIOUS
      <4>1. PICK i \in k..End : r = <<order[i], edited[order[i]]>> /\ r[2] > stored
        BY <1>7
      <4>2. edited[order[i]] <= t
        <5>1. CASE i = k
          BY <1>6, <5>1
        <5>2. CASE k < i
          BY <1>1, <1>6, <5>2 DEF LastFirst
        <5> QED
          BY <1>5, <5>1, <5>2
      <4>3. r[2] = edited[order[i]] /\ edited[order[i]] \in Nat /\ stored \in Nat /\ t \in Nat
        BY <1>1, <1>6, <3>1, <4>1
      <4> QED
        BY <4>1, <4>2, <4>3
    <3>3. <<order[k], t>> \in Newer
      BY <1>9, <2>1, <3>1, <3>2
    <3>4. \E u \in 1..minute : (\E r \in Newer : r[2] = u) /\ (\A r \in Newer : r[2] <= u)
      <4>1. <<order[k], t>>[2] = t
        OBVIOUS
      <4> QED
        BY <3>1, <3>2, <3>3, <4>1
    <3> QED
      BY <2>1, <3>4 DEF Latest
  <2>2. CASE ~ \E r \in Newer : r[2] > latest
    BY <1>1, <2>2 DEF Latest
  <2> QED
    BY <2>1, <2>2
<1> QED
  BY <1>2, <1>3, <1>4, <1>5, <1>8, <1>9, <1>10

\* An edit moves its page in front of what is yet to come, and leaves the others
\* on the side of the listing where they were.
LEMMA EditKeeps == ASSUME NotionInv, NEW p \in NotionPages, Edit(p) PROVE NotionInv'
<1>1. /\ NotionTypeOK /\ LastFirst /\ Caught /\ FoundOrAhead /\ order \in Orders
      /\ edited \in [NotionPages -> 1..minute] /\ minute \in 1..MaxMinute /\ MaxMinute \in Nat
      /\ stored \in 0..minute /\ gaps \subseteq NotionPages /\ moved \subseteq NotionPages
  BY NotionAssumption DEF NotionInv, NotionTypeOK
<1>2. PICK n \in 1..Count : order[n] = p /\ order' = InFront(order, n)
  BY <1>1, OrderOfAll DEF Edit
<1>3. PICK o \in Orders : o = order'
  BY <1>1, <1>2, InFrontOrders
<1>4. /\ o[1] = p
      /\ \A i \in 1..Count : /\ i < n => i + 1 \in 1..Count /\ o[i + 1] = order[i]
                             /\ i > n => o[i] = order[i]
  BY <1>1, <1>2, <1>3, InFrontOrders
<1>5. PICK e \in [NotionPages -> 1..minute] : e = edited' /\ e[p] = minute
                                               /\ \A q \in NotionPages : q # p => e[q] = edited[q]
  <2>1. edited' = [edited EXCEPT ![p] = minute] /\ minute \in 1..minute
    BY <1>1 DEF Edit
  <2>2. edited' \in [NotionPages -> 1..minute]
    BY <1>1, <2>1
  <2> QED
    BY <1>1, <2>1, <2>2
<1>6. /\ edits' \in 0..MaxEdits
      /\ moved' = IF turning THEN moved \cup {p} ELSE moved
      /\ gaps' = IF minute <= stored THEN gaps \cup {p}
                 ELSE IF turning THEN gaps ELSE gaps \ {p}
      /\ UNCHANGED <<minute, stored, turning, from, latest, found, synced>>
  BY <1>1, NotionAssumption DEF Edit, NotionTypeOK
<1>7. NotionTypeOK'
  BY <1>1, <1>3, <1>5, <1>6 DEF NotionTypeOK
<1>8. LastFirst'
  <2> SUFFICES ASSUME NEW i \in 1..Count, NEW j \in 1..Count, i < j PROVE e[o[j]] <= e[o[i]]
    BY <1>3, <1>5 DEF LastFirst
  <2>1. /\ \A k \in 1..Count : o[k] \in NotionPages /\ order[k] \in NotionPages
        /\ \A k, l \in 1..Count : order[k] = order[l] => k = l
    BY <1>1, OrderOfAll
  <2>2. CASE i = 1
    BY <1>1, <1>4, <1>5, <2>1, <2>2
  <2>3. CASE i > 1
    <3> DEFINE Was(k) == IF k <= n THEN k - 1 ELSE k
    <3>1. \A k \in 1..Count : k > 1 => Was(k) \in 1..Count /\ Was(k) # n /\ o[k] = order[Was(k)]
      <4> SUFFICES ASSUME NEW k \in 1..Count, k > 1
                   PROVE  Was(k) \in 1..Count /\ Was(k) # n /\ o[k] = order[Was(k)]
        OBVIOUS
      <4>1. CASE k <= n
        <5>1. k - 1 \in 1..Count /\ k - 1 < n /\ (k - 1) + 1 = k
          BY <4>1, CountPages
        <5> QED
          BY <1>4, <4>1, <5>1
      <4>2. CASE k > n
        BY <1>4, <4>2
      <4> QED
        BY <4>1, <4>2
    <3>2. Was(i) < Was(j)
      BY CountPages
    <3>3. /\ Was(i) \in 1..Count /\ Was(j) \in 1..Count
          /\ o[i] = order[Was(i)] /\ o[j] = order[Was(j)] /\ Was(i) # n /\ Was(j) # n
      BY <2>3, <3>1
    <3> HIDE DEF Was
    <3>4. o[i] # p /\ o[j] # p
      BY <1>2, <2>1, <3>3
    <3>5. edited[o[j]] <= edited[o[i]]
      BY <1>1, <3>2, <3>3 DEF LastFirst
    <3> QED
      BY <1>5, <2>1, <3>4, <3>5
  <2> QED
    BY <2>2, <2>3
<1>9. Caught'
  <2> SUFFICES ASSUME NEW q \in NotionPages, q \notin gaps'
               PROVE  synced[q] = e[q] \/ e[q] > stored
    BY <1>5, <1>6 DEF Caught
  <2>1. CASE q = p
    BY <1>1, <1>5, <1>6, <2>1
  <2>2. CASE q # p
    BY <1>1, <1>5, <1>6, <2>2 DEF Caught
  <2> QED
    BY <2>1, <2>2
<1>10. FoundOrAhead'
  <2> SUFFICES ASSUME turning PROVE FoundOrAhead'
    BY <1>6 DEF FoundOrAhead
  <2>1. PICK k \in 1..Count : k = Start /\ order[k] = from
    BY NotionInv, TurnFacts
  <2>2. PICK m \in 1..Count : o[m] = from /\ (IF k = n THEN m = 1 ELSE IF k < n THEN m = k + 1 ELSE m = k)
    BY <1>2, <1>4, <2>1, CountPages
  <2>3. Start' = m
    <3>1. (CHOOSE i \in DOMAIN o : o[i] = o[m]) = m
      BY OrderOfAll
    <3> QED
      BY <1>3, <1>6, <2>2, <3>1 DEF Start
  <2>4. ASSUME NEW q \in NotionPages, q \notin moved', e[q] > stored
        PROVE  \/ <<q, e[q]>> \in found
               \/ \E i \in 1..Count : i >= m /\ o[i] = q
    <3>1. q # p /\ q \notin moved /\ e[q] = edited[q]
      BY <1>5, <1>6, <2>4
    <3>2. CASE <<q, edited[q]>> \in found
      BY <3>1, <3>2
    <3>3. ASSUME NEW i \in 1..Count, i >= k, order[i] = q
          PROVE  \E l \in 1..Count : l >= m /\ o[l] = q
      <4>1. i # n
        BY <1>2, <3>1, <3>3
      <4>2. CASE i < n
        <5>1. i + 1 \in 1..Count /\ o[i + 1] = q /\ i + 1 >= m
          BY <1>4, <2>2, <3>3, <4>2
        <5> QED
          BY <5>1
      <4>3. CASE i > n
        BY <1>4, <2>2, <3>3, <4>3
      <4> QED
        BY <4>1, <4>2, <4>3
    <3> QED
      BY <1>1, <2>1, <2>4, <3>1, <3>2, <3>3 DEF FoundOrAhead
  <2>5. from \in NotionPages
    BY <1>1 DEF FoundOrAhead
  <2> QED
    BY <1>3, <1>5, <1>6, <2>3, <2>4, <2>5 DEF FoundOrAhead
<1> QED
  BY <1>7, <1>8, <1>9, <1>10 DEF NotionInv

LEMMA BeginKeeps == ASSUME NotionInv, Begin PROVE NotionInv'
<1>1. /\ NotionTypeOK /\ LastFirst /\ Caught /\ order \in Orders
      /\ turning' = TRUE /\ from' = order[1] /\ latest' = stored /\ found' = {} /\ moved' = {}
      /\ UNCHANGED <<minute, edits, edited, order, stored, synced, gaps>>
  BY DEF NotionInv, Begin, NotionTypeOK
<1>2. 1 \in 1..Count /\ order[1] \in NotionPages
  BY <1>1, CountPages, OrderOfAll
<1>3. NotionTypeOK'
  BY <1>1, <1>2 DEF NotionTypeOK
<1>4. LastFirst' /\ Caught'
  BY <1>1 DEF LastFirst, Caught
<1>5. FoundOrAhead'
  <2>1. (CHOOSE i \in DOMAIN order : order[i] = order[1]) = 1
    BY <1>1, <1>2, OrderOfAll
  <2>2. Start' = 1
    BY <1>1, <2>1 DEF Start
  <2>3. \A q \in NotionPages : \E i \in 1..Count : i >= 1 /\ order[i] = q
    BY <1>1, OrderOfAll
  <2> QED
    BY <1>1, <1>2, <2>2, <2>3 DEF FoundOrAhead
<1> QED
  BY <1>3, <1>4, <1>5 DEF NotionInv

LEMMA TurnPageKeeps == ASSUME NotionInv, TurnPage PROVE NotionInv'
<1>1. /\ NotionTypeOK /\ LastFirst /\ Caught /\ FoundOrAhead /\ order \in Orders
      /\ turning /\ End < Len(order)
      /\ found' = found \cup Newer /\ latest' = Latest /\ from' = order[End + 1]
      /\ UNCHANGED <<minute, edits, edited, order, stored, turning, synced, moved, gaps>>
  BY DEF NotionInv, TurnPage, NotionTypeOK
<1>2. PICK k \in 1..Count, l \in 1..Count : k = Start /\ l = End /\ k <= l
  BY <1>1, CountPages, TurnFacts
<1>3. l + 1 \in 1..Count /\ order[l + 1] \in NotionPages /\ from' = order[l + 1]
  BY <1>1, <1>2, CountPages, OrderOfAll
<1>4. NotionTypeOK'
  <2>1. Newer \subseteq NotionPages \X (1..minute) /\ Latest \in 0..minute
    BY <1>1, TurnFacts
  <2> QED
    BY <1>1, <1>3, <2>1 DEF NotionTypeOK
<1>5. LastFirst' /\ Caught'
  BY <1>1 DEF LastFirst, Caught
<1>6. FoundOrAhead'
  <2>1. (CHOOSE i \in DOMAIN order : order[i] = order[l + 1]) = l + 1
    BY <1>1, <1>3, OrderOfAll
  <2>2. Start' = l + 1
    BY <1>1, <1>3, <2>1 DEF Start
  <2>3. \A i \in k..l : edited[order[i]] > stored => <<order[i], edited[order[i]]>> \in Newer
    BY <1>1, <1>2, TurnFacts
  <2>4. ASSUME NEW q \in NotionPages, q \notin moved, edited[q] > stored
        PROVE  \/ <<q, edited[q]>> \in found \cup Newer
               \/ \E i \in 1..Count : i >= l + 1 /\ order[i] = q
    <3>1. ASSUME NEW i \in 1..Count, i >= k, order[i] = q
          PROVE  <<q, edited[q]>> \in Newer \/ i >= l + 1
      <4>1. CASE i \in k..l
        BY <2>3, <2>4, <3>1, <4>1
      <4> QED
        BY <3>1, <4>1
    <3> QED
      BY <1>1, <1>2, <2>4, <3>1 DEF FoundOrAhead
  <2> QED
    BY <1>1, <1>3, <2>2, <2>4 DEF FoundOrAhead
<1> QED
  BY <1>4, <1>5, <1>6 DEF NotionInv

\* The last page is listed with whatever was found: of the pages that stayed,
\* none newer than the old cursor is missing.
LEMMA FinishKeeps == ASSUME NotionInv, Finish PROVE NotionInv'
<1> DEFINE all == found \cup Newer
           last(p) == {r[2] : r \in {r \in all : r[1] = p}}
           handed == {p \in NotionPages : edited[p] \in last(p)}
<1>1. /\ NotionTypeOK /\ LastFirst /\ Caught /\ FoundOrAhead /\ order \in Orders
      /\ turning /\ End = Len(order)
      /\ synced' = [p \in NotionPages |-> IF p \in handed THEN edited[p] ELSE synced[p]]
      /\ gaps' = (gaps \cup moved) \ handed
      /\ stored' = Latest /\ turning' = FALSE
      /\ from' = 0 /\ latest' = 0 /\ found' = {} /\ moved' = {}
      /\ UNCHANGED <<minute, edits, edited, order>>
  BY DEF NotionInv, Finish, NotionTypeOK
<1>2. \A p \in NotionPages : <<p, edited[p]>> \in all => p \in handed
  <2> SUFFICES ASSUME NEW p \in NotionPages, <<p, edited[p]>> \in all PROVE edited[p] \in last(p)
    OBVIOUS
  <2>1. <<p, edited[p]>>[1] = p /\ <<p, edited[p]>>[2] = edited[p]
    OBVIOUS
  <2> QED
    BY <2>1
<1> HIDE DEF handed
<1>3. NotionTypeOK'
  <2>1. Latest \in 0..minute
    BY <1>1, TurnFacts
  <2>2. minute \in Nat /\ \A p \in NotionPages : edited[p] \in 0..minute /\ synced[p] \in 0..minute
    BY <1>1, NotionAssumption DEF NotionTypeOK
  <2>3. synced' \in [NotionPages -> 0..minute]
    BY <1>1, <2>2
  <2> QED
    BY <1>1, <2>1, <2>2, <2>3 DEF NotionTypeOK
<1>4. LastFirst' /\ FoundOrAhead'
  BY <1>1 DEF LastFirst, FoundOrAhead
<1>5. Caught'
  <2> SUFFICES ASSUME NEW p \in NotionPages, p \notin (gaps \cup moved) \ handed
               PROVE  synced'[p] = edited[p] \/ edited[p] > Latest
    BY <1>1 DEF Caught
  <2>1. CASE p \in handed
    BY <1>1, <2>1
  <2>2. CASE p \notin handed
    <3>1. p \notin gaps /\ p \notin moved /\ synced'[p] = synced[p]
      BY <1>1, <2>2
    <3>2. ~ (edited[p] > stored)
      <4> SUFFICES ASSUME edited[p] > stored PROVE FALSE
        OBVIOUS
      <4>1. CASE <<p, edited[p]>> \in found
        BY <1>2, <2>2, <4>1
      <4>2. ASSUME NEW i \in 1..Count, i >= Start, order[i] = p PROVE FALSE
        <5>1. i \in Start..End
          BY <1>1, <4>2, CountPages, TurnFacts
        <5>2. <<p, edited[p]>> \in Newer
          BY <1>1, <4>2, <5>1, TurnFacts
        <5> QED
          BY <1>2, <2>2, <5>2
      <4> QED
        BY <1>1, <3>1, <4>1, <4>2 DEF FoundOrAhead
    <3> QED
      BY <1>1, <3>1, <3>2 DEF Caught
  <2> QED
    BY <2>1, <2>2
<1> QED
  BY <1>3, <1>4, <1>5 DEF NotionInv

LEMMA NotionStep == NotionInv /\ [NotionNext]_notionVars => NotionInv'
<1> SUFFICES ASSUME NotionInv, [NotionNext]_notionVars PROVE NotionInv'
  OBVIOUS
<1>1. CASE NextMinute
  <2>1. /\ NotionTypeOK /\ minute \in Nat /\ minute' = minute + 1 /\ minute' \in 1..MaxMinute
        /\ UNCHANGED <<edits, edited, order, stored, turning, from, latest, found, synced, moved, gaps>>
    BY <1>1, NotionAssumption DEF NextMinute, NotionInv, NotionTypeOK
  <2>2. 1..minute \subseteq 1..minute' /\ 0..minute \subseteq 0..minute'
    BY <2>1
  <2>3. /\ edited' \in [NotionPages -> 1..minute'] /\ synced' \in [NotionPages -> 0..minute']
        /\ stored' \in 0..minute' /\ latest' \in 0..minute'
        /\ found' \subseteq NotionPages \X (1..minute')
    BY <2>1, <2>2 DEF NotionTypeOK
  <2>4. NotionTypeOK'
    BY <2>1, <2>3 DEF NotionTypeOK
  <2>5. Start' = Start
    BY <2>1 DEF Start
  <2> QED
    BY <2>1, <2>4, <2>5 DEF NotionInv, LastFirst, Caught, FoundOrAhead
<1>2. CASE Fail
  BY <1>2, NotionAssumption DEF Fail, NotionInv, NotionTypeOK, LastFirst, Caught, FoundOrAhead
<1>3. CASE UNCHANGED notionVars
  <2>1. Start' = Start
    BY <1>3 DEF Start, notionVars
  <2> QED
    BY <1>3, <2>1 DEF notionVars, NotionInv, NotionTypeOK, LastFirst, Caught, FoundOrAhead
<1> QED
  BY <1>1, <1>2, <1>3, BeginKeeps, TurnPageKeeps, FinishKeeps, EditKeeps DEF NotionNext

(***************************************************************************)
(* Paging                                                                  *)
(***************************************************************************)
\* Reading on, a row that was there all along has been received once if the
\* cursor is past it, and not at all if it is still to come.  ListedRight alone
\* says nothing of the pages in between.
PageInv ==
  /\ PageTypeOK /\ steady \subseteq Present
  /\ listing # "documents" => \A r \in Rows : copies[r] = 1
  /\ IF cursor = Done THEN ListedRight
     ELSE \A r \in steady : listed[r] = IF copies[r] > 0 /\ ~Beyond(r, cursor) THEN 1 ELSE 0

LEMMA PageTypes ==
  ASSUME PageTypeOK
  PROVE  /\ Rows \subseteq Nat \ {0} /\ IsFiniteSet(Rows)
         /\ \A r \in Rows : key[r] \in 0..MaxKey /\ copies[r] \in 0..2 /\ listed[r] \in Nat
         /\ cursor[1] \in Nat /\ cursor[2] \in Nat
<1>1. IsFiniteSet(1..MaxRow)
  <2> MaxRow \in Int
    BY PagingAssumption
  <2> QED
    BY FS_Interval
<1>2. \A r \in Rows : r \in Nat \ {0} /\ key[r] \in 0..MaxKey /\ copies[r] \in 0..2
  BY PagingAssumption DEF PageTypeOK, Rows, Keys
<1>3. cursor[1] \in 0..MaxKey + 1 /\ cursor[2] \in 0..MaxRow
  BY DEF PageTypeOK
<1> QED
  BY <1>1, <1>2, <1>3 DEF PageTypeOK, Rows

\* Rows are in one order, newest first.
LEMMA RowsInOrder ==
  ASSUME PageTypeOK, NEW r \in Rows, NEW s \in Rows
  PROVE  /\ ~(Before(r, s) /\ Before(s, r))
         /\ r # s => Before(r, s) \/ Before(s, r)
         /\ \A t \in Rows : Before(r, s) /\ Before(s, t) => Before(r, t)
BY PageTypes DEF Before

\* Any rows there are have a last one.
LEMMA LastIsLast ==
  ASSUME PageTypeOK, NEW P \in SUBSET Rows, P # {}
  PROVE  LastRow(P) \in P /\ \A s \in P \ {LastRow(P)} : Before(s, LastRow(P))
<1> DEFINE keys == {key[r] : r \in P}
<1>1. keys \in SUBSET Nat /\ keys # {}
  BY PageTypes
<1>2. PICK k \in keys : \A l \in keys : k <= l
  BY <1>1, LeastNumber
<1> DEFINE ids == {r \in P : key[r] = k}
<1>3. ids \in SUBSET Nat /\ ids # {}
  BY <1>2, PageTypes
<1>4. PICK r \in ids : \A s \in ids : r <= s
  BY <1>3, LeastNumber
<1>5. r \in P /\ \A s \in P \ {r} : Before(s, r)
  <2> SUFFICES ASSUME NEW s \in P \ {r} PROVE Before(s, r)
    BY <1>4
  <2>1. key[r] = k /\ key[r] \in Nat /\ key[s] \in Nat /\ r \in Nat /\ s \in Nat /\ k <= key[s]
    BY <1>2, <1>4, PageTypes
  <2>2. CASE key[s] = k
    BY <1>4, <2>1, <2>2 DEF Before
  <2>3. CASE key[s] # k
    BY <2>1, <2>3 DEF Before
  <2> QED
    BY <2>2, <2>3
<1> QED
  BY <1>5 DEF LastRow

LEMMA SqlRowsFinite ==
  ASSUME PageTypeOK, NEW R \in SUBSET Rows
  PROVE  IsFiniteSet(SqlRows(R))
<1>1. IsFiniteSet(R)
  BY PageTypes, FS_Subset
<1>2. IsFiniteSet(1..2)
  <2> 1 \in Int /\ 2 \in Int
    OBVIOUS
  <2> QED
    BY FS_Interval
<1>3. IsFiniteSet(R \X (1..2))
  BY <1>1, <1>2, FS_Product
<1> QED
  BY <1>3, FS_Subset DEF SqlRows

\* A statement's rows are the first ones.
LEMMA FirstRows ==
  ASSUME PageTypeOK, NEW R \in SUBSET Rows, NEW r \in Unique(R), NEW s \in R, Before(s, r)
  PROVE  s \in Unique(R)
<1>1. r \in R /\ Ahead(s, R) \subseteq Ahead(r, R) /\ Ahead(r, R) \subseteq SqlRows(R)
  BY RowsInOrder DEF Unique, Ahead, SqlRows
<1>2. IsFiniteSet(Ahead(r, R)) /\ IsFiniteSet(Ahead(s, R))
  BY <1>1, SqlRowsFinite, FS_Subset
<1>3. Cardinality(Ahead(s, R)) <= Cardinality(Ahead(r, R))
  BY <1>1, <1>2, FS_Subset
<1> QED
  BY <1>2, <1>3, FS_CardinalityType, PagingAssumption DEF Unique

\* A statement that its LIMIT did not cut short gives every row.
LEMMA AllRows ==
  ASSUME PageTypeOK, NEW R \in SUBSET Rows,
         ~(Cardinality(Unique(R)) > PageLimit), ~(Cardinality(Unique(R)) < Taken(R))
  PROVE  Unique(R) = R
<1>1. IsFiniteSet(SqlRows(R)) /\ IsFiniteSet(Unique(R))
  <2>1. Unique(R) \subseteq Rows
    BY DEF Unique
  <2> QED
    BY <2>1, SqlRowsFinite, PageTypes, FS_Subset
<1>2. Cardinality(SqlRows(R)) \in Nat /\ Cardinality(Unique(R)) \in Nat
  BY <1>1, FS_CardinalityType
<1>3. Cardinality(SqlRows(R)) <= PageLimit
  BY <1>2, PagingAssumption DEF Taken
<1>4. ASSUME NEW r \in R PROVE Cardinality(Ahead(r, R)) <= PageLimit
  <2>1. Ahead(r, R) \in SUBSET SqlRows(R)
    BY DEF Ahead
  <2>2. IsFiniteSet(Ahead(r, R)) /\ Cardinality(Ahead(r, R)) <= Cardinality(SqlRows(R))
    BY <1>1, <2>1, FS_Subset
  <2> QED
    BY <1>2, <1>3, <2>2, FS_CardinalityType, PagingAssumption
<1> QED
  BY <1>4 DEF Unique

\* A page has the rows beyond the cursor up to the one that the next cursor
\* names, and no others.
LEMMA PageKeeps ==
  ASSUME PageInv, NEW R \in SUBSET Present, Page(R),
         \A r \in R : copies[r] > 0, \A r \in steady : copies[r] > 0 => r \in R
  PROVE  PageInv'
<1> DEFINE older == {r \in R : Beyond(r, cursor)}
           rows == Unique(older)
           more == Cardinality(rows) > PageLimit
           page == IF more THEN rows \ {LastRow(rows)} ELSE rows
           l == LastRow(page)
<1>1. /\ cursor # Done
      /\ listed' = [r \in Rows |-> IF r \in page THEN listed[r] + 1 ELSE listed[r]]
      /\ cursor' = IF more THEN <<key[l], l>> ELSE Done
      /\ squeezed' = (squeezed \/ Cardinality(rows) < Taken(older))
      /\ UNCHANGED <<listing, key, copies, steady>>
  BY DEF Page
<1>2. PageTypeOK /\ steady \subseteq Present /\ Present \subseteq Rows
  BY DEF PageInv, Present
<1>3. rows \subseteq older /\ older \subseteq R /\ R \subseteq Rows /\ page \subseteq rows
  BY <1>2 DEF Unique
<1>4. more => l \in page /\ \A s \in page \ {l} : Before(s, l)
  <2> SUFFICES ASSUME more PROVE page # {}
    BY <1>2, <1>3, LastIsLast
  <2>1. IsFiniteSet(rows) /\ Cardinality(rows) \in Nat
    BY <1>2, <1>3, PageTypes, FS_Subset, FS_CardinalityType
  <2>2. Cardinality(rows \ {LastRow(rows)}) >= Cardinality(rows) - 1
    BY <2>1, FS_RemoveElement
  <2>3. Cardinality(rows \ {LastRow(rows)}) # 0
    BY <2>1, <2>2, PagingAssumption
  <2> QED
    BY <2>3, FS_EmptySet
\* Beyond the row the cursor names are those it comes before.
<1>5. ASSUME more, NEW r \in older PROVE r \in page <=> ~Before(l, r)
  <2>1. l \in rows /\ l \in Rows /\ r \in Rows
    BY <1>3, <1>4, <1>5
  <2>2. CASE r \in page
    BY <1>2, <1>4, <1>5, <2>1, <2>2, RowsInOrder
  <2>3. CASE r \notin page /\ r \in rows
    <3>1. r = LastRow(rows) /\ l \in rows \ {r}
      BY <1>4, <1>5, <2>1, <2>3
    <3> QED
      BY <1>2, <1>3, <2>3, <3>1, LastIsLast
  <2>4. CASE r \notin rows
    <3>1. ~Before(r, l)
      BY <1>2, <1>3, <2>1, <2>4, FirstRows
    <3> QED
      BY <1>2, <1>3, <2>1, <2>4, <3>1, RowsInOrder
  <2> QED
    BY <2>2, <2>3, <2>4
<1> HIDE DEF older, rows, more, page, l
<1>6. PageTypeOK'
  <2>1. more => l \in Rows /\ key[l] \in 0..MaxKey
    BY <1>2, <1>3, <1>4, PageTypes
  <2>2. cursor' \in (0..MaxKey + 1) \X (0..MaxRow)
    BY <1>1, <2>1, PagingAssumption DEF Done, Rows
  <2>3. listed' \in [Rows -> Nat]
    BY <1>1, <1>2, PageTypes
  <2> QED
    BY <1>1, <1>2, <2>2, <2>3 DEF PageTypeOK
<1>7. \A r \in steady :
        /\ r \in Rows /\ listed[r] = IF copies[r] > 0 /\ ~Beyond(r, cursor) THEN 1 ELSE 0
        /\ r \in older <=> copies[r] > 0 /\ Beyond(r, cursor)
        /\ listed'[r] = IF r \in page THEN listed[r] + 1 ELSE listed[r]
  <2>1. \A r \in steady : r \in R <=> copies[r] > 0
    OBVIOUS
  <2> QED
    BY <1>1, <1>2, <2>1 DEF PageInv, older
<1>8. CASE more
  <2>1. /\ l \in older /\ l \in Rows /\ key[l] # 0 /\ key[l] \in Nat /\ l \in Nat
        /\ cursor' = <<key[l], l>> /\ cursor' # Done
    BY <1>1, <1>3, <1>4, <1>8, <1>2, PageTypes DEF Present, Done
  <2>2. ASSUME NEW r \in steady
        PROVE  listed'[r] = IF copies'[r] > 0 /\ ~Beyond(r, cursor)' THEN 1 ELSE 0
    <3>1. Beyond(r, cursor)' = Before(l, r)
      BY <1>1, <1>2, <2>1, PageTypes DEF Beyond, Before
    <3>2. CASE r \in older
      BY <1>1, <1>5, <1>7, <1>8, <3>1, <3>2
    <3>3. CASE r \notin older
      <4>1. r \notin page
        BY <1>3, <3>3
      <4>2. copies[r] > 0 => ~Before(l, r)
        <5> SUFFICES ASSUME copies[r] > 0, Before(l, r) PROVE FALSE
          OBVIOUS
        <5>1. ~Beyond(r, cursor) /\ Beyond(l, cursor)
          BY <1>7, <2>1, <3>3 DEF older
        <5>2. key[r] \in Nat /\ r \in Nat /\ cursor[1] \in Nat /\ cursor[2] \in Nat
          BY <1>2, <1>7, PageTypes
        <5> QED
          BY <2>1, <5>1, <5>2 DEF Beyond, Before
      <4> QED
        BY <1>1, <1>7, <3>1, <3>3, <4>1, <4>2
    <3> QED
      BY <3>2, <3>3
  <2> QED
    BY <1>1, <1>2, <1>6, <2>1, <2>2 DEF PageInv, Present
<1>9. CASE ~more
  <2>1. cursor' = Done /\ page = rows
    BY <1>1, <1>9 DEF page
  <2>2. ListedOnce'
    BY <1>1, <1>3, <1>7 DEF ListedOnce
  <2>3. ASSUME ~squeezed' PROVE Missing' = {}
    <3>1. rows = older
      <4>1. ~(Cardinality(rows) < Taken(older)) /\ ~(Cardinality(rows) > PageLimit)
        BY <1>1, <1>9, <2>3 DEF more
      <4> QED
        BY <1>2, <1>3, <4>1, AllRows DEF rows
    <3> QED
      BY <1>1, <1>7, <2>1, <3>1 DEF Missing
  <2> QED
    BY <1>1, <1>2, <1>6, <2>1, <2>2, <2>3 DEF PageInv, ListedRight, ListedAll, Present
<1> QED
  BY <1>8, <1>9

LEMMA PageInitInv == PageInit => PageInv
<1> SUFFICES ASSUME PageInit PROVE PageInv
  OBVIOUS
<1>1. cursor = NoCursor /\ cursor # Done /\ steady = Present
  BY PagingAssumption DEF PageInit, NoCursor, Done
<1>2. PageTypeOK
  <2>1. cursor \in (0..MaxKey + 1) \X (0..MaxRow)
    BY <1>1, PagingAssumption DEF NoCursor
  <2>2. copies \in [Rows -> 0..2] /\ steady \subseteq Rows
    BY <1>1 DEF PageInit, Present
  <2> QED
    BY <2>1, <2>2 DEF PageInit, PageTypeOK
<1>3. \A r \in Rows : Beyond(r, cursor) /\ listed[r] = 0
  BY <1>1, <1>2, PageTypes, PagingAssumption DEF PageInit, Beyond, NoCursor
<1> QED
  BY <1>1, <1>2, <1>3 DEF PageInit, PageInv, Present

LEMMA PageStep == PageInv /\ [PageNext]_pageVars => PageInv'
<1> SUFFICES ASSUME PageInv, [PageNext]_pageVars PROVE PageInv'
  OBVIOUS
<1>0. PageTypeOK /\ steady \subseteq Present /\ Present \subseteq Rows
  BY DEF PageInv, Present
<1>1. CASE ListUsers \/ ListGroups \/ ListRoles \/ ListSyncJobs \/ ListAuditLogs
  <2>1. listing # "documents" /\ Page(Present)
    BY <1>1 DEF ListUsers, ListGroups, ListRoles, ListSyncJobs, ListAuditLogs
  <2>2. \A r \in Present : copies[r] > 0
    BY <1>0, <2>1 DEF PageInv
  <2> QED
    BY <1>0, <2>1, <2>2, PageKeeps
<1>2. CASE ListDocuments
  <2> DEFINE R == {r \in Present : copies[r] > 0}
  <2>1. Page(R) /\ R \in SUBSET Present
    BY <1>2 DEF ListDocuments
  <2>2. (\A r \in R : copies[r] > 0) /\ \A r \in steady : copies[r] > 0 => r \in R
    BY <1>0
  <2> HIDE DEF R
  <2> QED
    BY <2>1, <2>2, PageKeeps
\* Writes: what they touch is not, or no longer, there all along.
<1>3. ASSUME NEW r \in Rows, cursor # Done, UNCHANGED <<listing, copies, cursor, listed, squeezed>>,
             key' \in [Rows -> Keys \cup {0}], \A s \in Rows \ {r} : key'[s] = key[s],
             steady' \subseteq steady \ {r}
      PROVE  PageInv'
  <2>1. PageTypeOK'
    BY <1>0, <1>3 DEF PageTypeOK
  <2>2. \A s \in steady' : s \in Rows /\ key'[s] = key[s] /\ s \in steady
    BY <1>0, <1>3
  <2>3. steady' \subseteq Present' /\ \A s \in steady' : Beyond(s, cursor)' = Beyond(s, cursor)
    BY <1>0, <1>3, <2>2 DEF Present, Beyond
  <2> QED
    BY <1>3, <2>1, <2>2, <2>3 DEF PageInv
<1>4. ASSUME NEW r \in Rows, cursor # Done, Insert(r) \/ Delete(r) \/ RenameRole(r) PROVE PageInv'
  <2>1. /\ key' \in [Rows -> Keys \cup {0}] /\ \A s \in Rows \ {r} : key'[s] = key[s]
    BY <1>0, <1>4 DEF Insert, Delete, RenameRole, PageTypeOK
  <2>2. steady' \subseteq steady \ {r}
    BY <1>0, <1>4 DEF Insert, Delete, RenameRole, Present
  <2>3. UNCHANGED <<listing, copies, cursor, listed, squeezed>>
    BY <1>4 DEF Insert, Delete, RenameRole
  <2> QED
    BY <1>3, <1>4, <2>1, <2>2, <2>3
<1>5. CASE UNCHANGED pageVars
  BY <1>5 DEF pageVars, PageInv, PageTypeOK, Present, ListedRight, ListedAll, ListedOnce, Missing, Beyond
<1> QED
  BY <1>1, <1>2, <1>4, <1>5 DEF PageNext

(***************************************************************************)
(* Standalone                                                              *)
(***************************************************************************)
\* The components share the clock, so that one that rests may see it run on:
\* its state is then the one it began with.
RestInv ==
  /\ part \in Parts /\ now \in 0..MaxNow
  /\ BreakerInv /\ StreamInv /\ NotionInv /\ PageInv /\ ChunkInv
  /\ IF part = "limit" THEN LimitInv ELSE LimitInit
  /\ IF part = "bucket" THEN BucketInv ELSE BucketInit

LEMMA RestInitInv == Init => RestInv
<1> SUFFICES ASSUME Init PROVE RestInv
  OBVIOUS
<1>1. /\ part \in Parts /\ now = 0 /\ LimitInit /\ BucketInit /\ StreamInit /\ NotionInit /\ PageInit
  BY DEF Init
<1>2. now \in 0..MaxNow
  BY <1>1, ClockAssumption
<1>3. BreakerInv
  BY BreakerInitInv DEF Init
<1>4. ChunkInv
  <2>1. CASE part # "chunker"
    <3>1. <<>> \in Seq(Seq(Tokens)) /\ ChunkStart(<<>>)
      BY <2>1 DEF Init
    <3> QED
      BY <3>1, ChunkStartInv
  <2>2. CASE part = "chunker"
    <3>1. PICK n \in 0..MaxLength : \E t \in [1..n -> Tokens], u \in [1..MaxLength - n -> Tokens] :
                                     ChunkStart(<<t, u>>)
      BY <2>2 DEF Init, ChunkInit
    <3>2. PICK t \in [1..n -> Tokens], u \in [1..MaxLength - n -> Tokens] : ChunkStart(<<t, u>>)
      BY <3>1
    <3>3. n \in Nat /\ MaxLength - n \in Nat
      BY <3>1, ChunkerAssumption
    <3>4. t \in Seq(Tokens) /\ u \in Seq(Tokens)
      BY <3>2, <3>3
    <3>5. <<t, u>> \in Seq(Seq(Tokens))
      BY <3>4
    <3> QED
      BY <3>2, <3>5, ChunkStartInv
  <2> QED
    BY <2>1, <2>2
<1> QED
  BY <1>1, <1>2, <1>3, <1>4, StreamInitInv, NotionInitInv, PageInitInv, LimitInitInv,
     BucketInitInv DEF RestInv

\* Whoever is under way, the breaker takes a step of its own or sees time pass.
LEMMA BreakerSees == [Next]_svars => [BreakerNext]_<<now, breakerVars>>
<1> SUFFICES ASSUME [Next]_svars PROVE [BreakerNext]_<<now, breakerVars>>
  OBVIOUS
<1>1. LimitNext => now' = now \/ Tick
  BY DEF LimitNext, Arrive, Trim, Add, Expire, Decide, Elapse
<1>2. BucketNext => now' = now \/ Tick
  BY DEF BucketNext, Take, Sleep, Wake
<1>3. CASE part = "breaker" /\ BreakerNext
  BY <1>3
<1>4. CASE UNCHANGED breakerVars /\ (now' = now \/ Tick)
  BY <1>4 DEF BreakerNext
<1>5. CASE UNCHANGED svars
  BY <1>5 DEF svars
<1>6. CASE Next
  <2>1. ASSUME NEW p \in Parts \ {"breaker"}, Rest(p)
        PROVE  UNCHANGED breakerVars /\ (p \notin {"limit", "bucket"} => now' = now)
    BY <2>1 DEF Rest, Parts
  <2> HIDE DEF Rest, LimitNext, BucketNext, BreakerNext, breakerVars, Tick
  <2>2. CASE \E p \in Parts \ {"breaker", "limit", "bucket"} : Rest(p)
    <3>1. PICK p \in Parts \ {"breaker", "limit", "bucket"} : Rest(p)
      BY <2>2
    <3> QED
      BY <1>4, <2>1, <3>1
  <2>3. CASE part = "limit" /\ LimitNext /\ Rest("limit")
    BY <1>1, <1>4, <2>1, <2>3 DEF Parts
  <2>4. CASE part = "bucket" /\ BucketNext /\ Rest("bucket")
    BY <1>2, <1>4, <2>1, <2>4 DEF Parts
  <2> QED
    BY <1>3, <1>6, <2>2, <2>3, <2>4 DEF Next, Parts
<1> QED
  BY <1>5, <1>6

LEMMA RestStep == RestInv /\ [Next]_svars => RestInv'
<1> SUFFICES ASSUME RestInv, [Next]_svars PROVE RestInv'
  OBVIOUS
<1>0. /\ part \in Parts /\ now \in 0..MaxNow /\ StreamInv /\ NotionInv /\ PageInv
      /\ BreakerInv /\ ChunkInv
      /\ part = "limit" => LimitInv
      /\ part # "limit" => LimitInit
      /\ part = "bucket" => BucketInv
      /\ part # "bucket" => BucketInit
  BY DEF RestInv
<1>1. part' = part
  BY DEF Next, Rest, svars
<1>2. StreamInv'
  <2>1. [StreamNext]_streamVars
    BY DEF Next, Rest, svars
  <2> QED
    BY <1>0, <2>1, StreamStep
<1>3. NotionInv'
  <2>1. [NotionNext]_notionVars
    BY DEF Next, Rest, svars
  <2> QED
    BY <1>0, <2>1, NotionStep
<1>4. /\ now' \in 0..MaxNow
      /\ IF part' = "limit" THEN LimitInv' ELSE LimitInit'
      /\ IF part' = "bucket" THEN BucketInv' ELSE BucketInit'
  <2>1. CASE part = "limit" /\ LimitNext /\ Rest("limit")
    <3>1. LimitInv' /\ now' \in 0..MaxNow
      BY <1>0, <2>1, LimitStep DEF LimitInv
    <3>2. BucketInit'
      BY <1>0, <2>1 DEF Rest, bucketVars, BucketInit
    <3> QED
      BY <1>1, <2>1, <3>1, <3>2
  <2>2. CASE part = "bucket" /\ BucketNext /\ Rest("bucket")
    <3>1. BucketInv' /\ now' \in 0..MaxNow
      BY <1>0, <2>2, BucketStep DEF BucketInv
    <3>2. LimitInit'
      BY <1>0, <2>2 DEF Rest, limitVars, LimitInit
    <3> QED
      BY <1>1, <2>2, <3>1, <3>2
  <2>3. CASE part = "breaker" /\ BreakerNext /\ Rest("breaker")
    <3>1. now' = now \/ (now < MaxNow /\ now' = now + 1)
      <4>1. \A c \in Calls : (ModelToCall(c) \/ RecordSuccess(c) \/ RecordFailure(c)
                              \/ EndUnrecorded(c)) => now' = now
        BY DEF ModelToCall, RecordSuccess, RecordFailure, EndUnrecorded
      <4> QED
        BY <2>3, <4>1 DEF BreakerNext, Tick
    <3>2. now' \in 0..MaxNow
      BY <1>0, <3>1, ClockAssumption
    <3>3. LimitInit' /\ BucketInit'
      BY <1>0, <2>3 DEF Rest, limitVars, LimitInit, bucketVars, BucketInit
    <3> QED
      BY <1>1, <2>3, <3>2, <3>3
  <2>4. CASE part \notin {"breaker", "limit", "bucket"} /\ UNCHANGED <<now, limitVars, bucketVars>>
    <3>1. LimitInit' /\ BucketInit'
      BY <1>0, <2>4 DEF limitVars, LimitInit, bucketVars, BucketInit
    <3> QED
      BY <1>0, <1>1, <2>4, <3>1
  <2>5. CASE UNCHANGED svars
    <3>1. UNCHANGED <<now, limitVars, bucketVars>>
      BY <2>5 DEF svars
    <3>2. part = "limit" => LimitInv'
      BY <1>0, <3>1, LimitStep
    <3>3. part = "bucket" => BucketInv'
      BY <1>0, <3>1, BucketStep
    <3>4. (part # "limit" => LimitInit') /\ (part # "bucket" => BucketInit')
      BY <1>0, <3>1 DEF limitVars, LimitInit, bucketVars, BucketInit
    <3> QED
      BY <1>0, <1>1, <3>1, <3>2, <3>3, <3>4
  <2>6. CASE \E p \in {"stream", "listing", "notion", "chunker"} : part = p /\ Rest(p)
    <3>1. part \notin {"breaker", "limit", "bucket"} /\ UNCHANGED <<now, limitVars, bucketVars>>
      BY <2>6 DEF Rest
    <3> QED
      BY <2>4, <3>1
  <2>7. \/ part = "limit" /\ LimitNext /\ Rest("limit")
        \/ part = "bucket" /\ BucketNext /\ Rest("bucket")
        \/ part = "breaker" /\ BreakerNext /\ Rest("breaker")
        \/ \E p \in {"stream", "listing", "notion", "chunker"} : part = p /\ Rest(p)
        \/ UNCHANGED svars
    <3> HIDE DEF Rest
    <3> QED
      BY DEF Next
  <2> QED
    BY <2>1, <2>2, <2>3, <2>5, <2>6, <2>7
<1>5. PageInv'
  <2>1. [PageNext]_pageVars
    BY DEF Next, Rest, svars
  <2> QED
    BY <1>0, <2>1, PageStep
<1>6. BreakerInv'
  BY <1>0, BreakerSees, BreakerStep
<1>7. ChunkInv'
  <2>1. [ChunkNext]_chunkVars
    BY DEF Next, Rest, svars
  <2> QED
    BY <1>0, <2>1, ChunkStep
<1> QED
  BY <1>0, <1>1, <1>2, <1>3, <1>4, <1>5, <1>6, <1>7 DEF RestInv

LEMMA RestAlways == Spec => []RestInv
<1> QED
  BY RestInitInv, RestStep, PTL DEF Spec

\* The seven components keep their types (api, cache, llm, pipeline, sources).
THEOREM StandaloneTypeCorrect == Spec => []TypeOK
<1>1. RestInv => TypeOK
  <2>1. BucketInit /\ now \in 0..MaxNow => BucketTypeOK
    BY BucketParameters DEF BucketInit, BucketTypeOK
  <2>2. LimitInit /\ now \in 0..MaxNow => LimitTypeOK
    BY LimitInitInv DEF LimitInv
  <2> QED
    BY <2>1, <2>2
       DEF RestInv, TypeOK, BreakerInv, StreamInv, NotionInv, PageInv, ChunkInv, LimitInv, BucketInv
<1> QED
  BY <1>1, RestAlways, PTL

\* However the results of older calls arrive, an open breaker has sent nothing
\* to the primary since it opened, and a half-open one exactly its probe
\* (circuit_breaker.py:67-92).
THEOREM OneProbePerCoolDown == Spec => []OneProbe
<1>1. RestInv => OneProbe
  BY DEF RestInv, BreakerInv
<1> QED
  BY <1>1, RestAlways, PTL

\* The breaker, with the calls that share it, implements what the head of
\* circuit_breaker.py promises of one (circuit_breaker.py:1-22): for any calls,
\* threshold and cool-down, every step is one of the promised breaker, or the
\* report of a call other than the probe, which moves a half-open breaker.
THEOREM BreakerImplementsPromise == Spec => KeepsPromise
<1>1. Init => Promise!Init
  BY DEF Init, BreakerInit, Promise!Init
<1>2. RestInv /\ [Next]_svars => [AbstractBreakerStep]_Promise!breakerView
  BY BreakerSees, BreakerStep DEF RestInv, Promise!breakerView, BreakerStill
<1> QED
  BY RestAlways, <1>1, <1>2, PTL DEF Spec, KeepsPromise, AbstractBreakerStep

\* For any document, cap and overlap, whatever separators it is cut at
\* (pipeline/chunker.py:56-142, 157-193).
THEOREM ChunksAreTheText == Spec => []ChunkedRight
<1>1. RestInv => ChunkedRight
  BY DEF RestInv, ChunkInv
<1> QED
  BY <1>1, RestAlways, PTL

\* A stream that ends with a status tells the one the job ended with, however
\* its reads of the row fall among what the worker writes and publishes
\* (api/v1/sync_jobs.py).
THEOREM StreamsTellTheTruth == Spec => []ToldTheTruth
<1>1. RestInv => ToldTheTruth
  BY DEF RestInv, StreamInv
<1> QED
  BY <1>1, RestAlways, PTL

\* For any number of requests, any window and limit, whatever the interleaving
\* of the calls to Redis (cache/helpers.py:56-86).
THEOREM LimitsAreKept == Spec => []LimitKept
<1>1. RestInv => LimitKept
  BY LimitInitInv DEF RestInv, LimitInv
<1> QED
  BY <1>1, RestAlways, PTL

\* For any rate and period of which it is a whole part, no stretch lets through
\* more than the burst, one more, and twice what it earns
\* (sources/notion.py:54-69).
THEOREM PaceIsBounded == Spec => []PaceAtMostDoubled
<1>1. RestInv => PaceAtMostDoubled
  <2>1. ASSUME BucketInit, now \in 0..MaxNow PROVE PaceAtMostDoubled
    <3> USE BucketParameters
    <3> SUFFICES ASSUME NEW a \in 0..now, NEW b \in 0..now, a <= b
                 PROVE  SentIn(a, b) * Period <= Full + 2 * (b - a) * Rate + Period
      BY DEF PaceAtMostDoubled
    <3>1. a # 0 => a - 1 \in 0..MaxNow
      BY <2>1
    <3>2. SentIn(a, b) = 0
      BY <2>1, <3>1 DEF BucketInit, SentIn
    <3>3. SentIn(a, b) * Period = 0 /\ 2 * (b - a) * Rate \in Nat
      BY <2>1, <3>2, Product, Earned
    <3> QED
      BY <3>3
  <2> QED
    BY <2>1 DEF RestInv, BucketInv
<1> QED
  BY <1>1, RestAlways, PTL

\* For any pages and page size, whatever is edited while the results are turned
\* (sources/notion.py:98-136).
THEOREM NothingIsSkipped == Spec => []NothingSkipped
<1>1. RestInv => NothingSkipped
  BY DEF RestInv, NotionInv, Caught, NothingSkipped
<1> QED
  BY <1>1, RestAlways, PTL

\* For any rows, keys and page limit, whatever is inserted, deleted and renamed
\* between the pages (api/pagination.py, the six listings of api/v1).
THEOREM ListingsAreWhole == Spec => []ListedRight
<1>1. RestInv => ListedRight
  <2>1. ASSUME PageInv, cursor # Done PROVE ListedRight
    BY <2>1 DEF PageInv, ListedRight, ListedAll, ListedOnce
  <2> QED
    BY <2>1 DEF RestInv, PageInv
<1> QED
  BY <1>1, RestAlways, PTL
==============================================================================
