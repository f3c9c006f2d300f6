--------------------------- MODULE CircuitBreaker ---------------------------
(***************************************************************************)
(* One CircuitBreaker of llm/circuit_breaker.py and the concurrent         *)
(* LLMClient.complete calls that share it, as its docstring says the calls *)
(* of an app instance do.  A call asks the breaker for a model, awaits the *)
(* proxy, and reports what became of it: any number of other calls may     *)
(* have reported, and any time may have passed, in between.                *)
(***************************************************************************)
EXTENDS Clock, FiniteSets

CONSTANTS Calls,      \* calls that may be in flight at once
          Threshold,  \* failure_threshold
          CoolDown    \* cool_down_seconds

ASSUME BreakerAssumption == Threshold \in Nat \ {0} /\ CoolDown \in Nat \ {0}

VARIABLES state, consecutive_failures, opened_at, half_open_in_flight,
          model,   \* the model each call in flight was sent to, or "none"
          probes,  \* history: calls sent to the primary since it opened last
          probing  \* history: the probe let through last, until that call ends

breakerVars == <<state, consecutive_failures, opened_at, half_open_in_flight,
                 model, probes, probing>>

Model == {"primary", "fallback"}

BreakerInit ==
  /\ state = "closed" /\ consecutive_failures = 0 /\ opened_at = 0
  /\ half_open_in_flight = FALSE
  /\ model = [c \in Calls |-> "none"]
  /\ probes = 0 /\ probing = {}
------------------------------------------------------------------------------
\* model_to_call, and the request sent with its answer.
MayProbe == IF state = "open" THEN now - opened_at >= CoolDown
                              ELSE ~half_open_in_flight

Use(c) ==
  /\ state = "closed"
  /\ model' = [model EXCEPT ![c] = "primary"]
  /\ UNCHANGED <<state, half_open_in_flight, probes, probing>>

\* Plausible slip: the probe does not keep its place.
ProbeUnmarked(c) ==
  /\ state # "closed" /\ MayProbe
  /\ state' = "half_open" /\ half_open_in_flight' = FALSE
  /\ model' = [model EXCEPT ![c] = "primary"]
  /\ probes' = probes + 1 /\ probing' = {c}

Probe(c) ==
  /\ state # "closed" /\ MayProbe
  /\ state' = "half_open" /\ half_open_in_flight' = TRUE
  /\ model' = [model EXCEPT ![c] = "primary"]
  /\ probes' = probes + 1 /\ probing' = {c}

FallBack(c) ==
  /\ state # "closed" /\ ~MayProbe
  /\ model' = [model EXCEPT ![c] = "fallback"]
  /\ UNCHANGED <<state, half_open_in_flight, probes, probing>>

ModelToCall(c) ==
  /\ model[c] = "none"
  /\ Use(c) \/ Probe(c) \/ FallBack(c)
  /\ UNCHANGED <<now, consecutive_failures, opened_at>>

\* The call is over.
EndCall(c) ==
  /\ model[c] # "none"
  /\ model' = [model EXCEPT ![c] = "none"]
  /\ probing' = probing \ {c}

\* Plausible slip: only the primary's own success closes the breaker.
SuccessOfPrimary(c) ==
  /\ EndCall(c)
  /\ consecutive_failures' = 0
  /\ LET closes == state = "half_open" /\ model[c] = "primary"
     IN /\ state' = IF closes THEN "closed" ELSE state
        /\ half_open_in_flight' = (half_open_in_flight /\ ~closes)
  /\ UNCHANGED <<now, opened_at, probes>>

\* A 2xx answer is reported as a success, of whichever model.
RecordSuccess(c) ==
  /\ EndCall(c)
  /\ consecutive_failures' = 0
  /\ state' = IF state = "half_open" THEN "closed" ELSE state
  /\ half_open_in_flight' = (half_open_in_flight /\ state # "half_open")
  /\ UNCHANGED <<now, opened_at, probes>>

Opens == \/ state = "half_open"
         \/ state = "closed" /\ consecutive_failures + 1 >= Threshold

\* Plausible slip: a failed probe does not start a new cool-down.
FailureKeepsTime(c) ==
  /\ EndCall(c)
  /\ consecutive_failures' = consecutive_failures + 1
  /\ IF Opens
     THEN /\ state' = "open" /\ probes' = 0
          /\ opened_at' = IF state = "closed" THEN now ELSE opened_at
          /\ half_open_in_flight' = (half_open_in_flight /\ state # "half_open")
     ELSE UNCHANGED <<state, opened_at, half_open_in_flight, probes>>
  /\ UNCHANGED now

\* An error status, a timeout or a lost connection is reported as a failure.
RecordFailure(c) ==
  /\ EndCall(c)
  /\ consecutive_failures' = consecutive_failures + 1
  /\ IF Opens
     THEN /\ state' = "open" /\ opened_at' = now /\ probes' = 0
          /\ half_open_in_flight' = (half_open_in_flight /\ state # "half_open")
     ELSE UNCHANGED <<state, opened_at, half_open_in_flight, probes>>
  /\ UNCHANGED now

\* A cancelled call, and a 2xx answer whose body is not JSON, report nothing.
EndUnrecorded(c) ==
  /\ EndCall(c)
  /\ UNCHANGED <<now, state, consecutive_failures, opened_at, half_open_in_flight, probes>>

\* Bound on the failures counted, far above Threshold's reach.
Counted == consecutive_failures < Threshold + 2

BreakerNext ==
  \/ \E c \in Calls :
       \/ ModelToCall(c)
       \/ RecordSuccess(c)
       \/ Counted /\ RecordFailure(c)
       \/ EndUnrecorded(c)
  \/ Tick /\ UNCHANGED breakerVars
------------------------------------------------------------------------------
BreakerTypeOK ==
  /\ now \in Nat
  /\ state \in {"closed", "open", "half_open"}
  /\ consecutive_failures \in Nat /\ opened_at \in 0..now
  /\ half_open_in_flight \in BOOLEAN
  /\ model \in [Calls -> Model \cup {"none"}]
  /\ probes \in Nat
  /\ probing \in SUBSET Calls /\ \A c, d \in probing : c = d

\* However results of older calls arrive, an open breaker has sent nothing
\* to the primary since it opened, and a half-open one exactly its probe,
\* for which it keeps the place (circuit_breaker.py:67-92).
OneProbe ==
  /\ half_open_in_flight <=> state = "half_open"
  /\ state = "open" => probes = 0
  /\ state = "half_open" => probes = 1

Promise == INSTANCE AbstractBreaker
             WITH mode <- state, since <- opened_at, clock <- now,
                  probing <- (probing # {})

\* record_success and record_failure do not ask whose report they are given.
AnothersReport == \E c \in Calls \ probing : RecordSuccess(c) \/ RecordFailure(c)

\* The breaker keeps to what its docstring promises (circuit_breaker.py:1-22),
\* but for the one step it does not guard: the report of a call other than
\* the probe, an older one or one sent to the fallback, moves a half-open
\* breaker.  Even then it opens for a whole cool-down.
KeepsPromise ==
  Promise!Init /\ [][Promise!Next \/ (AnothersReport /\ Promise!Meddle)]_Promise!breakerView

\* circuit_breaker.py:5-6, 20-21: "let one request through (HALF_OPEN) and
\* resume normal operation if it succeeds".
PromiseKept == Promise!Spec

\* A probe that reports nothing does not leave the breaker half open for
\* good: as long as calls go on being answered, one of the other answers
\* moves it (circuit_breaker.py:101, 118).
HalfOpenEnds ==
  []<><<\E c \in Calls : RecordSuccess(c)>>_breakerVars
    => (state = "half_open" ~> state # "half_open")
==============================================================================
