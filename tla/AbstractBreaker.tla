--------------------------- MODULE AbstractBreaker ---------------------------
(***************************************************************************)
(* What the head of llm/circuit_breaker.py promises of a breaker, whatever *)
(* the calls are that make it change: the primary model is used freely     *)
(* while the breaker is closed and by one probe per cool-down while it is  *)
(* not; an opened breaker waits out a whole cool-down first; and it is the *)
(* success of that one request that resumes normal operation, its failure  *)
(* that starts the cool-down again.                                        *)
(***************************************************************************)
EXTENDS Naturals

CONSTANT CoolDown

VARIABLES mode,     \* "closed", "open" or "half_open"
          since,    \* when it opened last
          probes,   \* calls sent to the primary since then
          probing,  \* whether the request last let through is in flight
          clock

breakerView == <<mode, since, probes, probing, clock>>

Init ==
  /\ mode = "closed"
  /\ since = 0 /\ probes = 0 /\ ~probing /\ clock = 0

Opened == mode' = "open" /\ since' = clock /\ probes' = 0 /\ UNCHANGED clock
Closed == mode' = "closed" /\ UNCHANGED <<since, probes, clock>>

\* The probe's answer arrives.
Answered == probing /\ ~probing'

Open == mode = "closed" /\ Opened /\ (probing' => probing)

Probe ==
  /\ mode = "open" /\ clock >= since + CoolDown
  /\ mode' = "half_open" /\ probes' = 1 /\ probing'
  /\ UNCHANGED <<since, clock>>

Close == mode = "half_open" /\ Answered /\ Closed

Reopen == mode = "half_open" /\ Answered /\ Opened

\* The probe is cancelled, or answered when its answer decides nothing.
Lose == Answered /\ UNCHANGED <<mode, since, probes, clock>>

Pass ==
  /\ clock' = clock + 1
  /\ UNCHANGED <<mode, since, probes, probing>>

Next == Open \/ Probe \/ Close \/ Reopen \/ Lose \/ Pass

Spec == Init /\ [][Next]_breakerView

\* No part of the promise: a half-open breaker moves and its probe had no say.
Meddle == mode = "half_open" /\ UNCHANGED probing /\ (Opened \/ Closed)
==============================================================================
