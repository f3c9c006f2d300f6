-------------------------------- MODULE Clock --------------------------------
(***************************************************************************)
(* The clock the timed components of one process read: time.monotonic()    *)
(* and time.time() in ticks.  It stops at MaxNow, the bound on every run.  *)
(***************************************************************************)
EXTENDS Naturals

CONSTANT MaxNow  \* Bound: the last tick of the clock.

ASSUME ClockAssumption == MaxNow \in Nat

VARIABLE now

Tick == now < MaxNow /\ now' = now + 1
==============================================================================
