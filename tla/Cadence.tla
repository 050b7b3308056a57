------------------------------- MODULE Cadence -------------------------------
(***************************************************************************)
(* The timing of threadedFunction: a loop that computes its waiting time   *)
(* at the top, then works, then waits, so that the work comes on top of    *)
(* the wait. All times are in the same unit; the clock is read where the   *)
(* code reads it.                                                          *)
(***************************************************************************)
EXTENDS Integers

CONSTANT Period   \* ZS_PERIOD

ASSUME CadenceAssumption == Period \in Nat

VARIABLES
  clock,   \* steady_clock, 0 when the worker starts
  prev,    \* the start of this period
  then,    \* its end
  stop,    \* the time to wait, as computed at the top; may be negative
  phase,   \* where the loop is
  step,    \* ZeroSum::step
  began,   \* ghost: when the last sample began
  work,    \* ghost: time spent since the top, the computed wait apart
  excess   \* ghost: by how much all iterations together overran their period

cadence == <<clock, prev, then, stop, phase, step, began, work, excess>>

Phases == {"top", "once", "sample", "wait", "after"}

AtLeast0(n) == IF n > 0 THEN n ELSE 0

CadenceInit ==
  /\ clock = 0 /\ prev = 0 /\ then = 0 /\ stop = 0
  /\ phase = "top" /\ step = 0 /\ began = 0 /\ work = 0 /\ excess = 0

\* Mutant: the whole period is waited for.
Top_WholePeriod ==
  /\ phase = "top"
  /\ then' = prev + Period
  /\ stop' = Period
  /\ phase' = "once"
  /\ UNCHANGED <<clock, prev, step, began, work, excess>>

Top ==
  /\ phase = "top"
  /\ then' = prev + Period
  /\ stop' = prev + Period - clock
  /\ phase' = "once"
  /\ UNCHANGED <<clock, prev, step, began, work, excess>>

Spend(d) == clock' = clock + d /\ work' = work + d

\* doOnce() until it is done, which may take long; nothing later on.
Once(d) ==
  /\ phase = "once"
  /\ Spend(d)
  /\ phase' = "sample"
  /\ UNCHANGED <<prev, then, stop, step, began, excess>>

\* doPeriodic() starts.
Begin ==
  /\ phase = "sample"
  /\ step' = step + 1
  /\ began' = clock

Sampled(d) ==
  /\ phase = "sample"
  /\ Spend(d)
  /\ phase' = "wait"
  /\ UNCHANGED <<prev, then, stop, excess>>

\* Mutant: the start of the period does not move.
Wake_SamePeriod(late) ==
  /\ phase = "wait"
  /\ clock' = clock + AtLeast0(stop) + late
  /\ work' = work + late
  /\ phase' = "after"
  /\ UNCHANGED <<prev, then, stop, step, began, excess>>

\* wait_for() runs into its timeout, perhaps late; a negative one returns at once.
Wake(late) ==
  /\ phase = "wait"
  /\ clock' = clock + AtLeast0(stop) + late
  /\ work' = work + late
  /\ prev' = then
  /\ phase' = "after"
  /\ UNCHANGED <<then, stop, step, began, excess>>

\* The rest of the iteration, with or without a send to the aggregator.
Finish(d) ==
  /\ phase = "after"
  /\ clock' = clock + d
  /\ excess' = excess + AtLeast0(work + d - Period)
  /\ work' = 0
  /\ phase' = "top"
  /\ UNCHANGED <<prev, then, stop, step, began>>

CadenceNext ==
  \/ Top
  \/ \E d \in Nat : Once(d)
  \/ \E d \in Nat : Begin /\ Sampled(d)
  \/ \E late \in Nat : Wake(late)
  \/ \E d \in Nat : Finish(d)

CadenceSpec == CadenceInit /\ [][CadenceNext]_cadence

-----------------------------------------------------------------------------
(* Properties.                                                             *)

\* The sample number n never begins before the n-th period, however late or
\* early the ones before it were (zerosum.cpp 103-120).
NeverEarly == step > 0 => began >= (step - 1) * Period

\* The lateness of an iteration does not add up: it is bounded by one period and
\* the time by which iterations overran theirs, be it by a late MPI_Init, a slow
\* sample or a blocked send (zerosum.cpp 88-120).
LagBounded == phase = "top" => clock - prev <= Period + excess
=============================================================================
