------------------------------ MODULE Session ------------------------------
(***************************************************************************)
(* What a monitored process promises, whatever its threads and handlers    *)
(* interleave: sampling ends before the summary is made, a clean exit has   *)
(* been through the summary, whoever gives up on the application finalises  *)
(* the log first, and a log that was finalised is not opened again.         *)
(***************************************************************************)

VARIABLES
  phase,   \* where the process is
  log,     \* "none", "open" or "final"
  result   \* "running", or how the process ended

svars == <<phase, log, result>>

\* "killing" has given up on the application and is about to say so; "failing" is on
\* its way to an end that is not clean.
Phases  == {"idle", "sampling", "killing", "still", "reported", "failing", "gone"}
Results == {"running", "clean", "crashed", "error", "killed", "aborted"}

SessionInit == phase = "idle" /\ log = "none" /\ result = "running"

Finalised == log' = IF log = "open" THEN "final" ELSE log

\* From one phase to the next, with the log as it is.
Turn(p, q) == phase = p /\ phase' = q /\ UNCHANGED <<log, result>>

Start == Turn("idle", "sampling")

OpenLog ==
  /\ phase \in {"sampling", "failing"} /\ log = "none"
  /\ log' = "open"
  /\ UNCHANGED <<phase, result>>

\* The sampler gives up on the application. If nothing comes of it, it goes on.
GiveUp ==
  /\ phase = "sampling" /\ phase' = "killing"
  /\ Finalised
  /\ UNCHANGED result

GoOn   == Turn("killing", "sampling")
Settle == Turn("sampling", "still")

\* The summary, and the final sections of the log.
Report ==
  /\ phase = "still" /\ phase' = "reported"
  /\ Finalised
  /\ UNCHANGED result

Fail == \E p \in Phases \ {"gone"} : Turn(p, "failing")

\* The other thread goes on while one is failing.
FinaliseAnyway ==
  /\ phase = "failing"
  /\ Finalised
  /\ UNCHANGED <<phase, result>>

Gone(r) == phase' = "gone" /\ result' = r /\ UNCHANGED log

Exit   == phase = "reported" /\ Gone("clean")
Failed == phase = "failing" /\ \E r \in {"crashed", "error"} : Gone(r)
Killed == phase # "gone" /\ Gone("killed")
\* MPI ends the process while it is asked for the rank.
Aborted == phase \in {"sampling", "failing"} /\ log = "none" /\ Gone("aborted")

SessionNext ==
  \/ Start \/ OpenLog \/ GiveUp \/ GoOn \/ Settle \/ Report
  \/ Fail \/ FinaliseAnyway \/ Exit \/ Failed \/ Killed \/ Aborted

SessionSpec == SessionInit /\ [][SessionNext]_svars
=============================================================================
