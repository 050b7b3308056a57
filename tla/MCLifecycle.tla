---------------------------- MODULE MCLifecycle ----------------------------
(***************************************************************************)
(* The option sets of the runs of Lifecycle.                               *)
(***************************************************************************)
EXTENDS Lifecycle

\* The two detectors of a stalled application are switched together. The kill faults
\* with every other combination of options; where it returns an error or arrives, and
\* where an error path can exit, the log and the detectors are on. Without a log
\* SIGQUIT could reach main in the constructor (see CaughtSignalEnds).
MCOptions ==
  {o \in Option : /\ o.detect = o.monitor
                  /\ (o.kill # "segv" \/ o.exits) => o.log /\ o.detect
                  /\ o.exits => o.kill = "segv" /\ ~o.mpi}

\* A program whose GPU query fails, without MPI.
MCErrorOptions ==
  {o \in Option : o.detect = o.monitor /\ o.exits /\ ~o.mpi /\ o.kill # "ignored"}
=============================================================================
