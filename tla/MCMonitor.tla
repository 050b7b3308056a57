----------------------------- MODULE MCMonitor -----------------------------
(***************************************************************************)
(* Monitor on a run of a few samples. A piece of work takes no time, less  *)
(* than a period or more, so that iterations are early, on time, late and  *)
(* overtaken; the batches are due every other iteration or so.             *)
(***************************************************************************)
EXTENDS Monitor

MCDurations == {0, 1, 3}
=============================================================================
