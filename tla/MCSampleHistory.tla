-------------------------- MODULE MCSampleHistory --------------------------
(***************************************************************************)
(* The values of the constants of SampleHistory in its runs.               *)
(***************************************************************************)
EXTENDS SampleHistory

\* One helper, the last thread in the order of ids: the cursor is left where its
\* history ends.
MCHelpers == {4}

\* A build without sensors: memory, then the power counters.
MCNodeCalls == <<"meminfo", "cray">>
=============================================================================
