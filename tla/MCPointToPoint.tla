--------------------------- MODULE MCPointToPoint ---------------------------
(***************************************************************************)
(* The values of the constants of PointToPoint in its runs.                *)
(***************************************************************************)
EXTENDS PointToPoint, TLC

CONSTANTS c1, c2

\* A duplicate of MPI_COMM_WORLD and its reversal.
MCGroups == {(0 :> 0 @@ 1 :> 1), (0 :> 1 @@ 1 :> 0)}

\* With a process alone.
MCMoreGroups == MCGroups \cup {(0 :> 1)}

Symmetry == Permutations({c1, c2})
=============================================================================
