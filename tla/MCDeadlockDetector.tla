------------------------- MODULE MCDeadlockDetector -------------------------
(***************************************************************************)
(* The values of the constants of DeadlockDetector in its runs: two        *)
(* helpers are interchangeable, so symmetry is used where no helper has    *)
(* been given a name with a blank.                                         *)
(***************************************************************************)
EXTENDS DeadlockDetector, TLC

CONSTANTS h1, h2

MCHelpers == {h1, h2}
Symmetry  == Permutations(MCHelpers)
=============================================================================
