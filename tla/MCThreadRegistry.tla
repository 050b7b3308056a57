-------------------------- MODULE MCThreadRegistry --------------------------
(***************************************************************************)
(* Main has the lowest id, the worker the next, a thread of the            *)
(* application and an OpenMP thread follow. The last two share the         *)
(* application's mutex. No id is used twice here, see the proofs for that. *)
(***************************************************************************)
EXTENDS ThreadRegistry

MCHelpers == {3}
MCOmp == {4}
MCCallers == {3, 4}
MCFirstValues == {7}
=============================================================================
