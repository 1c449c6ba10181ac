----------------------------- MODULE MCFrontend -----------------------------
(* Symmetry for TLC, for the run that checks no liveness property. *)

EXTENDS Frontend, TLC

Symmetry == Permutations(Items)
=============================================================================
