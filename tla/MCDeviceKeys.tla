---------------------------- MODULE MCDeviceKeys ----------------------------
(* Symmetry for TLC.  No property of DeviceKeys is a liveness property. *)

EXTENDS DeviceKeys, TLC

Symmetry == Permutations(Keys) \cup Permutations(Deks) \cup Permutations(Requests)

============================================================================
