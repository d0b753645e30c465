---------------------------- MODULE MCDeviceLink ----------------------------
(* DeviceLink on small instances. *)
EXTENDS DeviceLink, TLC
Symmetry == Permutations(Keys) \cup Permutations(Flows)
=============================================================================
