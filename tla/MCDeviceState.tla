--------------------------- MODULE MCDeviceState ---------------------------
(* Symmetry for the model checking of DeviceState. *)
EXTENDS DeviceState, TLC

Symmetry == Permutations(Claims) \cup Permutations(Devices)
              \cup Permutations(Uuids) \cup Permutations(Workers)
=============================================================================
