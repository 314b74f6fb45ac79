----------------------------- MODULE MCKubelet -----------------------------
(* Symmetry for the model checking of Kubelet. *)
EXTENDS Kubelet, TLC

Symmetry == Permutations(Claims) \cup Permutations(Devices)
              \cup Permutations(Uuids) \cup Permutations(Workers)
=============================================================================
