--------------------------- MODULE MCHealthClient ---------------------------
(* Symmetry for the model checking of HealthClient. *)
EXTENDS HealthClient, TLC

Symmetry == Permutations(Procs) \cup Permutations(Conns)
=============================================================================
