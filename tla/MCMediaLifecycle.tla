-------------------------- MODULE MCMediaLifecycle --------------------------
(* Small instances of MediaLifecycle for TLC. *)
EXTENDS MediaLifecycle, TLC

Symmetry == Permutations(Media) \cup Permutations(Entries) \cup Permutations(Targets)
=============================================================================
