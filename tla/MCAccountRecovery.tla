------------------------- MODULE MCAccountRecovery -------------------------
(* Small instances of AccountRecovery for TLC. *)
EXTENDS AccountRecovery, TLC

Symmetry ==
  Permutations(Requests) \cup Permutations(Challenges) \cup Permutations(Sessions)
  \cup Permutations(Passwords)
=============================================================================
