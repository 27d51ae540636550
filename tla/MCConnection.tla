--------------------------- MODULE MCConnection ---------------------------
(* Symmetry for model checking Connection. *)
EXTENDS Connection, TLC

ConnSymmetry ==
  Permutations(Threads) \cup Permutations(Queues) \cup Permutations(Msgs)

=============================================================================
