------------------------------ MODULE MCQueue ------------------------------
(* Bounds and symmetry for model checking Queue. *)
EXTENDS Queue, TLC

QueueSymmetry ==
  Permutations(Threads) \cup Permutations(Publishers) \cup Permutations(Addr)

=============================================================================
