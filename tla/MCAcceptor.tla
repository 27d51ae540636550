---------------------------- MODULE MCAcceptor ----------------------------
(* Symmetry for model checking Acceptor: descriptors are only compared. *)
EXTENDS Acceptor, TLC

FdSymmetry == Permutations(Fds)

=============================================================================
