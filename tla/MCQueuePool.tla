---------------------------- MODULE MCQueuePool ----------------------------
(* Names and symmetry for model checking QueuePool. *)
EXTENDS QueuePool, TLC

\* Two names that share a path, one a prefix of the other, and one apart.
SharedNames == {<<"a">>, <<"a", "b">>, <<"b">>}
\* A name and a longer one, to keep the races on unclaimed paths finite.
NestedNames == {<<"a">>, <<"a", "b">>}

ThreadSymmetry == Permutations(Threads)

=============================================================================
