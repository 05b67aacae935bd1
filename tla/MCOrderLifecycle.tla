-------------------------- MODULE MCOrderLifecycle --------------------------
(* OrderLifecycle on small instances. *)
EXTENDS OrderRefinement, TLC

\* Orders are interchangeable; Boot makes the reconcilers differ. Used only by
\* the runs without liveness.
Symmetry == Permutations(Orders)
=============================================================================
