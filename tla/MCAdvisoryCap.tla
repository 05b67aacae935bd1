---------------------------- MODULE MCAdvisoryCap ----------------------------
(* AdvisoryCap on small instances. *)
EXTENDS AdvisoryCap, TLC

\* Sessions are alike: for the runs without liveness.
Symmetry == Permutations(Callers)
=============================================================================
