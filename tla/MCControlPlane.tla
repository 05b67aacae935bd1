--------------------------- MODULE MCControlPlane ---------------------------
(* ControlPlane on small instances. *)
EXTENDS ControlPlane, TLC

\* Requests are alike, and so are liquidations: for the runs without liveness.
Symmetry == Permutations(Operators) \cup Permutations(Liquidators)
=============================================================================
