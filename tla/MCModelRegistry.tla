--------------------------- MODULE MCModelRegistry ---------------------------
(* ModelRegistry on small instances. *)
EXTENDS ModelRegistry, TLC
CONSTANTS m1, m2, m3, m4

Symmetry == Permutations(Sessions)

\* two equals, a better one, and one that is disqualified
ScoresOfFour == (m1 :> 2) @@ (m2 :> 2) @@ (m3 :> 3) @@ (m4 :> 0)
=============================================================================
