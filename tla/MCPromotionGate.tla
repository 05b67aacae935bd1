--------------------------- MODULE MCPromotionGate ---------------------------
(* PromotionGate on small instances. *)
EXTENDS PromotionGate
=============================================================================
