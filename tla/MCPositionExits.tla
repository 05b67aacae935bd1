--------------------------- MODULE MCPositionExits ---------------------------
(* PositionExits on small instances. *)
EXTENDS PositionExits, TLC
=============================================================================
