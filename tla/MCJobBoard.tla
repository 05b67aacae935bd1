------------------------------ MODULE MCJobBoard ------------------------------
(* JobBoard on small instances. *)
EXTENDS JobBoard, TLC
=============================================================================
