--------------------------- MODULE MCPositionExit ---------------------------
(* Model-checking instances of PositionExit. *)
EXTENDS PositionExit

=============================================================================
