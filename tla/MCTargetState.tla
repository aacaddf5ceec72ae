--------------------------- MODULE MCTargetState ---------------------------
(* TargetState with the second published version bare of local config. *)
EXTENDS TargetState

MCBare == {2}
=============================================================================
