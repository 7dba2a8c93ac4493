--------------------------- MODULE MCRotatingLogger ---------------------------
(* RotatingLogger for TLC: the constants are given in the .cfg files. *)
EXTENDS RotatingLogger

=============================================================================
