--------------------------- MODULE MCPetitionServer ---------------------------
(* PetitionServer for TLC: the constants are given in the .cfg files. *)
EXTENDS PetitionServer

=============================================================================
