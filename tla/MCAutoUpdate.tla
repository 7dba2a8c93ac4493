----------------------------- MODULE MCAutoUpdate -----------------------------
(* AutoUpdate for TLC: the constants that a .cfg cannot write. *)
EXTENDS AutoUpdate

CONSTANTS f1, f2, f3

MCFileOrder == <<f1, f2, f3>>
MCRemoved == {<<2, f3>>}

=============================================================================
