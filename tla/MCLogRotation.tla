---------------------------- MODULE MCLogRotation ----------------------------
(* LogRotation for TLC: the kinds of engine and whether it compresses. *)
EXTENDS LogRotation

MCAllSetups == {<<"Timestamp", TRUE>>, <<"Numbered", TRUE>>, <<"Numbered", FALSE>>}

=============================================================================
