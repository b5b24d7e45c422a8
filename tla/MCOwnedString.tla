---------------------------- MODULE MCOwnedString ----------------------------
(* Instance of OwnedString for TLC.                                         *)
EXTENDS OwnedString
=============================================================================
