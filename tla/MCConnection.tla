---------------------------- MODULE MCConnection ----------------------------
(***************************************************************************)
(* Instances of Connection for TLC; the .cfg files choose the bounds.      *)
(***************************************************************************)
EXTENDS Connection
=============================================================================
