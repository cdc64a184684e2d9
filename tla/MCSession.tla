------------------------------ MODULE MCSession ------------------------------
(***************************************************************************)
(* Session for TLC.  The gaps between the samples differ, so that the      *)
(* guess of stepForward() is too small for some and fits others.           *)
(***************************************************************************)
EXTENDS Session
=============================================================================
