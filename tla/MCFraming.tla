----------------------------- MODULE MCFraming -----------------------------
(***************************************************************************)
(* Framing for TLC: every text of up to MaxLength characters, cut into     *)
(* chunks in every way.                                                    *)
(***************************************************************************)
EXTENDS Framing
=============================================================================
