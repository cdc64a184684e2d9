----------------------------- MODULE MCSettings -----------------------------
(***************************************************************************)
(* Settings for TLC: a list with an item the design lacks, then two more   *)
(* of different variables.                                                 *)
(***************************************************************************)
EXTENDS Settings

CONSTANTS a, b, gone

MCVariableOf == <<a, gone, a, b>>
=============================================================================
