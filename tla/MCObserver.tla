----------------------------- MODULE MCObserver -----------------------------
(***************************************************************************)
(* Observer for TLC.  A designation's value changes between some times and *)
(* stays the same between others; the two designations never agree.        *)
(***************************************************************************)
EXTENDS Observer

MCValueAt(d, time) == IF time < 2 THEN d ELSE d \o "*"
=============================================================================
