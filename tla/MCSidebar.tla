----------------------------- MODULE MCSidebar -----------------------------
(***************************************************************************)
(* Sidebar for TLC: the second session has another design, with the same   *)
(* scope at the top; one watched variable is in both, one in the first.    *)
(***************************************************************************)
EXTENDS Sidebar

MCDesign == <<
    [scopes |-> {<<>>, <<"top">>, <<"top", "cpu">>},
     items |-> {<<"top", "clk">>, <<"top", "cpu", "pc">>}],
    [scopes |-> {<<>>, <<"top">>, <<"top", "mem">>},
     items |-> {<<"top", "clk">>}]>>

MCWatchList == <<<<"top", "cpu", "pc">>, <<"top", "clk">>>>
=============================================================================
