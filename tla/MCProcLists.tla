----------------------------- MODULE MCProcLists -----------------------------
(* TLC instance of ProcLists: bounds, commands and windows are in the cfg. *)
EXTENDS ProcLists
=============================================================================
