------------------------------ MODULE MCSsuFs ------------------------------
(* TLC instances of SsuFs.                                                 *)
EXTENDS SsuFs

TwoNames == {"test", "log"}
=============================================================================
