----------------------------- MODULE MCPageHash -----------------------------
(* TLC instances of PageHash: all sizes are in the cfg files.              *)
EXTENDS PageHash
=============================================================================
