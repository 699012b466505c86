----------------------------- MODULE MCPagePool -----------------------------
(* TLC instances of PagePool: the sizes of the pools are in the cfg files. *)
EXTENDS PagePool, TLC

CONSTANTS h1, h2, h3, h4

FourHolders == {h1, h2, h3, h4}
Interchangeable == Permutations(FourHolders)
=============================================================================
