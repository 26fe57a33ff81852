-------------------------------- MODULE MCErp ---------------------------------
(* A small instance of Erp for TLC. *)
EXTENDS Erp, TLC

\* No request differs from another, nor one product from another.
Alike == Permutations(Callers) \cup Permutations(Products)
=============================================================================
