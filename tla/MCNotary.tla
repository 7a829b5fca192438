------------------------------ MODULE MCNotary ------------------------------
(***************************************************************************)
(* A small instance of NotaryLedger for TLC: connections are alike.        *)
(***************************************************************************)
EXTENDS NotaryLedger, TLC

Symmetry == Permutations(Threads)
=============================================================================
