---------------------------- MODULE MCClientCache ----------------------------
(***************************************************************************)
(* ClientCache for TLC: an account of two lives.                           *)
(***************************************************************************)
EXTENDS ClientCache, TLC

Symmetry == Permutations(Lives)
=============================================================================
