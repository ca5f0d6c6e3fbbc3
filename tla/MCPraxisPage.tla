---------------------------- MODULE MCPraxisPage ----------------------------
(***************************************************************************)
(* PraxisPage for TLC: the two sides of one duel, two stars.               *)
(***************************************************************************)
EXTENDS PraxisPage, TLC

Symmetry == Permutations(Praxes)
=============================================================================
