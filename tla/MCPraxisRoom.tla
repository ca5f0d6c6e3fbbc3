---------------------------- MODULE MCPraxisRoom ----------------------------
(***************************************************************************)
(* PraxisRoom for TLC: two members' browsers and a word or two.            *)
(***************************************************************************)
EXTENDS PraxisRoom, TLC

Symmetry == Permutations(Clients) \cup Permutations(Words)
=============================================================================
