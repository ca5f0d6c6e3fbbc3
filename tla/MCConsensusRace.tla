--------------------------- MODULE MCConsensusRace ---------------------------
(***************************************************************************)
(* ConsensusRace for TLC: a crew of two or three, a window of one day (not *)
(* lapsed, then lapsed), and per run the requests whose overlap is at      *)
(* stake and how many of them may overlap.                                 *)
(***************************************************************************)
EXTENDS ConsensusRace, TLC

Symmetry == Permutations(Characters)
=============================================================================
