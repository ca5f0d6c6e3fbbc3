------------------------------- MODULE MCDuel -------------------------------
(***************************************************************************)
(* Duel for TLC: two star values, so that a side can lead, trail, tie and  *)
(* be re-rated, and one side whose faction takes ties.                     *)
(***************************************************************************)
EXTENDS Duel
=============================================================================
