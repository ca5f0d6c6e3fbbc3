----------------------------- MODULE MCDuelRace -----------------------------
(***************************************************************************)
(* DuelRace for TLC: the two sides' requests, overlapping.                 *)
(***************************************************************************)
EXTENDS DuelRace
=============================================================================
