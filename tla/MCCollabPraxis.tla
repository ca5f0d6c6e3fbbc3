--------------------------- MODULE MCCollabPraxis ---------------------------
(***************************************************************************)
(* CollabPraxis, and the promise it refines, for TLC: three characters, so *)
(* that a proposer, a second approver and a holdout (or an invitee)        *)
(* coexist, and a window of two days, so that it can be open, older and    *)
(* lapsed.                                                                 *)
(***************************************************************************)
EXTENDS CollabRefinement
=============================================================================
