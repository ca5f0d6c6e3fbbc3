---------------------------- MODULE MCVoteBudget ----------------------------
(***************************************************************************)
(* VoteBudget for TLC: an account of two lives, so that one may re-rate    *)
(* the other's vote or join in its stead, and a stranger to invite them.   *)
(* The lives of an account are alike.                                      *)
(***************************************************************************)
EXTENDS VoteBudget, TLC

Symmetry ==
    {p \in Permutations(Characters) :
       {{p[c] : c \in A} : A \in Accounts} = Accounts}
=============================================================================
