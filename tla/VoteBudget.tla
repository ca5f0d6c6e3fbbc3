----------------------------- MODULE VoteBudget -----------------------------
(***************************************************************************)
(* The votes on the praxis of CollabPraxis and what they cost              *)
(* (services/vote.py, with the counter that character_stats.py rebuilds    *)
(* and era.py resets): who may rate it, what an account's second star      *)
(* does, and what becomes of a vote and of its charge when its caster      *)
(* joins, when the praxis is dropped and when the era turns.               *)
(*                                                                         *)
(* A vote belongs to an account and a charge to a life: an account is the  *)
(* set of its lives.  The praxis carries no duel (that is module Duel), so *)
(* the duelist's refusal never applies; hiding it, and the level gate,     *)
(* refuse a cast and change nothing.  Of its composer only media edits     *)
(* appear: a flush does to the row what they do.                           *)
(*                                                                         *)
(* A cast is two steps, its reads and its commit.  Under OneAtATime no     *)
(* other request commits between them.                                     *)
(***************************************************************************)
EXTENDS CollabPraxis, FiniteSets, Functions

CONSTANTS
    Accounts,   \* a partition of Characters into finite sets
    Budget,     \* votes a life may spend in an era (compute_vote_budget)
    OneAtATime

ASSUME AccountsAssumption ==
    /\ \A A \in Accounts : A \subseteq Characters /\ IsFiniteSet(A)
    /\ \A c \in Characters : \E A \in Accounts : c \in A
    /\ \A A, B \in Accounts : A # B => A \cap B = {}
ASSUME BudgetAssumption == Budget \in Nat
ASSUME OneAtATimeAssumption == OneAtATime \in BOOLEAN

VARIABLES
    votes,      \* per account: its Vote row on this praxis
    spent,      \* per life: votes_spent_this_era, the live era's row
    elsewhere,  \* per life: its vote rows of this era on other praxes
    cast        \* the cast request that has read and not yet committed

voteVars == <<praxis, votes, spent, elsewhere, cast>>

NoVote == [voter |-> "nobody"]
NoCast == [voter |-> "nobody"]

VoteRows == [voter : Characters, thisEra : BOOLEAN]
Casts == [voter : Characters, rerates : BOOLEAN, spent : Nat, thisEra : BOOLEAN]

Account(c) == CHOOSE A \in Accounts : c \in A

Quiet == OneAtATime => cast = NoCast

-----------------------------------------------------------------------------
(* services/vote.py                                                        *)

\* _voter_account_owns_praxis: a pending invitation counts as ownership.
Owns(c) ==
    \/ \E m \in praxis.members : m \in Account(c)
    \/ praxis.members = {} /\ praxis.creator \in Account(c)
    \/ \E i \in praxis.invites : i[2] \in Account(c)

\* cast_or_update_vote up to its last read: re-rating is free.
BeginCast(c) ==
    /\ cast = NoCast
    /\ Exists
    /\ ~Owns(c)
    /\ votes[Account(c)] = NoVote => spent[c] < Budget
    /\ cast' = [voter |-> c, rerates |-> votes[Account(c)] # NoVote,
                spent |-> spent[c], thisEra |-> TRUE]
    /\ UNCHANGED <<praxis, votes, spent, elsewhere>>

\* The unique key refuses a second row, and a row that is gone no update.
CommitCast ==
    LET c == cast.voter
        A == Account(c)
        stands == cast.rerates <=> votes[A] # NoVote
    IN  /\ cast # NoCast
        /\ votes' = IF ~stands THEN votes
                    ELSE IF cast.rerates THEN [votes EXCEPT ![A].voter = c]
                    ELSE [votes EXCEPT ![A] =
                            [voter |-> c, thisEra |-> cast.thisEra]]
        /\ spent' = IF stands /\ ~cast.rerates /\ cast.thisEra
                    THEN [spent EXCEPT ![c] = cast.spent + 1]
                    ELSE spent
        /\ cast' = NoCast
        /\ UNCHANGED <<praxis, elsewhere>>

\* A first cast on some other praxis, whole.
RateElsewhere(c) ==
    /\ Quiet
    /\ spent[c] < Budget
    /\ spent' = [spent EXCEPT ![c] = @ + 1]
    /\ elsewhere' = [elsewhere EXCEPT ![c] = @ + 1]
    /\ UNCHANGED <<praxis, votes, cast>>

\* Mutant: only the joining life's own vote is looked up.
OwnVoteOf(c) ==
    IF votes[Account(c)] # NoVote /\ votes[Account(c)].voter = c
    THEN votes[Account(c)] ELSE NoVote

VoteOf(c) == votes[Account(c)]

\* Mutant: the live era pays for a vote cast in any.
RefundedToday(v) ==
    IF v # NoVote /\ spent[v.voter] > 0
    THEN [spent EXCEPT ![v.voter] = @ - 1] ELSE spent

\* The era the vote was cast in gets the charge back.
Refunded(v) ==
    IF v # NoVote /\ v.thisEra /\ spent[v.voter] > 0
    THEN [spent EXCEPT ![v.voter] = @ - 1] ELSE spent

\* respond_to_invite, with void_account_vote_on_join.
Join(c, d) ==
    /\ Quiet
    /\ AcceptInvite(c, d)
    /\ votes' = IF VoteOf(d) = NoVote THEN votes
                ELSE [votes EXCEPT ![Account(d)] = NoVote]
    /\ spent' = Refunded(VoteOf(d))
    /\ UNCHANGED <<elsewhere, cast>>

-----------------------------------------------------------------------------
(* The praxis, the eras and the operator.                                  *)

\* The rows cascade and their charges stay; a cast under way fails.
Drop(c) ==
    /\ Quiet
    /\ Delete(c)
    /\ votes' = [A \in Accounts |-> NoVote]
    /\ cast' = NoCast
    /\ UNCHANGED <<spent, elsewhere>>

\* Every other request on the praxis leaves its votes alone.
OtherRequest ==
    /\ Quiet
    /\ \/ \E c \in Characters, t \in {"solo", "collab"} : Create(c, t)
       \/ Read
       \/ \E c \in Characters : Submit(c)
       \/ \E c \in Characters : Unsubmit(c)
       \/ \E c \in Characters : ChangeType(c)
       \/ \E c \in Characters : EditMedia(c)
       \/ \E c, d \in Characters : Invite(c, d)
       \/ \E c, d \in Characters : DropInvite(c, d)
       \/ \E m, c, d \in Characters : CancelInvite(m, c, d)
       \/ \E c, d \in Characters : Kick(c, d)
       \/ \E c \in Characters : Leave(c)
       \/ DayPasses
    /\ UNCHANGED <<votes, spent, elsewhere, cast>>

\* apply_era_reset with reset_vote_budget: a new row for each life, from 0.
NextEra ==
    /\ Quiet
    /\ votes' = [A \in Accounts |->
                   IF votes[A] = NoVote THEN NoVote
                   ELSE [votes[A] EXCEPT !.thisEra = FALSE]]
    /\ spent' = [c \in Characters |-> 0]
    /\ elsewhere' = [c \in Characters |-> 0]
    /\ cast' = IF cast = NoCast THEN NoCast ELSE [cast EXCEPT !.thisEra = FALSE]
    /\ UNCHANGED praxis

\* The rows of this era that stand in the life's name.
RowsOf(c) ==
    elsewhere[c] +
      IF /\ votes[Account(c)] # NoVote
         /\ votes[Account(c)].voter = c
         /\ votes[Account(c)].thisEra
      THEN 1 ELSE 0

\* recompute_votes_spent_this_era, applied
Recompute ==
    /\ Quiet
    /\ spent' = [c \in Characters |-> RowsOf(c)]
    /\ UNCHANGED <<praxis, votes, elsewhere, cast>>

-----------------------------------------------------------------------------
VoteInit ==
    /\ Init
    /\ votes = [A \in Accounts |-> NoVote]
    /\ spent = [c \in Characters |-> 0]
    /\ elsewhere = [c \in Characters |-> 0]
    /\ cast = NoCast

VoteNext ==
    \/ \E c \in Characters : BeginCast(c)
    \/ CommitCast
    \/ \E c \in Characters : RateElsewhere(c)
    \/ \E c, d \in Characters : Join(c, d)
    \/ \E c \in Characters : Drop(c)
    \/ OtherRequest
    \/ NextEra
    \/ Recompute

VoteSpec == VoteInit /\ [][VoteNext]_voteVars
-----------------------------------------------------------------------------
\* The votes and counters stay in their domains.
VotesTypeOK ==
    /\ votes \in [Accounts -> VoteRows \cup {NoVote}]
    /\ spent \in [Characters -> Nat]
    /\ elsewhere \in [Characters -> Nat]
    /\ cast \in Casts \cup {NoCast}

\* No co-owner holds a rating on their own praxis, through any of their lives
\* (cast_or_update_vote, void_account_vote_on_join; #2216): whatever the order
\* of votes, invitations, departures, takeovers and drops.
NoOwnerRates ==
    \A c \in praxis.members : votes[Account(c)] = NoVote

\* Every vote of this era has been paid for by some life of its account: no
\* sequence of re-rates, joins, drops, rollovers and repairs earns a free vote
\* (the charge of vote.py 178 and the refunds and rebuilds that undo it).
EveryVoteIsPaidFor ==
    \A A \in Accounts :
      SumFunctionOnSet(elsewhere, A)
        + (IF votes[A] # NoVote /\ votes[A].thisEra THEN 1 ELSE 0)
        <= SumFunctionOnSet(spent, A)

-----------------------------------------------------------------------------
(* What a comment says, and the code does not keep (README,                *)
(* "Disagreements").                                                       *)

\* "The counter equals the number of that character's vote rows cast inside the
\* era window" (recompute_votes_spent_this_era).
CounterIsTheRows == \A c \in Characters : spent[c] = RowsOf(c)
=============================================================================
