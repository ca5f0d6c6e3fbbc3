-------------------------------- MODULE Duel --------------------------------
(***************************************************************************)
(* A duel: two solo praxes on one task, the Duel row that links them, and  *)
(* the scores it moves (services/duel.py, praxis_duel.py, duel_outcome.py, *)
(* the duel branch of praxis_scoring.py, era.py's freeze; ADR-0011, 0052). *)
(*                                                                         *)
(* A request is one transaction and one step.  What two of them do to each *)
(* other when they overlap is the subject of module DuelRace.              *)
(*                                                                         *)
(* Left out: level and task-bank refusals (any accept may be refused), the *)
(* same-account guard (the two sides are two accounts), a dissolved side's *)
(* change to collab, and rulings other than "visible" and "failed".        *)
(***************************************************************************)
EXTENDS Integers

CONSTANTS
    Stars,      \* the ratings the one outside account may give a side
    TieTakers   \* the sides whose faction has takes_duel_ties

Sides == {"challenger", "opponent"}
Nobody == "nobody"

ASSUME StarsAssumption == Stars \subseteq Nat \ {0}
ASSUME TieTakersAssumption == TieTakers \subseteq Sides

Other(s) == IF s = "challenger" THEN "opponent" ELSE "challenger"

VARIABLES
    work,     \* each side's praxis on the task: Praxis.status
    ruling,   \* its moderation_status
    points,   \* its points_from_votes
    duel,     \* the newest Duel row between the two
    banked,   \* what each character's stored score holds for its praxis
    away      \* the sides whose character is banned or departed

vars == <<work, ruling, points, duel, banked, away>>

-----------------------------------------------------------------------------
NoDuel ==
    [status |-> "none", linked |-> FALSE, forfeited |-> Nobody, winner |-> Nobody]

\* linked: opponent_praxis_id is set, which it stays when a duel is dissolved.
Duels ==
    [status    : {"none", "pending", "active", "settled", "declined", "resolved"},
     linked    : BOOLEAN,
     forfeited : Sides \cup {Nobody},
     winner    : Sides \cup {Nobody}]

Unscored == [outcome |-> "unscored", points |-> 0]

\* The statuses whose duel scores its sides (praxis_scoring 114-120).
Contests == {"active", "settled", "resolved"}

\* get_duel_for_praxis: the duel this side is in and may still end.
InLiveDuel(s) ==
    \/ duel.status \in {"active", "settled"}
    \/ duel.status = "pending" /\ s = "challenger"

-----------------------------------------------------------------------------
(* services/duel_outcome.py and the scoring of a duel side.  Arguments, not *)
(* variables: a handler recalculates from the state it is about to commit.  *)

\* Mutant: a forfeit does not disqualify.
CanWinForfeited(s, d, r) == r[s] = "visible"

CanWin(s, d, r) == r[s] = "visible" /\ d.forfeited # s

\* sole_tie_taker_id
TieTaker ==
    IF \E s \in Sides : TieTakers = {s}
    THEN CHOOSE s \in Sides : TieTakers = {s}
    ELSE Nobody

Beats(s, d, r, p) ==
    /\ CanWin(s, d, r)
    /\ CanWin(Other(s), d, r) => p[s] > p[Other(s)]

DuelWinner(d, r, p, tieBreak) ==
    IF \E s \in Sides : Beats(s, d, r, p)
    THEN CHOOSE s \in Sides : Beats(s, d, r, p)
    ELSE IF \A s \in Sides : CanWin(s, d, r) THEN tieBreak ELSE Nobody

\* The live winner is read without the tie-break, the frozen one as stored.
Winner(d, r, p) ==
    IF d.status = "resolved" THEN d.winner ELSE DuelWinner(d, r, p, Nobody)

\* compute_duel_multiplier: w = Nobody is a tie, which a sole tie-taker wins.
Multiplier(s, w) ==
    LET victor == IF w = Nobody THEN TieTaker ELSE w
    IN  IF victor = Nobody THEN "tie"
        ELSE IF victor = s THEN "win" ELSE "loss"

Outcome(s, d, r, p) ==
    IF d.status \in Contests THEN Multiplier(s, Winner(d, r, p)) ELSE "plain"

\* Mutant: a praxis ruled out still scores.
WorthUnruled(s, k, d, r, p) ==
    IF k[s] = "submitted"
    THEN [outcome |-> Outcome(s, d, r, p), points |-> p[s]]
    ELSE Unscored

Worth(s, k, d, r, p) ==
    IF k[s] = "submitted" /\ r[s] = "visible"
    THEN [outcome |-> Outcome(s, d, r, p), points |-> p[s]]
    ELSE Unscored

\* recalculate_character_stats of these sides, from the state being written.
Recalculate(who) ==
    banked' = [s \in Sides |->
                 IF s \in who THEN Worth(s, work', duel', ruling', points')
                 ELSE banked[s]]

-----------------------------------------------------------------------------
(* The challenge.                                                          *)

SignUp(s) ==
    /\ s \notin away
    /\ work[s] = "none"
    /\ work' = [work EXCEPT ![s] = "in_progress"]
    /\ UNCHANGED <<ruling, points, duel, banked, away>>

\* issue_duel_challenge.  A resolved duel keeps both praxes (the foreign key),
\* so its opponent is an active member of the task and cannot be challenged.
Challenge ==
    /\ "challenger" \notin away
    /\ work["challenger"] = "in_progress"
    /\ duel.status \notin {"pending", "active", "settled"}
    /\ work["opponent"] = "none"
    /\ duel' = [NoDuel EXCEPT !.status = "pending"]
    /\ UNCHANGED <<work, ruling, points, banked, away>>

\* respond_to_duel_challenge(accept=True): nobody is recalculated.
Accept ==
    /\ "opponent" \notin away
    /\ duel.status = "pending"
    /\ work["opponent"] = "none"
    /\ work' = [work EXCEPT !["opponent"] = "in_progress"]
    /\ duel' = [duel EXCEPT !.status = "active", !.linked = TRUE]
    /\ UNCHANGED <<ruling, points, banked, away>>

Decline ==
    /\ "opponent" \notin away
    /\ duel.status = "pending"
    /\ duel' = [duel EXCEPT !.status = "declined"]
    /\ UNCHANGED <<work, ruling, points, banked, away>>

\* Mutant: only the one who dissolves the duel is recalculated.
CancelForOne(s) ==
    /\ s \notin away
    /\ duel.status \in {"pending", "active"}
    /\ duel' = [duel EXCEPT !.status = "declined"]
    /\ UNCHANGED <<work, ruling, points, away>>
    /\ Recalculate({s})

\* cancel_duel_challenge: either participant, and both revert to plain solo.
Cancel(s) ==
    /\ s \notin away
    /\ duel.status \in {"pending", "active"}
    /\ duel' = [duel EXCEPT !.status = "declined"]
    /\ UNCHANGED <<work, ruling, points, away>>
    /\ Recalculate(Sides)

-----------------------------------------------------------------------------
(* The sides' praxes.                                                      *)

\* submit_praxis on a solo: seals whatever its status, settles the duel before
\* the recalculation, which is of this side's one member.
Submit(s) ==
    /\ s \notin away
    /\ work[s] # "none"
    /\ work' = [work EXCEPT ![s] = "submitted"]
    /\ duel' = IF duel.status = "active" /\ work'[Other(s)] = "submitted"
               THEN [duel EXCEPT !.status = "settled"]
               ELSE duel
    /\ UNCHANGED <<ruling, points, away>>
    /\ Recalculate({s})

\* Mutant: the latest forfeit is the record.
ForfeitAnew(s) == duel' = [duel EXCEPT !.forfeited = s]

\* The first forfeit is the record; the other side takes the win at once.
Forfeit(s) ==
    duel' = IF duel.forfeited = Nobody THEN [duel EXCEPT !.forfeited = s] ELSE duel

\* unsubmit_praxis on a solo.
Unsubmit(s) ==
    /\ s \notin away
    /\ work[s] = "submitted"
    /\ work' = [work EXCEPT ![s] = "in_progress"]
    /\ UNCHANGED <<ruling, points, away>>
    /\ \/ /\ duel.status = "settled"
          /\ Forfeit(s)
          /\ Recalculate(Sides)
       \/ /\ duel.status # "settled"
          /\ UNCHANGED duel
          /\ Recalculate({s})

\* Mutant: a praxis is dropped from under a live duel.
DropRegardless(s) ==
    /\ s \notin away
    /\ work[s] = "in_progress"
    /\ work' = [work EXCEPT ![s] = "none"]
    /\ ruling' = [ruling EXCEPT ![s] = "visible"]
    /\ points' = [points EXCEPT ![s] = 0]
    /\ UNCHANGED <<duel, banked, away>>

\* delete_praxis: a declined row goes along, any other refuses (NO ACTION).
Drop(s) ==
    /\ s \notin away
    /\ work[s] = "in_progress"
    /\ duel.status # "none" /\ (s = "challenger" \/ duel.linked) =>
         duel.status = "declined"
    /\ work' = [work EXCEPT ![s] = "none"]
    /\ ruling' = [ruling EXCEPT ![s] = "visible"]
    /\ points' = [points EXCEPT ![s] = 0]
    /\ duel' = IF s = "challenger" \/ duel.linked THEN NoDuel ELSE duel
    /\ UNCHANGED <<banked, away>>

\* cast_or_update_vote by the outside account: the star that stands, on a
\* praxis of any status; this praxis's members are recalculated.
Vote(s, value) ==
    /\ work[s] # "none"
    /\ points[s] # value
    /\ points' = [points EXCEPT ![s] = value]
    /\ UNCHANGED <<work, ruling, duel, away>>
    /\ Recalculate({s})

\* moderate_praxis: the ruling changes what a second player is worth.
Moderate(s, status) ==
    /\ work[s] # "none"
    /\ ruling[s] # status
    /\ ruling' = [ruling EXCEPT ![s] = status]
    /\ UNCHANGED <<work, points, duel, away>>
    /\ Recalculate(IF InLiveDuel(s) THEN Sides ELSE {s})

-----------------------------------------------------------------------------
(* The characters and the era.                                             *)

\* apply_ban or soft_delete_character: forfeits a settled duel, and only the
\* winner is recalculated.
Ban(s) ==
    /\ s \notin away
    /\ away' = away \cup {s}
    /\ UNCHANGED <<work, ruling, points>>
    /\ \/ /\ duel.status = "settled"
          /\ duel.forfeited = Nobody
          /\ Forfeit(s)
          /\ Recalculate({Other(s)})
       \/ /\ duel.status # "settled" \/ duel.forfeited # Nobody
          /\ UNCHANGED <<duel, banked>>

\* Un-banning does not un-forfeit.
Unban(s) ==
    /\ s \in away
    /\ away' = away \ {s}
    /\ UNCHANGED <<work, ruling, points, duel, banked>>

\* Mutant: the freeze forgets who forfeited.
EraCloseForgets ==
    /\ duel.status = "settled"
    /\ duel' = [duel EXCEPT
                  !.status = "resolved",
                  !.winner = DuelWinner([duel EXCEPT !.forfeited = Nobody],
                                        ruling, points, TieTaker)]
    /\ UNCHANGED <<work, ruling, points, banked, away>>

\* resolve_duels_at_era_close: no score is recalculated.
EraClose ==
    /\ duel.status \in {"active", "settled"}
    /\ duel' = [duel EXCEPT
                  !.status = "resolved",
                  !.winner = IF duel.status = "settled"
                             THEN DuelWinner(duel, ruling, points, TieTaker)
                             ELSE Nobody]
    /\ UNCHANGED <<work, ruling, points, banked, away>>

-----------------------------------------------------------------------------
Init ==
    /\ work = [s \in Sides |-> "none"]
    /\ ruling = [s \in Sides |-> "visible"]
    /\ points = [s \in Sides |-> 0]
    /\ duel = NoDuel
    /\ banked = [s \in Sides |-> Unscored]
    /\ away = {}

Next ==
    \/ Challenge
    \/ Accept
    \/ Decline
    \/ EraClose
    \/ \E s \in Sides : SignUp(s)
    \/ \E s \in Sides : Cancel(s)
    \/ \E s \in Sides : Submit(s)
    \/ \E s \in Sides : Unsubmit(s)
    \/ \E s \in Sides : Drop(s)
    \/ \E s \in Sides, value \in Stars : Vote(s, value)
    \/ \E s \in Sides, status \in {"visible", "failed"} : Moderate(s, status)
    \/ \E s \in Sides : Ban(s)
    \/ \E s \in Sides : Unban(s)

Spec == Init /\ [][Next]_vars
-----------------------------------------------------------------------------
TypeOK ==
    /\ work \in [Sides -> {"none", "in_progress", "submitted"}]
    /\ ruling \in [Sides -> {"visible", "failed"}]
    /\ points \in [Sides -> Stars \cup {0}]
    /\ duel \in Duels
    /\ banked \in [Sides ->
         [outcome : {"unscored", "plain", "win", "loss", "tie"},
          points  : Stars \cup {0}]]
    /\ away \subseteq Sides

\* The Duel row and the two praxes agree through every challenge, dissolution,
\* forfeit and freeze: a contest has both praxes; an active one waits for a
\* side, a settled one without a forfeit waits for none; only a votable duel
\* was ever forfeited; the frozen winner did not forfeit (models/duel.py).
DuelMatchesItsSides ==
    /\ duel.status = "pending" => ~duel.linked /\ work["challenger"] # "none"
    /\ duel.status \in Contests => duel.linked /\ \A s \in Sides : work[s] # "none"
    /\ duel.status = "active" => \E s \in Sides : work[s] # "submitted"
    /\ duel.status = "settled" /\ duel.forfeited = Nobody =>
         \A s \in Sides : work[s] = "submitted"
    /\ duel.forfeited # Nobody => duel.status \in {"settled", "resolved"}
    /\ duel.winner # Nobody => duel.status = "resolved" /\ duel.winner # duel.forfeited

\* No stored score keeps a praxis that was taken back, ruled out or dropped,
\* misses one that is public, or holds a star count the votes have left
\* (character_stats 220-372, called from every handler that moves either).
ScoresOnlyWhatIsPublic ==
    \A s \in Sides :
        IF work[s] = "submitted" /\ ruling[s] = "visible"
        THEN banked[s].outcome # "unscored" /\ banked[s].points = points[s]
        ELSE banked[s] = Unscored

\* A challenge never accepted, and a duel dissolved from active, leave no duel
\* multiplier in either stored score (duel.py 495-502, 518-526).
DissolvedDuelPaysNobody ==
    duel.status \notin Contests =>
        \A s \in Sides : banked[s].outcome \in {"unscored", "plain"}

\* From the forfeit until the era closes, the other side's stored score holds
\* the win, whatever votes, rulings and resubmissions follow (ADR-0011).
ForfeitPaysTheOther ==
    \A s \in Sides :
        duel.status = "settled" /\ duel.forfeited = s =>
            banked[Other(s)].outcome \in {"unscored", "win"}

\* The first forfeit is the record and a contest that became votable is never
\* un-made: no sequence of requests lifts either (praxis_duel 72-123).
ForfeitIsSticky ==
    [][duel.status \in {"settled", "resolved"} =>
         /\ duel'.status \in {duel.status, "resolved"}
         /\ duel.forfeited # Nobody => duel'.forfeited = duel.forfeited]_vars

\* Freezing a votable duel changes no side's outcome: the live rule reads a tie
\* without the tie-break, the freeze with it, and they agree (ADR-0052).
FreezeKeepsTheStanding ==
    [][duel.status = "settled" /\ duel'.status = "resolved" =>
         \A s \in Sides : Outcome(s, duel', ruling, points)
                          = Outcome(s, duel, ruling, points)]_vars

-----------------------------------------------------------------------------
(* What the documents say and the code does not keep.  TLC refutes each,   *)
(* WinnerFloatsWithTheVotes in a run of its own (README, "Disagreements"). *)

\* "Voting opens only when both praxes are submitted" (ADR-0011).
VotingOpensWithBoth ==
    [][\A s \in Sides :
         duel.status \in {"active", "settled"} /\ points'[s] # points[s] =>
            duel.status = "settled"]_vars

\* "The winner floats with the votes until era reset" (ADR-0011): a settled
\* duel's stored scores follow the tally.
WinnerFloatsWithTheVotes ==
    [][\A s \in Sides :
         /\ duel.status = "settled" /\ duel' = duel /\ points' # points
         /\ banked[s] = Worth(s, work, duel, ruling, points)
         => banked'[s] = Worth(s, work', duel', ruling', points')]_vars

\* "the forfeiter keeps the loss modifier on resubmit" (ADR-0011).
ForfeiterKeepsTheLoss ==
    [][\A s \in Sides :
         duel.status = "settled" /\ duel.forfeited = s
           /\ work[s] = "in_progress" /\ work'[s] = "submitted" =>
            banked'[s].outcome \in {"unscored", "loss"}]_vars

\* "active duels never became votable, so they resolve as a no-contest: null
\* winner" (era.py 336-337): the freeze leaves no win in a stored score.
NoContestPaysNobody ==
    [][duel.status = "active" /\ duel'.status = "resolved" =>
         \A s \in Sides : banked'[s].outcome # "win"]_vars
=============================================================================
