----------------------------- MODULE DuelProofs -----------------------------
(***************************************************************************)
(* What holds of a duel for any ratings and any faction that takes ties:   *)
(* the row matches its two praxes, the stored scores hold what is public,  *)
(* and a forfeit pays the other side.                                      *)
(*                                                                         *)
(* The invariant has two parts: Rows, of the two praxes and the duel, and  *)
(* Fair, of one side's stored score against them.  A recalculated score is *)
(* always fair; a handler that leaves a side out must leave it fair.       *)
(***************************************************************************)
EXTENDS Duel, TLAPS

Works == [Sides -> {"none", "in_progress", "submitted"}]
Rulings == [Sides -> {"visible", "failed"}]
Points == [Sides -> Stars \cup {0}]
Score == [outcome : {"unscored", "plain", "win", "loss", "tie"}, points : Stars \cup {0}]

\* The praxes and the duel, apart from the scores.
Rows ==
    /\ work \in Works
    /\ ruling \in Rulings
    /\ points \in Points
    /\ duel \in Duels
    /\ away \subseteq Sides
    /\ DuelMatchesItsSides

\* A stored score b of side s against the rows it was computed from.
Fair(b, s, k, d, r, p) ==
    /\ b \in Score
    /\ IF k[s] = "submitted" /\ r[s] = "visible"
       THEN b.outcome # "unscored" /\ b.points = p[s]
       ELSE b = Unscored
    /\ d.status \notin Contests => b.outcome \in {"unscored", "plain"}
    /\ d.status = "settled" /\ d.forfeited = Other(s) => b.outcome \in {"unscored", "win"}

DuelInv ==
    /\ Rows
    /\ banked = [s \in Sides |-> banked[s]]
    /\ \A s \in Sides : Fair(banked[s], s, work, duel, ruling, points)

-----------------------------------------------------------------------------
(* services/duel_outcome.py.                                               *)

\* There are two sides, and each is the other's other.
LEMMA TwoSides ==
    /\ \A s \in Sides : Other(s) \in Sides /\ Other(s) # s /\ Other(Other(s)) = s
    /\ \A s, t \in Sides : t = s \/ t = Other(s)
    /\ Nobody \notin Sides
BY DEF Sides, Other, Nobody

\* Votes are numbers.
LEMMA PointsAreNumbers == \A p \in Points, s \in Sides : p[s] \in Nat
<1> TAKE p \in Points, s \in Sides
<1>1. p[s] \in Stars \cup {0}
  BY DEF Points
<1>2. \A v \in Stars : v \in Nat
  BY StarsAssumption
<1> QED
  BY <1>1, <1>2

\* sole_tie_taker_id names a side or nobody.
LEMMA TieTakerIsASide == TieTaker \in Sides \cup {Nobody}
BY DEF TieTaker

\* A side that beats the other is the winner; without one the tie-break is asked.
LEMMA TheWinner ==
    ASSUME NEW d \in Duels, NEW r \in Rulings, NEW p \in Points, NEW t \in Sides \cup {Nobody}
    PROVE  LET w == DuelWinner(d, r, p, t)
           IN  /\ \A s \in Sides : Beats(s, d, r, p) => w = s
               /\ (\A s \in Sides : ~Beats(s, d, r, p)) =>
                     w = IF \A s \in Sides : CanWin(s, d, r) THEN t ELSE Nobody
<1>1. ASSUME NEW s \in Sides, NEW u \in Sides, Beats(s, d, r, p), Beats(u, d, r, p)
      PROVE  s = u
  <2> SUFFICES ASSUME u = Other(s) PROVE FALSE
    BY TwoSides
  <2>1. CanWin(s, d, r) /\ CanWin(Other(s), d, r)
    BY <1>1 DEF Beats
  <2>2. p[s] > p[Other(s)] /\ p[Other(s)] > p[s]
    BY <1>1, <2>1, TwoSides DEF Beats
  <2> QED
    BY <2>2, PointsAreNumbers, TwoSides
<1>2. ASSUME NEW s \in Sides, Beats(s, d, r, p)
      PROVE  DuelWinner(d, r, p, t) = s
  BY <1>1, <1>2 DEF DuelWinner
<1>3. ASSUME \A s \in Sides : ~Beats(s, d, r, p)
      PROVE  DuelWinner(d, r, p, t) = IF \A s \in Sides : CanWin(s, d, r) THEN t ELSE Nobody
  BY <1>3 DEF DuelWinner
<1> QED
  BY <1>2, <1>3

\* The winner can win: it is neither ruled out nor the forfeiter.
LEMMA WinnersCanWin ==
    ASSUME NEW d \in Duels, NEW r \in Rulings, NEW p \in Points, NEW t \in Sides \cup {Nobody}
    PROVE  LET w == DuelWinner(d, r, p, t)
           IN  w \in Sides \cup {Nobody} /\ (w # Nobody => CanWin(w, d, r))
<1>1. CASE \E s \in Sides : Beats(s, d, r, p)
  BY <1>1, TheWinner DEF Beats
<1>2. CASE \A s \in Sides : ~Beats(s, d, r, p)
  BY <1>2, TheWinner
<1> QED
  BY <1>1, <1>2

\* What a recalculation writes is fair.
LEMMA WorthIsFair ==
    ASSUME NEW s \in Sides, NEW k \in Works, NEW d \in Duels, NEW r \in Rulings, NEW p \in Points
    PROVE  Fair(Worth(s, k, d, r, p), s, k, d, r, p)
<1> DEFINE o == Outcome(s, d, r, p)
<1>1. o \in {"plain", "win", "loss", "tie"} /\ (d.status \notin Contests => o = "plain")
  BY DEF Outcome, Multiplier
<1>2. ASSUME d.status = "settled", d.forfeited = Other(s), r[s] = "visible"
      PROVE  o = "win"
  <2>1. Beats(s, d, r, p)
    BY <1>2, TwoSides DEF Beats, CanWin
  <2>2. Winner(d, r, p) = s
    BY <1>2, <2>1, TheWinner DEF Winner
  <2> QED
    BY <1>2, <2>2, TwoSides DEF Outcome, Multiplier, Contests
<1>3. p[s] \in Stars \cup {0}
  BY DEF Points
<1> HIDE DEF o
<1>4. CASE k[s] = "submitted" /\ r[s] = "visible"
  <2>1. Worth(s, k, d, r, p) = [outcome |-> o, points |-> p[s]]
    BY <1>4 DEF Worth, o
  <2> QED
    BY <1>1, <1>2, <1>3, <1>4, <2>1 DEF Fair, Score
<1>5. CASE ~(k[s] = "submitted" /\ r[s] = "visible")
  BY <1>5 DEF Worth, Fair, Score, Unscored
<1> QED
  BY <1>4, <1>5

-----------------------------------------------------------------------------
(* The actions.                                                            *)

\* A recalculation keeps every score fair if those it leaves out still are.
LEMMA RecalculatingKeeps ==
    ASSUME DuelInv, Rows', NEW who, Recalculate(who),
           \A s \in Sides \ who : Fair(banked[s], s, work', duel', ruling', points')
    PROVE  DuelInv'
<1>1. banked' = [s \in Sides |-> banked'[s]]
  BY DEF Recalculate
<1>2. ASSUME NEW s \in Sides
      PROVE  Fair(banked'[s], s, work', duel', ruling', points')
  <2>1. CASE s \in who
    <3>1. banked'[s] = Worth(s, work', duel', ruling', points')
      BY <2>1 DEF Recalculate
    <3>2. work' \in Works /\ duel' \in Duels /\ ruling' \in Rulings /\ points' \in Points
      BY DEF Rows
    <3> QED
      BY <3>1, <3>2, WorthIsFair
  <2>2. CASE s \notin who
    BY <2>2 DEF Recalculate
  <2> QED
    BY <2>1, <2>2
<1> QED
  BY <1>1, <1>2 DEF DuelInv

\* So does a step without one.
LEMMA LeavingKeeps ==
    ASSUME DuelInv, Rows', banked' = banked,
           \A s \in Sides : Fair(banked[s], s, work', duel', ruling', points')
    PROVE  DuelInv'
BY DEF DuelInv

\* Signing up, challenging, accepting and declining pay nobody.
LEMMA ChallengingKeeps ==
    ASSUME DuelInv, Challenge \/ Accept \/ Decline \/ \E s \in Sides : SignUp(s)
    PROVE  DuelInv'
<1> USE DEF DuelInv
<1>1. Rows' /\ banked' = banked
  <2>1. CASE Challenge
    BY <2>1 DEF Challenge, Rows, DuelMatchesItsSides, NoDuel, Duels, Contests, Works, Sides, Nobody
  <2>2. CASE Accept
    BY <2>2 DEF Accept, Rows, DuelMatchesItsSides, Duels, Contests, Works, Sides, Nobody
  <2>3. CASE Decline
    BY <2>3 DEF Decline, Rows, DuelMatchesItsSides, Duels, Contests, Sides, Nobody
  <2>4. ASSUME NEW s \in Sides, SignUp(s)
        PROVE  Rows' /\ banked' = banked
    BY <2>4 DEF SignUp, Rows, DuelMatchesItsSides, Contests, Works, Sides
  <2> QED
    BY <2>1, <2>2, <2>3, <2>4
<1>2. \A s \in Sides : Fair(banked[s], s, work', duel', ruling', points')
  <2>1. CASE Challenge
    BY <2>1 DEF Challenge, Fair, Rows, DuelMatchesItsSides, NoDuel, Contests, Sides
  <2>2. CASE Accept
    BY <2>2 DEF Accept, Fair, Rows, Duels, Contests, Works, Sides
  <2>3. CASE Decline
    BY <2>3 DEF Decline, Fair, Rows, Duels, Contests
  <2>4. ASSUME NEW t \in Sides, SignUp(t)
        PROVE  \A s \in Sides : Fair(banked[s], s, work', duel', ruling', points')
    BY <2>4 DEF SignUp, Fair, Rows, Works
  <2> QED
    BY <2>1, <2>2, <2>3, <2>4
<1> QED
  BY <1>1, <1>2, LeavingKeeps

\* cancel_duel_challenge recalculates both sides.
LEMMA CancelKeeps == ASSUME DuelInv, NEW s \in Sides, Cancel(s) PROVE DuelInv'
<1>1. Rows'
  BY DEF DuelInv, Cancel, Rows, DuelMatchesItsSides, Duels, Contests, Nobody
<1> QED
  BY <1>1, RecalculatingKeeps DEF Cancel

\* A submission may settle the duel; the other side's score is as it was.
LEMMA SubmitKeeps == ASSUME DuelInv, NEW s \in Sides, Submit(s) PROVE DuelInv'
<1>1. work' \in Works /\ work'[s] = "submitted" /\ work'[Other(s)] = work[Other(s)]
  BY TwoSides DEF DuelInv, Rows, Submit, Works
<1> DEFINE settling == duel.status = "active" /\ work'[Other(s)] = "submitted"
<1>2. duel' = IF settling THEN [duel EXCEPT !.status = "settled"] ELSE duel
  BY DEF Submit
<1>3. Rows'
  <2>1. \A t \in Sides : work'[t] = "none" => work[t] = "none"
    BY <1>1, TwoSides
  <2>2. duel' \in Duels /\ duel'.linked = duel.linked /\ duel'.forfeited = duel.forfeited
        /\ duel'.winner = duel.winner
    BY <1>2 DEF DuelInv, Rows, Duels
  <2>3. DuelMatchesItsSides'
    <3>1. CASE ~settling
      BY <1>1, <1>2, <2>1, <3>1, TwoSides DEF DuelInv, Rows, DuelMatchesItsSides, Submit, Sides
    <3>2. CASE settling
      BY <1>1, <1>2, <2>1, <2>2, <3>2, TwoSides
      DEF DuelInv, Rows, DuelMatchesItsSides, Contests, Duels
    <3> QED
      BY <3>1, <3>2
  <2> QED
    BY <1>1, <2>2, <2>3 DEF DuelInv, Rows, Submit
<1>4. ASSUME NEW t \in Sides \ {s}
      PROVE  Fair(banked[t], t, work', duel', ruling', points')
  <2>1. t = Other(s) /\ Fair(banked[t], t, work, duel, ruling, points)
    BY TwoSides DEF DuelInv
  <2>2. duel.status = "active" => duel.forfeited = Nobody
    BY DEF DuelInv, Rows, DuelMatchesItsSides, Duels
  <2> QED
    BY <1>1, <1>2, <2>1, <2>2, TwoSides DEF Fair, Submit, DuelInv, Rows, Duels, Contests
<1> QED
  BY <1>3, <1>4, RecalculatingKeeps DEF Submit
\* Taking a settled side back forfeits the duel, and both are recalculated.
LEMMA UnsubmitKeeps == ASSUME DuelInv, NEW s \in Sides, Unsubmit(s) PROVE DuelInv'
<1>1. work' \in Works /\ work'[s] = "in_progress" /\ work'[Other(s)] = work[Other(s)]
  BY TwoSides DEF DuelInv, Rows, Unsubmit, Works
<1>2. \A t \in Sides : work'[t] = "none" => work[t] = "none"
  BY <1>1, TwoSides
<1>3. CASE duel.status = "settled"
  <2>1. Forfeit(s) /\ Recalculate(Sides)
    BY <1>3 DEF Unsubmit
  <2>2. /\ duel' \in Duels /\ duel'.linked = duel.linked /\ duel'.status = "settled"
        /\ duel'.forfeited # Nobody /\ duel'.winner = duel.winner
    BY <1>3, <2>1, TwoSides DEF Forfeit, DuelInv, Rows, Duels
  <2>3. duel.winner = Nobody
    BY <1>3 DEF DuelInv, Rows, DuelMatchesItsSides
  <2>4. Rows'
    BY <1>1, <1>2, <1>3, <2>2, <2>3 DEF DuelInv, Rows, DuelMatchesItsSides, Unsubmit, Contests
  <2> QED
    BY <2>1, <2>4, RecalculatingKeeps
<1>4. CASE duel.status # "settled"
  <2>1. duel' = duel /\ Recalculate({s})
    BY <1>4 DEF Unsubmit
  <2>2. Rows'
    BY <1>1, <1>2, <1>4, <2>1 DEF DuelInv, Rows, DuelMatchesItsSides, Unsubmit, Sides
  <2>3. ASSUME NEW t \in Sides \ {s}
        PROVE  Fair(banked[t], t, work', duel', ruling', points')
    BY <1>1, <2>1, TwoSides DEF Fair, Unsubmit, DuelInv
  <2> QED
    BY <2>1, <2>2, <2>3, RecalculatingKeeps
<1> QED
  BY <1>3, <1>4

\* What is dropped was not submitted, and in no contest.
LEMMA DropKeeps == ASSUME DuelInv, NEW s \in Sides, Drop(s) PROVE DuelInv'
<1>1. /\ work' \in Works /\ work'[s] = "none" /\ work[s] = "in_progress"
      /\ work'[Other(s)] = work[Other(s)]
      /\ ruling' \in Rulings /\ ruling'[Other(s)] = ruling[Other(s)]
      /\ points' \in Points /\ points'[Other(s)] = points[Other(s)]
  BY TwoSides DEF DuelInv, Rows, Drop, Works, Rulings, Points
<1>2. duel.status \notin Contests /\ duel' \in {duel, NoDuel}
  BY DEF DuelInv, Rows, DuelMatchesItsSides, Drop, Contests
<1>3. Rows'
  <2>1. NoDuel \in Duels
    BY DEF NoDuel, Duels
  <2>2. DuelMatchesItsSides'
    <3>1. CASE duel' = NoDuel
      BY <3>1 DEF NoDuel, DuelMatchesItsSides, Contests
    <3>2. CASE duel' = duel
      <4>1. duel.status = "pending" => s # "challenger"
        BY <1>1 DEF Drop
      <4> QED
        BY <1>1, <1>2, <3>2, <4>1, TwoSides
        DEF DuelInv, Rows, DuelMatchesItsSides, Contests, Other, Sides
    <3> QED
      BY <1>2, <3>1, <3>2
  <2> QED
    BY <1>1, <1>2, <2>1, <2>2 DEF DuelInv, Rows, Drop
<1>4. ASSUME NEW t \in Sides
      PROVE  Fair(banked[t], t, work', duel', ruling', points')
  <2>1. duel'.status \notin Contests
    BY <1>2 DEF NoDuel, Contests
  <2> QED
    BY <1>1, <1>2, <2>1, TwoSides DEF Fair, DuelInv, Contests
<1> QED
  BY <1>3, <1>4, LeavingKeeps DEF Drop

\* A vote recalculates the side it is for.
LEMMA VoteKeeps ==
    ASSUME DuelInv, NEW s \in Sides, NEW value \in Stars, Vote(s, value) PROVE DuelInv'
<1>1. points' \in Points /\ points'[Other(s)] = points[Other(s)]
  BY TwoSides DEF DuelInv, Rows, Vote, Points
<1>2. Rows'
  BY <1>1 DEF DuelInv, Rows, DuelMatchesItsSides, Vote
<1>3. ASSUME NEW t \in Sides \ {s}
      PROVE  Fair(banked[t], t, work', duel', ruling', points')
  BY <1>1, TwoSides DEF Fair, Vote, DuelInv
<1> QED
  BY <1>2, <1>3, RecalculatingKeeps DEF Vote

\* A ruling recalculates both sides of a live duel, one otherwise.
LEMMA ModerateKeeps ==
    ASSUME DuelInv, NEW s \in Sides, NEW status \in {"visible", "failed"}, Moderate(s, status)
    PROVE  DuelInv'
<1>1. ruling' \in Rulings /\ ruling'[Other(s)] = ruling[Other(s)]
  BY TwoSides DEF DuelInv, Rows, Moderate, Rulings
<1>2. Rows'
  BY <1>1 DEF DuelInv, Rows, DuelMatchesItsSides, Moderate
<1>3. ASSUME NEW t \in Sides \ {s}
      PROVE  Fair(banked[t], t, work', duel', ruling', points')
  BY <1>1, TwoSides DEF Fair, Moderate, DuelInv
<1> DEFINE who == IF InLiveDuel(s) THEN Sides ELSE {s}
<1>4. Recalculate(who) /\ \A t \in Sides \ who : t \in Sides \ {s}
  BY DEF Moderate
<1> HIDE DEF who
<1> QED
  BY <1>2, <1>3, <1>4, RecalculatingKeeps

\* A ban forfeits a settled duel and recalculates the winner, or moves no score.
LEMMA BanKeeps == ASSUME DuelInv, NEW s \in Sides, Ban(s) PROVE DuelInv'
<1>1. CASE duel.status = "settled" /\ duel.forfeited = Nobody
  <2>1. duel' = [duel EXCEPT !.forfeited = s] /\ Recalculate({Other(s)})
    BY <1>1 DEF Ban, Forfeit
  <2>2. /\ duel' \in Duels /\ duel'.linked = duel.linked /\ duel'.status = "settled"
        /\ duel'.forfeited = s /\ duel'.winner = duel.winner /\ s # Nobody
    BY <1>1, <2>1, TwoSides DEF DuelInv, Rows, Duels
  <2>3. Rows'
    BY <1>1, <2>2 DEF DuelInv, Rows, DuelMatchesItsSides, Ban, Contests
  <2>4. ASSUME NEW t \in Sides \ {Other(s)}
        PROVE  Fair(banked[t], t, work', duel', ruling', points')
    <3>1. t = s
      BY TwoSides
    <3> QED
      BY <1>1, <2>2, <3>1, TwoSides DEF Fair, Ban, DuelInv
  <2> QED
    BY <2>1, <2>3, <2>4, RecalculatingKeeps
<1>2. CASE duel.status # "settled" \/ duel.forfeited # Nobody
  BY <1>2 DEF Ban, DuelInv, Rows, DuelMatchesItsSides
<1> QED
  BY <1>1, <1>2

\* Freezing writes a winner that can win, and moves no score.
LEMMA EraCloseKeeps == ASSUME DuelInv, EraClose PROVE DuelInv'
<1> DEFINE w == IF duel.status = "settled"
                THEN DuelWinner(duel, ruling, points, TieTaker) ELSE Nobody
<1>1. w \in Sides \cup {Nobody} /\ (w # Nobody => w # duel.forfeited)
  BY WinnersCanWin, TieTakerIsASide DEF DuelInv, Rows, CanWin
<1>2. duel' = [duel EXCEPT !.status = "resolved", !.winner = w]
  BY DEF EraClose
<1> HIDE DEF w
<1>3. /\ duel' \in Duels /\ duel'.linked = duel.linked /\ duel'.status = "resolved"
      /\ duel'.forfeited = duel.forfeited /\ duel'.winner = w
  BY <1>1, <1>2 DEF DuelInv, Rows, Duels
<1>4. Rows'
  BY <1>1, <1>3 DEF DuelInv, Rows, DuelMatchesItsSides, EraClose, Contests
<1>5. \A s \in Sides : Fair(banked[s], s, work', duel', ruling', points')
  BY <1>3 DEF Fair, DuelInv, EraClose, Contests
<1> QED
  BY <1>4, <1>5, LeavingKeeps DEF EraClose

\* Nobody has signed up at first.
LEMMA DuelStart == Init => DuelInv
<1> SUFFICES ASSUME Init PROVE DuelInv
  OBVIOUS
<1>1. Rows
  BY DEF Init, Rows, Works, Rulings, Points, Duels, NoDuel, DuelMatchesItsSides, Contests
<1>2. \A s \in Sides : Fair(banked[s], s, work, duel, ruling, points)
  BY DEF Init, Fair, Score, Unscored
<1> QED
  BY <1>1, <1>2 DEF Init, DuelInv

\* Every step of the duel keeps the invariant.
LEMMA DuelStep == ASSUME DuelInv, [Next]_vars PROVE DuelInv'
<1>1. CASE UNCHANGED vars
  BY <1>1 DEF vars, DuelInv, Rows, DuelMatchesItsSides
<1>2. CASE Challenge \/ Accept \/ Decline \/ \E s \in Sides : SignUp(s)
  BY <1>2, ChallengingKeeps
<1>3. CASE EraClose
  BY <1>3, EraCloseKeeps
<1>4. ASSUME NEW s \in Sides, Cancel(s) \/ Submit(s) \/ Unsubmit(s) \/ Drop(s)
      PROVE  DuelInv'
  BY <1>4, CancelKeeps, SubmitKeeps, UnsubmitKeeps, DropKeeps
<1>5. ASSUME NEW s \in Sides, NEW value \in Stars, Vote(s, value)
      PROVE  DuelInv'
  BY <1>5, VoteKeeps
<1>6. ASSUME NEW s \in Sides, NEW status \in {"visible", "failed"}, Moderate(s, status)
      PROVE  DuelInv'
  BY <1>6, ModerateKeeps
<1>7. ASSUME NEW s \in Sides, Ban(s)
      PROVE  DuelInv'
  BY <1>7, BanKeeps
<1>8. ASSUME NEW s \in Sides, Unban(s)
      PROVE  DuelInv'
  BY <1>8 DEF Unban, DuelInv, Rows, DuelMatchesItsSides
<1> QED
  BY <1>1, <1>2, <1>3, <1>4, <1>5, <1>6, <1>7, <1>8 DEF Next

-----------------------------------------------------------------------------
\* The inductive invariant holds of every reachable state.
THEOREM DuelInvariance == Spec => []DuelInv
<1>1. Init => DuelInv
  BY DuelStart
<1>2. DuelInv /\ [Next]_vars => DuelInv'
  BY DuelStep
<1> QED
  BY <1>1, <1>2, PTL DEF Spec

\* The types of the praxes, the row and the scores.
THEOREM DuelTypes == Spec => []TypeOK
<1>1. DuelInv => TypeOK
  BY DEF DuelInv, Rows, Fair, Score, Works, Rulings, Points, TypeOK
<1> QED
  BY <1>1, DuelInvariance, PTL

\* models/duel.py: the row and its two praxes agree through every challenge,
\* dissolution, forfeit and freeze.
THEOREM RowMatchesSides == Spec => []DuelMatchesItsSides
<1>1. DuelInv => DuelMatchesItsSides
  BY DEF DuelInv, Rows
<1> QED
  BY <1>1, DuelInvariance, PTL

\* character_stats.py: a stored score holds exactly the praxis that is public.
THEOREM ScoresArePublic == Spec => []ScoresOnlyWhatIsPublic
<1>1. DuelInv => ScoresOnlyWhatIsPublic
  BY DEF DuelInv, Fair, ScoresOnlyWhatIsPublic
<1> QED
  BY <1>1, DuelInvariance, PTL

\* duel.py: a challenge never accepted and a dissolved duel multiply nothing.
THEOREM DissolvedPaysNobody == Spec => []DissolvedDuelPaysNobody
<1>1. DuelInv => DissolvedDuelPaysNobody
  BY DEF DuelInv, Fair, DissolvedDuelPaysNobody
<1> QED
  BY <1>1, DuelInvariance, PTL

\* praxis_duel.py: whatever follows a forfeit, the other side holds the win.
THEOREM ForfeitsPay == Spec => []ForfeitPaysTheOther
<1>1. DuelInv => ForfeitPaysTheOther
  <2> SUFFICES ASSUME DuelInv, NEW s \in Sides, duel.status = "settled", duel.forfeited = s
               PROVE  banked[Other(s)].outcome \in {"unscored", "win"}
    BY DEF ForfeitPaysTheOther
  <2> QED
    BY TwoSides DEF DuelInv, Fair
<1> QED
  BY <1>1, DuelInvariance, PTL

\* praxis_duel.py: no request un-makes a votable contest or its forfeit.
THEOREM ForfeitsStick == Spec => ForfeitIsSticky
<1> DEFINE A == duel.status \in {"settled", "resolved"} =>
                  /\ duel'.status \in {duel.status, "resolved"}
                  /\ duel.forfeited # Nobody => duel'.forfeited = duel.forfeited
<1>1. DuelInv /\ [Next]_vars => [A]_vars
  <2> SUFFICES ASSUME DuelInv, Next, duel.status \in {"settled", "resolved"}
               PROVE  A
    BY Zenon
  <2>1. duel \in Duels
    BY DEF DuelInv, Rows
  <2>2. CASE duel' = duel
    BY <2>2
  <2>3. ASSUME NEW s \in Sides, Unsubmit(s) \/ Ban(s)
        PROVE  duel' = duel \/ Forfeit(s)
    BY <2>3 DEF Unsubmit, Ban
  <2>4. ASSUME NEW s \in Sides, Cancel(s) \/ Submit(s)
        PROVE  duel' = duel
    BY <2>4 DEF Cancel, Submit
  <2>5. ASSUME NEW s \in Sides, SignUp(s) \/ Unban(s) \/ (\E v \in Stars : Vote(s, v))
                                \/ (\E m \in {"visible", "failed"} : Moderate(s, m))
        PROVE  duel' = duel
    BY <2>5 DEF SignUp, Unban, Vote, Moderate
  <2>6. ~Challenge /\ ~Accept /\ ~Decline
    BY DEF Challenge, Accept, Decline, DuelInv, Rows, DuelMatchesItsSides, Contests, Sides
  <2>7. ASSUME NEW s \in Sides, Forfeit(s)
        PROVE  A
    BY <2>1, <2>7 DEF Forfeit, Duels
  <2>8. CASE EraClose
    BY <2>1, <2>8 DEF EraClose, Duels
  <2>9. ASSUME NEW s \in Sides, Drop(s)
        PROVE  duel' = duel
    BY <2>9 DEF Drop, DuelInv, Rows, DuelMatchesItsSides, Contests
  <2> QED
    BY <2>2, <2>7, <2>8, <2>9, <2>3, <2>4, <2>5, <2>6 DEF Next
<1> QED
  BY <1>1, DuelInvariance, PTL DEF Spec, ForfeitIsSticky

\* era.py: freezing a votable duel changes no side's outcome, whoever takes ties.
THEOREM FreezeMovesNoOutcome == Spec => FreezeKeepsTheStanding
<1> DEFINE A == duel.status = "settled" /\ duel'.status = "resolved" =>
                  \A s \in Sides :
                    Outcome(s, duel', ruling, points) = Outcome(s, duel, ruling, points)
<1>1. DuelInv /\ [Next]_vars => [A]_vars
  <2> SUFFICES ASSUME DuelInv, Next, duel.status = "settled", duel'.status = "resolved",
                      NEW s \in Sides
               PROVE  Outcome(s, duel', ruling, points) = Outcome(s, duel, ruling, points)
    BY Zenon
  <2>1. duel \in Duels /\ ruling \in Rulings /\ points \in Points
    BY DEF DuelInv, Rows
  <2>2. EraClose
    <3>1. ~Forfeit("challenger") /\ ~Forfeit("opponent")
      BY <2>1 DEF Forfeit, Duels
    <3> QED
      BY <3>1, <2>1 DEF Next, Challenge, Accept, Decline, SignUp, Cancel, Submit, Unsubmit, Drop,
         Vote, Moderate, Ban, Unban, NoDuel, Sides
  <2> DEFINE live == DuelWinner(duel, ruling, points, Nobody)
             frozen == DuelWinner(duel, ruling, points, TieTaker)
  <2>3. duel'.status = "resolved" /\ duel'.winner = frozen
    BY <2>1, <2>2 DEF EraClose, Duels
  <2>4. /\ Outcome(s, duel, ruling, points) = Multiplier(s, live)
        /\ Outcome(s, duel', ruling, points) = Multiplier(s, frozen)
    BY <2>3 DEF Outcome, Winner, Contests
  <2>5. frozen = live \/ (live = Nobody /\ frozen = TieTaker)
    BY <2>1, TheWinner, TieTakerIsASide
  <2> HIDE DEF live, frozen
  <2> QED
    BY <2>4, <2>5 DEF Multiplier
<1> QED
  BY <1>1, DuelInvariance, PTL DEF Spec, FreezeKeepsTheStanding
=============================================================================
