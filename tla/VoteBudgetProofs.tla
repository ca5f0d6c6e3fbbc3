-------------------------- MODULE VoteBudgetProofs --------------------------
(***************************************************************************)
(* VoteBudget for every crew, every partition of it into accounts, every   *)
(* budget and window: types whatever overlaps, and no self-rating and no   *)
(* vote beyond the budget as long as no request commits inside a cast.     *)
(*                                                                         *)
(* The praxis's own steps are those of CollabPraxis, so its inductive      *)
(* invariant and the fact that all but an acceptance and a creation narrow *)
(* the crew are taken from there.                                          *)
(***************************************************************************)
EXTENDS VoteBudget, CollabPraxisProofs, SumTheorems

Uncast == \A A \in Accounts : votes[A] = NoVote

\* An account is one of the partition's blocks, its life in it.
LEMMA AccountIs ==
    ASSUME NEW c \in Characters
    PROVE  Account(c) \in Accounts /\ c \in Account(c)
  BY AccountsAssumption DEF Account

\* A life in an account is on that account.
LEMMA SameAccount ==
    ASSUME NEW c \in Characters, NEW d \in Characters, d \in Account(c)
    PROVE  Account(d) = Account(c)
  BY AccountIs, AccountsAssumption

-----------------------------------------------------------------------------
(* No request but a drop takes the praxis away.                            *)

\* Each service function keeps the row there is.
LEMMA RowStays ==
    ASSUME NEW p, Typed(p), p.status # "none", NEW c
    PROVE  /\ Settle(p).status # "none"
           /\ BackToDrafting(p).status # "none"
           /\ OnMemberEdit(p).status # "none"
           /\ ConvertToSolo(p, c).status # "none"
           /\ OnSubmit(p, c).status # "none"
           /\ SealIfReleased(p).status # "none"
  <1>1. \A q : Typed(q) => Seal(q).status = "submitted"
    BY DEF Seal, Typed, Rows
  <1>2. BackToDrafting(p).status = "in_progress"
    BY DEF BackToDrafting, ClearApprovals, Typed, Rows
  <1>3. OnMemberEdit(p).status # "none"
    BY <1>2 DEF OnMemberEdit
  <1>4. ConvertToSolo(p, c).status # "none"
    <2> DEFINE q == IF p.status # "submitted" THEN OnMemberEdit(p) ELSE p
    <2>1. q.status # "none" /\ q \in Rows
      BY <1>3, EditNarrows DEF Narrows, Typed
    <2>2. ConvertToSolo(p, c).status = q.status
      <3> HIDE DEF q
      <3> QED
        BY <2>1 DEF ConvertToSolo, Rows, q
    <2> QED
      BY <2>1, <2>2
  <1>5. OnSubmit(p, c).status # "none"
    <2> DEFINE q == Approve(p, c)
    <2>1. q.status = p.status /\ DOMAIN q = DOMAIN p
      BY DEF Approve, Typed, Rows
    <2>2. Seal(q).status = "submitted" /\ OpenWindow(q).status = "pending"
      BY DEF Approve, Seal, OpenWindow, Typed, Rows
    <2> HIDE DEF q
    <2> QED
      BY <2>1, <2>2 DEF OnSubmit, q
  <1> QED
    BY <1>1, <1>2, <1>3, <1>4, <1>5 DEF Settle, SealIfReleased

\* The requests that cast nothing and drop nothing keep the praxis there.
LEMMA OthersKeepTheRow ==
    ASSUME IInv, Exists, OtherRequest
    PROVE  Exists'
  <1> DEFINE p == Settle(praxis)
  <1>1. Typed(praxis) /\ praxis.status # "none"
    BY DEF IInv, Sound, Exists
  <1>2. Typed(p) /\ p.status # "none"
    BY <1>1, SettleSound, RowStays DEF IInv, Sound
  <1>3. ~(\E c \in Characters, t \in {"solo", "collab"} : Create(c, t))
    BY DEF Create
  <1>4. CASE Read
    BY <1>2, <1>4 DEF Read, Exists
  <1>5. ASSUME NEW c \in Characters, Submit(c) PROVE Exists'
    <2>1. Typed(OnSubmit(praxis, c)) /\ OnSubmit(praxis, c).status # "none"
      BY <1>1, <1>5, SubmitSound, RowStays DEF Submit, IInv, Sound
    <2> QED
      BY <1>5, <2>1, RowStays DEF Submit, Exists
  <1>6. ASSUME NEW c \in Characters, Unsubmit(c) PROVE Exists'
    BY <1>2, <1>6, RowStays DEF Unsubmit, Exists
  <1>7. ASSUME NEW c \in Characters, ChangeType(c) PROVE Exists'
    <2>1. [p EXCEPT !.type = "collab"].status = p.status
      BY <1>2 DEF Typed, Rows
    <2> QED
      BY <1>2, <1>7, <2>1, RowStays DEF ChangeType, Exists
  <1>8. ASSUME NEW c \in Characters, EditMedia(c) PROVE Exists'
    BY <1>2, <1>8, RowStays DEF EditMedia, Exists
  <1>9. ASSUME NEW c \in Characters, NEW d \in Characters, Invite(c, d)
        PROVE  Exists'
    BY <1>2, <1>9 DEF Invite, Exists, Typed, Rows
  <1>10. ASSUME NEW c \in Characters, NEW d \in Characters, DropInvite(c, d)
         PROVE  Exists'
    BY <1>1, <1>10 DEF DropInvite, Exists, Typed, Rows
  <1>11. ASSUME NEW c \in Characters, NEW d \in Characters, Kick(c, d)
         PROVE  Exists'
    BY <1>2, <1>11, WithoutRow, RowStays DEF Kick, OnMemberKicked, Exists
  <1>12. ASSUME NEW c \in Characters, Leave(c) PROVE Exists'
    <2> DEFINE w == Without(p, c)
               q == SealIfReleased(w)
    <2>1. Typed(w) /\ w.status # "none"
      BY <1>2, WithoutRow
    <2>2. Typed(q) /\ q.status # "none"
      <3> HIDE DEF w
      <3>1. Typed(Seal(w))
        BY <2>1, SealNarrows DEF Narrows, Typed, Seal, Rows
      <3> QED
        BY <2>1, <3>1, RowStays DEF SealIfReleased
    <2>3. praxis' = OnMemberLeave(w)
      BY <1>12 DEF Leave
    <2> HIDE DEF w, q
    <2> QED
      BY <2>2, <2>3, RowStays DEF OnMemberLeave, q, Exists
  <1>13. CASE DayPasses
    BY <1>1, <1>13 DEF DayPasses, Exists, Typed, Rows
  <1> QED
    BY <1>3, <1>4, <1>5, <1>6, <1>7, <1>8, <1>9, <1>10, <1>11, <1>12, <1>13
       DEF OtherRequest, CancelInvite

\* And none of them but a creation brings anybody in.
LEMMA OthersBringNobody ==
    ASSUME IInv, Exists, OtherRequest
    PROVE  praxis'.members \subseteq praxis.members
  <1>1. Typed(praxis) /\ praxis.creator \in Characters
    BY DEF IInv, Sound, Typed, Rows
  <1>2. ~(\E c \in Characters, t \in {"solo", "collab"} : Create(c, t))
    BY DEF Create
  <1>3. ASSUME NEW c \in Characters, Submit(c)
        PROVE  praxis'.members \subseteq praxis.members
    <2>1. Sound(OnSubmit(praxis, c))
      BY <1>3, SubmitSound DEF Submit, IInv, Sound, Exists
    <2> QED
      BY <1>1, <1>3, <2>1, SubmitAdds, SettleSound DEF Submit
  <1>4. CASE DayPasses
    BY <1>1, <1>4 DEF DayPasses, Typed, Rows
  <1> QED
    BY <1>1, <1>2, <1>3, <1>4, RequestsNarrow
       DEF OtherRequest, CancelInvite, Narrows

-----------------------------------------------------------------------------
(* The praxis is CollabPraxis's.                                           *)

\* A step of the votes is a step of the praxis or none of its own.
LEMMA StepIsAPraxisStep ==
    ASSUME [VoteNext]_voteVars
    PROVE  [Next]_vars
  BY DEF VoteNext, voteVars, vars, Next, BeginCast, CommitCast, RateElsewhere,
         Join, Drop, OtherRequest, NextEra, Recompute

\* The votes change nothing about the life of the praxis.
THEOREM VotesLeaveThePraxisAlone == VoteSpec => Spec
  <1>1. VoteInit => Init
    BY DEF VoteInit
  <1> QED
    BY <1>1, StepIsAPraxisStep, PTL DEF VoteSpec, Spec

-----------------------------------------------------------------------------
(* Types.                                                                  *)

\* A refund keeps the counters natural numbers.
LEMMA RefundTyped ==
    ASSUME VotesTypeOK, NEW c \in Characters
    PROVE  Refunded(VoteOf(c)) \in [Characters -> Nat]
  <1> DEFINE v == VoteOf(c)
  <1> SUFFICES Refunded(v) \in [Characters -> Nat]
    OBVIOUS
  <1>1. v \in VoteRows \cup {NoVote}
    BY AccountIs DEF VoteOf, VotesTypeOK
  <1> HIDE DEF v
  <1>2. CASE v # NoVote /\ v.thisEra /\ spent[v.voter] > 0
    <2>1. v.voter \in Characters
      BY <1>1, <1>2 DEF VoteRows
    <2>2. spent[v.voter] - 1 \in Nat
      BY <1>2, <2>1 DEF VotesTypeOK
    <2> QED
      BY <1>2, <2>1, <2>2 DEF Refunded, VotesTypeOK
  <1>3. CASE ~(v # NoVote /\ v.thisEra /\ spent[v.voter] > 0)
    BY <1>3 DEF Refunded, VotesTypeOK
  <1> QED
    BY <1>2, <1>3

\* The commit of a cast writes rows and counters of their types.
LEMMA CommitTyped ==
    ASSUME VotesTypeOK, CommitCast
    PROVE  VotesTypeOK'
  <1> DEFINE c == cast.voter
             A == Account(c)
  <1>1. /\ cast \in Casts
        /\ cast.voter \in Characters
        /\ cast.rerates \in BOOLEAN
        /\ cast.spent \in Nat
        /\ cast.thisEra \in BOOLEAN
    BY DEF CommitCast, VotesTypeOK, Casts
  <1>2. A \in Accounts
    BY <1>1, AccountIs
  <1>3. votes' \in [Accounts -> VoteRows \cup {NoVote}]
    <2>1. CASE votes' = votes
      BY <2>1 DEF VotesTypeOK
    <2>2. CASE /\ votes[A] # NoVote
               /\ votes' = [votes EXCEPT ![A].voter = c]
      <3>1. votes[A] \in VoteRows
        BY <1>2, <2>2 DEF VotesTypeOK
      <3>2. [votes[A] EXCEPT !.voter = c] \in VoteRows
        BY <1>1, <3>1 DEF VoteRows
      <3>3. votes' = [votes EXCEPT ![A] = [votes[A] EXCEPT !.voter = c]]
        BY <2>2
      <3> HIDE DEF A, c
      <3> QED
        BY <1>2, <3>2, <3>3 DEF VotesTypeOK
    <2>3. CASE votes' = [votes EXCEPT
                           ![A] = [voter |-> c, thisEra |-> cast.thisEra]]
      <3>1. [voter |-> c, thisEra |-> cast.thisEra] \in VoteRows
        BY <1>1 DEF VoteRows
      <3> HIDE DEF A, c
      <3> QED
        BY <1>2, <2>3, <3>1 DEF VotesTypeOK
    <2> QED
      BY <2>1, <2>2, <2>3 DEF CommitCast
  <1>4. spent' \in [Characters -> Nat]
    BY <1>1 DEF CommitCast, VotesTypeOK
  <1> QED
    BY <1>3, <1>4 DEF CommitCast, VotesTypeOK

\* Every step keeps the types, whatever overlaps.
LEMMA TypesStay ==
    ASSUME VotesTypeOK, [VoteNext]_voteVars
    PROVE  VotesTypeOK'
  <1>1. ASSUME NEW c \in Characters, BeginCast(c) PROVE VotesTypeOK'
    <2>1. cast' \in Casts
      BY <1>1 DEF BeginCast, VotesTypeOK, Casts
    <2> QED
      BY <1>1, <2>1 DEF BeginCast, VotesTypeOK
  <1>2. ASSUME NEW c \in Characters, RateElsewhere(c) PROVE VotesTypeOK'
    BY <1>2 DEF RateElsewhere, VotesTypeOK
  <1>3. ASSUME NEW c \in Characters, NEW d \in Characters, Join(c, d)
        PROVE  VotesTypeOK'
    BY <1>3, RefundTyped DEF Join, VotesTypeOK
  <1>4. ASSUME NEW c \in Characters, Drop(c) PROVE VotesTypeOK'
    BY <1>4 DEF Drop, VotesTypeOK
  <1>5. CASE OtherRequest
    BY <1>5 DEF OtherRequest, VotesTypeOK
  <1>6. CASE NextEra
    <2>1. ASSUME NEW A \in Accounts, votes[A] # NoVote
          PROVE  [votes[A] EXCEPT !.thisEra = FALSE] \in VoteRows
      <3>1. votes[A] \in VoteRows
        BY <2>1 DEF VotesTypeOK
      <3> QED
        BY <3>1 DEF VoteRows
    <2>2. votes' \in [Accounts -> VoteRows \cup {NoVote}]
      BY <1>6, <2>1 DEF NextEra
    <2>3. cast' \in Casts \cup {NoCast}
      <3>1. CASE cast = NoCast
        BY <1>6, <3>1 DEF NextEra
      <3>2. CASE cast # NoCast
        <4>1. cast \in Casts
          BY <3>2 DEF VotesTypeOK
        <4>2. [cast EXCEPT !.thisEra = FALSE] \in Casts
          BY <4>1 DEF Casts
        <4> QED
          BY <1>6, <3>2, <4>2 DEF NextEra
      <3> QED
        BY <3>1, <3>2
    <2> QED
      BY <1>6, <2>2, <2>3 DEF NextEra, VotesTypeOK
  <1>7. CASE Recompute
    <2>1. \A c \in Characters : RowsOf(c) \in Nat
      BY DEF RowsOf, VotesTypeOK
    <2> QED
      BY <1>7, <2>1 DEF Recompute, VotesTypeOK
  <1>8. CASE UNCHANGED voteVars
    BY <1>8 DEF voteVars, VotesTypeOK
  <1> QED
    BY <1>1, <1>2, <1>3, <1>4, <1>5, <1>6, <1>7, <1>8, CommitTyped DEF VoteNext

\* The rows and the counters stay in their domains: no counter is ever
\* negative, however casts, voids, rollovers and repairs overlap.
THEOREM VoteTypes == VoteSpec => []VotesTypeOK
  <1>1. VoteInit => VotesTypeOK
    BY DEF VoteInit, VotesTypeOK
  <1> QED
    BY <1>1, TypesStay, PTL DEF VoteSpec

-----------------------------------------------------------------------------
(* Nobody rates their own.                                                 *)

\* What makes it inductive: a dropped praxis has no votes, and who is in the
\* middle of a cast is no owner.
VoteInv ==
    /\ VotesTypeOK
    /\ NoOwnerRates
    /\ ~Exists => Uncast
    /\ cast # NoCast => Exists /\ ~Owns(cast.voter)

\* Removing votes, or crew, cannot make an owner a voter.
LEMMA FewerOfBoth ==
    ASSUME IInv, VoteInv, praxis'.members \subseteq praxis.members,
           \A A \in Accounts : votes[A] = NoVote => votes'[A] = NoVote
    PROVE  NoOwnerRates'
  <1>1. praxis.members \subseteq Characters
    BY DEF IInv, Sound, Typed, Rows
  <1> QED
    BY <1>1, AccountIs DEF NoOwnerRates, VoteInv

\* The commit of a cast gives a vote to an account outside the crew.
LEMMA CommitByAStranger ==
    ASSUME IInv, VoteInv, CommitCast
    PROVE  NoOwnerRates'
  <1> DEFINE c == cast.voter
  <1>1. c \in Characters /\ ~Owns(c)
    BY DEF CommitCast, VoteInv, VotesTypeOK, Casts
  <1>2. praxis.members \subseteq Characters
    BY DEF IInv, Sound, Typed, Rows
  <1>3. ASSUME NEW m \in praxis.members
        PROVE  votes'[Account(m)] = votes[Account(m)]
    <2>1. Account(m) # Account(c)
      BY <1>1, <1>2, AccountIs DEF Owns
    <2>2. \A A \in Accounts : A # Account(c) => votes'[A] = votes[A]
      BY DEF CommitCast, VoteInv, VotesTypeOK
    <2> QED
      BY <1>2, <2>1, <2>2, AccountIs
  <1> QED
    BY <1>3 DEF NoOwnerRates, VoteInv, CommitCast

\* Whoever joins leaves their account's vote at the door.
LEMMA JoinersGiveUpTheirVote ==
    ASSUME IInv, VoteInv, NEW c \in Characters, NEW d \in Characters, Join(c, d)
    PROVE  NoOwnerRates' /\ (Exists' <=> Exists) /\ (Uncast => Uncast')
  <1>1. /\ praxis'.members = praxis.members \cup {d}
        /\ praxis'.status = praxis.status
    BY DEF Join, AcceptInvite, IInv, Sound, Typed, Rows
  <1>2. praxis.members \subseteq Characters
    BY DEF IInv, Sound, Typed, Rows
  <1>3. /\ votes'[Account(d)] = NoVote
        /\ \A A \in Accounts : votes[A] = NoVote => votes'[A] = NoVote
    BY AccountIs DEF Join, VoteOf, VoteInv, VotesTypeOK
  <1> QED
    BY <1>1, <1>2, <1>3, AccountIs
       DEF NoOwnerRates, VoteInv, Exists, Uncast

\* Every step of requests that come one at a time keeps the strengthening.
LEMMA VoteInvStays ==
    ASSUME OneAtATime, IInv, VoteInv, [VoteNext]_voteVars
    PROVE  VoteInv'
  <1>1. VotesTypeOK'
    BY TypesStay DEF VoteInv
  <1>2. ASSUME NEW c \in Characters, BeginCast(c) PROVE VoteInv'
    BY <1>1, <1>2
       DEF BeginCast, VoteInv, NoOwnerRates, Exists, Uncast, Owns
  <1>3. CASE CommitCast
    BY <1>1, <1>3, CommitByAStranger DEF VoteInv, CommitCast, Exists
  <1>4. ASSUME NEW c \in Characters, RateElsewhere(c) PROVE VoteInv'
    BY <1>1, <1>4
       DEF RateElsewhere, VoteInv, NoOwnerRates, Exists, Uncast, Owns
  <1>5. ASSUME NEW c \in Characters, NEW d \in Characters, Join(c, d)
        PROVE  VoteInv'
    BY <1>1, <1>5, JoinersGiveUpTheirVote DEF VoteInv, Join, Quiet
  <1>6. ASSUME NEW c \in Characters, Drop(c) PROVE VoteInv'
    <2>1. ~Exists' /\ praxis'.members = {}
      BY <1>6, SettleSound
         DEF Drop, Delete, DroppedRow, Exists, IInv, Sound, Typed, Rows
    <2> QED
      BY <1>1, <1>6, <2>1 DEF Drop, VoteInv, NoOwnerRates, Uncast
  <1>7. CASE OtherRequest
    <2>1. cast' = NoCast /\ votes' = votes
      BY <1>7 DEF OtherRequest, Quiet
    <2>2. CASE Exists
      BY <1>1, <1>7, <2>1, <2>2, OthersKeepTheRow, OthersBringNobody,
         FewerOfBoth DEF VoteInv
    <2>3. CASE ~Exists
      <3>1. Uncast'
        BY <2>1, <2>3 DEF VoteInv, Uncast
      <3>2. praxis'.members \subseteq Characters
        BY StepSound, StepIsAPraxisStep DEF IInv, Sound, Typed, Rows
      <3> QED
        BY <1>1, <2>1, <3>1, <3>2, AccountIs DEF VoteInv, NoOwnerRates, Uncast
    <2> QED
      BY <2>2, <2>3
  <1>8. CASE NextEra
    <2>1. praxis' = praxis /\ cast' = NoCast
      BY <1>8 DEF NextEra, Quiet
    <2>2. \A A \in Accounts : votes[A] = NoVote => votes'[A] = NoVote
      BY <1>8 DEF NextEra
    <2>3. praxis.members \subseteq Characters
      BY DEF IInv, Sound, Typed, Rows
    <2> QED
      BY <1>1, <2>1, <2>2, <2>3, AccountIs
         DEF VoteInv, NoOwnerRates, Exists, Uncast
  <1>9. CASE Recompute
    BY <1>1, <1>9
       DEF Recompute, VoteInv, NoOwnerRates, Exists, Uncast, Owns
  <1>10. CASE UNCHANGED voteVars
    BY <1>1, <1>10
       DEF voteVars, VoteInv, NoOwnerRates, Exists, Uncast, Owns
  <1> QED
    BY <1>2, <1>3, <1>4, <1>5, <1>6, <1>7, <1>8, <1>9, <1>10 DEF VoteNext

\* As long as no request commits inside a cast, no co-owner ever holds a vote
\* on their own praxis, in whatever order votes, invitations, departures,
\* takeovers, drops and eras come, and however many lives an account has.
THEOREM NobodyRatesTheirOwn ==
    ASSUME OneAtATime
    PROVE  VoteSpec => []NoOwnerRates
  <1>1. VoteInit => VoteInv
    <2>1. VoteInit => VotesTypeOK
      BY DEF VoteInit, VotesTypeOK
    <2>2. VoteInit => Uncast /\ cast = NoCast
      BY DEF VoteInit, Uncast
    <2>3. VoteInit => NoOwnerRates
      <3>1. VoteInit => praxis.members \subseteq Characters
        BY DEF VoteInit, Init, NewRow
      <3> QED
        BY <2>2, <3>1, AccountIs DEF NoOwnerRates, Uncast
    <2> QED
      BY <2>1, <2>2, <2>3 DEF VoteInv
  <1>2. VoteSpec => []IInv
    BY VotesLeaveThePraxisAlone, Invariance, PTL
  <1>3. ASSUME IInv, VoteInv, [VoteNext]_voteVars
        PROVE  VoteInv'
    BY <1>3, VoteInvStays
  <1>4. VoteInv => NoOwnerRates
    BY DEF VoteInv
  <1> QED
    BY <1>1, <1>2, <1>3, <1>4, PTL DEF VoteSpec

-----------------------------------------------------------------------------
(* Every vote is paid for.                                                 *)

Weighs(v) == IF v # NoVote /\ v.thisEra THEN 1 ELSE 0

\* What an account's votes cost is covered by what its lives spent.
Covered(e, v, s, A) ==
    SumFunctionOnSet(e, A) + Weighs(v) <= SumFunctionOnSet(s, A)

\* The strengthening: a row names a life of its account, and a cast's reads
\* still hold.
PaidInv ==
    /\ \A A \in Accounts : votes[A] # NoVote => votes[A].voter \in A
    /\ cast # NoCast =>
         /\ cast.spent = spent[cast.voter]
         /\ cast.thisEra
         /\ cast.rerates <=> votes[Account(cast.voter)] # NoVote
    /\ \A A \in Accounts : Covered(elsewhere, votes[A], spent, A)

\* The sums of an account are numbers.
LEMMA SumsAreNumbers ==
    ASSUME NEW A \in Accounts, NEW f, f \in [Characters -> Nat]
    PROVE  SumFunctionOnSet(f, A) \in Int
  <1>1. A \subseteq Characters /\ IsFiniteSet(A)
    BY AccountsAssumption
  <1>2. \A x \in A : f[x] \in Int /\ f[x] = f[x]
    BY <1>1
  <1> QED
    BY <1>1, <1>2, SumsAgree

LEMMA TheirSumsAreNumbers ==
    ASSUME VotesTypeOK, NEW A \in Accounts
    PROVE  /\ SumFunctionOnSet(spent, A) \in Int
           /\ SumFunctionOnSet(elsewhere, A) \in Int
  <1>1. PICK s, e : s = spent /\ e = elsewhere
    OBVIOUS
  <1>2. s \in [Characters -> Nat] /\ e \in [Characters -> Nat]
    BY <1>1 DEF VotesTypeOK
  <1>3. SumFunctionOnSet(s, A) \in Int /\ SumFunctionOnSet(e, A) \in Int
    BY <1>2, SumsAreNumbers
  <1> QED
    BY <1>1, <1>3

Moves(f, g, c, k) == g = [f EXCEPT ![c] = f[c] + k]

\* A change to one life's counter moves the sum of its account alone.
LEMMA OneCounterMoves ==
    ASSUME NEW A \in Accounts, NEW c \in Characters, NEW k, k \in Int,
           NEW f, f \in [Characters -> Nat],
           NEW g, Moves(f, g, c, k)
    PROVE  SumFunctionOnSet(g, A)
             = SumFunctionOnSet(f, A) + (IF c \in A THEN k ELSE 0)
  <1>1. A \subseteq Characters /\ IsFiniteSet(A)
    BY AccountsAssumption
  <1>2. \A x \in A : f[x] \in Int /\ g[x] = f[x] + (IF x = c THEN k ELSE 0)
    BY <1>1 DEF Moves
  <1> QED
    BY <1>1, <1>2, SumShifts

LEMMA SpentMoves ==
    ASSUME VotesTypeOK, NEW A \in Accounts, NEW c \in Characters, NEW k \in Int,
           Moves(spent, spent', c, k)
    PROVE  SumFunctionOnSet(spent', A)
             = SumFunctionOnSet(spent, A) + (IF c \in A THEN k ELSE 0)
  <1>1. A \subseteq Characters /\ IsFiniteSet(A)
    BY AccountsAssumption
  <1>2. PICK f, g : f = spent /\ g = spent'
    OBVIOUS
  <1>3. \A x \in A : f[x] \in Int /\ g[x] = f[x] + (IF x = c THEN k ELSE 0)
    BY <1>1, <1>2 DEF VotesTypeOK, Moves
  <1>4. SumFunctionOnSet(g, A) = SumFunctionOnSet(f, A) + (IF c \in A THEN k ELSE 0)
    BY <1>1, <1>3, SumShifts
  <1> QED
    BY <1>2, <1>4

\* The account a life is in is the only one.
LEMMA InOneAccount ==
    ASSUME NEW A \in Accounts, NEW c \in Characters
    PROVE  c \in A <=> A = Account(c)
  BY AccountIs, AccountsAssumption

\* A cast's commit charges its caster for the row it adds.
LEMMA CommitPays ==
    ASSUME VotesTypeOK, PaidInv, CommitCast
    PROVE  PaidInv'
  <1> DEFINE c == cast.voter
  <1>1. /\ c \in Characters
        /\ cast.rerates \in BOOLEAN
        /\ cast.spent \in Nat
        /\ cast.thisEra
    BY DEF CommitCast, VotesTypeOK, Casts, PaidInv
  <1>2. Account(c) \in Accounts /\ c \in Account(c)
    BY <1>1, AccountIs
  <1>3. cast' = NoCast /\ elsewhere' = elsewhere
    BY DEF CommitCast
  <1>4. ASSUME NEW A \in Accounts, A # Account(c)
        PROVE  votes'[A] = votes[A]
    BY <1>4 DEF CommitCast, VotesTypeOK
  <1>5. CASE cast.rerates
    <2>1. votes[Account(c)] # NoVote /\ spent' = spent
      BY <1>5 DEF CommitCast, PaidInv
    <2>2. PICK r : r = votes[Account(c)]
      OBVIOUS
    <2>3. PICK n : n = [r EXCEPT !.voter = c]
      OBVIOUS
    <2>4. votes'[Account(c)] = n
      BY <1>1, <1>2, <1>5, <2>1, <2>2, <2>3 DEF CommitCast, PaidInv, VotesTypeOK
    <2>5. r \in VoteRows
      BY <1>2, <2>1, <2>2 DEF VotesTypeOK
    <2>6. n.voter = c /\ n.thisEra = r.thisEra /\ n \in VoteRows
      BY <1>1, <2>3, <2>5 DEF VoteRows
    <2>7. n # NoVote
      BY <2>6 DEF VoteRows, NoVote
    <2>8. Weighs(n) = Weighs(r)
      BY <2>1, <2>2, <2>6, <2>7 DEF Weighs
    <2>9. \A A \in Accounts : Weighs(votes'[A]) = Weighs(votes[A])
      BY <1>4, <2>2, <2>4, <2>8
    <2> QED
      BY <1>2, <1>3, <1>4, <2>1, <2>4, <2>6, <2>9 DEF PaidInv, Covered
  <1>6. CASE ~cast.rerates
    <2> DEFINE n == [voter |-> c, thisEra |-> TRUE]
    <2>1. /\ votes[Account(c)] = NoVote
          /\ votes' = [votes EXCEPT ![Account(c)] =
                         [voter |-> c, thisEra |-> cast.thisEra]]
          /\ spent' = [spent EXCEPT ![c] = spent[c] + 1]
      BY <1>1, <1>6 DEF CommitCast, PaidInv
    <2>2. votes'[Account(c)] = [voter |-> c, thisEra |-> cast.thisEra]
      BY <1>2, <2>1 DEF VotesTypeOK
    <2>3. /\ votes'[Account(c)].voter = c
          /\ Weighs(votes'[Account(c)]) <= 1
          /\ Weighs(votes'[Account(c)]) \in Nat
      BY <2>2 DEF Weighs
    <2>4. Weighs(votes[Account(c)]) = 0
      BY <2>1 DEF Weighs
    <2>5. \A A \in Accounts :
            /\ SumFunctionOnSet(spent, A) \in Int
            /\ SumFunctionOnSet(elsewhere, A) \in Int
            /\ SumFunctionOnSet(spent', A)
                 = SumFunctionOnSet(spent, A) + (IF c \in A THEN 1 ELSE 0)
      BY <1>1, <2>1, SpentMoves, TheirSumsAreNumbers, 1 \in Int DEF Moves
    <2>6. ASSUME NEW A \in Accounts
          PROVE  Covered(elsewhere, votes'[A], spent', A)
      <3>1. Covered(elsewhere, votes[A], spent, A)
        BY DEF PaidInv
      <3>2. CASE A = Account(c)
        BY <1>2, <2>3, <2>4, <2>5, <3>1, <3>2 DEF Covered
      <3>3. CASE A # Account(c)
        <4>1. c \notin A
          BY <1>1, <3>3, InOneAccount
        <4> QED
          BY <1>4, <2>5, <3>1, <3>3, <4>1 DEF Covered
      <3> QED
        BY <3>2, <3>3
    <2> QED
      BY <1>2, <1>3, <1>4, <2>3, <2>6 DEF PaidInv
  <1> QED
    BY <1>1, <1>5, <1>6

\* A charge is given back with its vote.
LEMMA JoinRefunds ==
    ASSUME OneAtATime, VotesTypeOK, PaidInv,
           NEW c \in Characters, NEW d \in Characters, Join(c, d)
    PROVE  PaidInv'
  <1>1. PICK v : v = VoteOf(d)
    OBVIOUS
  <1>2. Account(d) \in Accounts /\ v = votes[Account(d)]
    BY <1>1, AccountIs DEF VoteOf
  <1>3. v \in VoteRows \cup {NoVote} /\ (v # NoVote => v.voter \in Account(d))
    BY <1>2 DEF VotesTypeOK, PaidInv
  <1>4. /\ elsewhere' = elsewhere /\ cast' = NoCast
        /\ votes'[Account(d)] = NoVote
        /\ \A A \in Accounts : A # Account(d) => votes'[A] = votes[A]
    BY <1>1, <1>2 DEF Join, Quiet, VotesTypeOK
  <1>5. \A A \in Accounts : SumFunctionOnSet(elsewhere, A) \in Int
    BY TheirSumsAreNumbers
  <1>6. Weighs(NoVote) = 0
    BY DEF Weighs
  <1>7. ASSUME NEW A \in Accounts
        PROVE  Covered(elsewhere, votes'[A], spent', A)
    <2>1. Covered(elsewhere, votes[A], spent, A)
      BY DEF PaidInv
    <2>2. SumFunctionOnSet(spent, A) \in Int
      BY TheirSumsAreNumbers
    <2>3. CASE v # NoVote /\ v.thisEra /\ spent[v.voter] > 0
      <3>1. v.voter \in Characters
        BY <1>3, <2>3 DEF VoteRows
      <3>2. spent' = [spent EXCEPT ![v.voter] = spent[v.voter] + (-1)]
        <4>1. spent' = [spent EXCEPT ![v.voter] = spent[v.voter] - 1]
          BY <1>1, <2>3 DEF Join, Refunded
        <4>2. spent[v.voter] - 1 = spent[v.voter] + (-1)
          BY <3>1 DEF VotesTypeOK
        <4> QED
          BY <4>1, <4>2
      <3>3. SumFunctionOnSet(spent', A)
              = SumFunctionOnSet(spent, A) + (IF v.voter \in A THEN -1 ELSE 0)
        BY <3>1, <3>2, SpentMoves, -1 \in Int DEF Moves
      <3>4. Weighs(v) = 1
        BY <2>3 DEF Weighs
      <3>5. CASE A = Account(d)
        BY <1>2, <1>3, <1>4, <1>5, <1>6, <2>1, <2>2, <2>3, <3>3, <3>4, <3>5
           DEF Covered
      <3>6. CASE A # Account(d)
        <4>1. v.voter \notin A
          BY <1>2, <1>3, <2>3, <3>6, AccountsAssumption
        <4> QED
          BY <1>4, <2>1, <2>2, <3>3, <3>6, <4>1 DEF Covered
      <3> QED
        BY <3>5, <3>6
    <2>4. CASE ~(v # NoVote /\ v.thisEra /\ spent[v.voter] > 0)
      <3>1. spent' = spent
        BY <1>1, <2>4 DEF Join, Refunded
      <3>2. Weighs(votes[A]) \in {0, 1}
        BY DEF Weighs
      <3>3. CASE A = Account(d)
        BY <1>4, <1>5, <1>6, <2>1, <2>2, <3>1, <3>2, <3>3 DEF Covered
      <3>4. CASE A # Account(d)
        BY <1>4, <2>1, <3>1, <3>4 DEF Covered
      <3> QED
        BY <3>3, <3>4
    <2> QED
      BY <2>3, <2>4
  <1> QED
    BY <1>4, <1>7 DEF PaidInv

\* The operator's rebuild charges each life for the rows that stand.
LEMMA RebuildPays ==
    ASSUME OneAtATime, VotesTypeOK, PaidInv, Recompute
    PROVE  PaidInv'
  <1>1. cast = NoCast /\ cast' = NoCast /\ votes' = votes /\ elsewhere' = elsewhere
    BY DEF Recompute, Quiet
  <1>2. ASSUME NEW A \in Accounts
        PROVE  Covered(elsewhere, votes[A], spent', A)
    <2>1. A \subseteq Characters /\ IsFiniteSet(A)
      BY AccountsAssumption
    <2>2. PICK v : v = votes[A]
      OBVIOUS
    <2>3. v # NoVote => v.voter \in A
      BY <2>2 DEF PaidInv
    <2>4. \A x \in A : Account(x) = A
      BY <2>1, InOneAccount
    <2>5. \A x \in A :
            spent'[x] = elsewhere[x]
                        + (IF v # NoVote /\ v.voter = x /\ v.thisEra
                           THEN 1 ELSE 0)
      BY <2>1, <2>2, <2>4 DEF Recompute, RowsOf
    <2>6. \A x \in A : elsewhere[x] \in Int
      BY <2>1 DEF VotesTypeOK
    <2>7. CASE v # NoVote /\ v.thisEra
      <3>1. PICK e, f, c : e = elsewhere /\ f = spent' /\ c = v.voter
        OBVIOUS
      <3>2. \A x \in A : e[x] \in Int /\ f[x] = e[x] + (IF x = c THEN 1 ELSE 0)
        BY <2>5, <2>6, <2>7, <3>1
      <3>3. /\ SumFunctionOnSet(e, A) \in Int
            /\ SumFunctionOnSet(f, A)
                 = SumFunctionOnSet(e, A) + (IF c \in A THEN 1 ELSE 0)
        BY <2>1, <3>2, SumShifts, 1 \in Int
      <3>4. Weighs(votes[A]) = 1 /\ c \in A
        BY <2>2, <2>3, <2>7, <3>1 DEF Weighs
      <3> QED
        BY <3>1, <3>3, <3>4 DEF Covered
    <2>8. CASE ~(v # NoVote /\ v.thisEra)
      <3>1. \A x \in A : elsewhere[x] \in Int /\ spent'[x] = elsewhere[x]
        BY <2>5, <2>6, <2>8
      <3>2. /\ SumFunctionOnSet(elsewhere, A) \in Int
            /\ SumFunctionOnSet(spent', A) = SumFunctionOnSet(elsewhere, A)
        BY <2>1, <3>1, SumsAgree
      <3> QED
        BY <2>2, <2>8, <3>2 DEF Covered, Weighs
    <2> QED
      BY <2>7, <2>8
  <1> QED
    BY <1>1, <1>2 DEF PaidInv

\* A vote on some other praxis is charged as it is cast.
LEMMA ElsewherePays ==
    ASSUME OneAtATime, VotesTypeOK, PaidInv, NEW c \in Characters, RateElsewhere(c)
    PROVE  PaidInv'
  <1>1. /\ cast = NoCast /\ cast' = NoCast /\ votes' = votes
        /\ spent' = [spent EXCEPT ![c] = spent[c] + 1]
        /\ elsewhere' = [elsewhere EXCEPT ![c] = elsewhere[c] + 1]
    BY DEF RateElsewhere, Quiet
  <1>2. ASSUME NEW A \in Accounts
        PROVE  Covered(elsewhere', votes[A], spent', A)
    <2>1. SumFunctionOnSet(spent', A)
            = SumFunctionOnSet(spent, A) + (IF c \in A THEN 1 ELSE 0)
      BY <1>1, SpentMoves, 1 \in Int DEF Moves
    <2>2. PICK e, f : e = elsewhere /\ f = elsewhere'
      OBVIOUS
    <2>3. e \in [Characters -> Nat] /\ Moves(e, f, c, 1)
      BY <1>1, <2>2 DEF VotesTypeOK, Moves
    <2>4. SumFunctionOnSet(f, A) = SumFunctionOnSet(e, A) + (IF c \in A THEN 1 ELSE 0)
      BY <2>3, OneCounterMoves, 1 \in Int
    <2>5. Weighs(votes[A]) \in Int
      BY DEF Weighs
    <2> QED
      BY <2>1, <2>2, <2>4, <2>5, TheirSumsAreNumbers DEF PaidInv, Covered
  <1> QED
    BY <1>1, <1>2 DEF PaidInv

\* A new era starts every life and every account at nothing.
LEMMA NewEraOwesNothing ==
    ASSUME OneAtATime, VotesTypeOK, PaidInv, NextEra
    PROVE  PaidInv'
  <1>1. cast' = NoCast /\ spent' = elsewhere'
    BY DEF NextEra, Quiet
  <1>2. ASSUME NEW A \in Accounts
        PROVE  /\ votes'[A] # NoVote => votes'[A].voter \in A
               /\ Weighs(votes'[A]) = 0
    <2>1. PICK v : v = votes[A]
      OBVIOUS
    <2>2. votes'[A] = IF v = NoVote THEN NoVote ELSE [v EXCEPT !.thisEra = FALSE]
      BY <2>1 DEF NextEra
    <2>3. v \in VoteRows \cup {NoVote} /\ (v # NoVote => v.voter \in A)
      BY <2>1 DEF VotesTypeOK, PaidInv
    <2>4. CASE v # NoVote
      BY <2>2, <2>3, <2>4 DEF VoteRows, Weighs
    <2>5. CASE v = NoVote
      BY <2>2, <2>5 DEF Weighs
    <2> QED
      BY <2>4, <2>5
  <1>3. \A A \in Accounts : SumFunctionOnSet(elsewhere', A) \in Int
    <2>1. PICK e : e = elsewhere'
      OBVIOUS
    <2>2. e \in [Characters -> Nat]
      BY <2>1 DEF NextEra
    <2> QED
      BY <2>1, <2>2, SumsAreNumbers
  <1> QED
    BY <1>1, <1>2, <1>3 DEF PaidInv, Covered

\* Every step of requests that come one at a time keeps the strengthening.
LEMMA PaidInvStays ==
    ASSUME OneAtATime, VotesTypeOK, PaidInv, [VoteNext]_voteVars
    PROVE  PaidInv'
  <1>1. ASSUME NEW c \in Characters, BeginCast(c) PROVE PaidInv'
    <2>1. cast' # NoCast => /\ cast'.voter = c /\ cast'.spent = spent[c]
                            /\ cast'.thisEra
                            /\ cast'.rerates <=> votes[Account(c)] # NoVote
      BY <1>1 DEF BeginCast
    <2> QED
      BY <1>1, <2>1 DEF BeginCast, PaidInv
  <1>2. ASSUME NEW c \in Characters, Drop(c) PROVE PaidInv'
    <2>1. /\ cast' = NoCast /\ spent' = spent /\ elsewhere' = elsewhere
          /\ \A A \in Accounts : votes'[A] = NoVote
      BY <1>2 DEF Drop
    <2>2. \A A \in Accounts : /\ SumFunctionOnSet(elsewhere, A) \in Int
                               /\ SumFunctionOnSet(spent, A) \in Int
      BY TheirSumsAreNumbers
    <2>3. \A A \in Accounts : Weighs(votes[A]) \in {0, 1}
      BY DEF Weighs
    <2>4. Weighs(NoVote) = 0
      BY DEF Weighs
    <2> QED
      BY <2>1, <2>2, <2>3, <2>4 DEF PaidInv, Covered
  <1>3. CASE OtherRequest
    BY <1>3 DEF OtherRequest, PaidInv
  <1>4. CASE UNCHANGED voteVars
    BY <1>4 DEF voteVars, PaidInv
  <1> QED
    BY <1>1, <1>2, <1>3, <1>4, CommitPays, JoinRefunds, RebuildPays,
       ElsewherePays, NewEraOwesNothing DEF VoteNext

\* As long as no request commits inside a cast, every vote of the era has been
\* paid for by some life of its account: no sequence of re-rates, joins, drops,
\* rollovers and repairs, by any number of lives on any accounts, earns a vote
\* for nothing.
THEOREM NoVoteIsFree ==
    ASSUME OneAtATime
    PROVE  VoteSpec => []EveryVoteIsPaidFor
  <1>1. VoteInit => VotesTypeOK
    BY DEF VoteInit, VotesTypeOK
  <1>2. VoteInit => PaidInv
    <2>1. ASSUME VoteInit, NEW A \in Accounts
          PROVE  Covered(elsewhere, votes[A], spent, A)
      <3>1. SumFunctionOnSet(elsewhere, A) \in Int /\ spent = elsewhere
        BY <1>1, <2>1, TheirSumsAreNumbers DEF VoteInit
      <3>2. Weighs(votes[A]) = 0
        BY <2>1 DEF VoteInit, Weighs
      <3> QED
        BY <3>1, <3>2 DEF Covered
    <2>2. VoteInit => cast = NoCast /\ \A A \in Accounts : votes[A] = NoVote
      BY DEF VoteInit
    <2> QED
      BY <2>1, <2>2 DEF PaidInv
  <1>3. ASSUME VotesTypeOK, PaidInv, [VoteNext]_voteVars
        PROVE  PaidInv'
    BY <1>3, PaidInvStays
  <1>4. PaidInv => EveryVoteIsPaidFor
    BY DEF PaidInv, Covered, Weighs, EveryVoteIsPaidFor
  <1> QED
    BY <1>1, <1>2, <1>3, <1>4, VoteTypes, PTL DEF VoteSpec
=============================================================================
