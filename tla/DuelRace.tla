------------------------------ MODULE DuelRace ------------------------------
(***************************************************************************)
(* The requests that move a duel between its states, when they overlap     *)
(* (services/duel.py, praxis_duel.py, praxis.py's submit and unsubmit,     *)
(* era.py's freeze).                                                       *)
(*                                                                         *)
(* As in ConsensusRace a request is two steps, its last read of the rows   *)
(* and its commit, and writes only the columns it changed: the Duel row is *)
(* read without a lock by every one of them.  Each side's praxis is written *)
(* by that side's requests alone.                                          *)
(***************************************************************************)
EXTENDS Integers, FiniteSets

CONSTANTS
    Requests,   \* which of "accept", "decline", "cancel", "submit",
                \* "unsubmit" and "close" are in play
    MaxOpen     \* how many of them may be open at once, at least one

Sides == {"challenger", "opponent"}
Nobody == "nobody"
Other(s) == IF s = "challenger" THEN "opponent" ELSE "challenger"

Agents == Sides \cup {"era"}

VARIABLES
    rows,   \* committed: each side's Praxis.status, and the Duel row
    tx      \* the open request of each side, and the era rollover

raceVars == <<rows, tx>>

Rows ==
    [challenger : {"in_progress", "submitted"},
     opponent   : {"none", "in_progress", "submitted"},
     duel       : {"pending", "active", "settled", "declined", "resolved"},
     forfeited  : Sides \cup {Nobody}]

Idle == [does |-> "nothing"]
Open == {s \in Agents : tx[s] # Idle}
Quiet == Open = {}

BothSubmitted(r) == \A s \in Sides : r[s] = "submitted"

-----------------------------------------------------------------------------
Begin(s, does, outcome) ==
    /\ does \in Requests
    /\ tx[s] = Idle
    /\ Cardinality(Open) < MaxOpen
    /\ tx' = [tx EXCEPT ![s] = [does |-> does, was |-> rows, now |-> outcome]]
    /\ UNCHANGED rows

\* respond_to_duel_challenge
BeginAccept ==
    /\ rows.duel = "pending"
    /\ Begin("opponent", "accept",
             [rows EXCEPT !.opponent = "in_progress", !.duel = "active"])

BeginDecline ==
    /\ rows.duel = "pending"
    /\ Begin("opponent", "decline", [rows EXCEPT !.duel = "declined"])

\* cancel_duel_challenge
BeginCancel(s) ==
    /\ rows.duel \in {"pending", "active"}
    /\ Begin(s, "cancel", [rows EXCEPT !.duel = "declined"])

\* submit_praxis, up to maybe_settle_duel's look at the other side's praxis.
BeginSubmit(s) ==
    /\ rows[s] # "none"
    /\ LET r == [rows EXCEPT ![s] = "submitted"]
       IN  Begin(s, "submit",
                 IF r.duel = "active" /\ BothSubmitted(r)
                 THEN [r EXCEPT !.duel = "settled"] ELSE r)

\* unsubmit_praxis: the first to leave a settled contest forfeits it.
BeginUnsubmit(s) ==
    /\ rows[s] = "submitted"
    /\ LET r == [rows EXCEPT ![s] = "in_progress"]
       IN  Begin(s, "unsubmit",
                 IF r.duel = "settled" /\ r.forfeited = Nobody
                 THEN [r EXCEPT !.forfeited = s] ELSE r)

\* resolve_duels_at_era_close, in the one transaction of the rollover.
BeginClose ==
    /\ rows.duel \in {"active", "settled"}
    /\ Begin("era", "close", [rows EXCEPT !.duel = "resolved"])

\* A column the request left as it loaded it is not written.
Commit(s) ==
    /\ tx[s] # Idle
    /\ rows' = [f \in DOMAIN rows |->
                  IF tx[s].now[f] = tx[s].was[f] THEN rows[f] ELSE tx[s].now[f]]
    /\ tx' = [tx EXCEPT ![s] = Idle]

-----------------------------------------------------------------------------
\* A challenge just issued: its praxis is in progress, the other not created.
Init ==
    /\ rows = [challenger |-> "in_progress", opponent |-> "none",
               duel |-> "pending", forfeited |-> Nobody]
    /\ tx = [s \in Agents |-> Idle]

Next ==
    \/ BeginAccept
    \/ BeginDecline
    \/ \E s \in Sides : BeginCancel(s)
    \/ \E s \in Sides : BeginSubmit(s)
    \/ \E s \in Sides : BeginUnsubmit(s)
    \/ BeginClose
    \/ \E s \in Agents : Commit(s)

Spec == Init /\ [][Next]_raceVars
-----------------------------------------------------------------------------
\* A settled duel has both praxes submitted unless a forfeit says who left: one
\* at a time, no request leaves a votable contest short of a side without a
\* record of it (maybe_settle_duel, unsubmit_praxis).
SettledHasBoth ==
    Quiet /\ rows.duel = "settled" /\ rows.forfeited = Nobody => BothSubmitted(rows)

-----------------------------------------------------------------------------
(* What the documents say.  With MaxOpen = 1 every line of it holds, and   *)
(* overlapping requests break each (README, "Disagreements").              *)

\* "settled: both praxes submitted; voting is open" (models/duel.py): an active
\* duel is one whose sides have not both submitted.
BothSubmittedIsSettled ==
    Quiet /\ BothSubmitted(rows) => rows.duel # "active"

\* "pending -> declined (terminal)" (models/duel.py), "nothing transitions out
\* of it" (praxis_duel).
DeclinedIsTerminal ==
    [][rows.duel = "declined" => rows'.duel = "declined"]_raceVars

\* Only a pending or an active duel may be ended ("Duel has already been
\* resolved", cancel_duel_challenge): no request dissolves a votable contest.
VotableIsNotDissolved ==
    [][rows.duel = "settled" => rows'.duel \in {"settled", "resolved"}]_raceVars

\* "the first forfeit is the record" (forfeit_settled_duels_for_character).
FirstForfeitIsTheRecord ==
    [][rows.forfeited # Nobody => rows'.forfeited = rows.forfeited]_raceVars
=============================================================================
