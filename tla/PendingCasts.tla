---------------------------- MODULE PendingCasts ----------------------------
(***************************************************************************)
(* Rating a praxis in one browser tab: the store of chosen stars           *)
(* (components/vote/pendingCasts.ts), the tallies the server answered with *)
(* (utils/castTallies.ts) and the POST between them and the server.        *)
(*                                                                         *)
(* A star is shown at once.  It is sent at once too, unless it is a change *)
(* of mind (chosen within two seconds of the last choice, or while a       *)
(* request is out): then the latest one goes when the two seconds are      *)
(* over.  Time is two events per praxis: its window shuts, and after that  *)
(* the timer of its held choice fires.                                     *)
(*                                                                         *)
(* A tally is a count of the changes made to the praxis's votes (rev) and  *)
(* the viewer's own star among them: all that the properties tell apart.   *)
(***************************************************************************)
EXTENDS Naturals, Sequences, FiniteSets

CONSTANTS
    Praxes,         \* the praxes the viewer can vote on in this tab
    Stars,          \* the stars of the control
    MaxChoices      \* the viewer chooses so often

ASSUME StarsAssumption == Stars \subseteq Nat \ {0}
ASSUME CastBoundsAssumption == MaxChoices \in Nat

VARIABLES
    server,     \* each praxis's votes: how often they changed, the viewer's own
    store,      \* each praxis's entry in casts, windowShuts, followUps, inFlight
    wire,       \* each praxis's requests that the client awaits
    tallies,    \* the tally the last accepted cast returned, until a read clears it
    clock,      \* castTallies' clock
    wanted,     \* history: the star the viewer chose last
    lost,       \* history: the praxes whose last vote landed and was never answered
    choices     \* how many choices were made, for the bound

castVars == <<server, store, wire, tallies, clock, wanted, lost, choices>>

NoStar == 0
AnyStar == Stars \cup {NoStar}
Tally == [rev : Nat, mine : AnyStar]
NoTally == [rev |-> 0, mine |-> NoStar, at |-> 0]

Entry == [value : AnyStar, settled : AnyStar, failed : BOOLEAN, saving : BOOLEAN,
          dirty : BOOLEAN, windowOpen : BOOLEAN, followUp : BOOLEAN, inFlight : AnyStar]

NoEntry == [value |-> NoStar, settled |-> NoStar, failed |-> FALSE, saving |-> FALSE,
            dirty |-> FALSE, windowOpen |-> FALSE, followUp |-> FALSE, inFlight |-> NoStar]

\* A request: the star it carries, how far it has got, the tally of its answer.
Request == [value : Stars, is : {"out", "accepted", "refused"}, tally : Tally]

-----------------------------------------------------------------------------
(* The store of one praxis.                                                *)

ChangeOfMind(c) == c.saving \/ c.windowOpen

AlreadyHeard(c, s) ==
    /\ ChangeOfMind(c)
    /\ s = IF c.inFlight # NoStar THEN c.inFlight ELSE c.settled

\* queueCast, up to the request it may send.
Queued(c, s) ==
    [c EXCEPT !.value = s, !.failed = FALSE, !.dirty = ~AlreadyHeard(c, s),
              !.windowOpen = TRUE,
              !.followUp = ChangeOfMind(c) /\ ~AlreadyHeard(c, s)]

\* Mutant: a second request may go out while one is in the air.
SendsWhileSaving(c) == c.dirty /\ c.value # NoStar

MaySend(c) == c.dirty /\ ~c.saving /\ c.value # NoStar

Sent(c) == [c EXCEPT !.dirty = FALSE, !.saving = TRUE, !.inFlight = c.value]

\* Mutant: the answer replaces a choice made since.
AcceptedOverwrites(c, star) ==
    [c EXCEPT !.saving = FALSE, !.settled = star, !.inFlight = NoStar, !.value = star]

Accepted(c, star) ==
    [c EXCEPT !.saving = FALSE, !.settled = star, !.inFlight = NoStar,
              !.value = IF c.dirty THEN c.value ELSE star]

Refused(c) ==
    IF c.dirty
    THEN [c EXCEPT !.saving = FALSE, !.inFlight = NoStar]
    ELSE [c EXCEPT !.saving = FALSE, !.inFlight = NoStar, !.value = c.settled,
                   !.failed = TRUE]

-----------------------------------------------------------------------------
(* send: praxis p's entry is c, and it posts what c holds unsent.          *)

Out(star) == [value |-> star, is |-> "out", tally |-> [rev |-> 0, mine |-> NoStar]]

Send(p, c, pending) ==
    IF MaySend(c)
    THEN /\ store' = [store EXCEPT ![p] = Sent(c)]
         /\ wire' = [wire EXCEPT ![p] = Append(pending, Out(c.value))]
    ELSE /\ store' = [store EXCEPT ![p] = c]
         /\ wire' = [wire EXCEPT ![p] = pending]

Choose(p, s) ==
    /\ choices < MaxChoices
    /\ choices' = choices + 1
    /\ wanted' = [wanted EXCEPT ![p] = s]
    /\ LET c == store[p] IN
       IF ChangeOfMind(c)
       THEN /\ store' = [store EXCEPT ![p] = Queued(c, s)]
            /\ UNCHANGED wire
       ELSE Send(p, Queued(c, s), wire[p])
    /\ UNCHANGED <<server, tallies, clock, lost>>

WindowShuts(p) ==
    /\ store[p].windowOpen
    /\ store' = [store EXCEPT ![p].windowOpen = FALSE]
    /\ UNCHANGED <<server, wire, tallies, clock, wanted, lost, choices>>

FollowUpFires(p) ==
    /\ store[p].followUp
    /\ ~store[p].windowOpen
    /\ Send(p, [store[p] EXCEPT !.followUp = FALSE], wire[p])
    /\ UNCHANGED <<server, tallies, clock, wanted, lost, choices>>

\* Mutant: the flush gives up the timer but sends nothing.
ForgottenBy(c) == [c EXCEPT !.followUp = FALSE]

FlushedBy(c) ==
    IF MaySend(c) THEN Sent([c EXCEPT !.followUp = FALSE]) ELSE [c EXCEPT !.followUp = FALSE]

\* flushPendingCast for one praxis, flushPendingCasts for all of them.
Flush(P) ==
    /\ store' = [p \in Praxes |-> IF p \in P THEN FlushedBy(store[p]) ELSE store[p]]
    /\ wire' = [p \in Praxes |-> IF p \in P /\ MaySend(store[p])
                                 THEN Append(wire[p], Out(store[p].value)) ELSE wire[p]]
    /\ UNCHANGED <<server, tallies, clock, wanted, lost, choices>>

-----------------------------------------------------------------------------
(* The server, and the network.                                            *)

\* cast_or_update_vote: the row is inserted or updated, the tally counted after.
ServerAccepts(p, i) ==
    LET now == [rev |-> server[p].rev + 1, mine |-> wire[p][i].value] IN
    /\ wire[p][i].is = "out"
    /\ server' = [server EXCEPT ![p] = now]
    /\ wire' = [wire EXCEPT ![p][i].is = "accepted", ![p][i].tally = now]
    /\ UNCHANGED <<store, tallies, clock, wanted, lost, choices>>

\* No budget, no level, or a network that failed before the vote landed.
ServerRefuses(p, i) ==
    /\ wire[p][i].is = "out"
    /\ wire' = [wire EXCEPT ![p][i].is = "refused"]
    /\ UNCHANGED <<server, store, tallies, clock, wanted, lost, choices>>

\* The vote landed, and fetch rejects all the same.
AnswerIsLost(p, i) ==
    /\ wire[p][i].is = "accepted"
    /\ wire' = [wire EXCEPT ![p][i].is = "refused"]
    /\ lost' = lost \cup {p}
    /\ UNCHANGED <<server, store, tallies, clock, wanted, choices>>

-----------------------------------------------------------------------------
(* The answer reaches the client: recordCastTally, the entry, and the      *)
(* follow-up that was waiting for it.                                      *)

\* Mutant: the tally is stamped with the tick after its own.
RecordedAhead(tally, at) == [rev |-> tally.rev, mine |-> tally.mine, at |-> at + 1]

Recorded(tally, at) == [rev |-> tally.rev, mine |-> tally.mine, at |-> at]

Remaining(p, i) == SubSeq(wire[p], 1, i - 1) \o SubSeq(wire[p], i + 1, Len(wire[p]))

\* Mutant: what was held back while the request was out is left for nobody.
AnsweredAlone(p, i, c) ==
    /\ store' = [store EXCEPT ![p] = c]
    /\ wire' = [wire EXCEPT ![p] = Remaining(p, i)]

Answered(p, i, c) ==
    IF c.followUp
    THEN /\ store' = [store EXCEPT ![p] = c]
         /\ wire' = [wire EXCEPT ![p] = Remaining(p, i)]
    ELSE Send(p, c, Remaining(p, i))

HearAccepted(p, i) ==
    LET answer == wire[p][i] IN
    /\ answer.is = "accepted"
    /\ clock' = clock + 1
    /\ tallies' = [tallies EXCEPT ![p] = Recorded(answer.tally, clock + 1)]
    /\ Answered(p, i, Accepted(store[p], answer.tally.mine))
    /\ lost' = lost \ {p}
    /\ UNCHANGED <<server, wanted, choices>>

HearRefused(p, i) ==
    /\ wire[p][i].is = "refused"
    /\ Answered(p, i, Refused(store[p]))
    /\ UNCHANGED <<server, tallies, clock, wanted, lost, choices>>

-----------------------------------------------------------------------------
CastInit ==
    /\ server = [p \in Praxes |-> [rev |-> 0, mine |-> NoStar]]
    /\ store = [p \in Praxes |-> NoEntry]
    /\ wire = [p \in Praxes |-> <<>>]
    /\ tallies = [p \in Praxes |-> NoTally]
    /\ clock = 0
    /\ wanted = [p \in Praxes |-> NoStar]
    /\ lost = {}
    /\ choices = 0

Hears(p) == \E i \in DOMAIN wire[p] : HearAccepted(p, i) \/ HearRefused(p, i)
Serves(p) == \E i \in DOMAIN wire[p] : ServerAccepts(p, i) \/ ServerRefuses(p, i)
Loses(p) == \E i \in DOMAIN wire[p] : AnswerIsLost(p, i)

\* What goes on by itself, on any page.
Background(p) ==
    \/ WindowShuts(p) \/ FollowUpFires(p)
    \/ Serves(p) \/ Loses(p) \/ Hears(p)

CastNext ==
    \E p \in Praxes :
        \/ \E s \in Stars : Choose(p, s)
        \/ Background(p)
        \/ Flush({p}) \/ Flush(Praxes)

\* A praxis's timers run and its requests are answered.
CastFairness == \A p \in Praxes : WF_castVars(Background(p))

CastSpec == CastInit /\ [][CastNext]_castVars
=============================================================================
