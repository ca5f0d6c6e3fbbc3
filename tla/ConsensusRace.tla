---------------------------- MODULE ConsensusRace ----------------------------
(***************************************************************************)
(* The requests of CollabPraxis when they overlap.  Each opens a session   *)
(* of its own at READ COMMITTED (db.py), loads the praxis with its         *)
(* members, and at its end writes what it changed.  Nothing in             *)
(* services/praxis.py or services/collab_consensus.py locks the row, and   *)
(* the ORM writes only the columns, and only the members, that differ from *)
(* what it loaded.                                                         *)
(*                                                                         *)
(* A request is two steps, Begin (its last read of the row) and Commit.    *)
(* Between them the row in the database, CollabPraxis's praxis, may move.  *)
(* Locks are kept where they exclude an outcome: on_submit has flushed its *)
(* member's row before it reads, the room's flush has updated the praxis.  *)
(* A departure deletes its row after its last read: here in its commit, so *)
(* nobody waits for a departure, and a deadlock with one is left out.      *)
(*                                                                         *)
(* A request that finds the window lapsed settles it first; here that is a *)
(* read of its own, and the request follows.                               *)
(***************************************************************************)
EXTENDS CollabPraxis, FiniteSets

CONSTANTS
    Requests,   \* which of the requests below are in play
    MaxOpen     \* how many things may be going on at once

ASSUME RequestsAssumption ==
    Requests \subseteq {"submit", "media", "withdraw", "leave", "read", "flush"}
ASSUME MaxOpenAssumption == MaxOpen \in Nat \ {0}

\* A member has one request out; the reader is anybody; the room its own task.
Agents == Characters \cup {"reader", "room"}

VARIABLE tx     \* each agent's request: what it loaded, what it made of that

raceVars == <<praxis, tx>>

Idle == [does |-> "nothing"]
Open == {a \in Agents : tx[a] # Idle}
HasRoom == Cardinality(Open) < MaxOpen

-----------------------------------------------------------------------------
(* The member rows a request writes, and their locks.                      *)

MemberColumns == {"members", "approved", "stale"}

\* Mutant: an approval is recorded for a member who has gone.
WritesNobody(t) == {}

WritesMembers(t) ==
    {c \in t.now.members : (c \in t.was.approved) # (c \in t.now.approved)}

\* on_submit's first UPDATE is of its own member's row, and it waits behind
\* whoever waits for that row already.
RowIsFree(c) == \A a \in Open : tx[a].waits => c \notin WritesMembers(tx[a])

-----------------------------------------------------------------------------
(* The handlers, up to their last read of the row.                         *)

Begin(a, does, outcome) ==
    /\ does \in Requests
    /\ tx[a] = Idle
    /\ HasRoom
    /\ tx' = [tx EXCEPT ![a] = [does |-> does, was |-> praxis, now |-> outcome,
                               waits |-> FALSE]]
    /\ UNCHANGED praxis

BeginSubmit(c) ==
    /\ c \in praxis.members
    /\ RowIsFree(c)
    /\ Begin(c, "submit", Settle(OnSubmit(praxis, c)))

\* The batch route settles and loads before it stores a single byte.
BeginMedia(c) ==
    /\ c \in praxis.members
    /\ ~Lapsed(praxis)
    /\ Begin(c, "media", OnMemberEdit(praxis))

\* Mutant: withdrawing is not routed through the edit.
BeginReopen(c) ==
    /\ c \in praxis.members
    /\ ~Lapsed(praxis)
    /\ praxis.status # "in_progress"
    /\ Begin(c, "withdraw", BackToDrafting(praxis))

BeginWithdraw(c) ==
    /\ c \in praxis.members
    /\ ~Lapsed(praxis)
    /\ praxis.status # "in_progress"
    /\ Begin(c, "withdraw", IF praxis.status = "pending" THEN OnMemberEdit(praxis)
                            ELSE BackToDrafting(praxis))

BeginLeave(c) ==
    /\ praxis.type = "collab"
    /\ c \in praxis.members
    /\ ~Lapsed(praxis)
    /\ Begin(c, "leave", OnMemberLeave(Without(praxis, c)))

BeginRead ==
    /\ Lapsed(praxis)
    /\ Begin("reader", "read", Settle(praxis))

\* _RoomFlusher.write: its UPDATE comes first and holds the praxis row.
BeginFlush ==
    /\ praxis.dirty
    /\ Begin("room", "flush", OnRoomEdit([praxis EXCEPT !.dirty = FALSE]))

-----------------------------------------------------------------------------
(* The commit.                                                             *)

WritesPraxis(t) == \E f \in DOMAIN t.was \ MemberColumns : t.was[f] # t.now[f]

\* The unit of work: what a request did not change, it does not write.  A
\* deleted member's row goes with all its columns.
Merged(p, t, f) ==
    LET gone == t.was.members \ t.now.members
    IN
    IF f \in MemberColumns
    THEN (p[f] \ ((t.was[f] \ t.now[f]) \cup gone)) \cup (t.now[f] \ t.was[f])
    ELSE IF t.now[f] = t.was[f] THEN p[f] ELSE t.now[f]

Written(p, t) ==
    [f \in DOMAIN p |->
       IF f = "stale" THEN Merged(p, t, "stale") \cap Merged(p, t, "approved")
       ELSE Merged(p, t, f)]

\* A seal discards the room's document, which cancels a flush under way.
Seals(t) == t.now.sealed # t.was.sealed

\* b holds the lock of a row it wrote before all else, and a writes that row.
WaitsFor(a, b) ==
    /\ a # b
    /\ tx[a] # Idle /\ tx[b] # Idle
    /\ \/ b = "room" /\ WritesPraxis(tx[a]) /\ ~Seals(tx[a])
       \/ b \in WritesMembers(tx[a]) /\ tx[b].does = "submit"

Blocked(a) == \E b \in Agents : WaitsFor(a, b)

\* The database breaks a cycle of waits by failing one of its requests.
Deadlocked(a) ==
    /\ Blocked(a)
    /\ \E D \in SUBSET Open :
         /\ a \in D
         /\ \A b \in D : \E c \in D : WaitsFor(b, c)
         /\ \A b \in D : \E c \in D : WaitsFor(c, b)

\* An UPDATE of a member row that has gone fails.
Orphaned(a) == ~(WritesMembers(tx[a]) \subseteq praxis.members)

Failing == {a \in Open : Deadlocked(a) \/ (~Blocked(a) /\ Orphaned(a))}

\* A request has come to a write it must wait for.
Wait(a) ==
    /\ tx[a] # Idle
    /\ Blocked(a)
    /\ ~tx[a].waits
    /\ tx' = [tx EXCEPT ![a].waits = TRUE]
    /\ UNCHANGED praxis

Commit(a) ==
    /\ tx[a] # Idle
    /\ ~Blocked(a)
    /\ ~Orphaned(a)
    /\ praxis' = Written(praxis, tx[a])
    /\ tx' = [b \in Agents |->
                IF b = a \/ (b = "room" /\ Seals(tx[a])) THEN Idle ELSE tx[b]]

Rollback(a) ==
    /\ a \in Failing
    /\ tx' = [tx EXCEPT ![a] = Idle]
    /\ UNCHANGED praxis

\* A keystroke between two flushes, and the clock.
Keystroke(c) ==
    /\ "flush" \in Requests
    /\ HasRoom
    /\ tx["room"] = Idle
    /\ Type(c)
    /\ UNCHANGED tx

Clock ==
    /\ HasRoom
    /\ DayPasses
    /\ UNCHANGED tx

-----------------------------------------------------------------------------
\* A collab whose crew has assembled.
RaceInit ==
    /\ \E c \in Characters :
         praxis = [NewRow(c, "collab") EXCEPT !.members = Characters]
    /\ tx = [a \in Agents |-> Idle]

RaceNext ==
    \/ \E c \in Characters : BeginSubmit(c)
    \/ \E c \in Characters : BeginMedia(c)
    \/ \E c \in Characters : BeginWithdraw(c)
    \/ \E c \in Characters : BeginLeave(c)
    \/ BeginRead
    \/ BeginFlush
    \/ \E a \in Agents : Wait(a)
    \/ \E a \in Agents : Commit(a)
    \/ \E a \in Agents : Rollback(a)
    \/ \E c \in Characters : Keystroke(c)
    \/ Clock

RaceSpec == RaceInit /\ [][RaceNext]_raceVars

\* Somebody eventually looks, an open request comes to its writes, and the
\* database hands a row to its waiters in turn: hence strong fairness of Commit.
\* Clock and BeginRead have it because MaxOpen is the model's limit and not the
\* server's.
FairRaceSpec ==
    /\ RaceSpec
    /\ SF_raceVars(Clock)
    /\ SF_raceVars(BeginRead)
    /\ \A a \in Agents : /\ WF_raceVars(Wait(a))
                         /\ SF_raceVars(Commit(a))
                         /\ WF_raceVars(Rollback(a))
-----------------------------------------------------------------------------
(* What overlapping requests keep.                                         *)

\* The row stays in its domains however many requests write it, and each open
\* request has loaded and will leave such a row.
RaceTypeOK ==
    /\ TypeOK
    /\ \A a \in Open : tx[a].does \in Requests /\ {tx[a].was, tx[a].now} \subseteq Rows

\* A request whose row did not move under it does exactly what CollabPraxis
\* says it does in one step: what goes wrong below is the overlap's doing.
Uncontended == \A a \in Open : tx[a].was = praxis

Serially == [][Uncontended => [Next]_vars]_raceVars

\* While members only approve and readers only look, however these overlap,
\* what is Live is approved by everyone (_apply_seal marks the whole group).
\* Said when no request is open.
Quiet == Open = {}

LiveIsApprovedByAll ==
    Quiet /\ praxis.status = "submitted" => praxis.approved = praxis.members

\* And what publishes was carried by consent or by silence as the request that
\* publishes it saw it: it had loaded a lapsed proposal, or its own member was
\* the one holdout.  The row it writes may have moved: a proposal loaded as a
\* draft restarts a lapsed countdown (submit_praxis, on_submit), so before the
\* commit PublishedByConsentOrSilence can fail in a crew of four.
SealedByConsentOrSilence ==
    [][GoesLive =>
         \E a \in Open :
            /\ tx'[a] = Idle
            /\ \/ Lapsed(tx[a].was)
               \/ praxis.members \ praxis.approved \subseteq {a}]_raceVars

-----------------------------------------------------------------------------
(* What the documents say and overlapping requests break.  TLC refutes     *)
(* each, and LiveIsApprovedByAll, PublishedByConsentOrSilence and          *)
(* ProposalResolves too once an edit may overlap an approval (README,      *)
(* "Disagreements").                                                       *)

\* "Every member approved -> Live now" (submit_praxis).
EveryoneApprovedIsLive ==
    Quiet /\ Unanimous(praxis) => praxis.status = "submitted"

\* An edit "clears everyone's approval, and returns the collab to drafting"
\* (on_member_edit): no draft holds one.
DraftCarriesNoApproval ==
    Quiet /\ praxis.status = "in_progress" => praxis.approved = {}

\* "pending now means a proposal is live" (on_submit): no draft is counted down.
DraftHasNoWindow ==
    Quiet /\ praxis.status = "in_progress" => praxis.window = NoWindow

\* A collab that drops to one member becomes "a solo praxis owned by the
\* survivor" (on_member_leave): a solo praxis has its owner.
SurvivorOwnsTheSolo ==
    Quiet /\ praxis.type = "solo" => praxis.members = {praxis.creator}
=============================================================================
