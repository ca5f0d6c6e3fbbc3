---------------------------- MODULE CollabPraxis ----------------------------
(***************************************************************************)
(* One praxis and everything its members may do to it: the request         *)
(* handlers of services/praxis.py over the lazy-consensus state machine of *)
(* services/collab_consensus.py (ADR-0012, 0013, 0060, 0079).              *)
(*                                                                         *)
(* A request is one transaction, committed when its handler returns and    *)
(* rolled back when it refuses (db.get_db), so a request is one step here; *)
(* a refused request is no step.  Interleavings inside a request are the   *)
(* subject of module ConsensusRace.                                        *)
(*                                                                         *)
(* A handler is a composition of service functions over the praxis row, so *)
(* each function is an operator from a row to a row and each action is the *)
(* composition its handler makes.                                          *)
(***************************************************************************)
EXTENDS Integers

CONSTANTS
    Characters,     \* the lives that may start, join, leave or write this praxis
    AutoSubmitDays  \* era.collab_auto_submit_days: the silence-is-consent window

ASSUME DaysAssumption == AutoSubmitDays \in Nat \ {0}

VARIABLE praxis

vars == praxis

NoWindow == -1      \* submit_proposed_at IS NULL
Unsealed == 0       \* submitted_at IS NULL

(***************************************************************************)
(* The row, with its members and its pending invites.                      *)
(*   window  days since submit_proposed_at, saturating at the deadline     *)
(*   sealed  submitted_at: NULL, or one of two readings, each new seal     *)
(*           writing the other, so that two successive seals differ        *)
(*   approved  the members whose has_submitted is set                      *)
(*   stale   the approvals given before the last keystroke (an auxiliary:  *)
(*           no column holds it, nothing reads it)                         *)
(*   dirty   the room's document holds text body_text does not             *)
(*   status "none": there is no such row.                                  *)
(* PraxisMember.is_done gates nothing and is left out (ADR-0079).          *)
(***************************************************************************)
Rows ==
    [type     : {"solo", "collab"},
     status   : {"none", "in_progress", "pending", "submitted"},
     window   : NoWindow .. AutoSubmitDays,
     sealed   : {Unsealed, 1, 2},
     creator  : Characters,
     members  : SUBSET Characters,
     approved : SUBSET Characters,
     stale    : SUBSET Characters,
     invites  : SUBSET (Characters \X Characters),
     dirty    : BOOLEAN]

NewRow(c, t) ==
    [type |-> t, status |-> "in_progress", window |-> NoWindow,
     sealed |-> Unsealed, creator |-> c, members |-> {c}, approved |-> {},
     stale |-> {}, invites |-> {}, dirty |-> FALSE]

DroppedRow(p) ==
    [p EXCEPT !.status = "none", !.window = NoWindow, !.sealed = Unsealed,
              !.members = {}, !.approved = {}, !.stale = {}, !.invites = {},
              !.dirty = FALSE]

Drafting(p) == p.status \in {"in_progress", "pending"}
\* Mutant: one holdout does not count.
AlmostUnanimous(p) == \E c \in p.members : p.members \ {c} \subseteq p.approved

Unanimous(p) == p.members \subseteq p.approved
IsSingleton(S) == \E s \in S : S = {s}

\* Mutant: the status a proposal had before ADR-0079 split pending off.
LapsedDraft(p) ==
    p.type = "collab" /\ p.status = "in_progress" /\ p.window = AutoSubmitDays

Lapsed(p) ==
    /\ p.type = "collab"
    /\ Drafting(p)
    /\ p.window = AutoSubmitDays

-----------------------------------------------------------------------------
(* services/collab_consensus.py                                            *)

NextReading(r) == IF r = 1 THEN 2 ELSE 1

\* Mutant: the group is not marked submitted.
SealStatusOnly(p) ==
    [p EXCEPT !.status = "submitted", !.sealed = NextReading(@),
              !.window = NoWindow, !.dirty = FALSE]

\* _apply_seal: flatten and discard the room's document, then publish.
Seal(p) ==
    [p EXCEPT !.status   = "submitted",
              !.sealed   = NextReading(@),
              !.window   = NoWindow,
              !.approved = p.members,
              !.dirty    = FALSE]

\* settle_if_window_lapsed
Settle(p) == IF Lapsed(p) THEN Seal(p) ELSE p

\* Mutant: a partial pull-back, of the older approvals alone.
ClearStaleApprovals(p) == [p EXCEPT !.approved = @ \ p.stale, !.stale = {}]

ClearApprovals(p) == [p EXCEPT !.approved = {}, !.stale = {}]

\* Mutant: the countdown stops and the approvals stand.
StopTheWindow(p) == [p EXCEPT !.window = NoWindow, !.status = "in_progress"]

BackToDrafting(p) ==
    [ClearApprovals(p) EXCEPT !.window = NoWindow, !.status = "in_progress"]

OnMemberEdit(p) ==
    IF p.type = "collab" /\ (p.window # NoWindow \/ p.status = "submitted")
    THEN BackToDrafting(p)
    ELSE p

\* Mutant: a flush is a save, and cancels nothing.
SaveOnly(p) == p

OnRoomEdit(p) == IF p.window # NoWindow THEN OnMemberEdit(p) ELSE p

Approve(p, c) ==
    [p EXCEPT !.approved = @ \cup {c}, !.stale = @ \ {c}]

\* Mutant: each approval restarts the countdown.
RestartWindow(p) == [p EXCEPT !.status = "pending", !.window = 0]

OpenWindow(p) ==
    [p EXCEPT !.status = "pending", !.window = IF @ = NoWindow THEN 0 ELSE @]

OnSubmit(p, c) ==
    LET q == Approve(p, c)
    IN  IF Unanimous(q) THEN Seal(q)
        ELSE IF q.type = "collab" THEN OpenWindow(q)
        ELSE q

\* Mutant: the author of record stays the creator.
RetypeToSolo(p, owner) ==
    LET q == IF p.status # "submitted" THEN OnMemberEdit(p) ELSE p
    IN  [q EXCEPT !.type = "solo", !.members = @ \cap {owner},
                  !.approved = @ \cap {owner}, !.stale = @ \cap {owner},
                  !.invites = {}]

ConvertToSolo(p, owner) ==
    LET q == IF p.status # "submitted" THEN OnMemberEdit(p) ELSE p
    IN  [q EXCEPT !.type     = "solo",
                  !.creator  = owner,
                  !.members  = @ \cap {owner},
                  !.approved = @ \cap {owner},
                  !.stale    = @ \cap {owner},
                  !.invites  = {}]

\* Mutant: the leaver's approval is still counted.
WithoutRowOnly(p, c) == [p EXCEPT !.members = @ \ {c}]

Without(p, c) ==
    [p EXCEPT !.members = @ \ {c}, !.approved = @ \ {c}, !.stale = @ \ {c}]

\* The departure completes a consensus first, then deserts the collab.
SealIfReleased(p) ==
    IF p.members # {} /\ p.status # "submitted" /\ Unanimous(p)
    THEN Seal(p)
    ELSE p

\* Mutant: a departure does not release the others' consensus.
LeaveHoldsOn(p) ==
    IF p.type = "collab" /\ IsSingleton(p.members)
    THEN ConvertToSolo(p, CHOOSE c \in p.members : TRUE)
    ELSE p

OnMemberLeave(p) ==
    LET q == SealIfReleased(p)
    IN  IF q.type = "collab" /\ IsSingleton(q.members)
        THEN ConvertToSolo(q, CHOOSE c \in q.members : TRUE)
        ELSE q

\* Mutant: a kick leaves the approvals of those who stay.
KickKeepsApprovals(p) == p

OnMemberKicked(p) == BackToDrafting(p)

-----------------------------------------------------------------------------
(* The handlers of services/praxis.py and routers/praxes.py.               *)

Exists == praxis.status # "none"

Create(c, t) ==
    /\ ~Exists
    /\ praxis' = NewRow(c, t)

\* Any settling read: the detail page, the feed, Done, a moderation ruling.
Read ==
    /\ Lapsed(praxis)
    /\ praxis' = Settle(praxis)

\* A plain read, on_submit, and a settling read on the way out.
Submit(c) ==
    /\ c \in praxis.members
    /\ praxis' = Settle(OnSubmit(praxis, c))

\* Withdraw a live proposal, or reopen a published praxis.
Unsubmit(c) ==
    LET p == Settle(praxis)
    IN  /\ c \in p.members
        /\ \/ /\ p.status = "pending"
              /\ praxis' = OnMemberEdit(p)
           \/ /\ p.status = "submitted"
              /\ praxis' = BackToDrafting(p)

\* Flip an open praxis between solo and collab; the taker keeps it alone.
ChangeType(c) ==
    LET p == Settle(praxis)
    IN  /\ c \in p.members
        /\ Drafting(p)
        /\ praxis' = IF p.type = "solo"
                     THEN [p EXCEPT !.type = "collab"]
                     ELSE ConvertToSolo(p, c)

Delete(c) ==
    LET p == Settle(praxis)
    IN  /\ Exists
        /\ c = p.creator
        /\ p.status # "submitted"
        /\ praxis' = DroppedRow(p)

\* Adding or removing media, one item or a batch of which any was stored.
EditMedia(c) ==
    LET p == Settle(praxis)
    IN  /\ c \in p.members
        /\ praxis' = OnMemberEdit(p)

Invite(c, d) ==
    LET p == Settle(praxis)
    IN  /\ p.type = "collab"
        /\ Drafting(p)
        /\ c \in p.members
        /\ d \notin p.members
        /\ <<c, d>> \notin p.invites
        /\ praxis' = [p EXCEPT !.invites = @ \cup {<<c, d>>}]

\* respond_to_invite(accept=True): no settling read here.  A second accept by
\* a member fails on uq_praxis_member.
AcceptInvite(c, d) ==
    /\ <<c, d>> \in praxis.invites
    /\ praxis.status # "submitted"
    /\ d \notin praxis.members
    /\ praxis' = [praxis EXCEPT !.invites = @ \ {<<c, d>>},
                                !.members = @ \cup {d}]

\* The invitee declines, or any member rescinds.
DropInvite(c, d) ==
    /\ <<c, d>> \in praxis.invites
    /\ praxis' = [praxis EXCEPT !.invites = @ \ {<<c, d>>}]

CancelInvite(m, c, d) ==
    /\ m \in praxis.members
    /\ DropInvite(c, d)

Kick(c, d) ==
    LET p == Settle(praxis)
    IN  /\ c \in p.members
        /\ d \in p.members \ {c}
        /\ Drafting(p)
        /\ praxis' = OnMemberKicked(Without(p, d))

Leave(c) ==
    LET p == Settle(praxis)
    IN  /\ p.type = "collab"
        /\ c \in p.members
        /\ praxis' = OnMemberLeave(Without(p, c))

-----------------------------------------------------------------------------
(* The praxis's room (services/praxis_room.py) and the clock.              *)

\* A keystroke reaches the room's document: door one is membership alone.
Type(c) ==
    /\ c \in praxis.members
    /\ praxis' = [praxis EXCEPT !.dirty = TRUE, !.stale = @ \cup praxis.approved]

\* _RoomFlusher.write, debounced or on the room's close: the text and the edit
\* event land in one transaction.
FlushRoom ==
    /\ praxis.dirty
    /\ praxis' = OnRoomEdit([praxis EXCEPT !.dirty = FALSE])

DayPasses ==
    /\ praxis.window \in 0 .. (AutoSubmitDays - 1)
    /\ praxis' = [praxis EXCEPT !.window = @ + 1]

-----------------------------------------------------------------------------
Init == \E c \in Characters, t \in {"solo", "collab"} : praxis = NewRow(c, t)

Next ==
    \/ \E c \in Characters, t \in {"solo", "collab"} : Create(c, t)
    \/ Read
    \/ \E c \in Characters : Submit(c)
    \/ \E c \in Characters : Unsubmit(c)
    \/ \E c \in Characters : ChangeType(c)
    \/ \E c \in Characters : Delete(c)
    \/ \E c \in Characters : EditMedia(c)
    \/ \E c, d \in Characters : Invite(c, d)
    \/ \E c, d \in Characters : AcceptInvite(c, d)
    \/ \E c, d \in Characters : DropInvite(c, d)
    \/ \E m, c, d \in Characters : CancelInvite(m, c, d)
    \/ \E c, d \in Characters : Kick(c, d)
    \/ \E c \in Characters : Leave(c)
    \/ \E c \in Characters : Type(c)
    \/ FlushRoom
    \/ DayPasses

Spec == Init /\ [][Next]_vars

\* Time passes, and somebody eventually looks: the lazy timeout has no
\* scheduler behind it, only readers (ADR-0012, collab_consensus 145-155).
FairSpec == Spec /\ WF_vars(DayPasses) /\ WF_vars(Read)
-----------------------------------------------------------------------------
(* What the state machine must keep.                                       *)

\* The row's columns stay in their domains, approvals and stale approvals
\* belong to members, and a dropped row takes its members, its invites and its
\* document along (models/praxis.py).
TypeOK ==
    /\ praxis \in Rows
    /\ praxis.approved \subseteq praxis.members
    /\ praxis.stale \subseteq praxis.approved
    /\ ~Exists =>
         praxis.members = {} /\ praxis.invites = {} /\ ~praxis.dirty

\* Status, window, approvals and seal agree whatever order the members act in:
\* a proposal is live exactly while the praxis is pending, and then it is put
\* to at least two members, one of whom still holds out (a complete consensus
\* has published, a deserted collab is solo); a draft carries no approval left
\* over from an earlier proposal; a Live praxis has every member's, and a seal
\* date (collab_consensus 62-70, 252-294, 344-383).
ConsensusInv ==
    /\ praxis.status = "pending" <=> praxis.window # NoWindow
    /\ praxis.status = "pending" =>
         praxis.type = "collab" /\ ~Unanimous(praxis) /\ ~IsSingleton(praxis.members)
    /\ praxis.status = "in_progress" => praxis.approved = {}
    /\ praxis.status = "submitted" =>
         praxis.approved = praxis.members /\ praxis.sealed # Unsealed

\* Every route to solo leaves one member, who is the creator, and no invite
\* that could bring a second: takeover, desertion, creation (praxis 98-113,
\* collab_consensus 297-341).
SoloIsItsCreators ==
    Exists /\ praxis.type = "solo" =>
        praxis.members = {praxis.creator} /\ praxis.invites = {}

\* An approval never outlives the text it was given to once the room has
\* flushed: a flush under a live proposal cancels every one of them
\* (collab_consensus 224-249, praxis_room 337-391).
NoApprovalOfOlderText ==
    praxis.status = "pending" /\ ~praxis.dirty => praxis.stale = {}

GoesLive == praxis.status # "submitted" /\ praxis'.status = "submitted"

\* Nothing publishes over two holdouts before the window has lapsed: the one
\* member who had not agreed is the one who acts, by approving or by leaving
\* (ADR-0012's three roads to Live).
PublishedByConsentOrSilence ==
    [][GoesLive /\ ~Lapsed(praxis) =>
         \E c \in praxis.members : praxis.members \ praxis.approved \subseteq {c}]_vars

\* With no unflushed keystroke in the room, what publishes by consensus was
\* approved as it stands by every member who remains.
PublishedAsApproved ==
    [][GoesLive /\ ~Lapsed(praxis) /\ ~praxis.dirty => praxis'.stale = {}]_vars

\* An approval is withdrawn only with everybody's: there is no partial
\* pull-back (ADR-0079, collab_consensus 401-410).
ApprovalsFallTogether ==
    [][\A c \in praxis.approved \cap praxis'.members :
         c \notin praxis'.approved => praxis'.approved = {}]_vars

\* The countdown runs from the proposal: no approval, join or departure
\* restarts it (collab_consensus 289-291).
WindowNeverRestarts ==
    [][praxis.window # NoWindow /\ praxis'.window # NoWindow =>
         praxis'.window >= praxis.window]_vars

\* A proposal does not hang: it publishes, is cancelled or is dropped.
ProposalResolves == praxis.status = "pending" ~> praxis.status # "pending"

-----------------------------------------------------------------------------
(* What the documents say and the code does not keep.  TLC refutes each:   *)
(* named in a cfg of the module's, it yields the counterexample             *)
(* (README, "Disagreements").                                              *)

\* "submitted_at is set once on the in_progress -> submitted transition"
\* (models/praxis.py:119): a seal starts from a draft.
SealsOnlyADraft ==
    [][praxis'.sealed # praxis.sealed /\ praxis'.sealed # Unsealed =>
         praxis.status # "submitted"]_vars

\* "the zero-member state is unreachable" (collab_consensus 357, ADR-0060).
NeverWithoutAMember == Exists => praxis.members # {}

\* "When a collab drops to exactly one member, it converts to a solo praxis
\* owned by the survivor - at any status" (ADR-0060).
DesertedCollabConverts ==
    [][Exists' /\ ~IsSingleton(praxis.members) /\ praxis.members # {}
         /\ IsSingleton(praxis'.members) => praxis'.type = "solo"]_vars

\* "a collab whose window has lapsed is submitted - without the settle it
\* would still read pending and let a new member onto a published praxis"
\* (praxis 1361-1363).
NobodyJoinsAfterTheWindow ==
    [][Lapsed(praxis) => praxis'.members \subseteq praxis.members]_vars

\* "the window expiring -> publish anyway" (ADR-0079): once lapsed, a proposal
\* leaves pending through a seal, whatever else the same request then does.
LapsedWindowPublishes ==
    [][Lapsed(praxis) /\ praxis'.status = "in_progress" =>
         praxis'.sealed # praxis.sealed]_vars

\* "Live - any member edits -> editing mode -> back to Drafting" (ADR-0012):
\* the text of a Live praxis does not move while it stays Live.
LiveTextIsFrozen ==
    [][praxis.status = "submitted" /\ praxis.type = "collab"
         /\ praxis.dirty /\ ~praxis'.dirty /\ praxis'.sealed = praxis.sealed =>
         praxis'.status # "submitted"]_vars

\* "an edit while a proposal is live cancels the proposal" (collab_consensus
\* 21-24): nothing publishes over an approval of older text.
PublishedTextWasApproved ==
    [][GoesLive /\ ~Lapsed(praxis) => praxis'.stale = {}]_vars

\* "created_by_id ... carries no special powers in a collab" (ADR-0013): a
\* collab is dropped only by one of its members.
DroppedByAMember ==
    [][Exists /\ ~Exists' /\ praxis.members # {} =>
         praxis.creator \in praxis.members]_vars
=============================================================================
