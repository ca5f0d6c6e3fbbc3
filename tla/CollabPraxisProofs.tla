------------------------- MODULE CollabPraxisProofs -------------------------
(***************************************************************************)
(* For every set of characters and every window length: the invariants of  *)
(* CollabPraxis, its roads to Live, what a step may never do to the        *)
(* countdown and the approvals, and that every handler takes one step of   *)
(* LazyConsensus or none.                                                  *)
(***************************************************************************)
EXTENDS CollabRefinement, TLAPS

Typed(p) ==
    /\ p \in Rows
    /\ p.approved \subseteq p.members
    /\ p.stale \subseteq p.approved

Agrees(p) ==
    /\ p.status = "pending" <=> p.window # NoWindow
    /\ p.status = "pending" =>
         p.type = "collab" /\ ~Unanimous(p) /\ ~IsSingleton(p.members)
    /\ p.status = "in_progress" => p.approved = {}
    /\ p.status = "submitted" => p.approved = p.members /\ p.sealed # Unsealed

Owned(p) ==
    p.status # "none" /\ p.type = "solo" =>
        p.members = {p.creator} /\ p.invites = {}

Fresh(p) == p.status = "pending" /\ ~p.dirty => p.stale = {}

Absent(p) ==
    p.status = "none" => p.members = {} /\ p.invites = {} /\ ~p.dirty

Sound(p) == Typed(p) /\ Absent(p) /\ Agrees(p) /\ Owned(p) /\ Fresh(p)

\* The columns' domains hold the values the operators write.
LEMMA Columns ==
    /\ NoWindow \in NoWindow .. AutoSubmitDays
    /\ 0 \in NoWindow .. AutoSubmitDays
    /\ 0 # NoWindow
    /\ 1 # Unsealed
    /\ 2 # Unsealed
  BY DaysAssumption DEF NoWindow, Unsealed

\* _apply_seal leaves a sound row, Live, whatever the praxis it is given.
LEMMA SealSound ==
    ASSUME NEW p, Typed(p), Owned(p), p.status # "none"
    PROVE  /\ Sound(Seal(p))
           /\ Seal(p).status = "submitted"
           /\ Seal(p).members = p.members
  <1>1. /\ Seal(p).type = p.type
        /\ Seal(p).status = "submitted"
        /\ Seal(p).window = NoWindow
        /\ Seal(p).sealed = NextReading(p.sealed)
        /\ Seal(p).creator = p.creator
        /\ Seal(p).members = p.members
        /\ Seal(p).approved = p.members
        /\ Seal(p).stale = p.stale
        /\ Seal(p).invites = p.invites
        /\ Seal(p).dirty = FALSE
    BY DEF Seal, Typed, Rows
  <1>2. NextReading(p.sealed) \in {1, 2}
    BY DEF NextReading
  <1>3. Seal(p) \in Rows
    BY <1>2, Columns DEF Seal, Typed, Rows
  <1> QED
    BY <1>1, <1>2, <1>3
       DEF Sound, Typed, Absent, Agrees, Owned, Fresh, NoWindow, Unsealed

\* The lazy timeout keeps a row sound.
LEMMA SettleSound ==
    ASSUME NEW p, Sound(p)
    PROVE  /\ Sound(Settle(p))
           /\ Settle(p).members = p.members
  BY SealSound DEF Settle, Sound, Lapsed, Drafting

\* Going back to drafting keeps a row sound.
LEMMA BackSound ==
    ASSUME NEW p, Typed(p), Owned(p), p.status # "none"
    PROVE  Sound(BackToDrafting(p))
  <1> DEFINE q == BackToDrafting(p)
  <1>1. /\ q.type = p.type
        /\ q.status = "in_progress"
        /\ q.window = NoWindow
        /\ q.creator = p.creator
        /\ q.members = p.members
        /\ q.approved = {}
        /\ q.stale = {}
        /\ q.invites = p.invites
    BY DEF BackToDrafting, ClearApprovals, Typed, Rows
  <1>2. q \in Rows
    BY Columns DEF BackToDrafting, ClearApprovals, Typed, Rows
  <1> HIDE DEF q
  <1>3. Sound(q)
    BY <1>1, <1>2 DEF Sound, Typed, Absent, Agrees, Owned, Fresh
  <1> QED
    BY <1>3 DEF q

\* An edit keeps a row sound.
LEMMA EditSound ==
    ASSUME NEW p, Sound(p), p.status # "none"
    PROVE  Sound(OnMemberEdit(p))
  BY BackSound DEF OnMemberEdit, Sound

\* A collab that leaves the hands of all but one member.
LEMMA ConvertSound ==
    ASSUME NEW p, Typed(p), p.status # "none", p.type = "collab",
           p.status = "pending" <=> p.window # NoWindow,
           p.status = "in_progress" => p.approved = {},
           p.status = "submitted" => p.approved = p.members /\ p.sealed # Unsealed,
           NEW c \in p.members
    PROVE  /\ Sound(ConvertToSolo(p, c))
           /\ ConvertToSolo(p, c).members = {c}
  <1> DEFINE q == IF p.status # "submitted" THEN OnMemberEdit(p) ELSE p
             r == ConvertToSolo(p, c)
  <1>1. /\ Typed(q)
        /\ q.members = p.members
        /\ q.status \in {"in_progress", "submitted"}
        /\ q.window = NoWindow
        /\ q.status = "in_progress" => q.approved = {}
        /\ q.status = "submitted" => q.approved = q.members /\ q.sealed # Unsealed
    <2>1. CASE p.status = "submitted"
      BY <2>1
    <2>2. CASE p.status = "pending"
      <3>1. Sound(BackToDrafting(p))
        BY BackSound DEF Owned
      <3>2. q = BackToDrafting(p)
        BY <2>2 DEF OnMemberEdit
      <3>3. /\ BackToDrafting(p).status = "in_progress"
            /\ BackToDrafting(p).members = p.members
            /\ BackToDrafting(p).window = NoWindow
            /\ BackToDrafting(p).approved = {}
        BY DEF BackToDrafting, ClearApprovals, Typed, Rows
      <3> QED
        BY <3>1, <3>2, <3>3 DEF Sound
    <2>3. CASE p.status = "in_progress"
      BY <2>3 DEF OnMemberEdit
    <2> QED
      BY <2>1, <2>2, <2>3 DEF Typed, Rows
  <1>2. r = [q EXCEPT !.type     = "solo",
                      !.creator  = c,
                      !.members  = @ \cap {c},
                      !.approved = @ \cap {c},
                      !.stale    = @ \cap {c},
                      !.invites  = {}]
    BY DEF ConvertToSolo
  <1>3. c \in Characters
    BY DEF Typed, Rows
  <1> HIDE DEF q, r
  <1>4. /\ r.type = "solo"
        /\ r.status = q.status
        /\ r.window = q.window
        /\ r.sealed = q.sealed
        /\ r.creator = c
        /\ r.members = {c}
        /\ r.approved = q.approved \cap {c}
        /\ r.stale = q.stale \cap {c}
        /\ r.invites = {}
        /\ r.dirty = q.dirty
    BY <1>1, <1>2 DEF Typed, Rows
  <1>5. r \in Rows
    BY <1>1, <1>2, <1>3 DEF Typed, Rows
  <1>6. Sound(r)
    BY <1>1, <1>4, <1>5 DEF Sound, Typed, Absent, Agrees, Owned, Fresh
  <1> QED
    BY <1>4, <1>6 DEF r

-----------------------------------------------------------------------------
(* What a member's submission and a departure do to a sound row.           *)

\* on_submit by a member keeps a row sound.
LEMMA SubmitSound ==
    ASSUME NEW p, Sound(p), p.status # "none", NEW c \in p.members
    PROVE  Sound(OnSubmit(p, c))
  <1> DEFINE q == Approve(p, c)
             w == OpenWindow(q)
  <1>1. /\ q.type = p.type
        /\ q.status = p.status
        /\ q.window = p.window
        /\ q.sealed = p.sealed
        /\ q.creator = p.creator
        /\ q.members = p.members
        /\ q.approved = p.approved \cup {c}
        /\ q.stale = p.stale \ {c}
        /\ q.invites = p.invites
        /\ q.dirty = p.dirty
        /\ q \in Rows
    BY DEF Approve, Sound, Typed, Rows
  <1>2. /\ w.type = q.type
        /\ w.status = "pending"
        /\ w.window = IF q.window = NoWindow THEN 0 ELSE q.window
        /\ w.sealed = q.sealed
        /\ w.creator = q.creator
        /\ w.members = q.members
        /\ w.approved = q.approved
        /\ w.stale = q.stale
        /\ w.invites = q.invites
        /\ w.dirty = q.dirty
    BY <1>1 DEF OpenWindow, Rows
  <1>3. w \in Rows
    BY <1>1, Columns DEF OpenWindow, Rows
  <1>4. Typed(q) /\ Owned(q) /\ q.status # "none"
    BY <1>1 DEF Sound, Typed, Owned
  <1>5. OnSubmit(p, c) = IF Unanimous(q) THEN Seal(q)
                         ELSE IF q.type = "collab" THEN w ELSE q
    BY DEF OnSubmit
  <1> HIDE DEF q, w
  <1>6. CASE Unanimous(q)
    BY <1>4, <1>5, <1>6, SealSound
  <1>7. CASE ~Unanimous(q) /\ q.type = "collab"
    <2>1. w.window # NoWindow
      BY <1>2 DEF NoWindow
    <2>2. q.status # "submitted"
      BY <1>1, <1>7 DEF Sound, Agrees, Unanimous
    <2>3. Fresh(w)
      BY <1>1, <1>2, <2>2 DEF Sound, Fresh, Agrees, Typed, Rows
    <2>4. ~IsSingleton(w.members)
      BY <1>1, <1>2, <1>7 DEF Unanimous, IsSingleton
    <2>5. Sound(w)
      BY <1>1, <1>2, <1>3, <1>4, <1>7, <2>1, <2>3, <2>4
         DEF Sound, Typed, Absent, Agrees, Owned, Unanimous
    <2> QED
      BY <1>5, <1>7, <2>5
  <1>8. CASE ~Unanimous(q) /\ q.type # "collab"
    <2>1. q.members = {c} /\ q.approved = p.approved \cup {c}
      BY <1>1, <1>8 DEF Sound, Owned, Typed, Rows
    <2> QED
      BY <1>8, <2>1 DEF Unanimous
  <1> QED
    BY <1>6, <1>7, <1>8

\* Taking a member out keeps the columns in their domains, and moves no other.
LEMMA WithoutRow ==
    ASSUME NEW p, Typed(p), NEW c
    PROVE  /\ Typed(Without(p, c))
           /\ Without(p, c).type = p.type
           /\ Without(p, c).status = p.status
           /\ Without(p, c).window = p.window
           /\ Without(p, c).sealed = p.sealed
           /\ Without(p, c).creator = p.creator
           /\ Without(p, c).members = p.members \ {c}
           /\ Without(p, c).approved = p.approved \ {c}
           /\ Without(p, c).stale = p.stale \ {c}
           /\ Without(p, c).invites = p.invites
           /\ Without(p, c).dirty = p.dirty
  BY DEF Without, Typed, Rows

\* A departure, with the seal and the conversion it may bring, keeps a row sound.
LEMMA LeaveSound ==
    ASSUME NEW p, Sound(p), p.status # "none", p.type = "collab", NEW c
    PROVE  Sound(OnMemberLeave(Without(p, c)))
  <1> DEFINE w == Without(p, c)
             q == SealIfReleased(w)
  <1> SUFFICES Sound(OnMemberLeave(w))
    OBVIOUS
  <1>1. /\ Typed(w)
        /\ w.type = "collab"
        /\ w.status = p.status
        /\ w.status = "pending" <=> w.window # NoWindow
        /\ w.status = "in_progress" => w.approved = {}
        /\ w.status = "submitted" => w.approved = w.members /\ w.sealed # Unsealed
        /\ w.status = "pending" /\ ~w.dirty => w.stale = {}
        /\ w.status = "pending" => w.members # {}
    <2>1. Typed(p) /\ Agrees(p) /\ Fresh(p)
      BY DEF Sound
    <2>2. Typed(w)
      BY <2>1, WithoutRow
    <2>3. /\ w.type = p.type
          /\ w.status = p.status
          /\ w.window = p.window
          /\ w.sealed = p.sealed
          /\ w.members = p.members \ {c}
          /\ w.approved = p.approved \ {c}
          /\ w.stale = p.stale \ {c}
          /\ w.dirty = p.dirty
      BY <2>1, WithoutRow
    <2> HIDE DEF w
    <2>4. w.status = "pending" => w.members # {}
      BY <2>1, <2>3 DEF Agrees, Unanimous, IsSingleton, Typed
    <2> QED
      BY <2>1, <2>2, <2>3, <2>4 DEF Agrees, Fresh
  <1>2. OnMemberLeave(w) = IF q.type = "collab" /\ IsSingleton(q.members)
                           THEN ConvertToSolo(q, CHOOSE d \in q.members : TRUE)
                           ELSE q
    BY DEF OnMemberLeave
  <1>3. q = IF w.members # {} /\ w.status # "submitted" /\ Unanimous(w)
            THEN Seal(w) ELSE w
    BY DEF SealIfReleased
  <1> HIDE DEF w
  <1>4. CASE w.members # {} /\ w.status # "submitted" /\ Unanimous(w)
    <2>1. Sound(q) /\ q.status = "submitted"
      BY <1>1, <1>3, <1>4, SealSound DEF Owned
    <2> HIDE DEF q
    <2>2. CASE q.type = "collab" /\ IsSingleton(q.members)
      <3>1. (CHOOSE d \in q.members : TRUE) \in q.members
        BY <2>2 DEF IsSingleton
      <3>2. PICK d \in q.members : d = CHOOSE e \in q.members : TRUE
        BY <3>1
      <3>3. Sound(ConvertToSolo(q, d))
        BY <2>1, <2>2, ConvertSound DEF Sound, Agrees
      <3> QED
        BY <1>2, <2>2, <3>2, <3>3
    <2> QED
      BY <1>2, <2>1, <2>2
  <1>5. CASE ~(w.members # {} /\ w.status # "submitted" /\ Unanimous(w))
    <2>1. q = w
      BY <1>3, <1>5
    <2> HIDE DEF q
    <2>2. CASE IsSingleton(q.members)
      <3>1. (CHOOSE d \in q.members : TRUE) \in q.members
        BY <2>2 DEF IsSingleton
      <3>2. PICK d \in q.members : d = CHOOSE e \in q.members : TRUE
        BY <3>1
      <3>3. Typed(q) /\ q.status # "none" /\ q.type = "collab"
        BY <1>1, <2>1
      <3>4. Sound(ConvertToSolo(q, d))
        BY <1>1, <2>1, <3>3, ConvertSound
      <3> QED
        BY <1>2, <2>2, <3>2, <3>3, <3>4
    <2>3. CASE ~IsSingleton(q.members)
      <3>1. Sound(w)
        BY <1>1, <1>5, <2>1, <2>3 DEF Sound, Absent, Agrees, Owned, Fresh
      <3> QED
        BY <1>2, <2>1, <2>3, <3>1
    <2> QED
      BY <2>2, <2>3
  <1> QED
    BY <1>4, <1>5

-----------------------------------------------------------------------------
(* The inductive invariant: the checked invariants together.  Soundness of *)
(* the row is their conjunction, so nothing has to be added to them.       *)

IInv == Sound(praxis)

\* The strengthening implies every safety invariant that is model-checked.
LEMMA IInvIsTheInvariants ==
    IInv <=> TypeOK /\ ConsensusInv /\ SoloIsItsCreators /\ NoApprovalOfOlderText
  BY DEF IInv, Sound, Typed, Absent, Agrees, Owned, Fresh, TypeOK, ConsensusInv,
         SoloIsItsCreators, NoApprovalOfOlderText, Exists

\* A praxis just created is sound.
LEMMA NewRowSound ==
    ASSUME NEW c \in Characters, NEW t \in {"solo", "collab"}
    PROVE  Sound(NewRow(c, t))
  BY Columns
     DEF Sound, Typed, Absent, Agrees, Owned, Fresh, Rows, NewRow, Unsealed

\* The initial states satisfy the strengthening.
LEMMA InitSound == Init => IInv
  BY NewRowSound DEF Init, IInv

\* Creating a praxis keeps the strengthening.
LEMMA CreateSound ==
    ASSUME IInv, NEW c \in Characters, NEW t \in {"solo", "collab"}, Create(c, t)
    PROVE  IInv'
  BY NewRowSound DEF Create, IInv

\* A settling read keeps the strengthening.
LEMMA ReadSound ==
    ASSUME IInv, Read
    PROVE  IInv'
  BY SettleSound DEF Read, IInv

\* Submitting keeps the strengthening.
LEMMA SubmitStep ==
    ASSUME IInv, NEW c \in Characters, Submit(c)
    PROVE  IInv'
  <1>1. praxis.status # "none"
    BY DEF Submit, IInv, Sound, Absent
  <1> QED
    BY <1>1, SubmitSound, SettleSound DEF Submit, IInv

\* The settling read that opens most handlers.
LEMMA SettledRow ==
    ASSUME IInv, NEW c, c \in Settle(praxis).members
    PROVE  Sound(Settle(praxis)) /\ Settle(praxis).status # "none"
  <1>1. Sound(Settle(praxis))
    BY SettleSound DEF IInv
  <1> QED
    BY <1>1 DEF Sound, Absent

\* Withdrawing or reopening keeps the strengthening.
LEMMA UnsubmitStep ==
    ASSUME IInv, NEW c \in Characters, Unsubmit(c)
    PROVE  IInv'
  BY SettledRow, EditSound, BackSound DEF Unsubmit, IInv, Sound

\* Flipping between solo and collab keeps the strengthening.
LEMMA ChangeTypeStep ==
    ASSUME IInv, NEW c \in Characters, ChangeType(c)
    PROVE  IInv'
  <1> DEFINE p == Settle(praxis)
  <1>1. /\ Sound(p)
        /\ p.status # "none"
        /\ c \in p.members
        /\ Drafting(p)
        /\ praxis' = IF p.type = "solo" THEN [p EXCEPT !.type = "collab"]
                     ELSE ConvertToSolo(p, c)
    BY SettledRow DEF ChangeType
  <1> HIDE DEF p
  <1>2. CASE p.type = "solo"
    <2> DEFINE q == [p EXCEPT !.type = "collab"]
    <2>1. p.status = "in_progress"
      BY <1>1, <1>2 DEF Sound, Agrees, Drafting
    <2>2. /\ q.type = "collab"
          /\ q.status = p.status
          /\ q.window = p.window
          /\ q.members = p.members
          /\ q.approved = p.approved
          /\ q.stale = p.stale
          /\ q \in Rows
      BY <1>1 DEF Sound, Typed, Rows
    <2>3. praxis' = q
      BY <1>1, <1>2
    <2> HIDE DEF q
    <2>4. Sound(q)
      BY <1>1, <2>1, <2>2 DEF Sound, Typed, Absent, Agrees, Owned, Fresh
    <2> QED
      BY <2>3, <2>4 DEF IInv
  <1>3. CASE p.type = "collab"
    BY <1>1, <1>3, ConvertSound DEF IInv, Sound, Agrees
  <1> QED
    BY <1>1, <1>2, <1>3 DEF Sound, Typed, Rows

\* Dropping the praxis keeps the strengthening.
LEMMA DeleteStep ==
    ASSUME IInv, NEW c \in Characters, Delete(c)
    PROVE  IInv'
  <1> DEFINE p == Settle(praxis)
             q == DroppedRow(p)
  <1>1. Sound(p)
    BY SettleSound DEF IInv
  <1>2. praxis' = q
    BY DEF Delete
  <1> HIDE DEF p
  <1>3. /\ q.status = "none"
        /\ q.window = NoWindow
        /\ q.members = {}
        /\ q.approved = {}
        /\ q.stale = {}
        /\ q.invites = {}
        /\ q.dirty = FALSE
    BY <1>1 DEF DroppedRow, Sound, Typed, Rows
  <1>4. q \in Rows
    BY <1>1, Columns DEF DroppedRow, Sound, Typed, Rows
  <1> HIDE DEF q
  <1>5. Sound(q)
    BY <1>3, <1>4 DEF Sound, Typed, Absent, Agrees, Owned, Fresh
  <1> QED
    BY <1>2, <1>5 DEF IInv

\* A media edit keeps the strengthening.
LEMMA EditMediaStep ==
    ASSUME IInv, NEW c \in Characters, EditMedia(c)
    PROVE  IInv'
  BY SettledRow, EditSound DEF EditMedia, IInv

\* An invitation keeps the strengthening.
LEMMA InviteStep ==
    ASSUME IInv, NEW c \in Characters, NEW d \in Characters, Invite(c, d)
    PROVE  IInv'
  <1> DEFINE p == Settle(praxis)
             q == [p EXCEPT !.invites = @ \cup {<<c, d>>}]
  <1>1. Sound(p) /\ p.status # "none" /\ p.type = "collab" /\ praxis' = q
    BY SettledRow DEF Invite
  <1> HIDE DEF p
  <1>2. /\ q.type = p.type
        /\ q.status = p.status
        /\ q.window = p.window
        /\ q.sealed = p.sealed
        /\ q.members = p.members
        /\ q.approved = p.approved
        /\ q.stale = p.stale
        /\ q.dirty = p.dirty
        /\ q \in Rows
    BY <1>1 DEF Sound, Typed, Rows
  <1> HIDE DEF q
  <1>3. Sound(q)
    BY <1>1, <1>2
       DEF Sound, Typed, Absent, Agrees, Owned, Fresh, Unanimous
  <1> QED
    BY <1>1, <1>3 DEF IInv

\* An accepted invitation keeps the strengthening.
LEMMA AcceptInviteStep ==
    ASSUME IInv, NEW c \in Characters, NEW d \in Characters, AcceptInvite(c, d)
    PROVE  IInv'
  <1> DEFINE q == [praxis EXCEPT !.invites = @ \ {<<c, d>>},
                                 !.members = @ \cup {d}]
  <1>1. praxis' = q /\ d \notin praxis.members /\ praxis.status # "submitted"
    BY DEF AcceptInvite
  <1>2. /\ Sound(praxis)
        /\ praxis.status # "none"
        /\ praxis.type = "collab"
    BY DEF AcceptInvite, IInv, Sound, Absent, Owned, Typed, Rows
  <1>3. /\ q.type = praxis.type
        /\ q.status = praxis.status
        /\ q.window = praxis.window
        /\ q.members = praxis.members \cup {d}
        /\ q.approved = praxis.approved
        /\ q.stale = praxis.stale
        /\ q.dirty = praxis.dirty
        /\ q \in Rows
    BY <1>2 DEF Sound, Typed, Rows
  <1> HIDE DEF q
  <1>4. q.status = "pending" => ~IsSingleton(q.members) /\ ~Unanimous(q)
    BY <1>1, <1>2, <1>3 DEF Sound, Agrees, Unanimous, IsSingleton, Typed
  <1>5. Sound(q)
    BY <1>1, <1>2, <1>3, <1>4 DEF Sound, Typed, Absent, Agrees, Owned, Fresh
  <1> QED
    BY <1>1, <1>5 DEF IInv

\* A declined or rescinded invitation keeps the strengthening.
LEMMA DropInviteStep ==
    ASSUME IInv, NEW c \in Characters, NEW d \in Characters, DropInvite(c, d)
    PROVE  IInv'
  <1> DEFINE q == [praxis EXCEPT !.invites = @ \ {<<c, d>>}]
  <1>1. praxis' = q /\ Sound(praxis)
    BY DEF DropInvite, IInv
  <1>2. /\ q.type = praxis.type
        /\ q.status = praxis.status
        /\ q.window = praxis.window
        /\ q.sealed = praxis.sealed
        /\ q.creator = praxis.creator
        /\ q.members = praxis.members
        /\ q.approved = praxis.approved
        /\ q.stale = praxis.stale
        /\ q.invites \subseteq praxis.invites
        /\ q.dirty = praxis.dirty
        /\ q \in Rows
    BY <1>1 DEF Sound, Typed, Rows
  <1> HIDE DEF q
  <1>3. Sound(q)
    BY <1>1, <1>2
       DEF Sound, Typed, Absent, Agrees, Owned, Fresh, Unanimous
  <1> QED
    BY <1>1, <1>3 DEF IInv

\* A kick keeps the strengthening.
LEMMA KickStep ==
    ASSUME IInv, NEW c \in Characters, NEW d \in Characters, Kick(c, d)
    PROVE  IInv'
  <1> DEFINE p == Settle(praxis)
             w == Without(p, d)
  <1>1. /\ Sound(p)
        /\ p.status # "none"
        /\ c \in p.members
        /\ d \in p.members \ {c}
        /\ praxis' = BackToDrafting(w)
    BY SettledRow DEF Kick, OnMemberKicked
  <1> HIDE DEF p
  <1>2. p.type # "solo"
    BY <1>1 DEF Sound, Owned
  <1>3. Typed(w) /\ w.type = p.type /\ w.status = p.status
    BY <1>1, WithoutRow DEF Sound
  <1> HIDE DEF w
  <1> QED
    BY <1>1, <1>2, <1>3, BackSound DEF IInv, Owned

\* Leaving keeps the strengthening.
LEMMA LeaveStep ==
    ASSUME IInv, NEW c \in Characters, Leave(c)
    PROVE  IInv'
  BY SettledRow, LeaveSound DEF Leave, IInv

\* A keystroke keeps the strengthening.
LEMMA TypeStep ==
    ASSUME IInv, NEW c \in Characters, Type(c)
    PROVE  IInv'
  <1> DEFINE q == [praxis EXCEPT !.dirty = TRUE, !.stale = @ \cup praxis.approved]
  <1>1. praxis' = q /\ Sound(praxis) /\ praxis.status # "none"
    BY DEF Type, IInv, Sound, Absent
  <1>2. /\ q.type = praxis.type
        /\ q.status = praxis.status
        /\ q.window = praxis.window
        /\ q.sealed = praxis.sealed
        /\ q.creator = praxis.creator
        /\ q.members = praxis.members
        /\ q.approved = praxis.approved
        /\ q.stale = praxis.approved
        /\ q.invites = praxis.invites
        /\ q.dirty = TRUE
        /\ q \in Rows
    BY <1>1 DEF Sound, Typed, Rows
  <1> HIDE DEF q
  <1>3. Sound(q)
    BY <1>1, <1>2
       DEF Sound, Typed, Absent, Agrees, Owned, Fresh, Unanimous
  <1> QED
    BY <1>1, <1>3 DEF IInv

\* The room's flush keeps the strengthening.
LEMMA FlushRoomStep ==
    ASSUME IInv, FlushRoom
    PROVE  IInv'
  <1> DEFINE q == [praxis EXCEPT !.dirty = FALSE]
  <1>1. praxis' = OnRoomEdit(q) /\ Sound(praxis) /\ praxis.status # "none"
    BY DEF FlushRoom, IInv, Sound, Absent
  <1>2. /\ q.type = praxis.type
        /\ q.status = praxis.status
        /\ q.window = praxis.window
        /\ q.sealed = praxis.sealed
        /\ q.creator = praxis.creator
        /\ q.members = praxis.members
        /\ q.approved = praxis.approved
        /\ q.stale = praxis.stale
        /\ q.invites = praxis.invites
        /\ q \in Rows
    BY <1>1 DEF Sound, Typed, Rows
  <1> HIDE DEF q
  <1>3. Typed(q) /\ Owned(q) /\ q.status # "none"
    BY <1>1, <1>2 DEF Sound, Typed, Owned
  <1>4. CASE q.window = NoWindow
    <2>1. Sound(q)
      BY <1>1, <1>2, <1>3, <1>4
         DEF Sound, Typed, Absent, Agrees, Owned, Fresh, Unanimous
    <2> QED
      BY <1>1, <1>4, <2>1 DEF OnRoomEdit, IInv
  <1>5. CASE q.window # NoWindow
    <2>1. q.type = "collab"
      BY <1>1, <1>2, <1>5 DEF Sound, Agrees
    <2> QED
      BY <1>1, <1>3, <1>5, <2>1, BackSound DEF OnRoomEdit, OnMemberEdit, IInv
  <1> QED
    BY <1>4, <1>5

\* The passing of a day keeps the strengthening.
LEMMA DayPassesStep ==
    ASSUME IInv, DayPasses
    PROVE  IInv'
  <1> DEFINE q == [praxis EXCEPT !.window = @ + 1]
  <1>1. praxis' = q /\ Sound(praxis)
    BY DEF DayPasses, IInv
  <1>2. /\ praxis.window + 1 \in NoWindow .. AutoSubmitDays
        /\ praxis.window + 1 # NoWindow
        /\ praxis.window # NoWindow
    BY DaysAssumption DEF DayPasses, NoWindow
  <1>3. /\ q.type = praxis.type
        /\ q.status = praxis.status
        /\ q.window = praxis.window + 1
        /\ q.sealed = praxis.sealed
        /\ q.creator = praxis.creator
        /\ q.members = praxis.members
        /\ q.approved = praxis.approved
        /\ q.stale = praxis.stale
        /\ q.invites = praxis.invites
        /\ q.dirty = praxis.dirty
        /\ q \in Rows
    BY <1>1, <1>2 DEF Sound, Typed, Rows
  <1> HIDE DEF q
  <1>4. Sound(q)
    BY <1>1, <1>2, <1>3
       DEF Sound, Typed, Absent, Agrees, Owned, Fresh, Unanimous
  <1> QED
    BY <1>1, <1>4 DEF IInv

\* Every step keeps the strengthening.
LEMMA StepSound ==
    ASSUME IInv, [Next]_vars
    PROVE  IInv'
  <1>1. CASE Next
    BY <1>1, CreateSound, ReadSound, SubmitStep, UnsubmitStep, ChangeTypeStep,
       DeleteStep, EditMediaStep, InviteStep, AcceptInviteStep, DropInviteStep,
       KickStep, LeaveStep, TypeStep, FlushRoomStep, DayPassesStep
       DEF Next, CancelInvite
  <1>2. CASE UNCHANGED vars
    BY <1>2 DEF vars, IInv
  <1> QED
    BY <1>1, <1>2

\* The strengthening that is inductive holds of every behaviour.
THEOREM Invariance == Spec => []IInv
  BY InitSound, StepSound, PTL DEF Spec

-----------------------------------------------------------------------------
(* The invariants the runs check, for every set of characters and every    *)
(* window.                                                                 *)

\* The columns of the row stay in their domains whatever the members do.
THEOREM TypeCorrect == Spec => []TypeOK
  <1>1. IInv => TypeOK
    BY IInvIsTheInvariants
  <1> QED
    BY <1>1, Invariance, PTL

\* Status, window, approvals and seal date agree after every request.
THEOREM Consensus == Spec => []ConsensusInv
  <1>1. IInv => ConsensusInv
    BY IInvIsTheInvariants
  <1> QED
    BY <1>1, Invariance, PTL

\* Every route to solo leaves one member, the creator, and no open invite.
THEOREM SoloOwnership == Spec => []SoloIsItsCreators
  <1>1. IInv => SoloIsItsCreators
    BY IInvIsTheInvariants
  <1> QED
    BY <1>1, Invariance, PTL

\* With the room flushed, every live approval is of the text as it stands.
THEOREM ApprovalFreshness == Spec => []NoApprovalOfOlderText
  <1>1. IInv => NoApprovalOfOlderText
    BY IInvIsTheInvariants
  <1> QED
    BY <1>1, Invariance, PTL

-----------------------------------------------------------------------------
(* The roads to Live before the window has lapsed.                         *)

\* Settling changes nothing before the deadline.
LEMMA NotLapsedSettles ==
    ASSUME NEW p, ~Lapsed(p)
    PROVE  Settle(p) = p
  BY DEF Settle

\* Submitting publishes only a consensus the submitter completes.
LEMMA SubmitPublishes ==
    ASSUME IInv, NEW c \in Characters, Submit(c), ~Lapsed(praxis), GoesLive
    PROVE  /\ Unanimous(Approve(praxis, c))
           /\ praxis' = Seal(Approve(praxis, c))
  <1> DEFINE q == Approve(praxis, c)
             w == OpenWindow(q)
  <1>1. /\ q.type = praxis.type
        /\ q.status = praxis.status
        /\ q.window = praxis.window
        /\ q.members = praxis.members
        /\ q \in Rows
    BY DEF Approve, IInv, Sound, Typed, Rows
  <1>2. w.status = "pending"
        /\ w.window = IF q.window = NoWindow THEN 0 ELSE q.window
    BY <1>1 DEF OpenWindow, Rows
  <1>3. ~Lapsed(w) /\ ~Lapsed(q)
    <2>1. AutoSubmitDays # NoWindow /\ AutoSubmitDays # 0
      BY DaysAssumption DEF NoWindow
    <2>2. q.window # AutoSubmitDays \/ ~Drafting(q) \/ q.type # "collab"
      BY <1>1 DEF Lapsed, Drafting
    <2>3. CASE q.window = NoWindow
      BY <1>2, <2>1, <2>3 DEF Lapsed
    <2>4. CASE q.window # NoWindow
      <3>1. praxis.type = "collab" /\ praxis.status = "pending"
        BY <1>1, <2>4 DEF IInv, Sound, Agrees
      <3>2. q.window # AutoSubmitDays
        BY <1>1, <2>2, <3>1 DEF Drafting
      <3> QED
        BY <1>2, <2>4, <3>2 DEF Lapsed
    <2> QED
      BY <2>3, <2>4
  <1>4. OnSubmit(praxis, c) = IF Unanimous(q) THEN Seal(q)
                              ELSE IF q.type = "collab" THEN w ELSE q
    BY DEF OnSubmit
  <1>5. praxis' = Settle(OnSubmit(praxis, c))
    BY DEF Submit
  <1> HIDE DEF q, w
  <1>6. Unanimous(q)
    <2>1. CASE ~Unanimous(q) /\ q.type = "collab"
      BY <1>2, <1>3, <1>4, <1>5, <2>1, NotLapsedSettles DEF GoesLive
    <2>2. CASE ~Unanimous(q) /\ q.type # "collab"
      BY <1>1, <1>3, <1>4, <1>5, <2>2, NotLapsedSettles DEF GoesLive
    <2> QED
      BY <2>1, <2>2
  <1>7. praxis' = Settle(Seal(q))
    BY <1>4, <1>5, <1>6
  <1>8. Seal(q).status = "submitted"
    BY <1>1 DEF Seal, Rows
  <1> QED
    BY <1>6, <1>7, <1>8, NotLapsedSettles DEF Lapsed, Drafting, q

\* Leaving publishes only a consensus the leaver alone was holding up.
LEMMA LeavePublishes ==
    ASSUME IInv, NEW c \in Characters, Leave(c), ~Lapsed(praxis), GoesLive
    PROVE  /\ c \in praxis.members
           /\ Unanimous(Without(praxis, c))
           /\ praxis'.stale \subseteq praxis.stale
  <1> DEFINE w == Without(praxis, c)
             q == SealIfReleased(w)
  <1>1. /\ c \in praxis.members
        /\ praxis' = OnMemberLeave(w)
        /\ Sound(praxis)
        /\ praxis.status # "submitted"
        /\ praxis'.status = "submitted"
    BY NotLapsedSettles DEF Leave, IInv, GoesLive
  <1>2. /\ Typed(w)
        /\ w.type = praxis.type
        /\ w.status = praxis.status
        /\ w.stale \subseteq praxis.stale
    BY <1>1, WithoutRow DEF Sound
  <1>3. praxis' = IF q.type = "collab" /\ IsSingleton(q.members)
                  THEN ConvertToSolo(q, CHOOSE d \in q.members : TRUE)
                  ELSE q
    BY <1>1 DEF OnMemberLeave
  <1>4. q = IF w.members # {} /\ w.status # "submitted" /\ Unanimous(w)
            THEN Seal(w) ELSE w
    BY DEF SealIfReleased
  <1>5. Seal(w).stale = w.stale /\ Seal(w).status = "submitted" /\ Seal(w) \in Rows
    <2>1. NextReading(w.sealed) \in {1, 2}
      BY DEF NextReading
    <2> QED
      BY <1>2, <2>1, Columns DEF Seal, Typed, Rows
  <1> HIDE DEF w
  <1>6. CASE w.members # {} /\ Unanimous(w)
    <2>1. q = Seal(w)
      BY <1>1, <1>2, <1>4, <1>6
    <2> HIDE DEF q
    <2>2. \A d : ConvertToSolo(q, d).stale = q.stale \cap {d}
      BY <1>5, <2>1 DEF ConvertToSolo, Rows
    <2>3. praxis'.stale \subseteq q.stale
      BY <1>3, <2>2
    <2> QED
      BY <1>1, <1>2, <1>5, <1>6, <2>1, <2>3 DEF w
  <1>7. CASE ~(w.members # {} /\ Unanimous(w))
    <2>1. q = w
      BY <1>4, <1>7
    <2> HIDE DEF q
    <2>2. \A d : ConvertToSolo(q, d).status # "submitted"
      <3>1. OnMemberEdit(q).status # "submitted" /\ OnMemberEdit(q) \in Rows
        BY <1>1, <1>2, <2>1, Columns
           DEF OnMemberEdit, BackToDrafting, ClearApprovals, Typed, Rows
      <3> QED
        BY <1>1, <1>2, <2>1, <3>1 DEF ConvertToSolo, Rows
    <2> QED
      BY <1>1, <1>2, <1>3, <2>1, <2>2
  <1> QED
    BY <1>6, <1>7

\* No other request takes a praxis Live before its window has lapsed.
LEMMA RoadsToLive ==
    ASSUME IInv, Next, GoesLive, ~Lapsed(praxis)
    PROVE  \E c \in Characters : Submit(c) \/ Leave(c)
  <1> SUFFICES ASSUME \A c \in Characters : ~Submit(c) /\ ~Leave(c)
               PROVE  FALSE
    OBVIOUS
  <1>1. Settle(praxis) = praxis /\ praxis \in Rows
    BY NotLapsedSettles DEF IInv, Sound, Typed
  <1>2. praxis.status # "submitted" /\ praxis'.status = "submitted"
    BY DEF GoesLive
  <1>3. \A p \in Rows : BackToDrafting(p).status = "in_progress"
    BY DEF BackToDrafting, ClearApprovals, Rows
  <1>4. ASSUME NEW c \in Characters, NEW t \in {"solo", "collab"}, Create(c, t)
        PROVE  FALSE
    BY <1>2, <1>4 DEF Create, NewRow
  <1>5. CASE Read
    BY <1>5 DEF Read
  <1>6. ASSUME NEW c \in Characters, Unsubmit(c)
        PROVE  FALSE
    BY <1>1, <1>2, <1>3, <1>6 DEF Unsubmit, OnMemberEdit
  <1>7. ASSUME NEW c \in Characters, ChangeType(c)
        PROVE  FALSE
    <2>1. OnMemberEdit(praxis).status # "submitted" /\ OnMemberEdit(praxis) \in Rows
      BY <1>1, <1>2, Columns
         DEF OnMemberEdit, BackToDrafting, ClearApprovals, Rows
    <2>2. ConvertToSolo(praxis, c).status # "submitted"
      BY <1>1, <1>2, <2>1 DEF ConvertToSolo, Rows
    <2>3. [praxis EXCEPT !.type = "collab"].status = praxis.status
      BY <1>1 DEF Rows
    <2> QED
      BY <1>1, <1>2, <1>7, <2>2, <2>3 DEF ChangeType
  <1>8. ASSUME NEW c \in Characters, Delete(c)
        PROVE  FALSE
    BY <1>1, <1>2, <1>8 DEF Delete, DroppedRow, Rows
  <1>9. ASSUME NEW c \in Characters, EditMedia(c)
        PROVE  FALSE
    BY <1>1, <1>2, <1>3, <1>9 DEF EditMedia, OnMemberEdit
  <1>10. ASSUME NEW c \in Characters, NEW d \in Characters,
                Invite(c, d) \/ AcceptInvite(c, d) \/ DropInvite(c, d)
         PROVE  FALSE
    BY <1>1, <1>2, <1>10 DEF Invite, AcceptInvite, DropInvite, Rows
  <1>11. ASSUME NEW c \in Characters, NEW d \in Characters, Kick(c, d)
         PROVE  FALSE
    <2>1. Without(praxis, d) \in Rows
      BY <1>1, WithoutRow DEF IInv, Sound, Typed
    <2> QED
      BY <1>1, <1>2, <1>3, <1>11, <2>1 DEF Kick, OnMemberKicked
  <1>12. ASSUME NEW c \in Characters, Type(c)
         PROVE  FALSE
    BY <1>1, <1>2, <1>12 DEF Type, Rows
  <1>13. CASE FlushRoom
    <2>1. /\ [praxis EXCEPT !.dirty = FALSE] \in Rows
          /\ [praxis EXCEPT !.dirty = FALSE].status = praxis.status
      BY <1>1 DEF Rows
    <2> QED
      BY <1>2, <1>3, <1>13, <2>1 DEF FlushRoom, OnRoomEdit, OnMemberEdit
  <1>14. CASE DayPasses
    BY <1>1, <1>2, <1>14 DEF DayPasses, Rows
  <1> QED
    BY <1>4, <1>5, <1>6, <1>7, <1>8, <1>9, <1>10, <1>11, <1>12, <1>13, <1>14
       DEF Next, CancelInvite

\* Before the window lapses, the step to Live leaves at most its actor without
\* an approval: nobody publishes over two holdouts.
THEOREM ConsentBeforeSilence == Spec => PublishedByConsentOrSilence
  <1>1. ASSUME IInv, [Next]_vars, GoesLive, ~Lapsed(praxis)
        PROVE  \E c \in praxis.members : praxis.members \ praxis.approved \subseteq {c}
    <2>1. Next
      BY <1>1 DEF GoesLive, vars
    <2>2. PICK c \in Characters : Submit(c) \/ Leave(c)
      BY <1>1, <2>1, RoadsToLive
    <2>3. CASE Submit(c)
      <3>1. Approve(praxis, c).members = praxis.members
            /\ Approve(praxis, c).approved = praxis.approved \cup {c}
        BY <1>1 DEF Approve, IInv, Sound, Typed, Rows
      <3> QED
        BY <1>1, <2>3, <3>1, SubmitPublishes DEF Submit, Unanimous
    <2>4. CASE Leave(c)
      <3>1. Without(praxis, c).members = praxis.members \ {c}
            /\ Without(praxis, c).approved = praxis.approved \ {c}
        BY <1>1, WithoutRow DEF IInv, Sound
      <3> QED
        BY <1>1, <2>4, <3>1, LeavePublishes DEF Unanimous
    <2> QED
      BY <2>2, <2>3, <2>4
  <1>2. IInv /\ [Next]_vars =>
          [GoesLive /\ ~Lapsed(praxis) =>
             \E c \in praxis.members : praxis.members \ praxis.approved \subseteq {c}]_vars
    BY <1>1
  <1> QED
    BY <1>2, Invariance, PTL DEF Spec, PublishedByConsentOrSilence

\* With nothing unflushed in the room, a consensus publishes what every
\* remaining member approved.
THEOREM ConsentToTheText == Spec => PublishedAsApproved
  <1>1. ASSUME IInv, [Next]_vars, GoesLive, ~Lapsed(praxis), ~praxis.dirty
        PROVE  praxis'.stale = {}
    <2>1. Next
      BY <1>1 DEF GoesLive, vars
    <2>2. PICK c \in Characters : Submit(c) \/ Leave(c)
      BY <1>1, <2>1, RoadsToLive
    <2>3. praxis.stale = {}
      <3>1. praxis.status # "none"
        BY <1>1, <2>2, NotLapsedSettles
           DEF Submit, Leave, IInv, Sound, Absent
      <3> QED
        BY <1>1, <3>1 DEF GoesLive, IInv, Sound, Typed, Agrees, Fresh, Rows
    <2>4. CASE Submit(c)
      <3>1. Seal(Approve(praxis, c)).stale = praxis.stale \ {c}
        BY <1>1 DEF Seal, Approve, IInv, Sound, Typed, Rows
      <3> QED
        BY <1>1, <2>3, <2>4, <3>1, SubmitPublishes
    <2>5. CASE Leave(c)
      BY <1>1, <2>3, <2>5, LeavePublishes
    <2> QED
      BY <2>2, <2>4, <2>5
  <1>2. IInv /\ [Next]_vars =>
          [GoesLive /\ ~Lapsed(praxis) /\ ~praxis.dirty => praxis'.stale = {}]_vars
    BY <1>1
  <1> QED
    BY <1>2, Invariance, PTL DEF Spec, PublishedAsApproved

-----------------------------------------------------------------------------
(***************************************************************************)
(* What a step may never do to the countdown and to the approvals.         *)
(*                                                                         *)
(* All requests but an approval, an acceptance and a creation only narrow  *)
(* the row: nobody joins, the countdown stands or stops, and the approvals *)
(* of those who stay all stand, all fall, or are completed by a seal.      *)
(* Narrowing is transitive, so it is shown of each service function and    *)
(* composed as the handlers compose them.                                  *)
(***************************************************************************)

Narrows(p, q) ==
    /\ q \in Rows
    /\ q.approved \subseteq q.members
    /\ q.members \subseteq p.members
    /\ q.window \in {NoWindow, p.window}
    /\ q.approved = {} \/ p.approved \cap q.members \subseteq q.approved
    /\ q.approved \subseteq p.approved \/ q.approved = q.members

KeepsWindow(p, q) ==
    p.window # NoWindow /\ q.window # NoWindow => q.window >= p.window

KeepsApprovals(p, q) ==
    \A c \in p.approved \cap q.members : c \notin q.approved => q.approved = {}

\* Two narrowings are a narrowing.
LEMMA NarrowsTransitive ==
    ASSUME NEW p, NEW q, NEW r, Narrows(p, q), Narrows(q, r)
    PROVE  Narrows(p, r)
  <1>1. r.approved = {} \/ p.approved \cap r.members \subseteq r.approved
    BY DEF Narrows
  <1>2. r.approved \subseteq p.approved \/ r.approved = r.members
    <2>1. CASE r.approved = {} \/ r.approved = r.members
      BY <2>1
    <2>2. CASE r.approved # {} /\ r.approved \subseteq q.approved
      BY <2>2 DEF Narrows
    <2> QED
      BY <2>1, <2>2 DEF Narrows
  <1> QED
    BY <1>1, <1>2 DEF Narrows

\* A sound row narrows itself.
LEMMA NarrowsItself ==
    ASSUME NEW p, Typed(p)
    PROVE  Narrows(p, p)
  BY DEF Narrows, Typed

\* A narrowing step restarts no countdown and withdraws no single approval.
LEMMA NarrowingKeeps ==
    ASSUME NEW p, Typed(p), NEW q, Narrows(p, q)
    PROVE  KeepsWindow(p, q) /\ KeepsApprovals(p, q)
  <1>1. KeepsWindow(p, q)
    <2>1. p.window \in Int
      BY DaysAssumption DEF Typed, Rows, NoWindow
    <2> QED
      BY <2>1 DEF KeepsWindow, Narrows
  <1>2. KeepsApprovals(p, q)
    BY DEF KeepsApprovals, Narrows
  <1> QED
    BY <1>1, <1>2

\* _apply_seal narrows: the countdown stops and the approvals are completed.
LEMMA SealNarrows ==
    ASSUME NEW p, Typed(p)
    PROVE  Narrows(p, Seal(p))
  <1>1. /\ Seal(p).window = NoWindow
        /\ Seal(p).members = p.members
        /\ Seal(p).approved = p.members
    BY DEF Seal, Typed, Rows
  <1>2. NextReading(p.sealed) \in {1, 2}
    BY DEF NextReading
  <1>3. Seal(p) \in Rows
    BY <1>2, Columns DEF Seal, Typed, Rows
  <1> QED
    BY <1>1, <1>3 DEF Narrows, Typed

\* So does the lazy timeout.
LEMMA SettleNarrows ==
    ASSUME NEW p, Typed(p)
    PROVE  Narrows(p, Settle(p))
  BY SealNarrows, NarrowsItself DEF Settle

\* Going back to drafting narrows: every approval falls.
LEMMA BackNarrows ==
    ASSUME NEW p, Typed(p)
    PROVE  Narrows(p, BackToDrafting(p))
  <1> DEFINE q == BackToDrafting(p)
  <1>1. /\ q.window = NoWindow
        /\ q.members = p.members
        /\ q.approved = {}
    BY DEF BackToDrafting, ClearApprovals, Typed, Rows
  <1>2. q \in Rows
    BY Columns DEF BackToDrafting, ClearApprovals, Typed, Rows
  <1> HIDE DEF q
  <1>3. Narrows(p, q)
    BY <1>1, <1>2 DEF Narrows
  <1> QED
    BY <1>3 DEF q

\* And so does an edit.
LEMMA EditNarrows ==
    ASSUME NEW p, Typed(p)
    PROVE  Narrows(p, OnMemberEdit(p))
  BY BackNarrows, NarrowsItself DEF OnMemberEdit

\* A departing member's row takes its approval along.
LEMMA WithoutNarrows ==
    ASSUME NEW p, Typed(p), NEW c
    PROVE  Narrows(p, Without(p, c))
  BY WithoutRow DEF Narrows, Typed

\* Converting to solo keeps the owner's own approval or clears it.
LEMMA ConvertNarrows ==
    ASSUME NEW p, Typed(p), NEW c \in Characters
    PROVE  Narrows(p, ConvertToSolo(p, c))
  <1> DEFINE q == IF p.status # "submitted" THEN OnMemberEdit(p) ELSE p
             r == ConvertToSolo(p, c)
  <1>1. Narrows(p, q)
    BY EditNarrows, NarrowsItself
  <1>2. r = [q EXCEPT !.type = "solo", !.creator = c,
                      !.members = @ \cap {c}, !.approved = @ \cap {c},
                      !.stale = @ \cap {c}, !.invites = {}]
    BY DEF ConvertToSolo
  <1> HIDE DEF q, r
  <1>3. /\ r.window = q.window
        /\ r.members = q.members \cap {c}
        /\ r.approved = q.approved \cap {c}
    BY <1>1, <1>2 DEF Narrows, Rows
  <1>4. r \in Rows
    BY <1>1, <1>2 DEF Narrows, Rows
  <1>5. Narrows(q, r)
    BY <1>1, <1>3, <1>4 DEF Narrows
  <1>6. Narrows(p, r)
    BY <1>1, <1>5, NarrowsTransitive
  <1> QED
    BY <1>6 DEF r

\* A departure releases, then deserts: both narrow.
LEMMA LeaveNarrows ==
    ASSUME NEW p, Typed(p), NEW c
    PROVE  Narrows(p, OnMemberLeave(Without(p, c)))
  <1> DEFINE w == Without(p, c)
             q == SealIfReleased(w)
             r == OnMemberLeave(w)
  <1>1. Typed(w) /\ Narrows(p, w)
    BY WithoutRow, WithoutNarrows
  <1>2. Typed(q) /\ Narrows(w, q)
    <2>1. CASE q = w
      BY <1>1, <2>1, NarrowsItself
    <2>2. CASE q = Seal(w)
      <3>1. Seal(w).stale = w.stale
        BY <1>1 DEF Seal, Typed, Rows
      <3>2. Seal(w).approved = w.members
        BY <1>1 DEF Seal, Typed, Rows
      <3> QED
        BY <1>1, <2>2, <3>1, <3>2, SealNarrows DEF Narrows, Typed
    <2> QED
      BY <2>1, <2>2 DEF SealIfReleased
  <1>3. r = IF q.type = "collab" /\ IsSingleton(q.members)
            THEN ConvertToSolo(q, CHOOSE d \in q.members : TRUE)
            ELSE q
    BY DEF OnMemberLeave
  <1> HIDE DEF w, q, r
  <1>4. Narrows(q, r)
    <2>1. CASE q.type = "collab" /\ IsSingleton(q.members)
      <3> DEFINE d == CHOOSE d \in q.members : TRUE
      <3>1. d \in q.members
        BY <2>1 DEF IsSingleton
      <3>2. d \in Characters
        BY <1>2, <3>1 DEF Typed, Rows
      <3>3. r = ConvertToSolo(q, d)
        BY <1>3, <2>1
      <3> HIDE DEF d
      <3> QED
        BY <1>2, <3>2, <3>3, ConvertNarrows
    <2>2. CASE ~(q.type = "collab" /\ IsSingleton(q.members))
      BY <1>2, <1>3, <2>2, NarrowsItself
    <2> QED
      BY <2>1, <2>2
  <1>5. Narrows(p, r)
    BY <1>1, <1>2, <1>4, NarrowsTransitive
  <1> QED
    BY <1>5 DEF w, r

\* What a member does to a settled row narrows the row there was.
LEMMA SettledNarrows ==
    ASSUME NEW p, Sound(p), NEW q, Narrows(Settle(p), q)
    PROVE  Narrows(p, q)
  BY SettleNarrows, NarrowsTransitive DEF Sound

\* The requests that only narrow the row.
LEMMA RequestsNarrow ==
    ASSUME IInv,
           NEW c \in Characters, NEW d \in Characters,
           \/ Read \/ Unsubmit(c) \/ ChangeType(c) \/ Delete(c) \/ EditMedia(c)
           \/ Invite(c, d) \/ DropInvite(c, d) \/ Kick(c, d) \/ Leave(c)
           \/ Type(c) \/ FlushRoom
    PROVE  Narrows(praxis, praxis')
  <1> DEFINE p == Settle(praxis)
  <1>1. Sound(praxis) /\ Typed(praxis) /\ Typed(p)
    BY SettleSound DEF IInv, Sound
  <1>2. \A q : Narrows(p, q) => Narrows(praxis, q)
    BY <1>1, SettledNarrows
  <1>3. CASE Read
    BY <1>1, <1>3, SettleNarrows DEF Read
  <1>4. CASE Unsubmit(c)
    BY <1>1, <1>2, <1>4, EditNarrows, BackNarrows DEF Unsubmit
  <1>5. CASE ChangeType(c)
    <2>1. CASE p.type = "solo"
      <3> DEFINE q == [p EXCEPT !.type = "collab"]
      <3>1. praxis' = q
        BY <1>5, <2>1 DEF ChangeType
      <3> HIDE DEF p
      <3>2. /\ q \in Rows
            /\ q.window = p.window
            /\ q.members = p.members
            /\ q.approved = p.approved
        BY <1>1 DEF Typed, Rows
      <3>3. Narrows(p, q)
        BY <1>1, <3>2 DEF Narrows, Typed
      <3> QED
        BY <1>2, <3>1, <3>3
    <2>2. CASE p.type # "solo"
      BY <1>1, <1>2, <1>5, <2>2, ConvertNarrows DEF ChangeType
    <2> QED
      BY <2>1, <2>2
  <1>6. CASE Delete(c)
    <2> DEFINE q == DroppedRow(p)
    <2>1. praxis' = q
      BY <1>6 DEF Delete
    <2> HIDE DEF p
    <2>2. /\ q \in Rows
          /\ q.window = NoWindow
          /\ q.members = {}
          /\ q.approved = {}
      BY <1>1, Columns DEF DroppedRow, Typed, Rows, Unsealed
    <2>3. Narrows(p, q)
      BY <2>2 DEF Narrows
    <2> QED
      BY <1>2, <2>1, <2>3
  <1>7. CASE EditMedia(c)
    BY <1>1, <1>2, <1>7, EditNarrows DEF EditMedia
  <1>8. CASE Invite(c, d)
    <2> DEFINE q == [p EXCEPT !.invites = @ \cup {<<c, d>>}]
    <2>1. praxis' = q
      BY <1>8 DEF Invite
    <2> HIDE DEF p
    <2>2. /\ q \in Rows
          /\ q.window = p.window
          /\ q.members = p.members
          /\ q.approved = p.approved
      BY <1>1 DEF Typed, Rows
    <2>3. Narrows(p, q)
      BY <1>1, <2>2 DEF Narrows, Typed
    <2> QED
      BY <1>2, <2>1, <2>3
  <1>9. CASE DropInvite(c, d)
    <2> DEFINE q == [praxis EXCEPT !.invites = @ \ {<<c, d>>}]
    <2>1. praxis' = q
      BY <1>9 DEF DropInvite
    <2>2. /\ q \in Rows
          /\ q.window = praxis.window
          /\ q.members = praxis.members
          /\ q.approved = praxis.approved
      BY <1>1 DEF Typed, Rows
    <2> QED
      BY <1>1, <2>1, <2>2 DEF Narrows, Typed
  <1>10. CASE Kick(c, d)
    <2> DEFINE w == Without(p, d)
    <2>1. Typed(w) /\ Narrows(p, w)
      BY <1>1, WithoutRow, WithoutNarrows
    <2>2. praxis' = BackToDrafting(w)
      BY <1>10 DEF Kick, OnMemberKicked
    <2> HIDE DEF p, w
    <2>3. Narrows(w, praxis')
      BY <2>1, <2>2, BackNarrows
    <2> QED
      BY <1>2, <2>1, <2>3, NarrowsTransitive
  <1>11. CASE Leave(c)
    BY <1>1, <1>2, <1>11, LeaveNarrows DEF Leave
  <1>12. CASE Type(c)
    <2> DEFINE q == [praxis EXCEPT !.dirty = TRUE, !.stale = @ \cup praxis.approved]
    <2>1. praxis' = q
      BY <1>12 DEF Type
    <2>2. /\ q \in Rows
          /\ q.window = praxis.window
          /\ q.members = praxis.members
          /\ q.approved = praxis.approved
      BY <1>1 DEF Typed, Rows
    <2> QED
      BY <1>1, <2>1, <2>2 DEF Narrows, Typed
  <1>13. CASE FlushRoom
    <2> DEFINE q == [praxis EXCEPT !.dirty = FALSE]
    <2>1. praxis' = OnRoomEdit(q)
      BY <1>13 DEF FlushRoom
    <2>2. /\ q \in Rows
          /\ q.window = praxis.window
          /\ q.members = praxis.members
          /\ q.approved = praxis.approved
          /\ q.stale = praxis.stale
      BY <1>1 DEF Typed, Rows
    <2> HIDE DEF q
    <2>3. Typed(q) /\ Narrows(praxis, q)
      BY <1>1, <2>2 DEF Narrows, Typed
    <2>4. Narrows(q, praxis')
      BY <2>1, <2>3, EditNarrows, NarrowsItself DEF OnRoomEdit
    <2> QED
      BY <2>3, <2>4, NarrowsTransitive
  <1> QED
    BY <1>3, <1>4, <1>5, <1>6, <1>7, <1>8, <1>9, <1>10, <1>11, <1>12, <1>13

\* An approval adds itself, stops the countdown by a seal, or lets it run.
LEMMA SubmitAdds ==
    ASSUME NEW p, Typed(p), NEW c
    PROVE  /\ OnSubmit(p, c).members = p.members
           /\ p.approved \subseteq OnSubmit(p, c).approved
           /\ p.window # NoWindow =>
                OnSubmit(p, c).window \in {NoWindow, p.window}
  <1> DEFINE q == Approve(p, c)
  <1>1. /\ q.window = p.window
        /\ q.members = p.members
        /\ q.approved = p.approved \cup {c}
        /\ DOMAIN q = DOMAIN p
    BY DEF Approve, Typed, Rows
  <1>2. OnSubmit(p, c) = IF Unanimous(q) THEN Seal(q)
                         ELSE IF q.type = "collab" THEN OpenWindow(q) ELSE q
    BY DEF OnSubmit
  <1>3. /\ Seal(q).window = NoWindow
        /\ Seal(q).members = q.members
        /\ Seal(q).approved = q.members
    BY <1>1 DEF Seal, Typed, Rows
  <1>4. /\ OpenWindow(q).window = IF q.window = NoWindow THEN 0 ELSE q.window
        /\ OpenWindow(q).members = q.members
        /\ OpenWindow(q).approved = q.approved
    BY <1>1 DEF OpenWindow, Typed, Rows
  <1> HIDE DEF q
  <1> QED
    BY <1>1, <1>2, <1>3, <1>4 DEF Typed

\* Submitting restarts no countdown and withdraws no approval.
LEMMA SubmitKeeps ==
    ASSUME IInv, NEW c \in Characters, Submit(c)
    PROVE  KeepsWindow(praxis, praxis') /\ KeepsApprovals(praxis, praxis')
  <1> DEFINE o == OnSubmit(praxis, c)
  <1>1. Typed(praxis) /\ Typed(o)
    BY SubmitSound DEF Submit, IInv, Sound, Absent
  <1>2. Narrows(o, praxis')
    BY <1>1, SettleNarrows DEF Submit
  <1>3. /\ o.members = praxis.members
        /\ praxis.approved \subseteq o.approved
        /\ praxis.window # NoWindow => o.window \in {NoWindow, praxis.window}
    BY <1>1, SubmitAdds
  <1>4. praxis.window \in Int
    BY <1>1, DaysAssumption DEF Typed, Rows, NoWindow
  <1> HIDE DEF o
  <1>5. KeepsWindow(praxis, praxis')
    BY <1>2, <1>3, <1>4 DEF KeepsWindow, Narrows
  <1>6. KeepsApprovals(praxis, praxis')
    BY <1>2, <1>3 DEF KeepsApprovals, Narrows
  <1> QED
    BY <1>5, <1>6

\* No step restarts a running countdown or takes back approvals one by one.
LEMMA StepKeeps ==
    ASSUME IInv, [Next]_vars
    PROVE  KeepsWindow(praxis, praxis') /\ KeepsApprovals(praxis, praxis')
  <1>1. Sound(praxis) /\ Typed(praxis)
    BY DEF IInv, Sound
  <1>2. praxis.window \in Int
    BY <1>1, DaysAssumption DEF Typed, Rows, NoWindow
  <1>3. ASSUME Narrows(praxis, praxis')
        PROVE  KeepsWindow(praxis, praxis') /\ KeepsApprovals(praxis, praxis')
    BY <1>1, <1>3, NarrowingKeeps
  <1>4. ASSUME NEW c \in Characters, NEW t \in {"solo", "collab"}, Create(c, t)
        PROVE  KeepsWindow(praxis, praxis') /\ KeepsApprovals(praxis, praxis')
    <2>1. praxis'.window = NoWindow
      BY <1>4 DEF Create, NewRow
    <2>2. praxis.approved = {}
      BY <1>1, <1>4 DEF Create, Exists, Sound, Absent, Typed
    <2> QED
      BY <2>1, <2>2 DEF KeepsWindow, KeepsApprovals
  <1>5. ASSUME NEW c \in Characters, NEW d \in Characters, AcceptInvite(c, d)
        PROVE  KeepsWindow(praxis, praxis') /\ KeepsApprovals(praxis, praxis')
    <2>1. praxis'.window = praxis.window /\ praxis'.approved = praxis.approved
      BY <1>1, <1>5 DEF AcceptInvite, Typed, Rows
    <2> QED
      BY <1>2, <2>1 DEF KeepsWindow, KeepsApprovals
  <1>6. CASE DayPasses
    <2>1. /\ praxis'.window = praxis.window + 1
          /\ praxis'.approved = praxis.approved
      BY <1>1, <1>6 DEF DayPasses, Typed, Rows
    <2> QED
      BY <1>2, <2>1 DEF KeepsWindow, KeepsApprovals
  <1>7. CASE UNCHANGED vars
    BY <1>1, <1>3, <1>7, NarrowsItself DEF vars
  <1>8. ASSUME NEW c \in Characters, NEW d \in Characters,
               \/ Read \/ Unsubmit(c) \/ ChangeType(c) \/ Delete(c) \/ EditMedia(c)
               \/ Invite(c, d) \/ DropInvite(c, d) \/ Kick(c, d) \/ Leave(c)
               \/ Type(c) \/ FlushRoom
        PROVE  KeepsWindow(praxis, praxis') /\ KeepsApprovals(praxis, praxis')
    BY <1>3, <1>8, RequestsNarrow
  <1>9. praxis.creator \in Characters
    BY <1>1 DEF Typed, Rows
  <1> QED
    BY <1>4, <1>5, <1>6, <1>7, <1>8, <1>9, SubmitKeeps DEF Next, CancelInvite

-----------------------------------------------------------------------------
\* Nobody holds a proposal open by approving, joining or leaving: a running
\* countdown only advances, stops, or is cancelled.
THEOREM CountdownNeverRestarts == Spec => WindowNeverRestarts
  <1>1. ASSUME IInv, [Next]_vars
        PROVE  [praxis.window # NoWindow /\ praxis'.window # NoWindow =>
                  praxis'.window >= praxis.window]_vars
    BY <1>1, StepKeeps DEF KeepsWindow
  <1> QED
    BY <1>1, Invariance, PTL DEF Spec, WindowNeverRestarts

\* There is no partial pull-back: a member who stays loses an approval only
\* when every approval falls.
THEOREM NoPartialPullBack == Spec => ApprovalsFallTogether
  <1>1. ASSUME IInv, [Next]_vars
        PROVE  [\A c \in praxis.approved \cap praxis'.members :
                  c \notin praxis'.approved => praxis'.approved = {}]_vars
    BY <1>1, StepKeeps DEF KeepsApprovals
  <1> QED
    BY <1>1, Invariance, PTL DEF Spec, ApprovalsFallTogether

-----------------------------------------------------------------------------
(* Every handler takes one step of LazyConsensus or none: the crew gets    *)
(* what it is promised.                                                    *)

\* The promise's steps, as a relation of rows.
Rests(p, q) ==
    /\ q.status = p.status /\ q.members = p.members
    /\ p.status = "pending" =>
         /\ q.approved = p.approved
         /\ q.window = AutoSubmitDays <=> p.window = AutoSubmitDays

Drafts(p, q) == p.status \in {"none", "in_progress"} /\ q.status = "in_progress"

Proposes(p, q, c) ==
    /\ p.status = "in_progress" /\ c \in p.members /\ q.members = p.members
    /\ \/ p.members = {c} /\ q.status = "submitted"
       \/ /\ p.members # {c} /\ q.status = "pending"
          /\ q.approved = {c} /\ q.window # AutoSubmitDays

Concurs(p, q, c) ==
    /\ p.status = "pending" /\ c \in p.members /\ q.members = p.members
    /\ \/ p.members \subseteq p.approved \cup {c} /\ q.status = "submitted"
       \/ /\ ~(p.members \subseteq p.approved \cup {c})
          /\ q.status = "pending" /\ q.approved = p.approved \cup {c}
          /\ q.window = AutoSubmitDays <=> p.window = AutoSubmitDays

Departs(p, q, c) ==
    /\ p.status = "pending" /\ c \in p.members /\ q.members = p.members \ {c}
    /\ \/ q.members \subseteq p.approved /\ q.status = "submitted"
       \/ /\ ~(q.members \subseteq p.approved)
          /\ q.status = "pending" /\ q.approved = p.approved \ {c}
          /\ q.window = AutoSubmitDays <=> p.window = AutoSubmitDays

Joins(p, q, c) ==
    /\ p.status = "pending" /\ q.status = "pending"
    /\ q.members = p.members \cup {c} /\ q.approved = p.approved
    /\ q.window = AutoSubmitDays <=> p.window = AutoSubmitDays

Expires(p, q) ==
    /\ p.status = "pending" /\ q.status = "pending"
    /\ q.members = p.members /\ q.approved = p.approved /\ q.window = AutoSubmitDays

Ends(p, q) ==
    /\ p.status = "pending" /\ q.members \subseteq p.members
    /\ q.status = "in_progress" \/ (q.status = "submitted" /\ p.window = AutoSubmitDays)

Loses(p, q) == p.status = "submitted" /\ q.status = "submitted" /\ q.members \subseteq p.members

Reopens(p, q) == p.status = "submitted" /\ q.status = "in_progress" /\ q.members = p.members

Drops(p, q) == p.status \in {"in_progress", "pending"} /\ q.status = "none" /\ q.members = {}

Promised(p, q) ==
    \/ Rests(p, q)
    \/ Drafts(p, q)
    \/ \E c \in Characters :
         Proposes(p, q, c) \/ Concurs(p, q, c) \/ Departs(p, q, c) \/ Joins(p, q, c)
    \/ Expires(p, q)
    \/ Ends(p, q)
    \/ Loses(p, q)
    \/ Reopens(p, q)
    \/ Drops(p, q)

\* Related rows are a step of the promise, or none.
LEMMA PromisedIsPromise ==
    ASSUME IInv, IInv', Promised(praxis, praxis')
    PROVE  [Promise!Next]_(Promise!vars)
<1>1. /\ praxis.status \in {"none", "in_progress", "pending", "submitted"}
      /\ praxis'.status \in {"none", "in_progress", "pending", "submitted"}
      /\ praxis.members \subseteq Characters /\ praxis'.members \subseteq Characters
  BY DEF IInv, Sound, Typed, Rows
<1>2. /\ praxis.status = "none" <=> AbstractPhase = "none"
      /\ praxis.status = "in_progress" <=> AbstractPhase = "draft"
      /\ praxis.status = "pending" <=> AbstractPhase = "proposed"
      /\ praxis.status = "submitted" <=> AbstractPhase = "live"
  BY <1>1 DEF AbstractPhase
<1>3. /\ praxis'.status = "none" <=> AbstractPhase' = "none"
      /\ praxis'.status = "in_progress" <=> AbstractPhase' = "draft"
      /\ praxis'.status = "pending" <=> AbstractPhase' = "proposed"
      /\ praxis'.status = "submitted" <=> AbstractPhase' = "live"
  BY <1>1 DEF AbstractPhase
<1>4. CASE Drafts(praxis, praxis')
  <2>1. Promise!Draft
    BY <1>1, <1>2, <1>3, <1>4 DEF Drafts, Promise!Draft, Promise!NobodyAgrees, Proposed
  <2> QED
    BY <2>1 DEF Promise!Next
<1>5. CASE \E c \in Characters : Proposes(praxis, praxis', c)
  <2>1. PICK c \in Characters : Proposes(praxis, praxis', c)
    BY <1>5
  <2>2. Promise!Propose(c)
    BY <1>1, <1>2, <1>3, <2>1 DEF Proposes, Promise!Propose, Promise!NobodyAgrees, Proposed
  <2> QED
    BY <2>2 DEF Promise!Next
<1>6. CASE \E c \in Characters : Concurs(praxis, praxis', c)
  <2>1. PICK c \in Characters : Concurs(praxis, praxis', c)
    BY <1>6
  <2>2. Promise!Agree(c)
    BY <1>1, <1>2, <1>3, <2>1 DEF Concurs, Promise!Agree, Promise!NobodyAgrees, Proposed
  <2> QED
    BY <2>2 DEF Promise!Next
<1>7. CASE \E c \in Characters : Departs(praxis, praxis', c)
  <2>1. PICK c \in Characters : Departs(praxis, praxis', c)
    BY <1>7
  <2>2. Promise!Depart(c)
    BY <1>1, <1>2, <1>3, <2>1 DEF Departs, Promise!Depart, Promise!NobodyAgrees, Proposed
  <2> QED
    BY <2>2 DEF Promise!Next
<1>8. CASE \E c \in Characters : Joins(praxis, praxis', c)
  <2>1. PICK c \in Characters : Joins(praxis, praxis', c)
    BY <1>8
  <2>2. Promise!Join(c)
    BY <1>1, <1>2, <1>3, <2>1 DEF Joins, Promise!Join, Proposed
  <2> QED
    BY <2>2 DEF Promise!Next
<1>9. CASE Expires(praxis, praxis')
  <2>1. Promise!Expire
    BY <1>1, <1>2, <1>3, <1>9 DEF Expires, Promise!Expire, Proposed
  <2> QED
    BY <2>1 DEF Promise!Next
<1>10. CASE Ends(praxis, praxis')
  <2>1. Promise!Cancel \/ Promise!Silence
    BY <1>1, <1>2, <1>3, <1>10 DEF Ends, Promise!Cancel, Promise!Silence, Promise!NobodyAgrees, Proposed
  <2> QED
    BY <2>1 DEF Promise!Next
<1>11. CASE Loses(praxis, praxis')
  <2>1. Promise!LiveDepart
    BY <1>1, <1>2, <1>3, <1>11 DEF Loses, Promise!LiveDepart, Proposed
  <2> QED
    BY <2>1 DEF Promise!Next
<1>12. CASE Reopens(praxis, praxis')
  <2>1. Promise!Reopen
    BY <1>1, <1>2, <1>3, <1>12 DEF Reopens, Promise!Reopen, Promise!NobodyAgrees, Proposed
  <2> QED
    BY <2>1 DEF Promise!Next
<1>13. CASE Drops(praxis, praxis')
  <2>1. Promise!Discard
    BY <1>1, <1>2, <1>3, <1>13 DEF Drops, Promise!Discard, Promise!NobodyAgrees, Proposed
  <2> QED
    BY <2>1 DEF Promise!Next
<1>14. CASE Rests(praxis, praxis')
  <2>1. UNCHANGED Promise!vars
    BY <1>1, <1>2, <1>3, <1>14 DEF Rests, Promise!vars, Proposed
  <2> QED
    BY <2>1
<1> QED
  BY <1>4, <1>5, <1>6, <1>7, <1>8, <1>9, <1>10, <1>11, <1>12, <1>13, <1>14 DEF Promised

-----------------------------------------------------------------------------
(* What the service functions make of a row, for the promise.              *)

\* Only a proposal lapses, and it is published with its whole crew.
LEMMA SettleIs ==
    ASSUME IInv
    PROVE  /\ ~Lapsed(praxis) => Settle(praxis) = praxis
           /\ Lapsed(praxis) =>
                /\ praxis.status = "pending" /\ praxis.window = AutoSubmitDays
                /\ Settle(praxis).status = "submitted"
           /\ Settle(praxis).members = praxis.members
           /\ Settle(praxis).type = praxis.type
           /\ Settle(praxis).creator = praxis.creator
           /\ praxis.status = "none" => Settle(praxis) = praxis
           /\ Sound(Settle(praxis))
<1>1. Sound(praxis) /\ Sound(Settle(praxis))
  BY SettleSound DEF IInv
<1>2. AutoSubmitDays # NoWindow /\ AutoSubmitDays \in Nat
  BY DaysAssumption DEF NoWindow
<1>3. Lapsed(praxis) => praxis.status = "pending" /\ praxis.window = AutoSubmitDays
  BY <1>1, <1>2 DEF Lapsed, Drafting, Sound, Agrees
<1>4. /\ Seal(praxis).status = "submitted" /\ Seal(praxis).members = praxis.members
      /\ Seal(praxis).type = praxis.type /\ Seal(praxis).creator = praxis.creator
  BY <1>1 DEF Seal, Sound, Typed, Rows
<1> QED
  BY <1>1, <1>3, <1>4 DEF Settle

\* What a row still has between a departure and the conversion it may bring.
Put(p) == Typed(p) /\ (p.status = "pending" => p.type = "collab" /\ p.window # NoWindow)

LEMMA SoundIsPut == \A p : Sound(p) => Put(p)
BY DEF Put, Sound, Agrees

\* Drafting again, with the same crew.
LEMMA BackIs ==
    ASSUME NEW p, Put(p)
    PROVE  /\ BackToDrafting(p).status = "in_progress"
           /\ BackToDrafting(p).members = p.members
BY DEF BackToDrafting, ClearApprovals, Put, Typed, Rows

\* An edit takes a proposal or a live collab back, and nothing else.
LEMMA EditIs ==
    ASSUME NEW p, Put(p)
    PROVE  /\ OnMemberEdit(p).members = p.members
           /\ p.status = "pending" => OnMemberEdit(p).status = "in_progress"
           /\ OnMemberEdit(p).status = "in_progress" \/ OnMemberEdit(p) = p
BY BackIs DEF OnMemberEdit, Put

\* A conversion keeps one of the crew, and stops what was proposed.
LEMMA ConvertIs ==
    ASSUME NEW p, Put(p), NEW c
    PROVE  /\ ConvertToSolo(p, c).members = p.members \cap {c}
           /\ p.status = "submitted" => ConvertToSolo(p, c).status = "submitted"
           /\ p.status \in {"pending", "in_progress"} => ConvertToSolo(p, c).status = "in_progress"
<1> DEFINE q == IF p.status # "submitted" THEN OnMemberEdit(p) ELSE p
<1>1. /\ q.members = p.members
      /\ p.status = "submitted" => q.status = "submitted"
      /\ p.status \in {"pending", "in_progress"} => q.status = "in_progress"
  BY EditIs
<1>2. DOMAIN q = DOMAIN p
  BY DEF OnMemberEdit, BackToDrafting, ClearApprovals
<1>3. ConvertToSolo(p, c) = [q EXCEPT !.type = "solo", !.creator = c, !.members = @ \cap {c},
         !.approved = @ \cap {c}, !.stale = @ \cap {c}, !.invites = {}]
  BY DEF ConvertToSolo
<1>4. {"type", "status", "creator", "members", "approved", "stale", "invites"} \subseteq DOMAIN p
  BY DEF Put, Typed, Rows
<1> HIDE DEF q
<1> QED
  BY <1>1, <1>2, <1>3, <1>4

-----------------------------------------------------------------------------
(* The actions.                                                            *)

\* A praxis starts as a draft.
LEMMA CreatePromised ==
    ASSUME IInv, NEW c \in Characters, NEW t, Create(c, t)
    PROVE  Promised(praxis, praxis')
BY DEF Create, Exists, NewRow, Promised, Drafts

\* A reader notices the silence.
LEMMA ReadPromised == ASSUME IInv, Read PROVE Promised(praxis, praxis')
BY SettleIs DEF Read, Promised, Ends

\* A withdrawal or a reopening, over a window that may have lapsed.
LEMMA UnsubmitPromised ==
    ASSUME IInv, NEW c \in Characters, Unsubmit(c)
    PROVE  Promised(praxis, praxis')
<1>1. praxis'.status = "in_progress" /\ praxis'.members = praxis.members
  BY SettleIs, SoundIsPut, EditIs, BackIs DEF Unsubmit
<1>2. praxis.status \in {"none", "in_progress", "pending", "submitted"}
  BY DEF IInv, Sound, Typed, Rows
<1> QED
  BY <1>1, <1>2 DEF Promised, Drafts, Ends, Reopens

\* An edit of media, over a window that may have lapsed.
LEMMA EditMediaPromised ==
    ASSUME IInv, NEW c \in Characters, EditMedia(c)
    PROVE  Promised(praxis, praxis')
<1>1. praxis' = OnMemberEdit(Settle(praxis))
  BY DEF EditMedia
<1>2. /\ praxis'.members = praxis.members
      /\ praxis'.status = "in_progress" \/ praxis' = Settle(praxis)
      /\ Settle(praxis).status = "pending" => praxis'.status = "in_progress"
  BY <1>1, SettleIs, SoundIsPut, EditIs
<1>3. praxis.status \in {"none", "in_progress", "pending", "submitted"}
  BY DEF IInv, Sound, Typed, Rows
<1>4. CASE praxis'.status = "in_progress"
  BY <1>2, <1>3, <1>4 DEF Promised, Drafts, Ends, Reopens
<1>5. CASE praxis' = Settle(praxis)
  BY <1>2, <1>3, <1>5, SettleIs DEF Promised, Rests, Ends
<1> QED
  BY <1>2, <1>4, <1>5

\* An invitation is nothing to the crew.
LEMMA InvitePromised ==
    ASSUME IInv, NEW c \in Characters, NEW d \in Characters, Invite(c, d)
    PROVE  Promised(praxis, praxis')
<1>1. Settle(praxis) = praxis
  BY SettleIs DEF Invite, Drafting
<1>2. praxis' = [praxis EXCEPT !.invites = @ \cup {<<c, d>>}]
  BY <1>1 DEF Invite
<1>3. /\ praxis'.status = praxis.status /\ praxis'.members = praxis.members
      /\ praxis'.approved = praxis.approved /\ praxis'.window = praxis.window
  BY <1>2
<1> QED
  BY <1>3 DEF Promised, Rests

\* Nor is its end.
LEMMA DropInvitePromised ==
    ASSUME IInv, NEW c, NEW d, DropInvite(c, d)
    PROVE  Promised(praxis, praxis')
<1>1. praxis' = [praxis EXCEPT !.invites = @ \ {<<c, d>>}]
  BY DEF DropInvite
<1>2. /\ praxis'.status = praxis.status /\ praxis'.members = praxis.members
      /\ praxis'.approved = praxis.approved /\ praxis'.window = praxis.window
  BY <1>1
<1> QED
  BY <1>2 DEF Promised, Rests

\* Nor is a keystroke, until it is flushed.
LEMMA TypePromised ==
    ASSUME IInv, NEW c \in Characters, Type(c)
    PROVE  Promised(praxis, praxis')
<1>1. praxis' = [praxis EXCEPT !.dirty = TRUE, !.stale = @ \cup praxis.approved]
  BY DEF Type
<1>2. /\ praxis'.status = praxis.status /\ praxis'.members = praxis.members
      /\ praxis'.approved = praxis.approved /\ praxis'.window = praxis.window
  BY <1>1
<1> QED
  BY <1>2 DEF Promised, Rests

\* One joins a draft, or a proposal without a say yet.
LEMMA AcceptInvitePromised ==
    ASSUME IInv, NEW c \in Characters, NEW d \in Characters, AcceptInvite(c, d)
    PROVE  Promised(praxis, praxis')
<1>1. praxis.status \in {"in_progress", "pending"}
  BY DEF AcceptInvite, IInv, Sound, Absent, Typed, Rows
<1>2. praxis' = [praxis EXCEPT !.invites = @ \ {<<c, d>>}, !.members = @ \cup {d}]
  BY DEF AcceptInvite
<1>3. "members" \in DOMAIN praxis
  BY DEF IInv, Sound, Typed, Rows
<1>4. /\ praxis'.status = praxis.status /\ praxis'.members = praxis.members \cup {d}
      /\ praxis'.approved = praxis.approved /\ praxis'.window = praxis.window
  BY <1>2, <1>3
<1>5. CASE praxis.status = "in_progress"
  BY <1>4, <1>5 DEF Promised, Drafts
<1>6. CASE praxis.status = "pending"
  BY <1>4, <1>6 DEF Promised, Joins
<1> QED
  BY <1>1, <1>5, <1>6

\* A praxis is dropped before it is public.
LEMMA DeletePromised ==
    ASSUME IInv, NEW c \in Characters, Delete(c)
    PROVE  Promised(praxis, praxis')
<1>1. Settle(praxis) = praxis
  BY SettleIs DEF Delete
<1>2. praxis' = DroppedRow(praxis) /\ praxis.status \notin {"none", "submitted"}
  BY <1>1 DEF Delete, Exists
<1>3. /\ praxis.status \in {"none", "in_progress", "pending", "submitted"}
      /\ {"status", "members"} \subseteq DOMAIN praxis
  BY DEF IInv, Sound, Typed, Rows
<1>4. praxis'.status = "none" /\ praxis'.members = {}
  BY <1>2, <1>3 DEF DroppedRow
<1> QED
  BY <1>2, <1>3, <1>4 DEF Promised, Drops

\* A takeover stops a proposal; a solo praxis that turns collab is a draft.
LEMMA ChangeTypePromised ==
    ASSUME IInv, NEW c \in Characters, ChangeType(c)
    PROVE  Promised(praxis, praxis')
<1>1. Settle(praxis) = praxis /\ Drafting(praxis)
  BY SettleIs DEF ChangeType, Drafting
<1>2. /\ praxis' = IF praxis.type = "solo" THEN [praxis EXCEPT !.type = "collab"]
                   ELSE ConvertToSolo(praxis, c)
      /\ Sound(praxis)
  BY <1>1 DEF ChangeType, IInv
<1>3. praxis.type = "solo" => praxis.status = "in_progress"
  BY <1>1, <1>2 DEF Drafting, Sound, Agrees
<1>4. CASE praxis.type = "solo"
  <2>1. praxis'.status = praxis.status
    BY <1>2, <1>4
  <2> QED
    BY <1>3, <1>4, <2>1 DEF Promised, Drafts
<1>5. CASE praxis.type # "solo"
  <2>1. praxis'.status = "in_progress" /\ praxis'.members = praxis.members \cap {c}
    BY <1>1, <1>2, <1>5, SoundIsPut, ConvertIs DEF Drafting
  <2> QED
    BY <1>1, <2>1 DEF Drafting, Promised, Drafts, Ends
<1> QED
  BY <1>4, <1>5

\* A kick is a draft again, of fewer.
LEMMA KickPromised ==
    ASSUME IInv, NEW c \in Characters, NEW d \in Characters, Kick(c, d)
    PROVE  Promised(praxis, praxis')
<1>1. Settle(praxis) = praxis /\ Drafting(praxis)
  BY SettleIs DEF Kick, Drafting
<1>2. praxis' = BackToDrafting(Without(praxis, d)) /\ Typed(praxis)
  BY <1>1 DEF Kick, OnMemberKicked, IInv, Sound
<1>3. Typed(Without(praxis, d)) /\ Without(praxis, d).members = praxis.members \ {d}
  BY <1>2, WithoutRow
<1>4. praxis'.status = "in_progress" /\ praxis'.members = praxis.members \ {d}
  BY <1>2, <1>3 DEF BackToDrafting, ClearApprovals, Typed, Rows
<1> QED
  BY <1>1, <1>4 DEF Drafting, Promised, Drafts, Ends

\* A flush under a proposal cancels it.
LEMMA FlushPromised == ASSUME IInv, FlushRoom PROVE Promised(praxis, praxis')
<1> DEFINE q == [praxis EXCEPT !.dirty = FALSE]
<1>1. praxis' = OnRoomEdit(q)
  BY DEF FlushRoom
<1>2. /\ q.status = praxis.status /\ q.members = praxis.members /\ q.type = praxis.type
      /\ q.approved = praxis.approved /\ q.window = praxis.window /\ DOMAIN q = DOMAIN praxis
  OBVIOUS
<1>3. Sound(praxis)
  BY DEF IInv
<1> HIDE DEF q
<1>4. CASE q.window = NoWindow
  BY <1>1, <1>2, <1>4 DEF OnRoomEdit, Promised, Rests
<1>5. CASE q.window # NoWindow
  <2>1. praxis' = BackToDrafting(q) /\ praxis.status = "pending"
    BY <1>1, <1>2, <1>3, <1>5 DEF OnRoomEdit, OnMemberEdit, Sound, Agrees
  <2>2. {"status", "members"} \subseteq DOMAIN praxis
    BY <1>3 DEF Sound, Typed, Rows
  <2>3. praxis'.status = "in_progress" /\ praxis'.members = praxis.members
    BY <1>2, <2>1, <2>2 DEF BackToDrafting, ClearApprovals
  <2> QED
    BY <2>1, <2>3 DEF Promised, Ends
<1> QED
  BY <1>4, <1>5

\* The last day of the window is its expiry.
LEMMA DayPromised == ASSUME IInv, DayPasses PROVE Promised(praxis, praxis')
<1>1. praxis' = [praxis EXCEPT !.window = @ + 1] /\ praxis.window \in 0 .. (AutoSubmitDays - 1)
  BY DEF DayPasses
<1>2. /\ praxis.status = "pending"
      /\ "window" \in DOMAIN praxis
  BY <1>1 DEF IInv, Sound, Agrees, Typed, Rows, NoWindow
<1>3. /\ praxis'.status = praxis.status /\ praxis'.members = praxis.members
      /\ praxis'.approved = praxis.approved /\ praxis'.window = praxis.window + 1
  BY <1>1, <1>2
<1>4. praxis.window # AutoSubmitDays
  BY <1>1, DaysAssumption
<1> QED
  BY <1>2, <1>3, <1>4 DEF Promised, Expires, Rests

\* An approval: the last one publishes, and so does one that notices the silence.
LEMMA SubmitPromised ==
    ASSUME IInv, NEW c \in Characters, Submit(c)
    PROVE  Promised(praxis, praxis')
<1> DEFINE a == Approve(praxis, c)
           q == OnSubmit(praxis, c)
<1>1. c \in praxis.members /\ praxis' = Settle(q) /\ Sound(praxis)
  BY DEF Submit, IInv
<1>2. /\ Typed(praxis) /\ Agrees(praxis) /\ Owned(praxis)
      /\ praxis.status \in {"in_progress", "pending", "submitted"}
      /\ {"status", "sealed", "window", "approved", "dirty"} \subseteq DOMAIN praxis
  BY <1>1 DEF Sound, Absent, Typed, Rows
<1>3. /\ a.status = praxis.status /\ a.members = praxis.members /\ a.type = praxis.type
      /\ a.window = praxis.window /\ a.approved = praxis.approved \cup {c}
      /\ DOMAIN a = DOMAIN praxis
  BY <1>2 DEF Approve
<1>4. q = IF Unanimous(a) THEN Seal(a) ELSE IF a.type = "collab" THEN OpenWindow(a) ELSE a
  BY DEF OnSubmit
<1> HIDE DEF a, q
<1>5. CASE Unanimous(a)
  <2>1. q.status = "submitted" /\ q.members = praxis.members
    BY <1>2, <1>3, <1>4, <1>5 DEF Seal
  <2>2. praxis' = q
    BY <1>1, <2>1 DEF Settle, Lapsed, Drafting
  <2>3. praxis.members \subseteq praxis.approved \cup {c}
    BY <1>3, <1>5 DEF Unanimous
  <2>4. praxis.status = "in_progress" => praxis.members = {c}
    BY <1>1, <1>2, <2>3 DEF Agrees
  <2> QED
    BY <1>1, <1>2, <2>1, <2>2, <2>3, <2>4 DEF Promised, Proposes, Concurs, Loses
<1>6. CASE ~Unanimous(a)
  <2>1. ~(praxis.members \subseteq praxis.approved \cup {c})
    BY <1>3, <1>6 DEF Unanimous
  <2>2. praxis.status # "submitted" /\ praxis.type = "collab"
    BY <1>1, <1>2, <2>1 DEF Agrees, Owned, Typed, Rows
  <2>3. q = OpenWindow(a)
    BY <1>3, <1>4, <1>6, <2>2
  <2>4. /\ q.status = "pending" /\ q.members = praxis.members /\ q.type = "collab"
        /\ q.approved = praxis.approved \cup {c}
        /\ q.window = IF praxis.window = NoWindow THEN 0 ELSE praxis.window
        /\ DOMAIN q = DOMAIN praxis
    BY <1>2, <1>3, <2>2, <2>3 DEF OpenWindow
  <2>5. 0 # AutoSubmitDays
    BY DaysAssumption
  <2>6. praxis.members # {c}
    BY <2>1
  <2>7. CASE praxis.status = "in_progress"
    <3>1. praxis.window = NoWindow /\ praxis.approved = {}
      BY <1>2, <2>7 DEF Agrees
    <3>2. praxis' = q
      BY <1>1, <2>4, <2>5, <3>1 DEF Settle, Lapsed
    <3> QED
      BY <1>1, <2>4, <2>5, <2>6, <2>7, <3>1, <3>2 DEF Promised, Proposes
  <2>8. CASE praxis.status = "pending"
    <3>1. q.window = praxis.window
      BY <1>2, <2>4, <2>8 DEF Agrees
    <3>2. CASE praxis.window = AutoSubmitDays
      <4>1. praxis' = Seal(q)
        BY <1>1, <2>4, <3>1, <3>2 DEF Settle, Lapsed, Drafting
      <4>2. praxis'.status = "submitted" /\ praxis'.members = praxis.members
        BY <1>2, <2>4, <4>1 DEF Seal
      <4> QED
        BY <2>8, <3>2, <4>2 DEF Promised, Ends
    <3>3. CASE praxis.window # AutoSubmitDays
      <4>1. praxis' = q
        BY <1>1, <3>1, <3>3 DEF Settle, Lapsed
      <4> QED
        BY <1>1, <2>1, <2>4, <2>8, <3>1, <4>1 DEF Promised, Concurs
    <3> QED
      BY <3>2, <3>3
  <2> QED
    BY <1>2, <2>2, <2>7, <2>8
<1> QED
  BY <1>5, <1>6

\* What a departure makes of a sound row.
LEMMA LeaveIs ==
    ASSUME NEW p, Sound(p), p.type = "collab", NEW c \in p.members, NEW w, w = Without(p, c)
    PROVE  /\ OnMemberLeave(w).members = p.members \ {c}
           /\ p.status = "submitted" => OnMemberLeave(w).status = "submitted"
           /\ p.status = "in_progress" => OnMemberLeave(w).status = "in_progress"
           /\ p.status = "pending" =>
                IF p.members \ {c} \subseteq p.approved
                THEN OnMemberLeave(w).status = "submitted"
                ELSE OnMemberLeave(w).status = "in_progress" \/ OnMemberLeave(w) = w
<1> DEFINE q == SealIfReleased(w)
<1>1. /\ Typed(p) /\ Agrees(p) /\ p.status # "none"
  BY DEF Sound, Absent
<1>2. /\ Typed(w) /\ w.type = "collab" /\ w.status = p.status /\ w.window = p.window
      /\ w.members = p.members \ {c} /\ w.approved = p.approved \ {c}
  BY <1>1, WithoutRow
<1>3. Put(w) /\ {"type", "status", "sealed", "window", "approved", "dirty"} \subseteq DOMAIN w
  BY <1>1, <1>2 DEF Put, Agrees, Typed, Rows
<1>4. w.status \in {"in_progress", "pending", "submitted"}
  BY <1>1, <1>2 DEF Typed, Rows
<1>5. w.status = "in_progress" /\ w.members # {} => ~Unanimous(w)
  BY <1>1, <1>2 DEF Agrees, Unanimous
<1>6. w.status = "pending" =>
        /\ w.members # {}
        /\ Unanimous(w) <=> p.members \ {c} \subseteq p.approved
  BY <1>1, <1>2 DEF Agrees, Unanimous, IsSingleton, Typed
<1>7. q = IF w.members # {} /\ w.status # "submitted" /\ Unanimous(w) THEN Seal(w) ELSE w
  BY DEF SealIfReleased
<1>8. OnMemberLeave(w) = IF q.type = "collab" /\ IsSingleton(q.members)
                         THEN ConvertToSolo(q, CHOOSE d \in q.members : TRUE) ELSE q
  BY DEF OnMemberLeave
<1> HIDE DEF q
<1>9. /\ q.members = w.members
      /\ q = w \/ (q.status = "submitted" /\ w.status = "pending" /\ Unanimous(w))
      /\ w.status = "pending" /\ Unanimous(w) => q.status = "submitted"
      /\ Put(q)
  <2>1. CASE w.members # {} /\ w.status # "submitted" /\ Unanimous(w)
    <3>1. q = Seal(w) /\ w.status = "pending"
      BY <1>4, <1>5, <1>7, <2>1
    <3>2. Seal(w).status = "submitted" /\ Seal(w).members = w.members
      BY <1>3 DEF Seal
    <3>3. Typed(Seal(w))
      BY <1>2, Columns DEF Seal, Typed, Rows, NextReading, Unsealed
    <3> QED
      BY <2>1, <3>1, <3>2, <3>3 DEF Put
  <2>2. CASE ~(w.members # {} /\ w.status # "submitted" /\ Unanimous(w))
    BY <1>3, <1>6, <1>7, <2>2
  <2> QED
    BY <2>1, <2>2
<1>10. CASE q.type = "collab" /\ IsSingleton(q.members)
  <2>1. PICK d : d = CHOOSE e \in q.members : TRUE
    OBVIOUS
  <2>2. q.members \cap {d} = q.members
    BY <1>10, <2>1 DEF IsSingleton
  <2>3. OnMemberLeave(w) = ConvertToSolo(q, d)
    BY <1>8, <1>10, <2>1
  <2> QED
    BY <1>2, <1>4, <1>6, <1>9, <2>2, <2>3, ConvertIs
<1>11. CASE ~(q.type = "collab" /\ IsSingleton(q.members))
  <2>1. OnMemberLeave(w) = q
    BY <1>8, <1>11
  <2> QED
    BY <1>2, <1>4, <1>6, <1>9, <2>1
<1> QED
  BY <1>10, <1>11

\* A departure, over a window that may have lapsed.
LEMMA LeavePromised ==
    ASSUME IInv, NEW c \in Characters, Leave(c)
    PROVE  Promised(praxis, praxis')
<1>1. PICK p : p = Settle(praxis)
  OBVIOUS
<1>2. PICK w : w = Without(p, c)
  OBVIOUS
<1>3. /\ Sound(p) /\ p.type = "collab" /\ c \in p.members /\ p.members = praxis.members
      /\ praxis' = OnMemberLeave(w)
  BY <1>1, <1>2, SettleIs DEF Leave
<1>4. /\ praxis'.members = praxis.members \ {c}
      /\ p.status = "submitted" => praxis'.status = "submitted"
      /\ p.status = "in_progress" => praxis'.status = "in_progress"
      /\ p.status = "pending" =>
           IF p.members \ {c} \subseteq p.approved
           THEN praxis'.status = "submitted"
           ELSE praxis'.status = "in_progress" \/ praxis' = w
  BY <1>2, <1>3, LeaveIs
<1>5. CASE Lapsed(praxis)
  <2>1. praxis.status = "pending" /\ praxis.window = AutoSubmitDays /\ p.status = "submitted"
    BY <1>1, <1>5, SettleIs
  <2> QED
    BY <1>4, <2>1 DEF Promised, Ends
<1>6. CASE ~Lapsed(praxis)
  <2>1. p = praxis
    BY <1>1, <1>6, SettleIs
  <2>2. praxis.status \in {"in_progress", "pending", "submitted"} /\ Typed(praxis)
    BY <1>3, <2>1 DEF Sound, Absent, Typed, Rows
  <2>3. w.status = praxis.status /\ w.window = praxis.window /\ w.approved = praxis.approved \ {c}
    BY <1>2, <2>1, <2>2, WithoutRow
  <2>4. CASE praxis.status = "in_progress"
    BY <1>4, <2>1, <2>4 DEF Promised, Drafts
  <2>5. CASE praxis.status = "submitted"
    BY <1>4, <2>1, <2>5 DEF Promised, Loses
  <2>6. CASE praxis.status = "pending"
    BY <1>3, <1>4, <2>1, <2>3, <2>6 DEF Promised, Departs, Ends
  <2> QED
    BY <2>2, <2>4, <2>5, <2>6
<1> QED
  BY <1>5, <1>6

-----------------------------------------------------------------------------
(* The refinement.                                                         *)

\* The rows a praxis starts with are where the promise starts.
LEMMA InitPromised == Init => Promise!Init
<1> SUFFICES ASSUME Init PROVE Promise!Init
  OBVIOUS
<1>1. PICK c \in Characters, t \in {"solo", "collab"} : praxis = NewRow(c, t)
  BY DEF Init
<1>2. praxis.status = "in_progress" /\ praxis.members = {c}
  BY <1>1 DEF NewRow
<1>3. AbstractPhase = "draft"
  BY <1>2 DEF AbstractPhase
<1> QED
  BY <1>2, <1>3 DEF Promise!Init, Proposed

\* Every handler keeps the promise for a step.
LEMMA StepPromised == IInv /\ IInv' /\ [Next]_vars => [Promise!Next]_(Promise!vars)
<1> SUFFICES ASSUME IInv, IInv', [Next]_vars PROVE Promised(praxis, praxis')
  BY PromisedIsPromise
<1>1. CASE UNCHANGED vars
  BY <1>1 DEF vars, Promised, Rests
<1>2. CASE Next
  <2>1. ASSUME NEW m \in Characters, NEW c \in Characters, NEW d \in Characters,
               CancelInvite(m, c, d)
        PROVE  Promised(praxis, praxis')
    BY <2>1, DropInvitePromised DEF CancelInvite
  <2> QED
    BY <1>2, <2>1, CreatePromised, ReadPromised, SubmitPromised, UnsubmitPromised,
       ChangeTypePromised, DeletePromised, EditMediaPromised, InvitePromised,
       AcceptInvitePromised, DropInvitePromised, KickPromised, LeavePromised, TypePromised,
       FlushPromised, DayPromised DEF Next
<1> QED
  BY <1>1, <1>2

\* The request handlers implement lazy consensus: whatever a crew does to its
\* praxis, in whatever order, is something ADR-0012 and ADR-0079 promise it.
THEOREM Refinement == Spec => KeepsThePromise
BY InitPromised, StepPromised, Invariance, PTL DEF Spec, KeepsThePromise, Promise!Spec
==============================================================================
