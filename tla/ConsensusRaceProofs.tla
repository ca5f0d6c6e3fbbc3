-------------------------- MODULE ConsensusRaceProofs --------------------------
(***************************************************************************)
(* What overlapping requests keep, for every crew, every window length and *)
(* any number of them.                                                     *)
(*                                                                         *)
(* An overlap can leave a row that no sequence of requests would, so the   *)
(* invariants of CollabPraxis are not to be had: a row is known to be in   *)
(* its domains (Row) and no more.  Each open request is known by what its  *)
(* handler made of the row it loaded (Handled), and a member whose own row *)
(* is locked by a submission by what others cannot have written (Holds).   *)
(***************************************************************************)
EXTENDS ConsensusRace, CollabPraxisProofs

Row(p) == Typed(p) /\ p.status # "none"

Handled(a, t) ==
    \/ /\ t.does = "submit"
       /\ a \in t.was.members
       /\ t.now = Settle(OnSubmit(t.was, a))
    \/ /\ t.does = "media"
       /\ a \in t.was.members
       /\ ~Lapsed(t.was)
       /\ t.now = OnMemberEdit(t.was)
    \/ /\ t.does = "withdraw"
       /\ a \in t.was.members
       /\ ~Lapsed(t.was)
       /\ t.was.status # "in_progress"
       /\ t.now = IF t.was.status = "pending" THEN OnMemberEdit(t.was)
                  ELSE BackToDrafting(t.was)
    \/ /\ t.does = "leave"
       /\ t.was.type = "collab"
       /\ a \in t.was.members
       /\ ~Lapsed(t.was)
       /\ t.now = OnMemberLeave(Without(t.was, a))
    \/ /\ t.does = "read"
       /\ Lapsed(t.was)
       /\ t.now = Settle(t.was)
    \/ /\ t.does = "flush"
       /\ t.was.dirty
       /\ t.now = OnRoomEdit([t.was EXCEPT !.dirty = FALSE])

Request(a, t) ==
    /\ t = [does |-> t.does, was |-> t.was, now |-> t.now, waits |-> t.waits]
    /\ t.does \in Requests
    /\ t.waits \in BOOLEAN
    /\ Row(t.was)
    /\ Handled(a, t)

Holds(a, t, p) ==
    t.does = "submit" =>
        /\ a \in p.members
        /\ a \in p.approved <=> a \in t.was.approved

RaceInv ==
    /\ Row(praxis)
    /\ tx = [a \in Agents |-> tx[a]]
    /\ \A a \in Open : Request(a, tx[a]) /\ Holds(a, tx[a], praxis)

-----------------------------------------------------------------------------
(* What a handler makes of a row, be it sound or not.                      *)

\* The columns _apply_seal writes.
LEMMA RowSeal ==
    ASSUME NEW p, Row(p)
    PROVE  /\ Row(Seal(p))
           /\ Seal(p).status = "submitted"
           /\ Seal(p).window = NoWindow
           /\ Seal(p).type = p.type
           /\ Seal(p).members = p.members
           /\ Seal(p).approved = p.members
  <1>1. /\ Seal(p).status = "submitted"
        /\ Seal(p).window = NoWindow
        /\ Seal(p).type = p.type
        /\ Seal(p).members = p.members
        /\ Seal(p).approved = p.members
        /\ Seal(p).stale = p.stale
    BY DEF Seal, Row, Typed, Rows
  <1>2. NextReading(p.sealed) \in {1, 2}
    BY DEF NextReading
  <1>3. Seal(p) \in Rows
    BY <1>2, Columns DEF Seal, Row, Typed, Rows
  <1> QED
    BY <1>1, <1>3 DEF Row, Typed

\* The lazy timeout, on a row that need not be sound.
LEMMA RowSettle ==
    ASSUME NEW p, Row(p)
    PROVE  Row(Settle(p)) /\ Settle(p).members = p.members
  BY RowSeal DEF Settle

\* The columns a return to drafting writes.
LEMMA RowBack ==
    ASSUME NEW p, Row(p)
    PROVE  /\ Row(BackToDrafting(p))
           /\ BackToDrafting(p).members = p.members
           /\ BackToDrafting(p).approved = {}
           /\ BackToDrafting(p).status = "in_progress"
           /\ BackToDrafting(p).type = p.type
  <1> DEFINE q == BackToDrafting(p)
  <1>1. /\ q.status = "in_progress"
        /\ q.type = p.type
        /\ q.members = p.members
        /\ q.approved = {}
        /\ q.stale = {}
    BY DEF BackToDrafting, ClearApprovals, Row, Typed, Rows
  <1>2. q \in Rows
    BY Columns DEF BackToDrafting, ClearApprovals, Row, Typed, Rows
  <1> HIDE DEF q
  <1>3. Row(q)
    BY <1>1, <1>2 DEF Row, Typed
  <1> QED
    BY <1>1, <1>3 DEF q

\* And an edit.
LEMMA RowEdit ==
    ASSUME NEW p, Row(p)
    PROVE  /\ Row(OnMemberEdit(p))
           /\ OnMemberEdit(p).members = p.members
           /\ OnMemberEdit(p).type = p.type
  BY RowBack DEF OnMemberEdit

\* The room's flush.
LEMMA RowFlush ==
    ASSUME NEW p, Row(p)
    PROVE  LET q == OnRoomEdit([p EXCEPT !.dirty = FALSE])
           IN  Row(q) /\ q.members = p.members
  <1> DEFINE r == [p EXCEPT !.dirty = FALSE]
  <1>1. /\ r \in Rows
        /\ r.members = p.members
        /\ r.approved = p.approved
        /\ r.stale = p.stale
        /\ r.status = p.status
    BY DEF Row, Typed, Rows
  <1> HIDE DEF r
  <1>2. Row(r)
    BY <1>1 DEF Row, Typed
  <1>3. Row(OnRoomEdit(r)) /\ OnRoomEdit(r).members = p.members
    BY <1>1, <1>2, RowEdit DEF OnRoomEdit
  <1> QED
    BY <1>3 DEF r

\* The columns an approval writes, and the window it may open.
LEMMA RowApprove ==
    ASSUME NEW p, Row(p), NEW c \in p.members
    PROVE  /\ Row(Approve(p, c))
           /\ Approve(p, c).type = p.type
           /\ Approve(p, c).status = p.status
           /\ Approve(p, c).window = p.window
           /\ Approve(p, c).members = p.members
           /\ Approve(p, c).approved = p.approved \cup {c}
  <1> DEFINE q == Approve(p, c)
  <1>1. /\ q.type = p.type
        /\ q.status = p.status
        /\ q.window = p.window
        /\ q.members = p.members
        /\ q.approved = p.approved \cup {c}
        /\ q.stale = p.stale \ {c}
        /\ q \in Rows
    BY DEF Approve, Row, Typed, Rows
  <1> HIDE DEF q
  <1>2. Row(q)
    BY <1>1 DEF Row, Typed
  <1> QED
    BY <1>1, <1>2 DEF q

LEMMA RowOpen ==
    ASSUME NEW p, Row(p)
    PROVE  /\ Row(OpenWindow(p))
           /\ OpenWindow(p).type = p.type
           /\ OpenWindow(p).status = "pending"
           /\ OpenWindow(p).window = IF p.window = NoWindow THEN 0 ELSE p.window
           /\ OpenWindow(p).members = p.members
           /\ OpenWindow(p).approved = p.approved
  <1> DEFINE q == OpenWindow(p)
  <1>1. /\ q.type = p.type
        /\ q.status = "pending"
        /\ q.window = IF p.window = NoWindow THEN 0 ELSE p.window
        /\ q.members = p.members
        /\ q.approved = p.approved
        /\ q.stale = p.stale
    BY DEF OpenWindow, Row, Typed, Rows
  <1>2. q \in Rows
    BY Columns DEF OpenWindow, Row, Typed, Rows
  <1> HIDE DEF q
  <1>3. Row(q)
    BY <1>1, <1>2 DEF Row, Typed
  <1> QED
    BY <1>1, <1>3 DEF q

\* A submission.
LEMMA RowSubmit ==
    ASSUME NEW p, Row(p), NEW c \in p.members
    PROVE  LET q == Settle(OnSubmit(p, c))
           IN  Row(q) /\ q.members = p.members
  <1> DEFINE o == OnSubmit(p, c)
  <1>1. Row(o) /\ o.members = p.members
    BY RowApprove, RowSeal, RowOpen DEF OnSubmit
  <1> HIDE DEF o
  <1>2. Row(Settle(o)) /\ Settle(o).members = p.members
    BY <1>1, RowSettle
  <1> QED
    BY <1>2 DEF o

\* A conversion to solo.
LEMMA RowConvert ==
    ASSUME NEW p, Row(p), NEW c \in Characters
    PROVE  /\ Row(ConvertToSolo(p, c))
           /\ ConvertToSolo(p, c).members = p.members \cap {c}
  <1> DEFINE q == IF p.status # "submitted" THEN OnMemberEdit(p) ELSE p
             r == ConvertToSolo(p, c)
  <1>1. Row(q) /\ q.members = p.members
    BY RowEdit
  <1>2. r = [q EXCEPT !.type = "solo", !.creator = c,
                      !.members = @ \cap {c}, !.approved = @ \cap {c},
                      !.stale = @ \cap {c}, !.invites = {}]
    BY DEF ConvertToSolo
  <1> HIDE DEF q, r
  <1>3. /\ r \in Rows
        /\ r.status = q.status
        /\ r.members = q.members \cap {c}
        /\ r.approved = q.approved \cap {c}
        /\ r.stale = q.stale \cap {c}
    BY <1>1, <1>2 DEF Row, Typed, Rows
  <1>4. Row(r) /\ r.members = p.members \cap {c}
    BY <1>1, <1>3 DEF Row, Typed
  <1> QED
    BY <1>4 DEF r

\* A departure takes the leaver's row and no other.
LEMMA RowLeave ==
    ASSUME NEW p, Row(p), NEW c
    PROVE  LET q == OnMemberLeave(Without(p, c))
           IN  Row(q) /\ q.members = p.members \ {c}
  <1> DEFINE w == Without(p, c)
             q == SealIfReleased(w)
             r == OnMemberLeave(w)
  <1>1. Row(w) /\ w.members = p.members \ {c}
    BY WithoutRow DEF Row
  <1>2. Row(q) /\ q.members = w.members
    BY <1>1, RowSeal DEF SealIfReleased
  <1>3. r = IF q.type = "collab" /\ IsSingleton(q.members)
            THEN ConvertToSolo(q, CHOOSE d \in q.members : TRUE)
            ELSE q
    BY DEF OnMemberLeave
  <1> HIDE DEF w, q, r
  <1>4. CASE q.type = "collab" /\ IsSingleton(q.members)
    <2>1. PICK d \in q.members : q.members = {d}
      BY <1>4 DEF IsSingleton
    <2>2. (CHOOSE e \in q.members : TRUE) = d
      BY <2>1
    <2>3. d \in Characters
      BY <1>2, <2>1 DEF Row, Typed, Rows
    <2>4. Row(ConvertToSolo(q, d)) /\ ConvertToSolo(q, d).members = q.members
      BY <1>2, <2>1, <2>3, RowConvert
    <2> QED
      BY <1>1, <1>2, <1>3, <1>4, <2>2, <2>4 DEF w, r
  <1>5. CASE ~(q.type = "collab" /\ IsSingleton(q.members))
    BY <1>1, <1>2, <1>3, <1>5 DEF w, r
  <1> QED
    BY <1>4, <1>5

\* What any request leaves is such a row; only a departure takes a member
\* out, and only the one who departs.
LEMMA RequestRow ==
    ASSUME NEW a, NEW t, Request(a, t)
    PROVE  /\ Row(t.now)
           /\ t.now.members = IF t.does = "leave" THEN t.was.members \ {a}
                              ELSE t.was.members
           /\ t.does \in {"submit", "leave"} => a \in t.was.members
  <1>1. CASE t.does = "submit"
    BY <1>1, RowSubmit DEF Request, Handled
  <1>2. CASE t.does = "media" \/ t.does = "withdraw"
    BY <1>2, RowEdit, RowBack DEF Request, Handled
  <1>3. CASE t.does = "leave"
    BY <1>3, RowLeave DEF Request, Handled
  <1>4. CASE t.does = "read"
    BY <1>4, RowSettle DEF Request, Handled
  <1>5. CASE t.does = "flush"
    BY <1>5, RowFlush DEF Request, Handled
  <1> QED
    BY <1>1, <1>2, <1>3, <1>4, <1>5 DEF Request, Handled

-----------------------------------------------------------------------------
(* What a commit writes.                                                   *)

\* The row, column by column.
LEMMA WrittenColumns ==
    ASSUME NEW p \in Rows, NEW t, NEW w, w = Written(p, t)
    PROVE  /\ w = [type |-> w.type, status |-> w.status, window |-> w.window,
                   sealed |-> w.sealed, creator |-> w.creator,
                   members |-> w.members, approved |-> w.approved,
                   stale |-> w.stale, invites |-> w.invites, dirty |-> w.dirty]
           /\ w.type = Merged(p, t, "type")
           /\ w.status = Merged(p, t, "status")
           /\ w.window = Merged(p, t, "window")
           /\ w.sealed = Merged(p, t, "sealed")
           /\ w.creator = Merged(p, t, "creator")
           /\ w.members = Merged(p, t, "members")
           /\ w.approved = Merged(p, t, "approved")
           /\ w.stale = Merged(p, t, "stale") \cap Merged(p, t, "approved")
           /\ w.invites = Merged(p, t, "invites")
           /\ w.dirty = Merged(p, t, "dirty")
  <1>1. DOMAIN p = {"type", "status", "window", "sealed", "creator",
                    "members", "approved", "stale", "invites", "dirty"}
    BY DEF Rows
  <1>2. w = [f \in DOMAIN p |->
               IF f = "stale"
               THEN Merged(p, t, "stale") \cap Merged(p, t, "approved")
               ELSE Merged(p, t, f)]
    BY DEF Written
  <1> QED
    BY <1>1, <1>2

\* What Merged makes of a column, and of a set of members.
LEMMA MergedColumns ==
    ASSUME NEW p, NEW t
    PROVE  /\ Merged(p, t, "type") \in {p.type, t.now.type}
           /\ Merged(p, t, "status") =
                IF t.now.status = t.was.status THEN p.status ELSE t.now.status
           /\ Merged(p, t, "window") =
                IF t.now.window = t.was.window THEN p.window ELSE t.now.window
           /\ Merged(p, t, "sealed") \in {p.sealed, t.now.sealed}
           /\ Merged(p, t, "creator") \in {p.creator, t.now.creator}
           /\ Merged(p, t, "members") =
                (p.members \ (t.was.members \ t.now.members))
                  \cup (t.now.members \ t.was.members)
           /\ Merged(p, t, "approved") =
                (p.approved \ ((t.was.approved \ t.now.approved)
                                 \cup (t.was.members \ t.now.members)))
                  \cup (t.now.approved \ t.was.approved)
           /\ Merged(p, t, "invites") \in {p.invites, t.now.invites}
           /\ Merged(p, t, "dirty") \in {p.dirty, t.now.dirty}
  BY DEF Merged, MemberColumns

\* A commit leaves a row in its domains: the approval of a leaver goes with
\* the membership, and one that is added finds its member (or the request is
\* Orphaned).
LEMMA WrittenRow ==
    ASSUME NEW p, Row(p), NEW a, NEW t, Request(a, t),
           WritesMembers(t) \subseteq p.members
    PROVE  /\ Row(Written(p, t))
           /\ Written(p, t).members = IF t.does = "leave" THEN p.members \ {a}
                                      ELSE p.members
           /\ Written(p, t).approved =
                (p.approved \ ((t.was.approved \ t.now.approved)
                                 \cup (t.was.members \ t.now.members)))
                  \cup (t.now.approved \ t.was.approved)
  <1> DEFINE w == Written(p, t)
  <1>1. /\ p \in Rows /\ t.was \in Rows /\ t.now \in Rows
        /\ Typed(p) /\ Typed(t.was) /\ Typed(t.now)
        /\ p.status # "none" /\ t.now.status # "none"
    BY RequestRow DEF Request, Row, Typed
  <1>2. /\ t.now.members = IF t.does = "leave" THEN t.was.members \ {a}
                           ELSE t.was.members
        /\ t.does \in {"submit", "leave"} => a \in t.was.members
    BY RequestRow
  <1>3. w = Written(p, t)
    OBVIOUS
  <1> HIDE DEF w
  <1>4. /\ w.type \in {p.type, t.now.type}
        /\ w.status \in {p.status, t.now.status}
        /\ w.window \in {p.window, t.now.window}
        /\ w.sealed \in {p.sealed, t.now.sealed}
        /\ w.creator \in {p.creator, t.now.creator}
        /\ w.members = (p.members \ (t.was.members \ t.now.members))
                         \cup (t.now.members \ t.was.members)
        /\ w.approved = (p.approved \ ((t.was.approved \ t.now.approved)
                                         \cup (t.was.members \ t.now.members)))
                          \cup (t.now.approved \ t.was.approved)
        /\ w.stale \subseteq w.approved
        /\ w.invites \in {p.invites, t.now.invites}
        /\ w.dirty \in {p.dirty, t.now.dirty}
        /\ w = [type |-> w.type, status |-> w.status, window |-> w.window,
                sealed |-> w.sealed, creator |-> w.creator,
                members |-> w.members, approved |-> w.approved,
                stale |-> w.stale, invites |-> w.invites, dirty |-> w.dirty]
    BY <1>1, <1>3, WrittenColumns, MergedColumns
  <1>5. w.members = IF t.does = "leave" THEN p.members \ {a} ELSE p.members
    BY <1>2, <1>4
  <1>6. w.approved \subseteq w.members
    <2>1. \A c \in t.now.approved \ t.was.approved : c \in p.members
      BY <1>1 DEF WritesMembers, Typed
    <2>2. t.does = "leave" => a \notin w.approved
      BY <1>1, <1>2, <1>4 DEF Typed
    <2>3. p.approved \subseteq p.members
      BY <1>1 DEF Typed
    <2> QED
      BY <1>4, <1>5, <2>1, <2>2, <2>3
  <1>7. w.members \subseteq p.members
    BY <1>5
  <1>8. w \in Rows
    <2>1. /\ w.type \in {"solo", "collab"}
          /\ w.status \in {"none", "in_progress", "pending", "submitted"}
          /\ w.window \in NoWindow .. AutoSubmitDays
          /\ w.sealed \in {Unsealed, 1, 2}
          /\ w.creator \in Characters
      BY <1>1, <1>4 DEF Rows
    <2>2. /\ w.members \in SUBSET Characters
          /\ w.approved \in SUBSET Characters
          /\ w.stale \in SUBSET Characters
      BY <1>1, <1>4, <1>6, <1>7 DEF Rows
    <2>3. /\ w.invites \in SUBSET (Characters \X Characters)
          /\ w.dirty \in BOOLEAN
      BY <1>1, <1>4 DEF Rows
    <2> QED
      BY <1>4, <2>1, <2>2, <2>3 DEF Rows
  <1>9. Row(w)
    BY <1>1, <1>4, <1>6, <1>8 DEF Row, Typed
  <1> QED
    BY <1>4, <1>5, <1>9 DEF w

\* Onto the row it loaded, a request writes what its handler made of it.
LEMMA WrittenAlone ==
    ASSUME NEW p, NEW t, t.was = p, Typed(p), Typed(t.now)
    PROVE  Written(p, t) = t.now
  <1> DEFINE w == Written(p, t)
  <1>1. w = Written(p, t) /\ p \in Rows /\ t.now \in Rows
    BY DEF Typed
  <1> HIDE DEF w
  <1>2. \A f : Merged(p, t, f) = IF f \in MemberColumns
                                 THEN (p[f] \ ((p[f] \ t.now[f])
                                                 \cup (p.members \ t.now.members)))
                                        \cup (t.now[f] \ p[f])
                                 ELSE t.now[f]
    BY DEF Merged
  <1>3. /\ w.type = t.now.type
        /\ w.status = t.now.status
        /\ w.window = t.now.window
        /\ w.sealed = t.now.sealed
        /\ w.creator = t.now.creator
        /\ w.invites = t.now.invites
        /\ w.dirty = t.now.dirty
    BY <1>1, <1>2, WrittenColumns DEF MemberColumns
  <1>4. /\ w.members = t.now.members
        /\ w.approved = t.now.approved
        /\ w.stale = t.now.stale
    <2>1. /\ Merged(p, t, "members") = t.now.members
          /\ Merged(p, t, "approved") = t.now.approved
          /\ Merged(p, t, "stale") = t.now.stale
      <3>1. t.now.approved \subseteq t.now.members /\ t.now.stale \subseteq t.now.members
        BY DEF Typed
      <3>2. \A f \in MemberColumns : Merged(p, t, f) =
              (p[f] \ ((p[f] \ t.now[f]) \cup (p.members \ t.now.members)))
                \cup (t.now[f] \ p[f])
        BY <1>2
      <3> QED
        BY <3>1, <3>2 DEF MemberColumns
    <2>2. w.members = t.now.members /\ w.approved = t.now.approved
      BY <1>1, <2>1, WrittenColumns
    <2>3. w.stale = t.now.stale \cap t.now.approved
      BY <1>1, <2>1, WrittenColumns
    <2> QED
      BY <2>2, <2>3 DEF Typed
  <1>5. t.now = [type |-> t.now.type, status |-> t.now.status,
                 window |-> t.now.window, sealed |-> t.now.sealed,
                 creator |-> t.now.creator, members |-> t.now.members,
                 approved |-> t.now.approved, stale |-> t.now.stale,
                 invites |-> t.now.invites, dirty |-> t.now.dirty]
    BY <1>1 DEF Rows
  <1> QED
    <2>1. w = [type |-> w.type, status |-> w.status, window |-> w.window,
               sealed |-> w.sealed, creator |-> w.creator,
               members |-> w.members, approved |-> w.approved,
               stale |-> w.stale, invites |-> w.invites, dirty |-> w.dirty]
      BY <1>1, WrittenColumns
    <2> QED
      BY <1>3, <1>4, <1>5, <2>1 DEF w

-----------------------------------------------------------------------------
(* The inductive invariant.                                                *)

\* A crew that has assembled.
LEMMA RaceInitSound == RaceInit => RaceInv
  <1> SUFFICES ASSUME RaceInit PROVE RaceInv
    OBVIOUS
  <1>1. PICK c \in Characters :
          praxis = [NewRow(c, "collab") EXCEPT !.members = Characters]
    BY DEF RaceInit
  <1>2. praxis = [type |-> "collab", status |-> "in_progress",
                  window |-> NoWindow, sealed |-> Unsealed, creator |-> c,
                  members |-> Characters, approved |-> {}, stale |-> {},
                  invites |-> {}, dirty |-> FALSE]
    BY <1>1 DEF NewRow
  <1>3. Row(praxis)
    BY <1>2, Columns DEF Row, Typed, Rows
  <1>4. tx = [a \in Agents |-> Idle]
    BY DEF RaceInit
  <1> QED
    BY <1>3, <1>4 DEF RaceInv, Open

\* Nothing but one agent's request moves.
LEMMA OneRequestMoves ==
    ASSUME RaceInv, UNCHANGED praxis, NEW a \in Agents, NEW t,
           tx' = [tx EXCEPT ![a] = t],
           t # Idle => Request(a, t) /\ Holds(a, t, praxis)
    PROVE  RaceInv'
  <1>1. tx' = [b \in Agents |-> IF b = a THEN t ELSE tx[b]]
    BY DEF RaceInv
  <1>2. Row(praxis')
    BY DEF RaceInv
  <1>3. ASSUME NEW b \in Agents, tx'[b] # Idle
        PROVE  Request(b, tx'[b]) /\ Holds(b, tx'[b], praxis')
    BY <1>1, <1>3 DEF RaceInv, Open
  <1> HIDE DEF Request, Holds, Row
  <1> QED
    BY <1>1, <1>2, <1>3 DEF RaceInv, Open

\* A request begins.
LEMMA BeginSound ==
    ASSUME RaceInv, NEW a \in Agents, NEW does, NEW outcome,
           Begin(a, does, outcome),
           Handled(a, [does |-> does, was |-> praxis, now |-> outcome,
                       waits |-> FALSE]),
           does = "submit" => a \in praxis.members
    PROVE  RaceInv'
  <1> DEFINE t == [does |-> does, was |-> praxis, now |-> outcome,
                   waits |-> FALSE]
  <1>1. Request(a, t)
    BY DEF Begin, Request, RaceInv
  <1>2. Holds(a, t, praxis)
    BY DEF Holds
  <1>3. tx' = [tx EXCEPT ![a] = t] /\ UNCHANGED praxis
    BY DEF Begin
  <1> HIDE DEF t
  <1> QED
    BY <1>1, <1>2, <1>3, OneRequestMoves

\* Every handler begins with the row as it stands.
LEMMA BeginsSound ==
    ASSUME RaceInv,
           \/ \E c \in Characters : \/ BeginSubmit(c) \/ BeginMedia(c)
                                    \/ BeginWithdraw(c) \/ BeginLeave(c)
           \/ BeginRead
           \/ BeginFlush
    PROVE  RaceInv'
  <1>1. Characters \subseteq Agents /\ "reader" \in Agents /\ "room" \in Agents
    BY DEF Agents
  <1>2. ASSUME NEW c \in Characters, BeginSubmit(c) PROVE RaceInv'
    BY <1>1, <1>2, BeginSound DEF BeginSubmit, Handled
  <1>3. ASSUME NEW c \in Characters, BeginMedia(c) PROVE RaceInv'
    BY <1>1, <1>3, BeginSound DEF BeginMedia, Handled
  <1>4. ASSUME NEW c \in Characters, BeginWithdraw(c) PROVE RaceInv'
    BY <1>1, <1>4, BeginSound DEF BeginWithdraw, Handled
  <1>5. ASSUME NEW c \in Characters, BeginLeave(c) PROVE RaceInv'
    BY <1>1, <1>5, BeginSound DEF BeginLeave, Handled
  <1>6. CASE BeginRead
    BY <1>1, <1>6, BeginSound DEF BeginRead, Handled
  <1>7. CASE BeginFlush
    BY <1>1, <1>7, BeginSound DEF BeginFlush, Handled
  <1> QED
    BY <1>2, <1>3, <1>4, <1>5, <1>6, <1>7

\* A request waits, or is rolled back.
LEMMA WaitSound == ASSUME RaceInv, NEW a \in Agents, Wait(a) PROVE RaceInv'
  <1> DEFINE t == [tx[a] EXCEPT !.waits = TRUE]
  <1>1. Request(a, tx[a]) /\ Holds(a, tx[a], praxis)
    BY DEF RaceInv, Open, Wait
  <1>2. tx[a] = [does |-> tx[a].does, was |-> tx[a].was, now |-> tx[a].now,
                 waits |-> tx[a].waits]
    BY <1>1 DEF Request
  <1>3. /\ t = [does |-> t.does, was |-> t.was, now |-> t.now,
                waits |-> t.waits]
        /\ t.waits = TRUE
        /\ t.does = tx[a].does
        /\ t.was = tx[a].was
        /\ t.now = tx[a].now
    <2>1. ASSUME NEW r, r = [does |-> r.does, was |-> r.was, now |-> r.now,
                             waits |-> r.waits],
                 NEW q, q = [r EXCEPT !.waits = TRUE]
          PROVE  /\ q = [does |-> q.does, was |-> q.was, now |-> q.now,
                         waits |-> q.waits]
                 /\ q.waits = TRUE
                 /\ q.does = r.does
                 /\ q.was = r.was
                 /\ q.now = r.now
      BY <2>1
    <2> QED
      BY <1>2, <2>1
  <1>4. tx' = [tx EXCEPT ![a] = t] /\ UNCHANGED praxis
    BY DEF Wait
  <1> HIDE DEF t
  <1>5. Request(a, t) /\ Holds(a, t, praxis)
    BY <1>1, <1>3 DEF Request, Handled, Holds
  <1> QED
    BY <1>4, <1>5, OneRequestMoves

LEMMA RollbackSound ==
    ASSUME RaceInv, NEW a \in Agents, Rollback(a) PROVE RaceInv'
  BY OneRequestMoves DEF Rollback

\* A commit disturbs no other request: whoever has locked their own member's
\* row has it as they loaded it.
LEMMA CommitSound ==
    ASSUME RaceInv, NEW a \in Agents, Commit(a)
    PROVE  RaceInv'
  <1> DEFINE t == tx[a]
  <1>1. /\ Row(praxis)
        /\ Request(a, t)
        /\ Holds(a, t, praxis)
        /\ WritesMembers(t) \subseteq praxis.members
        /\ praxis' = Written(praxis, t)
    BY DEF RaceInv, Open, Commit, Orphaned
  <1>2. /\ Row(praxis')
        /\ praxis'.members = IF t.does = "leave" THEN praxis.members \ {a}
                             ELSE praxis.members
        /\ praxis'.approved =
              (praxis.approved \ ((t.was.approved \ t.now.approved)
                                    \cup (t.was.members \ t.now.members)))
                \cup (t.now.approved \ t.was.approved)
    <2>1. PICK p, u : p = praxis /\ u = t
      OBVIOUS
    <2>2. Row(p) /\ Request(a, u) /\ WritesMembers(u) \subseteq p.members
      BY <1>1, <2>1
    <2>3. /\ Row(Written(p, u))
          /\ Written(p, u).members = IF u.does = "leave" THEN p.members \ {a}
                                     ELSE p.members
          /\ Written(p, u).approved =
               (p.approved \ ((u.was.approved \ u.now.approved)
                                \cup (u.was.members \ u.now.members)))
                 \cup (u.now.approved \ u.was.approved)
      BY <2>2, WrittenRow
    <2>4. Row(praxis') <=> Row(Written(p, u))
      BY <1>1, <2>1
    <2> QED
      BY <1>1, <2>1, <2>3, <2>4
  <1>3. ASSUME NEW b \in Agents, b # a, tx[b] # Idle
        PROVE  Request(b, tx[b]) /\ Holds(b, tx[b], praxis')
    <2>1. Request(b, tx[b]) /\ Holds(b, tx[b], praxis)
      BY <1>3 DEF RaceInv, Open
    <2>2. ASSUME tx[b].does = "submit"
          PROVE  /\ b \in praxis'.members
                 /\ b \in praxis'.approved <=> b \in praxis.approved
      <3>1. b \notin WritesMembers(t)
        BY <1>3, <2>2 DEF Commit, Blocked, WaitsFor
      <3>2. /\ Typed(t.now) /\ Typed(t.was)
            /\ t.now.members = IF t.does = "leave" THEN t.was.members \ {a}
                               ELSE t.was.members
        BY <1>1, RequestRow DEF Request, Row
      <3>3. b \in t.was.approved <=> b \in t.now.approved
        BY <1>3, <3>1, <3>2 DEF WritesMembers, Typed
      <3> QED
        BY <1>2, <1>3, <2>1, <2>2, <3>2, <3>3 DEF Holds
    <2> QED
      BY <2>1, <2>2 DEF Holds
  <1>4. /\ tx' = [b \in Agents |-> tx'[b]]
        /\ \A b \in Agents : tx'[b] = Idle \/ (tx'[b] = tx[b] /\ b # a)
    BY DEF Commit
  <1>5. ASSUME NEW b \in Agents, tx'[b] # Idle
        PROVE  Request(b, tx'[b]) /\ Holds(b, tx'[b], praxis')
    BY <1>3, <1>4, <1>5
  <1> QED
    BY <1>2, <1>4, <1>5 DEF RaceInv, Open

\* A keystroke and a day move no approval and no member.
LEMMA QuietSound ==
    ASSUME RaceInv, UNCHANGED tx,
           \/ \E c \in Characters : Type(c)
           \/ DayPasses
    PROVE  RaceInv'
  <1>1. Typed(praxis) /\ praxis.status # "none"
    BY DEF RaceInv, Row
  <1>2. /\ praxis' \in Rows
        /\ praxis'.status = praxis.status
        /\ praxis'.members = praxis.members
        /\ praxis'.approved = praxis.approved
        /\ praxis'.stale \subseteq praxis.approved
    <2>1. ASSUME NEW c \in Characters, Type(c)
          PROVE  /\ praxis' \in Rows
                 /\ praxis'.status = praxis.status
                 /\ praxis'.members = praxis.members
                 /\ praxis'.approved = praxis.approved
                 /\ praxis'.stale \subseteq praxis.approved
      BY <1>1, <2>1 DEF Type, Typed, Rows
    <2>2. CASE DayPasses
      <3>1. praxis.window + 1 \in NoWindow .. AutoSubmitDays
        BY <2>2, DaysAssumption DEF DayPasses, NoWindow
      <3> QED
        BY <1>1, <2>2, <3>1 DEF DayPasses, Typed, Rows
    <2> QED
      BY <2>1, <2>2
  <1>3. Row(praxis')
    BY <1>1, <1>2 DEF Row, Typed
  <1>4. \A a \in Agents : tx[a] # Idle =>
          Request(a, tx[a]) /\ Holds(a, tx[a], praxis')
    BY <1>2 DEF RaceInv, Open, Holds
  <1> QED
    BY <1>3, <1>4 DEF RaceInv, Open

LEMMA RaceStepSound == ASSUME RaceInv, [RaceNext]_raceVars PROVE RaceInv'
  <1>1. CASE RaceNext
    BY <1>1, BeginsSound, WaitSound, CommitSound, RollbackSound, QuietSound
       DEF RaceNext, Keystroke, Clock
  <1>2. CASE UNCHANGED raceVars
    BY <1>2 DEF raceVars, RaceInv, Open
  <1> QED
    BY <1>1, <1>2

\* The strengthening holds however requests overlap.
THEOREM RaceInvariance == RaceSpec => []RaceInv
  BY RaceInitSound, RaceStepSound, PTL DEF RaceSpec

\* However many requests write the row, by columns and members they have
\* loaded at different moments, it stays in its domains and no approval is
\* left of a member who has gone.
THEOREM RaceTypes == RaceSpec => []RaceTypeOK
  <1>1. RaceInv => RaceTypeOK
    <2> SUFFICES ASSUME RaceInv PROVE RaceTypeOK
      OBVIOUS
    <2>1. TypeOK
      BY DEF RaceInv, Row, Typed, TypeOK, Exists
    <2>2. ASSUME NEW a \in Open
          PROVE  tx[a].does \in Requests /\ {tx[a].was, tx[a].now} \subseteq Rows
      <3>1. Request(a, tx[a])
        BY DEF RaceInv
      <3>2. Row(tx[a].now)
        BY <3>1, RequestRow
      <3> QED
        BY <3>1, <3>2 DEF Request, Row, Typed
    <2> QED
      BY <2>1, <2>2 DEF RaceTypeOK
  <1> QED
    BY <1>1, RaceInvariance, PTL

-----------------------------------------------------------------------------
(* A request nothing moved under.                                          *)

\* Onto the row it loaded, a commit is the handler of CollabPraxis.
LEMMA CommitIsTheRequest ==
    ASSUME RaceInv, Uncontended, NEW a \in Agents, Commit(a)
    PROVE  Next
  <1> DEFINE t == tx[a]
  <1>1. /\ Request(a, t)
        /\ t.was = praxis
        /\ praxis' = Written(praxis, t)
    BY DEF RaceInv, Open, Commit, Uncontended
  <1>2. praxis' = t.now
    BY <1>1, WrittenAlone, RequestRow DEF Request, Row
  <1>3. Settle(praxis) = praxis \/ Lapsed(praxis)
    BY DEF Settle
  <1>4. praxis.members \subseteq Characters
    BY DEF RaceInv, Row, Typed, Rows
  <1> HIDE DEF t
  <1>5. CASE t.does = "submit"
    <2>1. a \in Characters /\ Submit(a)
      BY <1>1, <1>2, <1>4, <1>5 DEF Request, Handled, Submit
    <2> QED
      BY <2>1 DEF Next
  <1>6. CASE t.does = "media"
    <2>1. a \in Characters /\ EditMedia(a)
      BY <1>1, <1>2, <1>3, <1>4, <1>6 DEF Request, Handled, EditMedia
    <2> QED
      BY <2>1 DEF Next
  <1>7. CASE t.does = "withdraw"
    <2>1. praxis.status \in {"none", "in_progress", "pending", "submitted"}
          /\ praxis.status # "none"
      BY DEF RaceInv, Row, Typed, Rows
    <2>2. a \in Characters /\ Unsubmit(a)
      BY <1>1, <1>2, <1>3, <1>4, <1>7, <2>1 DEF Request, Handled, Unsubmit
    <2> QED
      BY <2>2 DEF Next
  <1>8. CASE t.does = "leave"
    <2>1. a \in Characters /\ Leave(a)
      BY <1>1, <1>2, <1>3, <1>4, <1>8 DEF Request, Handled, Leave
    <2> QED
      BY <2>1 DEF Next
  <1>9. CASE t.does = "read"
    BY <1>1, <1>2, <1>9 DEF Request, Handled, Read, Next
  <1>10. CASE t.does = "flush"
    BY <1>1, <1>2, <1>10 DEF Request, Handled, FlushRoom, Next
  <1> QED
    BY <1>1, <1>5, <1>6, <1>7, <1>8, <1>9, <1>10 DEF Request, Handled

\* While no open request has been overtaken, a step of the overlapping
\* requests is a step of CollabPraxis or leaves the praxis alone: whatever a
\* run finds broken here, an overlap broke.
THEOREM AloneIsSerial == RaceSpec => Serially
  <1>1. ASSUME RaceInv, [RaceNext]_raceVars, Uncontended
        PROVE  [Next]_vars
    <2>1. ASSUME NEW a \in Agents, Commit(a) PROVE Next
      BY <1>1, <2>1, CommitIsTheRequest
    <2>2. ASSUME NEW c \in Characters, Type(c) PROVE Next
      BY <2>2 DEF Next
    <2>3. CASE DayPasses
      BY <2>3 DEF Next
    <2>4. CASE UNCHANGED raceVars
      BY <2>4 DEF raceVars, vars
    <2> QED
      BY <1>1, <2>1, <2>2, <2>3, <2>4
         DEF RaceNext, BeginSubmit, BeginMedia, BeginWithdraw, BeginLeave,
             BeginRead, BeginFlush, Begin, Wait, Rollback, Keystroke, Clock, vars
  <1>2. RaceInv /\ [RaceNext]_raceVars => [Uncontended => [Next]_vars]_raceVars
    BY <1>1
  <1> QED
    BY <1>2, RaceInvariance, PTL DEF RaceSpec, Serially

-----------------------------------------------------------------------------
(* While members only approve and readers only look.                       *)
(*                                                                         *)
(* Then approvals only accumulate, and what a request loaded lies before   *)
(* what it writes to (Before).  A proposal whose countdown a late request  *)
(* restarts, or whose last two approvals missed each other, is still one   *)
(* of the rows Agreed describes: it need not be short of an approval.      *)

Agreed(p) ==
    /\ p.type = "collab"
    /\ p.members # {}
    /\ p.status = "pending" <=> p.window # NoWindow
    /\ p.status = "in_progress" <=> p.approved = {}
    /\ p.status = "submitted" => p.approved = p.members

Before(p, q) ==
    /\ p.members = q.members
    /\ p.approved \subseteq q.approved
    /\ p.status = "submitted" => q.status = "submitted"

ApprovalInv ==
    /\ RaceInv
    /\ Agreed(praxis)
    /\ \A a \in Open : Agreed(tx[a].was) /\ Before(tx[a].was, praxis)

\* A request that publishes loaded a Live praxis, a lapsed proposal or one
\* that waited for its member alone.
Carried(a, t) ==
    \/ t.was.status = "submitted"
    \/ Lapsed(t.was)
    \/ t.does = "submit" /\ t.was.members \subseteq t.was.approved \cup {a}

\* What an approval or a settling read makes of the row it loaded.
LEMMA ApprovalOutcome ==
    ASSUME NEW a, NEW t, Request(a, t), Agreed(t.was),
           t.does \in {"submit", "read"}
    PROVE  /\ t.now.type = "collab"
           /\ t.now.members = t.was.members
           /\ \/ /\ t.now.status = "submitted"
                 /\ t.now.window = NoWindow
                 /\ t.now.approved = t.was.members
                 /\ Carried(a, t)
              \/ /\ t.does = "submit"
                 /\ t.now.status = "pending"
                 /\ t.now.window = IF t.was.window = NoWindow THEN 0
                                   ELSE t.was.window
                 /\ t.now.approved = t.was.approved \cup {a}
                 /\ t.was.status # "submitted"
  <1> DEFINE p == t.was
             q == Approve(p, a)
             w == OpenWindow(q)
  <1>1. Row(p) /\ p.type = "collab"
    BY DEF Request, Agreed
  <1>2. CASE t.does = "read"
    <2>1. Lapsed(p) /\ t.now = Seal(p)
      BY <1>2 DEF Request, Handled, Settle
    <2> HIDE DEF p
    <2> QED
      BY <1>1, <2>1, RowSeal DEF Carried, p
  <1>3. CASE t.does = "submit"
    <2>1. a \in p.members /\ t.now = Settle(OnSubmit(p, a))
      BY <1>3 DEF Request, Handled
    <2> HIDE DEF p
    <2>2. /\ Row(q)
          /\ q.type = "collab"
          /\ q.status = p.status
          /\ q.window = p.window
          /\ q.members = p.members
          /\ q.approved = p.approved \cup {a}
      BY <1>1, <2>1, RowApprove
    <2>3. OnSubmit(p, a) = IF Unanimous(q) THEN Seal(q) ELSE w
      BY <2>2 DEF OnSubmit
    <2> HIDE DEF q
    <2>4. /\ Row(w)
          /\ w.type = "collab"
          /\ w.status = "pending"
          /\ w.window = IF p.window = NoWindow THEN 0 ELSE p.window
          /\ w.members = p.members
          /\ w.approved = p.approved \cup {a}
      BY <2>2, RowOpen
    <2> HIDE DEF w
    <2>5. CASE Unanimous(q)
      <3>1. /\ Seal(q).status = "submitted"
            /\ Seal(q).window = NoWindow
            /\ Seal(q).type = "collab"
            /\ Seal(q).members = p.members
            /\ Seal(q).approved = p.members
        BY <2>2, RowSeal
      <3>2. t.now = Seal(q)
        BY <2>1, <2>3, <2>5, <3>1 DEF Settle, Lapsed, Drafting
      <3>3. p.members \subseteq p.approved \cup {a}
        BY <2>2, <2>5 DEF Unanimous
      <3> QED
        BY <1>3, <3>1, <3>2, <3>3 DEF Carried, p
    <2>6. CASE ~Unanimous(q) /\ Lapsed(w)
      <3>1. t.now = Seal(w)
        BY <2>1, <2>3, <2>6 DEF Settle
      <3>2. p.window = AutoSubmitDays /\ p.window # NoWindow
        BY <2>4, <2>6, DaysAssumption DEF Lapsed
      <3>3. Lapsed(p)
        BY <1>1, <3>2 DEF Agreed, Lapsed, Drafting, p
      <3> QED
        BY <2>4, <3>1, <3>3, RowSeal DEF Carried, p
    <2>7. CASE ~Unanimous(q) /\ ~Lapsed(w)
      <3>1. t.now = w
        BY <2>1, <2>3, <2>7 DEF Settle
      <3>2. p.status # "submitted"
        BY <2>2, <2>7 DEF Agreed, Unanimous, p
      <3> QED
        BY <1>3, <2>4, <3>1, <3>2 DEF p
    <2> QED
      BY <2>5, <2>6, <2>7
  <1> QED
    BY <1>2, <1>3

\* Its commit onto a row that has meanwhile collected more approvals.
LEMMA ApprovalCommit ==
    ASSUME NEW p, Row(p), Agreed(p), NEW a, NEW t, Request(a, t),
           Holds(a, t, p), t.does \in {"submit", "read"},
           Agreed(t.was), Before(t.was, p), WritesMembers(t) \subseteq p.members,
           NEW w, w = Written(p, t)
    PROVE  /\ Agreed(w)
           /\ Before(p, w)
           /\ w.status = "submitted" => p.status = "submitted" \/ Carried(a, t)
  <1>1. /\ t.now.type = "collab"
        /\ t.now.members = t.was.members
    BY ApprovalOutcome
  <1>2. /\ w.type = "collab"
        /\ w.members = p.members
        /\ w.status = IF t.now.status = t.was.status THEN p.status
                      ELSE t.now.status
        /\ w.window = IF t.now.window = t.was.window THEN p.window
                      ELSE t.now.window
        /\ w.approved = (p.approved \ (t.was.approved \ t.now.approved))
                          \cup (t.now.approved \ t.was.approved)
    <2>1. p \in Rows
      BY DEF Row, Typed
    <2>2. w.type \in {p.type, t.now.type}
      BY <2>1, WrittenColumns, MergedColumns
    <2>3. /\ w.status = Merged(p, t, "status")
          /\ w.window = Merged(p, t, "window")
      BY <2>1, WrittenColumns
    <2>4. /\ Merged(p, t, "status") =
               IF t.now.status = t.was.status THEN p.status ELSE t.now.status
          /\ Merged(p, t, "window") =
               IF t.now.window = t.was.window THEN p.window ELSE t.now.window
      BY MergedColumns
    <2>5. /\ w.members = p.members
          /\ w.approved = (p.approved \ (t.was.approved \ t.now.approved))
                            \cup (t.now.approved \ t.was.approved)
      <3>1. t.does # "leave"
        OBVIOUS
      <3>2. t.was.members \ t.now.members = {}
        BY <1>1
      <3>3. /\ w.members = p.members
            /\ w.approved = (p.approved \ ((t.was.approved \ t.now.approved)
                                             \cup (t.was.members \ t.now.members)))
                              \cup (t.now.approved \ t.was.approved)
        BY <3>1, WrittenRow
      <3> QED
        BY <3>2, <3>3
    <2> QED
      BY <1>1, <2>2, <2>3, <2>4, <2>5 DEF Agreed
  <1>3. /\ p.approved \subseteq p.members
        /\ t.was.approved \subseteq t.was.members
        /\ p.status \in {"in_progress", "pending", "submitted"}
        /\ t.was.status \in {"in_progress", "pending", "submitted"}
        /\ t.does = "submit" => a \in t.was.members
        /\ 0 # NoWindow /\ AutoSubmitDays # NoWindow
    <2>1. Typed(p) /\ p.status # "none"
      BY DEF Row
    <2>2. Typed(t.was) /\ t.was.status # "none"
      BY DEF Request, Row
    <2>3. t.does = "submit" => a \in t.was.members
      BY RequestRow
    <2>4. 0 # NoWindow /\ AutoSubmitDays # NoWindow
      BY DaysAssumption DEF NoWindow
    <2> QED
      BY <2>1, <2>2, <2>3, <2>4 DEF Typed, Rows
  <1>4. CASE t.was.status = "submitted"
    <2>1. /\ t.now.status = "submitted"
          /\ t.now.window = NoWindow
          /\ t.now.approved = t.was.approved
      BY <1>4, ApprovalOutcome DEF Agreed
    <2>2. t.was.window = NoWindow
      BY <1>4 DEF Agreed
    <2>3. w.status = p.status /\ w.window = p.window /\ w.approved = p.approved
      BY <1>2, <1>4, <2>1, <2>2
    <2> QED
      BY <1>2, <2>3, <1>4 DEF Agreed, Before, Carried
  <1>5. CASE t.was.status # "submitted" /\ t.now.status = "submitted"
    <2>1. /\ t.now.window = NoWindow
          /\ t.now.approved = p.members
          /\ Carried(a, t)
      BY <1>5, ApprovalOutcome DEF Before
    <2>2. w.status = "submitted" /\ w.approved = p.members
      BY <1>2, <1>3, <1>5, <2>1 DEF Before
    <2>3. w.window = NoWindow
      <3>1. CASE t.was.window # NoWindow
        BY <1>2, <2>1, <3>1
      <3>2. CASE t.was.window = NoWindow
        <4>1. t.was.status = "in_progress" /\ t.was.approved = {}
          BY <1>3, <1>5, <3>2 DEF Agreed
        <4>2. t.does = "submit" /\ t.was.members \subseteq {a}
          BY <1>3, <1>5, <2>1, <3>2, <4>1 DEF Carried, Lapsed
        <4>3. p.approved = {}
          BY <1>3, <4>1, <4>2 DEF Holds, Before
        <4>4. p.window = NoWindow
          BY <1>3, <4>3 DEF Agreed
        <4> QED
          BY <1>2, <2>1, <4>4
      <3> QED
        BY <3>1, <3>2
    <2> QED
      BY <1>2, <1>3, <2>1, <2>2, <2>3 DEF Agreed, Before
  <1>6. CASE t.was.status # "submitted" /\ t.now.status # "submitted"
    <2>1. /\ t.does = "submit"
          /\ t.now.status = "pending"
          /\ t.now.window = IF t.was.window = NoWindow THEN 0
                            ELSE t.was.window
          /\ t.now.approved = t.was.approved \cup {a}
      BY <1>6, ApprovalOutcome
    <2>2. /\ w.approved = p.approved \cup ({a} \ t.was.approved)
          /\ a \in p.members
      BY <1>2, <1>3, <2>1 DEF Before
    <2>3. a \in w.approved
      BY <2>1, <2>2 DEF Holds
    <2>4. CASE t.was.status = "pending"
      <3>1. w.status = p.status /\ w.window = p.window
        BY <1>2, <2>1, <2>4 DEF Agreed
      <3>2. p.approved # {}
        BY <2>4 DEF Agreed, Before
      <3> QED
        BY <1>2, <2>2, <2>3, <3>1, <3>2 DEF Agreed, Before
    <2>5. CASE t.was.status = "in_progress"
      <3>1. t.was.window = NoWindow /\ t.was.approved = {}
        BY <2>5 DEF Agreed
      <3>2. w.status = "pending" /\ w.window = 0
        BY <1>2, <1>3, <2>1, <2>5, <3>1
      <3>3. p.status # "submitted"
        BY <2>1, <2>2, <3>1 DEF Agreed, Holds
      <3> QED
        BY <1>2, <1>3, <2>2, <2>3, <3>2, <3>3 DEF Agreed, Before
    <2> QED
      BY <1>3, <1>6, <2>4, <2>5
  <1> QED
    BY <1>4, <1>5, <1>6

-----------------------------------------------------------------------------
(* The steps.                                                              *)

\* The crew assembles with nothing proposed.
LEMMA RaceInitAgreed == RaceInit => ApprovalInv
  <1> SUFFICES ASSUME RaceInit PROVE ApprovalInv
    OBVIOUS
  <1>1. PICK c \in Characters :
          praxis = [NewRow(c, "collab") EXCEPT !.members = Characters]
    BY DEF RaceInit
  <1>2. praxis = [type |-> "collab", status |-> "in_progress",
                  window |-> NoWindow, sealed |-> Unsealed, creator |-> c,
                  members |-> Characters, approved |-> {}, stale |-> {},
                  invites |-> {}, dirty |-> FALSE]
    BY <1>1 DEF NewRow
  <1>3. Agreed(praxis)
    BY <1>2 DEF Agreed
  <1>4. Open = {}
    BY DEF RaceInit, Open
  <1> QED
    BY <1>3, <1>4, RaceInitSound DEF ApprovalInv

\* Only submissions and reads are ever open.
LEMMA OnlyApprovals ==
    ASSUME Requests \subseteq {"submit", "read"}, RaceInv, NEW a \in Open
    PROVE  /\ Request(a, tx[a]) /\ Holds(a, tx[a], praxis)
           /\ tx[a].does \in {"submit", "read"}
  BY DEF RaceInv, Request

\* A step that leaves the praxis alone: what is open has loaded it, now or
\* before.
LEMMA StillAgreed ==
    ASSUME ApprovalInv, UNCHANGED praxis,
           \A b \in Agents : tx'[b] # Idle =>
             \/ tx'[b].was = praxis
             \/ tx[b] # Idle /\ tx'[b].was = tx[b].was,
           RaceInv'
    PROVE  ApprovalInv'
  <1>1. Agreed(praxis) /\ Before(praxis, praxis)
    BY DEF ApprovalInv, Before
  <1>2. ASSUME NEW b \in Agents, tx'[b] # Idle
        PROVE  Agreed(tx'[b].was) /\ Before(tx'[b].was, praxis')
    BY <1>1, <1>2 DEF ApprovalInv, Open
  <1> QED
    BY <1>1, <1>2 DEF ApprovalInv, Open

\* A commit carries every other request's row further along.
LEMMA CommitAgreed ==
    ASSUME Requests \subseteq {"submit", "read"}, ApprovalInv,
           NEW a \in Agents, Commit(a), RaceInv'
    PROVE  /\ ApprovalInv'
           /\ GoesLive => Carried(a, tx[a])
  <1>1. a \in Open
    BY DEF Commit, Open
  <1>2. /\ Row(praxis)
        /\ Agreed(praxis)
        /\ Request(a, tx[a])
        /\ Holds(a, tx[a], praxis)
        /\ tx[a].does \in {"submit", "read"}
        /\ Agreed(tx[a].was)
        /\ Before(tx[a].was, praxis)
        /\ WritesMembers(tx[a]) \subseteq praxis.members
        /\ praxis' = Written(praxis, tx[a])
    BY <1>1, OnlyApprovals DEF ApprovalInv, RaceInv, Commit, Orphaned
  <1>3. /\ Agreed(praxis')
        /\ Before(praxis, praxis')
        /\ praxis'.status = "submitted" =>
             praxis.status = "submitted" \/ Carried(a, tx[a])
    BY <1>2, ApprovalCommit
  <1>4. ASSUME NEW b \in Agents, tx'[b] # Idle
        PROVE  Agreed(tx'[b].was) /\ Before(tx'[b].was, praxis')
    <2>1. tx'[b] = tx[b]
      BY <1>4 DEF Commit
    <2>2. Agreed(tx[b].was) /\ Before(tx[b].was, praxis)
      BY <1>4, <2>1 DEF ApprovalInv, Open
    <2> QED
      BY <1>3, <2>1, <2>2 DEF Before
  <1> QED
    BY <1>3, <1>4 DEF ApprovalInv, Open, GoesLive

\* A keystroke and a day move no approval and no status.
LEMMA QuietAgreed ==
    ASSUME ApprovalInv, UNCHANGED tx, RaceInv',
           \/ \E c \in Characters : Type(c)
           \/ DayPasses
    PROVE  ApprovalInv' /\ ~GoesLive
  <1>1. Typed(praxis) /\ Agreed(praxis)
    BY DEF ApprovalInv, RaceInv, Row
  <1>2. /\ praxis'.type = praxis.type
        /\ praxis'.status = praxis.status
        /\ praxis'.members = praxis.members
        /\ praxis'.approved = praxis.approved
        /\ praxis'.window = NoWindow <=> praxis.window = NoWindow
    <2>1. ASSUME NEW c \in Characters, Type(c)
          PROVE  /\ praxis'.type = praxis.type
                 /\ praxis'.status = praxis.status
                 /\ praxis'.members = praxis.members
                 /\ praxis'.approved = praxis.approved
                 /\ praxis'.window = praxis.window
      BY <1>1, <2>1 DEF Type, Typed, Rows
    <2>2. CASE DayPasses
      <3>1. /\ praxis.window \in Nat
            /\ praxis'.type = praxis.type
            /\ praxis'.status = praxis.status
            /\ praxis'.members = praxis.members
            /\ praxis'.approved = praxis.approved
            /\ praxis'.window = praxis.window + 1
        BY <1>1, <2>2, DaysAssumption DEF DayPasses, Typed, Rows
      <3> QED
        BY <3>1 DEF NoWindow
    <2> QED
      BY <2>1, <2>2
  <1>3. Agreed(praxis')
    BY <1>1, <1>2 DEF Agreed
  <1>4. \A b \in Agents : tx'[b] # Idle =>
          Agreed(tx'[b].was) /\ Before(tx'[b].was, praxis')
    BY <1>2 DEF ApprovalInv, Open, Before
  <1> QED
    BY <1>2, <1>3, <1>4 DEF ApprovalInv, Open, GoesLive

\* Every step keeps the strengthening, and only a carried commit publishes.
LEMMA ApprovalStep ==
    ASSUME Requests \subseteq {"submit", "read"}, ApprovalInv,
           [RaceNext]_raceVars
    PROVE  /\ ApprovalInv'
           /\ GoesLive => \E a \in Open : Commit(a) /\ Carried(a, tx[a])
  <1>1. RaceInv' /\ RaceInv
    BY RaceStepSound DEF ApprovalInv
  <1>2. ASSUME UNCHANGED praxis,
               \/ UNCHANGED tx
               \/ \E a \in Agents : \E t :
                    /\ tx' = [tx EXCEPT ![a] = t]
                    /\ \/ t = Idle
                       \/ t.was = praxis
                       \/ tx[a] # Idle /\ t.was = tx[a].was
        PROVE  ApprovalInv' /\ ~GoesLive
    <2>1. tx = [b \in Agents |-> tx[b]]
      BY <1>1 DEF RaceInv
    <2>2. \A b \in Agents : tx'[b] # Idle =>
            \/ tx'[b].was = praxis
            \/ tx[b] # Idle /\ tx'[b].was = tx[b].was
      BY <1>2, <2>1
    <2> QED
      BY <1>1, <1>2, <2>2, StillAgreed DEF GoesLive
  <1>3. ASSUME NEW a \in Agents, NEW does, NEW outcome,
               Begin(a, does, outcome)
        PROVE  ApprovalInv' /\ ~GoesLive
    <2> DEFINE t == [does |-> does, was |-> praxis, now |-> outcome,
                     waits |-> FALSE]
    <2>1. t.was = praxis /\ tx' = [tx EXCEPT ![a] = t] /\ UNCHANGED praxis
      BY <1>3 DEF Begin
    <2> HIDE DEF t
    <2> QED
      BY <1>2, <2>1
  <1>4. CASE \/ \E c \in Characters : \/ BeginSubmit(c) \/ BeginMedia(c)
                                     \/ BeginWithdraw(c) \/ BeginLeave(c)
             \/ BeginRead
             \/ BeginFlush
    <2>1. \E a \in Agents : \E does, outcome : Begin(a, does, outcome)
      BY <1>4 DEF BeginSubmit, BeginMedia, BeginWithdraw, BeginLeave, BeginRead,
                  BeginFlush, Agents
    <2> QED
      BY <1>3, <2>1
  <1>5. ASSUME NEW a \in Agents, Wait(a) PROVE ApprovalInv' /\ ~GoesLive
    <2>1. tx[a] = [does |-> tx[a].does, was |-> tx[a].was, now |-> tx[a].now,
                   waits |-> tx[a].waits]
      BY <1>1, <1>5 DEF RaceInv, Open, Wait, Request
    <2>2. ASSUME NEW r, r = [does |-> r.does, was |-> r.was, now |-> r.now,
                             waits |-> r.waits]
          PROVE  [r EXCEPT !.waits = TRUE].was = r.was
      BY <2>2
    <2>3. [tx[a] EXCEPT !.waits = TRUE].was = tx[a].was
      BY <2>1, <2>2
    <2> QED
      BY <1>2, <1>5, <2>3 DEF Wait
  <1>6. ASSUME NEW a \in Agents, Rollback(a) PROVE ApprovalInv' /\ ~GoesLive
    BY <1>2, <1>6 DEF Rollback
  <1>7. ASSUME NEW a \in Agents, Commit(a)
        PROVE  ApprovalInv' /\ (GoesLive => a \in Open /\ Carried(a, tx[a]))
    BY <1>1, <1>7, CommitAgreed DEF Commit, Open
  <1>8. CASE Clock \/ \E c \in Characters : Keystroke(c)
    BY <1>1, <1>8, QuietAgreed DEF Clock, Keystroke
  <1>9. CASE UNCHANGED raceVars
    BY <1>2, <1>9 DEF raceVars
  <1> QED
    BY <1>4, <1>5, <1>6, <1>7, <1>8, <1>9 DEF RaceNext

\* While members only approve and readers only look, whatever the crew, the
\* window and the number of requests in the air, what is Live is approved by
\* everyone.
THEOREM LiveByAll ==
    ASSUME Requests \subseteq {"submit", "read"}
    PROVE  RaceSpec => []LiveIsApprovedByAll
  <1>1. RaceInit => ApprovalInv
    BY RaceInitAgreed
  <1>2. ApprovalInv /\ [RaceNext]_raceVars => ApprovalInv'
    BY ApprovalStep
  <1>3. ApprovalInv => LiveIsApprovedByAll
    BY DEF ApprovalInv, Agreed, LiveIsApprovedByAll
  <1> QED
    BY <1>1, <1>2, <1>3, PTL DEF RaceSpec

\* And what publishes was carried by consent or silence as its request saw
\* it, though the countdown may have been restarted since.
THEOREM CarriedWhenSealed ==
    ASSUME Requests \subseteq {"submit", "read"}
    PROVE  RaceSpec => SealedByConsentOrSilence
  <1>1. RaceInit => ApprovalInv
    BY RaceInitAgreed
  <1>2. ApprovalInv /\ [RaceNext]_raceVars => ApprovalInv'
    BY ApprovalStep
  <1>3. ASSUME ApprovalInv, [RaceNext]_raceVars, GoesLive
        PROVE  \E a \in Open :
                 /\ tx'[a] = Idle
                 /\ \/ Lapsed(tx[a].was)
                    \/ praxis.members \ praxis.approved \subseteq {a}
    <2>1. PICK a \in Open : Commit(a) /\ Carried(a, tx[a])
      BY <1>3, ApprovalStep
    <2>2. a \in Agents /\ tx'[a] = Idle
      BY <2>1 DEF Commit, Open
    <2>3. Before(tx[a].was, praxis)
      BY <1>3 DEF ApprovalInv
    <2>4. tx[a].was.status # "submitted"
      BY <1>3, <2>3 DEF GoesLive, Before
    <2>5. \/ Lapsed(tx[a].was)
          \/ praxis.members \ praxis.approved \subseteq {a}
      BY <2>1, <2>3, <2>4 DEF Carried, Before
    <2> QED
      BY <2>2, <2>5
  <1>4. ApprovalInv /\ [RaceNext]_raceVars =>
          [GoesLive => \E a \in Open :
                         /\ tx'[a] = Idle
                         /\ \/ Lapsed(tx[a].was)
                            \/ praxis.members \ praxis.approved \subseteq {a}]_raceVars
    BY <1>3
  <1> QED
    BY <1>1, <1>2, <1>4, PTL DEF RaceSpec, SealedByConsentOrSilence
=============================================================================
