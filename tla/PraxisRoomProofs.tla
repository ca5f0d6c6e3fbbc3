-------------------------- MODULE PraxisRoomProofs --------------------------
(***************************************************************************)
(* What holds of the praxis room for any number of members and words, and  *)
(* however often it is opened, dropped, crashed and published: a document  *)
(* is seeded once in its life, every socket has a room that its composer   *)
(* shows, every seeding comes to a text, and before the first publishing   *)
(* no word goes but with a submission.                                     *)
(***************************************************************************)
EXTENDS PraxisRoom, SumTheorems, TLAPS

\* The fields a step replaces are there.
Shape ==
    /\ room = [open |-> room.open, doc |-> room.doc, changed |-> room.changed,
               owed |-> room.owed, writing |-> room.writing]
    /\ room.open \in BOOLEAN
    /\ room.doc \subseteq Item
    /\ rows \subseteq Item
    /\ browser \in [Clients -> Browser]

Counts ==
    /\ Len(seeds) \in Nat
    /\ \E T : seeds \in Seq(T)
    /\ drawn = [seals |-> drawn.seals, visits |-> drawn.visits,
                drops |-> drawn.drops, crashes |-> drawn.crashes]
    /\ drawn.seals \in Nat

\* A stored document has been seeded once more than documents were destroyed;
\* a seal under way has already counted the one it is about to destroy.
Pace ==
    /\ Len(seeds) <= drawn.seals + 1
    /\ rows = {} => Len(seeds) <= drawn.seals
    /\ sealing # {} => Len(seeds) <= drawn.seals
    /\ rows = {} /\ sealing # {} => Len(seeds) < drawn.seals

RoomInv == Shape /\ Counts /\ Pace /\ ASocketHasItsRoom

\* What a composer's socket needs of the room.
Served(b, r) ==
    /\ b.link \in {"up", "synced"} => r.open
    /\ b.link = "synced" => r.doc \subseteq b.doc

-----------------------------------------------------------------------------
(* The helpers.                                                            *)

\* ASocketHasItsRoom, composer by composer.
LEMMA ServedEach == ASocketHasItsRoom <=> \A c \in Clients : Served(browser[c], room)
BY DEF ASocketHasItsRoom, Served, Connected, Synced

\* A composer that takes items keeps its fields, and has them.
LEMMA TakeKeeps ==
    ASSUME NEW b \in Browser, NEW items \in SUBSET Item
    PROVE  /\ Take(b, items) \in Browser
           /\ Take(b, items).doc = b.doc \cup items
           /\ Take(b, items).link = b.link
BY DEF Take, Browser

\* The room that receives items has them, and stays as open as it was.
LEMMA ReceiveKeeps ==
    ASSUME Shape, NEW items \in SUBSET Item
    PROVE  LET r == Receive(room, items)
           IN  /\ r = [open |-> r.open, doc |-> r.doc, changed |-> r.changed,
                       owed |-> r.owed, writing |-> r.writing]
               /\ r.open = room.open
               /\ r.doc = room.doc \cup items
BY DEF Shape, Receive

\* A broadcast reaches the synced composers and changes no link.
LEMMA BroadcastKeeps ==
    ASSUME NEW bs \in [Clients -> Browser], NEW items \in SUBSET Item
    PROVE  /\ Broadcast(bs, items) \in [Clients -> Browser]
           /\ \A c \in Clients :
                  /\ Broadcast(bs, items)[c].link = bs[c].link
                  /\ bs[c].doc \subseteq Broadcast(bs, items)[c].doc
                  /\ bs[c].link = "synced" => items \subseteq Broadcast(bs, items)[c].doc
<1>1. \A c \in Clients : bs[c] \in Browser
  OBVIOUS
<1>2. \A c \in Clients : Broadcast(bs, items)[c] = IF bs[c].link = "synced" THEN Take(bs[c], items) ELSE bs[c]
  BY DEF Broadcast
<1>3. \A c \in Clients : Broadcast(bs, items)[c] \in Browser
  BY <1>1, <1>2, TakeKeeps
<1>4. Broadcast(bs, items) \in [Clients -> Browser]
  BY <1>3 DEF Broadcast
<1> QED
  BY <1>1, <1>2, <1>4, TakeKeeps

\* Hanging sockets up touches nothing but the links it names.
LEMMA HangKeeps ==
    ASSUME NEW bs \in [Clients -> Browser], NEW to \in {"retrying", "stopped"}
    PROVE  LET hung == Hang(bs, {"up", "synced"}, to)
           IN  /\ hung \in [Clients -> Browser]
               /\ \A c \in Clients : hung[c].link \notin {"up", "synced"}
<1> DEFINE hung == Hang(bs, {"up", "synced"}, to)
<1>1. ASSUME NEW c \in Clients
      PROVE  hung[c] \in Browser /\ hung[c].link \notin {"up", "synced"}
  <2>1. bs[c] \in Browser
    OBVIOUS
  <2> QED
    BY <2>1, <1>1 DEF Hang, Browser
<1>2. hung \in [Clients -> Browser]
  BY <1>1 DEF Hang
<1> QED
  BY <1>1, <1>2

-----------------------------------------------------------------------------
\* At first the draft is unopened, unseeded and nobody holds a copy.
LEMMA RoomStart == RoomInit => RoomInv
<1> SUFFICES ASSUME RoomInit PROVE RoomInv
  OBVIOUS
<1> USE DEF RoomInit
<1>1. Shape
  BY DEF Shape, NoRoom, NoBrowser, Browser
<1>2. Counts
  <2>1. seeds \in Seq({}) /\ Len(seeds) = 0
    OBVIOUS
  <2> QED
    BY <2>1 DEF Counts
<1>3. Pace
  BY DEF Pace
<1>4. ASocketHasItsRoom
  BY DEF ASocketHasItsRoom, Connected, Synced, NoBrowser
<1> QED
  BY <1>1, <1>2, <1>3, <1>4 DEF RoomInv

-----------------------------------------------------------------------------
(* The steps that seed and destroy nothing.                                *)

\* Spending another bound than the seals' leaves the count of seeds alone.
LEMMA CountsStand ==
    ASSUME RoomInv, UNCHANGED <<seeds, sealing, rows>>,
           drawn' \in {drawn, [drawn EXCEPT !.visits = @ + 1],
                       [drawn EXCEPT !.drops = @ + 1]}
    PROVE  Counts' /\ Pace'
<1>1. /\ drawn' = [seals |-> drawn'.seals, visits |-> drawn'.visits,
                   drops |-> drawn'.drops, crashes |-> drawn'.crashes]
      /\ drawn'.seals = drawn.seals
  BY DEF RoomInv, Counts
<1>2. Counts'
  BY <1>1 DEF RoomInv, Counts
<1>3. Pace'
  BY <1>1 DEF RoomInv, Pace
<1> QED
  BY <1>2, <1>3

\* A step that touches one composer's own fields and connects nobody.
LEMMA OneComposer ==
    ASSUME RoomInv, NEW c \in Clients, NEW b \in Browser,
           browser' = [browser EXCEPT ![c] = b],
           \/ (b.link = browser[c].link /\ b.doc = browser[c].doc)
           \/ b.link \notin {"up", "synced"},
           UNCHANGED <<room, seeds, sealing, rows>>,
           drawn' \in {drawn, [drawn EXCEPT !.visits = @ + 1],
                       [drawn EXCEPT !.drops = @ + 1]}
    PROVE  RoomInv'
<1>1. Counts' /\ Pace'
  BY CountsStand
<1>2. Shape'
  BY DEF RoomInv, Shape
<1>3. \A d \in Clients : Served(browser[d], room)
  BY ServedEach DEF RoomInv
<1>4. \A d \in Clients : Served(browser'[d], room')
  <2> TAKE d \in Clients
  <2>1. browser'[d] = IF d = c THEN b ELSE browser[d]
    BY DEF RoomInv, Shape
  <2> QED
    BY <1>3, <2>1 DEF Served
<1>5. ASocketHasItsRoom'
  BY <1>4 DEF ASocketHasItsRoom, Served, Connected, Synced
<1> QED
  BY <1>1, <1>2, <1>5 DEF RoomInv

\* A composer's document goes to the room, and from there to every synced one.
LEMMA ItemsSpread ==
    ASSUME RoomInv, NEW bs \in [Clients -> Browser], NEW items \in SUBSET Item,
           browser' = Broadcast(bs, items), room' = Receive(room, items),
           \A d \in Clients : /\ bs[d].link \in {"up", "synced"} => room.open
                              /\ bs[d].link = "synced" => room.doc \subseteq bs[d].doc \cup items,
           UNCHANGED <<seeds, sealing, rows, drawn>>
    PROVE  RoomInv'
<1>1. Counts' /\ Pace'
  BY CountsStand
<1>2. /\ room' = [open |-> room'.open, doc |-> room'.doc, changed |-> room'.changed,
                  owed |-> room'.owed, writing |-> room'.writing]
      /\ room'.open = room.open
      /\ room'.doc = room.doc \cup items
  BY ReceiveKeeps DEF RoomInv
<1>3. Shape'
  BY <1>2, BroadcastKeeps DEF RoomInv, Shape
<1>4. \A d \in Clients : Served(browser'[d], room')
  BY <1>2, BroadcastKeeps DEF Served
<1>5. ASocketHasItsRoom'
  BY <1>4 DEF ASocketHasItsRoom, Served, Connected, Synced
<1> QED
  BY <1>1, <1>3, <1>5 DEF RoomInv

\* A visit mounts a composer whose socket is still opening.
LEMMA VisitKeeps == ASSUME RoomInv, NEW c \in Clients, Visit(c) PROVE RoomInv'
<1>1. Opened(c) \in Browser /\ Opened(c).link = "opening"
  BY DEF Opened, NoBrowser, Browser, RoomInv, Shape
<1> QED
  BY <1>1, OneComposer DEF Visit

\* The drop of the offline copy leaves the document and the socket as they are.
LEMMA SeePublishedKeeps == ASSUME RoomInv, NEW c \in Clients, SeePublished(c) PROVE RoomInv'
<1> DEFINE b == [browser[c] EXCEPT !.store = {}]
<1>1. b \in Browser /\ b.link = browser[c].link /\ b.doc = browser[c].doc
  BY DEF Browser, RoomInv, Shape
<1>2. browser' = [browser EXCEPT ![c] = b]
  BY DEF SeePublished
<1> HIDE DEF b
<1> QED
  BY <1>1, <1>2, OneComposer DEF SeePublished

\* The offline copy comes up: the composer takes it, and a synced one hands it on.
LEMMA LoadCopyKeeps == ASSUME RoomInv, NEW c \in Clients, LoadCopy(c) PROVE RoomInv'
<1> DEFINE b == browser[c]
           kept == [b EXCEPT !.copy = "kept",
                             !.seeded = @ \/ Content(b.doc \cup b.store) # {}]
           bs == [browser EXCEPT ![c] = Take(kept, b.store)]
<1>1. b \in Browser /\ b.store \in SUBSET Item
  BY DEF Browser, RoomInv, Shape
<1>2. kept \in Browser /\ kept.link = b.link /\ kept.doc = b.doc
  BY <1>1 DEF Browser
<1> HIDE DEF kept
<1>3. /\ Take(kept, b.store) \in Browser
      /\ Take(kept, b.store).link = b.link
      /\ b.doc \subseteq Take(kept, b.store).doc
  BY <1>1, <1>2, TakeKeeps
<1>4. bs \in [Clients -> Browser]
  BY <1>3 DEF RoomInv, Shape
<1>5. \A d \in Clients : Served(bs[d], room)
  <2>1. \A d \in Clients : Served(browser[d], room)
    BY ServedEach DEF RoomInv
  <2> TAKE d \in Clients
  <2>2. bs[d] = IF d = c THEN Take(kept, b.store) ELSE browser[d]
    BY DEF RoomInv, Shape
  <2> QED
    BY <1>3, <2>1, <2>2 DEF Served
<1>6. CASE b.link = "synced"
  <2>1. browser' = Broadcast(bs, b.store) /\ room' = Receive(room, b.store)
    BY <1>6 DEF LoadCopy, kept
  <2> HIDE DEF bs
  <2> QED
    BY <1>1, <1>4, <1>5, <2>1, ItemsSpread DEF LoadCopy, Served
<1>7. CASE b.link # "synced"
  <2>1. browser' = Broadcast(bs, {}) /\ room' = room
    BY <1>7 DEF LoadCopy, kept
  <2>2. room' = Receive(room, {})
    BY <2>1 DEF Receive
  <2>3. \A d \in Clients : /\ bs[d].link \in {"up", "synced"} => room.open
                           /\ bs[d].link = "synced" => room.doc \subseteq bs[d].doc \cup {}
    BY <1>5 DEF Served
  <2>4. UNCHANGED <<seeds, sealing, rows, drawn>>
    BY DEF LoadCopy
  <2> HIDE DEF bs
  <2> QED
    BY <1>4, <2>1, <2>2, <2>3, <2>4, ItemsSpread
<1> QED
  BY <1>6, <1>7

\* A keystroke reaches the room of a synced composer, and no room otherwise.
LEMMA TypeKeeps ==
    ASSUME RoomInv, NEW c \in Clients, NEW w \in Words, Type(c, w) PROVE RoomInv'
<1> DEFINE b == browser[c]
           bs == [browser EXCEPT ![c] = Take(@, {w})]
<1>1. b \in Browser /\ {w} \in SUBSET Item
  BY DEF RoomInv, Shape, Item
<1>2. Take(b, {w}) \in Browser /\ Take(b, {w}).link = b.link /\ b.doc \subseteq Take(b, {w}).doc
  BY <1>1, TakeKeeps
<1>3. bs \in [Clients -> Browser]
  BY <1>2 DEF RoomInv, Shape
<1>4. \A d \in Clients : Served(bs[d], room)
  <2>1. \A d \in Clients : Served(browser[d], room)
    BY ServedEach DEF RoomInv
  <2> TAKE d \in Clients
  <2>2. bs[d] = IF d = c THEN Take(b, {w}) ELSE browser[d]
    BY DEF RoomInv, Shape
  <2> QED
    BY <1>2, <2>1, <2>2 DEF Served
<1>5. CASE b.link = "synced"
  <2>1. browser' = Broadcast(bs, {w}) /\ room' = Receive(room, {w})
    BY <1>5 DEF Type
  <2> HIDE DEF bs
  <2> QED
    BY <1>1, <1>3, <1>4, <2>1, ItemsSpread DEF Type, Served
<1>6. CASE b.link # "synced"
  <2>1. browser' = bs /\ room' = room
    BY <1>6 DEF Type
  <2>2. Counts' /\ Pace'
    BY CountsStand DEF Type
  <2>3. Shape'
    BY <1>3, <2>1 DEF RoomInv, Shape, Type
  <2>4. ASocketHasItsRoom'
    BY <1>4, <2>1 DEF ASocketHasItsRoom, Served, Connected, Synced
  <2> QED
    BY <2>2, <2>3, <2>4 DEF RoomInv
<1> QED
  BY <1>5, <1>6

\* An unmounted composer has hung up.
LEMMA LeaveKeeps == ASSUME RoomInv, NEW c \in Clients, Leave(c) PROVE RoomInv'
<1>1. Gone(c) \in Browser /\ Gone(c).link = "off"
  BY DEF Gone, NoBrowser, Browser, RoomInv, Shape
<1> QED
  BY <1>1, OneComposer DEF Leave

\* The answer to a submission sends the composer away with its socket as it was.
LEMMA HearSubmittedKeeps == ASSUME RoomInv, NEW c \in Clients, HearSubmitted(c) PROVE RoomInv'
<1> DEFINE b == [browser[c] EXCEPT !.tab = "leaving", !.copy = "none", !.store = {}]
<1>1. b \in Browser /\ b.link = browser[c].link /\ b.doc = browser[c].doc
  BY DEF Browser, RoomInv, Shape
<1>2. \/ browser' = [browser EXCEPT ![c] = b]
      \/ browser' = [browser EXCEPT ![c] = NoBrowser]
  BY DEF HearSubmitted, RoomInv, Shape
<1>3. NoBrowser \in Browser /\ NoBrowser.link = "off"
  BY DEF NoBrowser, Browser
<1> HIDE DEF b
<1>4. CASE browser' = [browser EXCEPT ![c] = b]
  BY <1>1, <1>4, OneComposer DEF HearSubmitted
<1>5. CASE browser' = [browser EXCEPT ![c] = NoBrowser]
  BY <1>3, <1>5, OneComposer DEF HearSubmitted
<1> QED
  BY <1>2, <1>4, <1>5

\* A submission that seals nothing leaves document and socket alone.
LEMMA ProposeKeeps == ASSUME RoomInv, NEW c \in Clients, Propose(c) PROVE RoomInv'
<1> DEFINE b == [browser[c] EXCEPT !.tab = "answered"]
<1>1. b \in Browser /\ b.link = browser[c].link /\ b.doc = browser[c].doc
  BY DEF Browser, RoomInv, Shape
<1>2. browser' = [browser EXCEPT ![c] = b]
  BY DEF Propose, Answered
<1> HIDE DEF b
<1> QED
  BY <1>1, <1>2, OneComposer DEF Propose

\* A dropped socket retries.
LEMMA DropKeeps == ASSUME RoomInv, NEW c \in Clients, Drop(c) PROVE RoomInv'
<1> DEFINE b == [browser[c] EXCEPT !.link = AfterDrop(@)]
<1>1. b \in Browser /\ b.link = "retrying"
  BY DEF Browser, RoomInv, Shape, Drop, Connected, AfterDrop
<1>2. browser' = [browser EXCEPT ![c] = b]
  BY DEF Drop
<1> HIDE DEF b
<1> QED
  BY <1>1, <1>2, OneComposer DEF Drop

\* A socket that gave up is no longer connected.
LEMMA GiveUpKeeps == ASSUME RoomInv, NEW c \in Clients, GiveUp(c) PROVE RoomInv'
<1> DEFINE b == [browser[c] EXCEPT !.link = "gaveUp"]
<1>1. b \in Browser /\ b.link = "gaveUp"
  BY DEF Browser, RoomInv, Shape
<1>2. browser' = [browser EXCEPT ![c] = b]
  BY DEF GiveUp
<1> HIDE DEF b
<1> QED
  BY <1>1, <1>2, OneComposer DEF GiveUp

\* The sync handshake leaves both ends with what either had.
LEMMA SyncKeeps == ASSUME RoomInv, NEW c \in Clients, Sync(c) PROVE RoomInv'
<1> DEFINE b == [browser[c] EXCEPT !.link = "synced", !.seeded = TRUE]
           bs == [browser EXCEPT ![c] = b]
           items == room.doc \cup b.doc
<1>1. /\ b \in Browser
      /\ b.doc = browser[c].doc
      /\ browser[c].doc \in SUBSET Item
      /\ room.doc \in SUBSET Item
  BY DEF Browser, RoomInv, Shape
<1>2. bs \in [Clients -> Browser] /\ items \in SUBSET Item
  BY <1>1 DEF RoomInv, Shape
<1>3. browser' = Broadcast(bs, items) /\ room' = Receive(room, items)
  BY <1>1 DEF Sync, Receive
<1>4. room.open
  BY DEF Sync, RoomInv, ASocketHasItsRoom, Connected
<1>5. \A d \in Clients : /\ bs[d].link \in {"up", "synced"} => room.open
                         /\ bs[d].link = "synced" => room.doc \subseteq bs[d].doc \cup items
  BY <1>4
<1> HIDE DEF bs, items
<1> QED
  BY <1>2, <1>3, <1>5, ItemsSpread DEF Sync

\* A socket is admitted to the open room, or opens it on the rows or on a seed.
LEMMA ConnectKeeps == ASSUME RoomInv, NEW c \in Clients, Connect(c) PROVE RoomInv'
<1> DEFINE b == [browser[c] EXCEPT !.link = "up"]
           seed == {Len(seeds) + 1}
           opens(doc) == [NoRoom EXCEPT !.open = TRUE, !.doc = doc]
<1>1. browser' = [browser EXCEPT ![c] = b] /\ b \in Browser /\ b.link = "up"
  BY DEF Connect, Browser, RoomInv, Shape
<1>2. browser' \in [Clients -> Browser]
  BY <1>1 DEF RoomInv, Shape
<1>3. \A d \in Clients : browser'[d] = IF d = c THEN b ELSE browser[d]
  BY <1>1 DEF RoomInv, Shape
<1>4. \A d \in Clients : Served(browser[d], room)
  BY ServedEach DEF RoomInv
<1>5. CASE room.open /\ UNCHANGED <<room, rows, seeds>>
  <2>1. Counts' /\ Pace'
    BY <1>5, CountsStand DEF Connect
  <2>2. Shape'
    BY <1>2, <1>5 DEF RoomInv, Shape
  <2>3. \A d \in Clients : Served(browser'[d], room')
    BY <1>1, <1>3, <1>4, <1>5 DEF Served
  <2> QED
    BY <2>1, <2>2, <2>3 DEF RoomInv, ASocketHasItsRoom, Served, Connected, Synced
<1>6. CASE ~room.open /\ room' = opens(rows) /\ UNCHANGED <<rows, seeds>>
  <2>1. Counts' /\ Pace'
    BY <1>6, CountsStand DEF Connect
  <2>2. Shape'
    BY <1>2, <1>6 DEF RoomInv, Shape, NoRoom
  <2>3. room'.open
    BY <1>6 DEF NoRoom
  <2>4. \A d \in Clients : browser'[d].link # "synced"
    BY <1>1, <1>3, <1>4, <1>6 DEF Served
  <2> QED
    BY <2>1, <2>2, <2>3, <2>4 DEF RoomInv, ASocketHasItsRoom, Synced
<1>7. CASE /\ ~room.open
           /\ NeedsSeed(rows)
           /\ seeds' = Append(seeds, record)
           /\ room' = opens(rows \cup seed)
           /\ rows' = rows \cup seed
  <2>1. PICK T : seeds \in Seq(T)
    BY DEF RoomInv, Counts
  <2>2. /\ seeds' \in Seq(T \cup {record})
        /\ Len(seeds') = Len(seeds) + 1
        /\ Len(seeds) \in Nat
    <3>1. seeds \in Seq(T \cup {record})
      BY <2>1
    <3> QED
      BY <1>7, <3>1
  <2>3. Counts'
    BY <2>2 DEF RoomInv, Counts, Connect
  <2>4. drawn' = drawn /\ sealing' = sealing /\ rows = {} /\ rows' # {}
    BY <1>7 DEF Connect, NeedsSeed
  <2>5. Pace'
    BY <2>2, <2>4 DEF RoomInv, Pace, Counts
  <2>6. seed \subseteq Item
    BY <2>2 DEF Item
  <2>7. Shape'
    BY <1>2, <1>7, <2>6 DEF RoomInv, Shape, NoRoom
  <2>8. room'.open
    BY <1>7 DEF NoRoom
  <2>9. \A d \in Clients : browser'[d].link # "synced"
    BY <1>1, <1>3, <1>4, <1>7 DEF Served
  <2> QED
    BY <2>3, <2>5, <2>7, <2>8, <2>9 DEF RoomInv, ASocketHasItsRoom, Synced
<1> QED
  BY <1>5, <1>6, <1>7 DEF Connect

-----------------------------------------------------------------------------
(* The room's tasks, the seal and the restart.                             *)

\* Storing updates adds rows, and a document with rows stays one.
LEMMA StoreUpdatesKeeps == ASSUME RoomInv, StoreUpdates PROVE RoomInv'
<1>1. Shape'
  BY DEF RoomInv, Shape, StoreUpdates
<1>2. Counts'
  BY DEF RoomInv, Counts, StoreUpdates
<1>3. rows' # {} /\ (sealing' = sealing) /\ seeds' = seeds /\ drawn' = drawn
  BY DEF StoreUpdates
<1>4. Pace'
  BY <1>3 DEF RoomInv, Pace
<1>5. ASocketHasItsRoom'
  BY DEF RoomInv, ASocketHasItsRoom, Connected, Synced, StoreUpdates
<1> QED
  BY <1>1, <1>2, <1>4, <1>5 DEF RoomInv

\* A flush reads the document and leaves it as it is.
LEMMA FlushKeeps == ASSUME RoomInv, BeginFlush \/ EndFlush PROVE RoomInv'
<1>1. Counts' /\ Pace'
  BY CountsStand DEF BeginFlush, EndFlush
<1>2. /\ room' = [open |-> room'.open, doc |-> room'.doc, changed |-> room'.changed,
                  owed |-> room'.owed, writing |-> room'.writing]
      /\ room'.open = room.open
      /\ room'.doc = room.doc
  <2>1. CASE BeginFlush
    BY <2>1 DEF RoomInv, Shape, BeginFlush
  <2>2. CASE EndFlush
    BY <2>2 DEF RoomInv, Shape, EndFlush
  <2> QED
    BY <2>1, <2>2
<1>3. browser' = browser /\ rows' = rows
  BY DEF BeginFlush, EndFlush
<1>4. Shape'
  BY <1>2, <1>3 DEF RoomInv, Shape
<1>5. ASocketHasItsRoom'
  BY <1>2, <1>3 DEF RoomInv, ASocketHasItsRoom, Connected, Synced
<1> QED
  BY <1>1, <1>4, <1>5 DEF RoomInv

\* The last one out closes a room no socket is in.
LEMMA ReleaseKeeps == ASSUME RoomInv, Release PROVE RoomInv'
<1>1. Counts' /\ Pace'
  BY CountsStand DEF Release
<1>2. Shape'
  BY DEF RoomInv, Shape, Release, NoRoom
<1>3. ASocketHasItsRoom'
  BY DEF ASocketHasItsRoom, Connected, Synced, Release
<1> QED
  BY <1>1, <1>2, <1>3 DEF RoomInv

\* The discard closes the room, revokes its sockets and dooms the rows.
LEMMA DiscardKeeps == ASSUME RoomInv, NEW who, Discard(who) PROVE RoomInv'
<1>1. /\ drawn' = [seals |-> drawn.seals + 1, visits |-> drawn.visits,
                   drops |-> drawn.drops, crashes |-> drawn.crashes]
      /\ sealing = {} /\ sealing' # {}
      /\ UNCHANGED <<rows, seeds>>
  BY DEF Discard, RoomInv, Counts
<1>2. Counts'
  BY <1>1 DEF RoomInv, Counts
<1>3. Pace'
  BY <1>1 DEF RoomInv, Pace, Counts
<1>4. /\ browser' \in [Clients -> Browser]
      /\ \A c \in Clients : browser'[c].link \notin {"up", "synced"}
  BY HangKeeps DEF Discard, Revoked, RoomInv, Shape
<1>5. Shape'
  BY <1>1, <1>4 DEF RoomInv, Shape, Discard, NoRoom
<1>6. ASocketHasItsRoom'
  BY <1>4 DEF ASocketHasItsRoom, Connected, Synced
<1> QED
  BY <1>2, <1>3, <1>5, <1>6 DEF RoomInv

\* The sealing transaction takes the doomed rows, already paid for by its seal.
LEMMA CommitKeeps == ASSUME RoomInv, Commit PROVE RoomInv'
<1>1. PICK s \in sealing :
         /\ sealing' = {}
         /\ rows' = rows \ s.doomed
         /\ browser' = [c \in Clients |-> IF c = s.by /\ Mounted(c)
                                          THEN [browser[c] EXCEPT !.tab = "answered"]
                                          ELSE browser[c]]
         /\ UNCHANGED <<room, seeds, beside, drawn>>
  BY DEF Commit, Answered
<1>2. Counts'
  BY <1>1 DEF RoomInv, Counts
<1>3. Len(seeds) <= drawn.seals
  BY <1>1 DEF RoomInv, Pace
<1>4. Pace'
  BY <1>1, <1>2, <1>3 DEF Pace, Counts
<1>5. \A c \in Clients : /\ browser'[c] \in Browser
                         /\ browser'[c].link = browser[c].link
                         /\ browser'[c].doc = browser[c].doc
  <2> TAKE c \in Clients
  <2>1. browser[c] \in Browser
    BY DEF RoomInv, Shape
  <2> QED
    BY <1>1, <2>1 DEF Browser
<1>6. browser' \in [Clients -> Browser]
  BY <1>1, <1>5
<1>7. Shape'
  BY <1>1, <1>6 DEF RoomInv, Shape
<1>8. ASocketHasItsRoom'
  BY <1>1, <1>5 DEF RoomInv, ASocketHasItsRoom, Connected, Synced
<1> QED
  BY <1>2, <1>4, <1>7, <1>8 DEF RoomInv

\* Pulling back to a draft opens nothing.
LEMMA UnsubmitKeeps == ASSUME RoomInv, Unsubmit PROVE RoomInv'
  BY DEF RoomInv, Shape, Counts, Pace, ASocketHasItsRoom, Connected, Synced, Unsubmit

\* A restart keeps the rows and hangs everybody up.
LEMMA CrashKeeps == ASSUME RoomInv, Crash PROVE RoomInv'
<1>1. /\ drawn' = [drawn EXCEPT !.crashes = @ + 1]
      /\ sealing' = {}
      /\ UNCHANGED <<rows, seeds>>
  BY DEF Crash
<1>2. /\ drawn' = [seals |-> drawn'.seals, visits |-> drawn'.visits,
                   drops |-> drawn'.drops, crashes |-> drawn'.crashes]
      /\ drawn'.seals = drawn.seals
  BY <1>1 DEF RoomInv, Counts
<1>3. Counts'
  BY <1>1, <1>2 DEF RoomInv, Counts
<1>4. Pace'
  BY <1>1, <1>2 DEF RoomInv, Pace
<1>5. /\ browser' \in [Clients -> Browser]
      /\ \A c \in Clients : browser'[c].link \notin {"up", "synced"}
  BY HangKeeps DEF Crash, RoomInv, Shape
<1>6. Shape'
  BY <1>1, <1>5 DEF RoomInv, Shape, Crash, NoRoom
<1>7. ASocketHasItsRoom'
  BY <1>5 DEF ASocketHasItsRoom, Connected, Synced
<1> QED
  BY <1>3, <1>4, <1>6, <1>7 DEF RoomInv

\* Every step of the room keeps the invariant.
LEMMA StepKeeps == ASSUME RoomInv, [RoomNext]_roomVars PROVE RoomInv'
<1>1. CASE UNCHANGED roomVars
  BY <1>1 DEF roomVars, RoomInv, Shape, Counts, Pace, ASocketHasItsRoom, Connected, Synced
<1>2. CASE RoomNext
  BY <1>2, VisitKeeps, SeePublishedKeeps, LoadCopyKeeps, TypeKeeps, LeaveKeeps,
     HearSubmittedKeeps, ProposeKeeps, ConnectKeeps, SyncKeeps, DropKeeps,
     GiveUpKeeps, StoreUpdatesKeeps, FlushKeeps, ReleaseKeeps, DiscardKeeps, CommitKeeps,
     UnsubmitKeeps, CrashKeeps
  DEF RoomNext, Submit, Lapse
<1> QED
  BY <1>1, <1>2

-----------------------------------------------------------------------------
\* The inductive invariant holds of every reachable state.
THEOREM RoomInvariance == RoomSpec => []RoomInv
<1>1. RoomInit => RoomInv
  BY RoomStart
<1>2. RoomInv /\ [RoomNext]_roomVars => RoomInv'
  BY StepKeeps
<1> QED
  BY <1>1, <1>2, PTL DEF RoomSpec

\* PraxisRoomServer._load_or_seed seeds a document once in its life, whatever
\* opens, drops, crashes and publishes around it.
THEOREM SeededOnceInALife == RoomSpec => []SeededOnce
<1>1. RoomInv => SeededOnce
  <2> SUFFICES ASSUME RoomInv PROVE SeededOnce
    OBVIOUS
  <2> QED
    BY DEF RoomInv, Pace, Counts, SeededOnce
<1> QED
  BY <1>1, RoomInvariance, PTL

\* PraxisRoomServer.release and discard_document leave no socket on a room
\* that has gone, and a synced composer shows what its room holds.
THEOREM SocketsHaveRooms == RoomSpec => []ASocketHasItsRoom
<1>1. RoomInv => ASocketHasItsRoom
  BY DEF RoomInv
<1> QED
  BY <1>1, RoomInvariance, PTL

-----------------------------------------------------------------------------
(* Text before the first publishing.  A document that holds a word holds   *)
(* what it was typed beside, so the word shows wherever it is; a copy that *)
(* has loaded is the document, until an answer to a submission drops it;   *)
(* and a step keeps what the rows, the composers and their copies hold.    *)

Closed(b, D) == \A w \in D \cap Words : w \in DOMAIN b /\ b[w] \subseteq D

\* An unmounted composer is empty; a copy that has loaded is the document; a
\* composer that is about to leave has dropped its copy.
Copied(b) ==
    /\ b.tab = "off" => b.doc = {} /\ b.link = "off"
    /\ b.tab \in {"off", "leaving"} <=> b.copy = "none"
    /\ b.tab = "leaving" => b.store = {}
    /\ b.copy = "kept" => b.store = b.doc

Whole(bd, b) == Copied(b) /\ Closed(bd, b.doc) /\ Closed(bd, b.store)

Held(w, S, bs) == w \in S \/ \E c \in Clients : w \in bs[c].doc \cup bs[c].store

Sound ==
    drawn.seals = 0 =>
        /\ sealing = {} /\ ~published
        /\ Typed \subseteq Words
        /\ Closed(beside, rows) /\ Closed(beside, room.doc)
        /\ \A c \in Clients :
             /\ Whole(beside, browser[c])
             /\ browser[c].link = "synced" => browser[c].doc = room.doc

\* What a step must do with the words held.
Keeps == \A w \in Typed : Held(w, rows, browser) => Held(w, rows', browser')

\* PartsWith, whether or not the word shows.
LetsGo(c, w) ==
    /\ \/ browser[c].tab = "answered" /\ browser'[c].store = {}
       \/ browser[c].tab = "leaving" /\ browser'[c].tab = "off"
    /\ w \in browser[c].doc \cup browser[c].store

\* The words held when nothing has been published are kept, or let go.
KeepsOrLetsGo ==
    \A w \in Typed : Held(w, rows, browser) =>
        Held(w, rows', browser') \/ \E c \in Clients : LetsGo(c, w)

\* Closed documents merge into a closed one.
LEMMA ClosedMerge ==
    ASSUME NEW b, NEW D, NEW E, Closed(b, D), Closed(b, E)
    PROVE  Closed(b, D \cup E)
BY DEF Closed

\* Nothing is a closed document.
LEMMA ClosedEmpty == ASSUME NEW b PROVE Closed(b, {})
BY DEF Closed

\* A mounted composer that takes items leaves none of its own out of its copy.
LEMMA TakeWhole ==
    ASSUME NEW bd, NEW b \in Browser, Copied(b), b.tab # "off",
           NEW items \in SUBSET Item,
           Closed(bd, b.doc \cup items), Closed(bd, b.store)
    PROVE  /\ Whole(bd, Take(b, items))
           /\ b.doc \cup b.store \cup items \subseteq Take(b, items).doc \cup Take(b, items).store
<1>1. /\ Take(b, items).tab = b.tab
      /\ Take(b, items).doc = b.doc \cup items
      /\ Take(b, items).store = IF b.copy = "kept" THEN b.doc \cup items ELSE b.store
      /\ Take(b, items).copy = b.copy
      /\ Take(b, items).link = b.link
  BY DEF Take, Browser, Copied
<1>2. Copied(Take(b, items))
  BY <1>1 DEF Copied
<1>3. Closed(bd, Take(b, items).doc) /\ Closed(bd, Take(b, items).store)
  BY <1>1
<1> QED
  BY <1>1, <1>2, <1>3 DEF Whole, Copied

\* What reaches the room reaches every synced composer, whole.
LEMMA SpreadSound ==
    ASSUME RoomInv, NEW bs \in [Clients -> Browser], NEW items \in SUBSET Item,
           browser' = Broadcast(bs, items), room' = Receive(room, items),
           UNCHANGED <<rows, sealing, published, seeds>>,
           sealing = {}, ~published, Typed' \subseteq Words,
           \A w \in Typed : Held(w, rows, browser) => Held(w, rows, bs),
           Closed(beside', rows), Closed(beside', room.doc \cup items),
           \A c \in Clients :
             /\ Whole(beside', bs[c])
             /\ bs[c].link = "synced" => bs[c].doc \cup items = room.doc \cup items
    PROVE  Sound' /\ Keeps
<1>1. room'.doc = room.doc \cup items
  BY ReceiveKeeps DEF RoomInv
<1>2. ASSUME NEW c \in Clients
      PROVE  /\ Whole(beside', browser'[c])
             /\ browser'[c].link = "synced" => browser'[c].doc = room'.doc
             /\ bs[c].doc \cup bs[c].store \subseteq browser'[c].doc \cup browser'[c].store
  <2>1. browser'[c] = IF bs[c].link = "synced" THEN Take(bs[c], items) ELSE bs[c]
    BY DEF Broadcast
  <2>2. bs[c] \in Browser /\ Whole(beside', bs[c])
    OBVIOUS
  <2>3. CASE bs[c].link = "synced"
    <3>1. bs[c].tab # "off" /\ Copied(bs[c]) /\ Closed(beside', bs[c].store)
      BY <2>2, <2>3 DEF Whole, Copied
    <3>2. Closed(beside', bs[c].doc \cup items)
      BY <2>3
    <3>3. Whole(beside', Take(bs[c], items))
          /\ bs[c].doc \cup bs[c].store \subseteq Take(bs[c], items).doc \cup Take(bs[c], items).store
      BY <2>2, <3>1, <3>2, TakeWhole
    <3>4. Take(bs[c], items).doc = bs[c].doc \cup items
      BY <2>2, TakeKeeps
    <3> QED
      BY <1>1, <2>1, <2>3, <3>3, <3>4
  <2>4. CASE bs[c].link # "synced"
    BY <2>1, <2>2, <2>4
  <2> QED
    BY <2>3, <2>4
<1>3. Keeps
  BY <1>2 DEF Held, Keeps
<1> QED
  BY <1>1, <1>2, <1>3 DEF Sound, Typed

\* A step of one composer that puts nothing away.
LEMMA OneSound ==
    ASSUME RoomInv, Sound, drawn.seals = 0, NEW c \in Clients, NEW b,
           browser' = [browser EXCEPT ![c] = b],
           Whole(beside, b),
           b.link = "synced" => browser[c].link = "synced" /\ b.doc = browser[c].doc,
           browser[c].doc \cup browser[c].store \subseteq b.doc \cup b.store,
           UNCHANGED <<room, rows, sealing, published, beside>>
    PROVE  Sound' /\ Keeps
<1>1. \A d \in Clients : browser'[d] = IF d = c THEN b ELSE browser[d]
  BY DEF RoomInv, Shape
<1>2. Keeps
  BY <1>1 DEF Held, Keeps
<1> QED
  BY <1>1, <1>2 DEF Sound, Typed

\* A step that moves no composer's document, and stores at most more.
LEMMA QuietSound ==
    ASSUME RoomInv, Sound, drawn.seals = 0,
           sealing' = {}, UNCHANGED <<published, beside>>,
           rows \subseteq rows', Closed(beside, rows'), Closed(beside, room'.doc),
           \A c \in Clients :
             /\ browser'[c].tab = browser[c].tab
             /\ browser'[c].doc = browser[c].doc
             /\ browser'[c].store = browser[c].store
             /\ browser'[c].copy = browser[c].copy
             /\ browser[c].tab = "off" => browser'[c].link = "off"
             /\ browser'[c].link = "synced" =>
                  browser[c].link = "synced" /\ room'.doc = room.doc
    PROVE  Sound' /\ Keeps
<1>1. \A c \in Clients : Whole(beside, browser'[c])
  BY DEF Sound, Whole, Copied
<1>2. Keeps
  BY DEF Held, Keeps
<1>3. \A c \in Clients : browser'[c].link = "synced" => browser'[c].doc = room'.doc
  BY <1>1 DEF Sound
<1> QED
  BY <1>1, <1>2, <1>3 DEF Sound, Typed

\* A visit finds the copy the last one left, and an empty document.
LEMMA VisitSound ==
    ASSUME RoomInv, Sound, drawn.seals = 0, NEW c \in Clients, Visit(c)
    PROVE  Sound' /\ Keeps
<1>1. browser[c] \in Browser /\ Whole(beside, browser[c]) /\ browser[c].doc = {}
  BY DEF RoomInv, Shape, Sound, Whole, Copied, Visit, Mounted, Browser
<1>2. /\ Opened(c).tab = "open" /\ Opened(c).doc = {} /\ Opened(c).copy = "loading"
      /\ Opened(c).store = browser[c].store /\ Opened(c).link = "opening"
  BY DEF Opened, NoBrowser
<1>3. Whole(beside, Opened(c))
  BY <1>1, <1>2, ClosedEmpty DEF Whole, Copied
<1> HIDE DEF Opened
<1> QED
  BY <1>1, <1>2, <1>3, OneSound DEF Visit

\* The copy that comes up is merged into the document, and both stay whole.
LEMMA LoadCopySound ==
    ASSUME RoomInv, Sound, drawn.seals = 0, NEW c \in Clients, LoadCopy(c)
    PROVE  Sound' /\ Keeps
<1> DEFINE b == browser[c]
           kept == [b EXCEPT !.copy = "kept",
                             !.seeded = @ \/ Content(b.doc \cup b.store) # {}]
           t == Take(kept, b.store)
           bs == [browser EXCEPT ![c] = t]
           items == IF b.link = "synced" THEN b.store ELSE {}
<1>1. /\ b \in Browser /\ b.store \in SUBSET Item /\ Whole(beside, b)
      /\ b.tab \notin {"off", "leaving"}
  BY DEF Browser, RoomInv, Shape, Sound, Whole, Copied, LoadCopy
<1>2. /\ kept \in Browser /\ kept.link = b.link /\ kept.doc = b.doc /\ kept.tab = b.tab
      /\ kept.copy = "kept" /\ kept.store = b.store
  BY <1>1 DEF Browser
<1> HIDE DEF kept
<1>3. /\ t \in Browser /\ t.doc = b.doc \cup b.store /\ t.store = b.doc \cup b.store
      /\ t.tab = b.tab /\ t.copy = "kept" /\ t.link = b.link
  BY <1>1, <1>2 DEF Take, Browser
<1>4. Whole(beside, t)
  BY <1>1, <1>3, ClosedMerge DEF Whole, Copied
<1>5. browser' = Broadcast(bs, items) /\ room' = Receive(room, items)
  BY DEF LoadCopy, kept, Receive
<1>6. bs \in [Clients -> Browser] /\ items \in SUBSET Item
  BY <1>1, <1>3 DEF RoomInv, Shape
<1> HIDE DEF t
<1>7. \A d \in Clients : bs[d] = IF d = c THEN t ELSE browser[d]
  BY DEF RoomInv, Shape
<1>8. \A d \in Clients : /\ Whole(beside, bs[d])
                         /\ bs[d].link = "synced" =>
                              bs[d].doc \cup items = room.doc \cup items
  BY <1>3, <1>4, <1>7 DEF Sound
<1>9. \A w \in Typed : Held(w, rows, browser) => Held(w, rows, bs)
  BY <1>3, <1>7 DEF Held
<1>10. Closed(beside, room.doc \cup items)
  BY <1>1, ClosedMerge DEF Sound, Whole
<1>11. UNCHANGED <<rows, sealing, published, seeds, beside>>
  BY DEF LoadCopy
<1> HIDE DEF bs, items
<1> QED
  BY <1>5, <1>6, <1>8, <1>9, <1>10, <1>11, SpreadSound DEF Sound, Typed

\* A word is typed beside what the document shows, which goes wherever it goes.
LEMMA TypeSound ==
    ASSUME RoomInv, Sound, drawn.seals = 0, NEW c \in Clients, NEW w \in Words, Type(c, w)
    PROVE  Sound' /\ Keeps
<1> DEFINE b == browser[c]
           t == Take(b, {w})
           bs == [browser EXCEPT ![c] = t]
<1>1. b \in Browser /\ {w} \in SUBSET Item /\ Whole(beside, b) /\ b.tab # "off"
  BY DEF Browser, RoomInv, Shape, Sound, Whole, Copied, Type, Mounted, Item
<1>2. /\ \A D : Closed(beside, D) => Closed(beside', D)
      /\ \A D : Closed(beside, D) /\ b.doc \subseteq D => Closed(beside', D \cup {w})
      /\ Typed' = Typed \cup {w}
  <2>1. Content(b.doc) \subseteq b.doc
    BY DEF Content
  <2> HIDE DEF b
  <2>2. /\ w \notin Typed
        /\ beside' = [v \in Typed \cup {w} |-> IF v = w THEN Content(b.doc) ELSE beside[v]]
    BY DEF Type, b
  <2> QED
    BY <2>1, <2>2 DEF Closed, Typed
<1>3. Closed(beside', b.doc \cup {w}) /\ Closed(beside', b.store)
  BY <1>1, <1>2 DEF Whole
<1>4. /\ Whole(beside', t)
      /\ b.doc \cup b.store \cup {w} \subseteq t.doc \cup t.store
  BY <1>1, <1>3, TakeWhole DEF Whole
<1>5. t \in Browser /\ t.doc = b.doc \cup {w} /\ t.link = b.link
  BY <1>1, TakeKeeps
<1> HIDE DEF t
<1>6. bs \in [Clients -> Browser]
      /\ \A d \in Clients : bs[d] = IF d = c THEN t ELSE browser[d]
  BY <1>5 DEF RoomInv, Shape
<1>7. \A d \in Clients : Whole(beside', bs[d])
  BY <1>2, <1>4, <1>6 DEF Sound, Whole
<1>8. \A v \in Typed : Held(v, rows, browser) => Held(v, rows, bs)
  BY <1>4, <1>6 DEF Held
<1>9. Typed' \subseteq Words /\ Closed(beside', rows)
  BY <1>2 DEF Sound
<1>10. UNCHANGED <<rows, sealing, published, seeds>>
  BY DEF Type
<1>11. CASE b.link = "synced"
  <2>1. browser' = Broadcast(bs, {w}) /\ room' = Receive(room, {w})
    BY <1>11 DEF Type, t
  <2>2. Closed(beside', room.doc \cup {w})
    BY <1>2, <1>11 DEF Sound
  <2>3. \A d \in Clients : bs[d].link = "synced" =>
                             bs[d].doc \cup {w} = room.doc \cup {w}
    BY <1>5, <1>6, <1>11 DEF Sound
  <2> HIDE DEF bs
  <2> QED
    <3>1. PICK items : items = {w}
      OBVIOUS
    <3>2. /\ items \in SUBSET Item
          /\ browser' = Broadcast(bs, items) /\ room' = Receive(room, items)
          /\ Closed(beside', room.doc \cup items)
          /\ \A d \in Clients : bs[d].link = "synced" =>
                                 bs[d].doc \cup items = room.doc \cup items
      BY <1>1, <2>1, <2>2, <2>3, <3>1
    <3>3. sealing = {} /\ ~published
      BY DEF Sound
    <3> QED
      BY <1>6, <1>7, <1>8, <1>9, <1>10, <3>2, <3>3, SpreadSound
<1>12. CASE b.link # "synced"
  <2>1. browser' = bs /\ room' = room
    BY <1>12 DEF Type, t
  <2>2. \A d \in Clients : bs[d].link = "synced" => bs[d].doc = room.doc
    BY <1>5, <1>6, <1>12 DEF Sound
  <2>3. Closed(beside', room.doc)
    BY <1>2 DEF Sound
  <2> HIDE DEF bs
  <2> QED
    BY <1>7, <1>8, <1>9, <1>10, <2>1, <2>2, <2>3 DEF Sound, Keeps
<1> QED
  BY <1>11, <1>12

\* A copy that is kept stays behind; a composer whose submission was answered
\* leaves none.
LEMMA LeaveSound ==
    ASSUME RoomInv, Sound, drawn.seals = 0, NEW c \in Clients, Leave(c)
    PROVE  Sound' /\ KeepsOrLetsGo
<1>1. browser[c] \in Browser /\ Whole(beside, browser[c]) /\ browser[c].copy # "loading"
      /\ browser[c].tab # "off"
  BY DEF RoomInv, Shape, Sound, Leave, Mounted
<1>2. PICK b : b = Gone(c)
  OBVIOUS
<1>3. /\ b.tab = "off" /\ b.doc = {} /\ b.copy = "none"
      /\ b.store = browser[c].store /\ b.link = "off"
  BY <1>2 DEF Gone, NoBrowser
<1>4. Whole(beside, b)
  BY <1>1, <1>3, ClosedEmpty DEF Whole, Copied
<1>5. browser' = [browser EXCEPT ![c] = b]
  BY <1>2 DEF Leave
<1>6. \A d \in Clients : browser'[d] = IF d = c THEN b ELSE browser[d]
  BY <1>5 DEF RoomInv, Shape
<1>7. Sound'
  BY <1>3, <1>4, <1>6 DEF Sound, Typed, Leave
<1>8. CASE browser[c].tab = "leaving"
  <2>1. ASSUME NEW w \in Typed, Held(w, rows, browser)
        PROVE  Held(w, rows', browser') \/ LetsGo(c, w)
    BY <1>3, <1>6, <1>8, <2>1 DEF Held, LetsGo, Leave
  <2> QED
    BY <1>7, <2>1 DEF KeepsOrLetsGo
<1>9. CASE browser[c].tab # "leaving"
  <2>1. browser[c].store = browser[c].doc
    BY <1>1, <1>9 DEF Whole, Copied, Browser
  <2>2. Keeps
    BY <1>3, <1>6, <2>1 DEF Keeps, Held, Leave
  <2> QED
    BY <1>7, <2>2 DEF Keeps, KeepsOrLetsGo
<1> QED
  BY <1>8, <1>9

\* The answer to a submission drops the copy, and what it alone held.
LEMMA HearSubmittedSound ==
    ASSUME RoomInv, Sound, drawn.seals = 0, NEW c \in Clients, HearSubmitted(c)
    PROVE  Sound' /\ KeepsOrLetsGo
<1>1. PICK a : a = browser[c]
  OBVIOUS
<1>2. a \in Browser /\ Whole(beside, a) /\ a.tab = "answered"
  BY <1>1 DEF RoomInv, Shape, Sound, HearSubmitted
<1>3. PICK m : m = [a EXCEPT !.tab = "leaving", !.copy = "none", !.store = {}]
  OBVIOUS
<1>4. m.store = {} /\ m.copy = "none" /\ m.doc = a.doc /\ m.tab = "leaving" /\ m.link = a.link
  BY <1>2, <1>3 DEF Browser
<1>5. \/ browser' = [browser EXCEPT ![c] = m]
      \/ browser' = [browser EXCEPT ![c] = NoBrowser]
  BY <1>1, <1>3 DEF HearSubmitted, RoomInv, Shape
<1>6. PICK b : b \in {m, NoBrowser} /\ browser' = [browser EXCEPT ![c] = b]
  BY <1>5
<1>7. /\ b.store = {} /\ b.copy = "none"
      /\ \/ b.doc = a.doc /\ b.tab = "leaving" /\ b.link = a.link
         \/ b.doc = {} /\ b.tab = "off" /\ b.link = "off"
  BY <1>6, <1>4 DEF NoBrowser
<1>8. \A d \in Clients : browser'[d] = IF d = c THEN b ELSE browser[d]
  BY <1>6 DEF RoomInv, Shape
<1>9. Whole(beside, b)
  BY <1>2, <1>7, ClosedEmpty DEF Whole, Copied
<1>10. Sound'
  BY <1>1, <1>7, <1>8, <1>9 DEF Sound, Typed, HearSubmitted
<1>11. ASSUME NEW w \in Typed, Held(w, rows, browser)
       PROVE  Held(w, rows', browser') \/ LetsGo(c, w)
  BY <1>1, <1>2, <1>7, <1>8, <1>11 DEF Held, LetsGo, HearSubmitted
<1> QED
  BY <1>10, <1>11 DEF KeepsOrLetsGo

\* A submission that seals nothing leaves the copy to its answer.
LEMMA ProposeSound ==
    ASSUME RoomInv, Sound, drawn.seals = 0, NEW c \in Clients, Propose(c)
    PROVE  Sound' /\ Keeps
<1>1. PICK a : a = browser[c]
  OBVIOUS
<1>2. a \in Browser /\ Whole(beside, a) /\ a.tab = "open"
  BY <1>1 DEF RoomInv, Shape, Sound, Propose
<1>3. PICK b : b = [a EXCEPT !.tab = "answered"]
  OBVIOUS
<1>4. /\ b.doc = a.doc /\ b.store = a.store /\ b.copy = a.copy /\ b.tab = "answered"
      /\ b.link = a.link
  BY <1>2, <1>3 DEF Browser
<1>5. browser' = [browser EXCEPT ![c] = b]
  BY <1>1, <1>3 DEF Propose, Answered
<1>6. Whole(beside, b)
  BY <1>2, <1>4 DEF Whole, Copied
<1> QED
  BY <1>1, <1>4, <1>5, <1>6, OneSound DEF Propose

\* Both ends come out of the handshake with the same whole document.
LEMMA SyncSound ==
    ASSUME RoomInv, Sound, drawn.seals = 0, NEW c \in Clients, Sync(c)
    PROVE  Sound' /\ Keeps
<1> DEFINE b == [browser[c] EXCEPT !.link = "synced", !.seeded = TRUE]
           bs == [browser EXCEPT ![c] = b]
           items == room.doc \cup b.doc
<1>1. /\ browser[c] \in Browser /\ Whole(beside, browser[c])
      /\ browser[c].link = "up"
      /\ browser[c].doc \in SUBSET Item /\ room.doc \in SUBSET Item
  BY DEF Browser, RoomInv, Shape, Sound, Sync
<1>2. /\ b \in Browser /\ b.doc = browser[c].doc /\ b.store = browser[c].store
      /\ b.tab = browser[c].tab /\ b.copy = browser[c].copy /\ b.link = "synced"
  BY <1>1 DEF Browser
<1>3. bs \in [Clients -> Browser] /\ items \in SUBSET Item
  BY <1>1, <1>2 DEF RoomInv, Shape
<1>4. browser' = Broadcast(bs, items) /\ room' = Receive(room, items)
  BY <1>1 DEF Sync, Receive
<1> HIDE DEF b
<1>5. \A d \in Clients : bs[d] = IF d = c THEN b ELSE browser[d]
  BY DEF RoomInv, Shape
<1>6. Whole(beside, b)
  BY <1>1, <1>2 DEF Whole, Copied
<1>7. \A d \in Clients : /\ Whole(beside, bs[d])
                         /\ bs[d].link = "synced" =>
                              bs[d].doc \cup items = room.doc \cup items
  BY <1>5, <1>6 DEF Sound
<1>8. \A w \in Typed : Held(w, rows, browser) => Held(w, rows, bs)
  BY <1>2, <1>5 DEF Held
<1>9. Closed(beside, room.doc \cup items)
  BY <1>1, <1>2, ClosedMerge DEF Sound, Whole
<1>10. UNCHANGED <<rows, sealing, published, seeds, beside>>
  BY DEF Sync
<1> HIDE DEF bs, items
<1> QED
  BY <1>3, <1>4, <1>7, <1>8, <1>9, <1>10, SpreadSound DEF Sound, Typed

\* An admission stores and opens what was stored, or a seeding, which is no word.
LEMMA ConnectSound ==
    ASSUME RoomInv, Sound, drawn.seals = 0, NEW c \in Clients, Connect(c)
    PROVE  Sound' /\ Keeps
<1> DEFINE seed == {Len(seeds) + 1}
           opens(doc) == [NoRoom EXCEPT !.open = TRUE, !.doc = doc]
<1>1. \A d \in Clients :
        /\ browser'[d].tab = browser[d].tab
        /\ browser'[d].doc = browser[d].doc
        /\ browser'[d].store = browser[d].store
        /\ browser'[d].copy = browser[d].copy
        /\ browser[d].tab = "off" => browser'[d].link = "off"
        /\ browser'[d].link = "synced" => browser[d].link = "synced"
  <2>1. browser' = [browser EXCEPT ![c].link = "up"]
        /\ browser[c].link \in {"opening", "retrying"}
    BY DEF Connect
  <2>2. \A d \in Clients : browser[d] \in Browser /\ Copied(browser[d])
    BY DEF RoomInv, Shape, Sound, Whole
  <2> QED
    BY <2>1, <2>2 DEF RoomInv, Shape, Browser, Copied
<1>2. ~room.open => \A d \in Clients : browser[d].link # "synced"
  BY ServedEach DEF RoomInv, Served
<1>3. Closed(beside, rows \cup seed)
  <2>1. \A w \in seed : w \notin Words
    BY WordsAssumption DEF RoomInv, Counts
  <2> QED
    BY <2>1 DEF Closed, Sound
<1>4. \/ room' = room /\ rows' = rows
      \/ ~room.open /\ room'.doc = rows /\ rows' = rows
      \/ ~room.open /\ room'.doc = rows \cup seed /\ rows' = rows \cup seed
  BY DEF Connect, NoRoom
<1>5. sealing' = {} /\ UNCHANGED <<published, beside>>
  BY DEF Connect, Sound
<1> HIDE DEF seed, opens
<1>6. rows \subseteq rows' /\ Closed(beside, rows') /\ Closed(beside, room'.doc)
  BY <1>3, <1>4 DEF Sound
<1>7. \A d \in Clients : browser'[d].link = "synced" => room'.doc = room.doc
  BY <1>1, <1>2, <1>4
<1> QED
  BY <1>1, <1>5, <1>6, <1>7, QuietSound

\* Sockets that drop, and rooms that are lost with a crash, hold no only copy.
LEMMA HangUpSound ==
    ASSUME RoomInv, Sound, drawn.seals = 0,
           \/ \E c \in Clients : Drop(c) \/ GiveUp(c)
           \/ Crash
    PROVE  Sound' /\ Keeps
<1>1. \A d \in Clients : browser[d] \in Browser /\ Copied(browser[d])
  BY DEF RoomInv, Shape, Sound, Whole
<1>2. CASE Crash
  <2>1. \A d \in Clients :
          browser'[d] = IF browser[d].link \in {"up", "synced"}
                        THEN [browser[d] EXCEPT !.link = "retrying"] ELSE browser[d]
    BY <1>2 DEF Crash, Hang
  <2>2. room'.doc = {} /\ sealing' = {} /\ UNCHANGED <<rows, published, beside>>
    BY <1>2 DEF Crash, NoRoom
  <2>3. \A d \in Clients :
          /\ browser'[d].tab = browser[d].tab
          /\ browser'[d].doc = browser[d].doc
          /\ browser'[d].store = browser[d].store
          /\ browser'[d].copy = browser[d].copy
          /\ browser[d].tab = "off" => browser'[d].link = "off"
          /\ browser'[d].link # "synced"
    BY <1>1, <2>1 DEF Browser, Copied
  <2> QED
    BY <2>2, <2>3, ClosedEmpty, QuietSound DEF Sound
<1>3. ASSUME NEW c \in Clients, Drop(c) \/ GiveUp(c)
      PROVE  Sound' /\ Keeps
  <2>1. \E l \in {"retrying", "gaveUp"} : browser' = [browser EXCEPT ![c].link = l]
    BY <1>3 DEF Drop, GiveUp, AfterDrop, Connected
  <2>2. browser[c].link # "off"
    BY <1>3 DEF Drop, GiveUp, Connected
  <2>3. \A d \in Clients :
          /\ browser'[d].tab = browser[d].tab
          /\ browser'[d].doc = browser[d].doc
          /\ browser'[d].store = browser[d].store
          /\ browser'[d].copy = browser[d].copy
          /\ browser[d].tab = "off" => browser'[d].link = "off"
          /\ browser'[d].link = "synced" => browser[d].link = "synced"
    BY <1>1, <2>1, <2>2 DEF RoomInv, Shape, Browser, Copied
  <2>4. sealing' = {} /\ UNCHANGED <<room, rows, published, beside>>
    BY <1>3 DEF Drop, GiveUp, Sound
  <2> QED
    BY <2>3, <2>4, QuietSound DEF Sound
<1> QED
  BY <1>2, <1>3

\* The room's tasks store, save and close; a room closes on stored text.
LEMMA TasksSound ==
    ASSUME RoomInv, Sound, drawn.seals = 0,
           StoreUpdates \/ BeginFlush \/ EndFlush \/ Release
    PROVE  Sound' /\ Keeps
<1>1. /\ sealing' = {} /\ UNCHANGED <<published, beside, browser>>
      /\ rows \subseteq rows'
  BY DEF StoreUpdates, BeginFlush, EndFlush, Release, Sound
<1>2. Closed(beside, rows')
  BY ClosedMerge DEF StoreUpdates, BeginFlush, EndFlush, Release, Sound
<1>3. \/ room'.doc = room.doc
      \/ room'.doc = {} /\ \A c \in Clients : ~Connected(c)
  <2>1. CASE Release
    BY <2>1 DEF Release, NoRoom
  <2>2. CASE StoreUpdates
    BY <2>2 DEF StoreUpdates
  <2>3. CASE BeginFlush \/ EndFlush
    <3>1. \/ room' = [room EXCEPT !.changed = FALSE,
                                 !.writing = {TextOf(room.doc)}]
          \/ room' = [room EXCEPT !.writing = {}, !.owed = FALSE]
      BY <2>3 DEF BeginFlush, EndFlush
    <3>2. room = [open |-> room.open, doc |-> room.doc,
                  changed |-> room.changed, owed |-> room.owed,
                  writing |-> room.writing]
      BY DEF RoomInv, Shape
    <3>3. ASSUME NEW T, room' = [room EXCEPT !.changed = FALSE, !.writing = T]
          PROVE  room'.doc = room.doc
      BY <3>2, <3>3
    <3>4. ASSUME room' = [room EXCEPT !.writing = {}, !.owed = FALSE]
          PROVE  room'.doc = room.doc
      BY <3>2, <3>4
    <3> QED
      BY <3>1, <3>3, <3>4
  <2> QED
    BY <2>1, <2>2, <2>3
<1>4. Closed(beside, room'.doc)
  BY <1>3, ClosedEmpty DEF Sound
<1>5. \A c \in Clients : browser'[c].link = "synced" => room'.doc = room.doc
  BY <1>1, <1>3 DEF Connected
<1>6. \A c \in Clients : browser[c].tab = "off" => browser[c].link = "off"
  BY DEF Sound, Whole, Copied
<1> QED
  BY <1>1, <1>2, <1>4, <1>5, <1>6, QuietSound

\* A seal that has counted stays counted.
LEMMA SealsStayCounted ==
    ASSUME RoomInv, RoomNext, drawn.seals # 0 PROVE drawn'.seals # 0
<1>1. \/ drawn' = drawn
      \/ \E n : \/ drawn' = [drawn EXCEPT !.visits = n]
               \/ drawn' = [drawn EXCEPT !.drops = n]
               \/ drawn' = [drawn EXCEPT !.crashes = n]
      \/ drawn' = [drawn EXCEPT !.seals = @ + 1]
  <2>1. ASSUME NEW c \in Clients,
               Visit(c) \/ SeePublished(c) \/ LoadCopy(c) \/ Leave(c) \/ Propose(c)
                 \/ HearSubmitted(c) \/ (\E w \in Words : Type(c, w))
        PROVE  \/ drawn' = drawn
               \/ drawn' = [drawn EXCEPT !.visits = drawn.visits + 1]
    BY <2>1 DEF Visit, SeePublished, LoadCopy, Leave, Propose, HearSubmitted, Type
  <2>2. ASSUME NEW c \in Clients,
               Connect(c) \/ Sync(c) \/ Drop(c) \/ GiveUp(c)
        PROVE  \/ drawn' = drawn
               \/ drawn' = [drawn EXCEPT !.drops = drawn.drops + 1]
    BY <2>2 DEF Connect, Sync, Drop, GiveUp
  <2>3. ASSUME StoreUpdates \/ BeginFlush \/ EndFlush \/ Release \/ Commit
                 \/ Unsubmit
        PROVE  drawn' = drawn
    BY <2>3 DEF StoreUpdates, BeginFlush, EndFlush, Release, Commit, Unsubmit
  <2>4. ASSUME Lapse \/ \E c \in Clients : Submit(c)
        PROVE  drawn' = [drawn EXCEPT !.seals = @ + 1]
    BY <2>4 DEF Lapse, Submit, Discard
  <2>5. ASSUME Crash
        PROVE  drawn' = [drawn EXCEPT !.crashes = drawn.crashes + 1]
    BY <2>5 DEF Crash
  <2> QED
    BY <2>1, <2>2, <2>3, <2>4, <2>5 DEF RoomNext
<1>2. /\ drawn = [seals |-> drawn.seals, visits |-> drawn.visits,
                  drops |-> drawn.drops, crashes |-> drawn.crashes]
      /\ drawn.seals \in Nat /\ drawn.seals # 0
  BY DEF RoomInv, Counts
<1> QED
  BY <1>1, <1>2

\* A step before the first publishing, one action at a time.
LEMMA StepBefore ==
    ASSUME RoomInv, Sound, drawn.seals = 0, RoomNext
    PROVE  Sound' /\ (drawn'.seals = 0 => KeepsOrLetsGo)
<1>1. ASSUME NEW c \in Clients PROVE ~SeePublished(c)
  BY DEF Sound, SeePublished
<1>2. ~Commit /\ ~Unsubmit
  BY DEF Sound, Commit, Unsubmit
<1>3. ASSUME NEW who, Discard(who) PROVE Sound' /\ drawn'.seals # 0
  <2>1. drawn'.seals = 1
    BY <1>3 DEF Discard, RoomInv, Counts
  <2> QED
    BY <2>1 DEF Sound
<1>4. Keeps => KeepsOrLetsGo
  BY DEF Keeps, KeepsOrLetsGo
<1>5. ASSUME NEW c \in Clients,
             Visit(c) \/ LoadCopy(c) \/ (\E w \in Words : Type(c, w)) \/ Propose(c)
               \/ Sync(c) \/ Connect(c) \/ Drop(c) \/ GiveUp(c)
      PROVE  Sound' /\ Keeps
  BY <1>5, VisitSound, LoadCopySound, TypeSound, ProposeSound, SyncSound,
     ConnectSound, HangUpSound
<1>6. ASSUME NEW c \in Clients, Leave(c) \/ HearSubmitted(c)
      PROVE  Sound' /\ KeepsOrLetsGo
  BY <1>6, LeaveSound, HearSubmittedSound
<1>7. ASSUME StoreUpdates \/ BeginFlush \/ EndFlush \/ Release \/ Crash
      PROVE  Sound' /\ Keeps
  BY <1>7, TasksSound, HangUpSound
<1> QED
  BY <1>1, <1>2, <1>3, <1>4, <1>5, <1>6, <1>7 DEF RoomNext, Submit, Lapse

\* Every step keeps it; once a seal has counted, it asks nothing any more.
LEMMA StepSound == ASSUME RoomInv, Sound, [RoomNext]_roomVars PROVE Sound'
<1>1. CASE UNCHANGED roomVars
  BY <1>1 DEF roomVars, Sound, Typed
<1>2. CASE RoomNext /\ drawn.seals # 0
  BY <1>2, SealsStayCounted DEF Sound
<1>3. CASE RoomNext /\ drawn.seals = 0
  BY <1>3, StepBefore
<1> QED
  BY <1>1, <1>2, <1>3

\* What has been typed stays typed.
LEMMA TypedStays == ASSUME RoomNext PROVE Typed \subseteq Typed'
<1>1. ASSUME NEW c \in Clients, NEW w \in Words, Type(c, w) PROVE Typed \subseteq Typed'
  BY <1>1 DEF Type, Typed
<1>2. CASE UNCHANGED beside
  BY <1>2 DEF Typed
<1>3. \/ \E c \in Clients, w \in Words : Type(c, w)
      \/ UNCHANGED beside
  BY DEF RoomNext, Visit, SeePublished, LoadCopy, Leave, HearSubmitted, Propose, Connect,
     Sync, Drop, GiveUp, StoreUpdates, BeginFlush, EndFlush, Release, Submit, Lapse,
     Discard, Commit, Unsubmit, Crash
<1> QED
  BY <1>1, <1>2, <1>3

\* In a sound state a typed word shows wherever it is held.
LEMMA HeldIsShown ==
    ASSUME Sound, drawn.seals = 0, NEW w \in Typed
    PROVE  /\ w \in rows => w \in Shown(rows)
           /\ \A c \in Clients : w \in browser[c].doc \cup browser[c].store =>
                   w \in Shown(browser[c].doc) \cup Shown(browser[c].store)
BY DEF Sound, Whole, Closed, Shown

\* Before the first publishing no word is lost to a crash, a dropped socket, a
\* closed composer or a room that closed: only to a composer's own submission
\* (PostgresYStore, praxisRoom.tsx's offline copy, publish()).
THEOREM WordsStand == RoomSpec => WordsGoOnlyWithASubmission
<1>1. RoomInit => Sound
  BY DEF RoomInit, Sound, Whole, Copied, Closed, NoRoom, NoBrowser, Typed
<1>2. RoomInv /\ Sound /\ [RoomNext]_roomVars => Sound'
  BY StepSound
<1>3. RoomInv /\ Sound /\ Sound' /\ [RoomNext]_roomVars =>
        [drawn'.seals = 0 =>
           \A w \in Typed :
              Stands(w) => Stands(w)' \/ \E c \in Clients : PartsWith(c, w)]_roomVars
  <2> SUFFICES ASSUME RoomInv, Sound, Sound', RoomNext, drawn'.seals = 0,
                      NEW w \in Typed, Stands(w)
               PROVE  Stands(w)' \/ \E c \in Clients : PartsWith(c, w)
    OBVIOUS
  <2>1. drawn.seals = 0 /\ KeepsOrLetsGo
    BY SealsStayCounted, StepBefore
  <2>2. Held(w, rows, browser)
    BY DEF Stands, Held, Shown
  <2>3. CASE Held(w, rows', browser')
    <3>1. w \in Typed' /\ w \in Words
      BY <2>1, TypedStays DEF Sound
    <3>2. /\ (w \in rows => w \in Shown(rows))'
          /\ \A c \in Clients : (w \in browser[c].doc \cup browser[c].store =>
                  w \in Shown(browser[c].doc) \cup Shown(browser[c].store))'
      BY <3>1 DEF Sound, Whole, Closed, Shown, Typed
    <3> QED
      BY <2>3, <3>2 DEF Stands, Held
  <2>4. CASE \E c \in Clients : LetsGo(c, w)
    BY <2>1, <2>4, HeldIsShown DEF LetsGo, PartsWith
  <2> QED
    BY <2>1, <2>2, <2>3, <2>4 DEF KeepsOrLetsGo
<1> QED
  BY <1>1, <1>2, <1>3, RoomInvariance, PTL DEF RoomSpec, WordsGoOnlyWithASubmission

-----------------------------------------------------------------------------
(* Types.  Every item of a document has been seeded or typed, and so the   *)
(* text it shows is a text.                                                *)

Known == (1 .. Len(seeds)) \cup Typed

\* How often a word stands in a document's seedings is a number.
LEMMA CountIsNatural ==
    ASSUME seeds \in Seq(Text), NEW w \in Words, NEW D \in SUBSET (1 .. Len(seeds))
    PROVE  MapThenSumSet(LAMBDA g : seeds[g][w], D) \in Nat
<1> DEFINE f == [g \in D |-> seeds[g][w]]
           Tallies(h) == h = [s \in SUBSET D |->
                                IF s = {} THEN 0
                                ELSE seeds[Pick(s)][w] + h[s \ {Pick(s)}]]
<1>1. IsFiniteSet(D)
  <2>1. Len(seeds) \in Int
    OBVIOUS
  <2>2. IsFiniteSet(1 .. Len(seeds))
    BY <2>1, FS_Interval, 1 \in Int
  <2> QED
    BY <2>2, FS_Subset
<1>2. \A s \in SUBSET D : s # {} => Pick(s) \in D /\ f[Pick(s)] = seeds[Pick(s)][w]
  BY <1>1, FS_Subset, Picked
<1>3. \A h : Tallies(h) <=> IsSum(h, f, SUBSET D)
  BY <1>2 DEF IsSum
<1>4. \A g \in D : f[g] \in Nat
  BY DEF Text
<1> HIDE DEF f
<1>5. \E h : IsSum(h, f, SUBSET D)
  BY <1>1, SumExists
<1>6. Tallies(CHOOSE h : Tallies(h))
  BY <1>3, <1>5
<1>7. (CHOOSE h : Tallies(h))[D] \in Nat
  BY <1>1, <1>3, <1>4, <1>6, SumsAreNatural
<1> QED
  BY <1>7 DEF MapThenSumSet, MapThenFoldSet, Pick

\* What a document of known items shows is a text.
LEMMA TextOfIsText ==
    ASSUME seeds \in Seq(Text), Typed \subseteq Words, NEW D, D \subseteq Known
    PROVE  TextOf(D) \in Text
<1>1. Seedings(D) \in SUBSET (1 .. Len(seeds))
  BY WordsAssumption DEF Seedings, Known
<1>2. ASSUME NEW w \in Words
      PROVE  Cardinality({w} \cap Shown(D))
               + MapThenSumSet(LAMBDA g : seeds[g][w], Seedings(D)) \in Nat
  <2>1. IsFiniteSet({w})
    BY FS_Singleton
  <2>2. IsFiniteSet({w} \cap Shown(D))
    BY <2>1, FS_Subset
  <2>3. Cardinality({w} \cap Shown(D)) \in Nat
    BY <2>2, FS_CardinalityType
  <2>4. MapThenSumSet(LAMBDA g : seeds[g][w], Seedings(D)) \in Nat
    BY <1>1, CountIsNatural
  <2> QED
    BY <2>3, <2>4
<1> QED
  BY <1>2 DEF TextOf, Text

\* A composer holds known items, and a loaded copy is its document.
Within(b, K) ==
    /\ b.doc \cup b.store \subseteq K
    /\ b.copy = "kept" => b.store = b.doc
    /\ b.tab = "off" => b.copy = "none"

Filed ==
    /\ record \in Text
    /\ published \in BOOLEAN
    /\ \A s \in sealing : s.text \subseteq Text

Grown ==
    /\ seeds \in Seq(Text)
    /\ Typed \subseteq Words
    /\ \A w \in Typed : beside[w] \subseteq Known

InRoom == rows \subseteq Known /\ room \in Room /\ room.doc \subseteq Known

InTabs == \A c \in Clients : Within(browser[c], Known)

TextInv == Filed /\ Grown /\ InRoom /\ InTabs

LEMMA KnownAreItems == ASSUME Grown PROVE Known \subseteq Item
BY DEF Grown, Known, Item

\* A composer that takes known items stays within them.
LEMMA TakeWithin ==
    ASSUME NEW b \in Browser, NEW K, K \subseteq Item,
           NEW items, items \subseteq K, b.doc \cup b.store \subseteq K,
           b.copy = "kept" => b.store \subseteq b.doc \cup items,
           b.tab = "off" => b.copy = "none"
    PROVE  Within(Take(b, items), K)
<1>1. /\ Take(b, items).doc = b.doc \cup items
      /\ Take(b, items).store = IF b.copy = "kept" THEN b.store \cup b.doc \cup items
                                                   ELSE b.store
      /\ Take(b, items).copy = b.copy
      /\ Take(b, items).tab = b.tab
  BY DEF Take, Browser
<1> QED
  BY <1>1 DEF Within

LEMMA BroadcastWithin ==
    ASSUME NEW K, K \subseteq Item, NEW bs \in [Clients -> Browser],
           \A c \in Clients : Within(bs[c], K),
           NEW items, items \subseteq K
    PROVE  \A c \in Clients : Within(Broadcast(bs, items)[c], K)
<1> TAKE c \in Clients
<1>1. Broadcast(bs, items)[c] = IF bs[c].link = "synced" THEN Take(bs[c], items)
                                                       ELSE bs[c]
  BY DEF Broadcast
<1>2. bs[c] \in Browser /\ Within(bs[c], K)
  OBVIOUS
<1>3. Within(Take(bs[c], items), K)
  BY <1>2, TakeWithin DEF Within
<1> QED
  BY <1>1, <1>2, <1>3

\* The room that receives items is a room.
LEMMA ReceiveTyped ==
    ASSUME NEW r \in Room, NEW items \in SUBSET Item
    PROVE  Receive(r, items) \in Room /\ Receive(r, items).doc = r.doc \cup items
BY DEF Receive, Room

LEMMA NoRoomIsOne == NoRoom \in Room /\ NoRoom.doc = {}
BY DEF NoRoom, Room

LEMMA HungWithin ==
    ASSUME NEW K, NEW bs \in [Clients -> Browser], NEW from, NEW to,
           \A c \in Clients : Within(bs[c], K)
    PROVE  \A c \in Clients : Within(Hang(bs, from, to)[c], K)
<1> TAKE c \in Clients
<1>1. bs[c] \in Browser /\ Within(bs[c], K)
  OBVIOUS
<1>2. Within([bs[c] EXCEPT !.link = to], K)
  BY <1>1 DEF Within, Browser
<1> QED
  BY <1>1, <1>2 DEF Hang

\* A step of one composer by which no item comes to be.
LEMMA OneWithin ==
    ASSUME RoomInv, TextInv, NEW c \in Clients, NEW b, Within(b, Known),
           browser' = [browser EXCEPT ![c] = b],
           UNCHANGED <<record, published, rows, room, sealing, seeds, beside>>
    PROVE  TextInv'
<1>1. Known' = Known
  BY DEF Known, Typed
<1>2. \A d \in Clients : Within(browser'[d], Known)
  BY DEF RoomInv, Shape, TextInv, InTabs
<1> QED
  BY <1>1, <1>2 DEF TextInv, Filed, Grown, InRoom, InTabs, Typed

LEMMA VisitText ==
    ASSUME RoomInv, TextInv, NEW c \in Clients, Visit(c) PROVE TextInv'
<1>1. Within(browser[c], Known) /\ browser[c] \in Browser
  BY DEF TextInv, InTabs, RoomInv, Shape
<1>2. /\ Opened(c).doc = {} /\ Opened(c).store = browser[c].store
      /\ Opened(c).copy = "loading" /\ Opened(c).tab = "open"
  BY DEF Opened, NoBrowser
<1>3. Within(Opened(c), Known)
  BY <1>1, <1>2 DEF Within
<1> QED
  BY <1>3, OneWithin DEF Visit

LEMMA SeePublishedText ==
    ASSUME RoomInv, TextInv, NEW c \in Clients, SeePublished(c) PROVE TextInv'
<1> DEFINE b == [browser[c] EXCEPT !.store = {}]
<1>1. Within(browser[c], Known) /\ browser[c] \in Browser
  BY DEF TextInv, InTabs, RoomInv, Shape
<1>2. Within(b, Known)
  BY <1>1 DEF Within, SeePublished, Mounted, Browser
<1>3. browser' = [browser EXCEPT ![c] = b]
  BY DEF SeePublished
<1> HIDE DEF b
<1> QED
  BY <1>2, <1>3, OneWithin DEF SeePublished

LEMMA LeaveText ==
    ASSUME RoomInv, TextInv, NEW c \in Clients, Leave(c) PROVE TextInv'
<1>1. Within(browser[c], Known)
  BY DEF TextInv, InTabs
<1>2. /\ Gone(c).doc = {} /\ Gone(c).store = browser[c].store
      /\ Gone(c).copy = "none"
  BY DEF Gone, NoBrowser
<1>3. Within(Gone(c), Known)
  BY <1>1, <1>2 DEF Within
<1> QED
  BY <1>3, OneWithin DEF Leave

LEMMA HearSubmittedText ==
    ASSUME RoomInv, TextInv, NEW c \in Clients, HearSubmitted(c) PROVE TextInv'
<1>1. PICK b : b = browser[c]
  OBVIOUS
<1>2. Within(b, Known) /\ b \in Browser
  BY <1>1 DEF TextInv, InTabs, RoomInv, Shape
<1>3. PICK m : m = [b EXCEPT !.tab = "leaving", !.copy = "none", !.store = {}]
  OBVIOUS
<1>4. m.doc = b.doc /\ m.store = {} /\ m.copy = "none"
  BY <1>2, <1>3 DEF Browser
<1>5. \/ browser' = [browser EXCEPT ![c] = m]
      \/ browser' = [browser EXCEPT ![c] = NoBrowser]
  BY <1>1, <1>3 DEF HearSubmitted, RoomInv, Shape
<1>6. PICK n : n \in {m, NoBrowser} /\ browser' = [browser EXCEPT ![c] = n]
  BY <1>5
<1>7. Within(n, Known)
  BY <1>2, <1>4, <1>6 DEF Within, NoBrowser
<1> QED
  BY <1>6, <1>7, OneWithin DEF HearSubmitted

LEMMA ProposeText ==
    ASSUME RoomInv, TextInv, NEW c \in Clients, Propose(c) PROVE TextInv'
<1>1. PICK b : b = browser[c]
  OBVIOUS
<1>2. Within(b, Known) /\ b \in Browser
  BY <1>1 DEF TextInv, InTabs, RoomInv, Shape
<1>3. Within([b EXCEPT !.tab = "answered"], Known)
  BY <1>1, <1>2 DEF Within, Browser, Propose
<1>4. browser' = [browser EXCEPT ![c] = [b EXCEPT !.tab = "answered"]]
  BY <1>1 DEF Propose, Answered
<1> QED
  BY <1>3, <1>4, OneWithin DEF Propose

LEMMA DropText ==
    ASSUME RoomInv, TextInv, NEW c \in Clients, Drop(c) \/ GiveUp(c)
    PROVE  TextInv'
<1>1. PICK b : b = browser[c]
  OBVIOUS
<1>2. Within(b, Known) /\ b \in Browser
  BY <1>1 DEF TextInv, InTabs, RoomInv, Shape
<1>3. PICK l : browser' = [browser EXCEPT ![c] = [b EXCEPT !.link = l]]
  BY <1>1 DEF Drop, GiveUp
<1>4. Within([b EXCEPT !.link = l], Known)
  BY <1>2 DEF Within, Browser
<1> QED
  BY <1>3, <1>4, OneWithin DEF Drop, GiveUp

\* A composer's known items go to the room, and from there to every synced one.
LEMMA SpreadText ==
    ASSUME RoomInv, TextInv, NEW bs \in [Clients -> Browser],
           \A c \in Clients : Within(bs[c], Known'),
           NEW items, items \subseteq Known',
           Grown', Known \subseteq Known',
           browser' = Broadcast(bs, items), room' = Receive(room, items),
           UNCHANGED <<record, published, rows, sealing>>
    PROVE  TextInv'
<1>1. PICK K : K = Known'
  OBVIOUS
<1>2. K \subseteq Item
  BY <1>1 DEF Grown, Known, Item
<1>3. \A c \in Clients : Within(Broadcast(bs, items)[c], K)
  BY <1>1, <1>2, BroadcastWithin
<1>4. InTabs'
  BY <1>1, <1>3 DEF InTabs
<1>5. room' \in Room /\ room'.doc = room.doc \cup items
  <2>1. PICK r : r = room
    OBVIOUS
  <2>2. r \in Room /\ items \in SUBSET Item
    BY <1>1, <1>2, <2>1 DEF TextInv, InRoom
  <2> QED
    BY <2>1, <2>2, ReceiveTyped
<1>6. InRoom'
  BY <1>5 DEF TextInv, InRoom
<1> QED
  BY <1>4, <1>6 DEF TextInv, Filed

\* With nothing new in the documents, what is known stays known.
LEMMA StillGrown ==
    ASSUME TextInv, UNCHANGED <<seeds, beside>>
    PROVE  Grown' /\ Known' = Known
BY DEF TextInv, Grown, Known, Typed

LEMMA LoadCopyText ==
    ASSUME RoomInv, TextInv, NEW c \in Clients, LoadCopy(c) PROVE TextInv'
<1>1. PICK b : b = browser[c]
  OBVIOUS
<1>2. Within(b, Known) /\ b \in Browser /\ b.copy = "loading"
  BY <1>1 DEF TextInv, InTabs, RoomInv, Shape, LoadCopy
<1>3. PICK k : k = [b EXCEPT !.copy = "kept",
                             !.seeded = @ \/ Content(b.doc \cup b.store) # {}]
  OBVIOUS
<1>4. /\ k \in Browser /\ k.copy = "kept" /\ k.doc = b.doc /\ k.store = b.store
      /\ k.tab = b.tab /\ k.tab # "off"
  BY <1>2, <1>3 DEF Browser, Within
<1>5. Known \subseteq Item /\ Grown' /\ Known' = Known
  BY KnownAreItems, StillGrown DEF TextInv, LoadCopy
<1>6. Within(Take(k, b.store), Known) /\ Take(k, b.store) \in Browser
  <2>1. PICK K : K = Known
    OBVIOUS
  <2>2. K \subseteq Item /\ b.store \subseteq K /\ b.doc \subseteq K
    BY <1>2, <1>5, <2>1 DEF Within
  <2>3. Within(Take(k, b.store), K)
    BY <1>4, <2>2, TakeWithin
  <2>4. b.store \in SUBSET Item
    BY <2>2
  <2> QED
    BY <1>4, <2>1, <2>3, <2>4, TakeKeeps
<1>7. PICK bs : bs = [browser EXCEPT ![c] = Take(k, b.store)]
  OBVIOUS
<1>8. bs \in [Clients -> Browser] /\ \A d \in Clients : Within(bs[d], Known)
  BY <1>6, <1>7 DEF RoomInv, Shape, TextInv, InTabs
<1>9. PICK items : items = IF b.link = "synced" THEN b.store ELSE {}
  OBVIOUS
<1>10. items \subseteq Known
  BY <1>2, <1>9 DEF Within
<1>11. browser' = Broadcast(bs, items)
  BY <1>1, <1>3, <1>7, <1>9 DEF LoadCopy
<1>12. room' = Receive(room, items)
  BY <1>1, <1>9 DEF LoadCopy, Receive
<1> QED
  BY <1>5, <1>8, <1>10, <1>11, <1>12, SpreadText DEF LoadCopy

LEMMA SyncText ==
    ASSUME RoomInv, TextInv, NEW c \in Clients, Sync(c) PROVE TextInv'
<1>1. PICK a : a = browser[c]
  OBVIOUS
<1>2. Within(a, Known) /\ a \in Browser
  BY <1>1 DEF TextInv, InTabs, RoomInv, Shape
<1>3. PICK b : b = [a EXCEPT !.link = "synced", !.seeded = TRUE]
  OBVIOUS
<1>4. /\ b \in Browser /\ b.copy = a.copy /\ b.doc = a.doc /\ b.store = a.store
      /\ b.tab = a.tab
  BY <1>2, <1>3 DEF Browser
<1>5. Grown' /\ Known' = Known /\ Within(b, Known)
  BY <1>2, <1>4, StillGrown DEF Sync, Within
<1>6. PICK bs : bs = [browser EXCEPT ![c] = b]
  OBVIOUS
<1>7. bs \in [Clients -> Browser] /\ \A d \in Clients : Within(bs[d], Known)
  BY <1>4, <1>5, <1>6 DEF RoomInv, Shape, TextInv, InTabs
<1>8. PICK items : items = room.doc \cup b.doc
  OBVIOUS
<1>9. items \subseteq Known
  BY <1>5, <1>8 DEF Within, TextInv, InRoom
<1>10. browser' = Broadcast(bs, items)
  BY <1>1, <1>3, <1>6, <1>8 DEF Sync
<1>11. room' = Receive(room, items)
  <2>1. room' = Receive(room, b.doc)
    BY <1>1, <1>3 DEF Sync
  <2> QED
    BY <1>8, <2>1 DEF Receive
<1> QED
  BY <1>5, <1>7, <1>9, <1>10, <1>11, SpreadText DEF Sync

\* A word is typed beside known items, and is known from then on.
LEMMA TypeText ==
    ASSUME RoomInv, TextInv, NEW c \in Clients, NEW w \in Words, Type(c, w)
    PROVE  TextInv'
<1>1. PICK b : b = browser[c]
  OBVIOUS
<1>2. Within(b, Known) /\ b \in Browser
  BY <1>1 DEF TextInv, InTabs, RoomInv, Shape
<1>3. Typed' = Typed \cup {w}
  BY DEF Type, Typed
<1>4. Known' = Known \cup {w}
  BY <1>3 DEF Known, Type
<1>5. Grown'
  <2>1. Content(b.doc) \subseteq Known
    BY <1>2 DEF Content, Within
  <2>2. \A v \in Typed' : beside'[v] = IF v = w THEN Content(b.doc) ELSE beside[v]
    BY <1>1, <1>3 DEF Type
  <2> QED
    BY <1>3, <1>4, <2>1, <2>2 DEF Grown, TextInv, Type
<1>6. Known' \subseteq Item
  BY <1>5 DEF Grown, Known, Item
<1>7. Within(Take(b, {w}), Known') /\ Take(b, {w}) \in Browser
  <2>1. PICK K : K = Known'
    OBVIOUS
  <2>2. /\ K \subseteq Item /\ {w} \subseteq K /\ {w} \in SUBSET Item
        /\ b.doc \cup b.store \subseteq K
    BY <1>2, <1>4, <1>6, <2>1 DEF Within
  <2>3. Within(Take(b, {w}), K)
    BY <1>2, <2>2, TakeWithin DEF Within
  <2> QED
    BY <1>2, <2>1, <2>2, <2>3, TakeKeeps
<1>8. PICK bs : bs = [browser EXCEPT ![c] = Take(b, {w})]
  OBVIOUS
<1>9. bs \in [Clients -> Browser] /\ \A d \in Clients : Within(bs[d], Known')
  <2>1. bs \in [Clients -> Browser]
    BY <1>7, <1>8 DEF RoomInv, Shape
  <2>2. \A d \in Clients : bs[d] = IF d = c THEN Take(b, {w}) ELSE browser[d]
    BY <1>8 DEF RoomInv, Shape
  <2> QED
    BY <1>4, <1>7, <2>1, <2>2 DEF TextInv, InTabs, Within
<1>10. PICK items : items = IF b.link = "synced" THEN {w} ELSE {}
  OBVIOUS
<1>11. items \subseteq Known' /\ Known \subseteq Known'
  BY <1>4, <1>10
<1>12. room' = Receive(room, items)
  BY <1>1, <1>10 DEF Type, Receive
<1>13. CASE b.link = "synced"
  <2>1. browser' = Broadcast(bs, items)
    BY <1>1, <1>8, <1>10, <1>13 DEF Type
  <2> QED
    BY <1>5, <1>9, <1>11, <1>12, <2>1, SpreadText DEF Type
<1>14. CASE b.link # "synced"
  <2>1. browser' = bs /\ room' = room
    BY <1>1, <1>8, <1>14 DEF Type
  <2> QED
    BY <1>5, <1>9, <1>11, <2>1 DEF TextInv, Filed, InRoom, InTabs, Type
<1> QED
  BY <1>13, <1>14

\* A room opens on what is stored, or seeds the record, which is a text.
LEMMA ConnectText ==
    ASSUME RoomInv, TextInv, NEW c \in Clients, Connect(c) PROVE TextInv'
<1>1. PICK b : b = browser[c]
  OBVIOUS
<1>2. Within(b, Known) /\ b \in Browser
  BY <1>1 DEF TextInv, InTabs, RoomInv, Shape
<1>3. Within([b EXCEPT !.link = "up"], Known)
  BY <1>2 DEF Within, Browser
<1>4. \A d \in Clients : Within(browser'[d], Known)
  BY <1>1, <1>3 DEF Connect, TextInv, InTabs, RoomInv, Shape
<1>5. CASE UNCHANGED seeds
  <2>1. Grown' /\ Known' = Known
    BY <1>5, StillGrown DEF Connect
  <2>2. /\ rows' = rows
        /\ \/ room' = room
           \/ room' = [NoRoom EXCEPT !.open = TRUE, !.doc = rows]
    <3>1. seeds # Append(seeds, record)
      BY DEF TextInv, Grown
    <3> QED
      BY <1>5, <3>1 DEF Connect
  <2>3. rows \subseteq Item
    BY KnownAreItems DEF TextInv, InRoom
  <2>4. /\ [NoRoom EXCEPT !.open = TRUE, !.doc = rows] \in Room
        /\ [NoRoom EXCEPT !.open = TRUE, !.doc = rows].doc = rows
    BY <2>3 DEF NoRoom, Room
  <2>5. InRoom'
    BY <2>1, <2>2, <2>4 DEF TextInv, InRoom
  <2> QED
    BY <1>4, <2>1, <2>5 DEF TextInv, Filed, InTabs, Connect
<1>6. CASE ~UNCHANGED seeds
  <2> DEFINE n == Len(seeds) + 1
             doc == rows \cup {n}
  <2>1. /\ seeds' = Append(seeds, record)
        /\ rows' = doc
        /\ room' = [NoRoom EXCEPT !.open = TRUE, !.doc = doc]
        /\ UNCHANGED <<record, published, sealing, beside>>
    BY <1>6 DEF Connect
  <2>2. seeds' \in Seq(Text) /\ Len(seeds') = n /\ n \in Nat /\ Len(seeds) \in Nat
    BY <2>1 DEF TextInv, Grown, Filed
  <2>3. Known' = Known \cup {n}
    <3>1. 1 .. n = (1 .. Len(seeds)) \cup {n}
      BY <2>2
    <3>2. Typed' = Typed
      BY <2>1 DEF Typed
    <3> QED
      BY <2>2, <3>1, <3>2 DEF Known
  <2>4. Grown'
    BY <2>1, <2>2, <2>3 DEF TextInv, Grown, Typed
  <2>5. doc \subseteq Known' /\ doc \subseteq Item
    <3>1. rows \subseteq Known /\ Known \subseteq Item
      BY KnownAreItems DEF TextInv, InRoom
    <3>2. n \in Item
      BY <2>2 DEF Item
    <3> QED
      BY <2>3, <3>1, <3>2
  <2> HIDE DEF doc, n
  <2>6. /\ [NoRoom EXCEPT !.open = TRUE, !.doc = doc] \in Room
        /\ [NoRoom EXCEPT !.open = TRUE, !.doc = doc].doc = doc
    BY <2>5 DEF NoRoom, Room
  <2>7. InRoom'
    BY <2>1, <2>5, <2>6 DEF InRoom
  <2>8. InTabs'
    BY <1>4, <2>3 DEF InTabs, Within
  <2> QED
    BY <2>1, <2>4, <2>7, <2>8 DEF TextInv, Filed
<1> QED
  BY <1>5, <1>6

\* The room's tasks read the document as a text.
LEMMA TasksText ==
    ASSUME RoomInv, TextInv, StoreUpdates \/ BeginFlush \/ EndFlush \/ Release
    PROVE  TextInv'
<1>1. Grown' /\ Known' = Known /\ browser' = browser /\ UNCHANGED <<published, sealing>>
  BY StillGrown DEF StoreUpdates, BeginFlush, EndFlush, Release
<1>2. InTabs'
  BY <1>1 DEF TextInv, InTabs
<1>3. PICK r : r = room
  OBVIOUS
<1>4. r \in Room /\ r.doc \subseteq Known
  BY <1>3 DEF TextInv, InRoom
<1>5. PICK t : t = TextOf(r.doc)
  OBVIOUS
<1>6. t \in Text
  BY <1>4, <1>5, TextOfIsText DEF TextInv, Grown
<1>7. CASE StoreUpdates
  BY <1>1, <1>2, <1>7 DEF StoreUpdates, TextInv, InRoom, Filed
<1>8. CASE BeginFlush
  <2>1. room' = [r EXCEPT !.changed = FALSE, !.writing = {t}]
    BY <1>3, <1>5, <1>8 DEF BeginFlush
  <2>2. room' \in Room /\ room'.doc = r.doc
    BY <1>4, <1>6, <2>1 DEF Room
  <2> QED
    BY <1>1, <1>2, <1>4, <1>8, <2>2 DEF BeginFlush, TextInv, InRoom, Filed
<1>9. CASE EndFlush
  <2>1. room' = [r EXCEPT !.writing = {}, !.owed = FALSE]
    BY <1>3, <1>9 DEF EndFlush
  <2>2. room' \in Room /\ room'.doc = r.doc
    BY <1>4, <2>1 DEF Room
  <2>3. record' \in Text
    BY <1>3, <1>4, <1>9 DEF EndFlush, Room
  <2> QED
    BY <1>1, <1>2, <1>4, <1>9, <2>2, <2>3 DEF EndFlush, TextInv, InRoom, Filed
<1>10. CASE Release
  <2>1. record' \in Text
    BY <1>3, <1>5, <1>6, <1>10 DEF Release, TextInv, Filed
  <2> QED
    BY <1>1, <1>2, <1>10, <2>1, NoRoomIsOne DEF Release, TextInv, InRoom, Filed
<1> QED
  BY <1>7, <1>8, <1>9, <1>10

\* A seal takes the room's text along.
LEMMA DiscardText ==
    ASSUME RoomInv, TextInv, NEW who, Discard(who) PROVE TextInv'
<1>1. Grown' /\ Known' = Known
  BY StillGrown DEF Discard
<1>2. TextOf(room.doc) \in Text
  BY TextOfIsText DEF TextInv, Grown, InRoom
<1>3. Filed'
  BY <1>2 DEF Discard, TextInv, Filed
<1>4. InRoom'
  BY <1>1, NoRoomIsOne DEF Discard, TextInv, InRoom
<1>5. InTabs'
  <2>1. PICK K, bs : K = Known /\ bs = browser
    OBVIOUS
  <2>2. bs \in [Clients -> Browser] /\ \A c \in Clients : Within(bs[c], K)
    BY <2>1 DEF TextInv, InTabs, RoomInv, Shape
  <2>3. \A c \in Clients : Within(Hang(bs, {"up", "synced"}, "stopped")[c], K)
    BY <2>2, HungWithin
  <2> QED
    BY <1>1, <2>1, <2>3 DEF Discard, Revoked, InTabs
<1> QED
  BY <1>1, <1>3, <1>4, <1>5 DEF TextInv

LEMMA CommitText ==
    ASSUME RoomInv, TextInv, Commit PROVE TextInv'
<1>1. Grown' /\ Known' = Known
  BY StillGrown DEF Commit
<1>2. PICK s \in sealing :
        /\ sealing' = {}
        /\ published' = TRUE
        /\ record' = IF s.text = {} THEN record ELSE CHOOSE t \in s.text : TRUE
        /\ rows' = rows \ s.doomed
        /\ browser' = [c \in Clients |-> IF c = s.by /\ Mounted(c)
                                         THEN [browser[c] EXCEPT !.tab = "answered"]
                                         ELSE browser[c]]
        /\ UNCHANGED <<room, seeds, beside, drawn>>
  BY DEF Commit, Answered
<1>3. record' \in Text
  BY <1>2 DEF TextInv, Filed
<1>4. ASSUME NEW c \in Clients PROVE Within(browser'[c], Known)
  <2>1. Within(browser[c], Known) /\ browser[c] \in Browser
    BY DEF TextInv, InTabs, RoomInv, Shape
  <2>2. Within([browser[c] EXCEPT !.tab = "answered"], Known)
    BY <2>1 DEF Within, Browser
  <2> QED
    BY <1>2, <2>1, <2>2
<1> QED
  BY <1>1, <1>2, <1>3, <1>4 DEF TextInv, Filed, InRoom, InTabs

LEMMA CrashText ==
    ASSUME RoomInv, TextInv, Crash PROVE TextInv'
<1>1. Grown' /\ Known' = Known
  BY StillGrown DEF Crash
<1>2. InTabs'
  <2>1. PICK K, bs : K = Known /\ bs = browser
    OBVIOUS
  <2>2. bs \in [Clients -> Browser] /\ \A c \in Clients : Within(bs[c], K)
    BY <2>1 DEF TextInv, InTabs, RoomInv, Shape
  <2>3. \A c \in Clients : Within(Hang(bs, {"up", "synced"}, "retrying")[c], K)
    BY <2>2, HungWithin
  <2> QED
    BY <1>1, <2>1, <2>3 DEF Crash, InTabs
<1> QED
  BY <1>1, <1>2, NoRoomIsOne DEF Crash, TextInv, Filed, InRoom

\* Every step keeps the types.
LEMMA StepText == ASSUME RoomInv, TextInv, [RoomNext]_roomVars PROVE TextInv'
<1>1. CASE UNCHANGED roomVars
  BY <1>1 DEF roomVars, TextInv, Filed, Grown, InRoom, InTabs, Known, Typed
<1>2. CASE Unsubmit
  BY <1>2, StillGrown DEF Unsubmit, TextInv, Filed, InRoom, InTabs
<1>3. CASE RoomNext /\ ~Unsubmit
  BY <1>3, VisitText, SeePublishedText, LoadCopyText, TypeText, LeaveText,
     HearSubmittedText, ProposeText, ConnectText, SyncText, DropText, TasksText, DiscardText,
     CommitText, CrashText DEF RoomNext, Submit, Lapse
<1> QED
  BY <1>1, <1>2, <1>3

\* Documents hold only what has been seeded or typed, what they show is a
\* text, and an offline copy that has loaded is the composer's document, for
\* any browsers, words, visits, drops and restarts.
THEOREM RoomTypes == RoomSpec => []RoomTypeOK
<1>1. RoomInit => TextInv
  <2> SUFFICES ASSUME RoomInit PROVE TextInv
    OBVIOUS
  <2>1. Filed
    BY DEF RoomInit, Filed, Blank, Text
  <2>2. Grown
    BY DEF RoomInit, Grown, Typed
  <2>3. InRoom
    BY NoRoomIsOne DEF RoomInit, InRoom
  <2>4. InTabs
    BY DEF RoomInit, InTabs, NoBrowser, Within
  <2> QED
    BY <2>1, <2>2, <2>3, <2>4 DEF TextInv
<1>2. RoomInv /\ TextInv /\ [RoomNext]_roomVars => TextInv'
  BY StepText
<1>3. RoomInv /\ TextInv => RoomTypeOK
  BY DEF RoomInv, Shape, TextInv, Filed, Grown, InRoom, InTabs, Within, Known, RoomTypeOK
<1> QED
  BY <1>1, <1>2, <1>3, RoomInvariance, PTL DEF RoomSpec
=============================================================================
