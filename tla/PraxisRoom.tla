----------------------------- MODULE PraxisRoom -----------------------------
(***************************************************************************)
(* The live document of one praxis: the server's room, its stored updates  *)
(* and its flush into the praxis row (services/praxis_room.py), and each   *)
(* member's composer with its Yjs document, its offline copy and its       *)
(* socket (pages/editPraxis/praxisRoom.tsx, roomStore.ts).                 *)
(*                                                                         *)
(* A document is a set of items that merges by union.  An item is a        *)
(* seeding, numbered, which carries the body the praxis row had then, or a *)
(* word, which a member types once.  A word shows only where the items it  *)
(* was typed beside are.  The words of a document are a text: how often    *)
(* each word stands in it.  Nobody deletes a word.                         *)
(*                                                                         *)
(* The lock under which a room opens, closes and is discarded makes each   *)
(* of the three one step.  What overlaps is what leaves the lock: the      *)
(* flush waits for its commit, a seal commits after its discard, and a     *)
(* stored update is written by a task of the room.                         *)
(***************************************************************************)
EXTENDS Naturals, Sequences, FiniteSets, FiniteSetsExt

CONSTANTS
    Clients,    \* the members' browsers
    Words,      \* what they may type
    MaxSeals,   \* the praxis is published so often
    MaxVisits,  \* the composer is opened so often
    MaxDrops,   \* a socket fails so often
    MaxCrashes  \* the server restarts so often

ASSUME WordsAssumption == Words \cap Nat = {}
ASSUME RoomBoundsAssumption ==
    /\ MaxSeals \in Nat
    /\ MaxVisits \in Nat
    /\ MaxDrops \in Nat
    /\ MaxCrashes \in Nat

VARIABLES
    record,     \* praxis.body_text, as a text
    published,  \* praxis.status = submitted
    rows,       \* praxis_room_update: the items stored, {} where there is no row
    room,       \* the room in memory and its flusher
    sealing,    \* the seal between its discard and its commit, if there is one
    seeds,      \* the text each seeding carried
    beside,     \* the items each typed word needs
    browser,    \* each member's composer
    drawn       \* how much of each bound is used

roomVars == <<record, published, rows, room, sealing, seeds, beside, browser, drawn>>

Item == (Nat \ {0}) \cup Words
Text == [Words -> Nat]
Blank == [w \in Words |-> 0]
Nobody == "nobody"
Typed == DOMAIN beside

\* A flusher: changed is its event, owed its _pending flag, writing the text
\* of an UPDATE that has not committed.
Room == [open : BOOLEAN, doc : SUBSET Item, changed : BOOLEAN, owed : BOOLEAN,
         writing : SUBSET Text]

NoRoom == [open |-> FALSE, doc |-> {}, changed |-> FALSE, owed |-> FALSE, writing |-> {}]

\* A composer: copy is its handle on the offline store, store what is in it.
Browser == [tab : {"off", "open", "answered", "leaving"}, doc : SUBSET Item,
            store : SUBSET Item, copy : {"none", "loading", "kept"}, seeded : BOOLEAN,
            link : {"off", "opening", "up", "synced", "retrying", "gaveUp", "stopped"}]

NoBrowser == [tab |-> "off", doc |-> {}, store |-> {}, copy |-> "none",
              seeded |-> FALSE, link |-> "off"]

-----------------------------------------------------------------------------
(* What a document says.                                                   *)

Seedings(doc) == doc \cap Nat
Shown(doc) == {w \in doc \cap Words : beside[w] \subseteq doc}

TextOf(doc) ==
    [w \in Words |-> Cardinality({w} \cap Shown(doc))
                     + MapThenSumSet(LAMBDA g : seeds[g][w], Seedings(doc))]

\* The items that hold text: a seeding of an empty body holds none.
Content(doc) == {i \in doc : i \in Nat => seeds[i] # Blank}

Mounted(c) == browser[c].tab # "off"
Connected(c) == browser[c].link \in {"up", "synced"}
Synced == {c \in Clients : browser[c].link = "synced"}

-----------------------------------------------------------------------------
(* Items arrive.                                                           *)

\* Mutant: the offline copy is only read, never written.
TakeUncopied(b, items) == [b EXCEPT !.doc = @ \cup items]

\* A composer takes items into its document and into its offline copy.
Take(b, items) ==
    [b EXCEPT !.doc = @ \cup items,
              !.store = IF b.copy = "kept" THEN @ \cup b.doc \cup items ELSE @]

\* Whatever reaches the room reaches every synced composer.
Broadcast(browsers, items) ==
    [c \in Clients |-> IF browsers[c].link = "synced" THEN Take(browsers[c], items)
                                                      ELSE browsers[c]]

\* The observer of the room's document: mark_changed.
Receive(r, items) ==
    IF items \subseteq r.doc THEN r
    ELSE [r EXCEPT !.doc = @ \cup items, !.changed = TRUE, !.owed = TRUE]

Hang(browsers, from, to) ==
    [c \in Clients |-> IF browsers[c].link \in from THEN [browsers[c] EXCEPT !.link = to]
                                                    ELSE browsers[c]]

-----------------------------------------------------------------------------
(* The composer.                                                           *)

Opened(c) == [NoBrowser EXCEPT !.tab = "open", !.store = browser[c].store,
                               !.copy = "loading", !.link = "opening"]

\* The composer's page reads the praxis and opens a room while it is a draft.
Visit(c) ==
    /\ ~Mounted(c)
    /\ ~published
    /\ drawn.visits < MaxVisits
    /\ drawn' = [drawn EXCEPT !.visits = @ + 1]
    /\ browser' = [browser EXCEPT ![c] = Opened(c)]
    /\ UNCHANGED <<record, published, rows, room, sealing, seeds, beside>>

\* Once it is published the page opens none, and drops the offline copy.
SeePublished(c) ==
    /\ ~Mounted(c)
    /\ published
    /\ browser[c].store # {}
    /\ browser' = [browser EXCEPT ![c].store = {}]
    /\ UNCHANGED <<record, published, rows, room, sealing, seeds, beside, drawn>>

\* The offline copy has loaded.  It is the seed only if it holds any text.
LoadCopy(c) ==
    LET b == browser[c]
        kept == [b EXCEPT !.copy = "kept", !.seeded = @ \/ Content(b.doc \cup b.store) # {}]
    IN  /\ b.copy = "loading"
        /\ browser' = Broadcast([browser EXCEPT ![c] = Take(kept, b.store)],
                                IF b.link = "synced" THEN b.store ELSE {})
        /\ room' = IF b.link = "synced" THEN Receive(room, b.store) ELSE room
        /\ UNCHANGED <<record, published, rows, sealing, seeds, beside, drawn>>

Type(c, w) ==
    LET linked == browser[c].link = "synced"
        typed == [browser EXCEPT ![c] = Take(@, {w})]
    IN  /\ Mounted(c)
        /\ browser[c].seeded
        /\ w \notin Typed
        /\ beside' = [v \in Typed \cup {w} |->
                          IF v = w THEN Content(browser[c].doc) ELSE beside[v]]
        /\ browser' = IF linked THEN Broadcast(typed, {w}) ELSE typed
        /\ room' = IF linked THEN Receive(room, {w}) ELSE room
        /\ UNCHANGED <<record, published, rows, sealing, seeds, drawn>>

\* Mutant: the store is cleared, not closed, when the composer goes.
GoneAndCleared(c) == NoBrowser

\* The composer unmounts; its offline copy outlives it.
Gone(c) == [NoBrowser EXCEPT !.store = browser[c].store]

\* A tab is not closed in the moment before its copy has opened.
Leave(c) ==
    /\ Mounted(c)
    /\ browser[c].copy # "loading"
    /\ browser' = [browser EXCEPT ![c] = Gone(c)]
    /\ UNCHANGED <<record, published, rows, room, sealing, seeds, beside, drawn>>

\* The answer to this composer's submission, whether it published or not: the
\* composer drops its copy, reads the praxis again and is about to leave for
\* the read page or the waiting surface.  One that unmounted before the answer
\* came drops the copy too.
HearSubmitted(c) ==
    /\ browser[c].tab = "answered"
    /\ \/ browser' = [browser EXCEPT ![c].tab = "leaving", ![c].copy = "none", ![c].store = {}]
       \/ browser' = [browser EXCEPT ![c] = NoBrowser]
    /\ UNCHANGED <<record, published, rows, room, sealing, seeds, beside, drawn>>

-----------------------------------------------------------------------------
(* The socket.                                                             *)

\* Mutant: a room opens on the text of the praxis row whatever is stored.
SeedAfresh(stored) == TRUE
\* The room's store knows no document: no row of this praxis.
NeedsSeed(stored) == stored = {}

\* A member's socket is admitted and its room opens: the stored document, or a
\* new one seeded from the praxis row and stored at once.  The flusher watches
\* it from then on.
Connect(c) ==
    LET seed == {Len(seeds) + 1}
        opens(doc) == [NoRoom EXCEPT !.open = TRUE, !.doc = doc]
    IN  /\ browser[c].link \in {"opening", "retrying"}
        /\ browser' = [browser EXCEPT ![c].link = "up"]
        /\ \/ /\ room.open
              /\ UNCHANGED <<room, rows, seeds>>
           \/ /\ ~room.open
              /\ ~NeedsSeed(rows)
              /\ room' = opens(rows)
              /\ UNCHANGED <<rows, seeds>>
           \/ /\ ~room.open
              /\ NeedsSeed(rows)
              /\ seeds' = Append(seeds, record)
              /\ room' = opens(rows \cup seed)
              /\ rows' = rows \cup seed
        /\ UNCHANGED <<record, published, sealing, beside, drawn>>

\* Both sides send what the other lacks.
Sync(c) ==
    LET b == [browser[c] EXCEPT !.link = "synced", !.seeded = TRUE]
    IN  /\ browser[c].link = "up"
        /\ room' = Receive(room, b.doc)
        /\ browser' = Broadcast([browser EXCEPT ![c] = b], room.doc \cup b.doc)
        /\ UNCHANGED <<record, published, rows, sealing, seeds, beside, drawn>>

\* Mutant: a room that once opened is not retried either.
StopsAfterDrop(link) == "stopped"
\* shouldReconnectRoom: a room that opened is retried without end.
AfterDrop(link) == IF link \in {"up", "synced"} THEN "retrying" ELSE link

Drop(c) ==
    /\ Connected(c)
    /\ drawn.drops < MaxDrops
    /\ drawn' = [drawn EXCEPT !.drops = @ + 1]
    /\ browser' = [browser EXCEPT ![c].link = AfterDrop(@)]
    /\ UNCHANGED <<record, published, rows, room, sealing, seeds, beside>>

\* The fourth attempt of a room that never opened fails.
GiveUp(c) ==
    /\ browser[c].link = "opening"
    /\ drawn.drops < MaxDrops
    /\ drawn' = [drawn EXCEPT !.drops = @ + 1]
    /\ browser' = [browser EXCEPT ![c].link = "gaveUp"]
    /\ UNCHANGED <<record, published, rows, room, sealing, seeds, beside>>

-----------------------------------------------------------------------------
(* The room's own tasks.                                                   *)

\* Updates the room took are stored.
StoreUpdates ==
    /\ room.open
    /\ ~(room.doc \subseteq rows)
    /\ rows' = rows \cup room.doc
    /\ UNCHANGED <<record, published, room, sealing, seeds, beside, browser, drawn>>

\* The debounce is over: the flusher reads the document and sends its UPDATE.
BeginFlush ==
    /\ room.open
    /\ room.changed
    /\ room.writing = {}
    /\ room' = [room EXCEPT !.changed = FALSE, !.writing = {TextOf(room.doc)}]
    /\ UNCHANGED <<record, published, rows, sealing, seeds, beside, browser, drawn>>

\* It commits.
EndFlush ==
    /\ room.writing # {}
    /\ record' \in room.writing
    /\ room' = [room EXCEPT !.writing = {}, !.owed = FALSE]
    /\ UNCHANGED <<published, rows, sealing, seeds, beside, browser, drawn>>

\* Nobody is left: one last flush if the room owes one, and the room goes, with
\* an UPDATE that had not committed and the updates not yet stored.
Release ==
    /\ room.open
    /\ \A c \in Clients : ~Connected(c)
    /\ record' = IF room.owed THEN TextOf(room.doc) ELSE record
    /\ room' = NoRoom
    /\ UNCHANGED <<published, rows, sealing, seeds, beside, browser, drawn>>

-----------------------------------------------------------------------------
(* Publishing: the document becomes the record and is destroyed.           *)

\* Mutant: the sockets on a discarded document are left alone.
LeftAlone(browsers) == browsers
\* Every socket of the praxis is told not to come back.
Revoked(browsers) == Hang(browsers, {"up", "synced"}, "stopped")

\* The discard, in the transaction of the seal: the text of an open room goes
\* into the praxis, the room goes, and the stored updates with it.
Discard(who) ==
    /\ sealing = {}
    /\ drawn.seals < MaxSeals
    /\ drawn' = [drawn EXCEPT !.seals = @ + 1]
    /\ sealing' = {[by |-> who, doomed |-> rows,
                    text |-> IF room.open THEN {TextOf(room.doc)} ELSE {}]}
    /\ room' = NoRoom
    /\ browser' = Revoked(browser)
    /\ UNCHANGED <<record, published, rows, seeds, beside>>

\* A member's submission seals: the last approval, a solo praxis, or what is
\* Live already, which seals again.
Submit(c) == browser[c].tab = "open" /\ Discard(c)

Answered(c) == [browser[c] EXCEPT !.tab = "answered"]

\* It does not seal: a proposal, or an approval that is not the last as its
\* request sees it.  Who has approved is CollabPraxis's; in a crew any
\* submission may be such a one.  None falls between a discard and its commit:
\* a bound.
Propose(c) ==
    /\ browser[c].tab = "open"
    /\ Cardinality(Clients) > 1
    /\ ~published
    /\ sealing = {}
    /\ browser' = [browser EXCEPT ![c] = Answered(c)]
    /\ UNCHANGED <<record, published, rows, room, sealing, seeds, beside, drawn>>

\* A read after the deadline seals a collab.
Lapse ==
    /\ Cardinality(Clients) > 1
    /\ ~published
    /\ Discard(Nobody)

\* The seal commits, and its answer is under way.
Commit ==
    \E s \in sealing :
        /\ sealing' = {}
        /\ published' = TRUE
        /\ record' = IF s.text = {} THEN record ELSE CHOOSE t \in s.text : TRUE
        /\ rows' = rows \ s.doomed
        /\ browser' = [c \in Clients |-> IF c = s.by /\ Mounted(c) THEN Answered(c)
                                                                ELSE browser[c]]
        /\ UNCHANGED <<room, seeds, beside, drawn>>

\* A member takes the praxis back into drafting.
Unsubmit ==
    /\ published
    /\ published' = FALSE
    /\ UNCHANGED <<record, rows, room, sealing, seeds, beside, browser, drawn>>

\* The server restarts: rooms, sockets and open transactions go.
Crash ==
    /\ drawn.crashes < MaxCrashes
    /\ drawn' = [drawn EXCEPT !.crashes = @ + 1]
    /\ room' = NoRoom
    /\ sealing' = {}
    /\ browser' = Hang(browser, {"up", "synced"}, "retrying")
    /\ UNCHANGED <<record, published, rows, seeds, beside>>

-----------------------------------------------------------------------------
RoomInit ==
    /\ record = Blank
    /\ published = FALSE
    /\ rows = {}
    /\ room = NoRoom
    /\ sealing = {}
    /\ seeds = <<>>
    /\ beside = <<>>
    /\ browser = [c \in Clients |-> NoBrowser]
    /\ drawn = [seals |-> 0, visits |-> 0, drops |-> 0, crashes |-> 0]

RoomNext ==
    \/ \E c \in Clients : Visit(c)
    \/ \E c \in Clients : SeePublished(c)
    \/ \E c \in Clients : LoadCopy(c)
    \/ \E c \in Clients, w \in Words : Type(c, w)
    \/ \E c \in Clients : Leave(c)
    \/ \E c \in Clients : HearSubmitted(c)
    \/ \E c \in Clients : Connect(c)
    \/ \E c \in Clients : Sync(c)
    \/ \E c \in Clients : Drop(c)
    \/ \E c \in Clients : GiveUp(c)
    \/ StoreUpdates
    \/ BeginFlush
    \/ EndFlush
    \/ Release
    \/ \E c \in Clients : Submit(c)
    \/ \E c \in Clients : Propose(c)
    \/ Lapse
    \/ Commit
    \/ Unsubmit
    \/ Crash

\* The provider dials and syncs by itself, the room's task stores what came in;
\* nobody is obliged to visit, type, leave or publish.
RoomFairness ==
    /\ \A c \in Clients : WF_roomVars(Connect(c)) /\ WF_roomVars(Sync(c))
    /\ WF_roomVars(StoreUpdates)

RoomSpec == RoomInit /\ [][RoomNext]_roomVars /\ RoomFairness

-----------------------------------------------------------------------------
(* Properties.                                                             *)

\* Type invariant: documents hold known items, and an offline copy that is
\* kept is its document.
RoomTypeOK ==
    LET known == (1 .. Len(seeds)) \cup Typed
    IN  /\ record \in Text
        /\ published \in BOOLEAN
        /\ seeds \in Seq(Text)
        /\ Typed \subseteq Words /\ \A w \in Typed : beside[w] \subseteq known
        /\ rows \subseteq known
        /\ room \in Room /\ room.doc \subseteq known
        /\ browser \in [Clients -> Browser]
        /\ \A c \in Clients : /\ browser[c].doc \cup browser[c].store \subseteq known
                              /\ browser[c].copy = "kept" => browser[c].store = browser[c].doc

\* A connected socket has a room to write to, and what a synced composer shows
\* is what the room holds, whatever seals, closes and restarts meanwhile.
\* What praxis_room.discard_document revokes the sockets for.
ASocketHasItsRoom ==
    /\ \A c \in Clients : Connected(c) => room.open
    /\ \A c \in Synced : room.doc \subseteq browser[c].doc

\* A document is seeded once in its life: never again before it is published,
\* whoever opens, drops, closes and restarts the room.  PraxisRoomServer.
\* _load_or_seed, ADR-0073's one rule.
SeededOnce == Len(seeds) <= 1 + drawn.seals

\* Where a word outlives a crash and a closed room: the stored document, a
\* composer, or the copy one left behind.
Stands(w) ==
    \/ w \in Shown(rows)
    \/ \E c \in Clients : w \in Shown(browser[c].doc) \cup Shown(browser[c].store)

\* The steps after an answer that part with a text: the composer drops its
\* offline copy, and goes with its document.
PartsWith(c, w) ==
    /\ \/ browser[c].tab = "answered" /\ browser'[c].store = {}
       \/ browser[c].tab = "leaving" /\ browser'[c].tab = "off"
    /\ w \in Shown(browser[c].doc) \cup Shown(browser[c].store)

\* Until the praxis is first published a word that stands keeps standing,
\* whatever drops, closes, restarts and comes back, with one exception: what
\* a composer alone shows is lost when its submission was answered.
\* The offline copy of praxisRoom.tsx, PostgresYStore and publish().
WordsGoOnlyWithASubmission ==
    [][drawn'.seals = 0 =>
         \A w \in Typed :
            Stands(w) => Stands(w)' \/ \E c \in Clients : PartsWith(c, w)]_roomVars

\* A word typed in a composer that stays open reaches the server's store
\* before any publishing, unless the socket never opened and gave up.
\* shouldReconnectRoom and the replay of praxisRoom.tsx.
EveryWordReachesTheStore ==
    \A c \in Clients, w \in Words :
        w \in browser[c].doc ~> \/ w \in rows
                                \/ ~Mounted(c)
                                \/ browser[c].link = "gaveUp"
                                \/ drawn.seals > 0

\* Expected to fail (praxisRoom.tsx:30-32): until the praxis is first published
\* a word typed is in a document, in a copy or in the record.  publish() drops
\* the offline copy after a submission that sealed nothing, too.
UnpublishedTextSurvives ==
    drawn.seals = 0 =>
        \A w \in Typed : Stands(w) \/ w \in Shown(room.doc) \/ record[w] > 0

\* Expected to fail (roomStore.ts:13-20): no word stands twice in the text.
NeverTwice == \A w \in Words : record[w] <= 1

\* Expected to fail (roomReconnect.ts): a socket that gave up before it was
\* ever admitted has nothing in its composer that the server lacks.
GaveUpWithNothingToMerge ==
    \A c \in Clients :
        browser[c].link = "gaveUp" => browser[c].doc \subseteq rows \cup room.doc

\* Expected to fail (praxis_room.py, _RoomFlusher.close): a room that closed
\* has left every stored word in the record.
ClosedRoomOwesNothing ==
    drawn.seals = 0 /\ ~room.open => \A w \in Words : record[w] >= Cardinality({w} \cap Shown(rows))

\* Expected to fail (useEditPraxis.ts, publish): a text once in the record
\* is not taken out of it by a flush.
TextNeverShrinks == [][\A w \in Words : record'[w] >= record[w]]_roomVars
=============================================================================
