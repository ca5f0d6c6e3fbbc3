----------------------------- MODULE ClientCache -----------------------------
(***************************************************************************)
(* What one browser tab holds of the server: who the viewer is             *)
(* (auth/AuthContext.tsx), the session-long copies of /factions and        *)
(* /game-config (createResourceCache), the cached first page of the praxis *)
(* feed (createKeyedResourceCache under usePagedResource), and the epoch   *)
(* that drops all of them (utils/cacheEpoch.ts).                           *)
(*                                                                         *)
(* Requests overlap.  Each is answered with what the server held when it   *)
(* served it; between the asking and the serving, and between that and the *)
(* hearing, writes, sign-outs, switches and era rollovers happen.          *)
(***************************************************************************)
EXTENDS Naturals, FiniteSets

CONSTANTS
    Lives,          \* the characters of the account
    Mounted,        \* what the page mounts of /factions, /game-config and the feed
    MaxEra,         \* bounds: eras 1..MaxEra,
    MaxWrites,      \*   writes the viewer makes,
    MaxMoves,       \*   sign-outs, and switches of the life played,
    MaxViews,       \*   views of the feed opened,
    MaxIncidents    \*   and requests that fail or probes as the tab becomes visible again

Anon == "anon"
Loading == "loading"        \* the viewer, before the first probe is settled
Uncached == "uncached"      \* the key of a page that is not read through the cache

ASSUME LivesAssumption == Lives # {} /\ Anon \notin Lives /\ Loading \notin Lives
                        /\ Uncached \notin Lives
ASSUME CacheBoundsAssumption ==
    /\ MaxEra \in Nat \ {0} /\ MaxWrites \in Nat /\ MaxMoves \in Nat
    /\ MaxViews \in Nat /\ MaxIncidents \in Nat
    /\ Mounted \subseteq {"factions", "config", "feed"}

Viewers == Lives \cup {Anon}
Resources == {"factions", "config"}     \* Class A
Views == {"first", "grown"}             \* of the feed: its first page, or more

VARIABLES
    server,     \* the era, how often the rows were written, the session
    user,       \* AuthContext's viewer
    marks,      \* the epoch's version, the era last seen (0: none), the keyed cache's generation
    held,       \* the Class A entries
    shown,      \* what the mounted consumers of Class A show
    pages,      \* the keyed entries: the feed's first page, per viewer
    feed,       \* the feed: the view it is on, how its last run stands, the view its rows are of
    air,        \* the requests in the air
    heard,      \* history: the last write heard of, and whether a sign-out was
    spent       \* for the bounds

cacheVars == <<server, user, marks, held, shown, pages, feed, air, heard, spent>>

\* What an answer says: 0 and Anon where it says nothing.
Answer == [era : 0..MaxEra, rev : 0..MaxWrites, session : Viewers]
Nothing == [era |-> 0, rev |-> 0, session |-> Anon]

Reads == Resources \cup {"me", "page"}
Writes == {"write", "logout", "switch"}

\* filed: the cache's inFlight holds its promise; awaited: an uncancelled run does.
Request == [id : Nat, does : Reads \cup Writes, key : Viewers \cup {Uncached}, view : Views,
            version : Nat, generation : Nat, filed : BOOLEAN, awaited : BOOLEAN,
            is : {"asked", "served", "failed"}, saw : Answer]

-----------------------------------------------------------------------------
(* Asking.                                                                 *)

\* Requests of one kind are told apart by a number.
FreeId(does, requests) ==
    LET same == {q \in requests : q.does = does}
        free == {i \in 1..(Cardinality(same) + 1) : \A q \in same : q.id # i}
    IN CHOOSE i \in free : \A j \in free : i <= j

Asking(does, key, view, isFiled, now, requests) ==
    [id |-> FreeId(does, requests), does |-> does, key |-> key, view |-> view,
     version |-> now.version, generation |-> now.generation,
     filed |-> isFiled, awaited |-> does = "page", is |-> "asked", saw |-> Nothing]

\* A mounted consumer loads without an entry: joins the promise in flight, or asks.
Load(r, now, requests) ==
    IF r \notin Mounted \/ \E q \in requests : q.does = r /\ q.filed
    THEN requests
    ELSE requests \cup {Asking(r, Anon, "first", TRUE, now, requests)}

Joined(who, requests) ==
    {IF q.does = "page" /\ q.filed /\ q.key = who THEN [q EXCEPT !.awaited = TRUE] ELSE q :
        q \in requests}

\* Mutant: a page read before the viewer is known is filed as well.
LoadPageAtOnce(view, who, now, requests) ==
    IF view = "first" /\ \E q \in requests : q.does = "page" /\ q.filed /\ q.key = who
    THEN Joined(who, requests)
    ELSE requests \cup {Asking("page", IF view = "first" THEN who ELSE Uncached, view,
                               view = "first", now, requests)}

\* loadPage on a miss: the first page is read through the cache, more never, and
\* nothing is before the viewer is known.
LoadPage(view, who, now, requests) ==
    IF view # "first" \/ who = Loading
    THEN requests \cup {Asking("page", Uncached, view, FALSE, now, requests)}
    ELSE IF \E q \in requests : q.does = "page" /\ q.filed /\ q.key = who
    THEN Joined(who, requests)
    ELSE requests \cup {Asking("page", who, view, TRUE, now, requests)}

\* Mutant: useResource's cleanup does not cancel the run before.
StillAwaited(requests) == requests

\* useResource re-runs: the run before is cancelled.
Cancelled(requests) ==
    {IF q.does = "page" THEN [q EXCEPT !.awaited = FALSE] ELSE q : q \in requests}

\* The feed opens on its first page, grows, or collapses to it again.
Show(view) ==
    /\ "feed" \in Mounted
    /\ spent.views < MaxViews
    /\ feed.view # view
    /\ spent' = [spent EXCEPT !.views = @ + 1]
    /\ IF view = "first" /\ user # Loading /\ pages[user] # Nothing
       THEN /\ feed' = [view |-> view, is |-> "settled", of |-> view]
            /\ air' = Cancelled(air)
       ELSE /\ feed' = [feed EXCEPT !.view = view, !.is = "loading"]
            /\ air' = LoadPage(view, user, marks, Cancelled(air))
    /\ UNCHANGED <<server, user, marks, held, shown, pages, heard>>

\* Five minutes pass: a page is stale, the session-long entries never are.
Expire(v) ==
    /\ pages[v] # Nothing
    /\ pages' = [pages EXCEPT ![v] = Nothing]
    /\ UNCHANGED <<server, user, marks, held, shown, feed, air, heard, spent>>

Asks(does, key) ==
    /\ air' = air \cup {Asking(does, key, "first", FALSE, marks, air)}
    /\ UNCHANGED <<server, user, marks, held, shown, pages, feed, heard>>

\* refetchWhenVisible: listens for a signed-in viewer only.
Probe ==
    /\ user \in Lives
    /\ spent.probes + spent.failures < MaxIncidents
    /\ spent' = [spent EXCEPT !.probes = @ + 1]
    /\ Asks("me", Anon)

Write ==
    /\ user \in Lives
    /\ spent.writes < MaxWrites
    /\ spent' = [spent EXCEPT !.writes = @ + 1]
    /\ Asks("write", Anon)

\* signOut, or CharacterSwitcherSheet's setActiveCharacter.
Move(does, who) ==
    /\ user \in Lives
    /\ who # user
    /\ spent.moves < MaxMoves
    /\ spent' = [spent EXCEPT !.moves = @ + 1]
    /\ Asks(does, who)

-----------------------------------------------------------------------------
(* The server and the network.                                             *)

After(r) ==
    CASE r.does = "write"  -> [server EXCEPT !.rev = @ + 1]
      [] r.does \in {"logout", "switch"} -> [server EXCEPT !.session = r.key]
      [] OTHER -> server

\* What the answer to r says of the server s.
Said(r, s) ==
    [era |-> IF r.does \in Reads THEN s.era ELSE 0,
     rev |-> IF r.does \in {"page", "write"} THEN s.rev ELSE 0,
     session |-> IF r.does # "config" THEN s.session ELSE Anon]

Serve(r) ==
    /\ r.is = "asked"
    /\ LET refused == server.session = Anon /\ r.does \in {"write", "switch"}
           now == IF refused THEN server ELSE After(r)
           answer == IF refused THEN [r EXCEPT !.is = "failed"]
                     ELSE [r EXCEPT !.is = "served", !.saw = Said(r, now)]
       IN /\ server' = now
          /\ air' = (air \ {r}) \cup {answer}
    /\ UNCHANGED <<user, marks, held, shown, pages, feed, heard, spent>>

\* The request, or its answer, is lost.
Fail(r) ==
    /\ r.is # "failed"
    /\ spent.probes + spent.failures < MaxIncidents
    /\ spent' = [spent EXCEPT !.failures = @ + 1]
    /\ air' = (air \ {r}) \cup {[r EXCEPT !.is = "failed", !.saw = Nothing]}
    /\ UNCHANGED <<server, user, marks, held, shown, pages, feed, heard>>

RollOver ==
    /\ server.era < MaxEra
    /\ server' = [server EXCEPT !.era = @ + 1]
    /\ UNCHANGED <<user, marks, held, shown, pages, feed, air, heard, spent>>

-----------------------------------------------------------------------------
(* Dropping.                                                               *)

\* Mutant: a drop empties the entries and leaves the promises in flight filed.
StillFiled(kinds, requests) == requests

Unfiled(kinds, requests) ==
    {IF q.does \in kinds THEN [q EXCEPT !.filed = FALSE] ELSE q : q \in requests}

\* dropCachesAfterWrite: of the keyed caches only.
Aged(now) == [now EXCEPT !.generation = @ + 1]

\* dropAll: every cache.
Turned(now) == [now EXCEPT !.version = @ + 1, !.generation = @ + 1]

\* Mutant: a drop tells nobody.
NobodyRereads(who, now, requests) == Cancelled(Unfiled(Reads, requests))

\* Every consumer re-reads after dropAll: its cache is empty now.
Reread(who, now, requests) ==
    LET empty == Cancelled(Unfiled(Reads, requests))
        both == Load("config", now, Load("factions", now, empty))
    IN IF feed.view = "none" THEN both ELSE LoadPage(feed.view, who, now, both)

DropAll(who, now, requests) ==
    /\ marks' = Turned(now)
    /\ held' = [c \in Resources |-> Nothing]
    /\ pages' = [v \in Viewers |-> Nothing]
    /\ feed' = IF feed.view = "none" THEN feed ELSE [feed EXCEPT !.is = "loading"]
    /\ air' = Reread(who, Turned(now), requests)

Rolls(era) == marks.lastSeen # 0 /\ marks.lastSeen # era

Stamped(era) == [marks EXCEPT !.lastSeen = era]

-----------------------------------------------------------------------------
(* Hearing: r is the request, `rest` the others.                           *)

\* Mutant: the epoch alone tells whether an answer is current.
CurrentByEpoch(r) == r.version = marks.version

IsCurrent(r) ==
    /\ r.version = marks.version
    /\ r.does = "page" => r.generation = marks.generation

\* releaseIfCurrent, and the value to its consumer; /game-config's own stamp comes first.
HearResource(r) ==
    LET rest == air \ {r}
        stamps == r.does = "config"
    IN
    /\ r.does \in Resources
    /\ IF stamps /\ Rolls(r.saw.era)
       THEN /\ DropAll(user, Stamped(r.saw.era), rest)
            /\ UNCHANGED shown
       ELSE /\ marks' = IF stamps THEN Stamped(r.saw.era) ELSE marks
            /\ air' = rest
            /\ held' = IF IsCurrent(r) THEN [held EXCEPT ![r.does] = r.saw] ELSE held
            /\ shown' = IF IsCurrent(r) THEN [shown EXCEPT ![r.does] = r.saw] ELSE shown
            /\ UNCHANGED <<pages, feed>>
    /\ UNCHANGED <<user, heard>>

HearPage(r) ==
    /\ r.does = "page"
    /\ air' = air \ {r}
    /\ pages' = IF r.key # Uncached /\ IsCurrent(r) THEN [pages EXCEPT ![r.key] = r.saw] ELSE pages
    /\ feed' = IF r.awaited THEN [feed EXCEPT !.is = "settled", !.of = r.view] ELSE feed
    /\ UNCHANGED <<user, marks, held, shown, heard>>

\* runSessionProbe on getMe: a 401 says nothing of the era.
HearMe(r) ==
    /\ r.does = "me"
    /\ user' = r.saw.session
    /\ IF r.saw.session # Anon /\ Rolls(r.saw.era)
       THEN DropAll(r.saw.session, Stamped(r.saw.era), air \ {r})
       ELSE /\ marks' = IF r.saw.session # Anon THEN Stamped(r.saw.era) ELSE marks
            /\ air' = air \ {r}
            /\ UNCHANGED <<held, pages, feed>>
    /\ UNCHANGED <<shown, heard>>

\* throwOnFailure's dropCachesAfterWrite; then a switch hands its life to applyUser.
HearWrite(r) ==
    /\ r.does \in {"write", "switch"}
    /\ marks' = Aged(marks)
    /\ pages' = [v \in Viewers |-> Nothing]
    /\ air' = Unfiled({"page"}, air \ {r})
    /\ user' = IF r.does = "switch" THEN r.saw.session ELSE user
    /\ heard' = IF r.saw.rev > heard.rev THEN [heard EXCEPT !.rev = r.saw.rev] ELSE heard
    /\ UNCHANGED <<held, shown, feed>>

\* Mutant: signing out empties the lists, as any write does, and no more.
SignOutKeepsAll(r) ==
    /\ marks' = Aged(marks)
    /\ pages' = [v \in Viewers |-> Nothing]
    /\ air' = Unfiled({"page"}, air \ {r})
    /\ UNCHANGED <<held, feed>>

SignOutDrops(r) == DropAll(Anon, Aged(marks), air \ {r})

\* runSignOut: forgetViewer, then dropAllCaches.
HearSignOut(r) ==
    /\ r.does = "logout"
    /\ user' = Anon
    /\ heard' = [heard EXCEPT !.out = TRUE]
    /\ SignOutDrops(r)
    /\ UNCHANGED shown

Answered(r) ==
    /\ r.is = "served"
    /\ HearResource(r) \/ HearPage(r) \/ HearMe(r) \/ HearWrite(r) \/ HearSignOut(r)
    /\ UNCHANGED <<server, spent>>

\* A failure keeps what is held and shown; the first probe is settled by it.
HearFailure(r) ==
    /\ r.is = "failed"
    /\ air' = air \ {r}
    /\ user' = IF r.does = "me" /\ user = Loading THEN Anon ELSE user
    /\ feed' = IF r.does = "page" /\ r.awaited THEN [feed EXCEPT !.is = "failed"] ELSE feed
    /\ UNCHANGED <<server, marks, held, shown, pages, heard, spent>>

-----------------------------------------------------------------------------
FreshMarks == [version |-> 0, generation |-> 0, lastSeen |-> 0]

\* The page load: the consumers of Class A are mounted, and the viewer is asked for.
Booting ==
    LET one == Load("config", FreshMarks, {})
        two == Load("factions", FreshMarks, one)
    IN two \cup {Asking("me", Anon, "first", FALSE, FreshMarks, two)}

CacheInit ==
    /\ \E life \in Viewers : server = [era |-> 1, rev |-> 0, session |-> life]
    /\ user = Loading
    /\ marks = FreshMarks
    /\ held = [c \in Resources |-> Nothing]
    /\ shown = [c \in Resources |-> Nothing]
    /\ pages = [v \in Viewers |-> Nothing]
    /\ feed = [view |-> "none", is |-> "settled", of |-> "none"]
    /\ air = Booting
    /\ heard = [rev |-> 0, out |-> FALSE]
    /\ spent = [writes |-> 0, moves |-> 0, probes |-> 0, views |-> 0, failures |-> 0]

Hearing == \E r \in air : Answered(r) \/ HearFailure(r)
Serving == \E r \in air : Serve(r)

CacheNext ==
    \/ \E view \in Views : Show(view)
    \/ \E v \in Viewers : Expire(v)
    \/ Probe
    \/ Write
    \/ Move("logout", Anon)
    \/ \E who \in Lives : Move("switch", who)
    \/ RollOver
    \/ \E r \in air : Fail(r)
    \/ Serving
    \/ Hearing

\* The server answers, and an answer or its loss is heard of.
CacheFairness == WF_cacheVars(Serving) /\ WF_cacheVars(Hearing)

CacheSpec == CacheInit /\ [][CacheNext]_cacheVars /\ CacheFairness

-----------------------------------------------------------------------------
(* Properties.                                                             *)

\* Every variable stays in its type: what the tab holds, and every request.
CacheTypeOK ==
    /\ server \in [era : 1..MaxEra, rev : 0..MaxWrites, session : Viewers]
    /\ user \in Viewers \cup {Loading}
    /\ marks \in [version : Nat, generation : Nat, lastSeen : 0..MaxEra]
    /\ held \in [Resources -> Answer] /\ shown \in [Resources -> Answer]
    /\ pages \in [Viewers -> Answer]
    /\ feed \in [view : Views \cup {"none"}, is : {"loading", "settled", "failed"},
                 of : Views \cup {"none"}]
    /\ \A r \in air : r \in Request
    /\ \A q, r \in air : q.does = r.does /\ q.id = r.id => q = r
    /\ heard \in [rev : 0..MaxWrites, out : BOOLEAN]
    /\ spent \in [writes : Nat, moves : Nat, probes : Nat, views : Nat, failures : Nat]

\* A page that the cache would hand out was read after every write whose
\* success the tab has heard of: a read that was in the air as the write landed
\* never files the rows from before it (createKeyedResourceCache's generation).
RowsAreAfterTheLastWrite ==
    \A v \in Viewers : pages[v] # Nothing => pages[v].rev >= heard.rev

\* The directory of factions that is held after a sign-out was served to nobody
\* in particular: no answer asked for before the sign-out comes back in behind it.
DirectoryLeavesWithItsViewer ==
    heard.out /\ held["factions"] # Nothing => held["factions"].session = Anon

\* A promise that a load would join is one whose answer the cache will keep, and
\* there is one per key: an answer from before a drop neither is joined nor lets
\* a third request out.
JoinedAnswersAreKept ==
    /\ \A r \in air : r.filed => IsCurrent(r)
    /\ \A q, r \in air : q.filed /\ r.filed /\ q.does = r.does /\ q.key = r.key => q = r

\* A feed at rest shows the rows of the view it is on, however the runs of the
\* views before it end.
FeedShowsItsView ==
    feed.is = "settled" => feed.of = feed.view

\* While no sign-out and no switch is in the air, no request has failed and the
\* tab has its viewer right, the page kept for that viewer was served to them: a
\* read that overlaps a switch never leaves the other life's rows under their key.
RowsAreTheViewersOwn ==
    /\ \A r \in air : r.does \notin {"logout", "switch"}
    /\ spent.failures = 0
    /\ user = server.session
    /\ pages[user] # Nothing
    => pages[user].session = user

\* Unless requests fail, the level thresholds on screen come to be those of the
\* era the tab has last heard of, though the answer that announces a new era is
\* itself dropped with the old one.
RulesCatchUp ==
    <>[](spent.failures = 0 => shown["config"].era = marks.lastSeen)

\* The same of the directory, whose answers carry no stamp.  A page load whose
\* answers straddle the rollover has it violated: the first stamp drops nothing.
DirectoryCatchesUp ==
    <>[](spent.failures = 0 => shown["factions"].era >= marks.lastSeen)

\* At rest the viewer is the session's.  A probe served before a sign-out or a
\* switch and heard after it has it violated.
ViewerIsTheSessions ==
    air = {} /\ spent.failures = 0 => user = server.session

\* A request that fails changed nothing, so a page in the cache has every write
\* of the viewer's as soon as none is in the air.  A lost answer has it violated.
FailedWritesChangedNothing ==
    (\A r \in air : r.does # "write")
        => \A v \in Viewers : pages[v] # Nothing => pages[v].rev = server.rev
=============================================================================
