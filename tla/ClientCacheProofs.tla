-------------------------- MODULE ClientCacheProofs --------------------------
(***************************************************************************)
(* What the tab's caches never do, for any characters, eras, writes, moves *)
(* and failures, and whatever the page mounts: file rows from before a     *)
(* write it has heard of, join an answer it will drop, settle the feed on  *)
(* the rows of another view, keep a directory served to a viewer who has   *)
(* signed out, or keep one viewer's rows under another's key.              *)
(*                                                                         *)
(* The invariant speaks of each request in the air: what it may still be   *)
(* filed for depends only on how it compares with the epoch's marks, with  *)
(* the server, and with what the tab has heard of.  TypeInv adds that each *)
(* has a number of its own and that writes owed and done were all asked    *)
(* for; SessionInv whose session what is kept, or may yet be, was served.  *)
(***************************************************************************)
EXTENDS ClientCache, SumTheorems, TLAPS, FiniteSetTheorems

Fields == {"id", "does", "key", "view", "version", "generation", "filed", "awaited", "is", "saw"}

\* releaseIfCurrent's question, of any marks.
CurrentTo(r, m) ==
    /\ r.version = m.version
    /\ r.does = "page" => r.generation = m.generation

\* A request in the air under marks m, with the server at s, the tab having heard h.
Good(r, m, s, h) ==
    /\ DOMAIN r = Fields
    /\ r.does \in Reads \cup Writes
    /\ r.does = "logout" => r.key = Anon
    /\ r.filed => r.does \in Reads /\ CurrentTo(r, m)
    /\ r.filed /\ r.does = "page" => r.view = "first"
    /\ r.version \in Nat /\ r.version <= m.version
    /\ r.generation \in Nat /\ r.generation <= m.generation
    /\ r.saw.rev \in Nat /\ r.saw.rev <= s.rev
    /\ r.is = "served" /\ r.does = "page" /\ r.generation = m.generation => r.saw.rev >= h.rev
    /\ r.is = "served" /\ r.does = "logout" => s.session = Anon
    /\ r.is = "served" /\ r.does = "factions" /\ r.version = m.version /\ h.out =>
         r.saw.session = Anon

OnePerKey(requests) ==
    \A q, r \in requests : q.filed /\ r.filed /\ q.does = r.does /\ q.key = r.key => q = r

Sound(requests, m, s, h) == (\A r \in requests : Good(r, m, s, h)) /\ OnePerKey(requests)

\* The runs that are not cancelled are of the view the feed is on.
Awaits(requests, view) == \A r \in requests : r.does = "page" /\ r.awaited => r.view = view

Marks(m) == /\ DOMAIN m = {"version", "generation", "lastSeen"}
            /\ m.version \in Nat /\ m.generation \in Nat

\* A signed-out tab has a signed-out server: nothing signs in again.
Heard(h, s) ==
    /\ DOMAIN h = {"rev", "out"} /\ DOMAIN s = {"era", "rev", "session"}
    /\ h.rev \in Nat /\ s.rev \in Nat /\ h.rev <= s.rev
    /\ h.out => s.session = Anon

CacheInv ==
    /\ Marks(marks)
    /\ Heard(heard, server)
    /\ Sound(air, marks, server, heard)
    /\ Awaits(air, feed.view)
    /\ DOMAIN feed = {"view", "is", "of"}
    /\ DOMAIN pages = Viewers
    /\ DOMAIN held = Resources
    /\ RowsAreAfterTheLastWrite
    /\ DirectoryLeavesWithItsViewer
    /\ FeedShowsItsView

-----------------------------------------------------------------------------
(* The operators on sets of requests.                                      *)

\* A new request says nothing yet and is current.
Fresh(a, m) ==
    /\ DOMAIN a = Fields
    /\ a.does \in Reads \cup Writes
    /\ a.does = "logout" => a.key = Anon
    /\ a.filed => a.does \in Reads
    /\ a.filed /\ a.does = "page" => a.view = "first"
    /\ a.version = m.version /\ a.generation = m.generation
    /\ a.is = "asked" /\ a.saw.rev = 0

LEMMA FreshIsGood ==
    ASSUME NEW m, Marks(m), NEW s, NEW h, Heard(h, s), NEW a, Fresh(a, m)
    PROVE  Good(a, m, s, h)
BY DEF Fresh, Good, CurrentTo, Marks, Heard

\* Whether a run awaits it is nothing to the caches.
LEMMA AwaitedIsGood ==
    ASSUME NEW m, NEW s, NEW h, NEW q, Good(q, m, s, h), NEW x,
           NEW e, e = [q EXCEPT !.awaited = x]
    PROVE  /\ Good(e, m, s, h) /\ e.does = q.does /\ e.key = q.key
           /\ e.view = q.view /\ e.filed = q.filed /\ e.awaited = x
<1>1. /\ DOMAIN e = Fields /\ e.does = q.does /\ e.key = q.key /\ e.view = q.view
      /\ e.filed = q.filed /\ e.awaited = x /\ e.version = q.version
      /\ e.generation = q.generation /\ e.is = q.is /\ e.saw = q.saw
  BY DEF Good, Fields
<1> QED
  BY <1>1 DEF Good, CurrentTo

\* Requests rewritten one by one, their kind and key kept, and none filed anew.
Rewrites(f, requests, image, m, s, h) ==
    /\ \A q \in requests : /\ Good(f[q], m, s, h) /\ f[q].does = q.does
                           /\ f[q].key = q.key /\ (f[q].filed => q.filed)
    /\ \A x \in image : \E q \in requests : x = f[q]

\* They are one per key if they were.
LEMMA RewritingKeeps ==
    ASSUME NEW m, NEW s, NEW h, NEW requests, NEW f, NEW image,
           Rewrites(f, requests, image, m, s, h), OnePerKey(requests)
    PROVE  Sound(image, m, s, h)
<1> USE DEF Rewrites
<1>1. \A x \in image : Good(x, m, s, h)
  OBVIOUS
<1>2. ASSUME NEW x \in image, NEW y \in image, x.filed, y.filed, x.does = y.does, x.key = y.key
      PROVE  x = y
  <2>1. PICK q \in requests : x = f[q]
    OBVIOUS
  <2>2. PICK r \in requests : y = f[r]
    OBVIOUS
  <2>3. q = r
    BY <1>2, <2>1, <2>2 DEF OnePerKey
  <2> QED
    BY <2>1, <2>2, <2>3
<1> QED
  BY <1>1, <1>2 DEF Sound, OnePerKey

\* useResource's cleanup: no run is awaited any more.
LEMMA CancelledKeeps ==
    ASSUME NEW m, NEW s, NEW h, NEW requests, Sound(requests, m, s, h)
    PROVE  Sound(Cancelled(requests), m, s, h) /\ \A v : Awaits(Cancelled(requests), v)
<1> DEFINE f == [q \in requests |-> IF q.does = "page" THEN [q EXCEPT !.awaited = FALSE] ELSE q]
<1>1. Cancelled(requests) = {f[q] : q \in requests}
  BY DEF Cancelled
<1>2. ASSUME NEW q \in requests
      PROVE  /\ Good(f[q], m, s, h) /\ f[q].does = q.does /\ f[q].key = q.key
             /\ f[q].filed = q.filed
             /\ f[q].does = "page" => ~f[q].awaited
  <2>1. Good(q, m, s, h)
    BY DEF Sound
  <2>2. CASE q.does = "page"
    <3>1. f[q] = [q EXCEPT !.awaited = FALSE]
      BY <2>2
    <3> HIDE DEF f
    <3> QED
      BY <2>1, <3>1, AwaitedIsGood
  <2>3. CASE q.does # "page"
    <3>1. f[q] = q
      BY <2>3
    <3> HIDE DEF f
    <3> QED
      BY <2>1, <2>3, <3>1
  <2> QED
    BY <2>2, <2>3
<1> HIDE DEF f
<1>3. \A x \in Cancelled(requests) : \E q \in requests : x = f[q]
  BY <1>1
<1>4. Sound(Cancelled(requests), m, s, h)
  <2>1. Rewrites(f, requests, Cancelled(requests), m, s, h)
    BY <1>2, <1>3 DEF Rewrites
  <2>2. OnePerKey(requests)
    BY DEF Sound
  <2> QED
    BY <2>1, <2>2, RewritingKeeps
<1> QED
  BY <1>2, <1>3, <1>4 DEF Awaits

\* A second load of a key awaits the promise of the first.
LEMMA JoinedKeeps ==
    ASSUME NEW m, NEW s, NEW h, NEW requests, Sound(requests, m, s, h), NEW who,
           Awaits(requests, "first")
    PROVE  Sound(Joined(who, requests), m, s, h) /\ Awaits(Joined(who, requests), "first")
<1> DEFINE joins(q) == q.does = "page" /\ q.filed /\ q.key = who
           f == [q \in requests |-> IF joins(q) THEN [q EXCEPT !.awaited = TRUE] ELSE q]
<1>1. Joined(who, requests) = {f[q] : q \in requests}
  BY DEF Joined
<1>2. ASSUME NEW q \in requests
      PROVE  /\ Good(f[q], m, s, h) /\ f[q].does = q.does /\ f[q].key = q.key
             /\ f[q].filed = q.filed
             /\ f[q].does = "page" /\ f[q].awaited => f[q].view = "first"
  <2>1. Good(q, m, s, h) /\ (q.does = "page" /\ q.awaited => q.view = "first")
    BY DEF Sound, Awaits
  <2>2. q.filed /\ q.does = "page" => q.view = "first"
    BY <2>1 DEF Good
  <2>3. CASE joins(q)
    <3>1. f[q] = [q EXCEPT !.awaited = TRUE]
      BY <2>3
    <3> HIDE DEF f
    <3>2. /\ Good(f[q], m, s, h) /\ f[q].does = q.does /\ f[q].key = q.key
          /\ f[q].view = q.view /\ f[q].filed = q.filed
      BY <2>1, <3>1, AwaitedIsGood
    <3> QED
      BY <2>2, <2>3, <3>2
  <2>4. CASE ~joins(q)
    <3>1. f[q] = q
      BY <2>4
    <3> HIDE DEF f
    <3> QED
      BY <2>1, <3>1
  <2> QED
    BY <2>3, <2>4
<1> HIDE DEF f
<1>3. \A x \in Joined(who, requests) : \E q \in requests : x = f[q]
  BY <1>1
<1>4. Sound(Joined(who, requests), m, s, h)
  <2>1. Rewrites(f, requests, Joined(who, requests), m, s, h)
    BY <1>2, <1>3 DEF Rewrites
  <2>2. OnePerKey(requests)
    BY DEF Sound
  <2> QED
    BY <2>1, <2>2, RewritingKeeps
<1> QED
  BY <1>2, <1>3, <1>4 DEF Awaits

\* Asking once more.
LEMMA OneMoreKeeps ==
    ASSUME NEW m, NEW s, NEW h, NEW requests, Sound(requests, m, s, h), NEW a, Good(a, m, s, h),
           a.filed => \A q \in requests : ~(q.filed /\ q.does = a.does /\ q.key = a.key)
    PROVE  Sound(requests \cup {a}, m, s, h)
BY DEF Sound, OnePerKey

\* A consumer of Class A joins or asks.
LEMMA LoadKeeps ==
    ASSUME NEW m, Marks(m), NEW s, NEW h, Heard(h, s), NEW requests, Sound(requests, m, s, h),
           NEW r \in Resources
    PROVE  /\ Sound(Load(r, m, requests), m, s, h)
           /\ \A v : Awaits(requests, v) => Awaits(Load(r, m, requests), v)
<1> DEFINE a == Asking(r, Anon, "first", TRUE, m, requests)
<1>1. Good(a, m, s, h) /\ a.does = r /\ a.key = Anon /\ a.filed
  <2>1. Fresh(a, m) /\ a.does = r /\ a.key = Anon /\ a.filed
    BY DEF Fresh, Asking, Fields, Reads, Resources, Nothing
  <2> QED
    BY <2>1, FreshIsGood
<1>2. r # "page"
  BY DEF Resources
<1>3. CASE r \notin Mounted \/ \E q \in requests : q.does = r /\ q.filed
  BY <1>3 DEF Load
<1>4. CASE ~(r \notin Mounted \/ \E q \in requests : q.does = r /\ q.filed)
  <2>1. Load(r, m, requests) = requests \cup {a}
    BY <1>4 DEF Load
  <2> HIDE DEF a
  <2> QED
    BY <1>1, <1>2, <1>4, <2>1, OneMoreKeeps DEF Awaits
<1> QED
  BY <1>3, <1>4

\* The feed's run joins or asks, for the view it is given.
LEMMA LoadPageKeeps ==
    ASSUME NEW m, Marks(m), NEW s, NEW h, Heard(h, s), NEW requests, Sound(requests, m, s, h),
           NEW view, NEW who, Awaits(requests, view)
    PROVE  /\ Sound(LoadPage(view, who, m, requests), m, s, h)
           /\ Awaits(LoadPage(view, who, m, requests), view)
<1>1. "page" \in Reads \cup Writes /\ "page" \in Reads
  BY DEF Reads
<1>2. CASE view # "first" \/ who = Loading
  <2> DEFINE a == Asking("page", Uncached, view, FALSE, m, requests)
  <2>1. Good(a, m, s, h) /\ a.view = view /\ ~a.filed
    <3>1. Fresh(a, m) /\ a.view = view /\ ~a.filed
      BY <1>1 DEF Fresh, Asking, Fields, Nothing
    <3> QED
      BY <3>1, FreshIsGood
  <2>2. LoadPage(view, who, m, requests) = requests \cup {a}
    BY <1>2 DEF LoadPage
  <2> HIDE DEF a
  <2> QED
    BY <2>1, <2>2, OneMoreKeeps DEF Awaits
<1>3. CASE /\ view = "first" /\ who # Loading
           /\ \E q \in requests : q.does = "page" /\ q.filed /\ q.key = who
  <2>1. LoadPage(view, who, m, requests) = Joined(who, requests)
    BY <1>3 DEF LoadPage
  <2> QED
    BY <1>3, <2>1, JoinedKeeps
<1>4. CASE /\ view = "first" /\ who # Loading
           /\ ~\E q \in requests : q.does = "page" /\ q.filed /\ q.key = who
  <2> DEFINE a == Asking("page", who, view, TRUE, m, requests)
  <2>1. Good(a, m, s, h) /\ a.does = "page" /\ a.key = who /\ a.view = view
    <3>1. Fresh(a, m) /\ a.does = "page" /\ a.key = who /\ a.view = view
      BY <1>1, <1>4 DEF Fresh, Asking, Fields, Nothing
    <3> QED
      BY <3>1, FreshIsGood
  <2>2. LoadPage(view, who, m, requests) = requests \cup {a}
    BY <1>4 DEF LoadPage
  <2> HIDE DEF a
  <2> QED
    BY <1>4, <2>1, <2>2, OneMoreKeeps DEF Awaits
<1> QED
  BY <1>2, <1>3, <1>4

\* The marks a drop leaves behind.
LEMMA MarksMove ==
    ASSUME NEW m, Marks(m)
    PROVE  /\ Marks(Aged(m)) /\ Aged(m).version = m.version
           /\ Aged(m).generation = m.generation + 1
           /\ Marks(Turned(m)) /\ Turned(m).version = m.version + 1
           /\ Turned(m).generation = m.generation + 1
BY DEF Marks, Aged, Turned

\* A stamp of the era is nothing to a request.
LEMMA StampKeeps ==
    ASSUME NEW m, NEW s, NEW h, NEW requests, Sound(requests, m, s, h),
           NEW n, n.version = m.version, n.generation = m.generation
    PROVE  Sound(requests, n, s, h)
BY DEF Sound, Good, CurrentTo

\* What unfiling does to one request.
LEMMA UnfiledIs ==
    ASSUME NEW q, DOMAIN q = Fields, NEW e, e = [q EXCEPT !.filed = FALSE]
    PROVE  /\ DOMAIN e = Fields /\ e.does = q.does /\ e.key = q.key /\ e.view = q.view
           /\ ~e.filed /\ e.awaited = q.awaited /\ e.version = q.version
           /\ e.generation = q.generation /\ e.is = q.is /\ e.saw = q.saw
BY DEF Fields

\* A write heard of ages the pages in the air: none is filed, and none that is
\* still to be heard is current.
LEMMA AgedKeeps ==
    ASSUME NEW m, Marks(m), NEW s, NEW h, NEW requests, Sound(requests, m, s, h),
           NEW k, k.out <=> h.out
    PROVE  /\ Sound(Unfiled({"page"}, requests), Aged(m), s, k)
           /\ \A v : Awaits(requests, v) => Awaits(Unfiled({"page"}, requests), v)
<1> DEFINE f == [q \in requests |-> IF q.does \in {"page"} THEN [q EXCEPT !.filed = FALSE] ELSE q]
           n == Aged(m)
<1>1. Unfiled({"page"}, requests) = {f[q] : q \in requests}
  BY DEF Unfiled
<1>2. ASSUME NEW q \in requests
      PROVE  /\ Good(f[q], n, s, k) /\ f[q].does = q.does /\ f[q].key = q.key
             /\ f[q].filed => q.filed
             /\ f[q].view = q.view /\ f[q].awaited = q.awaited
  <2>1. Good(q, m, s, h)
    BY DEF Sound
  <2>2. n.version = m.version /\ n.generation = m.generation + 1 /\ m.generation \in Nat
    BY MarksMove DEF Marks
  <2> HIDE DEF n
  <2>3. CASE q.does = "page"
    <3>1. f[q] = [q EXCEPT !.filed = FALSE]
      BY <2>3
    <3> HIDE DEF f
    <3>2. /\ DOMAIN f[q] = Fields /\ f[q].does = q.does /\ f[q].key = q.key
          /\ f[q].view = q.view /\ ~f[q].filed /\ f[q].awaited = q.awaited
          /\ f[q].version = q.version /\ f[q].generation = q.generation
          /\ f[q].is = q.is /\ f[q].saw = q.saw
      BY <2>1, <3>1, UnfiledIs DEF Good
    <3>3. Good(f[q], n, s, k)
      BY <2>1, <2>2, <2>3, <3>2 DEF Good
    <3> QED
      BY <3>2, <3>3
  <2>4. CASE q.does # "page"
    <3>1. f[q] = q
      BY <2>4
    <3> HIDE DEF f
    <3>2. Good(q, n, s, k)
      BY <2>1, <2>2, <2>4 DEF Good, CurrentTo
    <3> QED
      BY <3>1, <3>2
  <2> QED
    BY <2>3, <2>4
<1> HIDE DEF f, n
<1>3. \A x \in Unfiled({"page"}, requests) : \E q \in requests : x = f[q]
  BY <1>1
<1>4. Sound(Unfiled({"page"}, requests), n, s, k)
  <2>1. Rewrites(f, requests, Unfiled({"page"}, requests), n, s, k)
    BY <1>2, <1>3 DEF Rewrites
  <2>2. OnePerKey(requests)
    BY DEF Sound
  <2> QED
    BY <2>1, <2>2, RewritingKeeps
<1>5. ASSUME NEW v, Awaits(requests, v)
      PROVE  Awaits(Unfiled({"page"}, requests), v)
  BY <1>2, <1>3, <1>5 DEF Awaits
<1> QED
  BY <1>4, <1>5 DEF n

\* The marks n are past every request asked for under the marks m.
Past(m, n) == Marks(m) /\ Marks(n) /\ n.version > m.version /\ n.generation > m.generation

LEMMA TurnedIsPast ==
    ASSUME NEW m, Marks(m)
    PROVE  Past(m, Turned(m)) /\ Past(m, Turned(Aged(m)))
<1>1. /\ Marks(Aged(m)) /\ Aged(m).version = m.version /\ Aged(m).generation = m.generation + 1
      /\ Marks(Turned(m)) /\ Turned(m).version = m.version + 1
      /\ Turned(m).generation = m.generation + 1
  BY MarksMove
<1>2. /\ Marks(Turned(Aged(m))) /\ Turned(Aged(m)).version = Aged(m).version + 1
      /\ Turned(Aged(m)).generation = Aged(m).generation + 1
  BY <1>1, MarksMove
<1> HIDE DEF Turned, Aged
<1> QED
  BY <1>1, <1>2 DEF Past, Marks

\* dropAll leaves nothing filed and nothing current.
LEMMA TurnedKeeps ==
    ASSUME NEW m, NEW n, Past(m, n), NEW s, NEW h, NEW requests, Sound(requests, m, s, h), NEW k
    PROVE  Sound(Unfiled(Reads, requests), n, s, k)
<1> DEFINE f == [q \in requests |-> IF q.does \in Reads THEN [q EXCEPT !.filed = FALSE] ELSE q]
<1>1. Unfiled(Reads, requests) = {f[q] : q \in requests}
  BY DEF Unfiled
<1>2. ASSUME NEW q \in requests
      PROVE  Good(f[q], n, s, k) /\ ~f[q].filed
  <2>1. Good(q, m, s, h)
    BY DEF Sound
  <2>2. /\ n.version > m.version /\ n.generation > m.generation
        /\ m.generation \in Nat /\ m.version \in Nat
        /\ n.generation \in Nat /\ n.version \in Nat
    BY DEF Past, Marks
  <2>3. CASE q.does \in Reads
    <3>1. f[q] = [q EXCEPT !.filed = FALSE]
      BY <2>3
    <3> HIDE DEF f
    <3>2. /\ DOMAIN f[q] = Fields /\ f[q].does = q.does /\ f[q].key = q.key
          /\ f[q].view = q.view /\ ~f[q].filed
          /\ f[q].version = q.version /\ f[q].generation = q.generation
          /\ f[q].is = q.is /\ f[q].saw = q.saw
      BY <2>1, <3>1, UnfiledIs DEF Good
    <3>3. Good(f[q], n, s, k)
      BY <2>1, <2>2, <3>2 DEF Good
    <3> QED
      BY <3>2, <3>3
  <2>4. CASE q.does \notin Reads
    <3>1. f[q] = q
      BY <2>4
    <3> HIDE DEF f
    <3>2. ~q.filed
      BY <2>1, <2>4 DEF Good
    <3>3. Good(q, n, s, k)
      BY <2>1, <2>2, <3>2 DEF Good
    <3> QED
      BY <3>1, <3>2, <3>3
  <2> QED
    BY <2>3, <2>4
<1> HIDE DEF f
<1> QED
  BY <1>1, <1>2 DEF Sound, OnePerKey

\* Fewer requests are as good.
LEMMA FewerKeep ==
    ASSUME NEW m, NEW s, NEW h, NEW requests, Sound(requests, m, s, h), NEW r
    PROVE  /\ Sound(requests \ {r}, m, s, h)
           /\ \A v : Awaits(requests, v) => Awaits(requests \ {r}, v)
BY DEF Sound, OnePerKey, Awaits

\* After dropAll every consumer asks again.
LEMMA RereadKeeps ==
    ASSUME NEW m, NEW n, Past(m, n), NEW s, NEW h, NEW requests, Sound(requests, m, s, h),
           NEW k, Heard(k, s), NEW who
    PROVE  /\ Sound(Reread(who, n, requests), n, s, k)
           /\ Awaits(Reread(who, n, requests), feed.view)
<1> DEFINE empty == Cancelled(Unfiled(Reads, requests))
           one == Load("factions", n, empty)
           both == Load("config", n, one)
<1>1. Marks(n)
  BY DEF Past
<1>2. Sound(empty, n, s, k) /\ Awaits(empty, feed.view)
  BY TurnedKeeps, CancelledKeeps
<1>3. "factions" \in Resources /\ "config" \in Resources
  BY DEF Resources
<1>4. Reread(who, n, requests) =
         IF feed.view = "none" THEN both ELSE LoadPage(feed.view, who, n, both)
  BY DEF Reread
<1> HIDE DEF empty
<1>5. Sound(one, n, s, k) /\ Awaits(one, feed.view)
  BY <1>1, <1>2, <1>3, LoadKeeps
<1> HIDE DEF one
<1>6. Sound(both, n, s, k) /\ Awaits(both, feed.view)
  BY <1>1, <1>3, <1>5, LoadKeeps
<1> HIDE DEF both
<1>7. /\ Sound(LoadPage(feed.view, who, n, both), n, s, k)
      /\ Awaits(LoadPage(feed.view, who, n, both), feed.view)
  BY <1>1, <1>6, LoadPageKeeps
<1> QED
  BY <1>4, <1>6, <1>7

-----------------------------------------------------------------------------
(* The actions.                                                            *)

\* dropAll, whoever the viewer is by then, whatever is heard of by then.
LEMMA DropAllKeeps ==
    ASSUME CacheInv, NEW who, NEW m, NEW now, Past(m, Turned(now)),
           NEW requests, Sound(requests, m, server, heard),
           Heard(heard', server), server' = server, DropAll(who, now, requests)
    PROVE  CacheInv'
<1>1. Marks(Turned(now)) /\ marks' = Turned(now)
  BY DEF DropAll, Past
<1>2. /\ Sound(air', marks', server, heard')
      /\ Awaits(air', feed.view)
  BY <1>1, RereadKeeps DEF DropAll
<1>3. feed'.view = feed.view /\ DOMAIN feed' = {"view", "is", "of"} /\ FeedShowsItsView'
  BY DEF DropAll, CacheInv, FeedShowsItsView
<1>4. DOMAIN pages' = Viewers /\ \A v \in Viewers : pages'[v] = Nothing
  BY DEF DropAll
<1>5. DOMAIN held' = Resources /\ \A c \in Resources : held'[c] = Nothing
  BY DEF DropAll
<1>6. RowsAreAfterTheLastWrite' /\ DirectoryLeavesWithItsViewer'
  BY <1>4, <1>5 DEF RowsAreAfterTheLastWrite, DirectoryLeavesWithItsViewer, Resources
<1> QED
  BY <1>1, <1>2, <1>3, <1>4, <1>5, <1>6 DEF CacheInv

\* The feed opens, grows or collapses.
LEMMA ShowKeeps == ASSUME CacheInv, NEW view, Show(view) PROVE CacheInv'
<1>1. /\ marks' = marks /\ server' = server /\ heard' = heard /\ pages' = pages /\ held' = held
  BY DEF Show
<1>2. Sound(Cancelled(air), marks, server, heard) /\ Awaits(Cancelled(air), view)
  BY CancelledKeeps DEF CacheInv
<1>3. /\ Sound(air', marks, server, heard) /\ Awaits(air', view)
      /\ DOMAIN feed' = {"view", "is", "of"} /\ feed'.view = view
      /\ feed'.is = "settled" => feed'.of = view
  <2>1. CASE view = "first" /\ user # Loading /\ pages[user] # Nothing
    BY <1>2, <2>1 DEF Show
  <2>2. CASE ~(view = "first" /\ user # Loading /\ pages[user] # Nothing)
    <3>1. Marks(marks) /\ Heard(heard, server)
      BY DEF CacheInv
    <3>2. air' = LoadPage(view, user, marks, Cancelled(air))
      BY <2>2 DEF Show
    <3>3. feed' = [feed EXCEPT !.view = view, !.is = "loading"]
      BY <2>2 DEF Show
    <3> QED
      BY <1>2, <3>1, <3>2, <3>3, LoadPageKeeps DEF CacheInv
  <2> QED
    BY <2>1, <2>2
<1>4. RowsAreAfterTheLastWrite' /\ DirectoryLeavesWithItsViewer' /\ FeedShowsItsView'
  BY <1>1, <1>3 DEF CacheInv, RowsAreAfterTheLastWrite, DirectoryLeavesWithItsViewer,
                    FeedShowsItsView
<1> QED
  BY <1>1, <1>3, <1>4 DEF CacheInv

\* A probe, a write, a sign-out or a switch is asked for.
LEMMA AsksKeep ==
    ASSUME CacheInv, NEW does \in {"me", "write", "logout", "switch"}, NEW key,
           does = "logout" => key = Anon, Asks(does, key)
    PROVE  CacheInv'
<1> DEFINE a == Asking(does, key, "first", FALSE, marks, air)
<1>1. Fresh(a, marks) /\ a.does = does /\ ~a.filed
  BY DEF Fresh, Asking, Fields, Nothing, Reads, Writes
<1>2. air' = air \cup {a}
  BY DEF Asks
<1> HIDE DEF a
<1>3. Good(a, marks, server, heard)
  BY <1>1, FreshIsGood DEF CacheInv
<1>4. Sound(air', marks, server, heard) /\ Awaits(air', feed.view)
  BY <1>1, <1>2, <1>3, OneMoreKeeps DEF CacheInv, Awaits
<1> QED
  BY <1>4 DEF Asks, CacheInv, RowsAreAfterTheLastWrite, DirectoryLeavesWithItsViewer,
              FeedShowsItsView

\* An answer in the place of its request.
LEMMA AnswerKeeps ==
    ASSUME NEW m, NEW s, NEW h, NEW t, NEW requests, Sound(requests, m, s, h),
           \A q \in requests : Good(q, m, t, h),
           NEW r \in requests, NEW a, Good(a, m, t, h),
           a.does = r.does, a.key = r.key, a.filed = r.filed, a.view = r.view,
           a.awaited = r.awaited
    PROVE  /\ Sound((requests \ {r}) \cup {a}, m, t, h)
           /\ \A v : Awaits(requests, v) => Awaits((requests \ {r}) \cup {a}, v)
BY DEF Sound, OnePerKey, Awaits

\* What failed says nothing.
Lost(r) == [r EXCEPT !.is = "failed", !.saw = Nothing]

LEMMA FailedIsGood ==
    ASSUME NEW m, NEW s, NEW h, Heard(h, s), NEW r, Good(r, m, s, h), NEW a, a = Lost(r)
    PROVE  /\ Good(a, m, s, h) /\ a.does = r.does /\ a.key = r.key /\ a.view = r.view
           /\ a.filed = r.filed /\ a.awaited = r.awaited
<1>1. /\ DOMAIN a = Fields /\ a.does = r.does /\ a.key = r.key /\ a.view = r.view
      /\ a.filed = r.filed /\ a.awaited = r.awaited /\ a.version = r.version
      /\ a.generation = r.generation /\ a.is = "failed" /\ a.saw = Nothing
  <2>1. DOMAIN r = Fields
    BY DEF Good
  <2> QED
    BY <2>1 DEF Fields, Lost
<1>2. Nothing.rev = 0
  BY DEF Nothing
<1> QED
  BY <1>1, <1>2 DEF Good, CurrentTo, Heard

\* The request or its answer is lost.
LEMMA FailKeeps == ASSUME CacheInv, NEW r \in air, Fail(r) PROVE CacheInv'
<1>1. PICK a : a = Lost(r) /\ air' = (air \ {r}) \cup {a}
  BY DEF Fail, Lost
<1>2. /\ Good(r, marks, server, heard) /\ \A q \in air : Good(q, marks, server, heard)
      /\ Heard(heard, server)
  BY DEF CacheInv, Sound
<1>3. /\ Good(a, marks, server, heard) /\ a.does = r.does /\ a.key = r.key /\ a.view = r.view
      /\ a.filed = r.filed /\ a.awaited = r.awaited
  BY <1>1, <1>2, FailedIsGood
<1>4. Sound(air', marks, server, heard) /\ Awaits(air', feed.view)
  BY <1>1, <1>2, <1>3, AnswerKeeps DEF CacheInv
<1> QED
  BY <1>4 DEF Fail, CacheInv, RowsAreAfterTheLastWrite, DirectoryLeavesWithItsViewer,
              FeedShowsItsView

\* A request is served: nothing that a sign-out took away comes back.
LEMMA ServeKeeps == ASSUME CacheInv, NEW r \in air, Serve(r) PROVE CacheInv'
<1> DEFINE refused == server.session = Anon /\ r.does \in {"write", "switch"}
           now == IF refused THEN server ELSE After(r)
           a == IF refused THEN [r EXCEPT !.is = "failed"]
                ELSE [r EXCEPT !.is = "served", !.saw = Said(r, now)]
<1>1. server' = now /\ air' = (air \ {r}) \cup {a}
  BY DEF Serve
<1>2. /\ Good(r, marks, server, heard) /\ \A q \in air : Good(q, marks, server, heard)
      /\ Heard(heard, server)
  BY DEF CacheInv, Sound
<1>3. /\ DOMAIN now = {"era", "rev", "session"}
      /\ now.rev \in Nat /\ now.rev >= server.rev
      /\ server.session = Anon => now.session = Anon
      /\ ~refused /\ r.does = "logout" => now.session = Anon
  BY <1>2 DEF After, Good, Heard
<1>4. /\ DOMAIN a = Fields /\ a.does = r.does /\ a.key = r.key /\ a.view = r.view
      /\ a.filed = r.filed /\ a.awaited = r.awaited /\ a.version = r.version
      /\ a.generation = r.generation
      /\ refused => a.is = "failed" /\ a.saw = r.saw
      /\ ~refused => a.is = "served" /\ a.saw = Said(r, now)
  <2>1. DOMAIN r = Fields
    BY <1>2 DEF Good
  <2> HIDE DEF now
  <2> QED
    BY <2>1 DEF Fields
<1>5. /\ Said(r, now).rev = IF r.does \in {"page", "write"} THEN now.rev ELSE 0
      /\ r.does # "config" => Said(r, now).session = now.session
  BY DEF Said
<1> HIDE DEF now, a, refused
<1>6. \A q \in air : Good(q, marks, now, heard)
  BY <1>2, <1>3 DEF Good, Heard
<1>7. Good(a, marks, now, heard)
  <2>1. a.saw.rev \in Nat /\ a.saw.rev <= now.rev
    BY <1>2, <1>3, <1>4, <1>5 DEF Good, Heard
  <2>2. a.is = "served" /\ a.does = "page" => a.saw.rev >= heard.rev
    BY <1>2, <1>3, <1>4, <1>5 DEF Heard
  <2>3. a.is = "served" /\ a.does = "logout" => now.session = Anon
    BY <1>3, <1>4
  <2>4. a.is = "served" /\ a.does = "factions" /\ heard.out => a.saw.session = Anon
    BY <1>2, <1>3, <1>4, <1>5 DEF Heard
  <2> QED
    BY <1>2, <1>4, <2>1, <2>2, <2>3, <2>4 DEF Good, CurrentTo
<1>8. Sound(air', marks, now, heard) /\ Awaits(air', feed.view)
  BY <1>1, <1>4, <1>6, <1>7, AnswerKeeps DEF CacheInv
<1>9. Heard(heard, now)
  BY <1>2, <1>3 DEF Heard
<1> QED
  BY <1>1, <1>8, <1>9 DEF Serve, CacheInv, RowsAreAfterTheLastWrite,
     DirectoryLeavesWithItsViewer, FeedShowsItsView

\* /factions or /game-config has come.
LEMMA HearResourceKeeps ==
    ASSUME CacheInv, NEW r \in air, r.is = "served", HearResource(r), server' = server
    PROVE  CacheInv'
<1> DEFINE rest == air \ {r}
           stamped == Stamped(r.saw.era)
<1>1. Sound(rest, marks, server, heard) /\ Awaits(rest, feed.view)
  BY FewerKeep DEF CacheInv
<1>2. Marks(stamped) /\ stamped.version = marks.version /\ stamped.generation = marks.generation
  BY DEF CacheInv, Marks, Stamped
<1>3. Sound(rest, stamped, server, heard)
  BY <1>1, <1>2, StampKeeps
<1>4. Good(r, marks, server, heard) /\ Heard(heard, server) /\ heard' = heard
  BY DEF CacheInv, Sound, HearResource
<1>5. CASE r.does = "config" /\ Rolls(r.saw.era)
  <2>1. DropAll(user, stamped, rest)
    BY <1>5 DEF HearResource
  <2> HIDE DEF stamped, rest
  <2> QED
    BY <1>2, <1>3, <1>4, <2>1, TurnedIsPast, DropAllKeeps
<1>6. CASE ~(r.does = "config" /\ Rolls(r.saw.era))
  <2>1. /\ marks' = IF r.does = "config" THEN stamped ELSE marks
        /\ air' = rest /\ pages' = pages /\ feed' = feed
        /\ held' = IF IsCurrent(r) THEN [held EXCEPT ![r.does] = r.saw] ELSE held
    BY <1>6 DEF HearResource
  <2> HIDE DEF stamped, rest
  <2>2. Marks(marks') /\ Sound(air', marks', server, heard)
    BY <1>1, <1>2, <1>3, <2>1 DEF CacheInv
  <2>3. DOMAIN held' = Resources /\ DirectoryLeavesWithItsViewer'
    <3>1. IsCurrent(r) /\ r.does = "factions" /\ heard.out => r.saw.session = Anon
      BY <1>4 DEF Good, IsCurrent
    <3>2. "factions" \in Resources
      BY DEF Resources
    <3> QED
      BY <1>4, <2>1, <3>1, <3>2 DEF CacheInv, DirectoryLeavesWithItsViewer
  <2>4. RowsAreAfterTheLastWrite' /\ FeedShowsItsView'
    BY <1>4, <2>1 DEF CacheInv, RowsAreAfterTheLastWrite, FeedShowsItsView
  <2> QED
    BY <1>1, <1>4, <2>1, <2>2, <2>3, <2>4 DEF CacheInv
<1> QED
  BY <1>5, <1>6

\* A page has come: it is kept if it is current, and shown if it is awaited.
LEMMA HearPageKeeps ==
    ASSUME CacheInv, NEW r \in air, r.is = "served", HearPage(r), server' = server
    PROVE  CacheInv'
<1>1. Sound(air \ {r}, marks, server, heard) /\ Awaits(air \ {r}, feed.view)
  BY FewerKeep DEF CacheInv
<1>2. Good(r, marks, server, heard)
  BY DEF CacheInv, Sound
<1>3. r.does = "page" /\ air' = air \ {r} /\ marks' = marks /\ held' = held /\ heard' = heard
  BY DEF HearPage
<1>4. DOMAIN pages' = Viewers /\ RowsAreAfterTheLastWrite'
  <2>1. IsCurrent(r) => r.saw.rev >= heard.rev
    BY <1>2, <1>3 DEF Good, IsCurrent
  <2> QED
    BY <1>3, <2>1 DEF HearPage, CacheInv, RowsAreAfterTheLastWrite
<1>5. /\ DOMAIN feed' = {"view", "is", "of"} /\ feed'.view = feed.view
      /\ feed'.is = "settled" => feed'.of = feed'.view
  BY <1>3 DEF HearPage, CacheInv, Awaits, FeedShowsItsView
<1> QED
  BY <1>1, <1>3, <1>4, <1>5 DEF CacheInv, DirectoryLeavesWithItsViewer, FeedShowsItsView

\* The session has come.
LEMMA HearMeKeeps ==
    ASSUME CacheInv, NEW r \in air, r.is = "served", HearMe(r), server' = server
    PROVE  CacheInv'
<1> DEFINE rest == air \ {r}
           stamped == Stamped(r.saw.era)
<1>1. Sound(rest, marks, server, heard) /\ Awaits(rest, feed.view)
  BY FewerKeep DEF CacheInv
<1>2. Marks(stamped) /\ stamped.version = marks.version /\ stamped.generation = marks.generation
  BY DEF CacheInv, Marks, Stamped
<1>3. Sound(rest, stamped, server, heard)
  BY <1>1, <1>2, StampKeeps
<1>4. Heard(heard, server) /\ heard' = heard
  BY DEF CacheInv, HearMe
<1>5. CASE r.saw.session # Anon /\ Rolls(r.saw.era)
  <2>1. DropAll(r.saw.session, stamped, rest)
    BY <1>5 DEF HearMe
  <2> HIDE DEF stamped, rest
  <2> QED
    BY <1>2, <1>3, <1>4, <2>1, TurnedIsPast, DropAllKeeps
<1>6. CASE ~(r.saw.session # Anon /\ Rolls(r.saw.era))
  <2>1. /\ marks' = IF r.saw.session # Anon THEN stamped ELSE marks
        /\ air' = rest /\ pages' = pages /\ feed' = feed /\ held' = held
    BY <1>6 DEF HearMe
  <2> HIDE DEF stamped, rest
  <2>2. Marks(marks') /\ Sound(air', marks', server, heard)
    BY <1>1, <1>2, <1>3, <2>1 DEF CacheInv
  <2> QED
    BY <1>1, <1>4, <2>1, <2>2 DEF CacheInv, RowsAreAfterTheLastWrite, FeedShowsItsView,
       DirectoryLeavesWithItsViewer
<1> QED
  BY <1>5, <1>6

\* A write has succeeded: no page that is kept or still to come is from before it.
LEMMA HearWriteKeeps ==
    ASSUME CacheInv, NEW r \in air, r.is = "served", HearWrite(r), server' = server
    PROVE  CacheInv'
<1>1. Sound(air \ {r}, marks, server, heard) /\ Awaits(air \ {r}, feed.view)
  BY FewerKeep DEF CacheInv
<1>2. Good(r, marks, server, heard) /\ Heard(heard, server) /\ Marks(marks)
  BY DEF CacheInv, Sound
<1>3. Heard(heard', server) /\ (heard'.out <=> heard.out)
  BY <1>2 DEF HearWrite, Heard, Good
<1>4. /\ marks' = Aged(marks) /\ air' = Unfiled({"page"}, air \ {r})
      /\ feed' = feed /\ held' = held
  BY DEF HearWrite
<1>5. Sound(air', marks', server, heard') /\ Awaits(air', feed.view)
  BY <1>1, <1>2, <1>3, <1>4, AgedKeeps
<1>6. Marks(marks')
  BY <1>2, <1>4, MarksMove
<1>7. DOMAIN pages' = Viewers /\ RowsAreAfterTheLastWrite'
  BY DEF HearWrite, RowsAreAfterTheLastWrite
<1> QED
  BY <1>3, <1>4, <1>5, <1>6, <1>7 DEF CacheInv, FeedShowsItsView, DirectoryLeavesWithItsViewer

\* The sign-out has succeeded: nothing of the viewer's is kept or still to come.
LEMMA HearSignOutKeeps ==
    ASSUME CacheInv, NEW r \in air, r.is = "served", HearSignOut(r), server' = server
    PROVE  CacheInv'
<1>1. /\ Good(r, marks, server, heard) /\ Heard(heard, server) /\ Marks(marks)
  BY DEF CacheInv, Sound
<1>2. server.session = Anon
  BY <1>1 DEF Good, HearSignOut
<1>3. Heard(heard', server)
  BY <1>1, <1>2 DEF HearSignOut, Heard
<1>4. Past(marks, Turned(Aged(marks)))
  BY <1>1, TurnedIsPast
<1>5. DropAll(Anon, Aged(marks), air \ {r})
  BY DEF HearSignOut, SignOutDrops
<1>6. Sound(air \ {r}, marks, server, heard)
  BY FewerKeep DEF CacheInv
<1> QED
  BY <1>3, <1>4, <1>5, <1>6, DropAllKeeps

\* A failure is heard of.
LEMMA HearFailureKeeps == ASSUME CacheInv, NEW r \in air, HearFailure(r) PROVE CacheInv'
<1>1. Sound(air \ {r}, marks, server, heard) /\ Awaits(air \ {r}, feed.view)
  BY FewerKeep DEF CacheInv
<1>2. /\ server' = server /\ marks' = marks /\ held' = held /\ pages' = pages /\ heard' = heard
      /\ air' = air \ {r}
  BY DEF HearFailure
<1>3. DOMAIN feed' = {"view", "is", "of"} /\ feed'.view = feed.view /\ FeedShowsItsView'
  BY DEF HearFailure, CacheInv, FeedShowsItsView
<1> QED
  BY <1>1, <1>2, <1>3 DEF CacheInv, RowsAreAfterTheLastWrite, DirectoryLeavesWithItsViewer

\* A page goes stale.
LEMMA ExpireKeeps == ASSUME CacheInv, NEW v, Expire(v) PROVE CacheInv'
BY DEF CacheInv, Expire, RowsAreAfterTheLastWrite, DirectoryLeavesWithItsViewer, FeedShowsItsView

\* An era begins: no request speaks of the server's era.
LEMMA RollOverKeeps == ASSUME CacheInv, RollOver PROVE CacheInv'
<1>1. /\ server'.rev = server.rev /\ server'.session = server.session
      /\ DOMAIN server' = DOMAIN server
  BY DEF RollOver, CacheInv, Heard
<1>2. Heard(heard, server')
  BY <1>1 DEF CacheInv, Heard
<1>3. Sound(air, marks, server', heard)
  <2>1. Sound(air, marks, server, heard)
    BY DEF CacheInv
  <2> QED
    BY <1>1, <2>1 DEF Sound, Good
<1> QED
  BY <1>2, <1>3 DEF RollOver, CacheInv, RowsAreAfterTheLastWrite,
     DirectoryLeavesWithItsViewer, FeedShowsItsView

-----------------------------------------------------------------------------
(* The specification.                                                      *)

\* The page load.
LEMMA CacheStart == CacheInit => CacheInv
<1> SUFFICES ASSUME CacheInit PROVE CacheInv
  OBVIOUS
<1>1. Marks(marks) /\ marks = FreshMarks
  BY DEF CacheInit, FreshMarks, Marks
<1>2. Heard(heard, server)
  BY DEF CacheInit, Heard
<1> DEFINE one == Load("config", FreshMarks, {})
           two == Load("factions", FreshMarks, one)
           a == Asking("me", Anon, "first", FALSE, FreshMarks, two)
<1>3. air = two \cup {a}
  BY DEF CacheInit, Booting
<1>4. Fresh(a, marks) /\ ~a.filed /\ a.does # "page"
  BY <1>1 DEF Fresh, Asking, Fields, Reads, Nothing
<1>5. "config" \in Resources /\ "factions" \in Resources
  BY DEF Resources
<1>6. Sound({}, marks, server, heard) /\ Awaits({}, feed.view)
  BY DEF Sound, OnePerKey, Awaits
<1> HIDE DEF a
<1>7. Sound(one, marks, server, heard) /\ Awaits(one, feed.view)
  BY <1>1, <1>2, <1>5, <1>6, LoadKeeps
<1> HIDE DEF one
<1>8. Sound(two, marks, server, heard) /\ Awaits(two, feed.view)
  BY <1>1, <1>2, <1>5, <1>7, LoadKeeps
<1> HIDE DEF two
<1>9. Good(a, marks, server, heard)
  BY <1>1, <1>2, <1>4, FreshIsGood
<1>10. Sound(air, marks, server, heard) /\ Awaits(air, feed.view)
  BY <1>3, <1>4, <1>8, <1>9, OneMoreKeeps DEF Awaits
<1> QED
  BY <1>1, <1>2, <1>10 DEF CacheInit, CacheInv, RowsAreAfterTheLastWrite,
     DirectoryLeavesWithItsViewer, FeedShowsItsView, Resources

\* Every step keeps the invariant.
LEMMA CacheStep == CacheInv /\ [CacheNext]_cacheVars => CacheInv'
<1> SUFFICES ASSUME CacheInv, [CacheNext]_cacheVars PROVE CacheInv'
  OBVIOUS
<1>1. CASE \E view \in Views : Show(view)
  BY <1>1, ShowKeeps
<1>2. CASE \E v \in Viewers : Expire(v)
  BY <1>2, ExpireKeeps
<1>3. CASE Probe
  <2>1. Asks("me", Anon)
    BY <1>3 DEF Probe
  <2> QED
    BY <2>1, AsksKeep
<1>4. CASE Write
  <2>1. Asks("write", Anon)
    BY <1>4 DEF Write
  <2> QED
    BY <2>1, AsksKeep
<1>5. CASE Move("logout", Anon)
  <2>1. Asks("logout", Anon)
    BY <1>5 DEF Move
  <2> QED
    BY <2>1, AsksKeep
<1>6. CASE \E who \in Lives : Move("switch", who)
  <2>1. PICK who \in Lives : Asks("switch", who)
    BY <1>6 DEF Move
  <2> QED
    BY <2>1, AsksKeep
<1>7. CASE RollOver
  BY <1>7, RollOverKeeps
<1>8. CASE \E r \in air : Fail(r)
  BY <1>8, FailKeeps
<1>9. CASE Serving
  BY <1>9, ServeKeeps DEF Serving
<1>10. CASE Hearing
  <2>1. PICK r \in air : Answered(r) \/ HearFailure(r)
    BY <1>10 DEF Hearing
  <2>2. CASE Answered(r)
    <3>1. r.is = "served" /\ server' = server
      BY <2>2 DEF Answered
    <3>2. HearResource(r) \/ HearPage(r) \/ HearMe(r) \/ HearWrite(r) \/ HearSignOut(r)
      BY <2>2 DEF Answered
    <3> QED
      BY <3>1, <3>2, HearResourceKeeps, HearPageKeeps, HearMeKeeps, HearWriteKeeps,
         HearSignOutKeeps
  <2> QED
    BY <2>1, <2>2, HearFailureKeeps
<1>11. CASE UNCHANGED cacheVars
  BY <1>11 DEF cacheVars, CacheInv, RowsAreAfterTheLastWrite, DirectoryLeavesWithItsViewer,
     FeedShowsItsView
<1> QED
  BY <1>1, <1>2, <1>3, <1>4, <1>5, <1>6, <1>7, <1>8, <1>9, <1>10, <1>11 DEF CacheNext

\* The invariant holds of every state of the tab.
THEOREM CacheInvariance == CacheSpec => []CacheInv
BY CacheStart, CacheStep, PTL DEF CacheSpec

\* No page the cache would hand out is from before a write the tab has heard of,
\* whatever was in the air as the write landed (createKeyedResourceCache).
THEOREM RowsFollowTheWrites == CacheSpec => []RowsAreAfterTheLastWrite
<1>1. CacheInv => RowsAreAfterTheLastWrite
  BY DEF CacheInv
<1> QED
  BY <1>1, CacheInvariance, PTL

\* A load joins only a promise whose answer will be kept, and there is one per
\* key (createResourceCache's inFlight and releaseIfCurrent).
THEOREM JoinsAreKept == CacheSpec => []JoinedAnswersAreKept
<1>1. CacheInv => JoinedAnswersAreKept
  BY DEF CacheInv, Sound, OnePerKey, Good, CurrentTo, IsCurrent, JoinedAnswersAreKept
<1> QED
  BY <1>1, CacheInvariance, PTL

\* A feed at rest shows the rows of its own view (useResource's cleanup).
THEOREM FeedIsOfItsView == CacheSpec => []FeedShowsItsView
<1>1. CacheInv => FeedShowsItsView
  BY DEF CacheInv
<1> QED
  BY <1>1, CacheInvariance, PTL

\* No directory served to a viewer is held once the viewer has signed out
\* (runSignOut's dropAllCaches and the version an answer was asked for under).
THEOREM DirectoryGoesWithTheViewer == CacheSpec => []DirectoryLeavesWithItsViewer
<1>1. CacheInv => DirectoryLeavesWithItsViewer
  BY DEF CacheInv
<1> QED
  BY <1>1, CacheInvariance, PTL
-----------------------------------------------------------------------------
(* The types: every request keeps its kind and its number.                 *)

\* The number given to a request is no other's of its kind: n requests cannot
\* hold all of 1..n+1.
LEMMA FreeIdIsFree ==
    ASSUME NEW does, NEW requests, IsFiniteSet(requests)
    PROVE  /\ FreeId(does, requests) \in Nat
           /\ \A q \in requests : q.does = does => q.id # FreeId(does, requests)
<1> DEFINE same == {q \in requests : q.does = does}
           n == Cardinality(same)
           ids == {q.id : q \in same}
           free == {i \in 1..(n + 1) : \A q \in same : q.id # i}
<1>1. IsFiniteSet(same) /\ n \in Nat
  BY FS_Subset, FS_CardinalityType
<1>2. IsFiniteSet(ids) /\ Cardinality(ids) <= n
  <2> DEFINE f == [q \in same |-> q.id]
  <2>1. f \in Surjection(same, ids)
    BY DEF Surjection
  <2> QED
    BY <1>1, <2>1, FS_Surjection
<1>3. Cardinality(1..(n + 1)) = n + 1 /\ IsFiniteSet(1..(n + 1))
  BY <1>1, FS_Interval
<1>4. free # {}
  <2>1. SUFFICES ASSUME free = {} PROVE FALSE
    OBVIOUS
  <2>2. 1..(n + 1) \subseteq ids
    BY <2>1
  <2>3. Cardinality(1..(n + 1)) <= Cardinality(ids)
    BY <1>2, <2>2, FS_Subset
  <2>4. Cardinality(ids) \in Nat
    BY <1>2, FS_CardinalityType
  <2> QED
    BY <1>1, <1>2, <1>3, <2>3, <2>4
<1>5. free \subseteq Nat
  BY <1>1
<1>6. \E i \in free : \A j \in free : i <= j
  BY <1>4, <1>5, LeastNat
<1>7. FreeId(does, requests) = CHOOSE i \in free : \A j \in free : i <= j
  BY DEF FreeId
<1>8. FreeId(does, requests) \in free
  BY <1>6, <1>7
<1> QED
  BY <1>5, <1>8

\* Requests that are told apart by kind and number; a move is to a viewer.
Proper(requests) ==
    /\ IsFiniteSet(requests)
    /\ \A r \in requests : /\ r \in Request
                           /\ r.does \in {"logout", "switch"} => r.key \in Viewers
    /\ \A q, r \in requests : q.does = r.does /\ q.id = r.id => q = r

\* What x says is what q said.
Echoes(x, q) ==
    x.does = q.does /\ x.is = q.is /\ x.saw = q.saw /\ x.generation = q.generation

\* The requests become these: what writes stays, what reads says what it said,
\* and what is new says nothing yet.
Become(requests, these) ==
    /\ Proper(these)
    /\ \A q \in requests : q.does \in Writes => q \in these
    /\ \A q \in these : q.does \in Writes => q \in requests
    /\ \A x \in these : x.is = "asked" \/ \E q \in requests : Echoes(x, q)

LEMMA BecomeInTurn ==
    ASSUME NEW one, NEW two, NEW three, Become(one, two), Become(two, three)
    PROVE  Become(one, three)
<1>1. ASSUME NEW x \in three, x.is # "asked"
      PROVE  \E q \in one : Echoes(x, q)
  <2>1. PICK y \in two : Echoes(x, y)
    BY <1>1 DEF Become
  <2>2. PICK q \in one : Echoes(y, q)
    BY <1>1, <2>1 DEF Become, Echoes
  <2> QED
    BY <2>1, <2>2 DEF Echoes
<1> QED
  BY <1>1 DEF Become

LEMMA BecomeThemselves == ASSUME NEW requests, Proper(requests) PROVE Become(requests, requests)
BY DEF Become, Echoes

\* A request rewritten in place of q.
Twin(x, q) ==
    /\ x \in Request /\ Echoes(x, q)
    /\ x.id = q.id /\ x.key = q.key
    /\ q.does \in Writes => x = q

LEMMA RewritingBecomes ==
    ASSUME NEW requests, Proper(requests), NEW f, DOMAIN f = requests,
           NEW these, these = {f[q] : q \in requests}, \A q \in requests : Twin(f[q], q)
    PROVE  Become(requests, these)
<1>1. IsFiniteSet(these)
  <2> DEFINE g == [q \in requests |-> f[q]]
  <2>1. g \in Surjection(requests, these)
    BY DEF Surjection
  <2> QED
    BY <2>1, FS_Surjection DEF Proper
<1>2. \A x \in these : \E q \in requests : x = f[q]
  OBVIOUS
<1>3. ASSUME NEW x \in these, NEW y \in these, x.does = y.does, x.id = y.id
      PROVE  x = y
  <2>1. PICK q \in requests : x = f[q]
    BY <1>2
  <2>2. PICK r \in requests : y = f[r]
    BY <1>2
  <2>3. q = r
    BY <1>3, <2>1, <2>2 DEF Twin, Echoes, Proper
  <2> QED
    BY <2>1, <2>2, <2>3
<1>4. \A x \in these : x \in Request /\ (x.does \in {"logout", "switch"} => x.key \in Viewers)
  BY <1>2 DEF Twin, Echoes, Proper
<1>5. \A q \in requests : q.does \in Writes => q \in these
  BY DEF Twin
<1>6. \A x \in these : x.does \in Writes => x \in requests
  BY <1>2 DEF Twin, Echoes
<1>7. \A x \in these : \E q \in requests : Echoes(x, q)
  BY <1>2 DEF Twin
<1> QED
  BY <1>1, <1>3, <1>4, <1>5, <1>6, <1>7 DEF Become, Proper

LEMMA CancelledBecomes ==
    ASSUME NEW requests, Proper(requests) PROVE Become(requests, Cancelled(requests))
<1> DEFINE f == [q \in requests |-> IF q.does = "page" THEN [q EXCEPT !.awaited = FALSE] ELSE q]
<1>1. Cancelled(requests) = {f[q] : q \in requests}
  BY DEF Cancelled
<1>2. ASSUME NEW q \in requests
      PROVE  Twin(f[q], q)
  <2>1. q \in Request
    BY DEF Proper
  <2>2. q.does = "page" => q.does \notin Writes
    BY DEF Writes
  <2>3. Twin([q EXCEPT !.awaited = FALSE], q) \/ q.does # "page"
    BY <2>1, <2>2 DEF Request, Twin, Echoes
  <2>4. Twin(q, q)
    BY <2>1 DEF Twin, Echoes
  <2> QED
    BY <2>3, <2>4
<1> HIDE DEF f
<1> QED
  BY <1>1, <1>2, RewritingBecomes DEF f

LEMMA JoinedBecomes ==
    ASSUME NEW requests, Proper(requests), NEW who PROVE Become(requests, Joined(who, requests))
<1> DEFINE joins(q) == q.does = "page" /\ q.filed /\ q.key = who
           f == [q \in requests |-> IF joins(q) THEN [q EXCEPT !.awaited = TRUE] ELSE q]
<1>1. Joined(who, requests) = {f[q] : q \in requests}
  BY DEF Joined
<1>2. ASSUME NEW q \in requests
      PROVE  Twin(f[q], q)
  <2>1. q \in Request
    BY DEF Proper
  <2>2. q.does = "page" => q.does \notin Writes
    BY DEF Writes
  <2>3. Twin([q EXCEPT !.awaited = TRUE], q) \/ q.does # "page"
    BY <2>1, <2>2 DEF Request, Twin, Echoes
  <2>4. Twin(q, q)
    BY <2>1 DEF Twin, Echoes
  <2> QED
    BY <2>3, <2>4
<1> HIDE DEF f
<1> QED
  BY <1>1, <1>2, RewritingBecomes DEF f

LEMMA UnfiledBecomes ==
    ASSUME NEW requests, Proper(requests), NEW kinds, kinds \subseteq Reads
    PROVE  Become(requests, Unfiled(kinds, requests))
<1> DEFINE f == [q \in requests |-> IF q.does \in kinds THEN [q EXCEPT !.filed = FALSE] ELSE q]
<1>1. Unfiled(kinds, requests) = {f[q] : q \in requests}
  BY DEF Unfiled
<1>2. ASSUME NEW q \in requests
      PROVE  Twin(f[q], q)
  <2>1. q \in Request
    BY DEF Proper
  <2>2. q.does \in kinds => q.does \notin Writes
    BY DEF Reads, Resources, Writes
  <2>3. Twin([q EXCEPT !.filed = FALSE], q) \/ q.does \notin kinds
    BY <2>1, <2>2 DEF Request, Twin, Echoes
  <2>4. Twin(q, q)
    BY <2>1 DEF Twin, Echoes
  <2> QED
    BY <2>3, <2>4
<1> HIDE DEF f
<1> QED
  BY <1>1, <1>2, RewritingBecomes DEF f

\* The epoch's marks.
AllMarks == [version : Nat, generation : Nat, lastSeen : 0..MaxEra]

\* What may be asked for.
Askable(does, key, view, isFiled) ==
    /\ does \in Reads \cup Writes
    /\ key \in Viewers \cup {Uncached}
    /\ does \in {"logout", "switch"} => key \in Viewers
    /\ view \in Views
    /\ isFiled \in BOOLEAN

\* A request asked for is one more of its kind.
LEMMA AskingAdds ==
    ASSUME NEW requests, Proper(requests), NEW m \in AllMarks,
           NEW does, NEW key, NEW view, NEW isFiled, Askable(does, key, view, isFiled),
           NEW a, a = Asking(does, key, view, isFiled, m, requests)
    PROVE  /\ Proper(requests \cup {a}) /\ a.does = does /\ a.is = "asked"
           /\ does \notin Writes => Become(requests, requests \cup {a})
<1>1. /\ FreeId(does, requests) \in Nat
      /\ \A q \in requests : q.does = does => q.id # FreeId(does, requests)
  BY FreeIdIsFree DEF Proper
<1>2. Nothing \in Answer
  BY CacheBoundsAssumption DEF Nothing, Answer, Viewers
<1>3. /\ a \in Request /\ a.does = does /\ a.key = key /\ a.is = "asked"
      /\ a.id = FreeId(does, requests)
  BY <1>1, <1>2 DEF Asking, Request, AllMarks, Askable
<1>4. IsFiniteSet(requests \cup {a})
  BY FS_AddElement DEF Proper
<1>5. Proper(requests \cup {a})
  BY <1>1, <1>3, <1>4 DEF Proper, Askable
<1> QED
  BY <1>3, <1>5 DEF Become, Echoes

LEMMA LoadBecomes ==
    ASSUME NEW requests, Proper(requests), NEW m \in AllMarks, NEW r \in Resources
    PROVE  Become(requests, Load(r, m, requests))
<1>1. PICK a : a = Asking(r, Anon, "first", TRUE, m, requests)
  OBVIOUS
<1>2. r \notin Writes /\ Askable(r, Anon, "first", TRUE)
  BY DEF Resources, Reads, Writes, Viewers, Views, Askable
<1>3. Become(requests, requests \cup {a})
  BY <1>1, <1>2, AskingAdds
<1> QED
  BY <1>1, <1>3, BecomeThemselves DEF Load

LEMMA LoadPageBecomes ==
    ASSUME NEW requests, Proper(requests), NEW m \in AllMarks, NEW view \in Views,
           NEW who \in Viewers \cup {Loading}
    PROVE  Become(requests, LoadPage(view, who, m, requests))
<1>1. /\ "page" \notin Writes /\ Askable("page", Uncached, view, FALSE)
      /\ who # Loading => Askable("page", who, view, TRUE)
  BY DEF Reads, Writes, Askable
<1>2. PICK a : a = Asking("page", Uncached, view, FALSE, m, requests)
  OBVIOUS
<1>3. PICK b : b = Asking("page", who, view, TRUE, m, requests)
  OBVIOUS
<1>4. Become(requests, requests \cup {a})
  BY <1>1, <1>2, AskingAdds
<1>5. who # Loading => Become(requests, requests \cup {b})
  BY <1>1, <1>3, AskingAdds
<1>6. Become(requests, Joined(who, requests))
  BY JoinedBecomes
<1> QED
  BY <1>2, <1>3, <1>4, <1>5, <1>6 DEF LoadPage

LEMMA RereadBecomes ==
    ASSUME NEW requests, Proper(requests), NEW m \in AllMarks,
           NEW who \in Viewers \cup {Loading}, feed.view \in Views \cup {"none"}
    PROVE  Become(requests, Reread(who, m, requests))
<1>1. PICK bare : bare = Unfiled(Reads, requests)
  OBVIOUS
<1>2. PICK empty : empty = Cancelled(bare)
  OBVIOUS
<1>3. PICK one : one = Load("factions", m, empty)
  OBVIOUS
<1>4. PICK both : both = Load("config", m, one)
  OBVIOUS
<1>5. Become(requests, bare)
  BY <1>1, UnfiledBecomes
<1>6. Become(requests, empty)
  BY <1>2, <1>5, CancelledBecomes, BecomeInTurn DEF Become
<1>7. Become(requests, one)
  <2>1. Become(empty, one)
    BY <1>3, <1>6, LoadBecomes DEF Become, Resources
  <2> QED
    BY <1>6, <2>1, BecomeInTurn
<1>8. Become(requests, both)
  <2>1. Become(one, both)
    BY <1>4, <1>7, LoadBecomes DEF Become, Resources
  <2> QED
    BY <1>7, <2>1, BecomeInTurn
<1>9. PICK all : all = LoadPage(feed.view, who, m, both)
  OBVIOUS
<1>10. ASSUME feed.view # "none"
       PROVE  Become(requests, all)
  <2>1. feed.view \in Views /\ Proper(both)
    BY <1>8, <1>10 DEF Become
  <2>2. Become(both, all)
    BY <1>9, <2>1, LoadPageBecomes
  <2> QED
    BY <1>8, <2>2, BecomeInTurn
<1>11. Reread(who, m, requests) = IF feed.view = "none" THEN both ELSE all
  BY <1>1, <1>2, <1>3, <1>4, <1>9 DEF Reread
<1> QED
  BY <1>8, <1>10, <1>11

\* The writes that are asked for and not yet served.
Owed(requests) == {q \in requests : q.does = "write" /\ q.is = "asked"}

Sorts ==
    /\ server \in [era : 1..MaxEra, rev : 0..MaxWrites, session : Viewers]
    /\ user \in Viewers \cup {Loading}
    /\ marks \in AllMarks
    /\ held \in [Resources -> Answer] /\ shown \in [Resources -> Answer]
    /\ pages \in [Viewers -> Answer]
    /\ feed \in [view : Views \cup {"none"}, is : {"loading", "settled", "failed"},
                 of : Views \cup {"none"}]
    /\ heard \in [rev : 0..MaxWrites, out : BOOLEAN]
    /\ spent \in [writes : Nat, moves : Nat, probes : Nat, views : Nat, failures : Nat]

\* The rows are written once for each write that was asked for and served.
WritesAreCounted ==
    /\ server.rev + Cardinality(Owed(air)) <= spent.writes
    /\ spent.writes <= MaxWrites

TypeInv == Sorts /\ Proper(air) /\ WritesAreCounted

LEMMA NothingIsAnAnswer == Nothing \in Answer
BY CacheBoundsAssumption DEF Nothing, Answer, Viewers

LEMMA OwedIsFinite ==
    ASSUME NEW requests, Proper(requests)
    PROVE  IsFiniteSet(Owed(requests)) /\ Cardinality(Owed(requests)) \in Nat
<1>1. IsFiniteSet(Owed(requests))
  BY FS_Subset DEF Proper, Owed
<1> QED
  BY <1>1, FS_CardinalityType

\* Of the requests in the air some go, and the rest become these.
LEMMA NoWriteIsAdded ==
    ASSUME TypeInv, NEW requests, requests \subseteq air, Become(requests, air'),
           server'.rev = server.rev, spent'.writes = spent.writes, Sorts'
    PROVE  TypeInv'
<1>1. Owed(air') \subseteq Owed(air)
  BY DEF Become, Owed, Writes
<1>2. Cardinality(Owed(air')) <= Cardinality(Owed(air))
  BY <1>1, OwedIsFinite, FS_Subset DEF TypeInv
<1>3. Cardinality(Owed(air)) \in Nat /\ Cardinality(Owed(air')) \in Nat
  BY OwedIsFinite DEF TypeInv, Become
<1>4. server.rev \in Nat /\ spent.writes \in Nat
  BY DEF TypeInv, Sorts
<1>5. WritesAreCounted'
  BY <1>2, <1>3, <1>4 DEF TypeInv, WritesAreCounted
<1> QED
  BY <1>5 DEF TypeInv, Become

LEMMA FewerAreProper ==
    ASSUME NEW requests, Proper(requests), NEW r
    PROVE  Proper(requests \ {r}) /\ requests \ {r} \subseteq requests
<1>1. IsFiniteSet(requests \ {r})
  BY FS_RemoveElement DEF Proper
<1> QED
  BY <1>1 DEF Proper

\* A request rewritten by the server or the network.
LEMMA ReplacedIsProper ==
    ASSUME NEW requests, Proper(requests), NEW r \in requests, NEW a \in Request,
           a.does = r.does, a.id = r.id, a.key = r.key, a.is # "asked"
    PROVE  /\ Proper((requests \ {r}) \cup {a})
           /\ Owed((requests \ {r}) \cup {a}) = Owed(requests) \ {r}
<1>1. IsFiniteSet((requests \ {r}) \cup {a})
  BY FS_RemoveElement, FS_AddElement DEF Proper
<1>2. \A q \in requests \ {r} : ~(q.does = r.does /\ q.id = r.id)
  BY DEF Proper
<1>3. Proper((requests \ {r}) \cup {a})
  BY <1>1, <1>2 DEF Proper
<1> QED
  BY <1>3 DEF Owed

\* The run before is cancelled, and another may be asked for.
LEMMA ShowBecomes ==
    ASSUME TypeInv, NEW view \in Views, Show(view) PROVE Become(air, air')
<1>1. Proper(air) /\ marks \in AllMarks /\ user \in Viewers \cup {Loading}
  BY DEF TypeInv, Sorts
<1>2. PICK none : none = Cancelled(air)
  OBVIOUS
<1>3. Become(air, none) /\ Proper(none)
  BY <1>1, <1>2, CancelledBecomes DEF Become
<1>4. PICK asked : asked = LoadPage(view, user, marks, none)
  OBVIOUS
<1>5. Become(none, asked)
  BY <1>1, <1>3, <1>4, LoadPageBecomes
<1>6. Become(air, asked)
  BY <1>3, <1>5, BecomeInTurn
<1>7. air' = none \/ air' = asked
  BY <1>2, <1>4 DEF Show
<1> QED
  BY <1>3, <1>6, <1>7

LEMMA ShowSorts == ASSUME TypeInv, NEW view \in Views, Show(view) PROVE TypeInv'
<1>1. Proper(air) /\ Sorts
  BY DEF TypeInv
<1>2. Sorts'
  <2>1. feed' \in [view : Views \cup {"none"}, is : {"loading", "settled", "failed"},
                   of : Views \cup {"none"}]
    <3>1. feed' = [view |-> view, is |-> "settled", of |-> view]
            \/ feed' = [feed EXCEPT !.view = view, !.is = "loading"]
      BY DEF Show
    <3>2. PICK n : n = [feed EXCEPT !.view = view]
      OBVIOUS
    <3>3. n \in [view : Views \cup {"none"}, is : {"loading", "settled", "failed"},
                 of : Views \cup {"none"}]
      BY <1>1, <3>2 DEF Sorts
    <3>4. feed' = [view |-> view, is |-> "settled", of |-> view]
            \/ feed' = [n EXCEPT !.is = "loading"]
      BY <3>1, <3>2
    <3> QED
      BY <3>3, <3>4
  <2>2. spent' \in [writes : Nat, moves : Nat, probes : Nat, views : Nat, failures : Nat]
    BY <1>1 DEF Show, Sorts
  <2> QED
    BY <1>1, <2>1, <2>2 DEF Show, Sorts
<1>3. server' = server /\ spent'.writes = spent.writes
  BY <1>1 DEF Show, Sorts
<1>4. Become(air, air')
  BY ShowBecomes
<1> QED
  BY <1>2, <1>3, <1>4, NoWriteIsAdded

\* What the viewer asks for.
LEMMA AsksOne ==
    ASSUME Proper(air), marks \in AllMarks, NEW does, NEW key,
           Askable(does, key, "first", FALSE), Asks(does, key)
    PROVE  \E a : air' = air \cup {a} /\ Proper(air') /\ a.does = does /\ a.is = "asked"
<1>1. PICK view, isFiled : view = "first" /\ isFiled = FALSE
  OBVIOUS
<1>2. PICK a : a = Asking(does, key, view, isFiled, marks, air)
  OBVIOUS
<1>3. Askable(does, key, view, isFiled)
  BY <1>1
<1>4. Proper(air \cup {a}) /\ a.does = does /\ a.is = "asked"
  BY <1>2, <1>3, AskingAdds
<1>5. air' = air \cup {a}
  BY <1>1, <1>2 DEF Asks
<1> QED
  BY <1>4, <1>5

\* A probe, a sign-out or a switch is asked for.
LEMMA AsksSorts ==
    ASSUME TypeInv, NEW does \in {"me", "logout", "switch"}, NEW key \in Viewers, Asks(does, key),
           spent' \in [writes : Nat, moves : Nat, probes : Nat, views : Nat, failures : Nat],
           spent'.writes = spent.writes
    PROVE  TypeInv'
<1>1. Proper(air) /\ Sorts /\ marks \in AllMarks
  BY DEF TypeInv, Sorts
<1>2. Askable(does, key, "first", FALSE)
  BY DEF Reads, Writes, Views, Askable
<1>3. PICK a : air' = air \cup {a} /\ Proper(air') /\ a.does = does /\ a.is = "asked"
  BY <1>1, <1>2, AsksOne
<1>4. Owed(air') = Owed(air)
  BY <1>3 DEF Owed
<1>5. Sorts'
  BY <1>1 DEF Asks, Sorts
<1> QED
  BY <1>3, <1>4, <1>5 DEF TypeInv, WritesAreCounted, Asks

\* A write is asked for, and counted.
LEMMA WriteSorts == ASSUME TypeInv, Write PROVE TypeInv'
<1>1. Proper(air) /\ Sorts /\ marks \in AllMarks
  BY DEF TypeInv, Sorts
<1>2. Askable("write", Anon, "first", FALSE) /\ Asks("write", Anon)
  BY DEF Writes, Viewers, Views, Askable, Write
<1>3. PICK a : air' = air \cup {a} /\ Proper(air')
  BY <1>1, <1>2, AsksOne
<1>4. Owed(air') \subseteq Owed(air) \cup {a}
  BY <1>3 DEF Owed
<1>5. /\ IsFiniteSet(Owed(air) \cup {a})
      /\ Cardinality(Owed(air) \cup {a}) <= Cardinality(Owed(air)) + 1
      /\ Cardinality(Owed(air) \cup {a}) \in Nat
  <2>1. IsFiniteSet(Owed(air)) /\ Cardinality(Owed(air)) \in Nat
    BY <1>1, OwedIsFinite
  <2>2. /\ IsFiniteSet(Owed(air) \cup {a})
        /\ Cardinality(Owed(air) \cup {a}) =
             IF a \in Owed(air) THEN Cardinality(Owed(air)) ELSE Cardinality(Owed(air)) + 1
    BY <2>1, FS_AddElement
  <2> QED
    BY <2>1, <2>2
<1>6. Cardinality(Owed(air')) <= Cardinality(Owed(air) \cup {a})
  BY <1>4, <1>5, FS_Subset
<1>7. /\ Cardinality(Owed(air)) \in Nat /\ Cardinality(Owed(air')) \in Nat
      /\ server.rev \in Nat /\ spent.writes \in Nat /\ MaxWrites \in Nat
  BY <1>1, <1>3, OwedIsFinite, CacheBoundsAssumption DEF Sorts
<1>8. server' = server /\ spent.writes < MaxWrites /\ spent' = [spent EXCEPT !.writes = @ + 1]
  BY DEF Write, Asks
<1>9. spent'.writes = spent.writes + 1
  BY <1>1, <1>8 DEF Sorts
<1>10. WritesAreCounted'
  BY <1>5, <1>6, <1>7, <1>8, <1>9 DEF TypeInv, WritesAreCounted
<1>11. Sorts'
  BY <1>1, <1>8 DEF Write, Asks, Sorts
<1> QED
  BY <1>3, <1>10, <1>11 DEF TypeInv

\* A request is lost.
LEMMA FailSorts == ASSUME TypeInv, NEW r \in air, Fail(r) PROVE TypeInv'
<1>1. Proper(air) /\ Sorts /\ r \in Request
  BY DEF TypeInv, Proper
<1>2. PICK a : a = Lost(r)
  OBVIOUS
<1>3. a \in Request /\ a.does = r.does /\ a.id = r.id /\ a.key = r.key /\ a.is = "failed"
  BY <1>1, <1>2, NothingIsAnAnswer DEF Lost, Request
<1>4. air' = (air \ {r}) \cup {a}
  BY <1>2 DEF Fail, Lost
<1>5. Proper(air') /\ Owed(air') = Owed(air) \ {r}
  BY <1>1, <1>3, <1>4, ReplacedIsProper
<1>6. Cardinality(Owed(air')) <= Cardinality(Owed(air))
  BY <1>1, <1>5, OwedIsFinite, FS_Subset
<1>7. /\ Cardinality(Owed(air)) \in Nat /\ Cardinality(Owed(air')) \in Nat
      /\ server.rev \in Nat /\ spent.writes \in Nat
  BY <1>1, <1>5, OwedIsFinite DEF Sorts
<1>8. server' = server /\ spent'.writes = spent.writes
  BY <1>1 DEF Fail, Sorts
<1>9. WritesAreCounted'
  BY <1>6, <1>7, <1>8 DEF TypeInv, WritesAreCounted
<1>10. Sorts'
  BY <1>1 DEF Fail, Sorts
<1> QED
  BY <1>5, <1>9, <1>10 DEF TypeInv

\* A request is served: a write that is owed is one less to come.
LEMMA ServeSorts == ASSUME TypeInv, NEW r \in air, Serve(r) PROVE TypeInv'
<1> DEFINE refused == server.session = Anon /\ r.does \in {"write", "switch"}
<1>1. /\ Proper(air) /\ Sorts /\ r \in Request
      /\ r.does \in {"logout", "switch"} => r.key \in Viewers
  BY DEF TypeInv, Proper
<1>2. PICK now : now = IF refused THEN server ELSE After(r)
  OBVIOUS
<1>3. PICK a : a = IF refused THEN [r EXCEPT !.is = "failed"]
                   ELSE [r EXCEPT !.is = "served", !.saw = Said(r, now)]
  OBVIOUS
<1>4. server' = now /\ air' = (air \ {r}) \cup {a} /\ r.is = "asked" /\ spent' = spent
  BY <1>2, <1>3 DEF Serve
<1>5. /\ IsFiniteSet(Owed(air)) /\ Cardinality(Owed(air)) \in Nat
      /\ server.rev \in 0..MaxWrites /\ spent.writes \in Nat /\ MaxWrites \in Nat
  BY <1>1, OwedIsFinite, CacheBoundsAssumption DEF Sorts
<1>6. r.does = "write" => r \in Owed(air)
  BY <1>4 DEF Owed
<1>7. /\ r \in Owed(air) => Cardinality(Owed(air) \ {r}) = Cardinality(Owed(air)) - 1
      /\ r \notin Owed(air) => Cardinality(Owed(air) \ {r}) = Cardinality(Owed(air))
      /\ Cardinality(Owed(air) \ {r}) \in Nat
  <2>1. IsFiniteSet(Owed(air) \ {r})
    BY <1>5, FS_RemoveElement
  <2> QED
    BY <1>5, <2>1, FS_RemoveElement, FS_CardinalityType
<1>8. /\ now \in [era : 1..MaxEra, rev : 0..MaxWrites, session : Viewers]
      /\ now.rev + Cardinality(Owed(air) \ {r}) <= spent.writes
  <2>1. CASE r.does = "write" /\ ~refused
    <3>1. now = [server EXCEPT !.rev = @ + 1]
      BY <1>2, <2>1 DEF After
    <3>2. server.rev + 1 <= MaxWrites
      BY <1>5, <1>6, <1>7, <2>1 DEF TypeInv, WritesAreCounted
    <3> QED
      BY <1>1, <1>5, <1>6, <1>7, <2>1, <3>1, <3>2 DEF Sorts, TypeInv, WritesAreCounted
  <2>2. CASE ~(r.does = "write" /\ ~refused)
    <3>1. /\ now \in [era : 1..MaxEra, rev : 0..MaxWrites, session : Viewers]
          /\ now.rev = server.rev
      BY <1>1, <1>2, <2>2 DEF After, Sorts
    <3> QED
      BY <1>5, <1>7, <3>1 DEF TypeInv, WritesAreCounted
  <2> QED
    BY <2>1, <2>2
<1>9. Said(r, now) \in Answer
  BY <1>8, CacheBoundsAssumption DEF Said, Answer, Viewers
<1>10. /\ a \in Request /\ a.does = r.does /\ a.id = r.id /\ a.key = r.key
       /\ a.is # "asked"
  <2> HIDE DEF refused
  <2> QED
    BY <1>1, <1>3, <1>9 DEF Request
<1>11. Proper(air') /\ Owed(air') = Owed(air) \ {r}
  BY <1>1, <1>4, <1>10, ReplacedIsProper
<1>12. WritesAreCounted'
  BY <1>4, <1>8, <1>11 DEF TypeInv, WritesAreCounted
<1>13. Sorts'
  BY <1>1, <1>4, <1>8 DEF Serve, Sorts
<1> QED
  BY <1>11, <1>12, <1>13 DEF TypeInv

\* The marks stay marks.
LEMMA MarksAreTyped ==
    ASSUME NEW m \in AllMarks
    PROVE  /\ Aged(m) \in AllMarks /\ Turned(m) \in AllMarks
           /\ m = marks => \A era \in 0..MaxEra : Stamped(era) \in AllMarks
<1>1. /\ m = [version |-> m.version, generation |-> m.generation, lastSeen |-> m.lastSeen]
      /\ m.version \in Nat /\ m.generation \in Nat /\ m.lastSeen \in 0..MaxEra
  BY DEF AllMarks
<1>2. Aged(m) = [version |-> m.version, generation |-> m.generation + 1, lastSeen |-> m.lastSeen]
  BY <1>1 DEF Aged
<1>3. Turned(m) =
         [version |-> m.version + 1, generation |-> m.generation + 1, lastSeen |-> m.lastSeen]
  <2>1. PICK n : n = [m EXCEPT !.version = @ + 1]
    OBVIOUS
  <2>2. /\ n = [version |-> m.version + 1, generation |-> m.generation, lastSeen |-> m.lastSeen]
        /\ n.generation = m.generation
    BY <1>1, <2>1
  <2>3. Turned(m) = [n EXCEPT !.generation = @ + 1]
    BY <2>1 DEF Turned
  <2> QED
    BY <2>2, <2>3
<1>4. \A era : m = marks =>
         Stamped(era) = [version |-> m.version, generation |-> m.generation, lastSeen |-> era]
  BY <1>1 DEF Stamped
<1> QED
  BY <1>1, <1>2, <1>3, <1>4 DEF AllMarks

\* dropAll and the reading anew.
LEMMA DropAllSorts ==
    ASSUME TypeInv, NEW who \in Viewers \cup {Loading}, NEW now \in AllMarks,
           NEW requests, requests \subseteq air, Proper(requests), DropAll(who, now, requests)
    PROVE  /\ Become(requests, air')
           /\ marks' \in AllMarks /\ held' \in [Resources -> Answer]
           /\ pages' \in [Viewers -> Answer]
           /\ feed' \in [view : Views \cup {"none"}, is : {"loading", "settled", "failed"},
                         of : Views \cup {"none"}]
<1>1. Sorts
  BY DEF TypeInv
<1>2. PICK m : m = Turned(now)
  OBVIOUS
<1>3. m \in AllMarks
  BY <1>2, MarksAreTyped
<1>4. air' = Reread(who, m, requests) /\ marks' = m
  BY <1>2 DEF DropAll
<1>5. feed.view \in Views \cup {"none"}
  BY <1>1 DEF Sorts
<1>6. Become(requests, air')
  BY <1>3, <1>4, <1>5, RereadBecomes
<1> QED
  BY <1>1, <1>3, <1>4, <1>6, NothingIsAnAnswer DEF DropAll, Sorts

\* An answer is heard of.
LEMMA AnsweredSorts == ASSUME TypeInv, NEW r \in air, Answered(r) PROVE TypeInv'
<1>1. /\ Proper(air) /\ Sorts /\ r \in Request /\ r.saw \in Answer
      /\ r.does \in {"logout", "switch"} => r.key \in Viewers
  BY DEF TypeInv, Proper, Request
<1>2. server' = server /\ spent' = spent
  BY DEF Answered
<1>3. PICK rest : rest = air \ {r}
  OBVIOUS
<1>4. Proper(rest) /\ rest \subseteq air
  BY <1>1, <1>3, FewerAreProper
<1>5. Become(rest, rest)
  BY <1>4, BecomeThemselves
<1>6. r.saw.era \in 0..MaxEra /\ r.saw.rev \in 0..MaxWrites /\ r.saw.session \in Viewers
  BY <1>1 DEF Answer
<1>7. PICK stamped : stamped = Stamped(r.saw.era)
  OBVIOUS
<1>8. stamped \in AllMarks /\ marks \in AllMarks /\ user \in Viewers \cup {Loading}
  BY <1>1, <1>6, <1>7, MarksAreTyped DEF Sorts
<1>9. PICK aged : aged = Aged(marks)
  OBVIOUS
<1>10. aged \in AllMarks
  BY <1>8, <1>9, <1>6, MarksAreTyped
<1>11. CASE HearResource(r)
  <2>1. CASE r.does = "config" /\ Rolls(r.saw.era)
    <3>1. DropAll(user, stamped, rest) /\ shown' = shown /\ user' = user /\ heard' = heard
      BY <1>3, <1>7, <1>11, <2>1 DEF HearResource
    <3> QED
      BY <1>1, <1>2, <1>4, <1>8, <3>1, DropAllSorts, NoWriteIsAdded DEF Sorts
  <2>2. CASE ~(r.does = "config" /\ Rolls(r.saw.era))
    <3>1. /\ marks' \in AllMarks
          /\ air' = rest /\ pages' = pages /\ feed' = feed /\ user' = user /\ heard' = heard
          /\ held' = held \/ held' = [held EXCEPT ![r.does] = r.saw]
          /\ shown' = shown \/ shown' = [shown EXCEPT ![r.does] = r.saw]
      BY <1>3, <1>7, <1>8, <1>11, <2>2 DEF HearResource
    <3>2. Sorts'
      BY <1>1, <1>2, <3>1 DEF Sorts
    <3> QED
      BY <1>2, <1>4, <1>5, <3>1, <3>2, NoWriteIsAdded
  <2> QED
    BY <2>1, <2>2
<1>12. CASE HearPage(r)
  <2>1. r.key \in Viewers \cup {Uncached} /\ r.view \in Views
    BY <1>1 DEF Request
  <2>2. pages' \in [Viewers -> Answer]
    BY <1>1, <1>12, <2>1 DEF HearPage, Sorts
  <2>3. feed' \in [view : Views \cup {"none"}, is : {"loading", "settled", "failed"},
                   of : Views \cup {"none"}]
    BY <1>1, <1>12, <2>1 DEF HearPage, Sorts
  <2>4. Sorts' /\ air' = rest
    BY <1>1, <1>2, <1>3, <1>12, <2>2, <2>3 DEF HearPage, Sorts
  <2> QED
    BY <1>2, <1>4, <1>5, <2>4, NoWriteIsAdded
<1>13. CASE HearMe(r)
  <2>1. CASE r.saw.session # Anon /\ Rolls(r.saw.era)
    <3>1. /\ DropAll(r.saw.session, stamped, rest) /\ shown' = shown /\ heard' = heard
          /\ user' = r.saw.session
      BY <1>3, <1>7, <1>13, <2>1 DEF HearMe
    <3>2. /\ Become(rest, air')
          /\ marks' \in AllMarks /\ held' \in [Resources -> Answer]
          /\ pages' \in [Viewers -> Answer]
          /\ feed' \in [view : Views \cup {"none"}, is : {"loading", "settled", "failed"},
                        of : Views \cup {"none"}]
      BY <1>4, <1>6, <1>8, <3>1, DropAllSorts
    <3>3. Sorts'
      BY <1>1, <1>2, <1>6, <3>1, <3>2 DEF Sorts
    <3> QED
      BY <1>2, <1>4, <3>2, <3>3, NoWriteIsAdded
  <2>2. CASE ~(r.saw.session # Anon /\ Rolls(r.saw.era))
    <3>1. /\ marks' \in AllMarks
          /\ air' = rest /\ pages' = pages /\ feed' = feed /\ user' = r.saw.session
          /\ heard' = heard /\ held' = held /\ shown' = shown
      BY <1>3, <1>7, <1>8, <1>13, <2>2 DEF HearMe
    <3>2. Sorts'
      BY <1>1, <1>2, <1>6, <3>1 DEF Sorts
    <3> QED
      BY <1>2, <1>4, <1>5, <3>1, <3>2, NoWriteIsAdded
  <2> QED
    BY <2>1, <2>2
<1>14. CASE HearWrite(r)
  <2>1. /\ marks' = aged /\ air' = Unfiled({"page"}, rest)
        /\ pages' = [v \in Viewers |-> Nothing]
        /\ user' = user \/ user' = r.saw.session
        /\ heard' = heard \/ heard' = [heard EXCEPT !.rev = r.saw.rev]
        /\ held' = held /\ shown' = shown /\ feed' = feed
    BY <1>3, <1>9, <1>14 DEF HearWrite
  <2>2. Sorts'
    BY <1>1, <1>2, <1>6, <1>10, <2>1, NothingIsAnAnswer DEF Sorts
  <2>3. {"page"} \subseteq Reads
    BY DEF Reads
  <2>4. Become(rest, air')
    BY <1>4, <2>1, <2>3, UnfiledBecomes
  <2> QED
    BY <1>2, <1>4, <2>2, <2>4, NoWriteIsAdded
<1>15. CASE HearSignOut(r)
  <2>1. /\ DropAll(Anon, aged, rest) /\ shown' = shown /\ user' = Anon
        /\ heard' = [heard EXCEPT !.out = TRUE]
    BY <1>3, <1>9, <1>15 DEF HearSignOut, SignOutDrops
  <2>2. Anon \in Viewers
    BY DEF Viewers
  <2>3. /\ Become(rest, air')
        /\ marks' \in AllMarks /\ held' \in [Resources -> Answer]
        /\ pages' \in [Viewers -> Answer]
        /\ feed' \in [view : Views \cup {"none"}, is : {"loading", "settled", "failed"},
                      of : Views \cup {"none"}]
    BY <1>4, <1>10, <2>1, <2>2, DropAllSorts
  <2>4. Sorts'
    BY <1>1, <1>2, <2>1, <2>2, <2>3 DEF Sorts
  <2> QED
    BY <1>2, <1>4, <2>3, <2>4, NoWriteIsAdded
<1> QED
  BY <1>11, <1>12, <1>13, <1>14, <1>15 DEF Answered

\* A failure is heard of.
LEMMA HearFailureSorts == ASSUME TypeInv, NEW r \in air, HearFailure(r) PROVE TypeInv'
<1>1. Proper(air) /\ Sorts
  BY DEF TypeInv
<1>2. PICK rest : rest = air \ {r}
  OBVIOUS
<1>3. Proper(rest) /\ rest \subseteq air
  BY <1>1, <1>2, FewerAreProper
<1>4. Become(rest, air')
  BY <1>2, <1>3, BecomeThemselves DEF HearFailure
<1>5. Sorts'
  BY <1>1 DEF HearFailure, Sorts, Viewers
<1> QED
  BY <1>3, <1>4, <1>5, NoWriteIsAdded DEF HearFailure

\* Every step keeps the types.
LEMMA TypeStep == TypeInv /\ [CacheNext]_cacheVars => TypeInv'
<1> SUFFICES ASSUME TypeInv, [CacheNext]_cacheVars PROVE TypeInv'
  OBVIOUS
<1>1. Proper(air) /\ Sorts /\ Become(air, air)
  BY BecomeThemselves DEF TypeInv
<1>2. CASE \E view \in Views : Show(view)
  BY <1>2, ShowSorts
<1>3. CASE \E v \in Viewers : Expire(v)
  <2>1. Sorts'
    BY <1>1, <1>3, NothingIsAnAnswer DEF Expire, Sorts
  <2> QED
    BY <1>3, <2>1 DEF Expire, TypeInv, WritesAreCounted
<1>4. CASE Probe
  <2>1. Asks("me", Anon) /\ spent' = [spent EXCEPT !.probes = @ + 1] /\ Anon \in Viewers
    BY <1>4 DEF Probe, Viewers
  <2> QED
    BY <1>1, <2>1, AsksSorts DEF Sorts
<1>5. CASE Write
  BY <1>5, WriteSorts
<1>6. ASSUME NEW does \in {"logout", "switch"}, NEW who \in Viewers, Move(does, who)
      PROVE  TypeInv'
  <2>1. Asks(does, who) /\ spent' = [spent EXCEPT !.moves = @ + 1]
    BY <1>6 DEF Move
  <2> QED
    BY <1>1, <1>6, <2>1, AsksSorts DEF Sorts
<1>7. CASE RollOver
  <2>1. Sorts'
    BY <1>1, <1>7, CacheBoundsAssumption DEF RollOver, Sorts
  <2>2. server'.rev = server.rev
    BY <1>1, <1>7 DEF RollOver, Sorts
  <2> QED
    BY <1>7, <2>1, <2>2 DEF RollOver, TypeInv, WritesAreCounted
<1>8. CASE \E r \in air : Fail(r)
  BY <1>8, FailSorts
<1>9. CASE Serving
  BY <1>9, ServeSorts DEF Serving
<1>10. CASE Hearing
  BY <1>10, AnsweredSorts, HearFailureSorts DEF Hearing
<1>11. CASE UNCHANGED cacheVars
  BY <1>11 DEF cacheVars, TypeInv, Sorts, WritesAreCounted
<1> QED
  BY <1>2, <1>3, <1>4, <1>5, <1>6, <1>7, <1>8, <1>9, <1>10, <1>11 DEF CacheNext, Viewers

\* So does the page load begin.
LEMMA TypeStart == CacheInit => TypeInv
<1> SUFFICES ASSUME CacheInit PROVE TypeInv
  OBVIOUS
<1>1. Sorts
  BY CacheBoundsAssumption, NothingIsAnAnswer
  DEF CacheInit, Sorts, AllMarks, FreshMarks, Viewers
<1>2. FreshMarks \in AllMarks
  BY CacheBoundsAssumption DEF FreshMarks, AllMarks
<1>3. Proper({})
  BY FS_EmptySet DEF Proper
<1>4. PICK one : one = Load("config", FreshMarks, {})
  OBVIOUS
<1>5. PICK two : two = Load("factions", FreshMarks, one)
  OBVIOUS
<1>6. PICK a : a = Asking("me", Anon, "first", FALSE, FreshMarks, two)
  OBVIOUS
<1>7. Become({}, one)
  BY <1>2, <1>3, <1>4, LoadBecomes DEF Resources
<1>8. Become(one, two)
  BY <1>2, <1>5, <1>7, LoadBecomes DEF Become, Resources
<1>9. Askable("me", Anon, "first", FALSE) /\ "me" \notin Writes
  BY DEF Reads, Writes, Viewers, Views, Askable
<1>10. Become(two, two \cup {a})
  <2>1. Proper(two)
    BY <1>8 DEF Become
  <2> QED
    BY <1>2, <1>6, <1>9, <2>1, AskingAdds
<1>11. air = two \cup {a}
  BY <1>4, <1>5, <1>6 DEF CacheInit, Booting
<1>12. Become({}, air)
  BY <1>7, <1>8, <1>10, <1>11, BecomeInTurn
<1>13. Owed(air) = {}
  BY <1>12 DEF Become, Owed, Writes
<1>14. WritesAreCounted
  BY <1>13, FS_EmptySet, CacheBoundsAssumption DEF CacheInit, WritesAreCounted
<1> QED
  BY <1>1, <1>12, <1>14 DEF TypeInv, Become

-----------------------------------------------------------------------------
(* Whose rows a page holds: the session's, unless a move is on its way.    *)

\* A sign-out or a switch has been served and is not yet heard of.
Moved(requests) == \E r \in requests : r.does \in {"logout", "switch"} /\ r.is = "served"

\* The pages that would still be filed were served to the session.
ServedTo(session, requests, generation) ==
    \A r \in requests : r.does = "page" /\ r.is = "served" /\ r.generation = generation
                            => r.saw.session = session

KeptFor(session) == \A v \in Viewers : pages[v] # Nothing => pages[v].session = session

SessionInv ==
    spent.failures = 0 /\ ~Moved(air)
        => KeptFor(server.session) /\ ServedTo(server.session, air, marks.generation)

\* A step that neither moves the session, hears of a move, nor files a page.
LEMMA SessionStays ==
    ASSUME SessionInv, NEW requests, requests \subseteq air, Become(requests, air'),
           \A r \in air \ requests : ~(r.does \in {"logout", "switch"} /\ r.is = "served"),
           server'.session = server.session, marks'.generation = marks.generation,
           spent'.failures = spent.failures,
           \A v \in Viewers : pages'[v] = pages[v] \/ pages'[v] = Nothing
    PROVE  SessionInv'
<1>1. Moved(air) => Moved(air')
  <2>1. ASSUME NEW r \in air, r.does \in {"logout", "switch"}, r.is = "served"
        PROVE  r \in air'
    BY <2>1 DEF Become, Writes
  <2> QED
    BY <2>1 DEF Moved
<1>2. ServedTo(server.session, air, marks.generation)
        => ServedTo(server.session, air', marks.generation)
  BY DEF ServedTo, Become, Echoes
<1>3. KeptFor(server.session) => KeptFor(server.session)'
  BY DEF KeptFor
<1> QED
  BY <1>1, <1>2, <1>3 DEF SessionInv, Moved, ServedTo, KeptFor

\* A drop keeps no page, and files none that was asked for before it.
LEMMA SessionDrops ==
    ASSUME CacheInv, NEW requests, requests \subseteq air, Become(requests, air'),
           marks'.generation = marks.generation + 1,
           \A v \in Viewers : pages'[v] = Nothing
    PROVE  SessionInv'
<1>1. \A q \in air : q.generation \in Nat /\ q.generation <= marks.generation
  BY DEF CacheInv, Sound, Good
<1>2. marks.generation \in Nat
  BY DEF CacheInv, Marks
<1>3. ASSUME NEW x \in air', x.is # "asked"
      PROVE  x.generation # marks'.generation
  <2>1. PICK q \in requests : Echoes(x, q)
    BY <1>3 DEF Become
  <2> QED
    BY <1>1, <1>2, <2>1 DEF Echoes
<1> QED
  BY <1>3 DEF SessionInv, ServedTo, KeptFor

LEMMA AsksSession ==
    ASSUME TypeInv, SessionInv, NEW does, NEW key, Askable(does, key, "first", FALSE),
           Asks(does, key), spent'.failures = spent.failures
    PROVE  SessionInv'
<1>1. Proper(air) /\ marks \in AllMarks
  BY DEF TypeInv, Sorts
<1>2. PICK a : air' = air \cup {a} /\ Proper(air') /\ a.does = does /\ a.is = "asked"
  BY <1>1, AsksOne
<1> QED
  BY <1>2 DEF Asks, SessionInv, Moved, ServedTo, KeptFor

\* A move is served: it is on its way.  A page is served to the session.
LEMMA ServeSession == ASSUME TypeInv, SessionInv, NEW r \in air, Serve(r) PROVE SessionInv'
<1> DEFINE refused == server.session = Anon /\ r.does \in {"write", "switch"}
<1>1. r \in Request /\ Sorts
  BY DEF TypeInv, Proper
<1>2. PICK now : now = IF refused THEN server ELSE After(r)
  OBVIOUS
<1>3. PICK a : a = IF refused THEN [r EXCEPT !.is = "failed"]
                   ELSE [r EXCEPT !.is = "served", !.saw = Said(r, now)]
  OBVIOUS
<1>4. /\ server' = now /\ air' = (air \ {r}) \cup {a} /\ r.is = "asked" /\ spent' = spent
      /\ marks' = marks /\ pages' = pages
  BY <1>2, <1>3 DEF Serve
<1>5. /\ a.does = r.does
      /\ refused => a.is = "failed"
      /\ ~refused => a.is = "served" /\ a.saw = Said(r, now)
  <2> HIDE DEF refused
  <2> QED
    BY <1>1, <1>3 DEF Request
<1>6. CASE r.does \in {"logout", "switch"} /\ ~refused
  <2>1. Moved(air')
    BY <1>4, <1>5, <1>6 DEF Moved
  <2> QED
    BY <2>1 DEF SessionInv
<1>7. CASE ~(r.does \in {"logout", "switch"} /\ ~refused)
  <2>1. now.session = server.session
    BY <1>1, <1>2, <1>7 DEF After, Sorts
  <2>2. r.does = "page" => ~refused
    OBVIOUS
  <2>3. a.does = "page" => a.saw.session = now.session
    BY <1>5, <2>2 DEF Said
  <2>4. Moved(air) => Moved(air')
    BY <1>4 DEF Moved
  <2> HIDE DEF refused
  <2> QED
    BY <1>4, <2>1, <2>3, <2>4 DEF SessionInv, ServedTo, KeptFor
<1> QED
  BY <1>6, <1>7

\* An answer is heard of.
LEMMA AnsweredSession ==
    ASSUME CacheInv, TypeInv, SessionInv, NEW r \in air, Answered(r) PROVE SessionInv'
<1>1. /\ Proper(air) /\ Sorts /\ r \in Request /\ r.saw \in Answer /\ r.is = "served"
      /\ marks \in AllMarks /\ user \in Viewers \cup {Loading}
  BY DEF TypeInv, Proper, Request, Answered, Sorts
<1>2. server' = server /\ spent' = spent
  BY DEF Answered
<1>3. PICK rest : rest = air \ {r}
  OBVIOUS
<1>4. Proper(rest) /\ rest \subseteq air /\ Become(rest, rest)
  BY <1>1, <1>3, FewerAreProper, BecomeThemselves
<1>5. r.saw.era \in 0..MaxEra /\ r.saw.session \in Viewers /\ Anon \in Viewers
  BY <1>1 DEF Answer, Viewers
<1>6. PICK stamped : stamped = Stamped(r.saw.era)
  OBVIOUS
<1>7. PICK aged : aged = Aged(marks)
  OBVIOUS
<1>8. /\ stamped \in AllMarks /\ stamped.generation = marks.generation
      /\ aged \in AllMarks /\ aged.generation = marks.generation + 1
  BY <1>1, <1>5, <1>6, <1>7, MarksAreTyped DEF Stamped, Aged, AllMarks
<1>9. ASSUME NEW who \in Viewers \cup {Loading}, DropAll(who, stamped, rest)
      PROVE  SessionInv'
  <2>1. Become(rest, air')
    BY <1>4, <1>8, <1>9, DropAllSorts
  <2>2. marks'.generation = marks.generation + 1 /\ \A v \in Viewers : pages'[v] = Nothing
    BY <1>8, <1>9 DEF DropAll, Turned, AllMarks
  <2> QED
    BY <1>4, <2>1, <2>2, SessionDrops
<1>10. ASSUME air' = rest, pages' = pages, marks' = marks \/ marks' = stamped,
              r.does \notin {"logout", "switch"}
       PROVE  SessionInv'
  <2>1. /\ Become(rest, air') /\ marks'.generation = marks.generation
        /\ \A q \in air \ rest : ~(q.does \in {"logout", "switch"} /\ q.is = "served")
    BY <1>3, <1>4, <1>8, <1>10
  <2> QED
    BY <1>2, <1>4, <1>10, <2>1, SessionStays
<1>11. CASE HearResource(r)
  <2>1. r.does \notin {"logout", "switch"}
    BY <1>11 DEF HearResource, Resources
  <2>2. \/ DropAll(user, stamped, rest)
        \/ air' = rest /\ pages' = pages /\ (marks' = marks \/ marks' = stamped)
    BY <1>3, <1>6, <1>11 DEF HearResource
  <2> QED
    BY <1>1, <1>9, <1>10, <2>1, <2>2
<1>12. CASE HearMe(r)
  <2>1. r.does \notin {"logout", "switch"}
    BY <1>12 DEF HearMe
  <2>2. \/ DropAll(r.saw.session, stamped, rest)
        \/ air' = rest /\ pages' = pages /\ (marks' = marks \/ marks' = stamped)
    BY <1>3, <1>6, <1>12 DEF HearMe
  <2> QED
    BY <1>5, <1>9, <1>10, <2>1, <2>2
<1>13. CASE HearPage(r)
  <2>1. /\ r.does = "page" /\ air' = air \ {r} /\ marks' = marks
        /\ pages' = IF r.key # Uncached /\ IsCurrent(r)
                    THEN [pages EXCEPT ![r.key] = r.saw] ELSE pages
    BY <1>13 DEF HearPage
  <2>2. SUFFICES ASSUME spent.failures = 0, ~Moved(air')
                 PROVE  KeptFor(server.session)' /\ ServedTo(server.session, air', marks.generation)
    BY <1>2, <2>1 DEF SessionInv, KeptFor, ServedTo
  <2>3. ~Moved(air)
    BY <2>1, <2>2 DEF Moved
  <2>4. KeptFor(server.session) /\ ServedTo(server.session, air, marks.generation)
    BY <2>2, <2>3 DEF SessionInv
  <2>5. IsCurrent(r) => r.saw.session = server.session
    BY <1>1, <2>1, <2>4 DEF IsCurrent, ServedTo
  <2> QED
    BY <1>1, <1>2, <2>1, <2>4, <2>5 DEF KeptFor, ServedTo, Sorts
<1>14. CASE HearWrite(r)
  <2>1. /\ marks' = aged /\ air' = Unfiled({"page"}, rest)
        /\ pages' = [v \in Viewers |-> Nothing]
    BY <1>3, <1>7, <1>14 DEF HearWrite
  <2>2. Become(rest, air')
    BY <1>4, <2>1, UnfiledBecomes DEF Reads
  <2> QED
    BY <1>4, <1>8, <2>1, <2>2, SessionDrops
<1>15. CASE HearSignOut(r)
  <2>1. DropAll(Anon, aged, rest)
    BY <1>3, <1>7, <1>15 DEF HearSignOut, SignOutDrops
  <2>2. Become(rest, air')
    BY <1>4, <1>5, <1>8, <2>1, DropAllSorts
  <2>3. \A v \in Viewers : pages'[v] = Nothing
    BY <2>1 DEF DropAll
  <2>4. marks'.generation = aged.generation + 1
    BY <1>8, <2>1 DEF DropAll, Turned, AllMarks
  <2>5. \A q \in air : q.generation \in Nat /\ q.generation <= marks.generation
    BY DEF CacheInv, Sound, Good
  <2>6. ASSUME NEW x \in air', x.is # "asked"
        PROVE  x.generation # marks'.generation
    <3>1. PICK q \in rest : Echoes(x, q)
      BY <2>2, <2>6 DEF Become
    <3>2. marks.generation \in Nat
      BY <1>1 DEF AllMarks
    <3> QED
      BY <1>4, <1>8, <2>4, <2>5, <3>1, <3>2 DEF Echoes
  <2> QED
    BY <2>3, <2>6 DEF SessionInv, KeptFor, ServedTo
<1> QED
  BY <1>11, <1>12, <1>13, <1>14, <1>15 DEF Answered

\* Every step keeps it.
LEMMA SessionStep ==
    CacheInv /\ TypeInv /\ SessionInv /\ [CacheNext]_cacheVars => SessionInv'
<1> SUFFICES ASSUME CacheInv, TypeInv, SessionInv, [CacheNext]_cacheVars PROVE SessionInv'
  OBVIOUS
<1>1. Proper(air) /\ Sorts /\ Become(air, air)
  BY BecomeThemselves DEF TypeInv
<1>2. ASSUME NEW view \in Views, Show(view)
      PROVE  SessionInv'
  <2>1. Become(air, air')
    BY <1>2, ShowBecomes
  <2> QED
    BY <1>1, <1>2, <2>1, SessionStays DEF Show, Sorts
<1>3. CASE \E v \in Viewers : Expire(v)
  BY <1>1, <1>3, SessionStays DEF Expire, Sorts
<1>4. CASE Probe \/ Write
  <2>1. /\ Asks("me", Anon) \/ Asks("write", Anon)
        /\ spent'.failures = spent.failures
    BY <1>1, <1>4 DEF Probe, Write, Sorts
  <2>2. Askable("me", Anon, "first", FALSE) /\ Askable("write", Anon, "first", FALSE)
    BY DEF Askable, Reads, Writes, Viewers, Views
  <2> QED
    BY <2>1, <2>2, AsksSession
<1>5. ASSUME NEW does \in {"logout", "switch"}, NEW who \in Viewers, Move(does, who)
      PROVE  SessionInv'
  <2>1. Asks(does, who) /\ spent'.failures = spent.failures
    BY <1>1, <1>5 DEF Move, Sorts
  <2>2. Askable(does, who, "first", FALSE)
    BY DEF Askable, Writes, Views
  <2> QED
    BY <2>1, <2>2, AsksSession
<1>6. CASE RollOver
  BY <1>1, <1>6, SessionStays DEF RollOver, Sorts
<1>7. ASSUME NEW r \in air, Fail(r)
      PROVE  SessionInv'
  <2>1. spent'.failures # 0
    BY <1>1, <1>7 DEF Fail, Sorts
  <2> QED
    BY <2>1 DEF SessionInv
<1>8. CASE Serving
  BY <1>8, ServeSession DEF Serving
<1>9. ASSUME NEW r \in air, HearFailure(r)
      PROVE  SessionInv'
  <2>1. PICK rest : rest = air \ {r}
    OBVIOUS
  <2>2. rest \subseteq air /\ Become(rest, rest) /\ air' = rest
    BY <1>1, <1>9, <2>1, FewerAreProper, BecomeThemselves DEF HearFailure
  <2>3. \A q \in air \ rest : ~(q.does \in {"logout", "switch"} /\ q.is = "served")
    BY <1>9, <2>1 DEF HearFailure
  <2> QED
    BY <1>9, <2>2, <2>3, SessionStays DEF HearFailure
<1>10. CASE \E r \in air : Answered(r)
  BY <1>10, AnsweredSession
<1>11. CASE UNCHANGED cacheVars
  BY <1>11 DEF cacheVars, SessionInv, Moved, KeptFor, ServedTo
<1> QED
  BY <1>2, <1>3, <1>4, <1>5, <1>6, <1>7, <1>8, <1>9, <1>10, <1>11
  DEF CacheNext, Hearing, Viewers

-----------------------------------------------------------------------------
\* The tab, every request in the air and its number stay in their types.
THEOREM CacheTypes == CacheSpec => []CacheTypeOK
<1>1. TypeInv => CacheTypeOK
  BY DEF TypeInv, Sorts, Proper, AllMarks, CacheTypeOK
<1> QED
  BY <1>1, TypeStart, TypeStep, PTL DEF CacheSpec

\* While no move of the session is on its way and none has failed, the page kept
\* for the viewer was served to them (createKeyedResourceCache's key).
THEOREM RowsOfTheViewer == CacheSpec => []RowsAreTheViewersOwn
<1>1. CacheInit => SessionInv
  BY DEF CacheInit, SessionInv, KeptFor, ServedTo, Booting, Load, Asking
<1>2. CacheInv /\ TypeInv /\ SessionInv => RowsAreTheViewersOwn
  BY DEF TypeInv, Sorts, SessionInv, Moved, KeptFor, RowsAreTheViewersOwn
<1>3. CacheInit => CacheInv /\ TypeInv /\ SessionInv
  BY <1>1, CacheStart, TypeStart
<1>4. CacheInv /\ TypeInv /\ SessionInv /\ [CacheNext]_cacheVars
        => (CacheInv /\ TypeInv /\ SessionInv)'
  BY CacheStep, TypeStep, SessionStep
<1> QED
  BY <1>2, <1>3, <1>4, PTL DEF CacheSpec
=============================================================================
