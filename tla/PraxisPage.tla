----------------------------- MODULE PraxisPage -----------------------------
(***************************************************************************)
(* A spectator of a settled duel reads its two sides on /praxis/:id        *)
(* (pages/praxisDetail/usePraxisDetail.ts) and rates them.  The page is    *)
(* one component for every id: following the duel card's link or the Back  *)
(* button changes its route and keeps its state.  It shows two payloads    *)
(* with vote numbers, the praxis and the duel, each overlaid with the      *)
(* tally of a fresh cast; both reads retire that tally when they arrive.   *)
(***************************************************************************)
EXTENDS PendingCasts

CONSTANT MaxVisits      \* the viewer opens a page so often

ASSUME VisitsAssumption == MaxVisits \in Nat

Elsewhere == "elsewhere"
ASSUME RoutesAssumption == Elsewhere \notin Praxes

VARIABLES
    route,      \* the praxis in the address bar, or Elsewhere
    visit,      \* how many praxis routes were opened
    mounted,    \* the visit that mounted the page: its state goes with it
    page,       \* the praxis payload on show
    duelCard,   \* the duel payload on show, or Unread
    reads       \* the reads in the air

pageVars == <<route, visit, mounted, page, duelCard, reads>>
allVars == <<castVars, pageVars>>

\* Of the votes in a payload only the viewer's own star is kept.
Unread == [read |-> FALSE, star |-> [p \in Praxes |-> NoStar]]
NoPage == [praxis |-> Elsewhere, star |-> NoStar]

\* A read of a praxis (with its voters and comments) or of the duel: the mount
\* it is for, the clock it was asked at, what the server showed it.
Read == [of : {"praxis", "duel"}, praxis : Praxes, visit : 1..MaxVisits,
         mount : 1..MaxVisits, asked : Nat, is : {"asked", "served", "heard"},
         saw : [Praxes -> Tally]]

NothingSeen == [p \in Praxes |-> [rev |-> 0, mine |-> NoStar]]

Serving(r) == IF r.of = "duel" THEN Praxes ELSE {r.praxis}

NewRead(of, p, v, m) ==
    [of |-> of, praxis |-> p, visit |-> v, mount |-> m, asked |-> clock,
     is |-> "asked", saw |-> NothingSeen]

-----------------------------------------------------------------------------
\* A change of path: Layout flushes every held cast, and the page's effect
\* asks for the praxis of the new route.  Nothing calls off the earlier reads.
Open(p) ==
    /\ p # route
    /\ visit < MaxVisits
    /\ visit' = visit + 1
    /\ route' = p
    /\ mounted' = IF route = Elsewhere THEN visit + 1 ELSE mounted
    /\ reads' = reads \cup {NewRead("praxis", p, visit + 1, mounted')}
    /\ UNCHANGED <<page, duelCard>>
    /\ Flush(Praxes)

\* Away from /praxis/:id: the component goes, and the batches that would land on
\* it.  What was asked stays in the air.
Leave ==
    /\ route # Elsewhere
    /\ route' = Elsewhere
    /\ page' = NoPage
    /\ duelCard' = Unread
    /\ reads' = {r \in reads : r.is # "heard"}
    /\ UNCHANGED <<visit, mounted>>
    /\ Flush(Praxes)

Replace(r, s) == (reads \ {r}) \cup {s}

ReadServed(r) ==
    /\ r.is = "asked"
    /\ LET saw == [p \in Praxes |-> IF p \in Serving(r) THEN server[p] ELSE NothingSeen[p]]
       IN  reads' = Replace(r, [r EXCEPT !.is = "served", !.saw = saw])
    /\ UNCHANGED <<castVars, route, visit, mounted, page, duelCard>>

\* At any point: the voters, asked for with the praxis, fail the whole read.
\* The error page that a failed praxis read leaves is left out.
ReadFails(r) ==
    /\ reads' = reads \ {r}
    /\ UNCHANGED <<castVars, route, visit, mounted, page, duelCard>>

\* Mutant: any read retires the tally, whenever it was asked for.
RetiresAny(p, r) == p \in Serving(r)

\* clearCastTallies: the reads asked for after the cast was answered.
Retires(p, r) == p \in Serving(r) /\ tallies[p].at <= r.asked

\* The component that asked is still mounted.
StillThere(r) == route # Elsewhere /\ r.mount = mounted

\* getPraxis resolves; the page still waits for the voters and the comments.
HearPraxis(r) ==
    /\ r.of = "praxis"
    /\ r.is = "served"
    /\ tallies' = [p \in Praxes |-> IF Retires(p, r) THEN NoTally ELSE tallies[p]]
    /\ reads' = IF StillThere(r) THEN Replace(r, [r EXCEPT !.is = "heard"]) ELSE reads \ {r}
    /\ UNCHANGED <<server, store, wire, clock, wanted, lost, choices,
                   route, visit, mounted, page, duelCard>>

\* The batch lands on the page.  The first one brings the duel's id, and with it
\* the duel read; another praxis under the vote control flushes the cast of the
\* one before.
Land(r) ==
    /\ r.is = "heard"
    /\ page' = [praxis |-> r.praxis, star |-> r.saw[r.praxis].mine]
    /\ reads' = IF page = NoPage
                THEN Replace(r, NewRead("duel", r.praxis, r.visit, r.mount))
                ELSE reads \ {r}
    /\ Flush({page.praxis} \ {r.praxis, Elsewhere})
    /\ UNCHANGED <<route, visit, mounted, duelCard>>

\* getDuelDetail resolves, and in the same turn the card has it, unless its
\* component went and cancelled it.
HearDuel(r) ==
    /\ r.of = "duel"
    /\ r.is = "served"
    /\ tallies' = [p \in Praxes |-> IF Retires(p, r) THEN NoTally ELSE tallies[p]]
    /\ duelCard' = IF StillThere(r)
                   THEN [read |-> TRUE, star |-> [p \in Praxes |-> r.saw[p].mine]]
                   ELSE duelCard
    /\ reads' = reads \ {r}
    /\ UNCHANGED <<server, store, wire, clock, wanted, lost, choices,
                   route, visit, mounted, page>>

-----------------------------------------------------------------------------
PageInit ==
    /\ CastInit
    /\ route = Elsewhere
    /\ visit = 0
    /\ mounted = 0
    /\ page = NoPage
    /\ duelCard = Unread
    /\ reads = {}

\* The vote control of the praxis on show.
Rate(s) == /\ page # NoPage
           /\ Choose(page.praxis, s)
           /\ UNCHANGED pageVars

Reading(r) ==
    ReadServed(r) \/ ReadFails(r) \/ HearPraxis(r) \/ Land(r) \/ HearDuel(r)

PageNext ==
    \/ \E p \in Praxes : Open(p)
    \/ Leave
    \/ \E s \in Stars : Rate(s)
    \/ \E p \in Praxes : Background(p) /\ UNCHANGED pageVars
    \/ \E r \in reads : Reading(r)

\* Whatever page is open, a praxis's timers run and its requests are answered.
PageFairness == \A p \in Praxes : WF_allVars(Background(p) /\ UNCHANGED pageVars)

PageSpec == PageInit /\ [][PageNext]_allVars /\ PageFairness

-----------------------------------------------------------------------------
(* Properties.                                                             *)

\* The variables hold what they are declared to hold.
PageTypeOK ==
    /\ store \in [Praxes -> Entry]
    /\ wanted \in [Praxes -> AnyStar]
    /\ lost \subseteq Praxes
    /\ \A p \in Praxes : /\ server[p] \in Tally
                         /\ \A i \in DOMAIN wire[p] : wire[p][i] \in Request
                         /\ tallies[p] \in [rev : Nat, mine : AnyStar, at : 0..clock]
    /\ reads \subseteq Read
    /\ route \in Praxes \cup {Elsewhere}
    /\ page \in [praxis : Praxes \cup {Elsewhere}, star : AnyStar]
    /\ duelCard \in [read : BOOLEAN, star : [Praxes -> AnyStar]]

\* A star chosen and not yet sent always has somebody to send it: the request
\* whose answer is awaited, or a timer.  No flush, refusal or answer, in any
\* order, leaves it for nobody (send's last line, flushPendingCast).
NoChoiceIsStranded ==
    \A p \in Praxes : store[p].dirty => store[p].saving \/ store[p].followUp

\* Once nothing is held and nothing is out, the star on show is the last one
\* the viewer chose, and the server counts it; or the control says it failed.
Stands(p) ==
    ~store[p].dirty /\ wire[p] = <<>> /\ ~store[p].failed /\ wanted[p] # NoStar
        => store[p].value = wanted[p] /\ server[p].mine = wanted[p]

\* The last choice stands, double clicks, overtaking flushes and choices in
\* mid-request included (queueCast, send); only a vote that landed and was never
\* answered is beyond the client.
LastChoiceStands == \A p \in Praxes \ lost : Stands(p)

\* What pendingCasts.ts:24-26 says of every choice, a lost answer's too.
EveryChoiceStands == \A p \in Praxes : Stands(p)

\* "Last write wins outright - it came from the server after every earlier one"
\* (recordCastTally): a tally on show names the star that stands, unless a
\* request is out or the last answer was lost.
TallyAnswersTheLastStar ==
    \A p \in Praxes \ lost :
        wire[p] = <<>> /\ tallies[p] # NoTally => tallies[p].mine = server[p].mine

\* A read retires a cast's tally only if it saw the vote: served before the
\* vote landed, it may arrive after the answer and must leave the tally alone.
ReadsRetireOnlyWhatTheySaw ==
    [][\A p \in Praxes :
        tallies[p] # NoTally /\ tallies'[p] = NoTally
            => \E r \in reads : r.is = "served" /\ r.saw[p].rev >= tallies[p].rev]_allVars

\* A star the viewer has chosen is eventually sent and answered, on whatever
\* page they are by then.
EveryChoiceIsHeard ==
    \A p \in Praxes :
        store[p].dirty \/ store[p].saving ~> ~store[p].dirty /\ ~store[p].saving

\* What the two payloads of the page show of the viewer's own vote, once every
\* vote and every read of theirs has been answered.
Overlaid(p, star) == IF tallies[p] # NoTally THEN tallies[p].mine ELSE star
QuietPage ==
    /\ page # NoPage
    /\ page.praxis = route
    /\ reads = {}
    /\ duelCard.read
    /\ \A p \in Praxes : wire[p] = <<>>
    /\ lost = {}

\* The praxis and the duel card beside it count the viewer's vote alike: the
\* overlay is merged "into everything this page renders"
\* (usePraxisDetail.ts:292) and must not outlast or fall short of either payload.
CardCountsTheVoteThePageCounts ==
    QuietPage => Overlaid(route, page.star) = Overlaid(route, duelCard.star[route])

\* At rest the page shows the praxis of its route, however the reads of two
\* routes overtook each other.
PageShowsItsRoute ==
    route # Elsewhere /\ reads = {} /\ page # NoPage => page.praxis = route
=============================================================================
