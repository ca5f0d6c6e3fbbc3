# World Zero, modelled

World Zero is a game played in the world and kept in a web application: a
FastAPI backend over async SQLAlchemy and PostgreSQL, and a React frontend.
Characters sign up for tasks, write a *praxis* about what they did, alone, with a
crew (a *collab*) or against a rival (a *duel*), and vote on each other's work.

This directory holds TLA+ specifications of the program's own logic, in the
backend (`src/backend/services`) and in the browser (`src/frontend/src`: votes,
caches, the shared composer), the TLC configurations that model-check them, and
proofs checked by TLAPS. Line numbers are those of the source at this commit;
`PROJECT.json` maps every definition to its lines.

1. [The system](#1-the-system): components, state, operations, interactions, what is hard
2. [The modules](#2-the-modules): what models what, state by state and action by action
3. [The runs](#3-the-runs): what TLC checks, bounds, fairness
4. [The proofs](#4-the-proofs)
5. [Disagreements](#5-disagreements): what the documents say and the code does not keep
6. [Not modelled](#6-not-modelled) and [the plan](#7-the-plan)

---------------------------------------------------------------------------

## 1. The system

### How requests execute

`db.get_db` opens one session per request and commits when the handler returns,
before the response is sent; an exception rolls everything back. Services only
`flush`. Isolation is PostgreSQL's default, READ COMMITTED, and the ORM writes
only the columns that differ from what the session loaded. There is one backend
process (an advisory lock keeps a second one out), so two things run beside the
requests and share memory with them: the rooms' flush tasks, and the process-wide
live-era binding. The one commit inside a service is the era rollover's.

In the browser there is one thread and many answers in the air. A handler runs
to its next `await`; what it read before may have moved when it resumes. React
components come and go with the route, while module-level stores (votes, tallies,
caches) live as long as the tab and the room's offline copy outlives it.

Two consequences shape the models. Alone, a request is atomic and a refused one
is no step at all. Overlapping, two requests each decide from what they
loaded, and their writes are merged column by column; very few rows are locked
on purpose.

### Components

| Component | State | Operations | Correct when |
|---|---|---|---|
| Praxis lifecycle (`praxis.py`) | `praxis` row: type, status, creator, `submit_proposed_at`, `submitted_at`; `praxis_member`, `praxis_invite` rows | create, submit, unsubmit, change type, delete, media edits, invite, accept, decline, cancel, kick, leave, moderate | membership, approvals, status and ownership agree whatever the order of requests |
| Lazy consensus (`collab_consensus.py`) | the same row: `has_submitted` per member is the approval | propose/approve, settle a lapsed window on access, cancel on edit, release on leave, reset on kick, convert to solo | nothing publishes but by everyone's approval, the last holdout's departure, or silence; an edit takes every approval back |
| Praxis room (`praxis_room.py`) | in memory: room document, flusher, sockets, one lock; `praxis_room_update` rows | connect, keystroke, debounced flush, discard at publication, revoke | the record gets every keystroke once; new text and the cancelled proposal land together; a kicked member stops writing |
| Duel lifecycle (`duel.py`, `praxis_duel.py`) | `duel` row linking two solo praxes | challenge, accept, decline, cancel, settle, forfeit, discard on drop | the row agrees with its two praxes; a forfeit sticks; a votable contest is not un-made |
| Duel outcome and scoring (`duel_outcome.py`, `praxis_scoring.py`, `scoring.py`) | none: pure functions | winner, tie-taker, multiplier | the badge, the live score and the freeze name the same winner |
| Character stats (`character_stats.py`) | `character_stats` per character and era: score, level, all-time score, votes spent | recalculate on every change of worth; rebuild the vote spend | a stored score is what the praxes are worth now |
| Votes (`vote.py`, `vote_tally.py`) | `vote` row per account and praxis | cast, re-rate, void on join | one vote per account and praxis; the spent counter equals the votes cast |
| Era rollover (`era.py`) | `era` rows; the process's live era | lock, freeze duels, retire the board, new stats rows, commit, bind | frozen outcomes equal the last live ones; a crash leaves database and process reconcilable |
| Sign-up (`signup_eligibility.py`) | derived from praxes and members | bank cap, level and faction gates, one active membership per task | the cap and the uniqueness hold under concurrent sign-ups |
| Bans, departures, account deletion | `character.status`, `departed_at`; account tombstone | ban, unban, soft delete, delete account | a settled duel is forfeited; deletion is not undone by a late write |
| Factions, tasks, metatasks, comments, flags, nudges, taunts, badges, media | their own rows | mostly single-row CRUD with gates | see [Not modelled](#6-not-modelled) |
| Feed, read models, exports | none | projections | out of scope |
| Vote control (`components/vote/pendingCasts.ts`) | per praxis: star shown, star settled, unsent flag, request out, window and timer | choose, send, hear, flush | the last star chosen is sent, stands, and is what the server counts |
| Praxis page (`usePraxisDetail.ts`, `castTallies.ts`) | the praxis and duel payloads, the tallies over them | load per route, read the duel, retire a tally | the page counts a vote once, and shows what its route names |
| Caches and session (`resourceCache.ts`, `cacheEpoch.ts`, `useResource.ts`, `AuthContext.tsx`) | the viewer; cached entries, promises in flight, epoch, generation, last era | load, join, drop after a write, drop all, probe, sign out, switch | nothing older than a write, another viewer's or another era's is shown as current |
| Composer and room client (`EditPraxis.tsx`, `pages/editPraxis/*`) | Yjs document, its offline copy in IndexedDB, the socket | open, load the copy, type, sync, reconnect, publish, dispose of the copy | nothing typed is lost and nothing stands twice |
| Skins, forms, layouts (the rest of the frontend) | widget state | presentation | out of scope |

### How they interact

* Every route that touches a collab first loads it through a *settling read*
  (`get_praxis_settling_consensus`), which publishes it if its window lapsed.
  `submit` and `respond_to_invite` and the room's flush deliberately or
  accidentally do not.
* A seal (`_apply_seal`) calls into the room: flatten the document into the
  record, delete its rows, close its sockets. The room's flush calls back:
  `on_room_edit` cancels a live proposal in the flush's own transaction.
* A submission that publishes settles the duel (`maybe_settle_duel`) and then
  recalculates its members; a withdrawal of a settled side forfeits it and
  recalculates the other side too; a ban forfeits through `duel.py`.
* The composer writes the body through the room's socket only; everything else
  of a praxis goes through requests. A seal revokes the sockets; the browser
  drops its offline copy when it learns, from its own submission or from loading
  the page, that the praxis is published.
* Every successful write drops the browser's cached lists; a changed era stamp in
  an answer, or a sign-out, drops every cache. A vote's answer is laid over the
  praxis and the duel payloads until a read that began after it arrives.
* The rollover freezes duels through the same `duel_winner` that live scoring uses.

### What is hard

Requests that overlap on one row with no lock; an approval of a text that moves;
a timeout with no scheduler; membership shrinking under a vote; two rows (the
two sides of a duel) that must change together; stored scores that must follow
state held elsewhere; a document that lives in memory beside its record; a commit
that must precede an in-process effect; two copies of one document that merge;
answers heard in another order than they were given, after the viewer, the page
or the era they were asked for has gone. `PROJECT.json` lists the hazards one by
one, each at its line, with the properties that watch it.

---------------------------------------------------------------------------

## 2. The modules

| Module | Models | Kind |
|---|---|---|
| `CollabPraxis` | one praxis and every request on it, one request at a time | component |
| `LazyConsensus` | what ADR-0012 and ADR-0079 promise a crew, without machinery | abstract specification |
| `CollabRefinement` | the mapping of the first to the second | refinement |
| `CollabPraxisProofs` | theorems about `CollabPraxis` for every set of characters and window: the invariants, the roads to Live, what a step may never do to the countdown and the approvals, and the refinement | proofs |
| `ConsensusRace` | the same requests when they overlap: load, then column-wise commit | composition with the database and the room's flush |
| `ConsensusRaceProofs` | theorems about it, for any crew, window and number of open requests | proofs |
| `Duel` | two solo praxes, the duel row, the votes, rulings, bans, and the stored scores | component |
| `DuelProofs` | theorems about it, for any scores and whoever takes a tie | proofs |
| `DuelRace` | the requests that move a duel, when they overlap | composition with the database |
| `VoteBudget` | the votes on that praxis and their charges, beside every request on it; extends `CollabPraxis` | composition |
| `VoteBudgetProofs` | theorems about it, for any crew, accounts and budget | proofs |
| `PendingCasts` | the stars chosen in one tab, their requests and the server's votes | component |
| `PraxisPage` | the two pages of a duel's sides, their reads, the tallies over them; extends `PendingCasts` | composition |
| `PraxisPageProofs` | theorems about both, for any praxes, stars, choices and visits | proofs |
| `ClientCache` | the tab's viewer, its caches, and every request that fills or drops them | component |
| `ClientCacheProofs` | theorems about it, for any characters, writes, moves, eras and failures | proofs |
| `PraxisRoom` | the server's room and its store, and each member's composer, offline copy and socket | component |
| `PraxisRoomProofs` | theorems about it, for any browsers, words, drops and restarts | proofs |
| `SumTheorems` | what the community modules' sums over sets are, and induction over the subsets of a finite set | proofs |
| `MC*` | instances for TLC | |

Operators named `...` under a comment that starts with "Mutant:" are plausible
bugs. Nothing uses them; substituted for the definition below them, each makes
one checked property fail, which shows that the property watches the code.

### CollabPraxis

The state is the praxis row as one record. Service functions are operators from
a row to a row, and an action is the composition its handler makes, trailing
calls included: `Leave(c)` is `OnMemberLeave(Without(Settle(praxis), c))`, and
`OnMemberLeave` is `SealIfReleased` and then `ConvertToSolo`, in the code's order.

| Field | Column |
|---|---|
| `type`, `status`, `creator` | `type`, `status` (`none`: no row), `created_by_id` |
| `window` | days since `submit_proposed_at`, saturating at the deadline; `NoWindow` is NULL |
| `sealed` | `submitted_at`: NULL or one of two readings, so that two successive seals differ |
| `members`, `approved`, `invites` | `praxis_member`, `has_submitted`, pending `praxis_invite` |
| `dirty` | the room's document is ahead of `body_text` |
| `stale` | auxiliary: the approvals given before the last keystroke |

| Action | Code |
|---|---|
| `Create`, `Delete`, `ChangeType` | `create_praxis`, `delete_praxis`, `change_praxis_type` |
| `Read` | any settling read (`settle_if_window_lapsed` → `seal_to_live`) |
| `Submit` | `submit_praxis`: plain read, `on_submit`, settling read on the way out |
| `Unsubmit` | `unsubmit_praxis`, both doors |
| `EditMedia` | `add_media_batch`, `delete_media_item` → `on_member_edit` |
| `Invite`, `AcceptInvite`, `DropInvite`, `CancelInvite` | `invite_to_praxis`, `respond_to_invite`, `cancel_invite` |
| `Kick`, `Leave` | `kick_member` → `on_member_kicked`, `leave_praxis` → `on_member_leave` |
| `Type` | a keystroke in the room, behind `authorize` |
| `FlushRoom` | `_RoomFlusher.write` → `on_room_edit` |
| `DayPasses` | the clock |

Left out because nothing modelled reads it: `is_done`, titles and bodies,
scores, taunts, the gates on levels and the task bank (any invite or accept may
simply not happen).

### LazyConsensus and CollabRefinement

`LazyConsensus` knows a phase, a crew, who consented and whether time is up.
Work becomes live by everybody's agreement, by the departure of the last who had
not agreed, or by silence; everything else leads back to a draft nobody has
agreed to. `CollabRefinement` maps the row to it; `KeepsThePromise` says that
every step of every handler is one of its steps or none. TLC checks it, and
`Refinement` in `CollabPraxisProofs` proves it.

### ConsensusRace

A request is `Begin…` (its last read of the row; `tx[a]` keeps what it loaded
and what it made of it) and `Commit` (`Written`: the fields that changed, and for
members, approvals the *elements* that changed; a member who has gone takes all
their columns along, `Merged`). Locks are kept only where they exclude an outcome:
`on_submit` has flushed its own member row before its last read, the room's flush
has updated the praxis row, and a seal writes every approval it adds. A departure
flushes its DELETE only after it has loaded the row; here that falls in its commit,
so nobody waits for a departure and it is in no deadlock. A request that comes to
a locked row queues for it (`Wait`), and `on_submit` does not pass those queued for
its member's row (`RowIsFree`). `Deadlocked` is PostgreSQL's cycle detection,
`Orphaned` the update of a member row that has gone; both end in `Rollback`. A seal
abandons the room's pending flush
(`discard_document`). These database definitions are marked external in the map:
they are modelled from how SQLAlchemy and PostgreSQL are used here.

### Duel and DuelRace

`Duel` keeps both sides' status, ruling and points, the duel row, and `banked`:
what each character's stored score holds for that praxis. Every action
recalculates exactly the sides its handler recalculates, from the state it is
about to commit; so a handler that forgets a side leaves a stale score behind,
which is what the properties look for. The voter is one outside account.
`DuelRace` keeps the four columns that overlapping requests fight over.

### VoteBudget

`votes[A]` is account `A`'s row on the praxis (the life it names, and whether it
was cast in the live era), `spent[c]` a life's `votes_spent_this_era`,
`elsewhere[c]` its rows on other praxes. The star itself is data: `Duel` has it.

| Action | Code |
|---|---|
| `BeginCast`, `CommitCast` | `cast_or_update_vote` up to its last read, and its commit; `cast` is what it read |
| `RateElsewhere` | a whole first cast on some other praxis |
| `Join` | `respond_to_invite` with `void_account_vote_on_join` |
| `Drop` | `delete_praxis`, whose rows cascade and whose charges stay |
| `NextEra` | `apply_era_reset` with `reset_vote_budget`, as Era 1 has it |
| `Recompute` | `recompute_votes_spent_this_era`, applied |
| `OtherRequest` | every other request of `CollabPraxis`: they leave votes alone |

`OneAtATime` says whether other requests may commit inside a cast. Of the
composer only media edits appear, because a flush does to the row what they do.

### PendingCasts and PraxisPage

`store[p]` is the praxis's entry in the four maps of `pendingCasts.ts`: `value`,
`settled`, `failed`, `saving`, `dirty` as there; `windowOpen` and `followUp` say
that an entry of `windowShuts` and of `followUps` exists, `inFlight` the star of
the request out. Time is two events, `WindowShuts` and `FollowUpFires`.
`queueCast` is `Choose`, its redundancy test `AlreadyHeard`; `send` up to its
`await` is `Send`, and what follows it is `HearAccepted` and `HearRefused`, which
end, as the code does, in another `Send` unless a timer is to do it. `tallies` and
`clock` are those of `castTallies.ts`. The server keeps of a praxis's votes a
count of changes and the viewer's star. `AnswerIsLost` is a vote that lands while
`fetch` rejects; the history `lost` holds the praxes of which that was the last to
land, until a later vote is answered.

`PraxisPage` adds the route and the mounted component. `Open` is a change of
route to another praxis: `Layout` flushes, the effect asks; nothing cancels the
asking. A batch is `ReadServed`, `HearPraxis` (the praxis has come, and retires
tallies in `getPraxis`), `Land` (the voters and comments too: the page is set).
The first landing of a mount asks for the duel, since both sides share its id;
leaving cancels what its answer would set, not what it would retire. A read that
fails ends, whether it had been served or not; the error page it leaves on a mounted
route shows nothing the properties speak of.

### ClientCache

| Variable | Code |
|---|---|
| `user` | `AuthContext`'s viewer, `Loading` before the first probe settles |
| `marks` | the epoch's `version` and `lastSeenEra`, the keyed cache's generation |
| `held`, `shown` | the `entry` of the caches of `/factions` and `/game-config`, and what their consumers show |
| `pages` | the keyed entries of the feed's first page, by `viewerCacheKey` |
| `feed` | `useResource`: the view, how its run stands, which view its rows are of |
| `air` | every request: what it was issued under, whether `inFlight` holds it (`filed`) and an uncancelled run awaits it (`awaited`), and, once served, what it says |

Each request is served at one moment and heard at a later one, and anything
happens between. `HearResource` and `HearPage` keep an answer only if
`IsCurrent`; `HearMe` is `runSessionProbe`; `HearWrite` is the transport's
`dropCachesAfterWrite` followed by `applyUser` for a switch; `HearSignOut` drops
everything. `DropAll` unfiles every promise and has every consumer read again.

### PraxisRoom

A document is a set of items that merges by union, which is what Yjs guarantees
and all it does here: a seeding (its number, with the text it carried) or a word.
A word needs the items it was typed beside (`beside`), and shows only where they
are; this is why a word typed on a document that was destroyed is lost with it,
and why two seedings of one text double it.

`Connect` is `get_room` and `_load_or_seed` under the open lock, `Sync` the two
sync steps, `StoreUpdates` the store's writer task, `BeginFlush` and `EndFlush`
the flusher around its commit (`changed` its event, `owed` its `_pending`),
`Release` the closing of an empty room, which waits neither for an UPDATE under way
nor for updates still to be stored. `Discard` and `Commit` are a seal (the room goes
at once, the rows and the record with the transaction): the seal of a lapsed window
(`Lapse`), or of a member's submission (`Submit`), which seals again what is Live
already. `Propose` is a submission that seals nothing: a proposal, or an approval
that is not the last. Who has approved what is `CollabPraxis`'s business, so in a
crew any submission of a draft may be either.

The composer is `Visit`, `LoadCopy` (IndexedDB has loaded), `Type`
(`composerWritable`), `Leave`, `HearSubmitted` and `SeePublished`. `HearSubmitted` is
`publish()` from its `await` on: whatever the submission came to, sealed or merely
proposed, the composer drops its offline copy (`discardRoomStore`) and goes to the
read page or to the waiting surface, either of which unmounts its document; one that
has unmounted before the answer drops the copy all the same. `SeePublished` is the
disposal by the other browsers, which look at the praxis's status first. `AfterDrop`
and `GiveUp` are `shouldReconnectRoom`.

---------------------------------------------------------------------------

## 3. The runs

| Run | Instance | Distinct states | Shows |
|---|---|---|---|
| `CollabPraxis` | 3 characters, window 2 days, `FairSpec` | 56,526 | the consensus state machine, its refinement of `LazyConsensus`, and that proposals resolve |
| `Duel` | stars {1, 2}, one tie-taking side | 9,746 | the duel row, its praxes and the stored scores |
| `Race` | 2 characters, all request kinds, 2 open, window 1 | 617,329 | overlapping requests keep the row well formed, and an uncontended one is one step of `CollabPraxis` |
| `RaceApprovals` | 3 characters, 3 open, approvals and reads | 26,940 | overlapping approvals alone break nothing but punctuality |
| `VoteBudget` | 3 characters on 2 accounts, budget 1, window 1, one request at a time | 1,123,705 | nobody rates their own, and no vote is free |
| `PraxisPage` | 2 sides, stars {1, 2}, 2 choices, 2 visits | 275,604 | choices are sent, stand and are counted while the viewer moves between the pages, answers get lost and reads overtake them |
| `ClientCache` | 1 life, both session-long copies, 2 eras, 1 move | 124,144 | copies leave with their viewer and follow the era |
| `ClientFeed` | 2 lives, the feed, 1 write, 2 moves, 2 views, 1 incident | about 1.7 million | cached rows are fresh, the viewer's own, and of the view on show |
| `PraxisRoom` | 2 browsers, 1 word, 1 publishing, 2 visits, 1 drop, 1 crash | 965,009 | one seed per document, sockets have rooms, unpublished words go only where a submission was answered |
| `DuelRace_…`, `Room_NeverTwice`, `Room_UnpublishedTextSurvives` | two submissions at once; 3 visits, no failure; 1 visit, 1 drop, nothing sealed | – | three disagreements, one each (section 5) |

### Properties, and what each would catch

*CollabPraxis.* `ConsensusInv`: a proposal is live exactly while the praxis is
pending and has a holdout; drafts carry no approval; Live work carries
everybody's. `SoloIsItsCreators`: every road to solo ends with one member who may
delete it. `NoApprovalOfOlderText`, `PublishedAsApproved`: approvals and text move
together. `ApprovalsFallTogether`: no partial pull-back. `WindowNeverRestarts`:
nobody can hold a proposal open by approving, joining or leaving.
`KeepsThePromise`, `ProposalResolves`: above.

*Duel.* `DuelMatchesItsSides`: the row's status, its links, the forfeit and the
winner against the two praxes. `ScoresOnlyWhatIsPublic`: no stored score misses
or keeps what it should not, or lags behind its own votes.
`DissolvedDuelPaysNobody`, `ForfeitPaysTheOther`: the right side is paid after
dissolution and forfeit whatever follows. `ForfeitIsSticky`: no sequence un-makes
a votable contest or its forfeit. `FreezeKeepsTheStanding`: freezing moves no
outcome.

*Races.* `RaceTypeOK` (an approval never outlives its member's row), `Serially`
(uncontended requests are atomic ones, which ties the two modules together and
blames the overlap for the rest), and under overlapping approvals
`LiveIsApprovedByAll`, `SealedByConsentOrSilence` (what publishes had loaded a
lapsed proposal, or lacked its own member's approval alone) and `ProposalResolves`.

*VoteBudget.* `NoOwnerRates`: a vote is refused to owners and invitees and voided
on joining, and between these two gates stand withdrawals, kicks, takeovers,
deletions, alt lives and eras; no order of them leaves a co-owner with a rating.
`EveryVoteIsPaidFor`: a charge is given back only with its vote, to the era it was
cast in, and the operator's rebuild may uncharge only what is no longer there; a
refund in the wrong place is a free vote several requests later. It is stated per
account, since a re-rate by an alt moves the row to a life that never paid.

*PraxisPage.* `NoChoiceIsStranded` and `EveryChoiceIsHeard`: whoever takes over
the duty to send a held star (timer, answer, flush) does. `LastChoiceStands`:
what stands at rest is the last choice, on screen and on the server.
`TallyAnswersTheLastStar`: "last write wins" is right because requests for one
praxis never overlap. Both excuse only a praxis in `lost`. `ReadsRetireOnlyWhatTheySaw`: `castTallyClock` does what
#3093 wants of it.

*ClientCache.* `RowsAreAfterTheLastWrite`, `JoinedAnswersAreKept`: an answer asked
for before a drop is neither filed nor joined. `RowsAreTheViewersOwn`,
`DirectoryLeavesWithItsViewer`: nothing crosses from one viewer to the next; the
first holds whatever probes are in the air, as long as no sign-out or switch is.
`FeedShowsItsView`: no cancelled run settles the feed. `RulesCatchUp`: the
consumers' `null` from a dropped answer is followed by a fresh one.

*PraxisRoom.* `SeededOnce`: the one rule of ADR-0073, through closings, crashes
and half-done seals. `ASocketHasItsRoom`: revocation leaves no socket behind, and
a synced composer holds all the room does. `WordsGoOnlyWithASubmission`: until the
first publishing no step of anybody (a drop, a crash, a room that closes, a
composer that closes or comes back with its copy) takes the last of a word, except
a composer's answer to its own submission, which drops the copy and then the
document. That exception is the code's: stated without it,
`UnpublishedTextSurvives` fails (section 5).
`EveryWordReachesTheStore`: reconnection and replay bring it to the server.

### Bounds, and why they are enough

* *Three characters* in `CollabPraxis`: proposer, approver and holdout (or
  invitee) coexist, and a crew can shrink to two and to one. Nothing counts
  members beyond "all", "exactly one" and "none"; the proofs remove the bound for
  every property listed in section 4, the refinement included.
* *Window of two days*: just opened, older, lapsed. The code compares once with
  the deadline.
* *Two readings of `submitted_at`*: a re-seal is a change between them.
* `MaxOpen = 2` in `Race`: two overlapping requests already break what breaks;
  three are checked where the result is positive (`RaceApprovals`). There the
  safety properties are proved for any crew and any number of requests; a crew of
  four, with two open, keeps `ProposalResolves` too.
* *`VoteBudget`*: two lives on one account, so that one re-rates, or joins after,
  the other, and a stranger to invite them; a budget of one is spent and refunded;
  one rollover makes every vote an old one.
* *Stars {1, 2}* and one voter: a side leads, trails, ties, and is re-rated; the
  proofs hold for any stars and any tie takers.
* *Two praxes, two stars, two choices* in `PraxisPage`: a change of mind while a
  request is out or within the window, on either side of the duel; *two visits*:
  back and forth, or leaving and returning, so that reads of two mounts overlap.
  The theorems hold for any number of each.
* *`ClientCache`*: the two caching mechanisms (one entry; keyed entries with a
  generation) do not touch each other but through the epoch, so each has an
  instance with the other's consumers unmounted (`Mounted`). One rollover is
  enough for a straddling answer, one write for a stale read, two moves for a
  sign-out that meets a switch. `MaxIncidents` covers failures and probes.
* *`PraxisRoom`*: one word is enough to be lost or doubled, two browsers to hold
  different documents; one publishing gives two lives of the document. `Propose`
  does not fall between a seal's discard and its commit: the seal has then revoked
  the sockets, and whether that member's answer or the published page drops the copy
  makes no difference to the document that is to be destroyed.
* Only one duel row between two sides at a time; `Challenge` replaces a dissolved
  or declined one. Two rows at once are in the plan.

### Fairness, and what justifies it

`FairSpec` asks for weak fairness of `DayPasses` (time passes) and of `Read`.
The timeout has no scheduler: it is the readers who settle a lapsed window
(`collab_consensus.py` 145-155), so "somebody eventually looks" is the assumption
the design itself makes, and nothing is assumed of the members. `FairRaceSpec`
adds that an open request ends: it comes to the rows it writes (`Wait`, weakly),
gets them in turn (`Commit`, strongly: others may hold a row in between, but the
database queues its waiters and whoever comes later stands behind them, which is
`RowIsFree`), or fails (`Rollback`, weakly). `BeginRead` and `Clock` are strong only
because `MaxOpen`, the model's limit and not the server's, can disable them. No fairness is assumed of approvals, edits or flushes.

In the browser fairness is the runtime's and the network's: timers run and
requests end (`PageFairness`, `CacheFairness`; a vote whose answer is lost lands, if
it lands, when its `fetch` rejects and never after a later vote, which is an
assumption on the network; a lost answer is an end, and
`RulesCatchUp` excuses tabs with failures, since a failed load is retried only by
the next mount). `RoomFairness`: the provider dials and syncs by itself and the
store's writer runs; nobody is obliged to open, type, close or publish.

`CHECK_DEADLOCK FALSE` stands where a collab can lose its last member while Live:
no request is then possible, which is one of the disagreements; and in the
browser's runs, where the viewer may stop.

---------------------------------------------------------------------------

## 4. The proofs

Every invariant and every action property that a passing run checks, and the
refinement, is also a theorem here; liveness stays with TLC.

`CollabPraxisProofs` proves, for **every** set of characters and every positive
`AutoSubmitDays` (`DaysAssumption`, the only assumption):

| Theorem | States |
|---|---|
| `Invariance` | `Spec => []IInv` |
| `TypeCorrect` | `Spec => []TypeOK` |
| `Consensus` | `Spec => []ConsensusInv` |
| `SoloOwnership` | `Spec => []SoloIsItsCreators` |
| `ApprovalFreshness` | `Spec => []NoApprovalOfOlderText` |
| `ConsentBeforeSilence` | `Spec => PublishedByConsentOrSilence` |
| `ConsentToTheText` | `Spec => PublishedAsApproved` |
| `CountdownNeverRestarts` | `Spec => WindowNeverRestarts` |
| `NoPartialPullBack` | `Spec => ApprovalsFallTogether` |
| `Refinement` | `Spec => KeepsThePromise` |

The inductive invariant is `IInv == Sound(praxis)`, where `Sound` is a predicate
on *rows*: `Typed` (columns in their domains, approvals of members, stale ones of
approvals), `Agrees` (status, window, approvals and seal), `Owned` (solo rows),
`Fresh` (no stale approval on a flushed proposal) and `Absent` (a dropped row is
empty). `ConsensusInv` is not inductive alone: that a departure publishes or
converts correctly needs approvals to be members', and that a conversion leaves
no window needs window and status to agree first.

Because an action is a composition of operators over rows, so is its proof:
each operator has a lemma saying what it makes of a sound row (`Seal`,
`OnMemberEdit`, `OnSubmit`, `ConvertToSolo`, `OnMemberLeave`, …), each action
applies the lemmas of the operators it is made of, and the step proof has one
case per disjunct of `Next`. The two properties about going Live follow from the
same invariant with one lemma per operator that can publish. The two about the
countdown and the approvals use a relation between rows, `Narrows(p, q)`: nobody
has joined, the countdown stands or has stopped, and the approvals of those who
stay all stand, all fell, or were completed by a seal. It is transitive, every
service function but an approval narrows, and so does every handler that only
composes such functions; creation, approval, acceptance and the clock are argued
on their own.

### ConsensusRaceProofs

For any characters, window, request kinds and number of open requests; the last two
where members only approve and readers only look (`Requests \subseteq {"submit",
"read"}`, a hypothesis of the theorems):

| Theorem | States |
|---|---|
| `RaceInvariance` | `RaceSpec => []RaceInv` |
| `RaceTypes` | `RaceSpec => []RaceTypeOK` |
| `AloneIsSerial` | `RaceSpec => Serially` |
| `LiveByAll` | `RaceSpec => []LiveIsApprovedByAll` |
| `CarriedWhenSealed` | `RaceSpec => SealedByConsentOrSilence` |

Overlaps leave rows no sequence of requests would, so `IInv` is not to be had and
every lemma on service functions is restated for rows that are in their domains and
no more (`Row`). `RaceInv` adds what each open request made of the row it loaded
(`Handled`, one disjunct per handler), and what a submission's lock on its own
member's row keeps others from writing (`Holds`): that member stays, with the
approval the request found. A commit never leaves an approval of somebody who has
gone, since a row that goes takes its columns along (`Merged`) and the update of a
row that has gone fails (`Orphaned`). `AloneIsSerial` then needs only that a commit over an unmoved
row writes exactly what the handler made of it.

For the approvals, `ApprovalInv` says of the row and of every loaded one that it is
`Agreed` (window and status go together, a draft has no approval, a Live row has all
of them), and of every loaded one that the row now has as many approvals or more
(`Before`); a request that publishes is `Carried` by what it loaded. Looking for this
invariant showed that `PublishedByConsentOrSilence` had held in the run only because
a crew of three is too small to break it (section 5), and `SealedByConsentOrSilence`
took its place.

### The refinement (CollabPraxisProofs)

`Refinement` needs `DaysAssumption` alone. The steps of
`LazyConsensus` are restated as relations of two rows (`Drafts`, `Proposes`,
`Concurs`, `Departs`, `Joins`, `Expires`, `Ends`, `Loses`, `Reopens`, `Drops`, and
`Rests` for none); `PromisedIsPromise` shows once that rows so related map to a step
of the promise or a stutter. What is left is about rows: what settling, an edit, a
conversion and a departure make of a sound one, and one lemma per action that
names the promise's step. A request over a lapsed window is where this is subtle:
it publishes and acts at once, and the promise must see one step (`Ends`).

### DuelProofs

For any stars (`StarsAssumption`) and whichever sides take a tie
(`TieTakersAssumption`):

| Theorem | States |
|---|---|
| `DuelInvariance` | `Spec => []DuelInv` |
| `DuelTypes` | `Spec => []TypeOK` |
| `RowMatchesSides` | `Spec => []DuelMatchesItsSides` |
| `ScoresArePublic` | `Spec => []ScoresOnlyWhatIsPublic` |
| `DissolvedPaysNobody` | `Spec => []DissolvedDuelPaysNobody` |
| `ForfeitsPay` | `Spec => []ForfeitPaysTheOther` |
| `ForfeitsStick` | `Spec => ForfeitIsSticky` |
| `FreezeMovesNoOutcome` | `Spec => FreezeKeepsTheStanding` |

`DuelInv` joins the agreement of the row with its praxes (`Rows`) to `Fair`, what
each side's stored score may be while no handler has touched it again: that is
weaker than "what the side is worth now", because a vote reprices one side only
(section 5), and strong enough that a forfeit, a dissolution and a departure leave
the right side paid.

### VoteBudgetProofs

For any characters, any partition of them into finite accounts (`AccountsAssumption`) and
any budget (`BudgetAssumption`, `DaysAssumption`):

| Theorem | States |
|---|---|
| `VotesLeaveThePraxisAlone` | `VoteSpec => Spec` |
| `VoteTypes` | `VoteSpec => []VotesTypeOK` |
| `NobodyRatesTheirOwn` | `OneAtATime`, `VoteSpec => []NoOwnerRates` |
| `NoVoteIsFree` | `OneAtATime`, `VoteSpec => []EveryVoteIsPaidFor` |

The first makes every theorem about `CollabPraxis` one about it. `VoteInv` adds to
`NoOwnerRates` that a praxis that is not there has no votes, and that the voter of
a cast under way is no owner. It is kept because nobody becomes an owner but by
creating the praxis, which then has no votes, or by accepting an invitation, which
gives the vote up: every other request `Narrows` the crew, as
`CollabPraxisProofs` shows. Without `OneAtATime` both theorems are false
(section 5).

`NoVoteIsFree` compares sums over the lives of an account, and must: a refund goes to
the life that asks to join, not to the one that paid, so no life's own account
balances. `PaidInv` adds to the comparison (`Covered`) that a row names a life of its
account, and that what a cast has read still holds when it commits: its life's spend,
whether the account has a row, and the era. That last part is what `OneAtATime` buys.
Each action then moves at most one summand of one account, and `SumTheorems` says what
this does to the sum; the rebuild is a comparison of two sums, summand by summand.

### SumTheorems

The folds of the community modules are recursive functions that their definition
only chooses, so nothing is known of a sum until such a function is shown to exist.
`SumExists` does it for finite sets, from those of at most n elements to those of
n + 1; `SubsetsInTurn` is the induction that sums need, stated of a *set* of subsets
rather than of a predicate, which keeps the provers first order. What the other
modules cite is that sums of naturals are natural (`SumsAreNatural`), that a change to
one summand shifts the sum by as much (`SumShifts`), that equal summands have
equal sums (`SumsAgree`), and `LeastNat`.

### ClientCacheProofs

For any characters, eras, writes, moves, views and failures, and whatever the page
mounts (`LivesAssumption`, `CacheBoundsAssumption`):

| Theorem | States |
|---|---|
| `CacheInvariance` | `CacheSpec => []CacheInv` |
| `RowsFollowTheWrites` | `CacheSpec => []RowsAreAfterTheLastWrite` |
| `JoinsAreKept` | `CacheSpec => []JoinedAnswersAreKept` |
| `FeedIsOfItsView` | `CacheSpec => []FeedShowsItsView` |
| `DirectoryGoesWithTheViewer` | `CacheSpec => []DirectoryLeavesWithItsViewer` |
| `CacheTypes` | `CacheSpec => []CacheTypeOK` |
| `RowsOfTheViewer` | `CacheSpec => []RowsAreTheViewersOwn` |

`CacheInv` speaks of each request in the air (`Good`): a filed one is current, none
is ahead of the marks, and one that is served and still current says no less than
the tab has heard. Requests are only ever asked afresh, rewritten one by one, or
taken away, and each of those keeps `Sound`; every action is a composition of
them. A drop moves the marks past every request in the air (`Past`), after which
nothing that was asked before can be kept, whatever it says.

The types need an invariant of their own. The rows' revision is bounded only because
each write in the air has been asked for and is served once, so `TypeInv` counts them
(`WritesAreCounted`: revision and writes still owed are at most the writes spent);
and counting needs every request to be told from the others. That the least unused
number exists is a pigeonhole argument over the finite set in the air. `SessionInv`
is about whose rows they are: unless a served sign-out or switch is still unheard, or
something has failed, every kept page, and every page answer that would still be
filed, was served to the server's present session. The session moves only by serving
such a request, and hearing it drops everything. The proof never asked that no probe
be in the air, which the property used to exclude; it is now stated without.

### PraxisPageProofs

For any praxes, any stars that are positive numbers (`StarsAssumption`) and any
number of choices and visits:

| Theorem | States |
|---|---|
| `PageInvariance` | `PageSpec => []PageInv` |
| `SomebodySendsIt` | `PageSpec => []NoChoiceIsStranded` |
| `LastStarStands` | `PageSpec => []LastChoiceStands` |
| `TallyIsTheLast` | `PageSpec => []TallyAnswersTheLastStar` |
| `ReadInvariance` | `PageSpec => [](PageInv /\ ReadInv)` |
| `PageTypes` | `PageSpec => []PageTypeOK` |
| `RetiredBySight` | `PageSpec => ReadsRetireOnlyWhatTheySaw` |

`PageInv` is `VoteInv`, a predicate of each praxis's entry, requests, votes and
wanted star, with `Shows` and `Asks` (the page and its reads name praxes).
`VoteInv` says that there is at most one request and that `saving` and `inFlight`
tell of it (`OneRequest`), that what is unsent or in the air is the last choice
(`Wants`), that somebody will send it (`Awaited`), that an acceptance on its way
carries the vote the server counts (`Counted`), and, unless the praxis is in `lost`,
that `settled` follows the server by one answer (`Settles`). Each handler has a
lemma on a single praxis; the page's actions flush at most, and inherit it.
`TallyInv` adds that a tally names the counted star or an acceptance that will
replace it is on its way; reads only retire tallies.

`ReadInv` says why they retire only what they saw. A read retires a tally stamped at
or before the clock it was asked at; a tally is stamped with the answer to a vote
(`Stamps`); and the client has heard of no later vote than the server counts
(`Behind`). So when a read is served, whatever it would retire is in what it sees
(`Sees`), and what is stamped later it would not retire, though the tally it meets
on arrival may be another than the one that stood when it was served.

### PraxisRoomProofs

For any browsers, words and bounds:

| Theorem | States |
|---|---|
| `RoomInvariance` | `RoomSpec => []RoomInv` |
| `SeededOnceInALife` | `RoomSpec => []SeededOnce` |
| `SocketsHaveRooms` | `RoomSpec => []ASocketHasItsRoom` |
| `WordsStand` | `RoomSpec => WordsGoOnlyWithASubmission` |
| `RoomTypes` | `RoomSpec => []RoomTypeOK` |

`RoomInv` joins the shapes of the records (`Shape`, `Counts`), `ASocketHasItsRoom`,
which is inductive, and `Pace`: with rows in the store there has been at most one
seeding more than discards, with none at most as many, and a seal that has
discarded but not committed has already counted the document it destroys. The
last part is what makes a crash between discard and commit harmless.

`WordsStand` needs `Sound`: until a seal first discards the document, every document
is closed under what its words were typed beside (`Closed`: the rows, the room and
both halves of each browser), since being somewhere is not enough and a word shows
only where all of that is; a loaded copy is the composer's document, except that a
composer about to leave after an answer has none (`Copied`); and a synced composer
holds the room's document. From a sound state every step but two keeps every word
that rows, composers and copies hold (`Keeps`): the rows make closing and crashing
the room harmless, the copies make leaving harmless. `HearSubmitted` and the `Leave`
after it may let a word go, and only one that this composer shows (`LetsGo`).

`RoomTypes` says that documents hold only words typed and the items of seedings that
happened, and that a seeding is again a text. `TextInv` splits it into what is filed
(`Filed`), what has been typed and seeded (`Grown`), the room (`InRoom`) and each
composer (`InTabs`); it needs besides that a seal under way carries only texts. A
document comes to a text because the count of a word in it is a sum over its
seedings (`CountIsNatural`).

### Model-checked only

* Liveness (`ProposalResolves`, `EveryChoiceIsHeard`, `RulesCatchUp`,
  `EveryWordReachesTheStore`) is beyond the prover.
* What a sum comes to for a given set. The theorems need only how a sum follows its
  summands, and TLC computes the values.
* What the "violation" runs and section 5 refute is not so, and nothing is to prove.

---------------------------------------------------------------------------

## 5. Disagreements

What a document, comment or docstring says of the program and the code does not
keep. Those in **bold** have a run of their own, and a finding in `PROJECT.json`
with the quotation. The others are stated in the module named, and TLC refutes
each when the cfg given names it (with the constants in the last column, if any,
changed).

| Property | Module | What happens | In |
|---|---|---|---|
| `NeverWithoutAMember` | `CollabPraxis` | the lone member of a collab leaves it ("the zero-member state is unreachable", `collab_consensus.py` 356) | `CollabPraxis.cfg` |
| `LiveTextIsFrozen` | | typing changes a Live collab's text and it stays Live | same |
| `SealsOnlyADraft` | | submitting a Live praxis seals it again (`submitted_at` is "set once", `models/praxis.py` 119) | same |
| `DesertedCollabConverts` | | a kick down to one member leaves a collab of one (ADR-0060: "at any status") | same |
| `NobodyJoinsAfterTheWindow` | | `respond_to_invite` does not settle, so an invitee joins a lapsed proposal | same |
| `LapsedWindowPublishes` | | nor does the room's flush, which cancels a proposal that silence had carried | same |
| `PublishedTextWasApproved` | | a seal flattens keystrokes no flush had announced | same |
| `DroppedByAMember` | | the creator who left deletes the crew's collab (ADR-0013: "no special powers") | same |
| `EveryoneApprovedIsLive` | `ConsensusRace` | two concurrent last approvals leave it pending until the window lapses | `Race.cfg` |
| `ProposalResolves` | | a media edit over an approval leaves a pending praxis without a countdown, for ever | `RaceApprovals.cfg`, 2 characters, `Requests = {"submit", "media", "read"}` |
| `DraftCarriesNoApproval` | | an approval survives a concurrent edit | `Race.cfg` |
| `DraftHasNoWindow` | | a draft is counted down | same |
| `SurvivorOwnsTheSolo` | | two concurrent departures leave a solo praxis of nobody | same |
| `LiveIsApprovedByAll` | | a Live praxis lacks an approval | same |
| `PublishedByConsentOrSilence` | | a flush's cancellation loses to a concurrent last approval; and with approvals and reads alone, a submission loaded as a draft restarts a lapsed countdown under the read that publishes it | same; `RaceApprovals.cfg`, 4 characters |
| `WinnerFloatsWithTheVotes` | `Duel` | a vote that turns the lead reprices one side only (ADR-0011: "the winner floats with the votes") | `Duel.cfg` |
| `VotingOpensWithBoth` | | a lone submitted side is votable (ADR-0011) | same |
| `ForfeiterKeepsTheLoss` | | a forfeiter whose opponent is ruled out resubmits without the loss | same |
| `NoContestPaysNobody` | | a side of an active duel keeps the win it was credited when the duel is frozen as a no-contest | same |
| **`BothSubmittedIsSettled`** | `DuelRace` | two concurrent submissions leave the duel active | `DuelRace_BothSubmittedIsSettled.cfg` |
| `SettledHasBoth` | | a withdrawal beside the last submission escapes the forfeit | same, all six `Requests` |
| `DeclinedIsTerminal` | | an accept revives a cancelled challenge | same |
| `VotableIsNotDissolved` | | a cancel dissolves a contest that just settled | same |
| `FirstForfeitIsTheRecord` | | the second of two concurrent withdrawals overwrites the forfeit | same |
| `CounterIsTheRows` | `VoteBudget` | a cast, then the praxis is deleted: the row cascades and its caster stays charged; so does a re-rate by an alt (`character_stats.py` 448-456: "the counter equals the number of that character's vote rows", "the only `DELETE FROM vote` in the application") | `VoteBudget.cfg` |
| `NoOwnerRates` | | an invitation and its acceptance commit inside a cast, which then lands on the new co-owner's own praxis (`vote.py` 208-213) | same, `OneAtATime = FALSE` |
| `EveryVoteIsPaidFor` | | two casts of one life at once on two praxes are charged as one (`vote.py` 178) | same |
| `CardCountsTheVoteThePageCounts` | `PraxisPage` | back on a praxis after a vote, the duel card shows the count from before it | `PraxisPage.cfg`, `Stars = {1}`, `MaxChoices = 1`, `MaxVisits = 3` |
| `PageShowsItsRoute` | | the slower answer of the praxis before lands under the new route; `useDuelReader.ts` 122-126 cancels for this reason | `PraxisPage.cfg` as it is |
| `EveryChoiceStands` | | after a vote whose answer was lost the old star is chosen again and not sent: "the server already has it" (`pendingCasts.ts` 24-26) | `PraxisPage.cfg`, `MaxChoices = 3` |
| `DirectoryCatchesUp` | `ClientCache` | a page load that straddles a rollover keeps the old directory: the first stamp drops nothing (`cacheEpoch.ts`: "there is nothing held yet to be wrong") | `ClientCache.cfg` |
| `ViewerIsTheSessions` | | a probe in the air over a sign-out puts the old viewer back (`AuthContext.tsx` 21-22) | `ClientFeed.cfg` |
| `FailedWritesChangedNothing` | | a write whose answer is lost changed the rows and drops nothing (`client.ts` 124: "changed nothing") | same |
| **`NeverTwice`** | `PraxisRoom` | a co-author's old copy merges into the document seeded after a pull-back | `Room_NeverTwice.cfg` |
| **`UnpublishedTextSurvives`** | | the socket is down, a member types, and proposes over HTTP: the answer drops the offline copy ("the seal just destroyed the server's document", `useEditPraxis.ts` 479) though nothing was sealed, the composer leaves, and the words are in no row, room, copy or record (`praxisRoom.tsx` 30-32 promises the paragraph kept) | `Room_UnpublishedTextSurvives.cfg` |
| `GaveUpWithNothingToMerge` | | a composer reopened offline holds unsent words when its socket gives up (`roomReconnect.ts` 57-59) | `PraxisRoom.cfg` |
| `ClosedRoomOwesNothing` | | a keystroke during the flush's commit loses its `_pending`, and the closing room does not flush it | same |
| `TextNeverShrinks` | | a socket that connects between a seal's discard and its commit writes into the doomed document; the commit takes what it flushed out of the record | same |

One more was met in reading and belongs to no module yet: a challenge looks for no
votes, so a duelist may hold a rating of the rival's praxis that was cast before it
(`duel.py` 266-356; "cannot rate EITHER side of a duel they're in", `vote.py`
349-352). `void_account_vote_on_join` has no counterpart there.

---------------------------------------------------------------------------

## 6. Not modelled

* **Feed, praxis read models, visibility, exports**: queries over state others own.
* **Authentication, seeding, import**: no game state of their own.
* **Factions, tasks, metatasks, habit bonus, nudges, taunts, relationships,
  comments, flags, badges**: single-row rules or insert-only records on which
  nothing modelled depends; their gates are ordinary unit-test material.
* **Score arithmetic**: base points, faction multipliers, levels and rounding are
  data here; only which multiplier applies is modelled.
* **Media on disk**: file-system I/O beside the transaction; a file unlinked
  before its row's deletion commits can be missed by a rollback.
* **The rest of the frontend**: some 800 files of skins, archetypes, layouts and
  forms, the greater part of the code by lines. They render what the modelled
  stores hold and keep widget state; a model of them would restate each `useState`
  and say nothing. This is why the share of the implementation's lines that the
  map covers is small.
* **Of the modelled browser parts**: listings that retire tallies (`listPraxes`),
  login and registration, feed pages beyond the second, the composer's title,
  media and roster, Yjs's own algorithm (a union of items is its contract), the
  squashing of stored updates, deletions of text; the error page of a praxis that
  did not load; the answer to a submission that comes when its composer has been
  left and opened anew (it would drop the new one's copy).
* **Of overlapping requests**: deadlocks of a departure.
* **Of the votes**: admin grants of budget, growth of the cap with score, the level
  gate, hiding, and the duelist's refusal (`VoteBudget` has no duel).
* Within the modelled parts: `is_done`; rulings other than visible and failed
  (hidden behaves as failed for scoring, flagged as visible); level, bank and
  same-account refusals.

---------------------------------------------------------------------------

## 7. The plan

Done: `CollabPraxis`, `LazyConsensus`, `CollabRefinement`, `ConsensusRace`,
`Duel`, `DuelRace`, `VoteBudget`, `PendingCasts`, `PraxisPage`, `ClientCache`, `PraxisRoom`, and
the proofs of section 4. Next, in this order:

1. Proofs: of `DuelRace`, what an overlap keeps of the duel row; of `ConsensusRace`,
   which properties of `CollabPraxis` survive which pairs of requests.
2. `PraxisRoom` with kicks (revocation before the commit) and with the open lock
   beside the member rows' locks, for the cycle at `praxis_room.py` 655; two
   rooms, for the task group they share.
3. `VoteBudget` with a duel, for the votes a challenge finds; admin grants and an
   era that carries spend forward.
4. `Signup`: create, accept an invite, accept a duel, with and without the
   advisory lock; one active membership per task, the bank cap.
5. `EraRollover`: lock, freeze, stats rows, commit, bind, crash between the two;
   era attribution, challenges that outlive an era.
6. `Composer`: the rest of `useEditPraxis` (autosave of the title, media, roster)
   beside the room; `DuelRace` with two duel rows; an abstract `Contest` that
   `Duel` refines.
