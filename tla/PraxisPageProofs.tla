-------------------------- MODULE PraxisPageProofs --------------------------
(***************************************************************************)
(* What holds of every rating on the praxis page, for any praxes, stars,   *)
(* choices and visits: a chosen star always has somebody to send it, and   *)
(* what stands at rest is the last star chosen.                            *)
(*                                                                         *)
(* The invariant speaks of one praxis at a time: its entry in the client's *)
(* store, its requests, its votes on the server and the star wanted last;  *)
(* a praxis whose last vote landed and was never answered promises less.   *)
(* ReadInv speaks of the reads: what each has seen, against the tallies    *)
(* it may retire.                                                          *)
(***************************************************************************)
EXTENDS PraxisPage, TLAPS

\* A praxis has at most one request out, and saving and inFlight tell of it.
OneRequest(c, q) ==
    /\ q = <<>> \/ \E r \in Request : q = <<r>>
    /\ c.saving <=> q # <<>>
    /\ c.inFlight = IF q = <<>> THEN NoStar ELSE q[1].value

\* What is unsent is the last choice; what is sent and not replaced, too.
Wants(c, q, star) ==
    /\ c.dirty => c.value = star /\ star \in Stars /\ ~c.failed
    /\ ~c.dirty /\ q # <<>> => star = q[1].value

\* An acceptance on its way carries the vote the server counts.
Counted(q, votes) ==
    q # <<>> /\ q[1].is = "accepted" =>
        votes.mine = q[1].value /\ q[1].tally.mine = q[1].value

\* Unless the last answer was lost, settled follows the server by one answer.
Settles(c, q, votes, star) ==
    /\ q = <<>> => c.settled = votes.mine
    /\ q # <<>> /\ q[1].is # "accepted" => c.settled = votes.mine
    /\ q = <<>> /\ ~c.dirty /\ ~c.failed /\ star # NoStar => c.value = star /\ c.settled = star

\* All of the invariant (sure: no answer was lost last) but that somebody will send the choice.
Sound(c, q, votes, star, sure) ==
    /\ c \in Entry
    /\ votes \in Tally
    /\ star \in AnyStar
    /\ OneRequest(c, q)
    /\ Wants(c, q, star)
    /\ Counted(q, votes)
    /\ sure => Settles(c, q, votes, star)

Awaited(c) == c.dirty => c.saving \/ c.followUp

VoteInv ==
    /\ store = [p \in Praxes |-> store[p]]
    /\ wire = [p \in Praxes |-> wire[p]]
    /\ server = [p \in Praxes |-> server[p]]
    /\ wanted = [p \in Praxes |-> wanted[p]]
    /\ \A p \in Praxes : /\ Sound(store[p], wire[p], server[p], wanted[p], p \notin lost)
                         /\ Awaited(store[p])

\* What a send does to the entry and to the requests of one praxis.
AfterSend(c) == IF MaySend(c) THEN Sent(c) ELSE c
Posted(c, q) == IF MaySend(c) THEN Append(q, Out(c.value)) ELSE q

-----------------------------------------------------------------------------
(* The handlers on one praxis.                                             *)

\* Every star on the control is a vote.
LEMMA StarsAreNoNoStar == \A s \in Stars : s # NoStar /\ s \in AnyStar
BY StarsAssumption DEF NoStar, AnyStar

\* A send leaves nothing unsent without a request that is out.
LEMMA SendKeeps ==
    ASSUME NEW c, NEW q, NEW votes, NEW star, NEW sure, Sound(c, q, votes, star, sure)
    PROVE  /\ Sound(AfterSend(c), Posted(c, q), votes, star, sure)
           /\ Awaited(AfterSend(c))
<1>1. CASE MaySend(c)
  <2>1. c.value \in Stars /\ c.value = star /\ q = <<>> /\ c \in Entry
    BY <1>1 DEF Sound, Wants, OneRequest, MaySend
  <2>2. Posted(c, q) = <<Out(c.value)>>
    BY <1>1, <2>1 DEF Posted
  <2>3. /\ Out(c.value) \in Request
        /\ Out(c.value).value = c.value
        /\ Out(c.value).is = "out"
    BY <2>1 DEF Out, Request, Tally, AnyStar
  <2>4. /\ AfterSend(c) \in Entry
        /\ AfterSend(c).saving
        /\ ~AfterSend(c).dirty
        /\ AfterSend(c).inFlight = c.value
        /\ AfterSend(c).settled = c.settled
    BY <1>1, <2>1 DEF AfterSend, Sent, Entry
  <2>5. OneRequest(AfterSend(c), Posted(c, q)) /\ Posted(c, q) # <<>> /\ Posted(c, q)[1] = Out(c.value)
    BY <2>2, <2>3, <2>4 DEF OneRequest
  <2>6. Wants(AfterSend(c), Posted(c, q), star)
    BY <2>1, <2>3, <2>4, <2>5 DEF Wants
  <2>7. sure => Settles(AfterSend(c), Posted(c, q), votes, star)
    BY <2>1, <2>3, <2>4, <2>5 DEF Settles, Sound
  <2>8. Counted(Posted(c, q), votes)
    BY <2>3, <2>5 DEF Counted
  <2> QED
    BY <2>4, <2>5, <2>6, <2>7, <2>8 DEF Sound, Awaited
<1>2. CASE ~MaySend(c)
  <2>1. c.dirty => c.saving
    BY <1>2, StarsAreNoNoStar DEF MaySend, Sound, Wants
  <2> QED
    BY <1>2, <2>1 DEF AfterSend, Posted, Awaited
<1> QED
  BY <1>1, <1>2

\* queueCast: a star that is not already heard of waits for a timer, or goes.
LEMMA QueuedKeeps ==
    ASSUME NEW c, NEW q, NEW votes, NEW star, NEW sure, Sound(c, q, votes, star, sure),
           NEW s \in Stars
    PROVE  /\ Sound(Queued(c, s), q, votes, s, sure)
           /\ ChangeOfMind(c) => Awaited(Queued(c, s))
<1> DEFINE d == Queued(c, s)
<1>1. c \in Entry /\ s # NoStar /\ s \in AnyStar
  BY StarsAreNoNoStar DEF Sound
<1>2. /\ d \in Entry
      /\ d.value = s /\ ~d.failed /\ d.dirty = ~AlreadyHeard(c, s)
      /\ d.followUp = (ChangeOfMind(c) /\ ~AlreadyHeard(c, s))
      /\ d.saving = c.saving /\ d.inFlight = c.inFlight /\ d.settled = c.settled
  BY <1>1 DEF Queued, Entry, AlreadyHeard, ChangeOfMind
<1>3. OneRequest(d, q)
  BY <1>2 DEF Sound, OneRequest
<1>4. AlreadyHeard(c, s) => IF q = <<>> THEN s = c.settled ELSE s = q[1].value
  <2>1. q # <<>> => c.inFlight = q[1].value /\ q[1].value # NoStar
    BY StarsAreNoNoStar DEF Sound, OneRequest, Request
  <2>2. q = <<>> => c.inFlight = NoStar
    BY DEF Sound, OneRequest
  <2> QED
    BY <2>1, <2>2 DEF AlreadyHeard
<1>5. Wants(d, q, s)
  BY <1>2, <1>4 DEF Wants
<1>6. sure => Settles(d, q, votes, s)
  BY <1>2, <1>4 DEF Settles, Sound
<1>7. ChangeOfMind(c) => Awaited(d)
  BY <1>2 DEF Awaited
<1> HIDE DEF d
<1> QED
  BY <1>1, <1>2, <1>3, <1>5, <1>6, <1>7 DEF Sound, d

\* Nothing but Awaited reads the timer and the window.
LEMMA TimersAreFree ==
    ASSUME NEW c, NEW q, NEW votes, NEW star, NEW sure, Sound(c, q, votes, star, sure)
    PROVE  /\ Sound([c EXCEPT !.followUp = FALSE], q, votes, star, sure)
           /\ Sound([c EXCEPT !.windowOpen = FALSE], q, votes, star, sure)
<1>1. c \in Entry
  BY DEF Sound
<1>2. ASSUME NEW d \in Entry, d.value = c.value, d.settled = c.settled, d.failed = c.failed,
             d.saving = c.saving, d.dirty = c.dirty, d.inFlight = c.inFlight
      PROVE  Sound(d, q, votes, star, sure)
  <2>1. OneRequest(d, q)
    BY <1>2 DEF Sound, OneRequest
  <2>2. Wants(d, q, star)
    BY <1>2 DEF Sound, Wants
  <2>3. sure => Settles(d, q, votes, star)
    BY <1>2 DEF Sound, Settles
  <2> QED
    BY <2>1, <2>2, <2>3 DEF Sound
<1>3. Sound([c EXCEPT !.followUp = FALSE], q, votes, star, sure)
  <2>1. [c EXCEPT !.followUp = FALSE] \in Entry
    BY <1>1 DEF Entry
  <2> QED
    BY <1>1, <1>2, <2>1 DEF Entry
<1>4. Sound([c EXCEPT !.windowOpen = FALSE], q, votes, star, sure)
  <2>1. [c EXCEPT !.windowOpen = FALSE] \in Entry
    BY <1>1 DEF Entry
  <2> QED
    BY <1>1, <1>2, <2>1 DEF Entry
<1> QED
  BY <1>3, <1>4

\* The vote lands: the server counts the star the request carries.
LEMMA AcceptingKeeps ==
    ASSUME NEW c, NEW r \in Request, NEW votes, NEW star, NEW sure,
           Sound(c, <<r>>, votes, star, sure), r.is = "out"
    PROVE  LET now == [rev |-> votes.rev + 1, mine |-> r.value]
           IN  Sound(c, <<[r EXCEPT !.is = "accepted", !.tally = now]>>, now, star, sure)
<1> DEFINE now == [rev |-> votes.rev + 1, mine |-> r.value]
           s == [r EXCEPT !.is = "accepted", !.tally = now]
<1>1. now \in Tally
  BY StarsAreNoNoStar DEF Sound, Tally, Request
<1>2. s \in Request /\ s.value = r.value /\ s.is = "accepted" /\ s.tally = now
  BY <1>1 DEF Request
<1>3. now.mine = r.value
  OBVIOUS
<1>4. <<r>> # <<>> /\ <<r>>[1] = r /\ <<s>> # <<>> /\ <<s>>[1] = s
  OBVIOUS
<1> HIDE DEF now, s
<1>5. OneRequest(c, <<s>>)
  BY <1>2, <1>4 DEF Sound, OneRequest
<1>6. Wants(c, <<s>>, star)
  BY <1>2, <1>4 DEF Sound, Wants
<1>7. Counted(<<s>>, now) /\ Settles(c, <<s>>, now, star)
  BY <1>2, <1>3, <1>4 DEF Counted, Settles
<1>8. Sound(c, <<s>>, now, star, sure)
  BY <1>1, <1>5, <1>6, <1>7 DEF Sound
<1> QED
  BY <1>8 DEF now, s

\* A refusal leaves the votes alone; so does a lost answer, but nothing is sure then.
LEMMA RefusingKeeps ==
    ASSUME NEW c, NEW r \in Request, NEW votes, NEW star, NEW sure,
           Sound(c, <<r>>, votes, star, sure)
    PROVE  LET s == [r EXCEPT !.is = "refused"]
           IN  /\ r.is = "out" => Sound(c, <<s>>, votes, star, sure)
               /\ Sound(c, <<s>>, votes, star, FALSE)
<1> DEFINE s == [r EXCEPT !.is = "refused"]
<1>1. s \in Request /\ s.value = r.value /\ s.is = "refused"
  BY DEF Request
<1>2. <<r>> # <<>> /\ <<r>>[1] = r /\ <<s>> # <<>> /\ <<s>>[1] = s
  OBVIOUS
<1> HIDE DEF s
<1>3. OneRequest(c, <<s>>)
  BY <1>1, <1>2 DEF Sound, OneRequest
<1>4. Wants(c, <<s>>, star)
  BY <1>1, <1>2 DEF Sound, Wants
<1>5. sure /\ r.is = "out" => Settles(c, <<s>>, votes, star)
  BY <1>1, <1>2 DEF Sound, Settles
<1>6. Counted(<<s>>, votes)
  BY <1>1, <1>2 DEF Counted
<1>7. /\ r.is = "out" => Sound(c, <<s>>, votes, star, sure)
      /\ Sound(c, <<s>>, votes, star, FALSE)
  BY <1>3, <1>4, <1>5, <1>6 DEF Sound
<1> QED
  BY <1>7 DEF s

\* The answer is heard, and the request is over; an acceptance tells what is counted.
LEMMA HearingKeeps ==
    ASSUME NEW c, NEW r \in Request, NEW votes, NEW star, NEW sure,
           Sound(c, <<r>>, votes, star, sure)
    PROVE  /\ r.is = "accepted" => Sound(Accepted(c, r.tally.mine), <<>>, votes, star, TRUE)
           /\ r.is = "refused" => Sound(Refused(c), <<>>, votes, star, sure)
<1>1. <<r>> # <<>> /\ <<r>>[1] = r
  OBVIOUS
<1>2. c \in Entry /\ r.tally.mine \in AnyStar
  BY DEF Sound, Request, Tally
<1>3. ASSUME r.is = "accepted"
      PROVE  Sound(Accepted(c, r.tally.mine), <<>>, votes, star, TRUE)
  <2> DEFINE d == Accepted(c, r.tally.mine)
  <2>1. /\ d \in Entry
        /\ ~d.saving /\ d.inFlight = NoStar /\ d.dirty = c.dirty /\ d.failed = c.failed
        /\ d.settled = r.tally.mine
        /\ d.value = IF c.dirty THEN c.value ELSE r.tally.mine
    BY <1>2 DEF Accepted, Entry, AnyStar, NoStar
  <2> HIDE DEF d
  <2>2. OneRequest(d, <<>>)
    BY <2>1 DEF OneRequest
  <2>3. Wants(d, <<>>, star)
    BY <2>1 DEF Sound, Wants
  <2>4. Counted(<<>>, votes) /\ Settles(d, <<>>, votes, star)
    BY <1>1, <1>3, <2>1 DEF Sound, Counted, Settles, Wants
  <2>5. Sound(d, <<>>, votes, star, TRUE)
    BY <2>1, <2>2, <2>3, <2>4 DEF Sound
  <2> QED
    BY <2>5 DEF d
<1>4. ASSUME r.is = "refused"
      PROVE  Sound(Refused(c), <<>>, votes, star, sure)
  <2> DEFINE d == Refused(c)
  <2>1. /\ d \in Entry
        /\ ~d.saving /\ d.inFlight = NoStar /\ d.dirty = c.dirty /\ d.settled = c.settled
        /\ d.dirty => d.value = c.value /\ d.failed = c.failed
        /\ ~d.dirty => d.failed
    BY <1>2 DEF Refused, Entry, AnyStar, NoStar
  <2> HIDE DEF d
  <2>2. OneRequest(d, <<>>)
    BY <2>1 DEF OneRequest
  <2>3. Wants(d, <<>>, star)
    BY <2>1 DEF Sound, Wants
  <2>4. Counted(<<>>, votes) /\ (sure => Settles(d, <<>>, votes, star))
    BY <1>1, <1>4, <2>1 DEF Sound, Counted, Settles
  <2>5. Sound(d, <<>>, votes, star, sure)
    BY <2>1, <2>2, <2>3, <2>4 DEF Sound
  <2> QED
    BY <2>5 DEF d
<1> QED
  BY <1>3, <1>4

-----------------------------------------------------------------------------
(* The actions.                                                            *)

\* A step that changes one praxis keeps the invariant if it keeps it there.
LEMMA OnePraxis ==
    ASSUME VoteInv, NEW p \in Praxes, NEW c, NEW q, NEW votes, NEW star,
           Sound(c, q, votes, star, p \notin lost'), lost' \ {p} = lost \ {p}, Awaited(c),
           store' = [store EXCEPT ![p] = c], wire' = [wire EXCEPT ![p] = q],
           server' = [server EXCEPT ![p] = votes], wanted' = [wanted EXCEPT ![p] = star]
    PROVE  VoteInv'
<1>1. /\ store' = [r \in Praxes |-> IF r = p THEN c ELSE store[r]]
      /\ wire' = [r \in Praxes |-> IF r = p THEN q ELSE wire[r]]
      /\ server' = [r \in Praxes |-> IF r = p THEN votes ELSE server[r]]
      /\ wanted' = [r \in Praxes |-> IF r = p THEN star ELSE wanted[r]]
  BY DEF VoteInv
<1>2. /\ Sound(store'[p], wire'[p], server'[p], wanted'[p], p \notin lost')
      /\ Awaited(store'[p])
  BY <1>1
<1>3. ASSUME NEW r \in Praxes, r # p
      PROVE  /\ Sound(store'[r], wire'[r], server'[r], wanted'[r], r \notin lost')
             /\ Awaited(store'[r])
  <2>1. r \notin lost' <=> r \notin lost
    BY <1>3
  <2>2. Sound(store[r], wire[r], server[r], wanted[r], r \notin lost) /\ Awaited(store[r])
    BY DEF VoteInv
  <2>3. Sound(store[r], wire[r], server[r], wanted[r], r \notin lost')
    BY <2>1, <2>2 DEF Sound
  <2> QED
    BY <1>1, <1>3, <2>2, <2>3
<1> QED
  BY <1>1, <1>2, <1>3 DEF VoteInv

\* What stays is the praxis's own value written back.
LEMMA Rewritten ==
    ASSUME VoteInv, NEW p \in Praxes
    PROVE  /\ store = [store EXCEPT ![p] = store[p]]
           /\ wire = [wire EXCEPT ![p] = wire[p]]
           /\ server = [server EXCEPT ![p] = server[p]]
           /\ wanted = [wanted EXCEPT ![p] = wanted[p]]
BY DEF VoteInv

\* send posts what the entry holds unsent.
LEMMA SendStep ==
    ASSUME VoteInv, NEW p \in Praxes, NEW c, NEW q, Send(p, c, q)
    PROVE  store' = [store EXCEPT ![p] = AfterSend(c)] /\ wire' = [wire EXCEPT ![p] = Posted(c, q)]
BY DEF Send, AfterSend, Posted

\* Sending a sound entry keeps the invariant, whatever it held.
LEMMA SendingKeeps ==
    ASSUME VoteInv, NEW p \in Praxes, NEW c, NEW q, NEW votes, NEW star,
           Sound(c, q, votes, star, p \notin lost'), lost' \ {p} = lost \ {p}, Send(p, c, q),
           server' = [server EXCEPT ![p] = votes], wanted' = [wanted EXCEPT ![p] = star]
    PROVE  VoteInv'
<1> DEFINE d == AfterSend(c)
           r == Posted(c, q)
<1>1. Sound(d, r, votes, star, p \notin lost') /\ Awaited(d)
  BY SendKeeps
<1>2. store' = [store EXCEPT ![p] = d] /\ wire' = [wire EXCEPT ![p] = r]
  BY SendStep
<1> HIDE DEF d, r
<1> QED
  BY <1>1, <1>2, OnePraxis

\* A chosen star is held, sent, or queued behind the request that is out.
LEMMA ChooseKeeps ==
    ASSUME VoteInv, NEW p \in Praxes, NEW s \in Stars, Choose(p, s) PROVE VoteInv'
<1> DEFINE c == store[p]
<1>1. /\ Sound(Queued(c, s), wire[p], server[p], s, p \notin lost)
      /\ ChangeOfMind(c) => Awaited(Queued(c, s))
  BY QueuedKeeps DEF VoteInv
<1>2. /\ wanted' = [wanted EXCEPT ![p] = s] /\ server' = [server EXCEPT ![p] = server[p]]
      /\ lost' = lost
  BY Rewritten DEF Choose
<1>3. CASE ChangeOfMind(c)
  <2>1. store' = [store EXCEPT ![p] = Queued(c, s)] /\ wire' = [wire EXCEPT ![p] = wire[p]]
    BY <1>3, Rewritten DEF Choose
  <2> QED
    BY <1>1, <1>2, <1>3, <2>1, OnePraxis
<1>4. CASE ~ChangeOfMind(c)
  <2>1. Send(p, Queued(c, s), wire[p])
    BY <1>4 DEF Choose
  <2> QED
    BY <1>1, <1>2, <2>1, SendingKeeps
<1> QED
  BY <1>3, <1>4

\* The change-of-mind window closes and the held star goes out.
LEMMA WindowShutsKeeps == ASSUME VoteInv, NEW p \in Praxes, WindowShuts(p) PROVE VoteInv'
<1> DEFINE c == [store[p] EXCEPT !.windowOpen = FALSE]
<1>1. Sound(c, wire[p], server[p], wanted[p], p \notin lost)
  BY TimersAreFree DEF VoteInv
<1>2. Awaited(c)
  BY DEF VoteInv, Sound, Awaited, Entry
<1>3. /\ store' = [store EXCEPT ![p] = c]
      /\ wire' = [wire EXCEPT ![p] = wire[p]]
      /\ server' = [server EXCEPT ![p] = server[p]]
      /\ wanted' = [wanted EXCEPT ![p] = wanted[p]]
      /\ lost' = lost
  BY Rewritten DEF WindowShuts
<1> HIDE DEF c
<1> QED
  BY <1>1, <1>2, <1>3, OnePraxis

\* The follow-up timer sends the star chosen while a request was out.
LEMMA FollowUpFiresKeeps == ASSUME VoteInv, NEW p \in Praxes, FollowUpFires(p) PROVE VoteInv'
<1> DEFINE c == [store[p] EXCEPT !.followUp = FALSE]
<1>1. Sound(c, wire[p], server[p], wanted[p], p \notin lost)
  BY TimersAreFree DEF VoteInv
<1>2. Send(p, c, wire[p])
  BY DEF FollowUpFires
<1>3. /\ server' = [server EXCEPT ![p] = server[p]] /\ wanted' = [wanted EXCEPT ![p] = wanted[p]]
      /\ lost' = lost
  BY Rewritten DEF FollowUpFires
<1> HIDE DEF c
<1> QED
  BY <1>1, <1>2, <1>3, SendingKeeps

\* A flush sends every held star at once and drops none.
LEMMA FlushKeepsVotes == ASSUME VoteInv, NEW P, Flush(P) PROVE VoteInv'
<1>1. ASSUME NEW p \in Praxes
      PROVE  /\ Sound(store'[p], wire'[p], server'[p], wanted'[p], p \notin lost')
             /\ Awaited(store'[p])
  <2> DEFINE c == [store[p] EXCEPT !.followUp = FALSE]
  <2>1. Sound(c, wire[p], server[p], wanted[p], p \notin lost)
    BY TimersAreFree DEF VoteInv
  <2>2. MaySend(c) = MaySend(store[p]) /\ c.value = store[p].value
    BY DEF MaySend, VoteInv, Sound, Entry
  <2>3. CASE p \in P
    <3>1. store'[p] = AfterSend(c) /\ wire'[p] = Posted(c, wire[p])
      BY <2>2, <2>3 DEF Flush, FlushedBy, AfterSend, Posted
    <3>2. /\ Sound(AfterSend(c), Posted(c, wire[p]), server[p], wanted[p], p \notin lost)
          /\ Awaited(AfterSend(c))
      BY <2>1, SendKeeps
    <3>3. server' = server /\ wanted' = wanted /\ lost' = lost
      BY DEF Flush
    <3> HIDE DEF c
    <3> QED
      BY <3>1, <3>2, <3>3
  <2>4. CASE p \notin P
    BY <2>4 DEF Flush, VoteInv
  <2> QED
    BY <2>3, <2>4
<1> QED
  BY <1>1 DEF Flush, VoteInv

\* The only request of a praxis.
LEMMA TheRequest ==
    ASSUME VoteInv, NEW p \in Praxes, NEW i \in DOMAIN wire[p]
    PROVE  /\ i = 1
           /\ wire[p][i] \in Request
           /\ wire[p] = <<wire[p][i]>>
           /\ Remaining(p, i) = <<>>
<1>1. PICK r \in Request : wire[p] = <<r>>
  BY DEF VoteInv, Sound, OneRequest
<1>2. i = 1 /\ wire[p][i] = r
  BY <1>1
<1>3. Remaining(p, i) = <<>>
  BY <1>1, <1>2 DEF Remaining
<1> QED
  BY <1>1, <1>2, <1>3

\* The server accepts or refuses, or its answer is lost, of a request that is out.
LEMMA ServesKeeps == ASSUME VoteInv, NEW p \in Praxes, Serves(p) \/ Loses(p) PROVE VoteInv'
<1>1. PICK i \in DOMAIN wire[p] : ServerAccepts(p, i) \/ ServerRefuses(p, i) \/ AnswerIsLost(p, i)
  BY DEF Serves, Loses
<1> DEFINE r == wire[p][i]
<1>2. /\ i = 1 /\ r \in Request /\ wire[p] = <<r>>
      /\ Sound(store[p], <<r>>, server[p], wanted[p], p \notin lost)
  BY TheRequest DEF VoteInv
<1>3. Awaited(store[p])
  BY DEF VoteInv
<1>4. store' = [store EXCEPT ![p] = store[p]] /\ wanted' = [wanted EXCEPT ![p] = wanted[p]]
  BY <1>1, Rewritten DEF ServerAccepts, ServerRefuses, AnswerIsLost
<1>5. CASE ServerAccepts(p, i)
  <2> DEFINE now == [rev |-> server[p].rev + 1, mine |-> r.value]
             s == [r EXCEPT !.is = "accepted", !.tally = now]
  <2>1. server' = [server EXCEPT ![p] = now]
    BY <1>5 DEF ServerAccepts
  <2>2. wire' = [wire EXCEPT ![p] = <<s>>]
    <3>1. wire' = [wire EXCEPT ![p] = [wire[p] EXCEPT ![1] = s]]
      BY <1>2, <1>5 DEF ServerAccepts, VoteInv
    <3>2. [wire[p] EXCEPT ![1] = s] = <<s>>
      BY <1>2
    <3> QED
      BY <3>1, <3>2
  <2>3. lost' = lost /\ Sound(store[p], <<s>>, now, wanted[p], p \notin lost)
    BY <1>2, <1>5, AcceptingKeeps DEF ServerAccepts
  <2> HIDE DEF now, s
  <2> QED
    BY <1>3, <1>4, <2>1, <2>2, <2>3, OnePraxis
<1>6. CASE ServerRefuses(p, i) \/ AnswerIsLost(p, i)
  <2> DEFINE s == [r EXCEPT !.is = "refused"]
  <2>1. server' = [server EXCEPT ![p] = server[p]]
    BY <1>6, Rewritten DEF ServerRefuses, AnswerIsLost
  <2>2. wire' = [wire EXCEPT ![p] = <<s>>]
    <3>1. wire' = [wire EXCEPT ![p] = [wire[p] EXCEPT ![1] = s]]
      BY <1>2, <1>6 DEF ServerRefuses, AnswerIsLost, VoteInv
    <3>2. [wire[p] EXCEPT ![1] = s] = <<s>>
      BY <1>2
    <3> QED
      BY <3>1, <3>2
  <2>3. /\ Sound(store[p], <<s>>, server[p], wanted[p], p \notin lost')
        /\ lost' \ {p} = lost \ {p}
    <3>1. /\ r.is = "out" => Sound(store[p], <<s>>, server[p], wanted[p], p \notin lost)
          /\ Sound(store[p], <<s>>, server[p], wanted[p], FALSE)
      BY <1>2, RefusingKeeps
    <3>2. CASE ServerRefuses(p, i)
      BY <3>1, <3>2 DEF ServerRefuses
    <3>3. CASE AnswerIsLost(p, i)
      <4>1. (p \notin lost') = FALSE /\ lost' \ {p} = lost \ {p}
        BY <3>3 DEF AnswerIsLost
      <4> QED
        BY <3>1, <4>1 DEF Sound
    <3> QED
      BY <1>6, <3>2, <3>3
  <2> HIDE DEF s
  <2> QED
    BY <1>3, <1>4, <2>1, <2>2, <2>3, OnePraxis
<1> QED
  BY <1>1, <1>5, <1>6

\* The client hears an acceptance or a refusal.
LEMMA HearsKeeps == ASSUME VoteInv, NEW p \in Praxes, Hears(p) PROVE VoteInv'
<1>1. PICK i \in DOMAIN wire[p] : HearAccepted(p, i) \/ HearRefused(p, i)
  BY DEF Hears
<1> DEFINE r == wire[p][i]
<1>2. /\ r \in Request /\ Remaining(p, i) = <<>>
      /\ Sound(store[p], <<r>>, server[p], wanted[p], p \notin lost)
  BY TheRequest DEF VoteInv
<1>3. server' = [server EXCEPT ![p] = server[p]] /\ wanted' = [wanted EXCEPT ![p] = wanted[p]]
  BY <1>1, Rewritten DEF HearAccepted, HearRefused
<1>4. PICK c : /\ Answered(p, i, c) /\ Sound(c, <<>>, server[p], wanted[p], p \notin lost')
               /\ lost' \ {p} = lost \ {p}
  <2>1. CASE HearAccepted(p, i)
    <3>1. Sound(Accepted(store[p], r.tally.mine), <<>>, server[p], wanted[p], TRUE)
      BY <1>2, <2>1, HearingKeeps DEF HearAccepted
    <3>2. (p \notin lost') = TRUE /\ lost' \ {p} = lost \ {p}
      BY <2>1 DEF HearAccepted
    <3>3. Sound(Accepted(store[p], r.tally.mine), <<>>, server[p], wanted[p], p \notin lost')
      BY <3>1, <3>2 DEF Sound
    <3> QED
      BY <2>1, <3>2, <3>3 DEF HearAccepted
  <2>2. CASE HearRefused(p, i)
    <3>1. Sound(Refused(store[p]), <<>>, server[p], wanted[p], p \notin lost)
      BY <1>2, <2>2, HearingKeeps DEF HearRefused
    <3> QED
      BY <2>2, <3>1 DEF HearRefused
  <2> QED
    BY <1>1, <2>1, <2>2
<1>5. CASE c.followUp
  <2>1. store' = [store EXCEPT ![p] = c] /\ wire' = [wire EXCEPT ![p] = <<>>]
    BY <1>2, <1>4, <1>5 DEF Answered
  <2>2. Awaited(c)
    BY <1>5 DEF Awaited
  <2> QED
    BY <1>3, <1>4, <2>1, <2>2, OnePraxis
<1>6. CASE ~c.followUp
  <2>1. Send(p, c, <<>>)
    BY <1>2, <1>4, <1>6 DEF Answered
  <2> QED
    BY <1>3, <1>4, <2>1, SendingKeeps
<1> QED
  BY <1>5, <1>6

\* A step that leaves votes, entries and requests alone.
LEMMA ElsewhereKeeps ==
    ASSUME VoteInv, UNCHANGED <<server, store, wire, wanted, lost>> PROVE VoteInv'
  BY DEF VoteInv

\* Reads change what the page shows, and flush at most.
LEMMA ReadingKeeps == ASSUME VoteInv, NEW r \in reads, Reading(r) PROVE VoteInv'
<1>1. CASE ReadServed(r) \/ ReadFails(r)
  BY <1>1, ElsewhereKeeps DEF ReadServed, ReadFails, castVars
<1>2. CASE HearPraxis(r) \/ HearDuel(r)
  BY <1>2, ElsewhereKeeps DEF HearPraxis, HearDuel
<1>3. CASE Land(r)
  BY <1>3, FlushKeepsVotes DEF Land
<1> QED
  BY <1>1, <1>2, <1>3 DEF Reading

\* The praxis on show, and those the reads ask for, are praxes.
Shows == page = NoPage \/ page.praxis \in Praxes
Asks == \A r \in reads : r.praxis \in Praxes /\ "praxis" \in DOMAIN r

PageInv == VoteInv /\ Shows /\ Asks

\* Reads answered, failed or replaced still ask for the praxes they asked for.
LEMMA ReadingShows == ASSUME Shows, Asks, NEW r \in reads, Reading(r) PROVE Shows' /\ Asks'
<1>1. ASSUME NEW is, NEW saw
      PROVE  LET s == [r EXCEPT !.is = is, !.saw = saw]
             IN  s.praxis = r.praxis /\ DOMAIN s = DOMAIN r
  BY Zenon DEF Asks
<1>2. ASSUME NEW is
      PROVE  LET s == [r EXCEPT !.is = is] IN s.praxis = r.praxis /\ DOMAIN s = DOMAIN r
  BY Zenon DEF Asks
<1>4. CASE ReadServed(r) \/ ReadFails(r)
  BY <1>1, <1>4 DEF ReadServed, ReadFails, Replace, Shows, Asks
<1>5. CASE HearPraxis(r) \/ HearDuel(r)
  BY <1>2, <1>5 DEF HearPraxis, HearDuel, Replace, Shows, Asks
<1>3. CASE Land(r)
  <2>1. page'.praxis = r.praxis /\ r.praxis \in Praxes
    BY <1>3 DEF Land, Asks
  <2>2. LET n == NewRead("duel", r.praxis, r.visit, r.mount)
        IN  n.praxis = r.praxis /\ "praxis" \in DOMAIN n
    BY DEF NewRead
  <2>3. \A s \in reads' : s \in reads \/ s = NewRead("duel", r.praxis, r.visit, r.mount)
    BY <1>3 DEF Land, Replace
  <2> QED
    BY <2>1, <2>2, <2>3 DEF Shows, Asks
<1> QED
  BY <1>3, <1>4, <1>5 DEF Reading

\* Every step of the page keeps the invariant.
LEMMA PageStep == ASSUME PageInv, [PageNext]_allVars PROVE PageInv'
<1> USE DEF PageInv
<1>1. CASE UNCHANGED allVars
  BY <1>1, ElsewhereKeeps DEF allVars, castVars, pageVars, Shows, Asks
<1>2. ASSUME NEW p \in Praxes, Open(p)
      PROVE  PageInv'
  <2>1. VoteInv'
    BY <1>2, FlushKeepsVotes DEF Open
  <2>2. \A m : LET n == NewRead("praxis", p, visit + 1, m) IN n.praxis = p /\ "praxis" \in DOMAIN n
    BY DEF NewRead
  <2>3. Shows' /\ Asks'
    BY <1>2, <2>2 DEF Open, Shows, Asks
  <2> QED
    BY <2>1, <2>3
<1>3. CASE Leave
  <2>1. VoteInv'
    BY <1>3, FlushKeepsVotes DEF Leave
  <2>2. Shows' /\ Asks'
    BY <1>3 DEF Leave, Shows, Asks
  <2> QED
    BY <2>1, <2>2
<1>4. ASSUME NEW s \in Stars, Rate(s)
      PROVE  PageInv'
  <2>1. page.praxis \in Praxes
    BY <1>4 DEF Rate, Shows
  <2>2. VoteInv'
    BY <1>4, <2>1, ChooseKeeps DEF Rate
  <2>3. Shows' /\ Asks'
    BY <1>4 DEF Rate, pageVars, Shows, Asks
  <2> QED
    BY <2>2, <2>3
<1>5. ASSUME NEW p \in Praxes, Background(p), UNCHANGED pageVars
      PROVE  PageInv'
  <2>1. VoteInv'
    BY <1>5, WindowShutsKeeps, FollowUpFiresKeeps, ServesKeeps, HearsKeeps DEF Background
  <2>2. Shows' /\ Asks'
    BY <1>5 DEF pageVars, Shows, Asks
  <2> QED
    BY <2>1, <2>2
<1>6. ASSUME NEW r \in reads, Reading(r)
      PROVE  PageInv'
  BY <1>6, ReadingKeeps, ReadingShows
<1> QED
  BY <1>1, <1>2, <1>3, <1>4, <1>5, <1>6 DEF PageNext

\* Nothing is chosen, sent or shown at first.
LEMMA PageStart == PageInit => PageInv
<1> SUFFICES ASSUME PageInit PROVE PageInv
  OBVIOUS
<1>1. NoEntry \in Entry /\ [rev |-> 0, mine |-> NoStar] \in Tally /\ NoStar \in AnyStar
  BY DEF NoEntry, Entry, Tally, AnyStar
<1>2. \A p \in Praxes : Sound(store[p], wire[p], server[p], wanted[p], p \notin lost) /\ Awaited(store[p])
  BY <1>1 DEF PageInit, CastInit, Sound, Awaited, OneRequest, Wants, Counted, Settles, NoEntry
<1>3. VoteInv
  BY <1>2 DEF PageInit, CastInit, VoteInv
<1>4. Shows /\ Asks
  BY DEF PageInit, Shows, Asks
<1> QED
  BY <1>3, <1>4 DEF PageInv

-----------------------------------------------------------------------------
(* The tallies: recorded by an answer, retired by a read.                  *)

\* The tally of a praxis names the star that stands, or one is on its way.
Counts(p) ==
    p \notin lost /\ tallies[p] # NoTally =>
        \/ wire[p] # <<>> /\ wire[p][1].is = "accepted"
        \/ tallies[p].mine = server[p].mine

TallyInv == tallies = [p \in Praxes |-> tallies[p]] /\ \A p \in Praxes : Counts(p)

\* No read makes up a tally.
LEMMA ReadsOnlyRetire ==
    ASSUME TallyInv, NEW r \in reads, Reading(r)
    PROVE  /\ tallies' = [p \in Praxes |-> tallies'[p]]
           /\ \A p \in Praxes : tallies'[p] = NoTally \/ tallies'[p] = tallies[p]
<1>1. CASE ReadServed(r) \/ ReadFails(r) \/ Land(r)
  BY <1>1 DEF ReadServed, ReadFails, Land, Flush, castVars, TallyInv
<1>2. CASE HearPraxis(r) \/ HearDuel(r)
  BY <1>2 DEF HearPraxis, HearDuel
<1> QED
  BY <1>1, <1>2 DEF Reading

\* A step that leaves the votes alone and accepts, loses and records nothing.
Idle(p) ==
    /\ server'[p] = server[p]
    /\ p \notin lost' => p \notin lost
    /\ tallies'[p] = NoTally \/ tallies'[p] = tallies[p]
    /\ wire[p] # <<>> /\ wire[p][1].is = "accepted" => wire'[p] = wire[p]

LEMMA IdleCounts == ASSUME NEW p \in Praxes, Counts(p), Idle(p) PROVE Counts(p)'
  BY DEF Counts, Idle

\* A send appends to nothing: no other request is out.
LEMMA SendingIdles ==
    ASSUME VoteInv, NEW P, Flush(P), NEW p \in Praxes
    PROVE  /\ server' = server /\ lost' = lost
           /\ wire[p] # <<>> => wire'[p] = wire[p]
<1>1. wire[p] # <<>> => ~MaySend(store[p])
  BY DEF VoteInv, Sound, OneRequest, MaySend
<1> QED
  BY <1>1 DEF Flush, VoteInv

\* Choosing posts at most one request, where none was out.
LEMMA ChoosingIdles ==
    ASSUME VoteInv, NEW p \in Praxes, NEW s \in Stars, Choose(p, s), NEW t \in Praxes
    PROVE  /\ server' = server /\ lost' = lost /\ tallies' = tallies
           /\ wire[t] # <<>> => wire'[t] = wire[t]
<1>1. ~ChangeOfMind(store[p]) => wire[p] = <<>>
  BY DEF VoteInv, Sound, OneRequest, ChangeOfMind
<1>2. wire' # wire => ~ChangeOfMind(store[p])
  BY DEF Choose
<1>3. wire' = wire \/ \E w : wire' = [wire EXCEPT ![p] = w]
  BY DEF Choose, Send
<1> QED
  BY <1>1, <1>2, <1>3 DEF Choose, VoteInv

\* What goes on by itself keeps the tallies true.
LEMMA BackgroundCounts ==
    ASSUME VoteInv, TallyInv, NEW p \in Praxes, Background(p) PROVE TallyInv'
<1> USE DEF VoteInv
<1>1. CASE WindowShuts(p)
  BY <1>1 DEF WindowShuts, TallyInv, Counts
<1>2. CASE FollowUpFires(p)
  <2> DEFINE c == [store[p] EXCEPT !.followUp = FALSE]
  <2>1. MaySend(c) => wire[p] = <<>>
    BY DEF Sound, OneRequest, MaySend, Entry
  <2>2. wire' = [wire EXCEPT ![p] = Posted(c, wire[p])]
    BY <1>2, SendStep DEF FollowUpFires
  <2>3. wire[p] # <<>> => wire' = wire
    BY <2>1, <2>2 DEF Posted
  <2>4. server' = server /\ lost' = lost /\ tallies' = tallies
    BY <1>2 DEF FollowUpFires
  <2>5. \A t \in Praxes : wire[t] # <<>> => wire'[t] = wire[t]
    BY <2>2, <2>3
  <2> HIDE DEF c
  <2> QED
    BY <2>4, <2>5, IdleCounts DEF TallyInv, Idle
<1>3. ASSUME NEW i \in DOMAIN wire[p],
             \/ ServerAccepts(p, i) \/ ServerRefuses(p, i) \/ AnswerIsLost(p, i)
             \/ HearAccepted(p, i) \/ HearRefused(p, i)
      PROVE  TallyInv'
  <2> DEFINE r == wire[p][i]
  <2>1. i = 1 /\ r \in Request /\ wire[p] = <<r>> /\ Remaining(p, i) = <<>>
    BY TheRequest
  <2>2. tallies' = [t \in Praxes |-> tallies'[t]]
    BY <1>3 DEF TallyInv, ServerAccepts, ServerRefuses, AnswerIsLost, HearAccepted, HearRefused
  <2>3. ASSUME NEW t \in Praxes, t # p
        PROVE  Counts(t)'
    <3>1. wire'[t] = wire[t] /\ server'[t] = server[t]
      BY <1>3, <2>3 DEF ServerAccepts, ServerRefuses, AnswerIsLost, HearAccepted, HearRefused,
                        Answered, Send
    <3>2. tallies'[t] = tallies[t] /\ (t \notin lost' => t \notin lost)
      BY <1>3, <2>3 DEF TallyInv, ServerAccepts, ServerRefuses, AnswerIsLost, HearAccepted,
                        HearRefused
    <3> QED
      BY <3>1, <3>2, IdleCounts DEF TallyInv, Idle
  <2>4. Counts(p)'
    <3>1. CASE ServerAccepts(p, i)
      <4> DEFINE now == [rev |-> server[p].rev + 1, mine |-> r.value]
      <4>1. wire'[p] = [wire[p] EXCEPT ![1] = 
                                [r EXCEPT !.is = "accepted", !.tally = now]]
        BY <2>1, <3>1 DEF ServerAccepts
      <4>2. wire'[p] # <<>> /\ wire'[p][1].is = "accepted"
        BY <2>1, <4>1 DEF Request
      <4> QED
        BY <4>2 DEF Counts
    <3>2. CASE ServerRefuses(p, i)
      <4>1. wire[p][1].is # "accepted"
        BY <2>1, <3>2 DEF ServerRefuses
      <4> QED
        BY <3>2, <4>1, IdleCounts DEF ServerRefuses, Idle, TallyInv
    <3>3. CASE AnswerIsLost(p, i)
      BY <3>3 DEF AnswerIsLost, Counts
    <3>4. CASE HearAccepted(p, i)
      <4>1. r.is = "accepted" /\ server'[p] = server[p]
        BY <3>4 DEF HearAccepted
      <4>2. tallies'[p].mine = r.tally.mine
        BY <3>4 DEF HearAccepted, Recorded, TallyInv
      <4>3. r.tally.mine = server[p].mine
        BY <2>1, <4>1 DEF Sound, Counted
      <4> QED
        BY <4>1, <4>2, <4>3 DEF Counts
    <3>5. CASE HearRefused(p, i)
      <4>1. wire[p][1].is # "accepted"
        BY <2>1, <3>5 DEF HearRefused
      <4> QED
        BY <3>5, <4>1, IdleCounts DEF HearRefused, Idle, TallyInv
    <3> QED
      BY <1>3, <3>1, <3>2, <3>3, <3>4, <3>5
  <2> QED
    BY <2>2, <2>3, <2>4 DEF TallyInv
<1> QED
  BY <1>1, <1>2, <1>3 DEF Background, Serves, Loses, Hears

\* Every step of the page keeps the tallies true.
LEMMA TallyStep == ASSUME PageInv, TallyInv, [PageNext]_allVars PROVE TallyInv'
<1>1. VoteInv
  BY DEF PageInv
<1>2. CASE UNCHANGED allVars
  BY <1>2 DEF allVars, castVars, TallyInv, Counts
<1>3. ASSUME (\E p \in Praxes : Open(p)) \/ Leave
      PROVE  TallyInv'
  <2>1. Flush(Praxes) /\ tallies' = tallies
    BY <1>3 DEF Open, Leave, Flush
  <2>2. \A p \in Praxes : Idle(p)
    BY <1>1, <2>1, SendingIdles DEF Idle
  <2> QED
    BY <2>1, <2>2, IdleCounts DEF TallyInv
<1>4. ASSUME NEW s \in Stars, Rate(s)
      PROVE  TallyInv'
  <2>1. page.praxis \in Praxes /\ Choose(page.praxis, s)
    BY <1>4 DEF Rate, PageInv, Shows
  <2>2. \A p \in Praxes : tallies' = tallies /\ Idle(p)
    BY <1>1, <2>1, ChoosingIdles DEF Idle
  <2>3. tallies' = tallies
    BY <2>1 DEF Choose
  <2> QED
    BY <2>2, <2>3, IdleCounts DEF TallyInv
<1>5. ASSUME NEW p \in Praxes, Background(p)
      PROVE  TallyInv'
  BY <1>1, <1>5, BackgroundCounts
<1>6. ASSUME NEW r \in reads, Reading(r)
      PROVE  TallyInv'
  <2>1. \A p \in Praxes : /\ server'[p] = server[p] /\ lost' = lost
                          /\ wire[p] # <<>> => wire'[p] = wire[p]
    <3>1. CASE Land(r)
      BY <1>1, <3>1, SendingIdles DEF Land
    <3>2. CASE ~Land(r)
      BY <1>6, <3>2 DEF Reading, ReadServed, ReadFails, HearPraxis, HearDuel, castVars
    <3> QED
      BY <3>1, <3>2
  <2>2. \A p \in Praxes : Idle(p)
    BY <1>6, <2>1, ReadsOnlyRetire DEF Idle
  <2> QED
    BY <1>6, <2>2, IdleCounts, ReadsOnlyRetire DEF TallyInv
<1> QED
  BY <1>2, <1>3, <1>4, <1>5, <1>6 DEF PageNext

-----------------------------------------------------------------------------
(* The reads: what each saw, against the tally it may retire.              *)

\* The client has heard of no later vote than the server counts.
Behind(p) ==
    /\ tallies[p].rev <= server[p].rev
    /\ wire[p] # <<>> => wire[p][1].tally.rev <= server[p].rev

\* A tally that a served read would retire, the read has seen.
SawWhatItRetires(r) ==
    r.is # "asked" =>
        \A p \in Praxes : tallies[p] # NoTally /\ Retires(p, r)
                            => tallies[p].rev <= r.saw[p].rev

Sees(r) == r \in Read /\ r.asked <= clock /\ SawWhatItRetires(r)

\* The clock and the tallies it stamps.
Stamps ==
    /\ clock \in Nat
    /\ lost \subseteq Praxes
    /\ tallies \in [Praxes -> [rev : Nat, mine : AnyStar, at : 0..clock]]

\* The component on show was mounted by a visit.
Stays ==
    /\ visit \in 0..MaxVisits
    /\ route \in Praxes \cup {Elsewhere}
    /\ mounted \in 0..visit
    /\ route # Elsewhere => mounted # 0

Payloads ==
    /\ page \in [praxis : Praxes \cup {Elsewhere}, star : AnyStar]
    /\ duelCard \in [read : BOOLEAN, star : [Praxes -> AnyStar]]

ReadInv ==
    /\ Stamps /\ Stays /\ Payloads
    /\ \A p \in Praxes : Behind(p)
    /\ \A r \in reads : Sees(r)

\* Time passes, a tally is retired or recorded at the tick after: what a read saw
\* still bears comparison.
LEMMA StillSees ==
    ASSUME NEW r, Sees(r), clock \in Nat, clock' \in Nat, clock' >= clock,
           \A p \in Praxes : \/ tallies'[p] = NoTally \/ tallies'[p] = tallies[p]
                             \/ tallies'[p].at = clock + 1
    PROVE  Sees(r)'
<1>1. r.asked \in Nat /\ r.asked <= clock
  BY DEF Sees, Read
<1>2. ASSUME NEW p \in Praxes, r.is # "asked", tallies'[p] # NoTally, Retires(p, r)'
      PROVE  tallies'[p].rev <= r.saw[p].rev
  <2>1. tallies'[p].at <= r.asked
    BY <1>2 DEF Retires
  <2>2. tallies'[p] = tallies[p]
    BY <1>1, <1>2, <2>1
  <2>3. Retires(p, r)
    BY <1>2, <2>2 DEF Retires
  <2> QED
    BY <1>2, <2>2, <2>3 DEF Sees, SawWhatItRetires
<1> QED
  BY <1>1, <1>2 DEF Sees, SawWhatItRetires

\* A step that counts no vote and hears none: what is posted was not yet served.
LEMMA NoVoteCounted ==
    ASSUME NEW p \in Praxes, Behind(p), server'[p] = server[p], tallies'[p] = tallies[p],
           \/ wire'[p] = wire[p] \/ wire'[p] = <<>>
           \/ \E s : wire'[p] = <<Out(s)>> /\ server[p].rev \in Nat
    PROVE  Behind(p)'
<1>1. \A s : Out(s).tally.rev = 0 /\ <<Out(s)>>[1] = Out(s)
  BY DEF Out
<1> QED
  BY <1>1 DEF Behind

\* A flush posts where nothing was out.
LEMMA FlushPosts ==
    ASSUME VoteInv, NEW P, Flush(P), NEW p \in Praxes
    PROVE  wire'[p] = wire[p] \/ \E s : wire'[p] = <<Out(s)>> /\ server[p].rev \in Nat
<1>1. MaySend(store[p]) => wire[p] = <<>>
  BY DEF VoteInv, Sound, OneRequest, MaySend
<1>2. server[p].rev \in Nat
  BY DEF VoteInv, Sound, Tally
<1>3. wire'[p] = IF p \in P /\ MaySend(store[p])
                 THEN Append(wire[p], Out(store[p].value)) ELSE wire[p]
  BY DEF Flush
<1>4. Append(<<>>, Out(store[p].value)) = <<Out(store[p].value)>>
  OBVIOUS
<1> QED
  BY <1>1, <1>2, <1>3, <1>4

\* So does a send.
LEMMA SendPosts ==
    ASSUME VoteInv, NEW p \in Praxes, NEW c, NEW q, Send(p, c, q),
           q = <<>> \/ (q = wire[p] /\ ~MaySend(c)), NEW t \in Praxes
    PROVE  \/ wire'[t] = wire[t] \/ wire'[t] = <<>>
           \/ \E s : wire'[t] = <<Out(s)>> /\ server[t].rev \in Nat
<1>1. wire' = [wire EXCEPT ![p] = Posted(c, q)]
  BY SendStep
<1>2. wire'[p] = Posted(c, q) /\ (t # p => wire'[t] = wire[t])
  BY <1>1 DEF VoteInv
<1>3. server[t].rev \in Nat
  BY DEF VoteInv, Sound, Tally
<1>4. Append(<<>>, Out(c.value)) = <<Out(c.value)>>
  OBVIOUS
<1> QED
  BY <1>2, <1>3, <1>4 DEF Posted

\* A step of the votes: the reads and what is on show stay.
LEMMA VotesStamp ==
    ASSUME VoteInv, ReadInv, UNCHANGED pageVars, clock' \in Nat, clock' >= clock,
           Stamps', \A p \in Praxes : Behind(p)',
           \A p \in Praxes : tallies'[p] = tallies[p] \/ tallies'[p].at = clock + 1
    PROVE  ReadInv'
<1>1. \A r \in reads : Sees(r)'
  BY StillSees DEF ReadInv, Stamps
<1>2. Stays' /\ Payloads'
  BY DEF ReadInv, Stays, Payloads, pageVars
<1> QED
  BY <1>1, <1>2 DEF ReadInv, pageVars

\* The viewer chooses.
LEMMA ChoosingReads ==
    ASSUME VoteInv, ReadInv, NEW p \in Praxes, NEW s \in Stars, Choose(p, s), UNCHANGED pageVars
    PROVE  ReadInv'
<1>1. server' = server /\ tallies' = tallies /\ clock' = clock /\ lost' = lost
  BY DEF Choose
<1>2. ASSUME NEW t \in Praxes
      PROVE  Behind(t)'
  <2>1. CASE ChangeOfMind(store[p])
    BY <1>1, <2>1, NoVoteCounted DEF Choose, ReadInv
  <2>2. CASE ~ChangeOfMind(store[p])
    <3> DEFINE c == Queued(store[p], s)
    <3>1. wire[p] = <<>> /\ Send(p, c, wire[p])
      BY <2>2 DEF Choose, ChangeOfMind, VoteInv, Sound, OneRequest
    <3> HIDE DEF c
    <3>2. Send(p, c, <<>>)
      BY <3>1
    <3>3. \/ wire'[t] = wire[t] \/ wire'[t] = <<>>
          \/ \E star : wire'[t] = <<Out(star)>> /\ server[t].rev \in Nat
      BY <3>2, SendPosts
    <3> QED
      BY <1>1, <3>3, NoVoteCounted DEF ReadInv
  <2> QED
    BY <2>1, <2>2
<1>3. Stamps'
  BY <1>1 DEF ReadInv, Stamps
<1> QED
  BY <1>1, <1>2, <1>3, VotesStamp DEF ReadInv, Stamps

\* What goes on by itself.
LEMMA BackgroundReads ==
    ASSUME VoteInv, ReadInv, NEW p \in Praxes, Background(p), UNCHANGED pageVars
    PROVE  ReadInv'
<1> USE DEF ReadInv
<1>1. CASE WindowShuts(p)
  <2>1. /\ server' = server /\ tallies' = tallies /\ clock' = clock /\ lost' = lost
        /\ wire' = wire
    BY <1>1 DEF WindowShuts
  <2> QED
    BY <2>1, VotesStamp, NoVoteCounted DEF Stamps
<1>2. CASE FollowUpFires(p)
  <2> DEFINE c == [store[p] EXCEPT !.followUp = FALSE]
  <2>1. server' = server /\ tallies' = tallies /\ clock' = clock /\ lost' = lost
    BY <1>2 DEF FollowUpFires
  <2>2. MaySend(c) => wire[p] = <<>>
    BY DEF VoteInv, Sound, OneRequest, MaySend, Entry
  <2>3. Send(p, c, wire[p])
    BY <1>2 DEF FollowUpFires
  <2> HIDE DEF c
  <2>4. ASSUME NEW t \in Praxes
        PROVE  Behind(t)'
    <3>1. PICK q : q = wire[p] /\ Send(p, c, q) /\ (q = <<>> \/ (q = wire[p] /\ ~MaySend(c)))
      BY <2>2, <2>3
    <3>2. \/ wire'[t] = wire[t] \/ wire'[t] = <<>>
          \/ \E s : wire'[t] = <<Out(s)>> /\ server[t].rev \in Nat
      BY <3>1, SendPosts
    <3> QED
      BY <2>1, <3>2, NoVoteCounted
  <2>5. Stamps'
    BY <2>1 DEF Stamps
  <2> QED
    BY <2>1, <2>4, <2>5, VotesStamp DEF Stamps
<1>3. ASSUME NEW i \in DOMAIN wire[p],
             \/ ServerAccepts(p, i) \/ ServerRefuses(p, i) \/ AnswerIsLost(p, i)
             \/ HearAccepted(p, i) \/ HearRefused(p, i)
      PROVE  ReadInv'
  <2> DEFINE r == wire[p][i]
  <2>1. /\ i = 1 /\ r \in Request /\ wire[p] = <<r>> /\ r = wire[p][1]
        /\ wire[p] # <<>> /\ Remaining(p, i) = <<>>
    BY TheRequest
  <2>2. server[p].rev \in Nat /\ r.tally.rev \in Nat /\ r.tally.rev <= server[p].rev
    BY <2>1 DEF VoteInv, Sound, Tally, Request, Behind
  <2>3. CASE ServerAccepts(p, i)
    <3> DEFINE now == [rev |-> server[p].rev + 1, mine |-> r.value]
    <3>1. tallies' = tallies /\ clock' = clock /\ lost' = lost
      BY <2>3 DEF ServerAccepts
    <3>2. /\ server'[p] = now
          /\ wire'[p] = [wire[p] EXCEPT ![1] = [r EXCEPT !.is = "accepted", !.tally = now]]
          /\ \A t \in Praxes \ {p} : server'[t] = server[t] /\ wire'[t] = wire[t]
      BY <2>1, <2>3 DEF ServerAccepts, VoteInv
    <3>3. wire'[p][1].tally = now
      BY <2>1, <3>2 DEF Request
    <3>4. now.rev = server[p].rev + 1
      OBVIOUS
    <3>5. tallies[p].rev \in Nat /\ tallies[p].rev <= server[p].rev
      BY DEF Stamps, Behind
    <3> HIDE DEF now
    <3>6. Behind(p)'
      BY <2>2, <3>1, <3>2, <3>3, <3>4, <3>5 DEF Behind
    <3>7. \A t \in Praxes \ {p} : Behind(t)'
      BY <3>1, <3>2, NoVoteCounted
    <3>8. Stamps'
      BY <3>1 DEF Stamps
    <3> QED
      BY <3>1, <3>6, <3>7, <3>8, VotesStamp DEF Stamps
  <2>4. CASE ServerRefuses(p, i) \/ AnswerIsLost(p, i)
    <3>1. server' = server /\ tallies' = tallies /\ clock' = clock /\ lost' \subseteq Praxes
      BY <2>4 DEF ServerRefuses, AnswerIsLost, Stamps
    <3>2. /\ wire'[p] = [wire[p] EXCEPT ![1] = [r EXCEPT !.is = "refused"]]
          /\ \A t \in Praxes \ {p} : wire'[t] = wire[t]
      BY <2>1, <2>4 DEF ServerRefuses, AnswerIsLost, VoteInv
    <3>3. wire'[p][1].tally = r.tally
      BY <2>1, <3>2 DEF Request
    <3>4. Behind(p)'
      BY <2>2, <3>1, <3>3 DEF Behind
    <3>5. \A t \in Praxes \ {p} : Behind(t)'
      BY <3>1, <3>2, NoVoteCounted
    <3>6. Stamps'
      BY <3>1 DEF Stamps
    <3> QED
      BY <3>1, <3>4, <3>5, <3>6, VotesStamp DEF Stamps
  <2>5. CASE HearAccepted(p, i) \/ HearRefused(p, i)
    <3>1. server' = server /\ lost' \subseteq Praxes
      BY <2>5 DEF HearAccepted, HearRefused, Stamps
    <3>2. /\ \/ wire'[p] = <<>>
             \/ \E s : wire'[p] = <<Out(s)>> /\ server[p].rev \in Nat
          /\ \A t \in Praxes \ {p} : wire'[t] = wire[t]
      <4>1. PICK c : Answered(p, i, c)
        BY <2>5 DEF HearAccepted, HearRefused
      <4>2. wire' = [wire EXCEPT ![p] = <<>>] \/ wire' = [wire EXCEPT ![p] = Posted(c, <<>>)]
        BY <2>1, <4>1, SendStep DEF Answered
      <4>3. Append(<<>>, Out(c.value)) = <<Out(c.value)>>
        OBVIOUS
      <4> QED
        BY <2>2, <4>2, <4>3 DEF VoteInv, Posted
    <3>3. CASE HearRefused(p, i)
      <4>1. tallies' = tallies /\ clock' = clock
        BY <3>3 DEF HearRefused
      <4>2. \A t \in Praxes : Behind(t)'
        BY <3>1, <3>2, <4>1, NoVoteCounted
      <4>3. Stamps'
        BY <3>1, <4>1 DEF Stamps
      <4> QED
        BY <4>1, <4>2, <4>3, VotesStamp DEF Stamps
    <3>4. CASE HearAccepted(p, i)
      <4>1. clock' = clock + 1 /\ clock \in Nat
        BY <3>4 DEF HearAccepted, Stamps
      <4>2. tallies' = [tallies EXCEPT ![p] = Recorded(r.tally, clock + 1)]
        BY <3>4 DEF HearAccepted
      <4>3. r.tally.mine \in AnyStar
        BY <2>1 DEF Request, Tally
      <4>4. tallies'[p] = Recorded(r.tally, clock + 1)
            /\ \A t \in Praxes \ {p} : tallies'[t] = tallies[t]
        BY <4>2 DEF Stamps
      <4>5. Behind(p)'
        <5>1. tallies'[p].rev <= server'[p].rev
          BY <2>2, <3>1, <4>4 DEF Recorded
        <5>2. \A s : Out(s).tally.rev = 0 /\ <<Out(s)>>[1] = Out(s)
          BY DEF Out
        <5> QED
          BY <2>2, <3>1, <3>2, <5>1, <5>2 DEF Behind
      <4>6. \A t \in Praxes \ {p} : Behind(t)'
        BY <3>1, <3>2, <4>4, NoVoteCounted
      <4>7. Stamps'
        BY <2>2, <3>1, <4>1, <4>2, <4>3 DEF Stamps, Recorded
      <4>8. tallies'[p].at = clock + 1
        BY <4>4 DEF Recorded
      <4> QED
        BY <4>1, <4>4, <4>5, <4>6, <4>7, <4>8, VotesStamp
    <3> QED
      BY <2>5, <3>3, <3>4
  <2> QED
    BY <1>3, <2>3, <2>4, <2>5
<1> QED
  BY <1>1, <1>2, <1>3 DEF Background, Serves, Loses, Hears

\* A change of path: what is asked for was asked now.
LEMMA RoutingReads ==
    ASSUME VoteInv, ReadInv, (\E p \in Praxes : Open(p)) \/ Leave PROVE ReadInv'
<1>1. Flush(Praxes) /\ server' = server /\ tallies' = tallies /\ clock' = clock /\ lost' = lost
  BY DEF Open, Leave, Flush
<1>2. Stamps' /\ \A p \in Praxes : Behind(p)'
  BY <1>1, FlushPosts, NoVoteCounted DEF ReadInv, Stamps
<1>3. \A r \in reads : Sees(r)'
  BY <1>1, StillSees DEF ReadInv, Stamps
<1>4. ASSUME NEW p \in Praxes, Open(p)
      PROVE  Stays' /\ Payloads' /\ \A r \in reads' : Sees(r)'
  <2>0. PICK n : n = NewRead("praxis", p, visit + 1, mounted')
    OBVIOUS
  <2>1. Stays' /\ visit + 1 \in 1..MaxVisits /\ mounted' \in 1..MaxVisits
    BY <1>4, VisitsAssumption DEF Open, ReadInv, Stays
  <2>2. n \in Read
    BY <1>1, <1>2, <2>0, <2>1 DEF NewRead, Read, ReadInv, Stamps, NothingSeen, Tally, AnyStar
  <2>3. n.asked = clock /\ n.is = "asked"
    BY <2>0 DEF NewRead
  <2>4. reads' = reads \cup {n}
    BY <1>4, <2>0 DEF Open
  <2>5. Sees(n)'
    BY <1>1, <2>2, <2>3 DEF Sees, SawWhatItRetires, ReadInv, Stamps
  <2>6. Payloads'
    BY <1>4 DEF Open, ReadInv, Payloads
  <2> QED
    BY <1>3, <2>1, <2>4, <2>5, <2>6
<1>5. CASE Leave
  <2>1. Stays'
    BY <1>5 DEF Leave, ReadInv, Stays
  <2>2. Payloads'
    BY <1>5 DEF Leave, Payloads, NoPage, Unread, AnyStar
  <2>3. reads' \subseteq reads
    BY <1>5 DEF Leave
  <2> QED
    BY <1>2, <1>3, <2>1, <2>2, <2>3 DEF ReadInv
<1> QED
  BY <1>2, <1>4, <1>5 DEF ReadInv

\* A read saw the votes of its praxes as they were counted when it was served.
LEMMA ServedSees ==
    ASSUME ReadInv, VoteInv, NEW r \in reads,
           NEW saw, saw = [p \in Praxes |-> IF p \in Serving(r) THEN server[p] ELSE NothingSeen[p]]
    PROVE  Sees([r EXCEPT !.is = "served", !.saw = saw])
<1> DEFINE s == [r EXCEPT !.is = "served", !.saw = saw]
<1>1. r \in Read /\ Sees(r)
  BY DEF ReadInv, Sees
<1>2. saw \in [Praxes -> Tally]
  BY DEF VoteInv, Sound, NothingSeen, Tally, AnyStar
<1>3. /\ s \in Read /\ s.saw = saw
      /\ s.of = r.of /\ s.praxis = r.praxis /\ s.asked = r.asked
  BY <1>1, <1>2 DEF Read
<1> HIDE DEF s
<1>4. ASSUME NEW p \in Praxes, Retires(p, s)
      PROVE  tallies[p].rev <= s.saw[p].rev
  <2>1. p \in Serving(r)
    BY <1>3, <1>4 DEF Retires, Serving
  <2> QED
    BY <1>3, <2>1 DEF ReadInv, Behind
<1>5. Sees(s)
  BY <1>1, <1>3, <1>4 DEF Sees, SawWhatItRetires
<1> QED
  BY <1>5 DEF s

\* A read is served, fails, is heard or lands.
LEMMA ReadingReads ==
    ASSUME VoteInv, ReadInv, NEW r \in reads, Reading(r) PROVE ReadInv'
<1>1. r \in Read /\ Sees(r)
  BY DEF ReadInv, Sees
<1>2. clock' = clock /\ server' = server /\ lost' = lost
  BY DEF Reading, ReadServed, ReadFails, HearPraxis, Land, HearDuel, Flush, castVars
<1>3. /\ tallies' \in [Praxes -> [rev : Nat, mine : AnyStar, at : 0..clock]]
      /\ \A p \in Praxes : tallies'[p] = NoTally \/ tallies'[p] = tallies[p]
  <2>1. CASE ReadServed(r) \/ ReadFails(r) \/ Land(r)
    BY <2>1 DEF ReadServed, ReadFails, Land, Flush, castVars, ReadInv, Stamps
  <2>2. CASE HearPraxis(r) \/ HearDuel(r)
    <3>1. tallies' = [p \in Praxes |-> IF Retires(p, r) THEN NoTally ELSE tallies[p]]
      BY <2>2 DEF HearPraxis, HearDuel
    <3>2. NoTally \in [rev : Nat, mine : AnyStar, at : 0..clock]
      BY DEF NoTally, AnyStar, ReadInv, Stamps
    <3> QED
      BY <3>1, <3>2 DEF ReadInv, Stamps
  <2> QED
    BY <2>1, <2>2 DEF Reading
<1>4. Stamps'
  BY <1>2, <1>3 DEF ReadInv, Stamps
<1>5. \A q \in reads : Sees(q)'
  BY <1>2, <1>3, StillSees DEF ReadInv, Stamps
<1>6. ASSUME NEW p \in Praxes
      PROVE  Behind(p)'
  <2>1. wire'[p] = wire[p] \/ \E s : wire'[p] = <<Out(s)>> /\ server[p].rev \in Nat
    BY FlushPosts DEF Reading, ReadServed, ReadFails, HearPraxis, Land, HearDuel, castVars
  <2>2. CASE tallies'[p] = tallies[p]
    BY <1>2, <2>1, <2>2, NoVoteCounted DEF ReadInv
  <2>3. CASE tallies'[p] = NoTally
    <3>1. NoTally.rev = 0 /\ server[p].rev \in Nat
      BY DEF NoTally, VoteInv, Sound, Tally
    <3>2. \A s : Out(s).tally.rev = 0 /\ <<Out(s)>>[1] = Out(s)
      BY DEF Out
    <3> QED
      BY <1>2, <2>1, <2>3, <3>1, <3>2 DEF ReadInv, Behind
  <2> QED
    BY <1>3, <2>2, <2>3
<1>7. Stays'
  BY DEF Reading, ReadServed, ReadFails, HearPraxis, Land, HearDuel, ReadInv, Stays
<1>8. Payloads'
  <2>1. \A p \in Praxes : r.saw[p].mine \in AnyStar
    BY <1>1 DEF Read, Tally
  <2>2. CASE Land(r)
    BY <1>1, <2>1, <2>2 DEF Land, ReadInv, Payloads, Read
  <2>3. CASE HearDuel(r)
    BY <2>1, <2>3 DEF HearDuel, ReadInv, Payloads
  <2>4. CASE ReadServed(r) \/ ReadFails(r) \/ HearPraxis(r)
    BY <2>4 DEF ReadServed, ReadFails, HearPraxis, ReadInv, Payloads
  <2> QED
    BY <2>2, <2>3, <2>4 DEF Reading
<1>9. ASSUME NEW q \in reads'
      PROVE  Sees(q)'
  <2>1. CASE q \in reads
    BY <1>5, <2>1
  <2>2. CASE q \notin reads /\ ReadServed(r)
    <3> DEFINE saw == [p \in Praxes |-> IF p \in Serving(r) THEN server[p] ELSE NothingSeen[p]]
    <3>1. q = [r EXCEPT !.is = "served", !.saw = saw]
      BY <2>2 DEF ReadServed, Replace
    <3> HIDE DEF saw
    <3>2. Sees([r EXCEPT !.is = "served", !.saw = saw])
      BY ServedSees DEF saw
    <3>3. tallies' = tallies
      BY <2>2 DEF ReadServed, castVars
    <3> QED
      BY <1>2, <3>1, <3>2, <3>3 DEF Sees, SawWhatItRetires, Retires
  <2>3. CASE q \notin reads /\ HearPraxis(r)
    <3> DEFINE s == [r EXCEPT !.is = "heard"]
    <3>1. q = s /\ r.is = "served"
      BY <2>3 DEF HearPraxis, Replace
    <3>2. /\ s \in Read /\ s.saw = r.saw
          /\ s.of = r.of /\ s.praxis = r.praxis /\ s.asked = r.asked
      BY <1>1 DEF Read
    <3> HIDE DEF s
    <3>3. Sees(s)
      BY <1>1, <3>1, <3>2 DEF Sees, SawWhatItRetires, Retires, Serving
    <3> QED
      BY <1>2, <1>3, <3>1, <3>3, StillSees DEF ReadInv, Stamps
  <2>4. CASE q \notin reads /\ Land(r)
    <3> DEFINE n == NewRead("duel", r.praxis, r.visit, r.mount)
    <3>1. q = n
      BY <2>4 DEF Land, Replace
    <3>2. n \in Read
      BY <1>1, <1>4 DEF NewRead, Read, ReadInv, Stamps, NothingSeen, Tally, AnyStar
    <3>3. n.asked = clock /\ n.is = "asked"
      BY DEF NewRead
    <3> HIDE DEF n
    <3> QED
      BY <1>2, <3>1, <3>2, <3>3 DEF Sees, SawWhatItRetires, ReadInv, Stamps
  <2>5. CASE ReadFails(r) \/ HearDuel(r)
    BY <2>1, <2>5 DEF ReadFails, HearDuel
  <2> QED
    BY <2>1, <2>2, <2>3, <2>4, <2>5 DEF Reading
<1> QED
  BY <1>4, <1>6, <1>7, <1>8, <1>9 DEF ReadInv

\* Every step of the page keeps what the reads saw.
LEMMA ReadStep == ASSUME PageInv, ReadInv, [PageNext]_allVars PROVE ReadInv'
<1>1. VoteInv
  BY DEF PageInv
<1>2. CASE UNCHANGED allVars
  BY <1>2 DEF allVars, castVars, pageVars, ReadInv, Stamps, Stays, Payloads, Behind, Sees,
              SawWhatItRetires, Retires
<1>3. CASE (\E p \in Praxes : Open(p)) \/ Leave
  BY <1>1, <1>3, RoutingReads
<1>4. ASSUME NEW s \in Stars, Rate(s)
      PROVE  ReadInv'
  <2>1. page.praxis \in Praxes /\ Choose(page.praxis, s) /\ UNCHANGED pageVars
    BY <1>4 DEF Rate, PageInv, Shows
  <2> QED
    BY <1>1, <2>1, ChoosingReads
<1>5. ASSUME NEW p \in Praxes, Background(p), UNCHANGED pageVars
      PROVE  ReadInv'
  BY <1>1, <1>5, BackgroundReads
<1>6. ASSUME NEW r \in reads, Reading(r)
      PROVE  ReadInv'
  BY <1>1, <1>6, ReadingReads
<1> QED
  BY <1>2, <1>3, <1>4, <1>5, <1>6 DEF PageNext

\* Nothing is read or shown at first.
LEMMA ReadStart == PageInit => ReadInv
<1> SUFFICES ASSUME PageInit PROVE ReadInv
  OBVIOUS
<1>1. Stamps
  BY DEF PageInit, CastInit, Stamps, NoTally, AnyStar
<1>2. Stays /\ Payloads
  BY VisitsAssumption DEF PageInit, Stays, Payloads, NoPage, Unread, AnyStar
<1>3. \A p \in Praxes : Behind(p)
  BY DEF PageInit, CastInit, Behind, NoTally
<1> QED
  BY <1>1, <1>2, <1>3 DEF PageInit, ReadInv

-----------------------------------------------------------------------------
\* The inductive invariant holds of every reachable state.
THEOREM PageInvariance == PageSpec => []PageInv
<1>1. PageInit => PageInv
  BY PageStart
<1>2. PageInv /\ [PageNext]_allVars => PageInv'
  BY PageStep
<1> QED
  BY <1>1, <1>2, PTL DEF PageSpec

\* pendingCasts.ts: whatever is flushed, answered, refused or lost, in any
\* order, a star not yet sent is awaited by a request or a timer.
THEOREM SomebodySendsIt == PageSpec => []NoChoiceIsStranded
<1>1. PageInv => NoChoiceIsStranded
  BY DEF PageInv, VoteInv, Awaited, NoChoiceIsStranded
<1> QED
  BY <1>1, PageInvariance, PTL

\* pendingCasts.ts: at rest the star on show is the last one chosen and the one
\* the server counts, on every praxis whose last vote was not answered in vain.
THEOREM LastStarStands == PageSpec => []LastChoiceStands
<1>1. PageInv => LastChoiceStands
  <2> SUFFICES ASSUME PageInv, NEW p \in Praxes, p \notin lost, ~store[p].dirty,
                      wire[p] = <<>>, ~store[p].failed, wanted[p] # NoStar
               PROVE  store[p].value = wanted[p] /\ server[p].mine = wanted[p]
    BY DEF LastChoiceStands, Stands
  <2>1. Sound(store[p], wire[p], server[p], wanted[p], p \notin lost)
    BY DEF PageInv, VoteInv
  <2>2. Settles(store[p], wire[p], server[p], wanted[p])
    BY <2>1 DEF Sound
  <2> QED
    BY <2>2 DEF Settles
<1> QED
  BY <1>1, PageInvariance, PTL

\* castTallies.ts: at rest the tally on show names the star the server counts,
\* on every praxis whose last vote was not answered in vain.
THEOREM TallyIsTheLast == PageSpec => []TallyAnswersTheLastStar
<1>1. PageInit => PageInv /\ TallyInv
  BY PageStart DEF PageInit, CastInit, TallyInv, Counts
<1>2. PageInv /\ TallyInv /\ [PageNext]_allVars => (PageInv /\ TallyInv)'
  BY PageStep, TallyStep
<1>3. TallyInv => TallyAnswersTheLastStar
  BY DEF TallyInv, Counts, TallyAnswersTheLastStar
<1> QED
  BY <1>1, <1>2, <1>3, PTL DEF PageSpec

\* The inductive invariant of the reads holds of every reachable state.
THEOREM ReadInvariance == PageSpec => [](PageInv /\ ReadInv)
<1>1. PageInit => PageInv /\ ReadInv
  BY PageStart, ReadStart
<1>2. PageInv /\ ReadInv /\ [PageNext]_allVars => (PageInv /\ ReadInv)'
  BY PageStep, ReadStep
<1> QED
  BY <1>1, <1>2, PTL DEF PageSpec

\* The store, the requests, the tallies and the payloads hold what they are
\* declared to hold, for any praxes, stars, choices and visits.
THEOREM PageTypes == PageSpec => []PageTypeOK
<1>1. PageInv /\ ReadInv => PageTypeOK
  <2> SUFFICES ASSUME PageInv, ReadInv PROVE PageTypeOK
    OBVIOUS
  <2>1. store \in [Praxes -> Entry] /\ wanted \in [Praxes -> AnyStar]
    BY DEF PageInv, VoteInv, Sound
  <2>2. ASSUME NEW p \in Praxes
        PROVE  server[p] \in Tally /\ \A i \in DOMAIN wire[p] : wire[p][i] \in Request
    BY DEF PageInv, VoteInv, Sound, OneRequest
  <2>3. reads \subseteq Read
    BY DEF ReadInv, Sees
  <2>4. route \in Praxes \cup {Elsewhere} /\ Stamps /\ Payloads
    BY DEF ReadInv, Stays
  <2> QED
    BY <2>1, <2>2, <2>3, <2>4 DEF PageTypeOK, Stamps, Payloads
<1> QED
  BY <1>1, ReadInvariance, PTL

\* castTallies.ts: whatever reads and votes overtake one another, a read takes a
\* tally off the page only if its own numbers count the vote.
THEOREM RetiredBySight == PageSpec => ReadsRetireOnlyWhatTheySaw
<1> DEFINE Retired(p) == tallies[p] # NoTally /\ tallies'[p] = NoTally
           Seen(p) == \E r \in reads : r.is = "served" /\ r.saw[p].rev >= tallies[p].rev
<1>1. ASSUME PageInv, ReadInv, PageNext, NEW p \in Praxes, Retired(p)
      PROVE  Seen(p)
  <2>1. ASSUME NEW r \in reads, Reading(r)
        PROVE  Seen(p)
    <3>1. r.is = "served" /\ Retires(p, r)
      BY <1>1, <2>1 DEF Reading, ReadServed, ReadFails, HearPraxis, Land, HearDuel, Flush, castVars
    <3>2. r \in Read /\ tallies[p].rev <= r.saw[p].rev
      BY <1>1, <3>1 DEF ReadInv, Sees, SawWhatItRetires
    <3>3. r.saw[p].rev \in Nat /\ tallies[p].rev \in Nat
      BY <1>1, <3>2 DEF Read, Tally, ReadInv, Stamps
    <3> QED
      BY <3>1, <3>2, <3>3
  <2>2. ASSUME NEW q \in Praxes, Background(q)
        PROVE  FALSE
    <3>1. PICK i \in DOMAIN wire[q] : HearAccepted(q, i)
      BY <1>1, <2>2 DEF Background, WindowShuts, FollowUpFires, Serves, Loses, Hears,
                        ServerAccepts, ServerRefuses, AnswerIsLost, HearRefused
    <3>2. tallies' = [tallies EXCEPT ![q] = Recorded(wire[q][i].tally, clock + 1)] /\ clock \in Nat
      BY <1>1, <3>1 DEF HearAccepted, ReadInv, Stamps
    <3>3. Recorded(wire[q][i].tally, clock + 1).at = clock + 1 /\ NoTally.at = 0
      BY DEF Recorded, NoTally
    <3> QED
      BY <1>1, <3>2, <3>3 DEF ReadInv, Stamps
  <2>3. ASSUME NEW s \in Stars, Rate(s)
        PROVE  FALSE
    BY <1>1, <2>3 DEF Rate, Choose
  <2>4. ASSUME (\E q \in Praxes : Open(q)) \/ Leave
        PROVE  FALSE
    BY <1>1, <2>4 DEF Open, Leave, Flush
  <2> QED
    BY <1>1, <2>1, <2>2, <2>3, <2>4 DEF PageNext
<1>2. PageInv /\ ReadInv /\ [PageNext]_allVars
        => [\A p \in Praxes : Retired(p) => Seen(p)]_allVars
  BY <1>1
<1> QED
  BY <1>2, ReadInvariance, PTL DEF PageSpec, ReadsRetireOnlyWhatTheySaw
=============================================================================
