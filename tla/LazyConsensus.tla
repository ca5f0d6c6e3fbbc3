---------------------------- MODULE LazyConsensus ----------------------------
(***************************************************************************)
(* What lazy consensus promises a crew (ADR-0012, ADR-0079), with none of  *)
(* the machinery that keeps the promise: no row, no invitations, no room,  *)
(* no readers, no clock but "the window has expired".                      *)
(*                                                                         *)
(* Work becomes public on three roads only: everybody on the crew agrees,  *)
(* the last who had not agreed departs, or the window expires.  Everything *)
(* short of that leads back to a draft in which nobody has agreed.         *)
(***************************************************************************)
CONSTANT People

VARIABLES phase, crew, consent, expired

vars == <<phase, crew, consent, expired>>

Phases == {"none", "draft", "proposed", "live"}

TypeOK ==
    /\ phase \in Phases
    /\ crew \subseteq People
    /\ consent \subseteq crew
    /\ expired \in BOOLEAN

NobodyAgrees == consent' = {} /\ ~expired'

\* A shared work starts, and while it is a draft its crew changes freely.
Draft ==
    /\ phase \in {"none", "draft"}
    /\ phase' = "draft"
    /\ crew' \subseteq People
    /\ NobodyAgrees

\* One proposes, and by that agrees; a crew of one has agreed already.
Propose(c) ==
    /\ phase = "draft"
    /\ c \in crew
    /\ UNCHANGED crew
    /\ \/ /\ crew = {c}
          /\ phase' = "live"
          /\ NobodyAgrees
       \/ /\ crew # {c}
          /\ phase' = "proposed"
          /\ consent' = {c}
          /\ ~expired'

\* Another agrees; with the last agreement the work is public.
Agree(c) ==
    /\ phase = "proposed"
    /\ c \in crew
    /\ UNCHANGED crew
    /\ \/ /\ crew \subseteq consent \cup {c}
          /\ phase' = "live"
          /\ NobodyAgrees
       \/ /\ ~(crew \subseteq consent \cup {c})
          /\ consent' = consent \cup {c}
          /\ UNCHANGED <<phase, expired>>

\* One departs, which may take away the last hold.
Depart(c) ==
    /\ phase = "proposed"
    /\ c \in crew
    /\ crew' = crew \ {c}
    /\ \/ /\ crew' \subseteq consent
          /\ phase' = "live"
          /\ NobodyAgrees
       \/ /\ ~(crew' \subseteq consent)
          /\ consent' = consent \ {c}
          /\ UNCHANGED <<phase, expired>>

Join(c) ==
    /\ phase = "proposed"
    /\ crew' = crew \cup {c}
    /\ UNCHANGED <<phase, consent, expired>>

Expire ==
    /\ phase = "proposed"
    /\ expired' = TRUE
    /\ UNCHANGED <<phase, crew, consent>>

\* Silence is consent; a request that notices it may also be a departure.
Silence ==
    /\ phase = "proposed"
    /\ expired
    /\ phase' = "live"
    /\ crew' \subseteq crew
    /\ NobodyAgrees

\* An edit, a withdrawal, a kick or a takeover: the crew is drafting again.
Cancel ==
    /\ phase = "proposed"
    /\ phase' = "draft"
    /\ crew' \subseteq crew
    /\ NobodyAgrees

\* A public work loses authors, or is taken back into drafting by them.
LiveDepart ==
    /\ phase = "live"
    /\ crew' \subseteq crew
    /\ UNCHANGED <<phase, consent, expired>>

Reopen ==
    /\ phase = "live"
    /\ phase' = "draft"
    /\ UNCHANGED crew
    /\ NobodyAgrees

Discard ==
    /\ phase \in {"draft", "proposed"}
    /\ phase' = "none"
    /\ crew' = {}
    /\ NobodyAgrees

Init ==
    /\ phase \in {"none", "draft"}
    /\ crew \subseteq People
    /\ consent = {}
    /\ expired = FALSE

Next ==
    \/ Draft
    \/ \E c \in People : Propose(c) \/ Agree(c) \/ Depart(c) \/ Join(c)
    \/ Expire
    \/ Silence
    \/ Cancel
    \/ LiveDepart
    \/ Reopen
    \/ Discard

Spec == Init /\ [][Next]_vars
=============================================================================
