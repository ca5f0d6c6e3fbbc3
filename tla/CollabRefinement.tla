-------------------------- MODULE CollabRefinement --------------------------
(***************************************************************************)
(* The handlers of CollabPraxis keep the promise of LazyConsensus.  Every  *)
(* step of a request maps to one step of the promise or to none.           *)
(***************************************************************************)
EXTENDS CollabPraxis

AbstractPhase ==
    CASE praxis.status = "none"        -> "none"
      [] praxis.status = "in_progress" -> "draft"
      [] praxis.status = "pending"     -> "proposed"
      [] praxis.status = "submitted"   -> "live"

Proposed == praxis.status = "pending"

Promise == INSTANCE LazyConsensus WITH
    People  <- Characters,
    phase   <- AbstractPhase,
    crew    <- praxis.members,
    consent <- IF Proposed THEN praxis.approved ELSE {},
    expired <- Proposed /\ praxis.window = AutoSubmitDays

\* The request handlers refine lazy consensus (ADR-0012's state machine).
KeepsThePromise == Promise!Spec
=============================================================================
