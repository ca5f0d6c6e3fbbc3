\* A collab that its last member left accepts no request.
CHECK_DEADLOCK FALSE
SPECIFICATION FairRaceSpec
CONSTANTS
    Characters = {ada, bob, cyn}
    AutoSubmitDays = 1
    Requests = {"submit", "read"}
    MaxOpen = 3
INVARIANTS
    LiveIsApprovedByAll
PROPERTIES
    SealedByConsentOrSilence
    ProposalResolves
