\* A collab whose last member left while it was Live accepts no request at all
\* (the NeverWithoutAMember finding), so a behaviour may stop there.  No
\* symmetry: it is unsound for liveness.
CHECK_DEADLOCK FALSE
SPECIFICATION FairSpec
CONSTANTS
    Characters = {ada, bob, cyn}
    AutoSubmitDays = 2
INVARIANTS
    TypeOK
    ConsensusInv
    SoloIsItsCreators
    NoApprovalOfOlderText
PROPERTIES
    PublishedAsApproved
    ApprovalsFallTogether
    WindowNeverRestarts
    KeepsThePromise
    ProposalResolves
