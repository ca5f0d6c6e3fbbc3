SPECIFICATION VoteSpec
CONSTANTS
    Characters = {ada, ann, bob}
    AutoSubmitDays = 1
    Accounts = {{ada, ann}, {bob}}
    Budget = 1
    OneAtATime = TRUE
SYMMETRY Symmetry
INVARIANTS
    NoOwnerRates
    EveryVoteIsPaidFor
