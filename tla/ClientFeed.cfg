CHECK_DEADLOCK FALSE
SPECIFICATION CacheSpec
CONSTANTS
    Lives = {her, him}
    Mounted = {"feed"}
    MaxEra = 1
    MaxWrites = 1
    MaxMoves = 2
    MaxViews = 2
    MaxIncidents = 1
SYMMETRY Symmetry
INVARIANTS
    CacheTypeOK
    RowsAreAfterTheLastWrite
    FeedShowsItsView
    JoinedAnswersAreKept
    RowsAreTheViewersOwn
