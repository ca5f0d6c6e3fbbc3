\* Every composer may stay closed.
CHECK_DEADLOCK FALSE
SPECIFICATION RoomSpec
CONSTANTS
    Clients = {her, him}
    Words = {word}
    MaxSeals = 1
    MaxVisits = 2
    MaxDrops = 1
    MaxCrashes = 1
INVARIANTS
    RoomTypeOK
    ASocketHasItsRoom
    SeededOnce
PROPERTIES
    WordsGoOnlyWithASubmission
    EveryWordReachesTheStore
