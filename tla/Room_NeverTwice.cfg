\* Nothing fails: no socket drops, no server restarts.
CHECK_DEADLOCK FALSE
SPECIFICATION RoomSpec
CONSTANTS
    Clients = {her, him}
    Words = {word}
    MaxSeals = 1
    MaxVisits = 3
    MaxDrops = 0
    MaxCrashes = 0
SYMMETRY Symmetry
INVARIANT NeverTwice
