\* Nobody publishes, no server restarts; one socket drops.
CHECK_DEADLOCK FALSE
SPECIFICATION RoomSpec
CONSTANTS
    Clients = {her, him}
    Words = {word}
    MaxSeals = 0
    MaxVisits = 1
    MaxDrops = 1
    MaxCrashes = 0
INVARIANT UnpublishedTextSurvives
