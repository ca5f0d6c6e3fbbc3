CHECK_DEADLOCK FALSE
SPECIFICATION CacheSpec
CONSTANTS
    Lives = {her}
    Mounted = {"factions", "config"}
    MaxEra = 2
    MaxWrites = 0
    MaxMoves = 1
    MaxViews = 0
    MaxIncidents = 0
INVARIANTS
    DirectoryLeavesWithItsViewer
PROPERTIES
    RulesCatchUp
