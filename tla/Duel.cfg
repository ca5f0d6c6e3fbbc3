SPECIFICATION Spec
CONSTANTS
    Stars = {1, 2}
    TieTakers = {"opponent"}
INVARIANTS
    DuelMatchesItsSides
    ScoresOnlyWhatIsPublic
    DissolvedDuelPaysNobody
    ForfeitPaysTheOther
PROPERTIES
    ForfeitIsSticky
    FreezeKeepsTheStanding
