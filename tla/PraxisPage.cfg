\* The tab may rest on any page.
CHECK_DEADLOCK FALSE
SPECIFICATION PageSpec
CONSTANTS
    Praxes = {mine, rival}
    Stars = {1, 2}
    MaxChoices = 2
    MaxVisits = 2
INVARIANTS
    PageTypeOK
    NoChoiceIsStranded
    LastChoiceStands
    TallyAnswersTheLastStar
PROPERTIES
    ReadsRetireOnlyWhatTheySaw
    EveryChoiceIsHeard
