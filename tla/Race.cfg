\* A collab that its last member left accepts no request.
CHECK_DEADLOCK FALSE
SPECIFICATION RaceSpec
CONSTANTS
    Characters = {ada, bob}
    AutoSubmitDays = 1
    Requests = {"submit", "media", "withdraw", "leave", "read", "flush"}
    MaxOpen = 2
SYMMETRY Symmetry
INVARIANTS
    RaceTypeOK
PROPERTIES
    Serially
