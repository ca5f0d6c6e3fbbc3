SPECIFICATION Spec
CONSTANTS
    Requests = {"accept", "submit"}
    MaxOpen = 2
INVARIANTS
    BothSubmittedIsSettled
