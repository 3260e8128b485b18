CONSTANTS
    Guests = {g1}
    Codes = {c1, c2}
    None = None
    Workers = {w1, w2}
    Limit = 1
    Window = 1
    MaxCalls = 4
    MaxDeeds = 2
    MaxTime = 3
SYMMETRY Symmetry
SPECIFICATION Spec
CHECK_DEADLOCK FALSE
INVARIANTS
    GateHolds
    GuessesBounded
    HolderAdmitted
    OwnSignupShown
