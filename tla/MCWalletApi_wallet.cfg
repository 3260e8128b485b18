CONSTANTS
    Callers = {c1, c2, c3}
    MaxEdits = 3
    MaxTokens = 3
    MaxClicks = 5
SYMMETRY Symmetry
SPECIFICATION Spec
INVARIANTS
    CachesTrue
    PromisesLive
