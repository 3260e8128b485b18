CONSTANTS
    Guests = {g1}
    Pages = {p1, p2}
    Keys = {phone}
    NoKey = NoKey
    Types = {short, pick}
    Picks = {pick}
    MaxCustom = 1
    MaxEdits = 2
    MaxSaves = 2
    MaxActs = 2
SYMMETRY Symmetry
SPECIFICATION Spec
INVARIANTS
    AnswersFit
    SavedOnce
PROPERTIES
    AnswersKept
    OffMeansOff
