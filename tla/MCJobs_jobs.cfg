CONSTANTS
    Workers = {w1, w2}
    Guests = {g1}
    Models = {"invite", "approval"}
    Dates = {1, 2}
    MaxDeeds = 2
    MaxSignups = 1
    MaxTime = 2
    Ticks = {t1, t2}
    Interval = 1
    Patience = 0
SPECIFICATION Spec
INVARIANTS
    InviteGate
    NothingSwallowed
    WarnedOnce
PROPERTIES
    EscalationComes
