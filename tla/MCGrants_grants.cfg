CONSTANTS
    Emails = {o1}
    Clients = {c1}
    Scopes = {all, k1, k2}
    All = all
    NoScope = NoScope
    Workers = {w1, w2, w3}
    MaxRemovals = 1
    MaxCodes = 1
    MaxSecrets = 3
SYMMETRY Symmetry
SPECIFICATION Spec
INVARIANTS
    OneGrantPerConsent
    RemovalKillsTokens
    ClientKeepsUp
    ToolInScope
