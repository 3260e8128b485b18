CONSTANTS
    Emails = {e1}
    Workers = {w1, w2}
    LinkTTL = 1
    MaxAttempts = 1
    EmailLimit = 1
    EmailWindow = 1
    IpLimit = 2
    IpWindow = 2
    Persistent = 4
    Ephemeral = 1
    Rest = 1
    MaxTime = 3
    MaxLinks = 2
SYMMETRY Symmetry
SPECIFICATION Spec
INVARIANTS
    GuessesCapped
    MailsLimited
    OneSessionPerLink
    SignedInWhileUsed
    NothingShadows
