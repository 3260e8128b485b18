CONSTANTS
  Hosts = {h1}
  Users = {h1, u1, u2}
  Nobody = nobody
  Workers = {w1, w2}
  MaxRotation = 2
  Phones = {d1}
  MaxLosses = 1
  MaxRevokes = 1
  MaxDeeds = 5
SYMMETRY Symmetry
SPECIFICATION ScreensSpec
INVARIANTS ClaimedHasPass LatecomersTurnedAway NobodyWaitsInVain OneEntryPerPhone RevokedStaysDead WinnersHavePasses
PROPERTIES PromiseKept
