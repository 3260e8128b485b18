CONSTANTS
  Guests = {g1, g2}
  Pages = {p1}
  Clicks = {c1, c2}
  MaxChanges = 3
  MaxLosses = 1
SPECIFICATION DashboardSpec
INVARIANTS ReadsOwnDecisions
PROPERTIES ScreenCatchesUp
