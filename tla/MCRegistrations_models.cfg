CONSTANTS
  Guests = {g1, g2}
  Workers = {w1, w2}
  Scheduler = timer
  None = none
  Keep = keep
  Capacities = {1}
  Models = {"capacity", "approval"}
  Patches <- AllPatches
  MaxSignups = 2
  MaxPatches = 2
  MaxAborts = 1
SYMMETRY Symmetry
SPECIFICATION Spec
CHECK_DEADLOCK FALSE
INVARIANTS Bookkeeping TicketsMatch
PROPERTY SignupNotLost
