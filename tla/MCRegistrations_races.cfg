CONSTANTS
  Guests = {g1, g2, g3}
  Workers = {w1, w2}
  Scheduler = timer
  None = none
  Keep = keep
  Capacities = {1, 2}
  Models = {"capacity"}
  Patches <- CapacityPatches
  MaxSignups = 3
  MaxPatches = 1
  MaxAborts = 0
SYMMETRY Symmetry
SPECIFICATION Spec
CHECK_DEADLOCK FALSE
INVARIANT SeatsWithinPeak
PROPERTIES WaitlistServed LedgerKept
