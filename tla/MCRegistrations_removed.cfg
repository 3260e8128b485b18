CONSTANTS
  Guests = {g1, g2}
  Workers = {w1, w2}
  Scheduler = timer
  None = none
  Keep = keep
  Capacities = {1, 2}
  Models = {"capacity"}
  Patches <- CapacityPatches
  MaxSignups = 2
  MaxPatches = 1
  MaxAborts = 0
SPECIFICATION OpenFairSpec
CHECK_DEADLOCK FALSE
PROPERTY RemovedStaysRemoved
