CONSTANTS
  Guests = {g1, g2}
  Workers = {w1, w2}
  Scheduler = timer
  None = none
  Keep = keep
  Capacities = {1, 2}
  Models = {"capacity"}
  Patches <- RaisePatches
  MaxSignups = 2
  MaxPatches = 1
  MaxAborts = 1
SPECIFICATION OpenFairSpec
CHECK_DEADLOCK FALSE
PROPERTIES SeatsFill RequestsEnd
