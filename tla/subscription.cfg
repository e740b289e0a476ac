SPECIFICATION Spec
CONSTANTS
  Workers = {w1, w2}
  MaxChanges = 2
  MaxPeriods = 2
  MaxStamps = 2
  MaxFaults = 1
INVARIANTS FollowsStripe TellsOnce
PROPERTY KeepsStanding
CHECK_DEADLOCK FALSE
SYMMETRY Interchangeable
