SPECIFICATION Spec
CONSTANTS
  Machines = {m1, m2}
  Requests = {r1, r2}
  Seats = {1}
  Limits = {1, 2}
  Timeout = 2
  MaxClock = 2
  MaxKey = 1
PROPERTY LapsedLeaseCompetes
CHECK_DEADLOCK FALSE
