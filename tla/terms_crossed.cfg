SPECIFICATION Spec
CONSTANTS
  Workers = {w1, w2, w3}
  MaxSeats = 2
  MaxRequests = 2
  MaxEdits = 0
  MaxFaults = 0
INVARIANT UseIsPaid
CHECK_DEADLOCK FALSE
