SPECIFICATION Spec
CONSTANTS
  Workers = {w1, w2}
  MaxSeats = 2
  MaxRequests = 2
  MaxEdits = 1
  MaxFaults = 1
INVARIANT SeatsArePaid
PROPERTY TermsSettle
CHECK_DEADLOCK FALSE
