SPECIFICATION Spec
CONSTANTS
  Requests = {r1, r2}
  Syncs = {s1}
  MaxFaults = 1
CHECK_DEADLOCK FALSE
INVARIANTS AckedIsHandled
