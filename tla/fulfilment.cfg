SPECIFICATION Spec
CONSTANTS
  Requests = {r1}
  Syncs = {s1}
  MaxFaults = 2
CHECK_DEADLOCK FALSE
INVARIANTS OneWorks AckedIsHandledUntorn
PROPERTIES PaidGetsLicence BacklogDrains
