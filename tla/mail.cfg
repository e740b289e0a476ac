SPECIFICATION Spec
CONSTANTS
  Passes = {q1, q2}
  Processors = {p1, p2}
  Batch = 2
  MaxAttempts = 2
  Lease = 2
  ClaimLease = 1
  SendTime = 1
  MaxClaims = 3
  MaxFaults = 2
INVARIANTS MailedOnce SentMeansAccepted
PROPERTIES ReminderGoesOut
