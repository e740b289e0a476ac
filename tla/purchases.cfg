SPECIFICATION Purchases
CONSTANTS
  Sessions = {s1, s2}
  Subs = {s1}
  Workers = {w1, w2}
  Intents = {i1, i2, i3}
  Life = Life
  Days <- RenewalDays
  PlanDays = 2
  Ends = {1, 4}
  MaxTime = 4
  MaxEdits = 1
SYMMETRY Interchangeable
INVARIANTS RefundEndsUpgrade OneOwed EndAsIfNeverBought
CHECK_DEADLOCK FALSE
