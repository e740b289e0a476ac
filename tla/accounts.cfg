SPECIFICATION Spec
CONSTANTS
  Clients = {m1, m2}
  Calls = {r1, r2}
  Seats = {1}
  SessionLimits = {1, 2}
  Timeout = 2
  MaxClock = 2
  MaxKey = 2
  Answers = {"ok", "refused"}
  TTL = 3
  Patience = 2
  Reports = {"r1", "r2", "r3"}
  Quantities = {1, 2}
  Quotas = {0, 2, 4}
  MaxCount = 5
  MaxPeriod = 2
  WarnAt = 50
  MaxQuotaEdits = 1
  Guesses = {"g1", "g2", "g3"}
  MaxOTPAttempts = 2
  MaxRecent = 1
  Grace = 6
  Delay = 1
  MaxLosses = 1
  MaxTime = 7
  MaxTokens = 4
  Users = {"u1", "u2", "u3"}
  Listed = {"u1", "u2"}
  First = "u1"
  MaxBoots = 1
  Claims = {"c1", "c2", "c3"}
  Caps = {0, 1, 2}
  MaxDay = 1
  MaxPlanEdits = 2
SYMMETRY Interchangeable
INVARIANTS SessionsOnWorkingKeys OneClaimantRuns QuotaHolds CodesAreSpent RidesOutLosses OwnedForGood ClaimsAreLimited
PROPERTIES SessionsWithinCap RunsOncePerLifetime
CHECK_DEADLOCK FALSE
