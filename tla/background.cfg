SPECIFICATION Background
CONSTANTS
  Passes = {p1, p2}
  MaxCalls = 2
  Batch = 1
  MaxAttempts = 2
  FailuresEndPass = 1
  MaxMeteringFaults = 2
  Senders = {s1, s2, s3}
  MaxRetries = 2
  Lease = 2
  SendTime = 1
  MaxWebhookFaults = 2
  Members = {1}
  Devices = {d1}
  Requests = {r1}
  Plans <- FreeOnly
  Quantities = {1}
  Stamps = {1}
  MaxSerial = 4
  OlderReplica = TRUE
INVARIANTS BilledOnce KeyFromThisJoin
PROPERTIES ResentOnlyIfCutOff Settles UsageSettles LeftoversCleared
