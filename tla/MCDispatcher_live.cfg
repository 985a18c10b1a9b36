\* Two dispatch goroutines that compete for q.mu, two destinations, one
\* restart; the event is for the destination the registry visits last.
SPECIFICATION FairSpec
CONSTANTS
  e1 = e1
  p1 = p1
  w1 = w1
  w2 = w2
  d1 = d1
  d2 = d2
  None = None
  Events = {e1}
  Procs = {p1}
  Workers = {w1, w2}
  Dests = {d1, d2}
  DestOf <- MCDestOf
  Registry <- MCRegistryTwo
  Adapter <- FileDest
  Payload <- MCPayload
  Weight <- MCWeight
  MaxRowBytes = 2
  MaxBytes = 0
  DropPolicy = "oldest"
  MaxAttempts = 2
  MaxRetries = 2
  BatchMax = 2
  BatchLimits = {2}
  MaxCrashes = 1
  MaxFaults = 0
PROPERTY EventuallySettled
