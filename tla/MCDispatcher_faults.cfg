\* A capped queue, one dispatch goroutine, one restart or one I/O error.
SPECIFICATION DSpec
CONSTANTS
  e1 = e1
  e2 = e2
  p1 = p1
  w1 = w1
  d1 = d1
  None = None
  Events = {e1, e2}
  Procs = {p1}
  Workers = {w1}
  Dests = {d1}
  DestOf <- MCDestOf
  Registry <- MCRegistry
  Adapter <- WebhookScout
  Payload <- MCPayload
  Weight <- MCWeight
  MaxRowBytes = 2
  MaxBytes = 3
  DropPolicy = "oldest"
  MaxAttempts = 2
  MaxRetries = 2
  BatchMax = 2
  BatchLimits = {2}
  MaxCrashes = 1
  MaxFaults = 1
INVARIANT Delivered
PROPERTY ImplementsAtLeastOnce
CONSTRAINT OneMishap
SYMMETRY Symmetry
