\* Two processes on one directory.
SPECIFICATION Spec
CONSTANTS
  e1 = e1
  p1 = p1
  p2 = p2
  d1 = d1
  None = None
  Events = {e1}
  Procs = {p1, p2}
  Dests = {d1}
  DestOf <- MCDestOf
  Payload <- MCPayload
  Weight <- MCWeight
  MaxRowBytes = 2
  MaxBytes = 0
  DropPolicy = "oldest"
  MaxAttempts = 2
  BatchLimits = {1, 2}
  MaxCrashes = 0
  MaxFaults = 0
INVARIANTS NoLoss
