\* Two processes that opened the directory before its first event.
SPECIFICATION Spec
CONSTANTS
  e1 = e1
  e2 = e2
  p1 = p1
  p2 = p2
  d1 = d1
  None = None
  Events = {e1, e2}
  Procs = {p1, p2}
  Dests = {d1}
  DestOf <- MCDestOf
  Payload <- MCPayload
  Weight <- MCWeight
  MaxRowBytes = 2
  MaxBytes = 0
  DropPolicy = "oldest"
  MaxAttempts = 1
  BatchLimits = {2}
  MaxCrashes = 0
  MaxFaults = 0
CONSTRAINTS OpenedFirst FewAttempts
INVARIANT ExclusiveClaim
