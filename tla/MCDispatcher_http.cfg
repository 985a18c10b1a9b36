\* One process whose exit drain overlaps its dispatch loop, and one restart.
SPECIFICATION DSpec
CONSTANTS
  e1 = e1
  e2 = e2
  p1 = p1
  w1 = w1
  w2 = w2
  d1 = d1
  None = None
  Events = {e1, e2}
  Procs = {p1}
  Workers = {w1, w2}
  Dests = {d1}
  DestOf <- MCDestOf
  Registry <- MCRegistry
  Adapter <- Http
  Payload <- MCPayload
  Weight <- MCWeight
  MaxRowBytes = 2
  MaxBytes = 0
  DropPolicy = "oldest"
  MaxAttempts = 2
  MaxRetries = 2
  BatchMax = 2
  BatchLimits = {2}
  MaxCrashes = 1
  MaxFaults = 0
INVARIANTS AckedIsTaken DTypeOK OneDispatcherPerEvent TriesCounted
SYMMETRY Symmetry
