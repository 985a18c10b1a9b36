\* One process that crashes, restarts and meets I/O errors; a cap that forces
\* evictions of the oldest once there is a third event.
SPECIFICATION Spec
CONSTANTS
  e1 = e1
  e2 = e2
  e3 = e3
  p1 = p1
  d1 = d1
  None = None
  Events = {e1, e2, e3}
  Procs = {p1}
  Dests = {d1}
  DestOf <- MCDestOf
  Payload <- MCPayload
  Weight <- MCWeight
  MaxRowBytes = 2
  MaxBytes = 6
  DropPolicy = "oldest"
  MaxAttempts = 2
  BatchLimits = {1, 2}
  MaxCrashes = 1
  MaxFaults = 1
INVARIANTS TypeOK NoLoss ExclusiveClaim InflightIsHeld
PROPERTIES CapOrNothingLeft EvictsOldest
CONSTRAINT ThirdIsPlain
