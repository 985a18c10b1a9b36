\* The tail and a Stop hook over two sessions.
SPECIFICATION Spec
CONSTANTS
  s1 = s1
  s2 = s2
  p1 = p1
  Sessions = {s1, s2}
  Stops = {p1}
  Calls = {1}
  MaxRows = 2
  MaxFailures = 1
INVARIANTS TypeOK PiecesAddUp NothingPassedOver
CONSTRAINTS FailsOrOther FailsOrAgain OneScanned NotAllExcused
SYMMETRY Symmetry
