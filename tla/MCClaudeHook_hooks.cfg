\* Three hooks over a transcript of three lines.
SPECIFICATION Spec
CONSTANTS
  h1 = h1
  h2 = h2
  h3 = h3
  Hooks = {h1, h2, h3}
  Sizes = {1, 2}
  MaxSeen = 2
  MaxLines = 3
  MaxRotations = 1
  MaxFailures = 1
INVARIANTS TypeOK NothingPassedOver BilledOnce 
CONSTRAINTS TwoAtOnce OneMishap ThirdAlone NotAllExcused
SYMMETRY Symmetry
CHECK_DEADLOCK FALSE
