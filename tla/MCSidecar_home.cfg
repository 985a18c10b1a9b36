\* Two processes, which init, config set, destination and the sidecar share.
SPECIFICATION Spec
CONSTANTS
  p1 = p1
  p2 = p2
  Procs = {p1, p2}
  Dests = {"out", "d1", "d2"}
  Network = {"d1", "d2"}
  Hosts = {"h1", "h2"}
  HostOf <- MCHostOf
  Values = {1, 2}
  MaxCommands = 4
  MaxCrashes = 1
INVARIANTS TypeOK SetsKept KeyIsOfAgent ApprovedOnly OneSidecar
CONSTRAINT FourInOrder
SYMMETRY Symmetry
CHECK_DEADLOCK FALSE
