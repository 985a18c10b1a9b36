\* Two processes and two servers.
SPECIFICATION Spec
CONSTANTS
  p1 = p1
  p2 = p2
  Procs = {p1, p2}
  Servers = {"fs", "git"}
  Cmds = {"npx", "bare", "url"}
  Bare = {"bare"}
  Remote = {"url"}
  Formats = {"json", "text"}
  MaxCommands = 3
  MaxEdits = 1
  MaxCrashes = 1
  MaxSeconds = 1
INVARIANTS TypeOK FileIsWhole UnpatchReaches UserCommandKept BackedUp
CONSTRAINT TwoOverlap
SYMMETRY Symmetry
CHECK_DEADLOCK FALSE
