\* Two processes that share the price file, and one call or turn each or two.
SPECIFICATION Spec
CONSTANTS
  p1 = p1
  p2 = p2
  Procs = {p1, p2}
  Models = {"opus", "new"}
  Table = {"opus"}
  TTL = 1
  MaxTime = 2
  MaxCalls = 2
  Payloads <- MCPayloads
  Turns <- MCTurns
  Events <- MCEvents
  Policies <- MCPolicies
  Profiles = {"strict", "standard", "permissive"}
INVARIANTS PriceIsFresh BillIsRight NothingLeaks
CONSTRAINT LaterCallsAsk
SYMMETRY Symmetry
CHECK_DEADLOCK FALSE
