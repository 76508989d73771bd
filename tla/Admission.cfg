SPECIFICATION Spec
CONSTANTS
  me = me  a = a  b = b  p = p  ghost = ghost
  Me = me
  Registered = {me, a, b, p}
  Capabilities = {"send", "ask", "broadcast"}
  Protected = {p}
  SendGrants = {}
  AskGrants = {p}
  Conns = {c1, c2}
  Calls <- MCCalls
  Window = 2
  Ceiling <- MCCeiling
  QueueDepth = 1
  PendingCap = 1
  MaxTime = 3
  MaxCalls = 2
  MaxRestarts = 1
INVARIANTS
  RateBound
  CapsUpToRaces
SYMMETRY Symmetry
CHECK_DEADLOCK FALSE
