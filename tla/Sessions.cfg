SPECIFICATION FairSpec
CONSTANTS
  c1 = c1  c2 = c2
  Void = Void
  Conns = {c1, c2}
  TokenOf <- MCTokenOf
  Script <- MCScript
  Open = {c1}
  MaxToken = 2
  MaxRevokes = 1
  Env = {"crash", "expire"}
  Faults = 1
INVARIANTS
  RetiredNeverOpens
  RevocationCuts
  AnsweredInOrder
PROPERTIES
  FramesAnswered
CHECK_DEADLOCK FALSE
