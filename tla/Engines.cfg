SPECIFICATION Spec
CONSTANTS
  Named = Named  None = None
  Requests = {r1, r2}
  Kinds = {"codex", "claude"}
  Params <- MCParams
  Paths = {"p"}
  MaxTasks = 1
  MaxTurns = 3
  Env = {"die", "timeout", "rpctimeout", "reject", "update", "crash", "spawnfail", "fail", "auditfail", "nosession", "policy"}
  Faults = 1
SYMMETRY Symmetry
INVARIANTS
  RowsAudited
  AckMatched
  OwnHistory
  Continuity
PROPERTIES
  BoundKeyReplays
CHECK_DEADLOCK FALSE
