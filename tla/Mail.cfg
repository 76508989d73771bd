SPECIFICATION FairSpec
CONSTANTS
  a = a  b = b  c = c  s1 = s1  bc = bc
  Nobody = Nobody
  Cells = {a, b, c}
  Sends = {s1}
  Broadcasts = {bc}
  From <- MCFrom
  To <- MCTo
  Key <- MCKey
  Body <- MCKey
  Pushed = {b}
  Outcomes = {"delivered", "acked", "transient", "permanent"}
  QueueCap = 1
  MaxAttempts = 2
  ClaimMax = 1
  InboxMax = 1
  Env = {"crash", "auditfail", "slow", "disconnect"}
  Faults = 1
INVARIANTS
  EnqueuedAudited
  OneMessagePerKey
  DeliveredWasHandedOver
  AttemptBudget
PROPERTIES
  TerminalIsFinal
  MailSettles
CHECK_DEADLOCK FALSE
