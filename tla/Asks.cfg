SPECIFICATION Spec
CONSTANTS
  a = a  b = b  q1 = q1  q2 = q2  q3 = q3  w1 = w1  w2 = w2  w3 = w3  r1 = r1  r2 = r2
  Nobody = Nobody
  Cells = {a, b}
  Requests = {q1, q2, q3}
  Asker <- MCAsker
  Responder <- MCResponder
  Key <- MCKey
  Awaits = {w1, w2, w3}
  AskOf <- MCAskOf
  Replies = {r1, r2}
  AnswerOf <- MCAnswerOf
  PendingCap = 2
  Env = {"crash", "auditfail"}
  Faults = 1
INVARIANTS
  NoWaitCycle
  EdgesExact
  AuditedFirst
  WokenSeesOutcome
  OneTicketPerKey
PROPERTIES
  SingleReply
SYMMETRY Interchange
CHECK_DEADLOCK FALSE
