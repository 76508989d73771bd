SPECIFICATION FairSpec
CONSTANTS
  a = a  b = b  q1 = q1  q2 = q2  q3 = q3  w1 = w1  w2 = w2  w3 = w3  r1 = r1  r2 = r2
  Nobody = Nobody
  Cells = {a, b}
  Requests = {q1, q3}
  Asker <- LiveAsker
  Responder <- LiveResponder
  Key <- LiveKey
  Awaits = {w1, w2, w3}
  AskOf <- MCAskOf
  Replies = {r1}
  AnswerOf <- LiveAnswerOf
  PendingCap = 2
  Env = {"crash", "auditfail"}
  Faults = 1
PROPERTIES
  AwaitsReturn
  AsksSettle
CHECK_DEADLOCK FALSE
