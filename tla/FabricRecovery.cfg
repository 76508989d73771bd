SPECIFICATION Spec
CONSTANTS
  c1 = c1
  c2 = c2
  t1 = t1
  t2 = t2
  j1 = j1
  j2 = j2
  j3 = j3
  Cells = {c1}
  Threads = {t1, t2}
  Jobs = {j1, j2, j3}
  NoJob = NoJob
  CellOf <- OneCell
  ThreadOf <- TwoPlusOne
  PiCells = {}
  CodexCells = {c1}
  QueueCap = 2
  Env = {"die", "timeout", "startfail", "lostack", "fail", "reject"}
  Faults = 2
INVARIANTS
  TurnCoherence
  FifoStart
  EventsAttributed
