SPECIFICATION Spec
CONSTANTS
  e1 = e1  e2 = e2  e3 = e3  e4 = e4
  Events = {e1, e2, e3, e4}
  Genesis = Genesis
  Nobody = Nobody
  Env = {"diskfull", "syncfail", "kill", "power"}
  Faults = 3
INVARIANTS
  NoSilentLoss
  IntactUnlessDamaged
SYMMETRY Alike
CHECK_DEADLOCK FALSE
