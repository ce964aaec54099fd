SPECIFICATION Spec
CONSTANTS
  Sources = {"log", "observed"}
  Parts = {}
  Poison = {}
  StopAt = {1}
  ParkMax = 3
  BufMax = 2
  Cap = 4
  MaxEvents = 2
  MaxGen = 1
  MaxFaults = 0
INVARIANTS
  NoDoubleCount
CHECK_DEADLOCK FALSE
