SPECIFICATION FairSpec
CONSTANTS
  Sources = {"log", "observed"}
  Parts = {"json", "torn"}
  Poison = {1}
  StopAt = {2}
  ParkMax = 2
  BufMax = 1
  Cap = 2
  MaxEvents = 2
  MaxGen = 2
  MaxFaults = 1
INVARIANTS
  TypeOK
  NoDoubleCount
  Accounted
  BusyNeverSkips
  OutputKept
PROPERTIES
  Settles
CHECK_DEADLOCK FALSE
