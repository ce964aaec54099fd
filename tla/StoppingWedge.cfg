SPECIFICATION ReopenSpec
CONSTANTS
  Pids = {p1, p2}
  NoPid = NoPid
  p1 = p1
  p2 = p2
  MaxFailures = 2
  Detaches = {TRUE}
  FaultKinds = {"unconfirmed"}
  MaxFaults = 1
  MaxTimers = 2
PROPERTIES
  StoppingIsLeft
