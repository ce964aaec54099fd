SPECIFICATION Spec
CONSTANTS
  Pids = {p1, p2}
  NoPid = NoPid
  p1 = p1
  p2 = p2
  MaxFailures = 2
  Detaches = {FALSE}
  FaultKinds = {}
  MaxFaults = 0
  MaxTimers = 2
PROPERTIES
  StoppedIsNotRestarted
