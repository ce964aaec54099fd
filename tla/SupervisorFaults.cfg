SPECIFICATION Spec
CONSTANTS
  Pids = {p1, p2, p3}
  NoPid = NoPid
  p1 = p1
  p2 = p2
  p3 = p3
  MaxFailures = 3
  Detaches = {TRUE, FALSE}
  FaultKinds = {"store", "adopt", "stop", "unconfirmed", "signal", "poll", "crash"}
  MaxFaults = 2
  MaxTimers = 2
SYMMETRY Symmetry
INVARIANTS
  TypeOK
  SupervisedIsRecorded
  StoppedStaysStopped
PROPERTIES
  ImplementsLifecycle
