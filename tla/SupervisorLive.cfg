SPECIFICATION FairSpec
CONSTANTS
  Pids = {p1, p2}
  NoPid = NoPid
  p1 = p1
  p2 = p2
  MaxFailures = 2
  Detaches = {TRUE, FALSE}
  FaultKinds = {"unconfirmed"}
  MaxFaults = 1
  MaxTimers = 2
INVARIANTS
  OneProcess
  NoPhantomRow
  FrozenOnlyForBreach
PROPERTIES
  CrashIsNoticed
  RestartHappens
  StuckStopHeals
  CrashLoopEnds
