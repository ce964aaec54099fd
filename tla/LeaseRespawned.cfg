SPECIFICATION Spec
CONSTANTS
  Parts = {"adoption"}
  Jobs <- MCJobs
  Acked <- MCAcked
  Hooking <- MCHooking
  BatchMax = 2
  Families <- MCFamilies
  FamilyOf <- MCFamilyOf
  JobMax = 2
  Ring = 2
  MaxEvents = 4
  MaxCrashes = 1
  MaxBreaks = 1
  MaxRemoves = 1
  Bytes <- MCBytes
  OutboxCap = 4
  PageMax = 2
  MaxAppends = 6
  MaxRestarts = 1
  QueueMax = 2
  BusMax = 2
  RetryMax = 2
  MaxSent = 5
  MaxRuns = 3
  MaxNesting = 3
  MaxMissed = 1
  MaxOpens = 1
  Engines = {1, 2, 3}
  Agents = {1, 2}
  NoEngine = 0
  NoAgent = 0
  Detached = {}
  MaxIds = 4
  MaxStrays = 1
  MaxAsks = 1
INVARIANT RespawnedIsRefused
CHECK_DEADLOCK FALSE
