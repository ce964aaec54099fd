SPECIFICATION Spec
CONSTANTS
  Settings <- TokensOnly
  Sizes = {1}
  Sources = {"engine-observed"}
  FaultKinds = {}
  MaxFaults = 1
  MaxTokens = 3
  MaxRuns = 1
  MaxTimers = 1
PROPERTIES
  EveryCeilingFires
