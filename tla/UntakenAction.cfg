SPECIFICATION Spec
CONSTANTS
  Settings <- TwoSettings
  Sizes = {1}
  Sources = {"engine-observed"}
  FaultKinds = {"crash"}
  MaxFaults = 1
  MaxTokens = 3
  MaxRuns = 1
  MaxTimers = 1
INVARIANTS
  FiredActionIsTaken
