SPECIFICATION Spec
CONSTANTS
  Settings <- TwoSettings
  Sizes = {1}
  Sources = {"engine-observed", "self-reported"}
  FaultKinds = {"totals", "config", "breaches", "record", "commit", "crash"}
  MaxFaults = 1
  MaxTokens = 3
  MaxRuns = 3
  MaxTimers = 2
INVARIANTS
  OncePerRun
  BreachHolds
  FenceSurvives
PROPERTIES
  CrossingIsRecorded
