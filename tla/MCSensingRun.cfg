SPECIFICATION SensingSpec
CONSTANTS
  None = None
  Capacity = 1
  BatchSize = 2
  Finalises = TRUE
  Kinds = {"sensing", "control", "replay"}
  Steps = 4
  FaultSets <- MCFaultSets
CHECK_DEADLOCK FALSE
INVARIANT NothingVanishes
INVARIANT CleanRowIsComplete
INVARIANT RowTellsOutcome
INVARIANT PassMeansStored
INVARIANT StateOutlivesSimulation
PROPERTY ThreadsEnd
