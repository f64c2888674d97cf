SPECIFICATION ExecutionSpec
CONSTANTS
  None = None
  NonNumeric = NonNumeric
  NaN = NaN
  Infinite = Infinite
  Oversized = Oversized
  PlanMinimum = 2200
  PlanMaximum = 3000
  PlanChange = 161
  ActionLimit = 4
  PlanContexts <- MCContexts
  CanonicalContext <- MCCanonical
  Hold = 1
  Horizon = 12
  Ttl = 2
  Minimum = 2200
  Maximum = 3000
  MarginalClamp = 25
  MaximumStep = 161
  StepPerTimestep = 161
  MaximumStateAge = 1
  FaultSets <- MCNoFaults
  MaximumSessions = 2
CHECK_DEADLOCK FALSE
INVARIANT ConsumedNeverRuns
