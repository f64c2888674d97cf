SPECIFICATION GuardSpec
CONSTANTS
  None = None
  NonNumeric = NonNumeric
  NaN = NaN
  Infinite = Infinite
  Oversized = Oversized
  NoCommandId = NoCommandId
  Enabled = TRUE
  Audited = TRUE
  CommitInterval = 1
  Minimum = 2200
  Maximum = 3000
  MarginalClamp = 25
  MaximumStep = 161
  StepPerTimestep = 161
  MaximumStateAge = 1
  SchemaVersion = 1
  EnvironmentTypes = {3}
  ApprovedZones = {"SPACE3-1"}
  PlenumZones = {"PLENUM-1"}
  ApprovedActuator <- Space3
  Names <- MCNames
  Contexts <- MCContexts
  CommandIds <- MCCommandIds
  Proposals <- EveryProposal
  MaximumRows = 2
INVARIANTS ReleasedInBounds ReleasedIsCommitted OneCommandPerId StoppedOnlyResets
PROPERTIES MovesWithinRate
