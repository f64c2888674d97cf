SPECIFICATION UnguardedSpec
CONSTANTS
  None = None
  Kinds = {"script", "fallback"}
  Steps = 5
  MaximumCalls = 2
  NativeSetpoints = {2390, 2940}
  FaultSets <- MCFaultSets
  WindowStart = 2
  WindowEnd = 4
  BaselineSetpoint = 2390
  Offset = 100
  MinimumApproved = 2200
  MaximumApproved = 2600
  RecoverySteps = 8
  MinimumSetpoint = 2200
  MaximumSetpoint = 3000
  MaximumDelta = 100
  HotThreshold = 2500
  RecoverySetpoint = 2390
  Hysteresis = 50
  RelaxedOffset = 100
  MaximumRelaxed = 3000
  ProtectionThreshold = 2700
  MinimumHold = 1
  OccupancyGrace = 1
  MaximumSequenceGap = 1
  CommandTtl = 2
  Temperatures = {2480, 2600}
INVARIANTS
  OverrunIsReported
  PassIsValidated
  UnguardedReleases
\* The run ends when it is closed.
CHECK_DEADLOCK FALSE
