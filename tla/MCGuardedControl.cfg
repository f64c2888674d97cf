SPECIFICATION ControlSpec
CONSTANTS
  None = None
  NonNumeric = NonNumeric
  NaN = NaN
  Infinite = Infinite
  Oversized = Oversized
  MinimumSetpoint = 2200
  MaximumSetpoint = 3000
  MaximumDelta = 100
  HotThreshold = 2500
  RecoverySetpoint = 2390
  Hysteresis = 50
  RelaxedOffset = 100
  MaximumRelaxed = 3000
  ProtectionThreshold = 2700
  MinimumHold = 1
  OccupancyGrace = 1
  MaximumSequenceGap = 1
  CommandTtl = 2
  Minimum = 2200
  Maximum = 3000
  MarginalClamp = 25
  MaximumStep = 161
  StepPerTimestep = 161
  MaximumStateAge = 1
  Temperatures = {2480, 2600}
  NativeSetpoints = {2390, 2940}
  MaximumSequence = 4
  FaultSets = {{"sensor", "effective", "enqueue", "handle"}, {"audit", "effective", "handle"}, {"sensor", "enqueue", "handle"}}
INVARIANTS BaselineIsNative ExpiredIsReplaced ClosedReleases
PROPERTIES Authorised
\* The run ends when it is closed.
CHECK_DEADLOCK FALSE
