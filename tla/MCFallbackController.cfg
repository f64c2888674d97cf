SPECIFICATION HistorySpec
CONSTANTS
  None = None
  Zones = {"SPACE3-1"}
  ApprovedZones = {"SPACE3-1"}
  MinimumSetpoint = 2200
  MaximumSetpoint = 3000
  MaximumDelta = 100
  HotThreshold = 2500
  RecoverySetpoint = 2390
  Hysteresis = 50
  RelaxedOffset = 100
  MaximumRelaxed = 3000
  ProtectionThreshold = 2700
  MinimumHold = 4
  OccupancyGrace = 4
  MaximumSequenceGap = 1
  CommandTtl = 2
  Temperatures = {2440, 2480, 2600, 2750}
  Setpoints = {2390, 2450, 2940}
  Gaps = {1}
  MaximumSequence = 16
INVARIANTS CommandWithinAuthority RelaxationYields RecoveryWithinHold
PROPERTIES HoldRepeatsCommand
\* The run ends at MaximumSequence.
CHECK_DEADLOCK FALSE
