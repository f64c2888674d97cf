SPECIFICATION SupervisorSpec
CONSTANTS
  Runs = {"live"}
  RecordedStates = {1}
  StateEnvironment = "weather-3"
  Zones = {"SPACE3-1", "PLENUM-1"}
  PlanningZones = {"SPACE3-1"}
  Horizons = {12}
  DefaultHorizon = 12
  DefaultRun = "live"
  DefaultState = 1
  DefaultRows = 20
  MaximumRows = 100
  CandidateIds = {"p1", "p2", "p3"}
  EligibleIds = {"p1", "p2"}
  BestId = "p1"
  RankedIds = {"p1"}
  LedgerIds = {"p1"}
  LedgerAccepts = TRUE
  ControlEnabled = FALSE
  s1 = s1
  s2 = s2
  c1 = c1
  Callers = {s1, s2, c1}
  Supervisors = {s1, s2}
  Given <- MCGiven
  Nobody = Nobody
  Recorded <- MCRecorded
  Artifacts <- MCArtifacts
  SupervisorRequests <- MCSupervisorRequests
  ClientRequests <- MCClientRequests
  ModelCalls <- MCModelCalls
  MaximumIterations = 3
  MaximumCalls = 3
  MaximumCorrections = 1
  MaximumStarts = 2
INVARIANTS
  EvidenceIsAudited
  StepsWithinLimit
  ReturnedIsRecorded
PROPERTIES
  CallsAreAudited
  SessionsEnd
CHECK_DEADLOCK FALSE
