SPECIFICATION StoreSpec
CONSTANTS
  t1 = t1
  t2 = t2
  t3 = t3
  a1 = a1
  a2 = a2
  Trainings = {t1, t2, t3}
  NoTraining = none
  Qualified = {t1, t2}
  Plans = {1, 2}
  Horizon = 4
  Settings = {"few", "all"}
  Eligible <- MCEligible
  OodSteps <- MCOodSteps
  Movements <- MCMovements
  Approvals = {a1, a2}
  NoApproval = no
  MaxPrograms = 6
SYMMETRY MCSymmetry
INVARIANTS
  EvidenceIsLinked
  SessionsAreApproved
PROPERTIES
  EvidenceIsAdditive
CHECK_DEADLOCK FALSE
