SPECIFICATION LedgerSpec
CONSTANTS
  Points <- MCPoints
  RolloutSteps = 5
  Openings = {0, 1, 60, 190}
  BankOpenings = {0, 7, 60, 320}
  OccupiedLower = 100
  OccupiedUpper = 300
  UnoccupiedLower = 0
  UnoccupiedUpper = 400
  ProtectedLower = 100
  ProtectedUpper = 275
  CreditPerTimestep = 8
  CreditPerHorizon = 27
  MaximumDebt = 200
  MaximumBurden = 30
  ConsecutiveLimit = 2
  Windows = 2
  MaximumDeposit = 250
  WithdrawalLimit = 120
  ProtectedReserve = 230
  MaximumBalance = 400
INVARIANTS
  DebtIsAccounted
  BankIsBalanced
  RefusalIsRounding
CHECK_DEADLOCK FALSE
