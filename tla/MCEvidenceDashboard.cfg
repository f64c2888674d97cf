SPECIFICATION DashboardSpec
CONSTANTS
  HashOrder <- MCHashOrder
  ReadOrder <- MCReadOrder
  Database = "database"
  MaxContent = 3
  Compatible = {1, 2}
  MaxRewrites = 3
PROPERTIES
  ServedIsOfOneMoment
CHECK_DEADLOCK FALSE
