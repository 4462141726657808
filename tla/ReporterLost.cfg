CONSTANTS
  Goroutines = {g1, g2}
  Main = main
  States = {"SUCCESS"}
  Cap = 2
  MaxReports = 1
SPECIFICATION Spec
CHECK_DEADLOCK FALSE
INVARIANT
  AllRecordsWritten
