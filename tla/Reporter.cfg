CONSTANTS
  Goroutines = {g1, g2}
  Main = main
  States = {"SUCCESS", "ERROR"}
  Cap = 2
  MaxReports = 2
SPECIFICATION Spec
CHECK_DEADLOCK FALSE
INVARIANTS
  SummaryAgrees
  ReportComplete
PROPERTY
  StopsUnlessStuck
