CONSTANTS
  g1 = g1
  g2 = g2
  n1 = n1
  n2 = n2
  Goroutines = {g1, g2}
  Names = {n1, n2}
  Scenarios <- MCScenarios
  Old = Old
  UpdateSingle = TRUE
  MaxDeleted = 1
SPECIFICATION Spec
INVARIANTS
  ExistingNeverTwice
  DoneMeansWritten
  AloneNothingTwice
  FailsOnlyAfterErrors
