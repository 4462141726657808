CONSTANTS
  g1 = g1
  g2 = g2
  Goroutines = {g1, g2}
  Scenarios <- MCScenarios
  MaxDeleted = 1
SPECIFICATION Spec
INVARIANTS
  NothingCreatedTwice
  OwnObjectKept
PROPERTIES
  OnlyOwnTouched
