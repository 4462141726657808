CONSTANTS
  Jobs = {j1, j2, j3, j4}
  MaxWorkers = 2
  MaxSends = 1
SPECIFICATION Spec
INVARIANTS
  NoJobLostToQuit
PROPERTIES
  Implements
