CONSTANTS
  Jobs = {j1, j2, j3}
  MaxWorkers = 0
  MaxSends = 2
SPECIFICATION Spec
PROPERTIES
  BatchAnswered
