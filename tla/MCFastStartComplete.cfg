SPECIFICATION Spec
CONSTANTS
  Layouts <- MCTwice
  Truncations = {0}
  Modulus = 1000
  DiskCells = 12
  IoFails = FALSE
  HeaderReadsFail = {}
  MaxRequests = 1
  MaxCrashes = 0
INVARIANT
  FixedIsComplete
CHECK_DEADLOCK FALSE
