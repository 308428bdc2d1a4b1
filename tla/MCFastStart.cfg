SPECIFICATION Spec
CONSTANTS
  Layouts <- MCLayouts
  Truncations = {0}
  Modulus = 1000
  DiskCells = 12
  IoFails = TRUE
  HeaderReadsFail = {"first", "later"}
  MaxRequests = 2
  MaxCrashes = 1
INVARIANTS
  TypeOK
  ReadsAhead
  WrittenIsRight
PROPERTIES
  WritesOnlyWhenMoovLast
  RequestEnds
\* The requests are bounded.
CHECK_DEADLOCK FALSE
