SPECIFICATION Spec
CONSTANTS
  Segments <- MCSegments
  ParameterSets = 40
INVARIANTS
  TypeOK
  ReservesExactly
  StampedByFirst
  TablesInTime
  NothingTorn
PROPERTY
  ImplementsMerge
\* The segment is finished.
CHECK_DEADLOCK FALSE
