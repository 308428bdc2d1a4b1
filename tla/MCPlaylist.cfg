SPECIFICATION Spec
CONSTANTS
  Traks <- MCTraks
  Lengths <- MCLengths
INVARIANTS
  LoopInvariant
  DurationsWithinTarget
PROPERTY
  ImplementsTiling
\* The loop stops at the end of the samples.
CHECK_DEADLOCK FALSE
