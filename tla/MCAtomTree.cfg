SPECIFICATION TreeSpec
CONSTANTS
  Files <- MCFiles
  MAX_TRACKS = 2
INVARIANTS
  OwnedOnce
  AcceptsExactly
  NothingElseLeaks
\* The readers stop when moov is read.
CHECK_DEADLOCK FALSE
