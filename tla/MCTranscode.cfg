SPECIFICATION FairSpec
CONSTANTS
  Inputs <- MCInputs
  Width <- MCWidth
  Capacity <- MCCapacity
INVARIANTS
  OutputInOrder
  NothingLost
  ReleasesAll
PROPERTIES
  Ends
