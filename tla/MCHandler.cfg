SPECIFICATION Spec
CONSTANTS
  Files <- MCFiles
  StartUrls <- MCStartUrls
  NoNumber = NoNumber
INVARIANTS
  Disposed
  LinkDelivers
  OffersOnlyWider
\* The player may stop anywhere.
CHECK_DEADLOCK FALSE
