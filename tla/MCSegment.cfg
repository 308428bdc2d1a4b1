SPECIFICATION Spec
CONSTANTS
  Files <- MCFiles
  AudioArgs <- MCAudioArgs
  Starts <- MCStarts
  Lengths <- MCLengths
INVARIANTS
  ChoosesFragments
  AnswersPlaylist
  SlotsFilled
  AudioFollowsVideo
\* Each request is answered once.
CHECK_DEADLOCK FALSE
