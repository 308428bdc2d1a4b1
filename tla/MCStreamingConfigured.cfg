SPECIFICATION StreamingSpec
CONSTANTS
  Workers = {w1, w2}
  Clients = {c1, c2}
  Films <- MCFilms
  Configured <- MCConfigured
  LengthArgs <- MCLengthArgs
  None = None
  NotFetched = NotFetched
INVARIANT
  SegmentLengthIsConfigured
