SPECIFICATION CropSpec
CONSTANTS
  Tables <- MCCropTables
  timescale = 500
  StartArgs <- MCStartArgs
  EndArgs <- MCEndArgs
  Others <- MCOthers
  MdatEnd = 100
  FileEnd = 110
  HeadSize = 300
INVARIANTS
  PlacedInChunks
  AgreesWithMedia
  RangeHoldsSamples
  CropsExactly
  BytesFollow
CHECK_DEADLOCK FALSE
