SPECIFICATION FairSpec
CONSTANTS
  Layouts <- MCLayouts
  BufferSize = 18
  max_buffer_size = 20
  GarbageSizes = {0, 9, 14}
INVARIANTS
  WindowOfFile
  ServesTheFile
  OpensWholeFiles
PROPERTIES
  Returns
CHECK_DEADLOCK FALSE
