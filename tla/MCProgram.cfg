SPECIFICATION Spec
CONSTANTS
  Viewers = {v1}
  Chunks <- MCChunks
  IsLoginNeeded = TRUE
  MaxConnections = 2
  MaxChunks = 3
  Inputs <- MCInputs
  NLocal = 2
  MaxFrames = 2
INVARIANTS
  BuffersMatchInputs
  FramesOfRequest
PROPERTIES
  StreamWellFormed
  FilesGetRead
  ViewerFollows
