SPECIFICATION Spec
CONSTANTS
  MaxSize = 5
  MaxLongSize = 2
  LongSkipCount = 2
  MinAlgoFrameCount = 3
  Depths = {2, 3}
  MaxFrames = 9
  Viewers = {v1, v2}
  NoFrame = NoFrame
SYMMETRY ViewerSymmetry
INVARIANTS
  NewestUncompressed
  CountersBalanced
  OldFramesCompressed
  FullImageRecoverable
  MissedOnlyIfOvertaken
  VideoChronological
PROPERTIES
  LockKeepsFrameInRing
  RecordsHistory
