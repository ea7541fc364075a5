CONSTANTS
  p = p
  q = q
  Detectors <- MCDetectors
  Skip <- MCSkip
  Images <- MCImages
  AreaMinSize = 2
  MinDistance = 1
  MinPositiveFrames = 3
  RingSize = 4
  MaxThreads = 2
SPECIFICATION FairSpec
INVARIANTS MotionNoticed QuietAfterOff
PROPERTIES FaceInTwoFrames PassesGoOn
