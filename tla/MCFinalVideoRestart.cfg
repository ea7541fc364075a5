SPECIFICATION Spec
CONSTANTS
  Threads = {"algo"}
  RingSize = 2
  LongSize = 1
  FrameBefore = 2
  FrameAfter = 3
  MaxFrames = 6
  MaxFaults = 1
PROPERTY
  AlertSaved
