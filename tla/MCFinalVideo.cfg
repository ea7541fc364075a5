SPECIFICATION Spec
CONSTANTS
  Threads = {"algo", "text"}
  RingSize = 2
  LongSize = 2
  FrameBefore = 5
  FrameAfter = 2
  MaxFrames = 6
  MaxFaults = 1
INVARIANTS
  VideoInOrder
  AtMostThrice
PROPERTIES
  WindowRecorded
