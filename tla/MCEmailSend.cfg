SPECIFICATION MailSpec
CONSTANTS
  NumBuffers = 2
  MailThreads = {m1, m2, m3}
  BufferLists <- Lists
  KindsOfPass <- Together
  ImageCount = 2
  MaxImages = 2
SYMMETRY Symmetry
INVARIANTS
  MailsComplete
  CleanedUp
CHECK_DEADLOCK FALSE
