CONSTANTS
  viewer = viewer
  reader = reader
  Clients = {viewer, reader}
  Wants <- MCWants
  Cameras = {0, 1}
  MaxNetworkErrorNumber = 2
  MaxId = 1
  MaxFaults = 3
SPECIFICATION UdpSpec
INVARIANTS AnswersMatch NoFrameTwice RequestsDoNotPileUp
CHECK_DEADLOCK FALSE
