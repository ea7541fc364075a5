SPECIFICATION FairSpec
CONSTANTS
  TimeOut = 3
  SleepTime = 1
  ErrorTimeOut = 6
  ConnectTime = 1
  MaxErrors = 3
  MaxClear = 1
  Ids = {1, 2}
  NoId = 0
  BufferSize = 1
  MaxPending = 2
  MaxSlots = 2
  MaxFaults = 5
INVARIANTS
  NeverSilent
PROPERTIES
  Recovers
  ScheduledRestartHappens
  TimeoutsEnd
