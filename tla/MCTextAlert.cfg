SPECIFICATION Spec
CONSTANTS
  Patterns = {pir, gas}
  Values = {0, 1, 2, 3}
  DiffNotSave = 2
  ThresholdAlert = 3
  ThresholdWarning = 2
  IsReverse = FALSE
  Processed = {gas}
  EdgeAt = 2
  NoValue = NoValue
  MaxBufferLastSize = 2
  MaxReadings = 5
INVARIANTS
  SavedCloseToSensor
  CommandsMatchEdges
