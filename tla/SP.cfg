SPECIFICATION Spec
CONSTANTS
  Rows = 4
  MaxWorkers = 2
  Retries = 1
  HintRetries = 1
  Scores = {40, 50, 60}
  HintBelow = 50
  MinScore = 60
  None = None
INVARIANTS
  TypeOK
  OwnResult
  HintsForLow
