SPECIFICATION Spec
CONSTANTS
  Triggers = {1, 2, 3}
  TestFreqs = {0, 1, 2, 3}
  MaxSteps = 7
  None = None
INVARIANTS
  ResultsKeepUp
  FinalValidation
