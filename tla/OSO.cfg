SPECIFICATION Spec
CONSTANTS
  BatchesPerEpoch = 3
  TotalEpochs = 2
  TotalTrainingSteps = 6
  CriticWarmup = 2
  SaveFreq = 1
  TestFreq = 1
  MaxRestarts = 3
  None = None
INVARIANTS
  OneStepOffPolicy
  CostOfRestart
