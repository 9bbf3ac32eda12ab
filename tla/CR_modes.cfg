SPECIFICATION Spec
CONSTANTS
  Parts = {actor, critic}
  FirstPart = actor
  Ranks = {r1, r2}
  BatchesPerEpoch = 2
  TotalEpochs = 2
  TotalTrainingSteps = 4
  SaveFreq = 2
  KeepBoth = 1
  Keep <- KeepOf
  ResumeModes = {"auto", "disable", "resume_path"}
  EsiMayExpire = TRUE
  MaxRestarts = 2
INVARIANTS
  StepCountsUpdates
CHECK_DEADLOCK FALSE
