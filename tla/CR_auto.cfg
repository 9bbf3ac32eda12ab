SPECIFICATION FairSpec
CONSTANTS
  Parts = {actor, critic}
  FirstPart = actor
  Ranks = {r1, r2}
  BatchesPerEpoch = 2
  TotalEpochs = 3
  TotalTrainingSteps = 5
  SaveFreq = 2
  KeepBoth = 2
  Keep <- KeepOf
  ResumeModes = {"auto"}
  EsiMayExpire = TRUE
  MaxRestarts = 2
INVARIANTS
  TypeOK
  TrackerNamesWholeCheckpoint
  NoBatchSkippedOrRepeated
  DoneMeansTrained
PROPERTIES
  Settles
CHECK_DEADLOCK FALSE
