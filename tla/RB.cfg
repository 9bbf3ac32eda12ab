SPECIFICATION Spec
CONSTANTS
  NoLabel = NoLabel
  Rows = 3
  Divisor = 3
  Scores = {0, 1, 3}
  TeacherScores = {1, 2, 3}
  MinScore = 2
  AppendMinScore = 2
  AppendMinGain = 2
  RequireImprovement = TRUE
  NohintMinScore = 2
  NohintMinGain = 2
  DropNum = 2
  DropDen = 5
  HistorySize = 3
  WarmupSteps = 2
  GlobalMinCount = 2
  MinBinCount = 2
  Labellings <- TwoLabellings
  Configs <- AllConfigs
  MaxSteps = 2
INVARIANTS
  TypeOK
  RowsTrainOnce
  UpdatePossible
  AppendedImprove
  HistoryHonest
  ShiftFollowsRubric
PROPERTIES
  ScoredDropNeedsDisagreement
CHECK_DEADLOCK FALSE
