SPECIFICATION Spec
CONSTANTS
  TotalRolloutSteps = 5
  RequiredSamples = 1
  TriggerParameterSyncStep = 1
  MaxRequired = 2
  MaxQueueSize = 2
  MaxConcurrent = 2
  PendingMax = 2
  PartialRollout = TRUE
  MonitorAwake = FALSE
  MaxFailures = 1
  OrderedCalls = TRUE
  Done = Done
  Sentinel = Sentinel
  None = None
  Consumers <- MCConsumers
  Item <- MCItem
INVARIANTS
  StalenessBudget
  BoundedLag
  QuietTransfer
PROPERTIES
  TruthfulTags
CHECK_DEADLOCK FALSE
