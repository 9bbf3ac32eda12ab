SPECIFICATION Spec
CONSTANTS
  TotalRolloutSteps = 5
  RequiredSamples = 2
  TriggerParameterSyncStep = 1
  MaxRequired = 3
  MaxQueueSize = 3
  MaxConcurrent = 2
  PendingMax = 2
  PartialRollout = TRUE
  MonitorAwake = TRUE
  MaxFailures = 0
  OrderedCalls = TRUE
  Done = Done
  Sentinel = Sentinel
  None = None
  Consumers <- MCConsumers
  Item <- MCItem
INVARIANTS
  NoStandstill
CHECK_DEADLOCK FALSE
