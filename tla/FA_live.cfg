SPECIFICATION FairSpec
CONSTANTS
  TotalRolloutSteps = 4
  RequiredSamples = 2
  TriggerParameterSyncStep = 1
  MaxRequired = 3
  MaxQueueSize = 3
  MaxConcurrent = 2
  PendingMax = 2
  PartialRollout = TRUE
  MonitorAwake = FALSE
  MaxFailures = 0
  OrderedCalls = FALSE
  Done = Done
  Sentinel = Sentinel
  None = None
  Consumers <- MCConsumers
  Item <- MCItem
PROPERTIES
  Terminates
  PauseAnswered
  InterruptedResume
CHECK_DEADLOCK FALSE
