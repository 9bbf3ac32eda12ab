SPECIFICATION Spec
CONSTANTS
  TotalRolloutSteps = 4
  RequiredSamples = 2
  TriggerParameterSyncStep = 1
  MaxRequired = 3
  MaxQueueSize = 3
  MaxConcurrent = 2
  PendingMax = 2
  PartialRollout = TRUE
  MonitorAwake = TRUE
  MaxFailures = 1
  OrderedCalls = FALSE
  Done = Done
  Sentinel = Sentinel
  None = None
  Consumers <- MCConsumers
  Item <- MCItem
INVARIANTS
  TypeOK
  Accounted
  VersionHandshake
  SentinelLast
  NoLostWakeup
PROPERTIES
  StreamSpec
CHECK_DEADLOCK FALSE
