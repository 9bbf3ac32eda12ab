SPECIFICATION Spec
CONSTANTS
  Samples = {s1}
  RolloutN = 2
  Servers = {v1, v2}
  ResponseLength = 2
  Slack = 1
  MaxSyncs = 3
  None = None
INVARIANTS
  TypeOK
  TokensAccountedFor
PROPERTIES
  GrowthSpec
  PauseEnds
  AllDelivered
CHECK_DEADLOCK FALSE
