SPECIFICATION Spec
CONSTANTS
  BatchSize = 2
  Servers = {1, 2, 3}
  CacheSize = 2
  PromptLength = 2
  ResponseLength = 4
  Configs <- MCConfigs
  MaxParallelCalls = 2
  MaxBatches = 2
  MaxCalls = 3
  MaxTokens = 2
INVARIANTS
  AnswerSound
  StickyAndBalanced
CHECK_DEADLOCK FALSE
