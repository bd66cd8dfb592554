SPECIFICATION FairSpec
CONSTANTS
  r1 = r1
  r2 = r2
  r3 = r3
  r4 = r4
  None = None
  Requests = {r1}
  Stream = {r1}
  Sampling <- SamplingAlike
  PromptTokens <- OneToken
  MaxTokens <- TwoTokensForR1
  PriorityOf <- SamePriority
  Deadlined = {r1}
  Cancellable = {r1}
  Deserting = {}
  Policy = "fifo"
  AgingSeconds = 1
  MaxQueued = 2
  MaxActive = 1
  MaxPromptTokens = 1
  MaxOutputTokens = 2
  MaxTotalTokens = 3
  MaxBatchSize = 2
  BatchTokenBudget = 4
  StreamBufferSize = 1
  BatchWait = FALSE
  BackendMayFail = FALSE
  MayShutDown = FALSE
  MaxClock = 0
PROPERTY
  EverySlotFreed
CHECK_DEADLOCK FALSE
