SPECIFICATION FairSpec
CONSTANTS
  r1 = r1
  r2 = r2
  r3 = r3
  r4 = r4
  None = None
  Requests = {r1, r2}
  Stream = {r1, r2}
  Sampling <- SamplingAlike
  PromptTokens <- OneToken
  MaxTokens <- TwoTokensForR1
  PriorityOf <- SamePriority
  Deadlined = {r1, r2}
  Cancellable = {r1}
  Deserting = {}
  Policy = "fifo"
  AgingSeconds = 1
  MaxQueued = 2
  MaxActive = 1
  MaxPromptTokens = 1
  MaxOutputTokens = 2
  MaxTotalTokens = 3
  MaxBatchSize = 2
  BatchTokenBudget = 4
  StreamBufferSize = 1
  BatchWait = FALSE
  BackendMayFail = TRUE
  MayShutDown = TRUE
  MaxClock = 0
INVARIANTS
  StreamsTerminated
PROPERTIES
  SlotsFreed
  ResponsesEnd
CHECK_DEADLOCK FALSE
