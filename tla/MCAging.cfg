SPECIFICATION Spec
CONSTANTS
  r1 = r1
  r2 = r2
  r3 = r3
  r4 = r4
  None = None
  Requests = {r1, r2, r3, r4}
  Stream = {}
  Sampling <- R4Apart
  PromptTokens <- OneToken
  MaxTokens <- TwoTokensForR3
  PriorityOf <- RisingPriority
  Deadlined = {}
  Cancellable = {}
  Deserting = {}
  Policy = "priority"
  AgingSeconds = 1
  MaxQueued = 3
  MaxActive = 2
  MaxPromptTokens = 1
  MaxOutputTokens = 2
  MaxTotalTokens = 3
  MaxBatchSize = 2
  BatchTokenBudget = 4
  StreamBufferSize = 1
  BatchWait = FALSE
  BackendMayFail = FALSE
  MayShutDown = FALSE
  MaxClock = 3
INVARIANTS
  BatchesCompatible
PROPERTIES
  BoundedOvertaking
CHECK_DEADLOCK FALSE
