SPECIFICATION FairSpec
CONSTANTS
  r1 = r1
  r2 = r2
  r3 = r3
  r4 = r4
  None = None
  Requests = {r1, r2, r3}
  Stream = {}
  Sampling <- R3Apart
  PromptTokens <- OneToken
  MaxTokens <- OneToken
  PriorityOf <- SamePriority
  Deadlined = {r1}
  Cancellable = {r1, r2}
  Deserting = {r3}
  Policy = "fifo"
  AgingSeconds = 1
  MaxQueued = 2
  MaxActive = 2
  MaxPromptTokens = 1
  MaxOutputTokens = 1
  MaxTotalTokens = 2
  MaxBatchSize = 2
  BatchTokenBudget = 4
  StreamBufferSize = 1
  BatchWait = TRUE
  BackendMayFail = FALSE
  MayShutDown = TRUE
  MaxClock = 0
INVARIANTS
  TypeOK
  ResourcesBounded
  RegistriesAgree
  OutcomeDelivered
  CountedOnce
  NoMissedWakeup
  ReleasedIsAnswered
  TimeoutHasCause
  FailureHasCause
  UnloadedIsIdle
PROPERTIES
  ImplementsLifecycle
  Answered
CHECK_DEADLOCK FALSE
