SPECIFICATION Spec
CONSTANTS
  MaxRequests = 2
  MaxPrompt = 1
  MaxOutput = 2
  MaxTotal = 3
  MaxQueued = 1
  Limits = {1, 2}
  PromptLengths = {1}
  OutputLengths = {2, 3}
  Faults <- MCFaults
INVARIANTS
  SamplesTruthful
  LedgersAgree
PROPERTIES
  EverySampled
CHECK_DEADLOCK FALSE
