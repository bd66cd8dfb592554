SPECIFICATION Spec
CONSTANTS
  MaxCalls = 2
  MaxTokens <- MCMaxTokens
  MaxActive = 2
  Workers = 3
INVARIANTS
  StreamsFaithful
  StopsPromptly
PROPERTIES
  WorkersReturn
CHECK_DEADLOCK FALSE
