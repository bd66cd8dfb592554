SPECIFICATION SimulatorsSpec
CONSTANTS
  Requests = {a, b, c}
  BlockSize = 2
  TokenCounts = {0, 1, 2, 3, 5}
  MaxBlocks = 6
  Workloads <- MCWorkloads
  CommandLines <- MCCommandLines
  Capacities <- MCCapacities
  RequestLists <- MCRequestLists
  Comparisons <- MCComparisons
  ChunkSizes = {1, 2}
  Bounds = {1, 2}
  StepLimit = 60
INVARIANTS
  RefcountsExact
  TablesFull
  SharedBlocksFull
  SummaryBalances
  WorkPlaced
  EndsByHorizon
  StaticNoBetter
  CommandLineNoSlower
  RequestsPlaced
  PrefillEndsByHorizon
  TokenGapsBounded
PROPERTIES
  Isolated
CHECK_DEADLOCK FALSE
