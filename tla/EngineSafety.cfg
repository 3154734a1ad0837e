\* Up to four questions in up to four requests, two repairs each.
SPECIFICATION FairSpec
CONSTANTS
  MaxRequests = 3
  MaxBatchQuestions = 2
  MaxBatchTokens = 4
  MaxModelLen = 6
  Retries = 2
  Sizes = {2, 3, 4, 5}
  Workloads <- SmallWorkloads
INVARIANTS
  InTurn
  NothingForgotten
  BatchWithinBudgets
  ReturnsEverything
PROPERTIES
  Terminates
