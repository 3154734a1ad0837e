\* The documentation's claim about oversized jobs; the model's length is the tighter limit.
SPECIFICATION FairSpec
CONSTANTS
  MaxRequests = 3
  MaxBatchQuestions = 2
  MaxBatchTokens = 4
  MaxModelLen = 3
  Retries = 1
  Sizes = {2, 3, 4}
  Workloads <- SmallWorkloads
INVARIANTS
  OversizedBeforeGeneration
