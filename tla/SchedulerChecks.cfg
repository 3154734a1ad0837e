\* Four calls, one malformed and one foreign, a queue of one, batches of two, with the window.
SPECIFICATION FairSpec
CONSTANTS
  r1 = r1
  r2 = r2
  r3 = r3
  r4 = r4
  Requests <- FourRequests
  Unsupported <- OneForeign
  Malformed <- OneMalformed
  MaxRequests = 1
  BatchRequests = 2
  BatchWait = TRUE
INVARIANTS
  NoLostWaiter
  CallersMatchFutures
  TasksBalanced
  NobodyWaitsAfterDrain
  ShutdownCoherent
PROPERTIES
  SettledOnce
  KeepsPromise
  EveryCallerAnswered
  CloseTerminates
