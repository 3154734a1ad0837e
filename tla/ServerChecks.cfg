\* Three calls, one place, batches of one: a call can find the queue clogged. Batches may never end.
SPECIFICATION TimedSpec
CONSTANTS
  r1 = r1
  r2 = r2
  r3 = r3
  Requests <- ThreeRequests
  Unsupported = {}
  Malformed = {}
  MaxRequests = 1
  BatchRequests = 1
  BatchWait = FALSE
INVARIANTS
  OpenJobsHoldPlaces
PROPERTIES
  QueueRefusesOnlyBehindStale
  PlacesReturned
