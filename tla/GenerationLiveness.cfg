\* One slot, one repair: deadlines or answers may never come.
SPECIFICATION LoopSpec
CONSTANTS
  r1 = r1
  r2 = r2
  q1 = q1
  q2 = q2
  q3 = q3
  Requests <- TwoRequests
  Vision <- OneOfVision
  Asks <- TwoAndOne
  MaxConcurrency = 1
  Retries = 1
  MaxProbes = 0
PROPERTIES
  RequestsEnd
  NobodyForgotten
