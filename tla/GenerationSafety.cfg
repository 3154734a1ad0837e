\* Two questions and one, which may be about images; two slots, one repair, three probes.
SPECIFICATION ServerSpec
CONSTANTS
  r1 = r1
  r2 = r2
  q1 = q1
  q2 = q2
  q3 = q3
  Requests <- TwoRequests
  Vision <- OneOfVision
  Asks <- TwoAndOne
  MaxConcurrency = 2
  Retries = 1
  MaxProbes = 3
SYMMETRY QuestionSymmetry
INVARIANTS
  SlotsBalanced
  NothingLeaks
  AllOrNothing
  WorkHasCallers
  PoolReserve
PROPERTIES
  NoCallAfterFailure
