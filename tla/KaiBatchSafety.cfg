\* Rows of one to three tokens fit, four are too many; three rows or four tokens a batch.
SPECIFICATION Spec
CONSTANTS
  BatchSize = 3
  BatchTokens = 4
  MaxInput = 3
  MaxRequests = 3
  MaxDecisions = 4
  Types <- TwoTypes
  Calls <- SmallCalls
INVARIANTS
  WithinBounds
  OneFate
  UsageExact
