\* Four inference requests and one for another route, two places.
SPECIFICATION BoundarySpec
CONSTANTS
  c1 = c1
  c2 = c2
  c3 = c3
  c4 = c4
  c5 = c5
  Calls <- FiveCalls
  Limited <- FourInference
  MaxRequests = 2
SYMMETRY InferenceSymmetry
INVARIANTS
  PlacesBalanced
PROPERTIES
  OverloadIsReal
