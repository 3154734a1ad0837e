\* Three processes, two payloads and the manifest, two faults.
SPECIFICATION FairSpec
CONSTANTS
  server = server
  other = other
  local = local
  code = code
  weights = weights
  manifest = manifest
  Processes <- ThreeProcesses
  Given <- OneGiven
  Payloads <- TwoPayloads
  Manifest = manifest
  MaxFaults = 2
INVARIANTS
  OnlyReviewed
PROPERTIES
  CachedStartsOffline
  StartsRecover
