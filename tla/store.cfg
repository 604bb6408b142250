SPECIFICATION MCSpec
CONSTANTS
  Uploads = {"u1", "u2"}
  Configured = {"local", "s3"}
  MaxLost = 1
  Workers = {w1, w2}
  HostOf <- MCHostOf
  FindingIds = {"f1"}
  MaxChains = 2
  MaxFaults = 1
SYMMETRY WorkerSymmetry
INVARIANTS
  SampleHasBytes
  NothingLost
  NoStaleRows
  DepthKept
