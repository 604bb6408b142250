SPECIFICATION Spec
CONSTANTS
  Uploads = {"u1", "u2"}
  Configured = {"s3"}
  MaxLost = 0
  Workers = {w1, w2}
  HostOf <- MCHostOf
  FindingIds = {"f1"}
  MaxChains = 1
  MaxFaults = 0
INVARIANTS
  JobFindsItsBytes
