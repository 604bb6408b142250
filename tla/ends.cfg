SPECIFICATION FairSpec
CONSTANTS
  Workers = {w1, w2}
  Enabled = {"dynamic"}
  MaxRetries = 1
  Budget <- EveryFaultOnce
PROPERTIES
  JobSettles
  KeepsLifecycle
