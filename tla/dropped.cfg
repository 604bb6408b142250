SPECIFICATION FairSpec
CONSTANTS
  Workers = {w1, w2}
  Enabled = {"static", "ai", "reporting"}
  MaxRetries = 1
  Budget <- OneLoss
PROPERTY JobEnds
