SPECIFICATION Spec
CONSTANTS
  Workers = {w1, w2}
  Enabled = {"static", "scoring"}
  MaxRetries = 1
  Budget <- OneError
INVARIANT CompletedMeansEveryStageRecorded
