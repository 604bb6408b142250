SPECIFICATION Spec
CONSTANTS
  Indicators <- MCIndicators
  Sample = "hash"
  Class <- MCClass
  HostOf <- MCHostOf
  Reported <- MCReported
  Providers = {"otx", "urlhaus"}
  Supports <- MCSupports
  Known <- MCKnown
  MaxRows = 2
  Cap = 1
  MaxLookups = 3
  Concurrency = 2
  Threshold = 1
  Capacity = 1
  MaxCrashes = 1
INVARIANTS
  ObservedFirst
  Paced
  FailureContained
  AnswersKept
PROPERTIES
  RunEnds
