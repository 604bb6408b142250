SPECIFICATION Spec
CONSTANTS
  Analysts = {a1, a2}
  MaxRetries = 1
  MaxTurns = 2
  Budget <- TwoCrashes
INVARIANTS
  FindingsOnce
  JoinIsBarrier
  CompletedHasBasis
PROPERTIES
  ReportedProgressStays
  RunEnds
