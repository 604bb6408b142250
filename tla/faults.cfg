SPECIFICATION Spec
CONSTANTS
  Workers = {w1, w2}
  Enabled = {"static", "ai", "scoring"}
  MaxRetries = 1
  Budget <- EveryFaultOnce
SYMMETRY WorkerSymmetry
INVARIANTS
  TypeOK
  EvidenceBacksOutcome
  EvidenceProvenance
  NoOrphanTask
  OneTaskAtATime
  VerdictMatchesRows
  EveryStageSettled
  ScoredJobHasRisk
PROPERTIES
  EndedIsFrozen
  ProgressMonotone
