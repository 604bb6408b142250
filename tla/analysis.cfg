SPECIFICATION MCSpec
CONSTANTS
  Workers = {w1, w2}
  Docs = {1, 2}
  Versions = {1, 2}
  Length <- MCLength
  Cost <- MCCost
  Score <- MCScore
  IdRank <- MCIdRank
  KindOf <- MCKindOf
  FamilyOf <- MCFamilyOf
  Agents = {"network", "other"}
  KindsFor <- MCKindsFor
  Families = {"none", "anubis"}
  Backends = {"memory", "qdrant"}
  TopK = 3
  Overfetch = 1
  MaxPerDoc = 2
  MaxTokens = 5
  MinScore = 1
  MaxRuns = 3
  MaxEdits = 1
  MaxFaults = 1
  Iocs = {"sample", "c2", "drop", "host"}
  Type <- MCType
  Says <- MCSays
  Slug <- MCSlug
  MaxAnswers = 3
  Pool <- MCPool
  MaxFindings = 4
  MaxBatches = 3
  Tasks <- MCTasks
  Traces = {trace}
  MaxCopies = 1
  MaxLost = 1
  MaxLate = 1
  Reporters = {w1, w2}
  Formats = {json, pdf}
  FindingsOf <- MCFindings
  MaxReport = 2
  MaxRead = 3
  MaxChains = 2
  MaxMishaps = 1
SYMMETRY NameSymmetry
INVARIANTS
  IngestedIsCurrent
  SelectionSound
  FindingsFollowAnswers
  EvidenceIsOwn
  NothingLeftBehind
  ServedIsTheReport
  ReportIsCurrent
PROPERTIES
  MoreNeverLess
\* All runs, edits and faults used up: nothing is left to do.
CHECK_DEADLOCK FALSE
