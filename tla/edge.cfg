SPECIFICATION MCSpec
CONSTANTS
  Users = {"u1", "u2"}
  Queries = {q1, q2}
  Budget = 1
  MaxOpens = 2
  MaxActs = 2
  MaxFaults = 1
  MaxEvents = 2
SYMMETRY QuerySymmetry
INVARIANTS
  SessionIsMeant
  QueryComesBack
PROPERTIES
  RefusedHasExpiry
\* All bounds used up: nothing is left to do.
CHECK_DEADLOCK FALSE
