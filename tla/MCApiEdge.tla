------------------------------- MODULE MCApiEdge -------------------------------
EXTENDS ApiEdge, TLC

CONSTANT MaxEvents   \* bound of the model: acts of the user and faults together

QuerySymmetry == Permutations(Queries)

\* Users are alike: the first one has the saved session.
MCInit == Init /\ meant = "u1"

\* The server reads whether a token has expired only for a request it has before it:
\* expiring earlier makes no difference.
Presented(n) == \E c \in Queries : call[c].token = n /\ call[c].at \in {"sent", "unset"}

MCNext ==
  /\ Next
  /\ acts' + faults' <= MaxEvents
  /\ \A n \in expired' \ expired : Presented(n)

MCSpec == MCInit /\ [][MCNext]_vars
================================================================================
