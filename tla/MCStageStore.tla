----------------------------- MODULE MCStageStore -----------------------------
EXTENDS StageStore, TLC

\* Every worker is a host of its own.
MCHostOf == [w \in Workers |-> w]

WorkerSymmetry == Permutations(Workers)

\* Three scopes: two uploads before any chain is under way; deliveries of the static
\* stage over the same findings; and the tree's way through both stages.
InScope ==
  IF pend["static"] = 0 THEN given.chain = {"static"}
  ELSE /\ request = [u \in Uploads |-> IF u = "u1" THEN "new" ELSE "never"]
       /\ IF given.jadx THEN given.chain = Stages /\ given.reports = {}
          ELSE given.chain = {"static"}

MCInit == Init /\ InScope

MCSpec == MCInit /\ [][Next]_vars
===============================================================================
