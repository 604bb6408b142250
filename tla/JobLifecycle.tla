----------------------------- MODULE JobLifecycle ----------------------------
(***************************************************************************)
(* What a client of the API is promised about one job: it is queued, runs  *)
(* with growing progress and ends once, at progress 100, in one of three   *)
(* ways.  The promise holds until the job is disturbed (a worker is lost,  *)
(* a user cancels); that it ends at all holds unless one of its tasks is   *)
(* lost for good.                                                          *)
(***************************************************************************)
EXTENDS Naturals

VARIABLES status, progress, disturbed, lost

lifeVars == <<status, progress, disturbed, lost>>

LifeInit ==
  /\ status = "none" /\ progress = 0
  /\ disturbed = FALSE /\ lost = FALSE

Create ==
  /\ status = "none" /\ status' = "queued"
  /\ UNCHANGED <<progress, disturbed, lost>>

Claim ==
  /\ status = "queued" /\ status' = "running"
  /\ ~disturbed /\ ~lost
  /\ UNCHANGED <<progress, disturbed, lost>>

\* Stages report percentages below 100.
Advance ==
  /\ status = "running"
  /\ \E p \in 1..99 : p > progress /\ progress' = p
  /\ UNCHANGED <<status, disturbed, lost>>

End ==
  /\ status = "running" /\ status' \in {"completed", "partial", "failed"}
  /\ progress' = 100
  /\ ~disturbed /\ ~lost
  /\ UNCHANGED <<disturbed, lost>>

\* A task is lost, which leaves the job as it is.
Lose ==
  /\ lost'
  /\ UNCHANGED <<status, progress, disturbed>>

\* A worker is lost or somebody cancels: nothing is promised from here on.
Disturb == disturbed'

LifeNext == Create \/ Claim \/ Advance \/ End \/ Lose \/ Disturb

LifeSpec == LifeInit /\ [][LifeNext]_lifeVars /\ WF_lifeVars(Claim) /\ WF_lifeVars(End)
=============================================================================
