---------------------------- MODULE MCJobPipeline ----------------------------
EXTENDS JobPipeline, TLC

\* Every fault once, in any order; MaxRetries = 1 absorbs the one error.
EveryFaultOnce == [f \in Faults |-> 1]

NoFault == [f \in Faults |-> 0]
OneError == [NoFault EXCEPT !["error"] = 1]
OneLoss == [NoFault EXCEPT !["loss"] = 1]
OneCancel == [NoFault EXCEPT !["cancel"] = 1]

WorkerSymmetry == Permutations(Workers)
=============================================================================
