---------------------------- MODULE MCAgentGraph ----------------------------
EXTENDS AgentGraph, TLC

TwoCrashes == [f \in Faults |-> IF f = "crash" THEN 2 ELSE 1]

=============================================================================
