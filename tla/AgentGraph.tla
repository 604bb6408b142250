------------------------------ MODULE AgentGraph ------------------------------
(***************************************************************************)
(* The multi-agent analysis graph: analysis agents in parallel, a join, a  *)
(* risk agent and a report agent, run by LangGraph one superstep at a      *)
(* time.  Nodes of a superstep run concurrently, their updates are merged  *)
(* by the reducers of GraphState when the last one is done, and the state  *)
(* is checkpointed behind the run: a process that dies falls back to the   *)
(* last checkpoint, which may be older than what it had reached.           *)
(*                                                                         *)
(* A run has one of two faces.  The "pipeline" (SephelaAnalysisPipeline,   *)
(* what the Celery task calls) has no checkpointer and starts over after a *)
(* crash; the "runner" (PipelineRunner) resumes from the checkpoint.       *)
(*                                                                         *)
(* Simplifications: an agent's output and its findings are present or      *)
(* absent; waiting times are left out, so a deadline may strike at any     *)
(* moment of an attempt; telemetry and error texts are left out.  What an  *)
(* agent returns can be serialised: a failure to do so, which would fail   *)
(* the node without another attempt, is left out.                          *)
(***************************************************************************)
EXTENDS Naturals, FiniteSets

CONSTANTS
  Analysts,    \* the analysis agents (six in the code)
  MaxRetries,  \* retries of _execute_with_retry around agent.execute
  MaxTurns,    \* max_retries of AgentConfig, inside agent.execute
  Budget       \* how many faults a behaviour may contain

Faults == {"raise", "crash", "graph"}

ASSUME AnalystsAssumption ==
  IsFiniteSet(Analysts) /\ {"risk_agent", "report_agent"} \cap Analysts = {}
ASSUME RetriesAssumption == MaxRetries \in Nat /\ MaxTurns \in Nat
ASSUME GraphBudgetAssumption == Budget \in [Faults -> Nat]

VARIABLES
  face,      \* who runs the graph: "pipeline" or "runner"
  evidence,  \* the caller passed a non-empty envelope
  node,      \* the superstep the graph is in
  chan,      \* the channels of GraphState as of the last superstep
  writes,    \* what the finished nodes of this superstep will merge
  attempt,   \* where each agent is in its two retry loops
  saved,     \* the last checkpoint the checkpointer has stored
  up,        \* the worker process is alive
  result,    \* the status the caller was given, "none" before that
  budget     \* faults still allowed

vars == <<face, evidence, node, chan, writes, attempt, saved, up, result, budget>>

-----------------------------------------------------------------------------
(* The state of the graph. *)

Agents == Analysts \cup {"risk_agent", "report_agent"}

PipelineStatus ==
  {"pending", "running", "completed", "failed", "partial", "cancelled"}

\* An AgentResultEntry, as far as the graph looks into it.
Entry(status, output, findings) ==
  [status |-> status, output |-> output, findings |-> findings]

NoEntry == Entry("none", FALSE, FALSE)

Entries == [status: {"none", "completed", "failed", "timed_out"},
            output: BOOLEAN, findings: BOOLEAN]

\* all_findings is the number of times each agent's findings are in the list;
\* errors: whether the list of non-fatal errors holds anything.
GraphState ==
  [results: [Agents -> Entries], all_findings: [Agents -> Nat],
   risk_result: BOOLEAN, report: BOOLEAN, pipeline_status: PipelineStatus,
   errors: BOOLEAN]

InitialState ==
  [results |-> [a \in Agents |-> NoEntry],
   all_findings |-> [a \in Agents |-> 0],
   risk_result |-> FALSE, report |-> FALSE,
   pipeline_status |-> "pending", errors |-> FALSE]

\* The topology: the node that follows each one unconditionally.
After == [start |-> "check", fanout |-> "analysis", analysis |-> "join",
          abort |-> "finalise", report |-> "finalise", finalise |-> "end"]

Nodes == DOMAIN After \cup {"check", "join", "risk", "end"}

NoWrites == [a \in Agents |-> NoEntry]

FirstTurn == [outer |-> 0, inner |-> 0]

AllFirst == [a \in Agents |-> FirstTurn]

\* The agents whose nodes make up the superstep n.
Branches(n) ==
  CASE n = "analysis" -> Analysts
    [] n = "risk" -> {"risk_agent"}
    [] n = "report" -> {"report_agent"}
    [] OTHER -> {}

Pending == {a \in Branches(node) : writes[a] = NoEntry}

Failed(c) == {a \in Analysts : c.results[a].status \in {"failed", "timed_out"}}

\* Mutant: more than half of the agents must fail before the run is aborted.
TooManyAboveHalf(c) == 2 * Cardinality(Failed(c)) > Cardinality(Analysts)

\* Half of the analysis agents failed.
TooManyFailed(c) == 2 * Cardinality(Failed(c)) >= Cardinality(Analysts)

-----------------------------------------------------------------------------
(* One agent: the turns of BaseAgent.execute inside the attempts of          *)
(* _execute_with_retry.                                                      *)

Running(a) == up /\ result = "none" /\ a \in Pending

Spend(f) == budget[f] > 0 /\ budget' = [budget EXCEPT ![f] = @ - 1]

Conclude(a, e) == writes' = [writes EXCEPT ![a] = e] /\ UNCHANGED attempt

\* Risk and report agents report no findings of their own.
Completed(a) ==
  \E f \in (IF a \in Analysts THEN BOOLEAN ELSE {FALSE}) :
    Conclude(a, Entry("completed", TRUE, f))

NextTurn(a) ==
  /\ attempt[a].inner < MaxTurns
  /\ attempt' = [attempt EXCEPT ![a].inner = @ + 1]
  /\ UNCHANGED writes

AgentUnchanged == UNCHANGED <<face, evidence, node, chan, saved, up, result, budget>>

\* Output that breaks a business rule is worth another turn, and is kept (partial,
\* which the node counts as completed) when there is none left.
Flawed(a) == NextTurn(a) \/ (attempt[a].inner = MaxTurns /\ Completed(a))

\* A turn that raised is repeated; the agent fails when no turn is left.
Rejected(a) ==
  \/ NextTurn(a)
  \/ attempt[a].inner = MaxTurns /\ Conclude(a, Entry("failed", FALSE, FALSE))

Turn(a) ==
  /\ Running(a)
  /\ Completed(a) \/ Flawed(a) \/ Rejected(a)
  /\ AgentUnchanged

\* execute itself raises: a new attempt with all its turns, or the node fails.
Raise(a) ==
  /\ Running(a)
  /\ Spend("raise")
  /\ IF attempt[a].outer < MaxRetries
     THEN /\ attempt' = [attempt EXCEPT ![a] = [outer |-> @.outer + 1, inner |-> 0]]
          /\ UNCHANGED writes
     ELSE Conclude(a, Entry("failed", FALSE, FALSE))
  /\ UNCHANGED <<face, evidence, node, chan, saved, up, result>>

\* The deadline of an attempt ends the node at once; only the nodes of the analysis
\* agents tell a timeout from a failure.
Timeout(a) ==
  /\ Running(a)
  /\ Conclude(a, Entry(IF a \in Analysts THEN "timed_out" ELSE "failed", FALSE, FALSE))
  /\ AgentUnchanged

-----------------------------------------------------------------------------
(* The supersteps. *)

Ready(n) == up /\ result = "none" /\ node = n

\* Mutant: the updates of a superstep stay pending after they were merged.
GotoPending(n) ==
  /\ node' = n
  /\ attempt' = AllFirst
  /\ UNCHANGED <<face, evidence, writes, saved, up, result, budget>>

Goto(n) ==
  /\ node' = n
  /\ writes' = NoWrites
  /\ attempt' = AllFirst
  /\ UNCHANGED <<face, evidence, saved, up, result, budget>>

Start ==
  /\ Ready("start")
  /\ chan' = [chan EXCEPT !.pipeline_status = "running"]
  /\ Goto(After["start"])

\* route_after_start
CheckEvidence ==
  /\ Ready("check")
  /\ Goto(IF ~evidence \/ chan.pipeline_status = "cancelled" THEN "abort" ELSE "fanout")
  /\ UNCHANGED chan

FanOut == Ready("fanout") /\ Goto(After["fanout"]) /\ UNCHANGED chan

\* The reducers: results merge by agent, findings are concatenated.
Merged(c, w) ==
  [c EXCEPT
    !.results = [a \in Agents |-> IF w[a] = NoEntry THEN @[a] ELSE w[a]],
    !.all_findings = [a \in Agents |-> @[a] + IF w[a].findings THEN 1 ELSE 0]]

\* Mutant: the join is entered as soon as one branch is done.
AnyDone == \E a \in Branches(node) : writes[a] # NoEntry

\* Mutant: only completed branches count at the join.
AllCompleted == \A a \in Branches(node) : writes[a].status = "completed"

AllDone == Pending = {}

AnalysisDone ==
  /\ Ready("analysis") /\ AllDone
  /\ chan' = Merged(chan, writes)
  /\ Goto(After["analysis"])

\* route_analysis_join
Join ==
  /\ Ready("join")
  /\ Goto(IF TooManyFailed(chan) THEN "abort" ELSE "risk")
  /\ UNCHANGED chan

\* The risk node's update and route_after_risk, which reads it.
RiskDone ==
  /\ Ready("risk") /\ AllDone
  /\ chan' = [Merged(chan, writes) EXCEPT !.risk_result = writes["risk_agent"].output]
  /\ Goto(IF chan'.results["risk_agent"].status = "failed" /\ ~chan'.risk_result
          THEN "abort" ELSE "report")

\* The status is completed whether or not there is a report.
ReportDone ==
  /\ Ready("report") /\ AllDone
  /\ chan' = [Merged(chan, writes) EXCEPT
                !.report = writes["report_agent"].output,
                !.pipeline_status = "completed"]
  /\ Goto(After["report"])

Abort ==
  /\ Ready("abort")
  /\ chan' = [chan EXCEPT !.pipeline_status = "failed"]
  /\ Goto(After["abort"])

Finalise == Ready("finalise") /\ Goto(After["finalise"]) /\ UNCHANGED chan

-----------------------------------------------------------------------------
(* The caller. *)

\* SephelaAnalysisPipeline.analyze reads the report and the error list.
IntegrationStatus(c) ==
  IF ~c.report THEN "failed" ELSE IF c.errors THEN "partial" ELSE "completed"

\* PipelineRunner._to_result takes the graph's own status.
RunnerStatus(c) == IF c.pipeline_status \in PipelineStatus THEN c.pipeline_status ELSE "failed"

Return ==
  /\ Ready("end")
  /\ result' = IF face = "pipeline" THEN IntegrationStatus(chan) ELSE RunnerStatus(chan)
  /\ UNCHANGED <<face, evidence, node, chan, writes, attempt, saved, up, budget>>

\* The graph itself fails (a checkpoint that cannot be written): both faces catch it.
GraphFails ==
  /\ up /\ result = "none"
  /\ Spend("graph")
  /\ result' = "failed"
  /\ UNCHANGED <<face, evidence, node, chan, writes, attempt, saved, up>>

-----------------------------------------------------------------------------
(* Checkpoints, crashes and restarts. *)

Fresh == [node |-> "start", chan |-> InitialState, writes |-> NoWrites]

Reached == [node |-> node, chan |-> chan, writes |-> writes]

\* The checkpointer stores the state and the finished branches in the background.
Persist ==
  /\ face = "runner" /\ up /\ result = "none"
  /\ saved # Reached
  /\ saved' = Reached
  /\ UNCHANGED <<face, evidence, node, chan, writes, attempt, up, result, budget>>

Crash ==
  /\ up /\ result = "none"
  /\ Spend("crash")
  /\ up' = FALSE
  /\ UNCHANGED <<face, evidence, node, chan, writes, attempt, saved, result>>

\* Mutant: the run is started over although there is a checkpoint.
ResumeFrom(checkpoint) == Fresh

\* ainvoke(None) continues from the checkpoint.
Continue(checkpoint) == checkpoint

\* The pipeline never stores one, so its restart begins with the initial state.
Restart ==
  LET from == Continue(saved)
  IN  /\ ~up
      /\ up' = TRUE
      /\ node' = from.node /\ chan' = from.chan /\ writes' = from.writes
      /\ attempt' = AllFirst
      /\ UNCHANGED <<face, evidence, saved, result, budget>>

-----------------------------------------------------------------------------

Init ==
  /\ face \in {"pipeline", "runner"}
  /\ evidence \in BOOLEAN
  /\ node = "start" /\ chan = InitialState /\ writes = NoWrites
  /\ attempt = AllFirst
  /\ saved = Fresh
  /\ up = TRUE /\ result = "none"
  /\ budget = Budget

AgentStep == \E a \in Agents : Turn(a) \/ Timeout(a)

GraphStep ==
  \/ Start \/ CheckEvidence \/ FanOut \/ AnalysisDone \/ Join
  \/ RiskDone \/ ReportDone \/ Abort \/ Finalise \/ Return

Fault == (\E a \in Agents : Raise(a)) \/ GraphFails \/ Crash

Ended == result # "none" /\ UNCHANGED vars

Next == AgentStep \/ GraphStep \/ Persist \/ Restart \/ Fault \/ Ended

\* Every attempt has a deadline, the event loop runs what is ready, and a lost task is
\* delivered again; faults and the background writer promise nothing.
Spec == Init /\ [][Next]_vars /\ WF_vars(AgentStep \/ GraphStep) /\ WF_vars(Restart)

-----------------------------------------------------------------------------
(* What should hold. *)

TypeOK ==
  /\ face \in {"pipeline", "runner"} /\ evidence \in BOOLEAN
  /\ node \in Nodes
  /\ chan \in GraphState
  /\ writes \in [Agents -> Entries]
  /\ attempt \in [Agents -> [outer: 0..MaxRetries, inner: 0..MaxTurns]]
  /\ saved \in [node: Nodes, chan: GraphState, writes: [Agents -> Entries]]
  /\ up \in BOOLEAN
  /\ result \in PipelineStatus \cup {"none"}
  /\ budget \in [Faults -> Nat]

\* An agent's findings are in all_findings exactly once if its result has any, and not
\* at all otherwise, whatever was retried, merged or run again after a crash: the
\* reducer appends, so a branch that is merged twice would count twice.
FindingsOnce ==
  \A a \in Agents :
    chan.all_findings[a] = IF chan.results[a].findings THEN 1 ELSE 0

\* When the risk agent works, when there is a risk result or a report, every analysis
\* agent has its result in the state the later agents read: the join is a barrier even
\* for a run that was resumed in the middle of the parallel step.
JoinIsBarrier ==
  node \in {"join", "risk", "report"} \/ chan.risk_result =>
    \A a \in Analysts : chan.results[a] # NoEntry

\* A caller that is told "completed" gets a risk result computed from evidence by a run
\* in which fewer than half of the analysis agents failed; the pipeline's caller also
\* gets the report.
CompletedHasBasis ==
  result = "completed" =>
    /\ evidence /\ chan.risk_result
    /\ Cardinality(Failed(chan)) < Cardinality(Analysts \ Failed(chan))
    /\ face = "pipeline" => chan.report

\* What get_status has once reported is never taken back: an agent in the stored state
\* keeps its result, and a status that ended the run stays, across crashes and resumes.
ReportedProgressStays ==
  [][/\ \A a \in Agents :
          saved.chan.results[a] # NoEntry => saved'.chan.results[a] = saved.chan.results[a]
     /\ saved.chan.pipeline_status \in {"completed", "failed"} =>
          saved'.chan.pipeline_status = saved.chan.pipeline_status]_vars

\* Every run ends with an answer to its caller: no combination of rejected output,
\* raised errors, deadlines and crashes keeps the graph waiting at its join for ever.
RunEnds == <>(result # "none")
=============================================================================
