--------------------------- MODULE AgentGraphProofs ---------------------------
(***************************************************************************)
(* Proofs about AgentGraph for every set of analysts, every number of      *)
(* retries and turns and every number of faults: what is merged is merged  *)
(* once, the join is a barrier, and a run that is called completed has     *)
(* what it takes, also when it was resumed from an older checkpoint.       *)
(***************************************************************************)
EXTENDS AgentGraph, FiniteSetTheorems, TLAPS

-----------------------------------------------------------------------------
(* What holds of a state of the graph wherever it is kept: in the process  *)
(* or in the checkpointer.                                                 *)

Early == {"start", "check", "fanout", "analysis"}

Last == {"abort", "finalise", "end"}

\* An agent has no result before its superstep is over, and only the agents of a superstep
\* have something to merge.
OneResult(n, c, w) ==
  /\ \A a \in Agents : w[a] # NoEntry => a \in Branches(n)
  /\ n \in Early => \A a \in Analysts : c.results[a] = NoEntry
  /\ n \in Early \cup {"join", "risk"} => c.results["risk_agent"] = NoEntry
  /\ n \notin Last => c.results["report_agent"] = NoEntry
  /\ \A a \in Agents : c.all_findings[a] = IF c.results[a].findings THEN 1 ELSE 0

Barrier(n, c) ==
  n \in {"join", "risk", "report"} \/ c.risk_result => \A a \in Analysts : c.results[a] # NoEntry

\* A result that is there is one of a completed or a failed agent.
Whole(w) ==
  \A a \in Agents : /\ w[a].status = "completed" => w[a].output
                    /\ w[a].status = "timed_out" => a \in Analysts
                    /\ w[a].status = "none" => w[a] = NoEntry

\* Which stations a graph has passed tells what it has.
Passed(n, c) ==
  /\ n \notin {"start", "check"} \cup Last => evidence
  /\ n \in {"risk", "report"} \/ c.report => ~TooManyFailed(c) /\ evidence
  /\ n = "report" \/ c.report => c.risk_result
  /\ n \notin {"finalise", "end"} => c.pipeline_status \notin {"completed", "failed"} /\ ~c.report
  /\ c.pipeline_status = "completed" => ~TooManyFailed(c) /\ evidence /\ c.risk_result

Good(n, c, w) == OneResult(n, c, w) /\ Barrier(n, c) /\ Whole(w) /\ Passed(n, c)

\* The checkpoint is behind the run.
Behind(old, new) ==
  /\ \A a \in Agents : old.results[a] # NoEntry => new.results[a] = old.results[a]
  /\ old.pipeline_status \in {"completed", "failed"} => new.pipeline_status = old.pipeline_status

\* Only a live process answers, and "completed" has its basis.
Basis ==
  /\ up \/ result = "none"
  /\ result = "completed" =>
       /\ evidence /\ chan.risk_result /\ ~TooManyFailed(chan)
       /\ face = "pipeline" => chan.report

Inv ==
  /\ TypeOK /\ Basis
  /\ Good(node, chan, writes) /\ Good(saved.node, saved.chan, saved.writes)
  /\ Behind(saved.chan, chan)

-----------------------------------------------------------------------------
(* Entries, nodes and merging. *)

LEMMA AgentNames ==
  /\ Analysts \subseteq Agents /\ "risk_agent" \in Agents /\ "report_agent" \in Agents
  /\ "risk_agent" \notin Analysts /\ "report_agent" \notin Analysts
BY AnalystsAssumption DEF Agents

LEMMA EntryType ==
  /\ NoEntry \in Entries /\ NoEntry.findings = FALSE /\ NoEntry.status = "none"
  /\ \A s \in {"completed", "failed", "timed_out"}, o, f \in BOOLEAN :
       /\ Entry(s, o, f) \in Entries /\ Entry(s, o, f) # NoEntry
       /\ Entry(s, o, f).status = s /\ Entry(s, o, f).output = o /\ Entry(s, o, f).findings = f
  /\ NoWrites \in [Agents -> Entries]
BY DEF NoEntry, Entry, Entries, NoWrites

LEMMA BranchNodes ==
  /\ Branches("analysis") = Analysts /\ Branches("risk") = {"risk_agent"}
  /\ Branches("report") = {"report_agent"}
  /\ \A n : n \notin {"analysis", "risk", "report"} => Branches(n) = {}
BY DEF Branches

LEMMA NodeNames ==
  Nodes = {"start", "check", "fanout", "analysis", "join", "risk", "report", "abort", "finalise", "end"}
BY DEF Nodes, After

LEMMA MergedType ==
  ASSUME NEW c \in GraphState, NEW w \in [Agents -> Entries]
  PROVE  /\ Merged(c, w) \in GraphState
         /\ \A a \in Agents :
              /\ Merged(c, w).results[a] = IF w[a] = NoEntry THEN c.results[a] ELSE w[a]
              /\ Merged(c, w).all_findings[a] = c.all_findings[a] + IF w[a].findings THEN 1 ELSE 0
         /\ Merged(c, w).risk_result = c.risk_result /\ Merged(c, w).report = c.report
         /\ Merged(c, w).pipeline_status = c.pipeline_status
<1> DEFINE results == [a \in Agents |-> IF w[a] = NoEntry THEN c.results[a] ELSE w[a]]
           found == [a \in Agents |-> c.all_findings[a] + IF w[a].findings THEN 1 ELSE 0]
<1>1. results \in [Agents -> Entries]
  BY DEF GraphState
<1>2. found \in [Agents -> Nat]
  <2>1. \A a \in Agents : c.all_findings[a] \in Nat /\ (IF w[a].findings THEN 1 ELSE 0) \in Nat
    BY DEF GraphState
  <2>2. QED
    BY <2>1
<1>3. Merged(c, w) = [c EXCEPT !.results = results, !.all_findings = found]
  BY DEF Merged
<1> HIDE DEF results, found
<1>4. /\ Merged(c, w) \in GraphState
      /\ Merged(c, w).results = results /\ Merged(c, w).all_findings = found
      /\ Merged(c, w).risk_result = c.risk_result /\ Merged(c, w).report = c.report
      /\ Merged(c, w).pipeline_status = c.pipeline_status
  BY <1>1, <1>2, <1>3 DEF GraphState
<1>5. QED
  BY <1>4 DEF results, found

\* Merging the updates of a superstep that is done: each agent's result and findings are
\* put in once.
LEMMA MergedOnce ==
  ASSUME NEW n, NEW c \in GraphState, NEW w \in [Agents -> Entries], OneResult(n, c, w)
  PROVE  \A a \in Agents :
           /\ Merged(c, w).all_findings[a] = IF Merged(c, w).results[a].findings THEN 1 ELSE 0
           /\ c.results[a] # NoEntry => Merged(c, w).results[a] = c.results[a]
           /\ w[a] # NoEntry => Merged(c, w).results[a] = w[a]
           /\ w[a] = NoEntry => Merged(c, w).results[a] = c.results[a]
<1> SUFFICES ASSUME NEW a \in Agents
             PROVE  /\ Merged(c, w).all_findings[a] = IF Merged(c, w).results[a].findings THEN 1 ELSE 0
                    /\ c.results[a] # NoEntry => Merged(c, w).results[a] = c.results[a]
                    /\ w[a] # NoEntry => Merged(c, w).results[a] = w[a]
                    /\ w[a] = NoEntry => Merged(c, w).results[a] = c.results[a]
  OBVIOUS
<1>1. w[a] # NoEntry => c.results[a] = NoEntry
  <2>1. CASE n = "analysis"
    BY <2>1, AgentNames, BranchNodes DEF OneResult, Early
  <2>2. CASE n = "risk"
    BY <2>2, AgentNames, BranchNodes DEF OneResult
  <2>3. CASE n = "report"
    BY <2>3, AgentNames, BranchNodes DEF OneResult, Last
  <2>4. CASE n \notin {"analysis", "risk", "report"}
    BY <2>4, BranchNodes DEF OneResult
  <2>5. QED
    BY <2>1, <2>2, <2>3, <2>4
<1>2. c.all_findings[a] = IF c.results[a].findings THEN 1 ELSE 0
  BY DEF OneResult
<1>3. QED
  BY <1>1, <1>2, MergedType, EntryType

LEMMA NothingWritten ==
  /\ \A a \in Agents : NoWrites[a] = NoEntry
  /\ Whole(NoWrites)
BY EntryType DEF NoWrites, Whole

-----------------------------------------------------------------------------
(* The steps of the agents. *)

\* A node of the superstep is done.
LEMMA ConcludeInv ==
  ASSUME Inv, NEW a \in Agents, NEW e \in Entries, Running(a), Conclude(a, e),
         e # NoEntry, e.status # "none", e.status = "completed" => e.output,
         e.status = "timed_out" => a \in Analysts,
         UNCHANGED <<face, evidence, node, chan, saved, up, result>>, budget' \in [Faults -> Nat]
  PROVE  Inv'
<1>1. /\ writes \in [Agents -> Entries] /\ a \in Branches(node) /\ UNCHANGED attempt
      /\ writes' = [writes EXCEPT ![a] = e]
  BY DEF Inv, TypeOK, Running, Pending, Conclude
<1>2. /\ writes' \in [Agents -> Entries] /\ writes'[a] = e
      /\ \A b \in Agents \ {a} : writes'[b] = writes[b]
  BY <1>1
<1>3. TypeOK'
  BY <1>1, <1>2 DEF Inv, TypeOK
<1>4. OneResult(node, chan, writes)' /\ Whole(writes)'
  BY <1>1, <1>2 DEF Inv, Good, OneResult, Whole
<1>5. Barrier(node, chan)' /\ Passed(node, chan)'
  BY DEF Inv, Good, Barrier, Passed, TooManyFailed, Failed
<1>6. QED
  BY <1>3, <1>4, <1>5 DEF Inv, Good, OneResult, Barrier, Whole, Passed, Behind, Basis, TooManyFailed, Failed

\* Another turn or another attempt changes nothing else.
LEMMA AgainInv ==
  ASSUME Inv, UNCHANGED <<face, evidence, node, chan, writes, saved, up, result>>,
         budget' \in [Faults -> Nat],
         attempt' \in [Agents -> [outer: 0..MaxRetries, inner: 0..MaxTurns]]
  PROVE  Inv'
<1>1. TypeOK'
  BY DEF Inv, TypeOK
<1>2. QED
  BY <1>1 DEF Inv, Good, OneResult, Barrier, Whole, Passed, Behind, Basis, TooManyFailed, Failed

LEMMA AgentInv ==
  ASSUME Inv, NEW a \in Agents, Turn(a) \/ Timeout(a) \/ Raise(a)
  PROVE  Inv'
<1>1. /\ Running(a) /\ UNCHANGED <<face, evidence, node, chan, saved, up, result>>
      /\ attempt \in [Agents -> [outer: 0..MaxRetries, inner: 0..MaxTurns]]
  BY DEF Inv, TypeOK, Turn, Timeout, Raise, AgentUnchanged
<1>2. budget' \in [Faults -> Nat]
  <2>1. budget \in [Faults -> Nat] /\ "raise" \in Faults
    BY DEF Inv, TypeOK, Faults
  <2>2. ASSUME Spend("raise") PROVE budget' \in [Faults -> Nat]
    BY <2>1, <2>2 DEF Spend
  <2>3. QED
    BY <2>1, <2>2 DEF Turn, Timeout, Raise, AgentUnchanged
<1>3. ASSUME Completed(a) PROVE Inv'
  <2>1. PICK f \in BOOLEAN : Conclude(a, Entry("completed", TRUE, f))
    BY <1>3 DEF Completed
  <2>2. QED
    BY <1>1, <1>2, <2>1, EntryType, ConcludeInv
<1>4. ASSUME Conclude(a, Entry("failed", FALSE, FALSE)) PROVE Inv'
  BY <1>1, <1>2, <1>4, EntryType, ConcludeInv
<1>5. ASSUME a \in Analysts, Conclude(a, Entry("timed_out", FALSE, FALSE)) PROVE Inv'
  BY <1>1, <1>2, <1>5, EntryType, ConcludeInv
<1>6. ASSUME NextTurn(a) PROVE Inv'
  <2>1. attempt[a] \in [outer: 0..MaxRetries, inner: 0..MaxTurns] /\ attempt[a].inner < MaxTurns
    BY <1>1, <1>6 DEF NextTurn
  <2>2. [attempt[a] EXCEPT !.inner = attempt[a].inner + 1] \in [outer: 0..MaxRetries, inner: 0..MaxTurns]
    BY <2>1, RetriesAssumption
  <2>3. attempt' \in [Agents -> [outer: 0..MaxRetries, inner: 0..MaxTurns]]
    BY <1>1, <1>6, <2>2 DEF NextTurn
  <2>4. QED
    BY <1>1, <1>2, <1>6, <2>3, AgainInv DEF NextTurn
<1>7. CASE Turn(a)
  BY <1>3, <1>4, <1>6, <1>7 DEF Turn, Flawed, Rejected
<1>8. CASE Timeout(a)
  BY <1>4, <1>5, <1>8 DEF Timeout
<1>9. CASE Raise(a)
  <2>1. CASE attempt[a].outer < MaxRetries
    <3>1. /\ attempt' = [attempt EXCEPT ![a] = [outer |-> attempt[a].outer + 1, inner |-> 0]]
          /\ UNCHANGED writes
      BY <1>9, <2>1 DEF Raise
    <3>2. [outer |-> attempt[a].outer + 1, inner |-> 0] \in [outer: 0..MaxRetries, inner: 0..MaxTurns]
      BY <1>1, <2>1, RetriesAssumption
    <3>3. QED
      BY <1>1, <1>2, <3>1, <3>2, AgainInv
  <2>2. CASE ~(attempt[a].outer < MaxRetries)
    BY <1>4, <1>9, <2>2 DEF Raise
  <2>3. QED
    BY <2>1, <2>2
<1>10. QED
  BY <1>7, <1>8, <1>9

-----------------------------------------------------------------------------
(* The supersteps. *)

\* What a node that hands over has to show of the state it leaves.
LEMMA GotoInv ==
  ASSUME Inv, NEW n \in Nodes, Goto(n), result = "none", chan' \in GraphState,
         OneResult(n, chan', NoWrites), Barrier(n, chan'), Passed(n, chan'), Behind(saved.chan, chan')
  PROVE  Inv'
<1>1. AllFirst \in [Agents -> [outer: 0..MaxRetries, inner: 0..MaxTurns]]
  BY RetriesAssumption DEF AllFirst, FirstTurn
<1>2. TypeOK'
  BY <1>1, EntryType DEF Inv, TypeOK, Goto
<1>3. Good(node, chan, writes)'
  BY NothingWritten DEF Goto, Good, OneResult, Barrier, Whole, Passed, TooManyFailed, Failed
<1>4. Good(saved.node, saved.chan, saved.writes)' /\ Behind(saved.chan, chan)'
  BY DEF Inv, Goto, Good, OneResult, Barrier, Whole, Passed, TooManyFailed, Failed, Behind
<1>5. Basis'
  BY DEF Goto, Basis
<1>6. QED
  BY <1>2, <1>3, <1>4, <1>5 DEF Inv

LEMMA RouteInv ==
  ASSUME Inv, Start \/ CheckEvidence \/ FanOut \/ Join \/ Abort \/ Finalise
  PROVE  Inv'
<1>1. /\ chan \in GraphState /\ result = "none" /\ OneResult(node, chan, writes)
      /\ Barrier(node, chan) /\ Passed(node, chan) /\ Behind(saved.chan, chan)
  BY DEF Inv, TypeOK, Good, Start, CheckEvidence, FanOut, Join, Abort, Finalise, Ready
<1>2. ASSUME NEW n \in Nodes, Goto(n), UNCHANGED chan,
             OneResult(n, chan, NoWrites), Barrier(n, chan), Passed(n, chan)
      PROVE  Inv'
  BY <1>1, <1>2, GotoInv
<1>3. CASE Start
  <2>1. chan' = [chan EXCEPT !.pipeline_status = "running"] /\ Goto("check") /\ node = "start"
    BY <1>3 DEF Start, Ready, After
  <2>2. /\ chan' \in GraphState /\ chan'.results = chan.results /\ chan'.pipeline_status = "running"
        /\ chan'.all_findings = chan.all_findings /\ chan'.risk_result = chan.risk_result
        /\ chan'.report = chan.report
    BY <1>1, <2>1 DEF GraphState, PipelineStatus
  <2>3. OneResult("check", chan', NoWrites) /\ Barrier("check", chan')
    BY <1>1, <2>1, <2>2, NothingWritten DEF OneResult, Barrier, Early, Last
  <2>4. Passed("check", chan')
    BY <1>1, <2>1, <2>2 DEF Passed, Last, TooManyFailed, Failed
  <2>5. Behind(saved.chan, chan')
    BY <1>1, <2>1, <2>2 DEF Behind, Passed, Last
  <2>6. QED
    BY <1>1, <2>1, <2>2, <2>3, <2>4, <2>5, GotoInv, NodeNames
<1>4. CASE CheckEvidence
  BY <1>1, <1>2, <1>4, NothingWritten, NodeNames
     DEF CheckEvidence, Ready, OneResult, Barrier, Early, Last, Passed
<1>5. CASE FanOut
  BY <1>1, <1>2, <1>5, NothingWritten, NodeNames
     DEF FanOut, Ready, After, OneResult, Barrier, Early, Last, Passed
<1>6. CASE Join
  BY <1>1, <1>2, <1>6, NothingWritten, NodeNames
     DEF Join, Ready, OneResult, Barrier, Early, Last, Passed
<1>7. CASE Abort
  <2>1. chan' = [chan EXCEPT !.pipeline_status = "failed"] /\ Goto("finalise") /\ node = "abort"
    BY <1>7 DEF Abort, Ready, After
  <2>2. /\ chan' \in GraphState /\ chan'.results = chan.results /\ chan'.pipeline_status = "failed"
        /\ chan'.all_findings = chan.all_findings /\ chan'.risk_result = chan.risk_result
        /\ chan'.report = chan.report
    BY <1>1, <2>1 DEF GraphState, PipelineStatus
  <2>3. OneResult("finalise", chan', NoWrites) /\ Barrier("finalise", chan')
    BY <1>1, <2>1, <2>2, NothingWritten DEF OneResult, Barrier, Early, Last
  <2>4. Passed("finalise", chan')
    BY <1>1, <2>1, <2>2 DEF Passed, Last, TooManyFailed, Failed
  <2>5. Behind(saved.chan, chan')
    BY <1>1, <2>1, <2>2 DEF Behind, Passed, Last
  <2>6. QED
    BY <1>1, <2>1, <2>2, <2>3, <2>4, <2>5, GotoInv, NodeNames
<1>8. CASE Finalise
  BY <1>1, <1>2, <1>8, NothingWritten, NodeNames
     DEF Finalise, Ready, After, OneResult, Barrier, Early, Last, Passed
<1>9. QED
  BY <1>3, <1>4, <1>5, <1>6, <1>7, <1>8

\* The three supersteps that merge what their agents wrote.
LEMMA MergeInv ==
  ASSUME Inv, AnalysisDone \/ RiskDone \/ ReportDone
  PROVE  Inv'
<1> DEFINE m == Merged(chan, writes)
<1>1. /\ chan \in GraphState /\ writes \in [Agents -> Entries] /\ result = "none"
      /\ OneResult(node, chan, writes) /\ Barrier(node, chan) /\ Whole(writes)
      /\ Passed(node, chan) /\ Behind(saved.chan, chan)
      /\ \A a \in Branches(node) : writes[a] # NoEntry
  BY DEF Inv, TypeOK, Good, AnalysisDone, RiskDone, ReportDone, Ready, AllDone, Pending
<1>2. /\ m \in GraphState /\ m.risk_result = chan.risk_result /\ m.report = chan.report
      /\ m.pipeline_status = chan.pipeline_status
  BY <1>1, MergedType
<1>3. \A a \in Agents :
        /\ m.all_findings[a] = IF m.results[a].findings THEN 1 ELSE 0
        /\ chan.results[a] # NoEntry => m.results[a] = chan.results[a]
        /\ writes[a] # NoEntry => m.results[a] = writes[a]
        /\ writes[a] = NoEntry => m.results[a] = chan.results[a]
  BY <1>1, MergedOnce
<1> HIDE DEF m
<1>4. CASE AnalysisDone
  <2>1. node = "analysis" /\ chan' = m /\ Goto("join")
    BY <1>4 DEF AnalysisDone, Ready, After, m
  <2>2. \A a \in Analysts : m.results[a] # NoEntry
    BY <1>1, <1>3, <2>1, BranchNodes, AgentNames
  <2>3. m.results["risk_agent"] = NoEntry /\ m.results["report_agent"] = NoEntry
    BY <1>1, <1>3, <2>1, BranchNodes, AgentNames DEF OneResult, Early, Last
  <2>4. OneResult("join", m, NoWrites)
    BY <1>3, <2>3, NothingWritten DEF OneResult, Early
  <2>5. Barrier("join", m)
    BY <2>2 DEF Barrier
  <2>6. Passed("join", m)
    BY <1>1, <1>2, <2>1 DEF Passed, Last
  <2>7. Behind(saved.chan, m)
    BY <1>1, <1>2, <1>3 DEF Behind
  <2>8. QED
    BY <1>1, <1>2, <2>1, <2>4, <2>5, <2>6, <2>7, GotoInv, NodeNames
<1>5. CASE RiskDone
  <2> DEFINE c == [m EXCEPT !.risk_result = writes["risk_agent"].output]
             n == IF c.results["risk_agent"].status = "failed" /\ ~c.risk_result THEN "abort" ELSE "report"
  <2>1. node = "risk" /\ chan' = c /\ Goto(n)
    BY <1>5 DEF RiskDone, Ready, m
  <2>2. /\ c \in GraphState /\ c.results = m.results /\ c.all_findings = m.all_findings
        /\ c.report = m.report /\ c.pipeline_status = m.pipeline_status
        /\ c.risk_result = writes["risk_agent"].output
    BY <1>1, <1>2, AgentNames DEF GraphState, Entries
  <2>3. writes["risk_agent"] # NoEntry /\ c.results["risk_agent"] = writes["risk_agent"]
    BY <1>1, <1>3, <2>1, <2>2, BranchNodes, AgentNames
  <2>4. n = "report" => c.risk_result
    BY <1>1, <2>2, <2>3, AgentNames DEF Whole, Entries
  <2> HIDE DEF c
  <2>5. \A a \in Analysts : c.results[a] = chan.results[a] /\ chan.results[a] # NoEntry
    BY <1>1, <1>3, <2>1, <2>2, AgentNames DEF Barrier
  <2>6. TooManyFailed(c) = TooManyFailed(chan)
    <3>1. Failed(c) = Failed(chan)
      BY <2>5 DEF Failed
    <3>2. QED
      BY <3>1 DEF TooManyFailed
  <2>7. n \in {"abort", "report"} /\ n \in Nodes
    BY NodeNames
  <2> HIDE DEF n
  <2>8. OneResult(n, c, NoWrites)
    BY <1>1, <1>3, <2>1, <2>2, <2>7, NothingWritten, BranchNodes, AgentNames DEF OneResult, Early, Last
  <2>9. Barrier(n, c)
    BY <2>5 DEF Barrier
  <2>10. Passed(n, c)
    BY <1>1, <1>2, <2>1, <2>2, <2>4, <2>6, <2>7 DEF Passed, Last
  <2>11. Behind(saved.chan, c)
    BY <1>1, <1>2, <1>3, <2>2 DEF Behind
  <2>12. QED
    BY <1>1, <2>1, <2>2, <2>7, <2>8, <2>9, <2>10, <2>11, GotoInv
<1>6. CASE ReportDone
  <2> DEFINE c == [m EXCEPT !.report = writes["report_agent"].output, !.pipeline_status = "completed"]
  <2>1. node = "report" /\ chan' = c /\ Goto("finalise")
    BY <1>6 DEF ReportDone, Ready, After, m
  <2>2. /\ c \in GraphState /\ c.results = m.results /\ c.all_findings = m.all_findings
        /\ c.risk_result = m.risk_result /\ c.pipeline_status = "completed"
    BY <1>1, <1>2, AgentNames DEF GraphState, Entries, PipelineStatus
  <2> HIDE DEF c
  <2>3. \A a \in Analysts : c.results[a] = chan.results[a] /\ chan.results[a] # NoEntry
    BY <1>1, <1>3, <2>1, <2>2, AgentNames DEF Barrier
  <2>4. TooManyFailed(c) = TooManyFailed(chan)
    <3>1. Failed(c) = Failed(chan)
      BY <2>3 DEF Failed
    <3>2. QED
      BY <3>1 DEF TooManyFailed
  <2>5. OneResult("finalise", c, NoWrites)
    BY <1>3, <2>2, NothingWritten DEF OneResult, Early, Last
  <2>6. Barrier("finalise", c)
    BY <2>3 DEF Barrier
  <2>7. Passed("finalise", c)
    BY <1>1, <1>2, <2>1, <2>2, <2>4 DEF Passed, Last
  <2>8. Behind(saved.chan, c)
    BY <1>1, <1>2, <1>3, <2>1, <2>2 DEF Behind, Passed
  <2>9. QED
    BY <1>1, <2>1, <2>2, <2>5, <2>6, <2>7, <2>8, GotoInv, NodeNames
<1>7. QED
  BY <1>4, <1>5, <1>6

-----------------------------------------------------------------------------
(* The caller, checkpoints and crashes. *)

LEMMA CallerInv ==
  ASSUME Inv, Return \/ GraphFails
  PROVE  Inv'
<1>1. UNCHANGED <<face, evidence, node, chan, writes, attempt, saved, up>>
  BY DEF Return, GraphFails
<1>2. CASE Return
  <2>1. /\ result' = IF face = "pipeline" THEN IntegrationStatus(chan) ELSE RunnerStatus(chan)
        /\ chan \in GraphState /\ Passed(node, chan) /\ UNCHANGED budget /\ node = "end" /\ up
    BY <1>2 DEF Inv, TypeOK, Good, Return, Ready
  <2>2. result' \in PipelineStatus
    BY <2>1 DEF IntegrationStatus, RunnerStatus, PipelineStatus
  <2>3. Basis'
    <3>1. TooManyFailed(chan)' <=> TooManyFailed(chan)
      BY <1>1 DEF TooManyFailed, Failed
    <3>2. QED
      BY <1>1, <2>1, <3>1 DEF Basis, IntegrationStatus, RunnerStatus, Passed
  <2>4. TypeOK'
    BY <1>1, <2>1, <2>2 DEF Inv, TypeOK
  <2>5. QED
    BY <1>1, <2>3, <2>4 DEF Inv, Good, OneResult, Barrier, Whole, Passed, Behind, TooManyFailed, Failed
<1>3. CASE GraphFails
  <2>1. up /\ result' = "failed" /\ budget' = [budget EXCEPT !["graph"] = budget["graph"] - 1] /\ budget["graph"] > 0
    BY <1>3 DEF GraphFails, Spend
  <2>2. budget' \in [Faults -> Nat]
    BY <2>1 DEF Inv, TypeOK, Faults
  <2>3. TypeOK'
    BY <1>1, <2>1, <2>2 DEF Inv, TypeOK, PipelineStatus
  <2>4. QED
    BY <1>1, <2>1, <2>3 DEF Inv, Good, OneResult, Barrier, Whole, Passed, Behind, Basis, TooManyFailed, Failed
<1>4. QED
  BY <1>2, <1>3

LEMMA CheckpointInv ==
  ASSUME Inv, Persist \/ Crash \/ Restart
  PROVE  Inv'
<1>1. CASE Persist
  <2>1. /\ saved' = [node |-> node, chan |-> chan, writes |-> writes]
        /\ UNCHANGED <<face, evidence, node, chan, writes, attempt, up, result, budget>>
    BY <1>1 DEF Persist, Reached
  <2>2. TypeOK'
    BY <2>1 DEF Inv, TypeOK
  <2>3. Good(saved.node, saved.chan, saved.writes)' /\ Good(node, chan, writes)'
    BY <2>1 DEF Inv, Good, OneResult, Barrier, Whole, Passed, TooManyFailed, Failed
  <2>4. Behind(saved.chan, chan)'
    BY <2>1 DEF Behind
  <2>5. TooManyFailed(chan)' <=> TooManyFailed(chan)
    BY <2>1 DEF TooManyFailed, Failed
  <2>6. Basis'
    BY <2>1, <2>5 DEF Inv, Basis
  <2>7. QED
    BY <2>2, <2>3, <2>4, <2>6 DEF Inv
<1>2. CASE Crash
  <2>1. /\ up' = FALSE /\ budget' = [budget EXCEPT !["crash"] = budget["crash"] - 1] /\ budget["crash"] > 0
        /\ result = "none"
        /\ UNCHANGED <<face, evidence, node, chan, writes, attempt, saved, result>>
    BY <1>2 DEF Crash, Spend
  <2>2. budget' \in [Faults -> Nat]
    BY <2>1 DEF Inv, TypeOK, Faults
  <2>3. TypeOK'
    BY <2>1, <2>2 DEF Inv, TypeOK
  <2>4. QED
    BY <2>1, <2>3 DEF Inv, Good, OneResult, Barrier, Whole, Passed, Behind, Basis, TooManyFailed, Failed
<1>3. CASE Restart
  <2>1. /\ up' = TRUE /\ node' = saved.node /\ chan' = saved.chan /\ writes' = saved.writes
        /\ attempt' = AllFirst /\ UNCHANGED <<face, evidence, saved, result, budget>> /\ ~up
    BY <1>3 DEF Restart, Continue
  <2>2. AllFirst \in [Agents -> [outer: 0..MaxRetries, inner: 0..MaxTurns]]
    BY RetriesAssumption DEF AllFirst, FirstTurn
  <2>3. TypeOK'
    BY <2>1, <2>2 DEF Inv, TypeOK
  <2>4. Good(saved.node, saved.chan, saved.writes)' /\ Good(node, chan, writes)'
    BY <2>1 DEF Inv, Good, OneResult, Barrier, Whole, Passed, TooManyFailed, Failed
  <2>5. Behind(saved.chan, chan)'
    BY <2>1 DEF Behind
  <2>6. Basis'
    BY <2>1 DEF Inv, Basis
  <2>7. QED
    BY <2>3, <2>4, <2>5, <2>6 DEF Inv
<1>4. QED
  BY <1>1, <1>2, <1>3

-----------------------------------------------------------------------------
(* The specification. *)

LEMMA InitInv ==
  ASSUME Init
  PROVE  Inv
<1>1. AllFirst \in [Agents -> [outer: 0..MaxRetries, inner: 0..MaxTurns]]
  BY RetriesAssumption DEF AllFirst, FirstTurn
<1>2. /\ InitialState \in GraphState
      /\ \A a \in Agents : InitialState.results[a] = NoEntry /\ InitialState.all_findings[a] = 0
      /\ InitialState.risk_result = FALSE /\ InitialState.report = FALSE
      /\ InitialState.pipeline_status = "pending"
  BY EntryType DEF InitialState, GraphState, PipelineStatus
<1>3. Fresh = [node |-> "start", chan |-> InitialState, writes |-> NoWrites]
  BY DEF Fresh
<1>4. /\ node = "start" /\ chan = InitialState /\ writes = NoWrites /\ attempt = AllFirst
      /\ saved.node = "start" /\ saved.chan = InitialState /\ saved.writes = NoWrites
      /\ up = TRUE /\ result = "none"
  BY <1>3 DEF Init
<1>5. TypeOK
  BY <1>1, <1>2, <1>3, EntryType, NodeNames, GraphBudgetAssumption DEF Init, TypeOK
<1>6. OneResult("start", InitialState, NoWrites) /\ Barrier("start", InitialState)
  BY <1>2, AgentNames, EntryType, NothingWritten DEF OneResult, Barrier, Early, Last
<1>7. Passed("start", InitialState)
  BY <1>2 DEF Passed, Last
<1>8. Good("start", InitialState, NoWrites)
  BY <1>6, <1>7, NothingWritten DEF Good
<1>9. Behind(InitialState, InitialState) /\ Basis
  BY <1>4 DEF Behind, Basis
<1>10. QED
  BY <1>4, <1>5, <1>8, <1>9 DEF Inv

LEMMA StepInv ==
  ASSUME Inv, [Next]_vars
  PROVE  Inv'
<1>1. CASE AgentStep \/ \E a \in Agents : Raise(a)
  BY <1>1, AgentInv DEF AgentStep
<1>2. CASE GraphStep
  BY <1>2, RouteInv, MergeInv, CallerInv DEF GraphStep
<1>3. CASE Persist \/ Restart \/ Crash
  BY <1>3, CheckpointInv
<1>4. CASE GraphFails
  BY <1>4, CallerInv
<1>5. CASE UNCHANGED vars
  <2>1. UNCHANGED <<face, evidence, node, chan, writes, attempt, saved, up, result, budget>>
    BY <1>5 DEF vars
  <2>2. TypeOK'
    BY <2>1 DEF Inv, TypeOK
  <2>3. QED
    BY <2>1, <2>2 DEF Inv, Good, OneResult, Barrier, Whole, Passed, Behind, Basis, TooManyFailed, Failed
<1>6. QED
  BY <1>1, <1>2, <1>3, <1>4, <1>5 DEF Next, Fault, Ended

LEMMA InvHolds == Spec => []Inv
<1>1. Init => Inv
  BY InitInv
<1>2. Inv /\ [Next]_vars => Inv'
  BY StepInv
<1>3. QED
  BY <1>1, <1>2, PTL DEF Spec

\* The state of the graph, of its checkpoint and of every agent's loops stays within its
\* types: no agent takes more turns or attempts than it is configured for.
THEOREM GraphTyped == Spec => []TypeOK
<1>1. Inv => TypeOK
  BY DEF Inv
<1>2. QED
  BY <1>1, InvHolds, PTL

\* The findings of an agent are in the list as often as its result has any, which is once
\* or never, however often the run was retried or resumed from an older checkpoint.
THEOREM FindingsOnceHolds == Spec => []FindingsOnce
<1>1. Inv => FindingsOnce
  BY DEF Inv, Good, OneResult, FindingsOnce
<1>2. QED
  BY <1>1, InvHolds, PTL

\* Nobody after the join works without a result of every analysis agent.
THEOREM JoinIsBarrierHolds == Spec => []JoinIsBarrier
<1>1. Inv => JoinIsBarrier
  BY DEF Inv, Good, Barrier, JoinIsBarrier
<1>2. QED
  BY <1>1, InvHolds, PTL

LEMMA FewFailed ==
  ASSUME NEW c, ~TooManyFailed(c)
  PROVE  Cardinality(Failed(c)) < Cardinality(Analysts \ Failed(c))
<1>1. IsFiniteSet(Analysts) /\ Failed(c) \subseteq Analysts
  BY AnalystsAssumption DEF Failed
<1>2. IsFiniteSet(Failed(c)) /\ Analysts \cap Failed(c) = Failed(c)
  BY <1>1, FS_Subset
<1>3. Cardinality(Analysts \ Failed(c)) = Cardinality(Analysts) - Cardinality(Failed(c))
  BY <1>1, <1>2, FS_Difference
<1>4. Cardinality(Analysts) \in Nat /\ Cardinality(Failed(c)) \in Nat
  BY <1>1, <1>2, FS_CardinalityType
<1>5. ~(2 * Cardinality(Failed(c)) >= Cardinality(Analysts))
  BY DEF TooManyFailed
<1>6. QED
  BY <1>3, <1>4, <1>5

\* A run that is called completed had evidence, a risk result and more agents that worked
\* than agents that failed, for any number of agents and any resumption.
THEOREM CompletedHasBasisHolds == Spec => []CompletedHasBasis
<1>1. Inv => CompletedHasBasis
  <2>1. SUFFICES ASSUME Inv, result = "completed"
                 PROVE  /\ evidence /\ chan.risk_result
                        /\ Cardinality(Failed(chan)) < Cardinality(Analysts \ Failed(chan))
                        /\ face = "pipeline" => chan.report
    BY DEF CompletedHasBasis
  <2>2. /\ evidence /\ chan.risk_result /\ ~TooManyFailed(chan)
        /\ face = "pipeline" => chan.report
    BY <2>1 DEF Inv, Basis
  <2>3. QED
    BY <2>2, FewFailed
<1>2. QED
  BY <1>1, InvHolds, PTL

\* What was once reported to a reader of the checkpoint stays so: the run is always at
\* least as far as what is stored of it.
THEOREM ReportedProgressStaysHolds == Spec => ReportedProgressStays
<1>1. Inv /\ [Next]_vars =>
        [/\ \A a \in Agents :
              saved.chan.results[a] # NoEntry => saved'.chan.results[a] = saved.chan.results[a]
         /\ saved.chan.pipeline_status \in {"completed", "failed"} =>
              saved'.chan.pipeline_status = saved.chan.pipeline_status]_vars
  <2>1. SUFFICES ASSUME Inv, Next
                 PROVE  /\ \A a \in Agents :
                             saved.chan.results[a] # NoEntry =>
                               saved'.chan.results[a] = saved.chan.results[a]
                        /\ saved.chan.pipeline_status \in {"completed", "failed"} =>
                             saved'.chan.pipeline_status = saved.chan.pipeline_status
    OBVIOUS
  <2>2. CASE Persist
    BY <2>1, <2>2 DEF Inv, Behind, Persist, Reached
  <2>3. CASE ~Persist
    <3>1. UNCHANGED saved
      BY <2>1, <2>3 DEF Next, AgentStep, GraphStep, Restart, Fault, Ended, vars, Turn, Timeout, Raise,
         AgentUnchanged, Start, CheckEvidence, FanOut, AnalysisDone, Join, RiskDone, ReportDone,
         Abort, Finalise, Return, GraphFails, Crash, Goto
    <3>2. QED
      BY <3>1
  <2>4. QED
    BY <2>2, <2>3
<1>2. QED
  BY <1>1, InvHolds, PTL DEF Spec, ReportedProgressStays
=============================================================================
