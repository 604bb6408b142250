-------------------------- MODULE JobPipelineProofs --------------------------
(***************************************************************************)
(* Proofs about JobPipeline for every set of workers and stages, every     *)
(* retry limit and every number of faults: what holds whatever happens,    *)
(* what redelivery leaves behind once every task is done, and that until a *)
(* worker is lost the chain is one task at a time.                         *)
(***************************************************************************)
EXTENDS JobPipeline, TLAPS

-----------------------------------------------------------------------------
(* Facts about the operators. *)

\* What a worker writes over a well-formed row leaves a well-formed row.
LEMMA FlushType ==
  ASSUME job \in JobRow, NEW old \in JobRow, NEW new \in JobRow, Flush(old, new)
  PROVE  job' \in JobRow
BY DEF Flush, JobRow

\* A commit keeps the row and the worker's copy of it well-formed.
LEMMA CommitType ==
  ASSUME job \in JobRow, snap \in [Workers -> JobRow],
         NEW w \in Workers, NEW new \in JobRow, CommitJob(w, new)
  PROVE  job' \in JobRow /\ snap' \in [Workers -> JobRow]
<1>1. snap[w] \in JobRow
  OBVIOUS
<1>2. job' \in JobRow
  BY <1>1, FlushType DEF CommitJob
<1>3. QED
  BY <1>2 DEF CommitJob

\* A fresh message of a known task is a message.
LEMMA FreshType == ASSUME NEW t \in Tasks PROVE Fresh(t) \in Message
BY MaxRetriesAssumption DEF Fresh, Message

LEMMA AnalyzeIsTask == "analyze" \in Tasks
BY DEF Tasks

\* Sending keeps the queue well-formed.
LEMMA SendType ==
  ASSUME queue \in [Message -> Nat], NEW m \in Message, Send(m)
  PROVE  queue' \in [Message -> Nat]
BY DEF Send

LEMMA ReceiveType ==
  ASSUME queue \in [Message -> Nat], msg \in [Workers -> Message],
         NEW w \in Workers, NEW m \in Message, Receive(w, m)
  PROVE  queue' \in [Message -> Nat] /\ msg' \in [Workers -> Message]
BY DEF Receive

LEMMA SpendType ==
  ASSUME budget \in [Faults -> Nat], NEW f \in Faults, Spend(f)
  PROVE  budget' \in [Faults -> Nat]
BY DEF Spend

\* A stage reports one of the percentages.
LEMMA StageProgress == ASSUME NEW s \in AllStages PROVE Stage[s].progress \in ProgressValues
BY DEF AllStages, ProgressValues, Stage, StaticTask, CodeIntelTask, DynamicTask,
       ThreatIntelTask, AiTask, ScoringTask, ReportingTask

\* Whatever an engine reports, the row gets one of its statuses.
LEMMA EnvelopeStatusType ==
  ASSUME NEW raw PROVE EnvelopeStatus(raw) \in {"ok", "partial", "failed"}
BY DEF EnvelopeStatus

LEMMA DeriveType == ASSUME NEW r PROVE DeriveJobStatus(r) \in Ended
BY DEF DeriveJobStatus, Ended

LEMMA CloseType ==
  ASSUME TypeOK, NEW w \in Workers, Close(w)
  PROVE  /\ snap' \in [Workers -> JobRow] /\ seen' \in [Workers -> SUBSET Enabled]
         /\ verdict' \in [Workers -> JobStatus \cup {"none"}]
<1>1. NoJob \in JobRow
  BY DEF NoJob, JobRow, ProgressValues
<1>2. QED
  BY <1>1 DEF TypeOK, Close

LEMMA RestType ==
  ASSUME TypeOK, NEW w \in Workers, Rest(w)
  PROVE  /\ pc' \in [Workers -> PcLabels] /\ msg' \in [Workers -> Message]
         /\ snap' \in [Workers -> JobRow] /\ seen' \in [Workers -> SUBSET Enabled]
         /\ verdict' \in [Workers -> JobStatus \cup {"none"}]
<1>1. Fresh("analyze") \in Message
  BY FreshType, AnalyzeIsTask
<1>2. QED
  BY <1>1, CloseType DEF TypeOK, Rest, Goto, PcLabels

-----------------------------------------------------------------------------
(* Type correctness.  It rests on who is where: a worker inside a stage task holds  *)
(* the message of an enabled stage.                                                 *)

StagePcs == {"begin", "work", "risk", "progress", "publish"}

HandlerMatchesTask == \A w \in Workers : pc[w] \in StagePcs => msg[w].task \in Enabled

\* What a worker step leaves of the others' program counters and messages.
LEMMA HandlerStep ==
  ASSUME TypeOK, HandlerMatchesTask, [Next]_vars
  PROVE  HandlerMatchesTask'
<1> USE DEF TypeOK, HandlerMatchesTask, StagePcs
<1>1. CASE UNCHANGED vars
  BY <1>1 DEF vars, workerVars
<1>2. CASE ApiStep \/ LoseDispatch \/ Finished
  BY <1>2 DEF ApiStep, Upload, DispatchAnalysis, CancelRead, CancelWrite, LoseDispatch,
              Finished, vars, workerVars
<1>3. ASSUME NEW w \in Workers, WorkerStep(w) PROVE HandlerMatchesTask'
  <2>1. CASE StartRead(w) \/ FinalizeRead(w)
    BY <2>1 DEF StartRead, FinalizeRead, Receive, Goto
  <2>2. CASE StageRead(w)
    BY <2>2 DEF StageRead, Receive, Goto
  <2>3. CASE StartWrite(w) \/ DispatchChain(w) \/ FinalizeWrite(w)
    BY <2>3 DEF StartWrite, DispatchChain, FinalizeWrite, Goto
  <2>4. CASE Begin(w) \/ Fail(w) \/ Skip(w) \/ WriteRisk(w) \/ SetProgress(w)
    BY <2>4 DEF Begin, Fail, Skip, WriteRisk, SetProgress, Goto
  <2>5. CASE Complete(w)
    BY <2>5 DEF Complete, Goto
  <2>6. CASE Interpolate(w)
    BY <2>6 DEF Interpolate
  <2>7. CASE PublishNext(w)
    BY <2>7 DEF PublishNext, Goto
  <2>8. CASE Ack(w)
    BY <2>8 DEF Ack, Rest, Goto
  <2>9. QED
    BY <1>3, <2>1, <2>2, <2>3, <2>4, <2>5, <2>6, <2>7, <2>8 DEF WorkerStep
<1>4. ASSUME NEW w \in Workers, FaultStep(w) PROVE HandlerMatchesTask'
  <2>1. CASE StageError(w)
    BY <2>1 DEF StageError, Goto
  <2>2. CASE DispatchFails(w) \/ RetryTask(w) \/ UncaughtError(w) \/ TimeLimit(w) \/ Crash(w)
    BY <2>2 DEF DispatchFails, RetryTask, UncaughtError, TimeLimit, Crash, Rest, Goto
  <2>3. QED
    BY <1>4, <2>1, <2>2 DEF FaultStep
<1>5. QED
  BY <1>1, <1>2, <1>3, <1>4 DEF Next

LEMMA InitType == Init => TypeOK
<1>1. NoJob \in JobRow
  BY DEF NoJob, JobRow, ProgressValues
<1>2. Fresh("analyze") \in Message
  BY FreshType, AnalyzeIsTask
<1>3. QED
  BY <1>1, <1>2, BudgetAssumption DEF Init, TypeOK, RowStatus, PcLabels

LEMMA ApiType == ASSUME TypeOK, ApiStep \/ LoseDispatch PROVE TypeOK'
<1>1. CASE Upload
  BY <1>1 DEF Upload, TypeOK, JobRow, JobStatus, ProgressValues, workerVars
<1>2. CASE DispatchAnalysis
  <2>1. queue' \in [Message -> Nat]
    BY <1>2, SendType, FreshType, AnalyzeIsTask DEF DispatchAnalysis, TypeOK
  <2>2. QED
    BY <1>2, <2>1 DEF DispatchAnalysis, TypeOK, dbVars, workerVars
<1>3. CASE LoseDispatch
  <2>1. budget' \in [Faults -> Nat]
    BY <1>3, SpendType DEF LoseDispatch, TypeOK, Faults
  <2>2. QED
    BY <1>3, <2>1 DEF LoseDispatch, TypeOK, dbVars, workerVars
<1>4. CASE CancelRead
  <2>1. budget' \in [Faults -> Nat]
    BY <1>4, SpendType DEF CancelRead, TypeOK, Faults
  <2>2. QED
    BY <1>4, <2>1 DEF CancelRead, TypeOK, dbVars, workerVars
<1>5. CASE CancelWrite
  BY <1>5 DEF CancelWrite, TypeOK, JobRow, JobStatus, workerVars
<1>6. QED
  BY <1>1, <1>2, <1>3, <1>4, <1>5 DEF ApiStep

LEMMA WorkerType ==
  ASSUME TypeOK, HandlerMatchesTask, NEW w \in Workers, WorkerStep(w)
  PROVE  TypeOK'
<1> USE DEF TypeOK
<1> snap[w] \in JobRow
  OBVIOUS
<1>1. CASE StartRead(w)
  <2>1. queue' \in [Message -> Nat] /\ msg' \in [Workers -> Message]
    BY <1>1, ReceiveType DEF StartRead
  <2>2. QED
    BY <1>1, <2>1 DEF StartRead, Goto, PcLabels, dbVars
<1>2. CASE StartWrite(w)
  <2>1. [snap[w] EXCEPT !.status = "running", !.progress = 0] \in JobRow
    BY DEF JobRow, JobStatus, ProgressValues
  <2>2. job' \in JobRow /\ snap' \in [Workers -> JobRow]
    BY <1>2, <2>1, CommitType DEF StartWrite
  <2>3. QED
    BY <1>2, <2>2 DEF StartWrite, Goto, PcLabels
<1>3. CASE DispatchChain(w)
  <2>1. queue' \in [Message -> Nat]
    BY <1>3, SendType, FreshType DEF DispatchChain, Follows
  <2>2. QED
    BY <1>3, <2>1, CloseType DEF DispatchChain, Goto, PcLabels, dbVars
<1>4. CASE StageRead(w)
  <2>1. queue' \in [Message -> Nat] /\ msg' \in [Workers -> Message]
    BY <1>4, ReceiveType DEF StageRead
  <2>2. QED
    BY <1>4, <2>1 DEF StageRead, Goto, PcLabels, dbVars
<1>5. CASE Begin(w)
  BY <1>5 DEF Begin, Goto, PcLabels, RowStatus
<1>6. CASE Interpolate(w)
  <2>1. [snap[w] EXCEPT !.progress = 80] \in JobRow
    BY DEF JobRow, ProgressValues
  <2>2. job' \in JobRow /\ snap' \in [Workers -> JobRow]
    BY <1>6, <2>1, CommitType DEF Interpolate
  <2>3. QED
    BY <1>6, <2>2 DEF Interpolate
<1>7. CASE Complete(w)
  <2>1. rows' \in [AllStages -> RowStatus]
    BY <1>7, EnvelopeStatusType DEF Complete, RowStatus
  <2>2. pc' \in [Workers -> PcLabels]
    <3>1. AfterComplete(msg[w].task) \in PcLabels
      BY DEF AfterComplete, PcLabels
    <3>2. QED
      BY <1>7, <3>1 DEF Complete, Goto
  <2>3. evidence' \subseteq Enabled
    BY <1>7 DEF Complete, HandlerMatchesTask, StagePcs
  <2>4. QED
    BY <1>7, <2>1, <2>2, <2>3 DEF Complete
<1>8. CASE Fail(w)
  BY <1>8 DEF Fail, Goto, PcLabels, RowStatus
<1>9. CASE Skip(w)
  BY <1>9 DEF Skip, Goto, PcLabels, RowStatus
<1>10. CASE WriteRisk(w)
  <2>1. [snap[w] EXCEPT !.risk = TRUE] \in JobRow
    BY DEF JobRow
  <2>2. job' \in JobRow /\ snap' \in [Workers -> JobRow]
    BY <1>10, <2>1, CommitType DEF WriteRisk
  <2>3. QED
    BY <1>10, <2>2 DEF WriteRisk, Goto, PcLabels
<1>11. CASE SetProgress(w)
  <2>1. Stage[msg[w].task].progress \in ProgressValues
    BY <1>11, StageProgress, EnabledAssumption DEF SetProgress, HandlerMatchesTask, StagePcs
  <2>2. [snap[w] EXCEPT !.progress = Stage[msg[w].task].progress] \in JobRow
    BY <2>1 DEF JobRow
  <2>3. job' \in JobRow /\ snap' \in [Workers -> JobRow]
    BY <1>11, <2>2, CommitType DEF SetProgress
  <2>4. QED
    BY <1>11, <2>3 DEF SetProgress, Goto, PcLabels
<1>12. CASE PublishNext(w)
  <2>1. queue' \in [Message -> Nat]
    BY <1>12, SendType, FreshType DEF PublishNext, Follows
  <2>2. QED
    BY <1>12, <2>1, CloseType DEF PublishNext, Goto, PcLabels, dbVars
<1>13. CASE FinalizeRead(w)
  <2>1. queue' \in [Message -> Nat] /\ msg' \in [Workers -> Message]
    BY <1>13, ReceiveType DEF FinalizeRead
  <2>2. verdict' \in [Workers -> JobStatus \cup {"none"}]
    BY <1>13, DeriveType DEF FinalizeRead, Ended, JobStatus
  <2>3. QED
    BY <1>13, <2>1, <2>2 DEF FinalizeRead, Goto, PcLabels, dbVars
<1>14. CASE FinalizeWrite(w)
  <2>1. [snap[w] EXCEPT !.status = verdict[w], !.progress = 100] \in JobRow
    BY DEF JobRow, ProgressValues
  <2>2. job' \in JobRow
    BY <1>14, <2>1, FlushType DEF FinalizeWrite
  <2>3. QED
    BY <1>14, <2>2, CloseType DEF FinalizeWrite, Goto, PcLabels
<1>15. CASE Ack(w)
  BY <1>15, RestType DEF Ack, dbVars
<1>16. QED
  BY <1>1, <1>2, <1>3, <1>4, <1>5, <1>6, <1>7, <1>8, <1>9, <1>10, <1>11, <1>12,
     <1>13, <1>14, <1>15 DEF WorkerStep

LEMMA FaultType == ASSUME TypeOK, NEW w \in Workers, FaultStep(w) PROVE TypeOK'
<1> USE DEF TypeOK
<1>1. \A f \in Faults : Spend(f) => budget' \in [Faults -> Nat]
  BY SpendType
<1>2. CASE StageError(w)
  BY <1>1, <1>2 DEF StageError, Goto, PcLabels, Faults, dbVars
<1>3. CASE DispatchFails(w) \/ UncaughtError(w) \/ TimeLimit(w)
  <2>1. Rest(w) /\ Spend("loss") /\ UNCHANGED <<dbVars, queue, upload, cancel>>
    BY <1>3 DEF DispatchFails, UncaughtError, TimeLimit
  <2>2. QED
    BY <1>1, <2>1, RestType DEF Faults, dbVars
<1>4. CASE RetryTask(w)
  <2>1. queue' \in [Message -> Nat]
    <3>1. CASE msg[w].retries < MaxRetries
      <4>1. [msg[w] EXCEPT !.retries = @ + 1] \in Message
        BY <3>1, MaxRetriesAssumption DEF Message
      <4>2. QED
        BY <1>4, <3>1, <4>1, SendType DEF RetryTask
    <3>2. QED
      BY <1>4, <3>1 DEF RetryTask
  <2>2. QED
    BY <1>1, <1>4, <2>1, RestType DEF RetryTask, Faults, dbVars
<1>5. CASE Crash(w)
  <2>1. queue' \in [Message -> Nat]
    BY <1>5, SendType DEF Crash
  <2>2. QED
    BY <1>1, <1>5, <2>1, RestType DEF Crash, Faults, dbVars
<1>6. QED
  BY <1>2, <1>3, <1>4, <1>5 DEF FaultStep

LEMMA TypeStep == ASSUME TypeOK, HandlerMatchesTask, [Next]_vars PROVE TypeOK'
<1>1. CASE UNCHANGED vars \/ Finished
  BY <1>1 DEF Finished, TypeOK, vars, dbVars, workerVars
<1>2. QED
  BY <1>1, ApiType, WorkerType, FaultType DEF Next

\* Whatever is lost, redelivered or cancelled, the rows, the queue and the workers
\* hold only values the code gives a meaning.
THEOREM TypeCorrect == Spec => [](TypeOK /\ HandlerMatchesTask)
<1>1. Init => HandlerMatchesTask
  BY DEF Init, HandlerMatchesTask, StagePcs
<1>2. TypeOK /\ HandlerMatchesTask /\ [Next]_vars => TypeOK' /\ HandlerMatchesTask'
  BY TypeStep, HandlerStep
<1>3. QED
  BY <1>1, <1>2, InitType, PTL DEF Spec

Typed == TypeOK /\ HandlerMatchesTask

-----------------------------------------------------------------------------
(* Evidence behind outcomes. *)

\* Evidence is never taken away, and a stage row changes only to a status its step
\* can account for.
LEMMA EvidenceStep ==
  ASSUME Typed, [Next]_vars
  PROVE  /\ evidence \subseteq evidence'
         /\ \A s \in AllStages :
              rows'[s] \in {"ok", "partial"} => rows'[s] = rows[s] \/ s \in evidence'
<1> USE DEF Typed, TypeOK
<1>1. CASE UNCHANGED <<rows, evidence>>
  BY <1>1
<1>2. ASSUME NEW w \in Workers, Begin(w) \/ Fail(w) \/ Skip(w)
      PROVE  /\ evidence \subseteq evidence'
             /\ \A s \in AllStages : rows'[s] \in {"ok", "partial"} => rows'[s] = rows[s]
  BY <1>2 DEF Begin, Fail, Skip
<1>3. ASSUME NEW w \in Workers, Complete(w)
      PROVE  /\ evidence \subseteq evidence'
             /\ \A s \in AllStages : rows'[s] = rows[s] \/ s \in evidence'
  BY <1>3 DEF Complete
<1>4. CASE ApiStep \/ LoseDispatch \/ Finished \/ UNCHANGED vars
  BY <1>1, <1>4 DEF ApiStep, Upload, DispatchAnalysis, CancelRead, CancelWrite, LoseDispatch,
                    Finished, vars, dbVars
<1>5. ASSUME NEW w \in Workers, WorkerStep(w)
      PROVE  \/ UNCHANGED <<rows, evidence>>
             \/ Begin(w) \/ Fail(w) \/ Skip(w) \/ Complete(w)
  BY <1>5 DEF WorkerStep, StartRead, StartWrite, DispatchChain, StageRead, Interpolate,
              WriteRisk, SetProgress, PublishNext, FinalizeRead, FinalizeWrite, Ack, dbVars
<1>6. ASSUME NEW w \in Workers, FaultStep(w) PROVE UNCHANGED <<rows, evidence>>
  BY <1>6 DEF FaultStep, DispatchFails, RetryTask, StageError, UncaughtError, TimeLimit,
              Crash, dbVars
<1>7. QED
  BY <1>1, <1>2, <1>3, <1>4, <1>5, <1>6 DEF Next

\* A stage row that reads ok or partial has its evidence, however the stage's attempts
\* were lost, redelivered or interleaved: complete commits both, begin, fail and skip
\* commit neither, and nothing withdraws evidence.
THEOREM OutcomesHaveEvidence == Spec => []EvidenceBacksOutcome
<1>1. Init => EvidenceBacksOutcome
  BY DEF Init, EvidenceBacksOutcome
<1>2. Typed /\ EvidenceBacksOutcome /\ [Next]_vars => EvidenceBacksOutcome'
  BY EvidenceStep DEF EvidenceBacksOutcome
<1>3. QED
  BY <1>1, <1>2, TypeCorrect, PTL DEF Spec, Typed

-----------------------------------------------------------------------------
(* Evidence and its sources.  What a stage read is still there when it stores  *)
(* its envelope, and a risk, on the row or in a worker's copy of it, has its   *)
(* score.                                                                      *)

ReadsAreEvidence == \A w \in Workers : seen[w] \subseteq evidence

RiskIsScored ==
  /\ job.risk => "scoring" \in evidence
  /\ \A w \in Workers : snap[w].risk \/ pc[w] = "risk" => "scoring" \in evidence

Sources(ev) ==
  /\ "code_intel" \in ev => "static" \in ev
  /\ "ai" \in ev => ev \ {"ai"} # {}
  /\ "scoring" \in ev => Harvested(ev)
  /\ "reporting" \in ev => ev \ {"reporting"} # {}

ProvenanceInv == ReadsAreEvidence /\ RiskIsScored /\ Sources(evidence)

LEMMA ReadsStep ==
  ASSUME Typed, ReadsAreEvidence, [Next]_vars
  PROVE  ReadsAreEvidence'
<1> USE DEF Typed, TypeOK, ReadsAreEvidence
<1>1. evidence \subseteq evidence'
  BY EvidenceStep
<1>2. CASE UNCHANGED seen
  BY <1>1, <1>2
<1>3. ASSUME NEW w \in Workers, Begin(w) PROVE ReadsAreEvidence'
  BY <1>3 DEF Begin
<1>4. ASSUME NEW w \in Workers, Close(w) PROVE ReadsAreEvidence'
  BY <1>1, <1>4 DEF Close
<1>5. CASE ApiStep \/ LoseDispatch \/ Finished \/ UNCHANGED vars
  BY <1>2, <1>5 DEF ApiStep, Upload, DispatchAnalysis, CancelRead, CancelWrite, LoseDispatch,
                    Finished, vars, workerVars
<1>6. ASSUME NEW w \in Workers, WorkerStep(w)
      PROVE  UNCHANGED seen \/ Begin(w) \/ Close(w)
  BY <1>6 DEF WorkerStep, StartRead, StartWrite, DispatchChain, StageRead, Interpolate,
              Complete, Fail, Skip, WriteRisk, SetProgress, PublishNext, FinalizeRead,
              FinalizeWrite, Ack, Rest
<1>7. ASSUME NEW w \in Workers, FaultStep(w) PROVE UNCHANGED seen \/ Close(w)
  BY <1>7 DEF FaultStep, DispatchFails, RetryTask, StageError, UncaughtError, TimeLimit,
              Crash, Rest
<1>8. QED
  BY <1>2, <1>3, <1>4, <1>5, <1>6, <1>7 DEF Next

LEMMA SourcesStep ==
  ASSUME Typed, ReadsAreEvidence, Sources(evidence), [Next]_vars
  PROVE  Sources(evidence')
<1> USE DEF Typed, TypeOK
<1>1. CASE UNCHANGED evidence
  BY <1>1
<1>2. ASSUME NEW w \in Workers, Complete(w) PROVE Sources(evidence')
  <2> DEFINE s == msg[w].task
  <2>1. Visible(w) \subseteq evidence /\ HasInputs(s, Visible(w)) /\ evidence' = evidence \cup {s}
    BY <1>2 DEF Complete, Visible, ReadsAreEvidence
  <2> HIDE DEF s
  <2>2. Harvested(evidence) => Harvested(evidence')
    BY <2>1 DEF Harvested
  <2>3. s = "code_intel" => "static" \in evidence
    BY <2>1 DEF HasInputs
  <2>4. s \in {"ai", "reporting"} => evidence # {}
    BY <2>1 DEF HasInputs
  <2>5. s = "scoring" => Harvested(evidence)
    BY <2>1 DEF HasInputs, Harvested
  <2>6. QED
    BY <2>1, <2>2, <2>3, <2>4, <2>5 DEF Sources
<1>3. CASE ApiStep \/ LoseDispatch \/ Finished \/ UNCHANGED vars
  BY <1>1, <1>3 DEF ApiStep, Upload, DispatchAnalysis, CancelRead, CancelWrite, LoseDispatch,
                    Finished, vars, dbVars
<1>4. ASSUME NEW w \in Workers, WorkerStep(w)
      PROVE  UNCHANGED evidence \/ Complete(w)
  BY <1>4 DEF WorkerStep, StartRead, StartWrite, DispatchChain, StageRead, Begin, Interpolate,
              Fail, Skip, WriteRisk, SetProgress, PublishNext, FinalizeRead, FinalizeWrite,
              Ack, dbVars
<1>5. ASSUME NEW w \in Workers, FaultStep(w) PROVE UNCHANGED evidence
  BY <1>5 DEF FaultStep, DispatchFails, RetryTask, StageError, UncaughtError, TimeLimit,
              Crash, dbVars
<1>6. QED
  BY <1>1, <1>2, <1>3, <1>4, <1>5 DEF Next

\* A commit takes the row's risk from the row or from what the task wrote.
LEMMA CommitRisk ==
  ASSUME Typed, NEW w \in Workers, NEW new \in JobRow, CommitJob(w, new)
  PROVE  /\ job'.risk => job.risk \/ new.risk
         /\ \A v \in Workers : snap'[v].risk => snap[v].risk \/ new.risk
BY DEF Typed, TypeOK, CommitJob, Flush, JobRow

LEMMA RiskStep ==
  ASSUME Typed, RiskIsScored, [Next]_vars
  PROVE  RiskIsScored'
<1> USE DEF Typed, TypeOK, RiskIsScored
<1>1. "scoring" \in evidence => "scoring" \in evidence'
  BY EvidenceStep
<1>2. CASE UNCHANGED <<job, snap, pc>>
  BY <1>1, <1>2
<1>3. ASSUME NEW w \in Workers, Rest(w), UNCHANGED job PROVE RiskIsScored'
  BY <1>1, <1>3 DEF Rest, Close, Goto, NoJob
<1>4. CASE ApiStep \/ LoseDispatch \/ Finished \/ UNCHANGED vars
  BY <1>1, <1>4 DEF ApiStep, Upload, DispatchAnalysis, CancelRead, CancelWrite, LoseDispatch,
                    Finished, vars, dbVars, workerVars, JobRow
<1>5. ASSUME NEW w \in Workers, WorkerStep(w) PROVE RiskIsScored'
  <2> snap[w] \in JobRow
    OBVIOUS
  <2>1. CASE StartRead(w) \/ StageRead(w) \/ FinalizeRead(w)
    BY <1>1, <2>1 DEF StartRead, StageRead, FinalizeRead, Goto, dbVars
  <2>2. CASE DispatchChain(w) \/ Begin(w) \/ Fail(w) \/ Skip(w) \/ PublishNext(w)
    BY <1>1, <2>2 DEF DispatchChain, Begin, Fail, Skip, PublishNext, Close, NoJob, Goto, dbVars
  <2>3. CASE Complete(w)
    <3>1. AfterComplete(msg[w].task) = "risk" => "scoring" \in evidence'
      BY <2>3 DEF Complete, AfterComplete
    <3>2. QED
      BY <1>1, <2>3, <3>1 DEF Complete, Goto
  <2>4. ASSUME NEW new \in JobRow, CommitJob(w, new), new.risk => "scoring" \in evidence',
               NEW label, label # "risk",
               pc' = [pc EXCEPT ![w] = label] \/ UNCHANGED pc
        PROVE  RiskIsScored'
    BY <1>1, <2>4, CommitRisk
  <2>5. CASE StartWrite(w)
    <3> DEFINE new == [snap[w] EXCEPT !.status = "running", !.progress = 0]
    <3>1. new \in JobRow /\ new.risk = snap[w].risk
      BY DEF JobRow, JobStatus, ProgressValues
    <3>2. CommitJob(w, new) /\ pc' = [pc EXCEPT ![w] = "dispatch"]
      BY <2>5 DEF StartWrite, Goto
    <3>3. QED
      BY <1>1, <2>4, <3>1, <3>2
  <2>6. CASE Interpolate(w)
    <3> DEFINE new == [snap[w] EXCEPT !.progress = 80]
    <3>1. new \in JobRow /\ new.risk = snap[w].risk
      BY DEF JobRow, ProgressValues
    <3>2. CommitJob(w, new) /\ UNCHANGED pc
      BY <2>6 DEF Interpolate
    <3>3. QED
      BY <1>1, <2>4, <3>1, <3>2
  <2>7. CASE WriteRisk(w)
    <3> DEFINE new == [snap[w] EXCEPT !.risk = TRUE]
    <3>1. new \in JobRow
      BY DEF JobRow
    <3>2. CommitJob(w, new) /\ pc' = [pc EXCEPT ![w] = "progress"] /\ pc[w] = "risk"
      BY <2>7 DEF WriteRisk, Goto
    <3>3. QED
      BY <1>1, <2>4, <3>1, <3>2
  <2>8. CASE SetProgress(w)
    <3> DEFINE new == [snap[w] EXCEPT !.progress = Stage[msg[w].task].progress]
    <3>0. Stage[msg[w].task].progress \in ProgressValues
      BY <2>8, StageProgress, EnabledAssumption DEF SetProgress, HandlerMatchesTask, StagePcs
    <3>1. new \in JobRow /\ new.risk = snap[w].risk
      BY <3>0 DEF JobRow
    <3>2. CommitJob(w, new) /\ pc' = [pc EXCEPT ![w] = "publish"]
      BY <2>8 DEF SetProgress, Goto
    <3>3. QED
      BY <1>1, <2>4, <3>1, <3>2
  <2>9. CASE FinalizeWrite(w)
    <3> DEFINE new == [snap[w] EXCEPT !.status = verdict[w], !.progress = 100]
    <3>1. new \in JobRow /\ new.risk = snap[w].risk
      BY DEF JobRow, ProgressValues
    <3>2. Flush(snap[w], new) /\ Close(w) /\ pc' = [pc EXCEPT ![w] = "ack"]
      BY <2>9 DEF FinalizeWrite, Goto
    <3> HIDE DEF new
    <3>3. job'.risk => job.risk \/ new.risk
      BY <3>2 DEF Flush, JobRow
    <3>4. QED
      BY <1>1, <3>1, <3>2, <3>3 DEF Close, NoJob
  <2>10. CASE Ack(w)
    BY <1>3, <2>10 DEF Ack, dbVars
  <2>11. QED
    BY <1>5, <2>1, <2>2, <2>3, <2>5, <2>6, <2>7, <2>8, <2>9, <2>10 DEF WorkerStep
<1>6. ASSUME NEW w \in Workers, FaultStep(w) PROVE RiskIsScored'
  <2>1. CASE StageError(w)
    BY <1>1, <2>1 DEF StageError, Goto, dbVars
  <2>2. CASE DispatchFails(w) \/ RetryTask(w) \/ UncaughtError(w) \/ TimeLimit(w) \/ Crash(w)
    BY <1>3, <2>2 DEF DispatchFails, RetryTask, UncaughtError, TimeLimit, Crash, dbVars
  <2>3. QED
    BY <1>6, <2>1, <2>2 DEF FaultStep
<1>7. QED
  BY <1>4, <1>5, <1>6 DEF Next

\* Nothing is derived from nothing: an envelope of a derived stage, and a risk, are only
\* ever stored over the evidence they were computed from, for every chain and every
\* interleaving with redelivered copies of it.
THEOREM DerivedHasSource == Spec => []EvidenceProvenance
<1>1. Init => ProvenanceInv
  BY DEF Init, ProvenanceInv, ReadsAreEvidence, RiskIsScored, Sources, NoJob
<1>2. Typed /\ ProvenanceInv /\ [Next]_vars => ProvenanceInv'
  BY ReadsStep, SourcesStep, RiskStep DEF ProvenanceInv
<1>3. ProvenanceInv => EvidenceProvenance
  BY DEF ProvenanceInv, RiskIsScored, Sources, EvidenceProvenance
<1>4. QED
  BY <1>1, <1>2, <1>3, TypeCorrect, PTL DEF Spec, Typed

-----------------------------------------------------------------------------
(* The job precedes its tasks. *)

Recorded ==
  /\ upload # "start" => job.status # "none"
  /\ upload # "done" => /\ \A m \in Message : queue[m] = 0
                       /\ \A w \in Workers : pc[w] = "idle"
  /\ \A w \in Workers : pc[w] \notin {"idle", "ack"} => snap[w].status # "none"
  /\ \A w \in Workers : pc[w] = "finalize" => verdict[w] # "none"

\* A commit that gives the job a status leaves it one.
LEMMA CommitStatus ==
  ASSUME Typed, NEW w \in Workers, NEW new \in JobRow, CommitJob(w, new),
         job.status # "none", new.status # "none"
  PROVE  job'.status # "none" /\ snap' = [snap EXCEPT ![w] = new]
BY DEF Typed, TypeOK, CommitJob, Flush, JobRow

LEMMA RecordedApi ==
  ASSUME Typed, Recorded, ApiStep \/ LoseDispatch
  PROVE  Recorded'
<1> USE DEF Typed, TypeOK, Recorded
<1>1. CASE Upload
  BY <1>1 DEF Upload, workerVars
<1>2. CASE DispatchAnalysis \/ LoseDispatch
  BY <1>2 DEF DispatchAnalysis, LoseDispatch, dbVars, workerVars
<1>3. CASE CancelRead \/ CancelWrite
  BY <1>3 DEF CancelRead, CancelWrite, dbVars, workerVars, JobRow
<1>4. QED
  BY <1>1, <1>2, <1>3 DEF ApiStep

LEMMA RecordedFault ==
  ASSUME Typed, Recorded, NEW w \in Workers, FaultStep(w)
  PROVE  Recorded'
<1> USE DEF Typed, TypeOK, Recorded
<1>1. pc[w] # "idle" /\ UNCHANGED <<job, upload>>
  BY DEF FaultStep, DispatchFails, RetryTask, StageError, UncaughtError, TimeLimit, Crash, dbVars
<1>2. CASE StageError(w)
  BY <1>1, <1>2 DEF StageError, Goto
<1>3. CASE Rest(w)
  BY <1>1, <1>3 DEF Rest, Close, Goto
<1>4. QED
  BY <1>2, <1>3 DEF FaultStep, DispatchFails, RetryTask, UncaughtError, TimeLimit, Crash

LEMMA RecordedWorker ==
  ASSUME Typed, Recorded, NEW w \in Workers, WorkerStep(w)
  PROVE  Recorded'
<1> USE DEF Typed, TypeOK, Recorded
<1> snap[w] \in JobRow
  OBVIOUS
<1>1. upload = "done" /\ job.status # "none"
  BY DEF WorkerStep, StartRead, StartWrite, DispatchChain, StageRead, Begin, Interpolate,
         Complete, Fail, Skip, WriteRisk, SetProgress, PublishNext, FinalizeRead,
         FinalizeWrite, Ack, Receive
<1>2. CASE StartRead(w) \/ StageRead(w)
  BY <1>1, <1>2 DEF StartRead, StageRead, Goto, Terminal, dbVars
<1>3. CASE FinalizeRead(w)
  BY <1>1, <1>3, DeriveType DEF FinalizeRead, Goto, Ended, dbVars
<1>4. CASE DispatchChain(w) \/ Begin(w) \/ Fail(w) \/ Skip(w) \/ PublishNext(w)
  BY <1>1, <1>4 DEF DispatchChain, Begin, Fail, Skip, PublishNext, Close, Goto, dbVars
<1>5. CASE Complete(w)
  BY <1>1, <1>5 DEF Complete, Goto, AfterComplete
<1>6. ASSUME NEW new \in JobRow, CommitJob(w, new), new.status # "none",
             NEW label, label # "finalize",
             pc' = [pc EXCEPT ![w] = label] \/ UNCHANGED pc,
             UNCHANGED <<upload, verdict>>
      PROVE  Recorded'
  BY <1>1, <1>6, CommitStatus
<1>7. CASE StartWrite(w)
  <2> DEFINE new == [snap[w] EXCEPT !.status = "running", !.progress = 0]
  <2>1. new \in JobRow /\ new.status # "none"
    BY DEF JobRow, JobStatus, ProgressValues
  <2>2. QED
    BY <1>6, <1>7, <2>1 DEF StartWrite, Goto
<1>8. CASE Interpolate(w)
  <2> DEFINE new == [snap[w] EXCEPT !.progress = 80]
  <2>1. new \in JobRow /\ new.status = snap[w].status
    BY DEF JobRow, ProgressValues
  <2>2. CommitJob(w, new) /\ pc[w] \notin {"idle", "ack"} /\ UNCHANGED <<pc, upload, verdict>>
    BY <1>8 DEF Interpolate
  <2>3. new.status # "none"
    BY <2>1, <2>2
  <2>4. QED
    BY <1>6, <2>1, <2>2, <2>3
<1>9. CASE WriteRisk(w)
  <2> DEFINE new == [snap[w] EXCEPT !.risk = TRUE]
  <2>1. new \in JobRow /\ new.status = snap[w].status
    BY DEF JobRow
  <2>2. /\ CommitJob(w, new) /\ pc[w] \notin {"idle", "ack"} /\ UNCHANGED <<upload, verdict>>
        /\ pc' = [pc EXCEPT ![w] = "progress"]
    BY <1>9 DEF WriteRisk, Goto
  <2>3. new.status # "none"
    BY <2>1, <2>2
  <2>4. QED
    BY <1>6, <2>1, <2>2, <2>3
<1>10. CASE SetProgress(w)
  <2> DEFINE new == [snap[w] EXCEPT !.progress = Stage[msg[w].task].progress]
  <2>0. Stage[msg[w].task].progress \in ProgressValues
    BY <1>10, StageProgress, EnabledAssumption DEF SetProgress, HandlerMatchesTask, StagePcs
  <2>1. new \in JobRow /\ new.status = snap[w].status
    BY <2>0 DEF JobRow
  <2>2. /\ CommitJob(w, new) /\ pc[w] \notin {"idle", "ack"} /\ UNCHANGED <<upload, verdict>>
        /\ pc' = [pc EXCEPT ![w] = "publish"]
    BY <1>10 DEF SetProgress, Goto
  <2>3. new.status # "none"
    BY <2>1, <2>2
  <2>4. QED
    BY <1>6, <2>1, <2>2, <2>3
<1>11. CASE FinalizeWrite(w)
  <2> DEFINE new == [snap[w] EXCEPT !.status = verdict[w], !.progress = 100]
  <2>1. new \in JobRow /\ new.status = verdict[w] /\ verdict[w] # "none"
    BY <1>11 DEF FinalizeWrite, JobRow, ProgressValues
  <2>2. Flush(snap[w], new) /\ Close(w) /\ UNCHANGED upload /\ pc' = [pc EXCEPT ![w] = "ack"]
    BY <1>11 DEF FinalizeWrite, Goto
  <2> HIDE DEF new
  <2>3. job'.status # "none"
    BY <1>1, <2>1, <2>2 DEF Flush, JobRow
  <2>4. QED
    BY <1>1, <2>2, <2>3 DEF Close
<1>12. CASE Ack(w)
  BY <1>1, <1>12 DEF Ack, Rest, Close, Goto, dbVars
<1>13. QED
  BY <1>2, <1>3, <1>4, <1>5, <1>7, <1>8, <1>9, <1>10, <1>11, <1>12 DEF WorkerStep

LEMMA RecordedStep == ASSUME Typed, Recorded, [Next]_vars PROVE Recorded'
<1>1. ASSUME UNCHANGED vars \/ Finished PROVE Recorded'
  BY <1>1 DEF Finished, vars, dbVars, workerVars, Recorded
<1>2. QED
  BY <1>1, RecordedApi, RecordedWorker, RecordedFault DEF Next

\* No message waits and no task runs for a job whose row is not committed, and no commit
\* takes the row's status away.
THEOREM TasksHaveTheirJob == Spec => []NoOrphanTask
<1>1. Init => Recorded
  BY DEF Init, Recorded, NoJob
<1>2. Typed /\ Recorded /\ [Next]_vars => Recorded'
  BY RecordedStep
<1>3. Typed /\ Recorded => NoOrphanTask
  BY DEF Typed, TypeOK, Recorded, NoOrphanTask
<1>4. QED
  BY <1>1, <1>2, <1>3, TypeCorrect, PTL DEF Spec, Typed

-----------------------------------------------------------------------------
(* What the rest of the proofs stand on: how the faults are counted, and which  *)
(* worker is in which task.                                                      *)

\* No worker has been lost yet.
Calm == NoneYet({"crash"})

BudgetBound == \A f \in Faults : budget[f] <= Budget[f]

\* The progress that the tasks up to and including t can have reported.
Ceiling == [analyze |-> 0, static |-> 20, code_intel |-> 35, dynamic |-> 80,
            threat_intel |-> 80, ai |-> 80, scoring |-> 85, reporting |-> 95,
            finalize |-> 95]

\* Which task a worker is in, where it matters.
Placed ==
  \A w \in Workers :
    /\ pc[w] \in {"start", "dispatch"} => msg[w].task = "analyze"
    /\ pc[w] = "risk" => msg[w].task = "scoring"
    /\ pc[w] = "finalize" => msg[w].task = "finalize"
    /\ pc[w] = "progress" => Stage[msg[w].task].progress = Ceiling[msg[w].task]

Background == Typed /\ Recorded /\ BudgetBound /\ Placed

-----------------------------------------------------------------------------
(* The ceilings. *)

LEMMA CeilingOfStage ==
  ASSUME NEW s \in AllStages, Stage[s].progress # 0
  PROVE  Stage[s].progress = Ceiling[s]
BY DEF AllStages, Ceiling, Stage, StaticTask, CodeIntelTask, DynamicTask,
       ThreatIntelTask, AiTask, ScoringTask, ReportingTask

LEMMA CeilingGrows ==
  ASSUME NEW t \in Tasks, NEW u \in Tasks, Pos[t] < Pos[u]
  PROVE  Ceiling[t] <= Ceiling[u]
BY EnabledAssumption DEF Tasks, AllStages, Ceiling, Pos

LEMMA CeilingType == ASSUME NEW t \in Tasks PROVE Ceiling[t] \in Nat
BY EnabledAssumption DEF Tasks, AllStages, Ceiling

-----------------------------------------------------------------------------
(* Faults are only ever used up. *)

LEMMA SpendBound ==
  ASSUME Typed, BudgetBound, NEW f \in Faults, Spend(f)
  PROVE  BudgetBound'
<1>1. budget \in [Faults -> Nat]
  BY DEF Typed, TypeOK
<1>2. /\ DOMAIN budget = Faults
      /\ budget[f] \in Nat /\ Budget[f] \in Nat /\ budget[f] <= Budget[f]
  BY <1>1, BudgetAssumption DEF BudgetBound
<1>3. budget' = [budget EXCEPT ![f] = budget[f] - 1]
  BY DEF Spend
<1>4. budget'[f] <= Budget[f]
  BY <1>2, <1>3
<1>5. ASSUME NEW g \in Faults, g # f PROVE budget'[g] <= Budget[g]
  BY <1>1, <1>3, <1>5 DEF BudgetBound
<1>6. QED
  BY <1>4, <1>5 DEF BudgetBound

\* A step is one fault or none.
LEMMA BudgetMoves ==
  ASSUME [Next]_vars
  PROVE  UNCHANGED budget \/ \E f \in Faults : Spend(f)
<1>1. CASE ApiStep \/ LoseDispatch \/ Finished \/ UNCHANGED vars
  BY <1>1 DEF ApiStep, Upload, DispatchAnalysis, CancelRead, CancelWrite, LoseDispatch,
              Finished, vars, Faults
<1>2. ASSUME NEW w \in Workers, WorkerStep(w) PROVE UNCHANGED budget
  BY <1>2 DEF WorkerStep, StartRead, StartWrite, DispatchChain, StageRead, Begin, Interpolate,
              Complete, Fail, Skip, WriteRisk, SetProgress, PublishNext, FinalizeRead,
              FinalizeWrite, Ack
<1>3. ASSUME NEW w \in Workers, FaultStep(w) PROVE \E f \in Faults : Spend(f)
  BY <1>3 DEF FaultStep, DispatchFails, RetryTask, StageError, UncaughtError, TimeLimit,
              Crash, Faults
<1>4. QED
  BY <1>1, <1>2, <1>3 DEF Next

LEMMA BudgetStep ==
  ASSUME Typed, BudgetBound, [Next]_vars
  PROVE  BudgetBound'
<1>1. CASE UNCHANGED budget
  BY <1>1 DEF BudgetBound
<1>2. QED
  BY <1>1, BudgetMoves, SpendBound

\* A fault that has not happened after a step had not happened before it.
LEMMA NoneYetStep ==
  ASSUME Typed, BudgetBound, [Next]_vars, NEW f \in Faults, NoneYet({f})'
  PROVE  NoneYet({f}) /\ ~Spend(f)
<1>1. /\ budget \in [Faults -> Nat]
      /\ Budget[f] \in Nat /\ budget[f] \in Nat /\ budget[f] <= Budget[f]
  BY BudgetAssumption DEF Typed, TypeOK, BudgetBound
<1>2. budget'[f] = Budget[f]
  BY DEF NoneYet
<1>3. CASE UNCHANGED budget
  BY <1>1, <1>2, <1>3 DEF NoneYet, Spend
<1>4. ASSUME NEW g \in Faults, Spend(g) PROVE NoneYet({f}) /\ ~Spend(f)
  <2>1. budget[g] \in Nat /\ budget' = [budget EXCEPT ![g] = budget[g] - 1] /\ budget[g] > 0
    BY <1>1, <1>4 DEF Spend
  <2>2. g # f
    BY <1>1, <1>2, <2>1
  <2>3. budget'[f] = budget[f]
    BY <1>1, <2>1, <2>2
  <2>4. ~Spend(f)
    BY <1>1, <2>3 DEF Spend
  <2>5. QED
    BY <1>2, <2>3, <2>4 DEF NoneYet
<1>5. UNCHANGED budget \/ \E g \in Faults : Spend(g)
  BY BudgetMoves
<1>6. QED
  BY <1>3, <1>4, <1>5

\* A step into a calm state starts in one and is no crash.
LEMMA CalmStep ==
  ASSUME Typed, BudgetBound, [Next]_vars, Calm'
  PROVE  Calm /\ ~ \E w \in Workers : Crash(w)
BY NoneYetStep DEF Calm, Crash, Faults

-----------------------------------------------------------------------------
(* Where the workers are. *)

LEMMA PlacedStep ==
  ASSUME Typed, Placed, [Next]_vars
  PROVE  Placed'
<1> USE DEF Typed, TypeOK, Placed
<1>1. CASE ApiStep \/ LoseDispatch \/ Finished \/ UNCHANGED vars
  BY <1>1 DEF ApiStep, Upload, DispatchAnalysis, CancelRead, CancelWrite, LoseDispatch,
              Finished, vars, workerVars
<1>2. ASSUME NEW w \in Workers, WorkerStep(w) PROVE Placed'
  <2>1. CASE StartRead(w) \/ StageRead(w) \/ FinalizeRead(w)
    BY <2>1 DEF StartRead, StageRead, FinalizeRead, Receive, Goto
  <2>2. CASE StartWrite(w) \/ DispatchChain(w) \/ Begin(w) \/ Fail(w) \/ Skip(w)
             \/ SetProgress(w) \/ PublishNext(w) \/ FinalizeWrite(w)
    BY <2>2 DEF StartWrite, DispatchChain, Begin, Fail, Skip, SetProgress, PublishNext,
                FinalizeWrite, Goto
  <2>3. CASE Interpolate(w)
    BY <2>3 DEF Interpolate
  <2>4. CASE Complete(w)
    <3> DEFINE s == msg[w].task
    <3>1. s \in AllStages
      BY <2>4, EnabledAssumption DEF Complete, HandlerMatchesTask, StagePcs
    <3>2. AfterComplete(s) = "risk" => s = "scoring"
      BY DEF AfterComplete
    <3>3. AfterComplete(s) = "progress" => Stage[s].progress = Ceiling[s]
      BY <3>1, CeilingOfStage DEF AfterComplete
    <3>4. AfterComplete(s) \in {"risk", "progress", "publish"}
      BY DEF AfterComplete
    <3>5. pc' = [pc EXCEPT ![w] = AfterComplete(s)] /\ UNCHANGED msg
      BY <2>4 DEF Complete, Goto
    <3> HIDE DEF s
    <3>6. QED
      BY <3>2, <3>3, <3>4, <3>5 DEF s
  <2>5. CASE WriteRisk(w)
    <3>1. Stage["scoring"].progress = Ceiling["scoring"]
      BY DEF Stage, ScoringTask, Ceiling
    <3>2. QED
      BY <2>5, <3>1 DEF WriteRisk, Goto
  <2>6. CASE Ack(w)
    BY <2>6 DEF Ack, Rest, Goto
  <2>7. QED
    BY <1>2, <2>1, <2>2, <2>3, <2>4, <2>5, <2>6 DEF WorkerStep
<1>3. ASSUME NEW w \in Workers, FaultStep(w) PROVE Placed'
  BY <1>3 DEF FaultStep, DispatchFails, RetryTask, StageError, UncaughtError, TimeLimit, Crash,
              Rest, Goto
<1>4. QED
  BY <1>1, <1>2, <1>3 DEF Next

LEMMA BackgroundStep == ASSUME Background, [Next]_vars PROVE Background'
BY TypeStep, HandlerStep, RecordedStep, BudgetStep, PlacedStep DEF Background, Typed

LEMMA BackgroundInit == Init => Background
<1>1. Init => Typed
  BY InitType DEF Init, Typed, HandlerMatchesTask, StagePcs
<1>2. Init => Recorded /\ Placed /\ BudgetBound
  BY BudgetAssumption DEF Init, Recorded, Placed, BudgetBound, NoJob
<1>3. QED
  BY <1>1, <1>2 DEF Background

-----------------------------------------------------------------------------
(* What redelivery leaves behind. *)

\* Every task that was started has run, or will run, to its end.
Unbroken == NoneYet({"error", "loss"})

\* Some copy of t is queued; some worker is at one of these places of t.
Queued(t) == \E m \in Message : m.task = t /\ queue[m] > 0
At(t, labels) == \E w \in Workers : pc[w] \in labels /\ msg[w].task = t

\* Somebody will still run t from one of these places, or again from its start.
Held(t, labels) == Queued(t) \/ At(t, labels)

\* A stage that is claimed is in hand.
Claimed == \A s \in Enabled : rows[s] = "running" => Held(s, {"begin", "work"})

\* The stages before t have their rows.
Behind(t, r) == \A s \in Enabled : Pos[s] < Pos[t] => r[s] # "none"

\* A task is queued or run only once the stages before it have their rows, it leaves a
\* row itself, and the end of the job comes after them all.
Covered ==
  /\ \A m \in Message : queue[m] > 0 => Behind(m.task, rows)
  /\ \A w \in Workers : pc[w] # "idle" => Behind(msg[w].task, rows)
  /\ \A w \in Workers : pc[w] \in {"work", "risk", "progress", "publish", "ack"} =>
       (msg[w].task \in Enabled => rows[msg[w].task] # "none")
  /\ job.status \in Ended => \A s \in Enabled : rows[s] # "none"

NotCancelled ==
  /\ job.status # "cancelled" /\ cancel = "idle"
  /\ \A w \in Workers : verdict[w] # "cancelled"

\* A risk that a worker has seen stays on the row.
RiskKept ==
  /\ upload = "start" => ~job.risk
  /\ \A w \in Workers : snap[w].risk => job.risk

\* A scored job has its risk, or the worker that scored it is about to write it, ...
RiskFollows == rows["scoring"] = "ok" => job.risk \/ At("scoring", {"risk"})

\* ... or somebody will score it again.
RiskInHand ==
  rows["scoring"] = "ok" => job.risk \/ Held("scoring", {"begin", "work", "risk"})

-----------------------------------------------------------------------------
(* The steps of an unbroken history. *)

LEMMA UnbrokenStep ==
  ASSUME Background, [Next]_vars, Unbroken'
  PROVE  /\ Unbroken
         /\ \/ UNCHANGED vars \/ ApiStep
            \/ \E w \in Workers : WorkerStep(w) \/ Crash(w)
<1>1. /\ NoneYet({"error"}) /\ NoneYet({"loss"})
      /\ ~Spend("error") /\ ~Spend("loss")
  BY NoneYetStep DEF Background, Unbroken, NoneYet, Faults
<1>2. ~LoseDispatch /\ \A w \in Workers : FaultStep(w) => Crash(w)
  BY <1>1 DEF LoseDispatch, FaultStep, DispatchFails, RetryTask, StageError, UncaughtError,
              TimeLimit
<1>3. QED
  BY <1>1, <1>2 DEF Unbroken, NoneYet, Next, Finished

LEMMA SendHolds ==
  ASSUME Typed, NEW m \in Message, Send(m)
  PROVE  /\ queue'[m] > 0
         /\ \A n \in Message : /\ queue[n] > 0 => queue'[n] > 0
                               /\ queue'[n] > 0 => queue[n] > 0 \/ n = m
BY DEF Typed, TypeOK, Send

LEMMA ReceiveHolds ==
  ASSUME Typed, NEW w \in Workers, NEW m \in Message, Receive(w, m)
  PROVE  /\ pc[w] = "idle" /\ queue[m] > 0
         /\ msg' = [msg EXCEPT ![w] = m] /\ msg'[w] = m
         /\ \A n \in Message : /\ queue[n] > 0 /\ n # m => queue'[n] > 0
                               /\ queue'[n] > 0 => queue[n] > 0
BY DEF Typed, TypeOK, Receive

\* What a worker's step may write to the row of the job.
LEMMA RowMoves ==
  ASSUME Typed, NEW w \in Workers, WorkerStep(w)
  PROVE  /\ \/ job'.status \in {job.status, "running"}
            \/ FinalizeWrite(w) /\ job'.status = verdict[w]
         /\ job.risk => job'.risk
         /\ WriteRisk(w) => job'.risk \/ snap[w].risk
         /\ \A v \in Workers : snap'[v].risk => snap[v].risk \/ job'.risk
<1> USE DEF Typed, TypeOK
<1> snap[w] \in JobRow
  OBVIOUS
<1>1. ASSUME NEW new \in JobRow, Flush(snap[w], new), snap[w].risk => new.risk
      PROVE  /\ job'.status \in {job.status, new.status}
             /\ new.status = snap[w].status => job'.status = job.status
             /\ job.risk => job'.risk
             /\ new.risk => job'.risk \/ snap[w].risk
  BY <1>1 DEF Flush, JobRow
<1>2. CASE StartRead(w) \/ StageRead(w) \/ FinalizeRead(w)
  BY <1>2 DEF StartRead, StageRead, FinalizeRead, dbVars, WriteRisk, Receive
<1>3. CASE DispatchChain(w) \/ Begin(w) \/ Complete(w) \/ Fail(w) \/ Skip(w) \/ PublishNext(w)
           \/ Ack(w)
  BY <1>3 DEF DispatchChain, Begin, Complete, Fail, Skip, PublishNext, Ack, Rest, Close, NoJob,
              dbVars, WriteRisk
<1>4. ASSUME NEW new \in JobRow, CommitJob(w, new), snap[w].risk => new.risk,
             new.status \in {snap[w].status, "running"}, WriteRisk(w) => new.risk
      PROVE  /\ job'.status \in {job.status, "running"}
             /\ job.risk => job'.risk
             /\ WriteRisk(w) => job'.risk \/ snap[w].risk
             /\ \A v \in Workers : snap'[v].risk => snap[v].risk \/ job'.risk
  BY <1>1, <1>4 DEF CommitJob
<1>5. CASE StartWrite(w)
  <2> DEFINE new == [snap[w] EXCEPT !.status = "running", !.progress = 0]
  <2>1. new \in JobRow /\ new.risk = snap[w].risk /\ new.status = "running"
    BY DEF JobRow, JobStatus, ProgressValues
  <2>2. CommitJob(w, new) /\ ~WriteRisk(w)
    BY <1>5 DEF StartWrite, WriteRisk
  <2>3. QED
    BY <1>4, <2>1, <2>2
<1>6. CASE Interpolate(w)
  <2> DEFINE new == [snap[w] EXCEPT !.progress = 80]
  <2>1. new \in JobRow /\ new.risk = snap[w].risk /\ new.status = snap[w].status
    BY DEF JobRow, ProgressValues
  <2>2. CommitJob(w, new) /\ ~WriteRisk(w)
    BY <1>6 DEF Interpolate, WriteRisk
  <2>3. QED
    BY <1>4, <2>1, <2>2
<1>7. CASE WriteRisk(w)
  <2> DEFINE new == [snap[w] EXCEPT !.risk = TRUE]
  <2>1. new \in JobRow /\ new.risk /\ new.status = snap[w].status
    BY DEF JobRow
  <2>2. CommitJob(w, new)
    BY <1>7 DEF WriteRisk
  <2>3. QED
    BY <1>4, <2>1, <2>2
<1>8. CASE SetProgress(w)
  <2> DEFINE new == [snap[w] EXCEPT !.progress = Stage[msg[w].task].progress]
  <2>0. Stage[msg[w].task].progress \in ProgressValues
    BY <1>8, StageProgress, EnabledAssumption DEF SetProgress, HandlerMatchesTask, StagePcs
  <2>1. new \in JobRow /\ new.risk = snap[w].risk /\ new.status = snap[w].status
    BY <2>0 DEF JobRow
  <2>2. CommitJob(w, new) /\ ~WriteRisk(w)
    BY <1>8 DEF SetProgress, WriteRisk
  <2>3. QED
    BY <1>4, <2>1, <2>2
<1>9. CASE FinalizeWrite(w)
  <2> DEFINE new == [snap[w] EXCEPT !.status = verdict[w], !.progress = 100]
  <2>1. new \in JobRow /\ new.risk = snap[w].risk /\ new.status = verdict[w]
    BY DEF JobRow, ProgressValues
  <2>2. Flush(snap[w], new) /\ Close(w) /\ ~WriteRisk(w)
    BY <1>9 DEF FinalizeWrite, WriteRisk
  <2> HIDE DEF new
  <2>3. \A v \in Workers : snap'[v].risk => snap[v].risk
    BY <2>2 DEF Close, NoJob
  <2>4. QED
    BY <1>1, <1>9, <2>1, <2>2, <2>3
<1>10. QED
  BY <1>2, <1>3, <1>5, <1>6, <1>7, <1>8, <1>9 DEF WorkerStep

\* Which stage rows a step may write.
LEMMA StageRowMoves ==
  ASSUME Typed, NEW w \in Workers, WorkerStep(w), NEW s \in AllStages, rows'[s] # rows[s]
  PROVE  /\ s = msg[w].task /\ s \in Enabled /\ UNCHANGED <<queue, msg>>
         /\ \/ Begin(w) /\ rows'[s] = "running"
            \/ Complete(w) /\ rows'[s] \in {"ok", "partial", "failed"}
            \/ Fail(w) /\ rows'[s] = "failed"
            \/ Skip(w) /\ rows'[s] = "skipped"
<1> USE DEF Typed, TypeOK
<1>1. Begin(w) \/ Complete(w) \/ Fail(w) \/ Skip(w)
  BY DEF WorkerStep, StartRead, StartWrite, DispatchChain, StageRead, Interpolate, WriteRisk,
         SetProgress, PublishNext, FinalizeRead, FinalizeWrite, Ack, dbVars
<1>2. msg[w].task \in Enabled /\ UNCHANGED <<queue, msg>>
  BY <1>1 DEF Begin, Complete, Fail, Skip, HandlerMatchesTask, StagePcs
<1>3. QED
  BY <1>1, <1>2, EnvelopeStatusType DEF Begin, Complete, Fail, Skip

-----------------------------------------------------------------------------
(* A task in hand stays in hand until its row is written. *)

LEMMA HeldByWorker ==
  ASSUME Typed, Recorded, NotCancelled, NEW t \in Enabled, NEW L,
         {"begin", "work"} \subseteq L, L \subseteq {"begin", "work", "risk"},
         Held(t, L), NEW w \in Workers, WorkerStep(w)
  PROVE  \/ Held(t, L)'
         \/ /\ pc[w] \in L /\ msg[w].task = t /\ pc'[w] \notin L
            /\ Complete(w) \/ Fail(w) \/ Skip(w) \/ WriteRisk(w)
<1> USE DEF Typed, TypeOK
<1>0. t \in AllStages /\ t \notin {"analyze", "finalize"}
  BY EnabledAssumption DEF AllStages
<1>1. ASSUME NEW m \in Message, Receive(w, m), m.task # t, NEW label,
             pc' = [pc EXCEPT ![w] = label]
      PROVE  Held(t, L)'
  <2>1. CASE Queued(t)
    BY <1>1, <2>1, ReceiveHolds DEF Queued, Held
  <2>2. CASE At(t, L)
    BY <1>1, <2>2, ReceiveHolds DEF At, Held
  <2>3. QED
    BY <2>1, <2>2 DEF Held
<1>2. CASE StartRead(w) \/ FinalizeRead(w)
  BY <1>0, <1>1, <1>2 DEF StartRead, FinalizeRead, Goto
<1>3. CASE StageRead(w)
  <2> PICK m \in Message : m.task \in Enabled /\ Receive(w, m)
    BY <1>3 DEF StageRead
  <2>1. job.status \notin {"cancelled", "none"}
    BY ReceiveHolds DEF Recorded, NotCancelled
  <2>2. pc' = [pc EXCEPT ![w] = "begin"]
    BY <1>3, <2>1 DEF StageRead, Goto
  <2>3. CASE m.task = t
    BY <2>2, <2>3, ReceiveHolds DEF Held, At
  <2>4. QED
    BY <1>1, <2>2, <2>3
<1>4. ASSUME UNCHANGED <<queue, msg>>, NEW label, label \in L \/ pc[w] \notin L,
             pc' = [pc EXCEPT ![w] = label] \/ UNCHANGED pc
      PROVE  Held(t, L)'
  BY <1>4 DEF Held, Queued, At
<1>5. ASSUME NEW m \in Message, Send(m), UNCHANGED msg, pc[w] \notin L, NEW label,
             pc' = [pc EXCEPT ![w] = label]
      PROVE  Held(t, L)'
  <2>1. CASE Queued(t)
    BY <1>5, <2>1, SendHolds DEF Queued, Held
  <2>2. CASE At(t, L)
    BY <1>5, <2>2 DEF At, Held
  <2>3. QED
    BY <2>1, <2>2 DEF Held
<1>6. CASE DispatchChain(w) \/ PublishNext(w)
  <2>1. PICK u \in Tasks : Send(Fresh(u))
    BY <1>6 DEF DispatchChain, PublishNext, Follows
  <2>2. Fresh(u) \in Message
    BY FreshType
  <2>3. UNCHANGED msg /\ pc[w] \notin L /\ pc' = [pc EXCEPT ![w] = "ack"]
    BY <1>6 DEF DispatchChain, PublishNext, Goto
  <2>4. QED
    BY <1>5, <2>1, <2>2, <2>3
<1>7. CASE StartWrite(w) \/ SetProgress(w) \/ FinalizeWrite(w) \/ Interpolate(w) \/ Begin(w)
  <2>1. UNCHANGED <<queue, msg>>
    BY <1>7 DEF StartWrite, SetProgress, FinalizeWrite, Interpolate, Begin
  <2>2. \E label : /\ label \in L \/ pc[w] \notin L
                   /\ pc' = [pc EXCEPT ![w] = label] \/ UNCHANGED pc
    BY <1>7 DEF StartWrite, SetProgress, FinalizeWrite, Interpolate, Begin, Goto
  <2>3. QED
    BY <1>4, <2>1, <2>2
<1>8. CASE Complete(w) \/ Fail(w) \/ Skip(w) \/ WriteRisk(w)
  <2>1. /\ UNCHANGED <<queue, msg>>
        /\ \E label : pc' = [pc EXCEPT ![w] = label]
    BY <1>8 DEF Complete, Fail, Skip, WriteRisk, Goto
  <2>2. PICK label : pc' = [pc EXCEPT ![w] = label]
    BY <2>1
  <2>3. CASE pc[w] \in L /\ msg[w].task = t /\ label \notin L
    BY <1>8, <2>2, <2>3
  <2>4. CASE ~(pc[w] \in L /\ msg[w].task = t /\ label \notin L)
    BY <2>1, <2>2, <2>4 DEF Held, Queued, At
  <2>5. QED
    BY <2>3, <2>4
<1>9. CASE Ack(w)
  BY <1>9 DEF Ack, Rest, Goto, Held, Queued, At
<1>10. QED
  BY <1>2, <1>3, <1>6, <1>7, <1>8, <1>9 DEF WorkerStep

LEMMA HeldByOthers ==
  ASSUME Typed, NEW t \in Enabled, NEW L,
         L \subseteq {"begin", "work", "risk"}, Held(t, L),
         UNCHANGED vars \/ ApiStep \/ \E w \in Workers : Crash(w)
  PROVE  Held(t, L)'
<1> USE DEF Typed, TypeOK
<1>1. CASE UNCHANGED <<queue, pc, msg>>
  BY <1>1 DEF Held, Queued, At
<1>2. CASE DispatchAnalysis
  <2>1. Send(Fresh("analyze")) /\ UNCHANGED <<pc, msg>> /\ Fresh("analyze") \in Message
    BY <1>2, FreshType, AnalyzeIsTask DEF DispatchAnalysis, workerVars
  <2>2. QED
    BY <2>1, SendHolds DEF Held, Queued, At
<1>3. ASSUME NEW w \in Workers, Crash(w) PROVE Held(t, L)'
  <2>1. /\ Send(msg[w]) /\ msg[w] \in Message
        /\ \A v \in Workers : v # w => pc'[v] = pc[v] /\ msg'[v] = msg[v]
    BY <1>3 DEF Crash, Rest, Goto
  <2>2. CASE Queued(t) \/ msg[w].task = t
    BY <2>1, <2>2, SendHolds DEF Queued, Held
  <2>3. CASE At(t, L) /\ msg[w].task # t
    BY <2>1, <2>3 DEF At, Held
  <2>4. QED
    BY <2>2, <2>3 DEF Held
<1>4. QED
  BY <1>1, <1>2, <1>3
     DEF ApiStep, Upload, CancelRead, CancelWrite, vars, workerVars

\* The two together, and what the step that lets go of t writes.
LEMMA HeldStep ==
  ASSUME Typed, Recorded, NotCancelled, NEW t \in Enabled, NEW L,
         {"begin", "work"} \subseteq L, L \subseteq {"begin", "work", "risk"}, Held(t, L),
         UNCHANGED vars \/ ApiStep \/ \E w \in Workers : WorkerStep(w) \/ Crash(w)
  PROVE  \/ Held(t, L)'
         \/ \E w \in Workers :
              /\ pc[w] \in L /\ msg[w].task = t /\ pc'[w] \notin L
              /\ WorkerStep(w)
              /\ Complete(w) \/ Fail(w) \/ Skip(w) \/ WriteRisk(w)
BY HeldByWorker, HeldByOthers

-----------------------------------------------------------------------------
(* The invariants, step by step. *)

\* A step of an unbroken, uncancelled history.
Runs == UNCHANGED vars \/ ApiStep \/ \E w \in Workers : WorkerStep(w) \/ Crash(w)

LEMMA OthersKeepRows ==
  ASSUME UNCHANGED vars \/ ApiStep \/ \E w \in Workers : Crash(w)
  PROVE  UNCHANGED rows
BY DEF ApiStep, Upload, DispatchAnalysis, CancelRead, CancelWrite, Crash, vars, dbVars

LEMMA RowsStay ==
  ASSUME Typed, Runs, NEW s \in AllStages, rows[s] # "none"
  PROVE  rows'[s] # "none"
<1>1. ASSUME NEW w \in Workers, WorkerStep(w), rows'[s] # rows[s] PROVE rows'[s] # "none"
  BY <1>1, StageRowMoves
<1>2. QED
  BY <1>1, OthersKeepRows DEF Runs

LEMMA NotCancelledStep ==
  ASSUME Typed, NotCancelled, Runs, ~Spend("cancel")
  PROVE  NotCancelled'
<1> USE DEF Typed, TypeOK, NotCancelled
<1>1. CASE UNCHANGED vars \/ ApiStep
  BY <1>1 DEF ApiStep, Upload, DispatchAnalysis, CancelRead, CancelWrite, vars, dbVars,
              workerVars
<1>2. ASSUME NEW w \in Workers, Crash(w) PROVE NotCancelled'
  BY <1>2 DEF Crash, Rest, Close, dbVars
<1>3. ASSUME NEW w \in Workers, WorkerStep(w) PROVE NotCancelled'
  <2>1. job'.status # "cancelled"
    BY <1>3, RowMoves
  <2>2. UNCHANGED cancel
    BY <1>3 DEF WorkerStep, StartRead, StartWrite, DispatchChain, StageRead, Begin, Interpolate,
                Complete, Fail, Skip, WriteRisk, SetProgress, PublishNext, FinalizeRead,
                FinalizeWrite, Ack
  <2>3. CASE FinalizeRead(w)
    BY <2>1, <2>2, <2>3, DeriveType DEF FinalizeRead, Ended
  <2>4. CASE UNCHANGED verdict \/ Close(w)
    BY <2>1, <2>2, <2>4 DEF Close
  <2>5. QED
    BY <1>3, <2>3, <2>4
       DEF WorkerStep, StartRead, StartWrite, DispatchChain, StageRead, Begin, Interpolate,
           Complete, Fail, Skip, WriteRisk, SetProgress, PublishNext, FinalizeWrite, Ack, Rest
<1>4. QED
  BY <1>1, <1>2, <1>3 DEF Runs

LEMMA ClaimedStep ==
  ASSUME Typed, Recorded, NotCancelled, Claimed, Runs
  PROVE  Claimed'
<1> USE DEF Typed, TypeOK
<1> SUFFICES ASSUME NEW s \in Enabled, rows'[s] = "running"
             PROVE  Held(s, {"begin", "work"})'
  BY DEF Claimed
<1>0. s \in AllStages
  BY EnabledAssumption
<1>1. CASE rows[s] = "running"
  <2>1. Held(s, {"begin", "work"})
    BY <1>1 DEF Claimed
  <2>2. ASSUME NEW w \in Workers, pc[w] \in {"begin", "work"}, msg[w].task = s,
               Complete(w) \/ Fail(w) \/ Skip(w) \/ WriteRisk(w)
        PROVE  FALSE
    BY <1>0, <1>1, <2>2, EnvelopeStatusType DEF Complete, Fail, Skip, WriteRisk
  <2>3. QED
    BY <2>1, <2>2, HeldStep DEF Runs
<1>2. CASE rows[s] # "running"
  <2>1. PICK w \in Workers : WorkerStep(w)
    BY <1>2, OthersKeepRows DEF Runs
  <2>2. Begin(w) /\ s = msg[w].task /\ UNCHANGED msg
    BY <1>0, <1>2, <2>1, StageRowMoves
  <2>3. pc'[w] = "work"
    BY <2>2 DEF Begin, Goto
  <2>4. QED
    BY <2>2, <2>3 DEF Held, At
<1>3. QED
  BY <1>1, <1>2

LEMMA RiskKeptStep ==
  ASSUME Typed, Recorded, RiskKept, Runs
  PROVE  RiskKept' /\ (job.risk => job'.risk)
<1> USE DEF Typed, TypeOK, RiskKept
<1>1. CASE UNCHANGED vars \/ ApiStep
  BY <1>1 DEF ApiStep, Upload, DispatchAnalysis, CancelRead, CancelWrite, vars, dbVars,
              workerVars, JobRow
<1>2. ASSUME NEW w \in Workers, Crash(w) PROVE RiskKept' /\ (job.risk => job'.risk)
  BY <1>2 DEF Crash, Rest, Close, NoJob, dbVars
<1>3. ASSUME NEW w \in Workers, WorkerStep(w), upload # "start"
      PROVE  RiskKept' /\ (job.risk => job'.risk)
  <2>1. UNCHANGED upload
    BY <1>3 DEF WorkerStep, StartRead, StartWrite, DispatchChain, StageRead, Begin, Interpolate,
                Complete, Fail, Skip, WriteRisk, SetProgress, PublishNext, FinalizeRead,
                FinalizeWrite, Ack
  <2>2. QED
    BY <1>3, <2>1, RowMoves
<1>4. ASSUME NEW w \in Workers, WorkerStep(w) PROVE upload # "start"
  BY <1>4 DEF Recorded, WorkerStep, StartRead, StartWrite, DispatchChain, StageRead, Begin,
              Interpolate, Complete, Fail, Skip, WriteRisk, SetProgress, PublishNext,
              FinalizeRead, FinalizeWrite, Ack, Receive
<1>5. QED
  BY <1>1, <1>2, <1>3, <1>4 DEF Runs

LEMMA BehindStays ==
  ASSUME Typed, Runs, NEW t \in Tasks, Behind(t, rows)
  PROVE  Behind(t, rows')
BY RowsStay, EnabledAssumption DEF Behind

LEMMA AnalyzeIsFirst == Behind("analyze", rows) /\ Behind("analyze", rows')
BY EnabledAssumption DEF Behind, Pos, AllStages

\* What a task leaves done, its successor finds done.
LEMMA BehindNext ==
  ASSUME NEW t \in Tasks, NEW u \in Tasks, Follows(t, u), Behind(t, rows),
         t \in Enabled => rows[t] # "none"
  PROVE  Behind(u, rows)
<1> SUFFICES ASSUME NEW s \in Enabled, Pos[s] < Pos[u] PROVE rows[s] # "none"
  BY DEF Behind
<1>1. s \in Tasks /\ s \in AllStages /\ t \in AllStages \cup {"analyze", "finalize"}
  BY EnabledAssumption DEF Tasks
<1>2. Pos[s] \in Nat /\ Pos[t] \in Nat /\ ~(Pos[t] < Pos[s])
  BY <1>1 DEF Follows, Pos, AllStages
<1>3. Pos[s] = Pos[t] => s = t
  BY <1>1 DEF Pos, AllStages
<1>4. QED
  BY <1>2, <1>3 DEF Behind

\* The queue: a message is an old one, or the step sent it over rows that are there.
LEMMA QueueCovered ==
  ASSUME Typed, Placed, Covered, Runs, NEW m \in Message, queue'[m] > 0
  PROVE  Behind(m.task, rows')
<1> USE DEF Typed, TypeOK
<1>0. m.task \in Tasks
  BY DEF Message
<1>1. queue[m] > 0 => Behind(m.task, rows')
  BY <1>0, BehindStays DEF Covered
<1>2. CASE DispatchAnalysis
  <2>1. Send(Fresh("analyze")) /\ Fresh("analyze") \in Message
    BY <1>2, FreshType, AnalyzeIsTask DEF DispatchAnalysis
  <2>2. queue[m] > 0 \/ m.task = "analyze"
    BY <2>1, SendHolds DEF Fresh
  <2>3. QED
    BY <1>1, <2>2, AnalyzeIsFirst
<1>3. ASSUME NEW w \in Workers, Crash(w) PROVE Behind(m.task, rows')
  <2>1. Send(msg[w]) /\ msg[w] \in Message /\ Behind(msg[w].task, rows)
    BY <1>3 DEF Crash, Covered
  <2>2. queue[m] > 0 \/ m = msg[w]
    BY <2>1, SendHolds
  <2>3. QED
    BY <1>0, <1>1, <2>1, <2>2, BehindStays
<1>4. ASSUME NEW w \in Workers, DispatchChain(w) \/ PublishNext(w) PROVE Behind(m.task, rows')
  <2> DEFINE t == msg[w].task
  <2>1. /\ t \in Tasks /\ Behind(t, rows)
        /\ t \in Enabled => rows[t] # "none"
    BY <1>4, EnabledAssumption
       DEF DispatchChain, PublishNext, Covered, Placed, Message, AllStages
  <2>2. PICK u \in Tasks : Follows(t, u) /\ Send(Fresh(u))
    <3>1. DispatchChain(w) => t = "analyze"
      BY DEF DispatchChain, Placed
    <3>2. QED
      BY <1>4, <3>1 DEF DispatchChain, PublishNext, Follows
  <2>3. Behind(u, rows)
    BY <2>1, <2>2, BehindNext
  <2>4. queue[m] > 0 \/ m.task = u
    BY <2>2, FreshType, SendHolds DEF Fresh
  <2>5. QED
    BY <1>0, <1>1, <2>3, <2>4, BehindStays
<1>5. ASSUME NEW w \in Workers, NEW n \in Message, Receive(w, n) PROVE Behind(m.task, rows')
  BY <1>1, <1>5, ReceiveHolds
<1>6. CASE UNCHANGED queue
  BY <1>1, <1>6
<1>7. QED
  BY <1>2, <1>3, <1>4, <1>5, <1>6
     DEF Runs, ApiStep, Upload, CancelRead, CancelWrite, vars, WorkerStep, StartRead,
         StartWrite, StageRead, Begin, Interpolate, Complete, Fail, Skip, WriteRisk,
         SetProgress, FinalizeRead, FinalizeWrite, Ack

\* The workers.
LEMMA WorkersCovered ==
  ASSUME Typed, Recorded, Placed, NotCancelled, Covered, Runs,
         NEW v \in Workers, pc'[v] # "idle"
  PROVE  /\ Behind(msg'[v].task, rows')
         /\ pc'[v] \in {"work", "risk", "progress", "publish", "ack"} =>
              (msg'[v].task \in Enabled => rows'[msg'[v].task] # "none")
<1> USE DEF Typed, TypeOK
<1>0. \A n \in Message : n.task \in Tasks
  BY DEF Message
<1>1. ASSUME pc[v] # "idle", msg'[v] = msg[v],
             pc'[v] \in {"work", "risk", "progress", "publish", "ack"} =>
               \/ pc[v] \in {"work", "risk", "progress", "publish", "ack"}
               \/ msg[v].task \in Enabled => rows'[msg[v].task] # "none"
      PROVE  /\ Behind(msg'[v].task, rows')
             /\ pc'[v] \in {"work", "risk", "progress", "publish", "ack"} =>
                  (msg'[v].task \in Enabled => rows'[msg'[v].task] # "none")
  <2>1. msg[v].task \in Tasks /\ Behind(msg[v].task, rows)
    BY <1>0, <1>1 DEF Covered
  <2>2. msg[v].task \in Enabled /\ rows[msg[v].task] # "none" => rows'[msg[v].task] # "none"
    BY RowsStay, EnabledAssumption
  <2>3. Behind(msg[v].task, rows')
    BY <2>1, BehindStays
  <2>4. QED
    BY <1>1, <2>2, <2>3 DEF Covered
<1>2. CASE UNCHANGED <<pc, msg>>
  BY <1>1, <1>2
<1>3. ASSUME NEW w \in Workers, Crash(w) \/ Ack(w) PROVE w # v /\ pc'[v] = pc[v] /\ msg'[v] = msg[v]
  BY <1>3 DEF Crash, Ack, Rest, Goto
<1>4. ASSUME NEW w \in Workers, NEW n \in Message, Receive(w, n), NEW label,
             pc' = [pc EXCEPT ![w] = label],
             label = "begin" \/ n.task \notin Enabled
      PROVE  /\ Behind(msg'[v].task, rows')
             /\ pc'[v] \in {"work", "risk", "progress", "publish", "ack"} =>
                  (msg'[v].task \in Enabled => rows'[msg'[v].task] # "none")
  <2>1. CASE v = w
    <3>1. msg'[v] = n /\ queue[n] > 0 /\ n.task \in Tasks /\ pc'[v] = label
      BY <1>0, <1>4, <2>1, ReceiveHolds
    <3>2. Behind(n.task, rows')
      BY <3>1, BehindStays DEF Covered
    <3>3. QED
      BY <1>4, <3>1, <3>2
  <2>2. CASE v # w
    BY <1>1, <1>4, <2>2, ReceiveHolds
  <2>3. QED
    BY <2>1, <2>2
<1>5. ASSUME NEW w \in Workers, StartRead(w) \/ FinalizeRead(w)
      PROVE  \E n \in Message : \E label :
               /\ Receive(w, n) /\ pc' = [pc EXCEPT ![w] = label] /\ n.task \notin Enabled
  BY <1>5, EnabledAssumption DEF StartRead, FinalizeRead, Goto, AllStages
<1>6. ASSUME NEW w \in Workers, StageRead(w)
      PROVE  \E n \in Message : Receive(w, n) /\ pc' = [pc EXCEPT ![w] = "begin"]
  <2>1. PICK n \in Message : Receive(w, n)
    BY <1>6 DEF StageRead
  <2>2. job.status \notin {"cancelled", "none"}
    BY <2>1, ReceiveHolds DEF Recorded, NotCancelled
  <2>3. QED
    BY <1>6, <2>1, <2>2 DEF StageRead, Goto
<1>7. ASSUME NEW w \in Workers, Begin(w)
      PROVE  /\ pc[w] # "idle" /\ UNCHANGED msg /\ rows'[msg[w].task] # "none"
             /\ \A u \in Workers : u # w => pc'[u] = pc[u]
  BY <1>7, EnabledAssumption DEF Begin, Goto, HandlerMatchesTask, StagePcs
<1>8. ASSUME NEW w \in Workers,
             Complete(w) \/ Fail(w) \/ Skip(w) \/ WriteRisk(w) \/ SetProgress(w) \/ PublishNext(w)
      PROVE  /\ pc[w] \in {"work", "risk", "progress", "publish", "ack"} /\ UNCHANGED msg
             /\ \A u \in Workers : u # w => pc'[u] = pc[u]
  BY <1>8 DEF Complete, Fail, Skip, WriteRisk, SetProgress, PublishNext, Goto
<1>9. ASSUME NEW w \in Workers, StartWrite(w) \/ DispatchChain(w) \/ FinalizeWrite(w)
      PROVE  /\ pc[w] # "idle" /\ msg[w].task \notin Enabled /\ UNCHANGED msg
             /\ \A u \in Workers : u # w => pc'[u] = pc[u]
  BY <1>9, EnabledAssumption
     DEF StartWrite, DispatchChain, FinalizeWrite, Goto, Placed, AllStages
<1>10. ASSUME NEW w \in Workers, WorkerStep(w)
       PROVE  /\ Behind(msg'[v].task, rows')
              /\ pc'[v] \in {"work", "risk", "progress", "publish", "ack"} =>
                   (msg'[v].task \in Enabled => rows'[msg'[v].task] # "none")
  <2>1. CASE StartRead(w) \/ FinalizeRead(w)
    BY <1>4, <1>5, <2>1
  <2>2. CASE StageRead(w)
    BY <1>4, <1>6, <2>2
  <2>3. CASE Ack(w)
    BY <1>1, <1>3, <2>3
  <2>4. CASE Interpolate(w)
    BY <1>2, <2>4 DEF Interpolate
  <2>5. CASE Begin(w)
    BY <1>1, <1>7, <2>5
  <2>6. CASE Complete(w) \/ Fail(w) \/ Skip(w) \/ WriteRisk(w) \/ SetProgress(w) \/ PublishNext(w)
    BY <1>1, <1>8, <2>6
  <2>7. CASE StartWrite(w) \/ DispatchChain(w) \/ FinalizeWrite(w)
    BY <1>1, <1>9, <2>7
  <2>8. QED
    BY <1>10, <2>1, <2>2, <2>3, <2>4, <2>5, <2>6, <2>7 DEF WorkerStep
<1>11. QED
  BY <1>1, <1>2, <1>3, <1>10
     DEF Runs, ApiStep, Upload, DispatchAnalysis, CancelRead, CancelWrite, vars, workerVars

LEMMA EndCovered ==
  ASSUME Typed, Placed, Covered, Runs, job'.status \in Ended, NEW s \in Enabled
  PROVE  rows'[s] # "none"
<1> USE DEF Typed, TypeOK
<1>0. s \in AllStages /\ Pos[s] < Pos["finalize"]
  BY EnabledAssumption DEF AllStages, Pos
<1>1. CASE job.status \in Ended
  BY <1>0, <1>1, RowsStay DEF Covered
<1>2. CASE job.status \notin Ended
  <2>1. PICK w \in Workers : WorkerStep(w)
    BY <1>2 DEF Runs, ApiStep, Upload, DispatchAnalysis, CancelRead, CancelWrite, Crash, vars,
                dbVars, Ended, JobRow
  <2>2. FinalizeWrite(w)
    BY <1>2, <2>1, RowMoves DEF Ended
  <2>3. msg[w].task = "finalize" /\ Behind(msg[w].task, rows)
    BY <2>2 DEF FinalizeWrite, Placed, Covered
  <2>4. QED
    BY <1>0, <2>3, RowsStay DEF Behind
<1>3. QED
  BY <1>1, <1>2

LEMMA CoveredStep ==
  ASSUME Typed, Recorded, Placed, NotCancelled, Covered, Runs
  PROVE  Covered'
BY QueueCovered, WorkersCovered, EndCovered DEF Covered

\* While no worker is lost, the one that scored goes on to write the risk.
LEMMA RiskFollowsStep ==
  ASSUME Typed, Recorded, Placed, RiskKept, RiskFollows, Runs, ~ \E w \in Workers : Crash(w)
  PROVE  RiskFollows'
<1> USE DEF Typed, TypeOK
<1> SUFFICES ASSUME rows'["scoring"] = "ok", ~job'.risk
             PROVE  At("scoring", {"risk"})'
  BY DEF RiskFollows
<1>0. ~job.risk /\ "scoring" \in AllStages
  BY RiskKeptStep DEF AllStages
<1>1. CASE UNCHANGED vars \/ ApiStep
  BY <1>0, <1>1
     DEF ApiStep, Upload, DispatchAnalysis, CancelRead, CancelWrite, vars, dbVars, workerVars,
         RiskFollows, At
<1>2. ASSUME NEW w \in Workers, Complete(w), msg[w].task = "scoring"
      PROVE  At("scoring", {"risk"})'
  BY <1>2 DEF Complete, Goto, AfterComplete, At
<1>3. ASSUME NEW w \in Workers, WorkerStep(w), rows["scoring"] = "ok"
      PROVE  At("scoring", {"risk"})'
  <2>1. PICK v \in Workers : pc[v] = "risk" /\ msg[v].task = "scoring"
    BY <1>0, <1>3 DEF RiskFollows, At
  <2>2. ~WriteRisk(w)
    BY <1>0, <1>3, RowMoves DEF RiskKept
  <2>3. pc'[v] = "risk" /\ msg'[v] = msg[v]
    BY <1>3, <2>1, <2>2
       DEF WorkerStep, StartRead, StartWrite, DispatchChain, StageRead, Begin, Interpolate,
           Complete, Fail, Skip, SetProgress, PublishNext, FinalizeRead, FinalizeWrite, Ack,
           Rest, Goto, Receive
  <2>4. QED
    BY <2>1, <2>3 DEF At
<1>4. ASSUME NEW w \in Workers, WorkerStep(w), rows["scoring"] # "ok"
      PROVE  At("scoring", {"risk"})'
  BY <1>0, <1>2, <1>4, StageRowMoves
<1>5. QED
  BY <1>1, <1>3, <1>4 DEF Runs

\* While nobody cancels, a lost worker's scoring is run again.
LEMMA RiskInHandStep ==
  ASSUME Typed, Recorded, Placed, NotCancelled, RiskKept, RiskInHand, Runs
  PROVE  RiskInHand'
<1> USE DEF Typed, TypeOK
<1> DEFINE L == {"begin", "work", "risk"}
<1> SUFFICES ASSUME rows'["scoring"] = "ok", ~job'.risk
             PROVE  Held("scoring", L)'
  BY DEF RiskInHand
<1>0. ~job.risk /\ "scoring" \in AllStages
  BY RiskKeptStep DEF AllStages
<1>1. CASE rows["scoring"] # "ok"
  <2>1. PICK w \in Workers : WorkerStep(w)
    BY <1>1, OthersKeepRows DEF Runs
  <2>2. Complete(w) /\ msg[w].task = "scoring" /\ UNCHANGED msg
    BY <1>0, <1>1, <2>1, StageRowMoves
  <2>3. pc'[w] = "risk"
    BY <2>2 DEF Complete, Goto, AfterComplete
  <2>4. QED
    BY <2>2, <2>3 DEF Held, At
<1>2. CASE rows["scoring"] = "ok"
  <2>1. Held("scoring", L)
    BY <1>0, <1>2 DEF RiskInHand
  <2>2. "scoring" \in Enabled
    BY <2>1 DEF Held, Queued, At, Message, Tasks
  <2>3. ASSUME NEW w \in Workers, pc[w] \in L, msg[w].task = "scoring", pc'[w] \notin L,
               WorkerStep(w), Complete(w) \/ Fail(w) \/ Skip(w) \/ WriteRisk(w)
        PROVE  FALSE
    <3>1. CASE Complete(w)
      BY <2>3, <3>1 DEF Complete, Goto, AfterComplete
    <3>2. CASE Fail(w) \/ Skip(w)
      BY <1>0, <2>3, <3>2 DEF Fail, Skip
    <3>3. CASE WriteRisk(w)
      BY <1>0, <2>3, <3>3, RowMoves DEF RiskKept
    <3>4. QED
      BY <2>3, <3>1, <3>2, <3>3
  <2> HIDE DEF L
  <2>4. {"begin", "work"} \subseteq L /\ L \subseteq {"begin", "work", "risk"}
    BY DEF L
  <2>5. QED
    BY <2>1, <2>2, <2>3, <2>4, HeldStep DEF Runs
<1>3. QED
  BY <1>1, <1>2

-----------------------------------------------------------------------------
(* The theorems. *)

\* What holds under each combination of faults.
SettleInv ==
  /\ Unbroken => RiskKept
  /\ Unbroken /\ NoneYet({"crash"}) => RiskFollows
  /\ Unbroken /\ NoneYet({"cancel"}) => NotCancelled /\ Claimed /\ Covered /\ RiskInHand

LEMMA SettleInit == Init => SettleInv
BY EnabledAssumption
   DEF Init, SettleInv, RiskKept, RiskFollows, NotCancelled, Claimed, Covered, RiskInHand, NoJob,
       Ended, AllStages

LEMMA SettleStep ==
  ASSUME Background, SettleInv, [Next]_vars
  PROVE  SettleInv'
<1> SUFFICES ASSUME Unbroken' PROVE SettleInv'
  BY DEF SettleInv
<1>1. Unbroken /\ Runs /\ Typed /\ Recorded /\ Placed
  BY UnbrokenStep DEF Runs, Background
<1>2. RiskKept /\ RiskKept'
  BY <1>1, RiskKeptStep DEF SettleInv
<1>3. NoneYet({"crash"})' => RiskFollows'
  BY <1>1, <1>2, RiskFollowsStep, CalmStep DEF SettleInv, Calm, Background
<1>4. ASSUME NoneYet({"cancel"})'
      PROVE  NotCancelled' /\ Claimed' /\ Covered' /\ RiskInHand'
  <2>1. NoneYet({"cancel"}) /\ ~Spend("cancel")
    BY <1>4, NoneYetStep DEF Background, Faults
  <2>2. NotCancelled /\ Claimed /\ Covered /\ RiskInHand
    BY <1>1, <2>1 DEF SettleInv
  <2>3. QED
    BY <1>1, <1>2, <2>1, <2>2, NotCancelledStep, ClaimedStep, CoveredStep, RiskInHandStep
<1>5. QED
  BY <1>2, <1>3, <1>4 DEF SettleInv

LEMMA SettleHolds == Spec => [](Background /\ SettleInv)
<1>1. Init => Background /\ SettleInv
  BY BackgroundInit, SettleInit
<1>2. Background /\ SettleInv /\ [Next]_vars => Background' /\ SettleInv'
  BY BackgroundStep, SettleStep
<1>3. QED
  BY <1>1, <1>2, PTL DEF Spec

\* However often tasks are redelivered and run side by side, when they are all done and
\* the job has ended every enabled stage has a row and none is still claimed: the chain
\* reaches a task only over the rows of the stages before it, and a claim is held by a
\* task that is at work or will be run again.
THEOREM StagesSettle == Spec => []EveryStageSettled
<1>1. Background /\ SettleInv => EveryStageSettled
  <2> SUFFICES ASSUME Background, SettleInv, Quiescent, job.status \in Ended,
                      NoneYet({"error", "loss", "cancel"}), NEW s \in Enabled
               PROVE  rows[s] \notin {"none", "running"}
    BY DEF EveryStageSettled
  <2>1. Claimed /\ Covered
    BY DEF SettleInv, Unbroken, NoneYet
  <2>2. ~Held(s, {"begin", "work"})
    BY DEF Quiescent, Held, Queued, At
  <2>3. QED
    BY <2>1, <2>2 DEF Claimed, Covered
<1>2. QED
  BY <1>1, SettleHolds, PTL

\* A scored job has its risk once its tasks are done, although the score and the risk
\* are two commits: the task between them goes on, or runs again from the start.
THEOREM RiskIsWritten == Spec => []ScoredJobHasRisk
<1>1. Background /\ SettleInv => ScoredJobHasRisk
  <2> SUFFICES ASSUME Background, SettleInv, Quiescent, NoneYet({"error", "loss"}),
                      NoneYet({"crash"}) \/ NoneYet({"cancel"}), rows["scoring"] = "ok"
               PROVE  job.risk
    BY DEF ScoredJobHasRisk
  <2>1. QED
    BY DEF Quiescent, At, Queued, Held, SettleInv, Unbroken, RiskFollows, RiskInHand
<1>2. QED
  BY <1>1, SettleHolds, PTL

-----------------------------------------------------------------------------
(***************************************************************************)
(* Until a worker is lost the chain is one task at a time, and what ends   *)
(* the job is the last of them.                                            *)
(***************************************************************************)

Empty == \A m \in Message : queue[m] = 0

-----------------------------------------------------------------------------
(* The inductive invariant, part by part. *)

\* One token: a message or a busy worker.
OneToken ==
  /\ \A v, w \in Busy : v = w
  /\ \A m, n \in Message : queue[m] > 0 /\ queue[n] > 0 => m = n /\ queue[m] = 1
  /\ Busy # {} => Empty

\* The job's progress is what the token's task can account for.
ProgressBelow ==
  /\ \A m \in Message : queue[m] > 0 => job.progress <= Ceiling[m.task]
  /\ \A w \in Busy : job.progress <= Ceiling[msg[w].task]
  /\ upload # "done" => job.progress = 0

\* The busy worker's copy of the row has the row's progress, and its verdict is the
\* one the rows add up to.
CopyIsCurrent ==
  \A w \in Busy :
    /\ snap[w].progress = job.progress
    /\ pc[w] = "finalize" => /\ verdict[w] = DeriveJobStatus(rows)
                             /\ snap[w].status \notin Ended

\* An ended job has no token left, and says what its rows say.
EndedIsQuiet ==
  job.status \in Ended =>
    /\ Busy = {} /\ Empty /\ upload = "done"
    /\ job.status = DeriveJobStatus(rows) /\ job.progress = 100

ChainInv == OneToken /\ ProgressBelow /\ CopyIsCurrent /\ EndedIsQuiet

-----------------------------------------------------------------------------
(* The token, by the kinds of steps that move it. *)

\* A busy worker moves on, or lets its task go without a successor.
LEMMA TokenStays ==
  ASSUME Typed, OneToken, NEW w \in Busy, NEW label,
         pc' = [pc EXCEPT ![w] = label], queue' = queue
  PROVE  OneToken' /\ Busy' \subseteq Busy
BY DEF Typed, TypeOK, OneToken, Busy, Empty

\* A busy worker passes the token on as a message.
LEMMA TokenSent ==
  ASSUME Typed, OneToken, NEW w \in Busy, NEW label \in {"idle", "ack"},
         pc' = [pc EXCEPT ![w] = label], NEW m \in Message, Send(m)
  PROVE  /\ OneToken' /\ Busy' = {}
         /\ \A n \in Message : queue'[n] > 0 => n = m
BY DEF Typed, TypeOK, OneToken, Busy, Empty, Send

\* A worker takes the message.
LEMMA TokenTaken ==
  ASSUME Typed, OneToken, NEW w \in Workers, NEW m \in Message, Receive(w, m),
         NEW label, pc' = [pc EXCEPT ![w] = label]
  PROVE  /\ OneToken' /\ Busy = {} /\ ~Empty
         /\ Empty' /\ Busy' \subseteq {w}
BY DEF Typed, TypeOK, OneToken, Busy, Empty, Receive

-----------------------------------------------------------------------------
(* The chain invariant, by the same kinds of steps. *)

\* A busy worker moves on within its task, or is done with it, and has not ended the
\* job.
LEMMA BusyMoves ==
  ASSUME Typed, Recorded, ChainInv, NEW w \in Busy, NEW label,
         pc' = [pc EXCEPT ![w] = label], queue' = queue, upload' = upload,
         job'.status \notin Ended,
         label \notin {"idle", "ack"} =>
           /\ label # "finalize" /\ msg' = msg
           /\ job'.progress <= Ceiling[msg[w].task] /\ snap'[w].progress = job'.progress
  PROVE  ChainInv'
<1>1. OneToken' /\ Busy' \subseteq Busy
  BY TokenStays DEF ChainInv
<1>2. Busy = {w} /\ Empty
  BY DEF ChainInv, OneToken
<1>3. upload = "done" /\ w \in Workers
  BY DEF Recorded, Busy
<1>4. \A v \in Busy' : v = w /\ label \notin {"idle", "ack"} /\ pc'[v] = label
  BY <1>1, <1>2, <1>3 DEF Busy, Typed, TypeOK
<1>5. ProgressBelow'
  BY <1>2, <1>3, <1>4 DEF ProgressBelow, Empty, Typed, TypeOK
<1>6. CopyIsCurrent'
  BY <1>4 DEF CopyIsCurrent
<1>7. EndedIsQuiet'
  BY DEF EndedIsQuiet
<1>8. QED
  BY <1>1, <1>5, <1>6, <1>7 DEF ChainInv

\* A busy worker hands on to a task that can have seen as much progress.
LEMMA BusySends ==
  ASSUME Typed, Recorded, ChainInv, NEW w \in Busy, NEW label \in {"idle", "ack"},
         pc' = [pc EXCEPT ![w] = label], NEW m \in Message, Send(m),
         job.progress <= Ceiling[m.task], UNCHANGED <<job, upload>>
  PROVE  ChainInv'
<1>1. OneToken' /\ Busy' = {} /\ \A n \in Message : queue'[n] > 0 => n = m
  BY TokenSent DEF ChainInv
<1>2. upload = "done"
  BY DEF Recorded, Busy
<1>3. ProgressBelow'
  BY <1>1, <1>2 DEF ProgressBelow
<1>4. CopyIsCurrent'
  BY <1>1 DEF CopyIsCurrent
<1>5. EndedIsQuiet'
  BY DEF ChainInv, EndedIsQuiet
<1>6. QED
  BY <1>1, <1>3, <1>4, <1>5 DEF ChainInv

\* A worker takes the message and reads the job.
LEMMA TaskTaken ==
  ASSUME Typed, Recorded, ChainInv, NEW w \in Workers, NEW m \in Message, Receive(w, m),
         NEW label, pc' = [pc EXCEPT ![w] = label], snap' = [snap EXCEPT ![w] = job],
         UNCHANGED <<job, rows, upload>>,
         label = "finalize" => verdict'[w] = DeriveJobStatus(rows)
  PROVE  ChainInv'
<1>1. OneToken' /\ ~Empty /\ Empty' /\ Busy' \subseteq {w}
  BY TokenTaken DEF ChainInv
<1>2. job.status \notin Ended
  BY <1>1 DEF ChainInv, EndedIsQuiet
<1>3. msg'[w] = m /\ queue[m] > 0 /\ pc'[w] = label /\ snap'[w] = job
  BY DEF Receive, Typed, TypeOK
<1>4. upload = "done"
  BY <1>3 DEF Recorded
<1>5. ProgressBelow'
  BY <1>1, <1>3, <1>4 DEF ProgressBelow, Empty, ChainInv, Typed, TypeOK
<1>6. CopyIsCurrent'
  BY <1>1, <1>2, <1>3 DEF CopyIsCurrent
<1>7. EndedIsQuiet'
  BY <1>2 DEF EndedIsQuiet
<1>8. QED
  BY <1>1, <1>5, <1>6, <1>7 DEF ChainInv

\* What a busy worker with a current copy commits.
LEMMA CommitProgress ==
  ASSUME Typed, ChainInv, NEW w \in Busy, NEW new \in JobRow, Flush(snap[w], new)
  PROVE  job'.progress = new.progress
BY DEF Typed, TypeOK, ChainInv, CopyIsCurrent, Flush, JobRow, Busy

LEMMA BusyCommits ==
  ASSUME Typed, Recorded, ChainInv, NEW w \in Busy, NEW new \in JobRow, CommitJob(w, new),
         new.status \notin Ended \/ new.status = snap[w].status,
         new.progress <= Ceiling[msg[w].task],
         NEW label, label \notin {"idle", "ack", "finalize"},
         pc' = [pc EXCEPT ![w] = label], UNCHANGED <<queue, upload, msg>>
  PROVE  ChainInv'
<1>1. job'.progress = new.progress
  BY CommitProgress DEF CommitJob
<1>2. job.status \notin Ended
  BY DEF ChainInv, EndedIsQuiet
<1>3. job'.status \notin Ended
  BY <1>2 DEF CommitJob, Flush
<1>4. snap'[w] = new
  BY DEF CommitJob, Typed, TypeOK, Busy
<1>5. QED
  BY <1>1, <1>3, <1>4, BusyMoves

-----------------------------------------------------------------------------
(* The steps. *)

LEMMA ChainApi ==
  ASSUME Typed, Recorded, ChainInv, ApiStep \/ LoseDispatch
  PROVE  ChainInv'
<1> USE DEF Typed, TypeOK, ChainInv
<1>1. CASE Upload
  <2>1. Busy = {} /\ Empty
    BY <1>1 DEF Upload, Recorded, Busy, Empty
  <2>2. Busy' = {} /\ Empty' /\ OneToken'
    BY <1>1, <2>1 DEF Upload, Busy, Empty, OneToken, workerVars
  <2>3. job'.status = "queued" /\ job'.progress = 0
    BY <1>1 DEF Upload
  <2>4. QED
    BY <2>2, <2>3 DEF ProgressBelow, CopyIsCurrent, EndedIsQuiet, Ended, Empty
<1>2. CASE DispatchAnalysis
  <2>1. Busy = {} /\ Empty /\ job.progress = 0 /\ job.status \notin Ended
    BY <1>2 DEF DispatchAnalysis, Recorded, Busy, Empty, ProgressBelow, EndedIsQuiet
  <2>2. Busy' = Busy /\ UNCHANGED job /\ Send(Fresh("analyze"))
    BY <1>2 DEF DispatchAnalysis, Busy, dbVars, workerVars
  <2>3. Fresh("analyze") \in Message /\ Fresh("analyze").task = "analyze"
    BY FreshType, AnalyzeIsTask DEF Fresh
  <2>4. \A n \in Message : queue'[n] > 0 => n = Fresh("analyze") /\ queue'[n] = 1
    BY <2>1, <2>2, <2>3 DEF Send, Empty
  <2>5. OneToken'
    BY <2>1, <2>2, <2>4 DEF OneToken
  <2>6. ProgressBelow'
    BY <1>2, <2>1, <2>2, <2>3, <2>4 DEF ProgressBelow, Ceiling, DispatchAnalysis
  <2>7. QED
    BY <2>1, <2>2, <2>5, <2>6 DEF CopyIsCurrent, EndedIsQuiet
<1>3. CASE LoseDispatch
  <2>1. Busy = {} /\ Empty /\ job.status \notin Ended
    BY <1>3 DEF LoseDispatch, Recorded, Busy, Empty, EndedIsQuiet
  <2>2. Busy' = Busy /\ Empty' = Empty /\ UNCHANGED job /\ OneToken' /\ upload' = "done"
    BY <1>3, <2>1 DEF LoseDispatch, Busy, Empty, OneToken, dbVars, workerVars
  <2>3. QED
    BY <2>1, <2>2 DEF ProgressBelow, CopyIsCurrent, EndedIsQuiet, Empty
<1>4. CASE CancelRead
  BY <1>4 DEF CancelRead, OneToken, ProgressBelow, CopyIsCurrent, EndedIsQuiet, Busy, Empty,
              dbVars, workerVars
<1>5. CASE CancelWrite
  <2>1. job'.progress = job.progress /\ job'.status = "cancelled"
    BY <1>5 DEF CancelWrite, JobRow
  <2>2. Busy' = Busy /\ UNCHANGED <<rows, queue, upload, workerVars>>
    BY <1>5 DEF CancelWrite, Busy, workerVars
  <2>3. QED
    BY <2>1, <2>2 DEF OneToken, ProgressBelow, CopyIsCurrent, EndedIsQuiet, Ended, Busy, Empty,
                      workerVars
<1>6. QED
  BY <1>1, <1>2, <1>3, <1>4, <1>5 DEF ApiStep

\* A chain successor can have seen what its predecessor reported.
LEMMA Successor ==
  ASSUME Typed, NEW t \in Tasks, NEW u \in Tasks, Follows(t, u), job.progress <= Ceiling[t]
  PROVE  Fresh(u) \in Message /\ job.progress <= Ceiling[Fresh(u).task]
<1>1. Ceiling[t] <= Ceiling[u] /\ Ceiling[t] \in Nat /\ Ceiling[u] \in Nat
  BY CeilingGrows, CeilingType DEF Follows
<1>2. job.progress \in Nat
  BY DEF Typed, TypeOK, JobRow, ProgressValues
<1>3. QED
  BY <1>1, <1>2, FreshType DEF Fresh

LEMMA ChainWorker ==
  ASSUME Typed, Recorded, Placed, ChainInv, NEW w \in Workers, WorkerStep(w)
  PROVE  ChainInv'
<1> USE DEF Typed, TypeOK
<1> snap[w] \in JobRow /\ msg[w] \in Message /\ msg[w].task \in Tasks
  BY DEF Message
<1>1. CASE StartRead(w) \/ StageRead(w)
  BY <1>1, TaskTaken DEF StartRead, StageRead, Goto, dbVars
<1>2. CASE FinalizeRead(w)
  <2>1. verdict'[w] = DeriveJobStatus(rows)
    BY <1>2 DEF FinalizeRead
  <2>2. QED
    BY <1>2, <2>1, TaskTaken DEF FinalizeRead, Goto, dbVars
<1>3. CASE Ack(w)
  <2>1. Busy' = Busy
    BY <1>3 DEF Ack, Rest, Goto, Busy
  <2>2. \A v \in Busy : /\ pc'[v] = pc[v] /\ msg'[v] = msg[v]
                        /\ snap'[v] = snap[v] /\ verdict'[v] = verdict[v]
    BY <1>3 DEF Ack, Rest, Close, Goto, Busy
  <2>3. UNCHANGED <<job, rows, queue, upload>>
    BY <1>3 DEF Ack, dbVars
  <2>4. QED
    BY <2>1, <2>2, <2>3 DEF ChainInv, OneToken, ProgressBelow, CopyIsCurrent, EndedIsQuiet, Empty
<1>4. ASSUME w \in Busy PROVE job.status \notin Ended /\ job.progress <= Ceiling[msg[w].task]
                             /\ snap[w].progress = job.progress
  BY <1>4 DEF ChainInv, EndedIsQuiet, ProgressBelow, CopyIsCurrent
<1>5. CASE DispatchChain(w)
  <2>1. w \in Busy /\ msg[w].task = "analyze"
    BY <1>5 DEF DispatchChain, Busy, Placed
  <2>2. PICK u \in Tasks : Follows("analyze", u) /\ Send(Fresh(u))
    BY <1>5 DEF DispatchChain
  <2>3. Fresh(u) \in Message /\ job.progress <= Ceiling[Fresh(u).task]
    BY <1>4, <2>1, <2>2, Successor
  <2>4. QED
    BY <1>5, <2>1, <2>2, <2>3, BusySends DEF DispatchChain, Goto, dbVars
<1>6. CASE PublishNext(w)
  <2>1. w \in Busy
    BY <1>6 DEF PublishNext, Busy
  <2>2. PICK u \in Tasks : Follows(msg[w].task, u) /\ Send(Fresh(u))
    BY <1>6 DEF PublishNext
  <2>3. Fresh(u) \in Message /\ job.progress <= Ceiling[Fresh(u).task]
    BY <1>4, <2>1, <2>2, Successor
  <2>4. QED
    BY <1>6, <2>1, <2>2, <2>3, BusySends DEF PublishNext, Goto, dbVars
<1>7. CASE Begin(w) \/ Fail(w) \/ Skip(w)
  <2>1. w \in Busy
    BY <1>7 DEF Begin, Fail, Skip, Busy
  <2>2. PICK label \in {"work", "publish"} : pc' = [pc EXCEPT ![w] = label]
    BY <1>7 DEF Begin, Fail, Skip, Goto
  <2>3. UNCHANGED <<job, queue, upload, msg, snap>>
    BY <1>7 DEF Begin, Fail, Skip
  <2>4. QED
    BY <1>4, <2>1, <2>2, <2>3, BusyMoves
<1>8. CASE Complete(w)
  <2>1. w \in Busy /\ AfterComplete(msg[w].task) \notin {"idle", "ack", "finalize"}
    BY <1>8 DEF Complete, Busy, AfterComplete
  <2>2. QED
    BY <1>4, <1>8, <2>1, BusyMoves DEF Complete, Goto
<1>9. CASE StartWrite(w)
  <2> DEFINE new == [snap[w] EXCEPT !.status = "running", !.progress = 0]
  <2>1. w \in Busy /\ msg[w].task = "analyze"
    BY <1>9 DEF StartWrite, Busy, Placed
  <2>2. new \in JobRow /\ new.status \notin Ended /\ new.progress = 0
    BY DEF JobRow, JobStatus, ProgressValues, Ended
  <2>3. Ceiling["analyze"] = 0
    BY DEF Ceiling
  <2>4. CommitJob(w, new) /\ UNCHANGED <<queue, upload, msg>> /\ pc' = [pc EXCEPT ![w] = "dispatch"]
    BY <1>9 DEF StartWrite, Goto
  <2> HIDE DEF new
  <2>5. new.progress <= Ceiling[msg[w].task]
    BY <2>1, <2>2, <2>3
  <2>6. QED
    BY <2>1, <2>2, <2>4, <2>5, BusyCommits
<1>10. CASE Interpolate(w)
  <2> DEFINE new == [snap[w] EXCEPT !.progress = 80]
  <2>1. w \in Busy /\ msg[w].task = "dynamic" /\ pc[w] = "work"
    BY <1>10 DEF Interpolate, Busy
  <2>2. new \in JobRow /\ new.status = snap[w].status /\ new.progress = 80
    BY DEF JobRow, ProgressValues
  <2>3. Ceiling["dynamic"] = 80
    BY DEF Ceiling
  <2>4. CommitJob(w, new) /\ UNCHANGED <<queue, upload, msg>> /\ pc' = [pc EXCEPT ![w] = "work"]
    BY <1>10, <2>1 DEF Interpolate
  <2> HIDE DEF new
  <2>5. new.progress <= Ceiling[msg[w].task]
    BY <2>1, <2>2, <2>3
  <2>6. QED
    BY <2>1, <2>2, <2>4, <2>5, BusyCommits
<1>11. CASE WriteRisk(w)
  <2> DEFINE new == [snap[w] EXCEPT !.risk = TRUE]
  <2>1. w \in Busy
    BY <1>11 DEF WriteRisk, Busy
  <2>2. new \in JobRow /\ new.status = snap[w].status /\ new.progress <= Ceiling[msg[w].task]
    BY <1>4, <2>1 DEF JobRow
  <2>3. QED
    BY <1>11, <2>1, <2>2, BusyCommits DEF WriteRisk, Goto
<1>12. CASE SetProgress(w)
  <2> DEFINE s == msg[w].task
             new == [snap[w] EXCEPT !.progress = Stage[s].progress]
  <2>1. w \in Busy /\ s \in AllStages /\ Stage[s].progress = Ceiling[s]
    BY <1>12, EnabledAssumption DEF SetProgress, Busy, Placed, HandlerMatchesTask, StagePcs
  <2>2. Stage[s].progress \in ProgressValues
    BY <2>1, StageProgress
  <2>3. new \in JobRow /\ new.status = snap[w].status /\ new.progress = Stage[s].progress
    BY <2>2 DEF JobRow
  <2>4. new.progress <= Ceiling[s]
    BY <2>1, <2>2, <2>3 DEF ProgressValues
  <2>5. QED
    BY <1>12, <2>1, <2>3, <2>4, BusyCommits DEF SetProgress, Goto
<1>13. CASE FinalizeWrite(w)
  <2> DEFINE new == [snap[w] EXCEPT !.status = verdict[w], !.progress = 100]
  <2>1. w \in Busy /\ pc[w] = "finalize"
    BY <1>13 DEF FinalizeWrite, Busy
  <2>2. verdict[w] = DeriveJobStatus(rows) /\ snap[w].status \notin Ended
    BY <2>1 DEF ChainInv, CopyIsCurrent
  <2>3. new \in JobRow /\ new.status = verdict[w] /\ new.progress = 100
    BY <2>1, <2>2, DeriveType DEF JobRow, ProgressValues, Ended, JobStatus
  <2>4. Flush(snap[w], new)
    BY <1>13 DEF FinalizeWrite
  <2> HIDE DEF new
  <2>5. job'.status = DeriveJobStatus(rows) /\ job'.progress = 100
    <3>1. job'.progress = 100
      BY <2>1, <2>3, <2>4, CommitProgress
    <3>2. new.status # snap[w].status
      BY <2>2, <2>3, DeriveType
    <3>3. job'.status = new.status
      BY <2>4, <3>2 DEF Flush
    <3>4. QED
      BY <2>2, <2>3, <3>1, <3>3
  <2>6. OneToken' /\ Busy' \subseteq Busy /\ Empty /\ UNCHANGED <<rows, queue, upload>>
    BY <1>13, <2>1, TokenStays DEF FinalizeWrite, Goto, ChainInv, OneToken
  <2>7. Busy' = {} /\ Empty' /\ upload' = "done"
    BY <1>13, <2>1, <2>6 DEF FinalizeWrite, Goto, Busy, Empty, ChainInv, OneToken, Recorded
  <2>8. QED
    BY <2>5, <2>6, <2>7 DEF ChainInv, ProgressBelow, CopyIsCurrent, EndedIsQuiet, Empty
<1>14. QED
  BY <1>1, <1>2, <1>3, <1>5, <1>6, <1>7, <1>8, <1>9, <1>10, <1>11, <1>12, <1>13 DEF WorkerStep

LEMMA ChainFault ==
  ASSUME Typed, Recorded, ChainInv, NEW w \in Workers, FaultStep(w), ~Crash(w)
  PROVE  ChainInv'
<1> USE DEF Typed, TypeOK
<1>1. w \in Busy /\ UNCHANGED <<job, upload>>
  BY DEF FaultStep, DispatchFails, RetryTask, StageError, UncaughtError, TimeLimit, Busy, dbVars
<1>2. /\ job.status \notin Ended /\ job.progress <= Ceiling[msg[w].task]
      /\ snap[w].progress = job.progress
  BY <1>1 DEF ChainInv, EndedIsQuiet, ProgressBelow, CopyIsCurrent
<1>3. CASE StageError(w)
  BY <1>1, <1>2, <1>3, BusyMoves DEF StageError, Goto
<1>4. CASE Rest(w) /\ UNCHANGED queue
  BY <1>1, <1>2, <1>4, BusyMoves DEF Rest, Goto
<1>5. CASE RetryTask(w) /\ msg[w].retries < MaxRetries
  <2> DEFINE m == [msg[w] EXCEPT !.retries = @ + 1]
  <2>1. m \in Message /\ m.task = msg[w].task
    BY <1>5, MaxRetriesAssumption DEF Message
  <2>2. Send(m) /\ pc' = [pc EXCEPT ![w] = "idle"]
    BY <1>5 DEF RetryTask, Rest, Goto
  <2> HIDE DEF m
  <2>3. QED
    BY <1>1, <1>2, <2>1, <2>2, BusySends
<1>6. QED
  BY <1>3, <1>4, <1>5 DEF FaultStep, DispatchFails, RetryTask, UncaughtError, TimeLimit

\* While no worker is lost, every step keeps the chain.
LEMMA ChainStep ==
  ASSUME Background, Calm => ChainInv, [Next]_vars
  PROVE  Calm' => ChainInv'
<1> SUFFICES ASSUME Calm' PROVE ChainInv'
  OBVIOUS
<1>1. Typed /\ Recorded /\ Placed /\ ChainInv /\ ~ \E w \in Workers : Crash(w)
  BY CalmStep DEF Background
<1>2. CASE UNCHANGED vars \/ Finished
  BY <1>1, <1>2 DEF Finished, vars, dbVars, workerVars, ChainInv, OneToken, ProgressBelow,
                    CopyIsCurrent, EndedIsQuiet, Busy, Empty
<1>3. QED
  BY <1>1, <1>2, ChainApi, ChainWorker, ChainFault DEF Next

LEMMA ChainInit == Init => Background /\ ChainInv
<1> SUFFICES ASSUME Init PROVE ChainInv
  BY BackgroundInit
<1>1. Busy = {} /\ Empty /\ job.status = "none" /\ job.progress = 0
  BY DEF Init, Busy, Empty, NoJob
<1>2. QED
  BY <1>1 DEF ChainInv, OneToken, ProgressBelow, CopyIsCurrent, EndedIsQuiet, Ended, Empty

\* What the theorems below rest on.
LEMMA ChainHolds == Spec => [](Background /\ (Calm => ChainInv))
<1>1. Init => Background /\ (Calm => ChainInv)
  BY ChainInit
<1>2. Background /\ (Calm => ChainInv) /\ [Next]_vars
        => Background' /\ (Calm' => ChainInv')
  BY BackgroundStep, ChainStep
<1>3. QED
  BY <1>1, <1>2, PTL DEF Spec

-----------------------------------------------------------------------------
(* The theorems. *)

\* Until a worker is lost the chain is one task: dispatch sends one message, a worker
\* takes it before it works and every task sends its successor only when it is over,
\* whatever fails, is retried, killed or cancelled on the way.
THEOREM ChainIsOneTask == Spec => []OneTaskAtATime
<1>1. Background /\ (Calm => ChainInv) => OneTaskAtATime
  BY DEF Calm, ChainInv, OneToken, OneTaskAtATime, Empty
<1>2. QED
  BY <1>1, ChainHolds, PTL

\* Until a worker is lost, an ended job's status is the one its rows add up to and its
\* progress is 100, although finalize reads rows and job before it writes and cancel
\* takes no part in the chain.
THEOREM VerdictHolds == Spec => []VerdictMatchesRows
<1>1. Background /\ (Calm => ChainInv) => VerdictMatchesRows
  BY DEF Calm, ChainInv, EndedIsQuiet, VerdictMatchesRows
<1>2. QED
  BY <1>1, ChainHolds, PTL

\* Who changes stage rows and evidence: a busy worker.
LEMMA RowsChange ==
  ASSUME [Next]_vars, Busy = {}
  PROVE  UNCHANGED <<rows, evidence>>
<1>1. CASE ApiStep \/ LoseDispatch \/ Finished \/ UNCHANGED vars
  BY <1>1 DEF ApiStep, Upload, DispatchAnalysis, CancelRead, CancelWrite, LoseDispatch,
              Finished, vars, dbVars
<1>2. ASSUME NEW w \in Workers, WorkerStep(w) PROVE UNCHANGED <<rows, evidence>>
  BY <1>2 DEF WorkerStep, StartRead, StartWrite, DispatchChain, StageRead, Begin, Interpolate,
              Complete, Fail, Skip, WriteRisk, SetProgress, PublishNext, FinalizeRead,
              FinalizeWrite, Ack, dbVars, Busy
<1>3. ASSUME NEW w \in Workers, FaultStep(w) PROVE UNCHANGED <<rows, evidence>>
  BY <1>3 DEF FaultStep, DispatchFails, RetryTask, StageError, UncaughtError, TimeLimit,
              Crash, dbVars
<1>4. QED
  BY <1>1, <1>2, <1>3 DEF Next

\* Until a worker is lost, nothing touches the stages and the evidence of an ended job:
\* reports and clients may read them without looking again.
THEOREM EndedFrozen == Spec => EndedIsFrozen
<1>1. Background /\ (Calm => ChainInv) /\ [Next]_vars
        => [Calm /\ job.status \in Ended => UNCHANGED <<rows, evidence>>]_vars
  BY RowsChange DEF ChainInv, EndedIsQuiet
<1>2. QED
  BY <1>1, ChainHolds, PTL DEF Spec, EndedIsFrozen, Calm

-----------------------------------------------------------------------------
(* Progress. *)

\* A commit never takes back what the row says, because the copy it is made from is
\* current and the stage's percentage is at least what the token can have reported.
LEMMA ProgressByWorker ==
  ASSUME Typed, Recorded, Placed, ChainInv, NEW w \in Workers, WorkerStep(w)
  PROVE  job'.progress >= job.progress
<1> USE DEF Typed, TypeOK
<1> snap[w] \in JobRow /\ job.progress \in Nat /\ job.progress <= 100
  BY DEF JobRow, ProgressValues
<1>1. ASSUME w \in Busy
      PROVE  snap[w].progress = job.progress /\ job.progress <= Ceiling[msg[w].task]
  BY <1>1 DEF ChainInv, ProgressBelow, CopyIsCurrent
<1>2. ASSUME NEW new \in JobRow, Flush(snap[w], new), w \in Busy
      PROVE  job'.progress = new.progress
  BY <1>2, CommitProgress
<1>3. CASE UNCHANGED job
  BY <1>3
<1>4. CASE StartWrite(w)
  <2> DEFINE new == [snap[w] EXCEPT !.status = "running", !.progress = 0]
  <2>1. w \in Busy /\ msg[w].task = "analyze" /\ Ceiling["analyze"] = 0
    BY <1>4 DEF StartWrite, Busy, Placed, Ceiling
  <2>2. new \in JobRow /\ new.progress = 0
    BY DEF JobRow, JobStatus, ProgressValues
  <2>3. Flush(snap[w], new)
    BY <1>4 DEF StartWrite, CommitJob
  <2> HIDE DEF new
  <2>4. QED
    BY <1>1, <1>2, <2>1, <2>2, <2>3
<1>5. CASE Interpolate(w)
  <2> DEFINE new == [snap[w] EXCEPT !.progress = 80]
  <2>1. w \in Busy /\ msg[w].task = "dynamic" /\ Ceiling["dynamic"] = 80
    BY <1>5 DEF Interpolate, Busy, Ceiling
  <2>2. new \in JobRow /\ new.progress = 80
    BY DEF JobRow, ProgressValues
  <2>3. Flush(snap[w], new)
    BY <1>5 DEF Interpolate, CommitJob
  <2> HIDE DEF new
  <2>4. QED
    BY <1>1, <1>2, <2>1, <2>2, <2>3
<1>6. CASE WriteRisk(w)
  <2> DEFINE new == [snap[w] EXCEPT !.risk = TRUE]
  <2>1. w \in Busy
    BY <1>6 DEF WriteRisk, Busy
  <2>2. new \in JobRow /\ new.progress = snap[w].progress
    BY DEF JobRow
  <2>3. Flush(snap[w], new)
    BY <1>6 DEF WriteRisk, CommitJob
  <2> HIDE DEF new
  <2>4. QED
    BY <1>1, <1>2, <2>1, <2>2, <2>3
<1>7. CASE SetProgress(w)
  <2> DEFINE s == msg[w].task
             new == [snap[w] EXCEPT !.progress = Stage[s].progress]
  <2>1. w \in Busy /\ s \in AllStages /\ Stage[s].progress = Ceiling[s]
    BY <1>7, EnabledAssumption DEF SetProgress, Busy, Placed, HandlerMatchesTask, StagePcs
  <2>2. Stage[s].progress \in ProgressValues
    BY <2>1, StageProgress
  <2>3. new \in JobRow /\ new.progress = Stage[s].progress
    BY <2>2 DEF JobRow
  <2>4. Flush(snap[w], new)
    BY <1>7 DEF SetProgress, CommitJob
  <2> HIDE DEF new
  <2>5. QED
    BY <1>1, <1>2, <2>1, <2>2, <2>3, <2>4 DEF ProgressValues
<1>8. CASE FinalizeWrite(w)
  <2> DEFINE new == [snap[w] EXCEPT !.status = verdict[w], !.progress = 100]
  <2>1. w \in Busy /\ verdict[w] = DeriveJobStatus(rows)
    BY <1>8 DEF FinalizeWrite, Busy, ChainInv, CopyIsCurrent
  <2>2. new \in JobRow /\ new.progress = 100
    BY <2>1, DeriveType DEF JobRow, ProgressValues, Ended, JobStatus
  <2>3. Flush(snap[w], new)
    BY <1>8 DEF FinalizeWrite
  <2> HIDE DEF new
  <2>4. QED
    BY <1>2, <2>1, <2>2, <2>3
<1>9. QED
  BY <1>3, <1>4, <1>5, <1>6, <1>7, <1>8
     DEF WorkerStep, StartRead, DispatchChain, StageRead, Begin, Complete, Fail, Skip,
         PublishNext, FinalizeRead, Ack, dbVars

\* Until a worker is lost no client sees a job's progress go back: the row is written
\* from copies that nothing overtakes, and a cancellation leaves the column alone.
THEOREM ProgressGrows == Spec => ProgressMonotone
<1>1. ASSUME Background, Calm => ChainInv, [Next]_vars, Calm
      PROVE  job'.progress >= job.progress
  <2>1. Typed /\ Recorded /\ Placed /\ ChainInv /\ job.progress \in Nat
    BY <1>1 DEF Background, Typed, TypeOK, JobRow, ProgressValues
  <2>2. CASE Upload
    BY <2>1, <2>2 DEF Upload, ChainInv, ProgressBelow
  <2>3. CASE CancelWrite
    BY <2>1, <2>3 DEF CancelWrite, Typed, TypeOK, JobRow
  <2>4. CASE DispatchAnalysis \/ CancelRead \/ LoseDispatch \/ Finished \/ UNCHANGED vars
    BY <2>1, <2>4 DEF DispatchAnalysis, CancelRead, LoseDispatch, Finished, vars, dbVars
  <2>5. ASSUME NEW w \in Workers, FaultStep(w) PROVE job'.progress >= job.progress
    BY <2>1, <2>5 DEF FaultStep, DispatchFails, RetryTask, StageError, UncaughtError, TimeLimit,
                      Crash, dbVars
  <2>6. QED
    BY <1>1, <2>1, <2>2, <2>3, <2>4, <2>5, ProgressByWorker DEF Next, ApiStep
<1>2. Background /\ (Calm => ChainInv) /\ [Next]_vars
        => [Calm => job'.progress >= job.progress]_vars
  BY <1>1
<1>3. QED
  BY <1>2, ChainHolds, PTL DEF Spec, ProgressMonotone, Calm

-----------------------------------------------------------------------------
(* The safety part of the refinement: seen through its row, the job makes only the  *)
(* steps JobLifecycle allows.  That it makes them at all (JobLifecycle's fairness)  *)
(* is checked by TLC.                                                               *)

\* Neither a lost worker nor a cancellation: JobLifecycle's promise still stands.
Undisturbed == NoneYet({"crash", "cancel"})

-----------------------------------------------------------------------------
(* The inductive invariant. *)

\* The job's status while task t is queued.
Phase(t) == IF t = "analyze" THEN "queued" ELSE "running"

\* Where the token is tells the job's status.
StatusFits ==
  /\ cancel = "idle"
  /\ upload = "start" => job.status = "none"
  /\ upload = "committed" => job.status = "queued"
  /\ \A m \in Message : queue[m] > 0 => job.status = Phase(m.task)
  /\ \A w \in Busy : /\ job.status = IF pc[w] = "start" THEN "queued" ELSE "running"
                     /\ snap[w].status = job.status

\* A lost task takes the token with it.
LostIsQuiet == ~NoneYet({"loss"}) => Busy = {} /\ Empty /\ upload = "done"

LifeInv == StatusFits /\ LostIsQuiet

-----------------------------------------------------------------------------
(* The invariant, by the kinds of steps that move the token. *)

\* A busy worker moves on within its task, or is done with it.
LEMMA LifeMoves ==
  ASSUME Typed, Recorded, ChainInv, LifeInv, NEW w \in Busy, NEW label,
         pc' = [pc EXCEPT ![w] = label], UNCHANGED <<queue, upload, cancel>>,
         label \notin {"idle", "ack"} =>
           /\ label # "start" /\ job'.status = "running" /\ snap'[w].status = "running"
           /\ budget'["loss"] = budget["loss"]
  PROVE  LifeInv'
<1>1. Busy' \subseteq {w} /\ Empty /\ upload = "done" /\ NoneYet({"loss"})
  BY TokenStays DEF ChainInv, OneToken, Recorded, Busy, LifeInv, LostIsQuiet
<1>2. \A v \in Busy' : v = w /\ label \notin {"idle", "ack"} /\ pc'[v] = label
  BY <1>1 DEF Busy, Typed, TypeOK
<1>3. StatusFits'
  BY <1>1, <1>2 DEF LifeInv, StatusFits, Empty
<1>4. CASE label \in {"idle", "ack"}
  BY <1>1, <1>2, <1>3, <1>4 DEF LifeInv, LostIsQuiet, Empty
<1>5. CASE label \notin {"idle", "ack"}
  BY <1>1, <1>3, <1>5 DEF LifeInv, LostIsQuiet, NoneYet
<1>6. QED
  BY <1>4, <1>5

\* A busy worker hands on.
LEMMA LifeSends ==
  ASSUME Typed, Recorded, ChainInv, LifeInv, NEW w \in Busy, NEW label \in {"idle", "ack"},
         pc' = [pc EXCEPT ![w] = label], NEW m \in Message, Send(m),
         job.status = Phase(m.task), UNCHANGED <<job, upload, cancel>>,
         budget'["loss"] = budget["loss"]
  PROVE  LifeInv'
<1>1. Busy' = {} /\ \A n \in Message : queue'[n] > 0 => n = m
  BY TokenSent DEF ChainInv
<1>2. upload = "done" /\ NoneYet({"loss"})
  BY DEF Recorded, Busy, LifeInv, LostIsQuiet
<1>3. StatusFits'
  BY <1>1, <1>2 DEF LifeInv, StatusFits
<1>4. QED
  BY <1>2, <1>3 DEF LifeInv, LostIsQuiet, NoneYet

\* A worker takes the message and reads the job.
LEMMA LifeTaken ==
  ASSUME Typed, Recorded, ChainInv, LifeInv, NEW w \in Workers, NEW m \in Message,
         Receive(w, m), NEW label, pc' = [pc EXCEPT ![w] = label],
         snap' = [snap EXCEPT ![w] = job], UNCHANGED <<job, upload, cancel, budget>>,
         label \notin {"idle", "ack"} => (label = "start" <=> m.task = "analyze")
  PROVE  LifeInv'
<1>1. ~Empty /\ Empty' /\ Busy' \subseteq {w}
  BY TokenTaken DEF ChainInv
<1>2. queue[m] > 0 /\ pc'[w] = label /\ snap'[w] = job
  BY DEF Receive, Typed, TypeOK
<1>3. upload = "done" /\ NoneYet({"loss"}) /\ job.status = Phase(m.task)
  BY <1>1, <1>2 DEF Recorded, LifeInv, LostIsQuiet, StatusFits
<1>4. \A v \in Busy' : v = w /\ label \notin {"idle", "ack"}
  BY <1>1, <1>2 DEF Busy
<1>5. StatusFits'
  BY <1>1, <1>2, <1>3, <1>4 DEF LifeInv, StatusFits, Empty, Phase
<1>6. QED
  BY <1>3, <1>5 DEF LifeInv, LostIsQuiet, NoneYet

\* What a busy worker's commit does to the status while its copy has the row's.
LEMMA CommitFits ==
  ASSUME Typed, LifeInv, NEW w \in Busy, NEW new \in JobRow, CommitJob(w, new)
  PROVE  job'.status = new.status /\ snap'[w].status = new.status
BY DEF Typed, TypeOK, LifeInv, StatusFits, CommitJob, Flush, JobRow, Busy

-----------------------------------------------------------------------------
(* The steps. *)

LEMMA LifeApi ==
  ASSUME Typed, Recorded, LifeInv, ApiStep \/ LoseDispatch, ~Spend("cancel")
  PROVE  LifeInv'
<1> USE DEF Typed, TypeOK, LifeInv
<1>1. CASE Upload
  <2>1. Busy' = {} /\ Empty' /\ NoneYet({"loss"})'
    BY <1>1 DEF Upload, Recorded, Busy, Empty, LostIsQuiet, NoneYet, workerVars
  <2>2. cancel' = "idle" /\ upload' = "committed" /\ job'.status = "queued"
    BY <1>1 DEF Upload, StatusFits
  <2>3. QED
    BY <2>1, <2>2 DEF StatusFits, LostIsQuiet, Empty
<1>2. CASE DispatchAnalysis
  <2>1. Busy' = {} /\ NoneYet({"loss"})' /\ Empty /\ job.status = "queued"
    BY <1>2 DEF DispatchAnalysis, Recorded, Busy, Empty, LostIsQuiet, NoneYet, StatusFits,
                workerVars
  <2>2. \A n \in Message : queue'[n] > 0 => n = Fresh("analyze")
    BY <1>2, <2>1 DEF DispatchAnalysis, Send, Empty
  <2>3. upload' = "done" /\ cancel' = "idle" /\ job' = job
    BY <1>2 DEF DispatchAnalysis, StatusFits, dbVars
  <2>4. QED
    BY <2>1, <2>2, <2>3 DEF StatusFits, LostIsQuiet, Phase, Fresh
<1>3. CASE LoseDispatch
  <2>1. Busy' = {} /\ Empty'
    BY <1>3 DEF LoseDispatch, Recorded, Busy, Empty, workerVars
  <2>2. upload' = "done" /\ cancel' = "idle"
    BY <1>3 DEF LoseDispatch, StatusFits
  <2>3. QED
    BY <2>1, <2>2 DEF StatusFits, LostIsQuiet, Empty
<1>4. ~CancelRead /\ ~CancelWrite
  BY DEF CancelRead, CancelWrite, StatusFits
<1>5. QED
  BY <1>1, <1>2, <1>3, <1>4 DEF ApiStep

LEMMA LifeWorker ==
  ASSUME Typed, Recorded, Placed, ChainInv, LifeInv, NEW w \in Workers, WorkerStep(w)
  PROVE  LifeInv'
<1> USE DEF Typed, TypeOK
<1> snap[w] \in JobRow /\ msg[w] \in Message /\ msg[w].task \in Tasks
  BY DEF Message
<1>1. CASE StartRead(w)
  <2>1. PICK m \in Message : m.task = "analyze" /\ Receive(w, m)
    BY <1>1 DEF StartRead
  <2>2. PICK label \in {"ack", "start"} : pc' = [pc EXCEPT ![w] = label]
    BY <1>1 DEF StartRead, Goto
  <2>3. snap' = [snap EXCEPT ![w] = job] /\ UNCHANGED <<job, upload, cancel, budget>>
    BY <1>1 DEF StartRead, dbVars
  <2>4. QED
    BY <2>1, <2>2, <2>3, LifeTaken
<1>2. CASE StageRead(w)
  <2>1. PICK m \in Message : m.task \in Enabled /\ Receive(w, m)
    BY <1>2 DEF StageRead
  <2>2. PICK label \in {"publish", "begin"} : pc' = [pc EXCEPT ![w] = label]
    BY <1>2 DEF StageRead, Goto
  <2>3. snap' = [snap EXCEPT ![w] = job] /\ UNCHANGED <<job, upload, cancel, budget>>
    BY <1>2 DEF StageRead, dbVars
  <2>4. m.task # "analyze"
    BY <2>1, EnabledAssumption DEF AllStages
  <2>5. QED
    BY <2>1, <2>2, <2>3, <2>4, LifeTaken
<1>3. CASE FinalizeRead(w)
  <2>1. PICK m \in Message : m.task = "finalize" /\ Receive(w, m)
    BY <1>3 DEF FinalizeRead
  <2>2. PICK label \in {"ack", "finalize"} : pc' = [pc EXCEPT ![w] = label]
    BY <1>3 DEF FinalizeRead, Goto
  <2>3. snap' = [snap EXCEPT ![w] = job] /\ UNCHANGED <<job, upload, cancel, budget>>
    BY <1>3 DEF FinalizeRead, dbVars
  <2>4. QED
    BY <2>1, <2>2, <2>3, LifeTaken
<1>4. CASE Ack(w)
  <2>1. Busy' = Busy /\ \A v \in Busy : pc'[v] = pc[v] /\ snap'[v] = snap[v]
    BY <1>4 DEF Ack, Rest, Close, Goto, Busy
  <2>2. UNCHANGED <<job, queue, upload, cancel, budget>>
    BY <1>4 DEF Ack, dbVars
  <2>3. QED
    BY <2>1, <2>2 DEF LifeInv, StatusFits, LostIsQuiet, NoneYet, Empty
<1>5. ASSUME w \in Busy, pc[w] # "start"
      PROVE  job.status = "running" /\ snap[w].status = "running"
  BY <1>5 DEF LifeInv, StatusFits
<1>6. ASSUME NEW t \in Tasks, NEW u \in Tasks, Follows(t, u)
      PROVE  Fresh(u) \in Message /\ Phase(Fresh(u).task) = "running"
  <2>1. u # "analyze"
    BY <1>6, EnabledAssumption DEF Follows, Pos, Tasks, AllStages
  <2>2. QED
    BY <2>1, FreshType DEF Fresh, Phase
<1>7. CASE DispatchChain(w)
  <2>1. w \in Busy /\ pc[w] # "start"
    BY <1>7 DEF DispatchChain, Busy
  <2>2. PICK u \in Tasks : Follows("analyze", u) /\ Send(Fresh(u))
    BY <1>7 DEF DispatchChain
  <2>3. pc' = [pc EXCEPT ![w] = "ack"] /\ UNCHANGED <<job, upload, cancel, budget>>
    BY <1>7 DEF DispatchChain, Goto, dbVars
  <2>4. Fresh(u) \in Message /\ job.status = Phase(Fresh(u).task)
    BY <1>5, <1>6, <2>1, <2>2, AnalyzeIsTask
  <2>5. QED
    BY <2>1, <2>2, <2>3, <2>4, LifeSends
<1>8. CASE PublishNext(w)
  <2>1. w \in Busy /\ pc[w] # "start"
    BY <1>8 DEF PublishNext, Busy
  <2>2. PICK u \in Tasks : Follows(msg[w].task, u) /\ Send(Fresh(u))
    BY <1>8 DEF PublishNext
  <2>3. pc' = [pc EXCEPT ![w] = "ack"] /\ UNCHANGED <<job, upload, cancel, budget>>
    BY <1>8 DEF PublishNext, Goto, dbVars
  <2>4. Fresh(u) \in Message /\ job.status = Phase(Fresh(u).task)
    BY <1>5, <1>6, <2>1, <2>2
  <2>5. QED
    BY <2>1, <2>2, <2>3, <2>4, LifeSends
<1>9. CASE Begin(w) \/ Fail(w) \/ Skip(w) \/ Complete(w)
  <2>1. w \in Busy /\ pc[w] # "start"
    BY <1>9 DEF Begin, Fail, Skip, Complete, Busy
  <2>2. UNCHANGED <<job, queue, upload, cancel, snap, budget>>
    BY <1>9 DEF Begin, Fail, Skip, Complete
  <2>3. PICK label \in {"work", "publish", "risk", "progress"} : pc' = [pc EXCEPT ![w] = label]
    BY <1>9 DEF Begin, Fail, Skip, Complete, Goto, AfterComplete
  <2>4. QED
    BY <1>5, <2>1, <2>2, <2>3, LifeMoves
<1>10. ASSUME NEW new \in JobRow, CommitJob(w, new), new.status = "running", w \in Busy,
              NEW label \in {"dispatch", "work", "progress", "publish"},
              pc' = [pc EXCEPT ![w] = label], UNCHANGED <<queue, upload, cancel, budget>>
       PROVE  LifeInv'
  BY <1>10, CommitFits, LifeMoves
<1>11. CASE StartWrite(w)
  <2> DEFINE new == [snap[w] EXCEPT !.status = "running", !.progress = 0]
  <2>1. new \in JobRow /\ new.status = "running"
    BY DEF JobRow, JobStatus, ProgressValues
  <2>2. w \in Busy /\ CommitJob(w, new) /\ pc' = [pc EXCEPT ![w] = "dispatch"]
    BY <1>11 DEF StartWrite, Goto, Busy
  <2>3. UNCHANGED <<queue, upload, cancel, budget>>
    BY <1>11 DEF StartWrite
  <2> HIDE DEF new
  <2>4. QED
    BY <1>10, <2>1, <2>2, <2>3
<1>12. CASE Interpolate(w)
  <2> DEFINE new == [snap[w] EXCEPT !.progress = 80]
  <2>1. w \in Busy /\ pc[w] = "work" /\ CommitJob(w, new)
    BY <1>12 DEF Interpolate, Busy
  <2>2. new \in JobRow /\ new.status = "running"
    BY <1>5, <2>1 DEF JobRow, ProgressValues
  <2>3. UNCHANGED <<queue, upload, cancel, budget>> /\ pc' = [pc EXCEPT ![w] = "work"]
    BY <1>12, <2>1 DEF Interpolate
  <2> HIDE DEF new
  <2>4. QED
    BY <1>10, <2>1, <2>2, <2>3
<1>13. CASE WriteRisk(w)
  <2> DEFINE new == [snap[w] EXCEPT !.risk = TRUE]
  <2>1. w \in Busy /\ pc[w] = "risk" /\ CommitJob(w, new)
    BY <1>13 DEF WriteRisk, Busy
  <2>2. new \in JobRow /\ new.status = "running"
    BY <1>5, <2>1 DEF JobRow
  <2>3. UNCHANGED <<queue, upload, cancel, budget>> /\ pc' = [pc EXCEPT ![w] = "progress"]
    BY <1>13 DEF WriteRisk, Goto
  <2> HIDE DEF new
  <2>4. QED
    BY <1>10, <2>1, <2>2, <2>3
<1>14. CASE SetProgress(w)
  <2> DEFINE new == [snap[w] EXCEPT !.progress = Stage[msg[w].task].progress]
  <2>1. w \in Busy /\ pc[w] = "progress" /\ CommitJob(w, new)
    BY <1>14 DEF SetProgress, Busy
  <2>2. Stage[msg[w].task].progress \in ProgressValues
    BY <2>1, StageProgress, EnabledAssumption DEF HandlerMatchesTask, StagePcs
  <2>3. new \in JobRow /\ new.status = "running"
    BY <1>5, <2>1, <2>2 DEF JobRow
  <2>4. UNCHANGED <<queue, upload, cancel, budget>> /\ pc' = [pc EXCEPT ![w] = "publish"]
    BY <1>14 DEF SetProgress, Goto
  <2> HIDE DEF new
  <2>5. QED
    BY <1>10, <2>1, <2>3, <2>4
<1>15. CASE FinalizeWrite(w)
  <2>1. w \in Busy /\ UNCHANGED <<queue, upload, cancel>> /\ pc' = [pc EXCEPT ![w] = "ack"]
    BY <1>15 DEF FinalizeWrite, Busy, Goto
  <2>2. QED
    BY <2>1, LifeMoves
<1>16. QED
  BY <1>1, <1>2, <1>3, <1>4, <1>7, <1>8, <1>9, <1>11, <1>12, <1>13, <1>14, <1>15
     DEF WorkerStep

LEMMA LifeFault ==
  ASSUME Typed, Recorded, Placed, ChainInv, LifeInv, NEW w \in Workers, FaultStep(w), ~Crash(w)
  PROVE  LifeInv'
<1> USE DEF Typed, TypeOK
<1>1. w \in Busy /\ UNCHANGED <<job, upload, cancel>>
  BY DEF FaultStep, DispatchFails, RetryTask, StageError, UncaughtError, TimeLimit, Busy, dbVars
<1>2. Spend("error") => budget'["loss"] = budget["loss"]
  BY DEF Spend, Faults
<1>3. CASE StageError(w)
  <2>1. pc[w] # "start" /\ pc' = [pc EXCEPT ![w] = "publish"] /\ UNCHANGED <<queue, snap>>
    BY <1>3 DEF StageError, Goto
  <2>2. job.status = "running" /\ snap[w].status = "running" /\ Spend("error")
    BY <1>1, <1>3, <2>1 DEF LifeInv, StatusFits, StageError
  <2>3. QED
    BY <1>1, <1>2, <2>1, <2>2, LifeMoves
<1>4. CASE Rest(w) /\ UNCHANGED queue
  BY <1>1, <1>4, LifeMoves DEF Rest, Goto
<1>5. CASE RetryTask(w) /\ msg[w].retries < MaxRetries
  <2> DEFINE m == [msg[w] EXCEPT !.retries = @ + 1]
  <2>1. m \in Message /\ m.task = msg[w].task
    BY <1>5, MaxRetriesAssumption DEF Message
  <2>2. Send(m) /\ pc' = [pc EXCEPT ![w] = "idle"] /\ Spend("error")
    BY <1>5 DEF RetryTask, Rest, Goto
  <2>3. job.status = Phase(msg[w].task)
    BY <1>1, <1>5 DEF RetryTask, Placed, Phase, LifeInv, StatusFits
  <2> HIDE DEF m
  <2>4. QED
    BY <1>1, <1>2, <2>1, <2>2, <2>3, LifeSends
<1>6. QED
  BY <1>3, <1>4, <1>5 DEF FaultStep, DispatchFails, RetryTask, UncaughtError, TimeLimit

\* A step into an undisturbed state starts in one and disturbs nothing.
LEMMA UndisturbedStep ==
  ASSUME Typed, BudgetBound, [Next]_vars, Undisturbed'
  PROVE  /\ Undisturbed /\ Calm
         /\ ~Spend("cancel") /\ ~ \E w \in Workers : Crash(w)
<1>1. "crash" \in Faults /\ "cancel" \in Faults
  BY DEF Faults
<1>2. NoneYet({"crash"})' /\ NoneYet({"cancel"})'
  BY DEF Undisturbed, NoneYet
<1>3. NoneYet({"crash"}) /\ ~Spend("crash") /\ NoneYet({"cancel"}) /\ ~Spend("cancel")
  BY <1>1, <1>2, NoneYetStep
<1>4. QED
  BY <1>3 DEF Undisturbed, Calm, NoneYet, Crash

LEMMA LifeInvStep ==
  ASSUME Background, Calm => ChainInv, Undisturbed => LifeInv, [Next]_vars
  PROVE  Undisturbed' => LifeInv'
<1> SUFFICES ASSUME Undisturbed' PROVE LifeInv'
  OBVIOUS
<1>1. /\ Typed /\ Recorded /\ Placed /\ ChainInv /\ LifeInv
      /\ ~Spend("cancel") /\ ~ \E w \in Workers : Crash(w)
  BY UndisturbedStep DEF Background
<1>2. CASE UNCHANGED vars \/ Finished
  BY <1>1, <1>2 DEF Finished, vars, dbVars, workerVars, LifeInv, StatusFits, LostIsQuiet,
                    NoneYet, Busy, Empty
<1>3. QED
  BY <1>1, <1>2, LifeApi, LifeWorker, LifeFault DEF Next

LEMMA LifeInvInit == Init => LifeInv
<1> SUFFICES ASSUME Init PROVE LifeInv
  OBVIOUS
<1>1. Busy = {} /\ Empty /\ NoneYet({"loss"})
  BY DEF Init, Busy, Empty, NoneYet
<1>2. QED
  BY <1>1 DEF Init, LifeInv, StatusFits, LostIsQuiet, Empty, NoJob

LEMMA LifeHolds ==
  Spec => [](Background /\ (Calm => ChainInv) /\ (Undisturbed => LifeInv))
<1>1. Init => (Undisturbed => LifeInv)
  BY LifeInvInit
<1>2. Background /\ (Calm => ChainInv) /\ (Undisturbed => LifeInv) /\ [Next]_vars
        => (Undisturbed' => LifeInv')
  BY LifeInvStep
<1>3. QED
  BY <1>1, <1>2, ChainHolds, PTL DEF Spec

-----------------------------------------------------------------------------
(* The refinement. *)

\* The steps that touch the row, while the job is undisturbed.
LEMMA RowStep ==
  ASSUME Typed, Recorded, Placed, ChainInv, LifeInv, NEW w \in Workers, WorkerStep(w)
  PROVE  /\ UNCHANGED budget
         /\ \/ UNCHANGED <<job.status, job.progress>>
            \/ /\ job.status = "queued" /\ job'.status = "running"
               /\ job'.progress = job.progress /\ NoneYet({"loss"})
            \/ /\ job.status = "running" /\ job'.status = "running"
               /\ job'.progress \in 1..99 /\ job'.progress > job.progress
            \/ /\ job.status = "running" /\ job'.status \in Ended
               /\ job'.progress = 100 /\ NoneYet({"loss"})
<1> USE DEF Typed, TypeOK
<1> snap[w] \in JobRow /\ job.progress \in Nat
  BY DEF JobRow, ProgressValues
<1>0. UNCHANGED budget
  BY DEF WorkerStep, StartRead, StartWrite, DispatchChain, StageRead, Begin, Interpolate,
         Complete, Fail, Skip, WriteRisk, SetProgress, PublishNext, FinalizeRead,
         FinalizeWrite, Ack
<1>1. ASSUME w \in Busy
      PROVE  /\ NoneYet({"loss"}) /\ snap[w].status = job.status
             /\ snap[w].progress = job.progress
             /\ job.status = IF pc[w] = "start" THEN "queued" ELSE "running"
  BY <1>1 DEF LifeInv, LostIsQuiet, StatusFits, ChainInv, CopyIsCurrent
<1>2. job'.progress >= job.progress
  BY ProgressByWorker
<1>3. CASE UNCHANGED job
  BY <1>0, <1>3
<1>4. ASSUME w \in Busy, NEW new \in JobRow, CommitJob(w, new)
      PROVE  job'.status = new.status /\ job'.progress = new.progress
  BY <1>4, CommitFits, CommitProgress DEF CommitJob
<1>5. CASE StartWrite(w)
  <2> DEFINE new == [snap[w] EXCEPT !.status = "running", !.progress = 0]
  <2>1. w \in Busy /\ pc[w] = "start" /\ CommitJob(w, new)
    BY <1>5 DEF StartWrite, Busy
  <2>2. new \in JobRow /\ new.status = "running" /\ new.progress = 0
    BY DEF JobRow, JobStatus, ProgressValues
  <2> HIDE DEF new
  <2>3. job'.status = "running" /\ job'.progress = job.progress
    BY <1>2, <1>4, <2>1, <2>2
  <2>4. QED
    BY <1>0, <1>1, <2>1, <2>3
<1>6. ASSUME NEW new \in JobRow, new.status = snap[w].status, CommitJob(w, new),
             new.progress \in {20, 35, 80, 85, 95} \/ new.progress = snap[w].progress,
             w \in Busy, pc[w] # "start"
      PROVE  \/ UNCHANGED <<job.status, job.progress>>
             \/ /\ job.status = "running" /\ job'.status = "running"
                /\ job'.progress \in 1..99 /\ job'.progress > job.progress
  BY <1>1, <1>2, <1>4, <1>6
<1>7. CASE Interpolate(w)
  <2> DEFINE new == [snap[w] EXCEPT !.progress = 80]
  <2>1. w \in Busy /\ pc[w] # "start" /\ CommitJob(w, new)
    BY <1>7 DEF Interpolate, Busy
  <2>2. new \in JobRow /\ new.status = snap[w].status /\ new.progress = 80
    BY DEF JobRow, ProgressValues
  <2> HIDE DEF new
  <2>3. QED
    BY <1>0, <1>6, <2>1, <2>2
<1>8. CASE WriteRisk(w)
  <2> DEFINE new == [snap[w] EXCEPT !.risk = TRUE]
  <2>1. w \in Busy /\ pc[w] # "start" /\ CommitJob(w, new)
    BY <1>8 DEF WriteRisk, Busy
  <2>2. new \in JobRow /\ new.status = snap[w].status /\ new.progress = snap[w].progress
    BY DEF JobRow
  <2> HIDE DEF new
  <2>3. QED
    BY <1>0, <1>6, <2>1, <2>2
<1>9. CASE SetProgress(w)
  <2> DEFINE s == msg[w].task
             new == [snap[w] EXCEPT !.progress = Stage[s].progress]
  <2>1. w \in Busy /\ pc[w] # "start" /\ CommitJob(w, new)
    BY <1>9 DEF SetProgress, Busy
  <2>2. s \in AllStages /\ Stage[s].progress = Ceiling[s]
    BY <1>9, EnabledAssumption DEF SetProgress, Placed, HandlerMatchesTask, StagePcs
  <2>3. Stage[s].progress \in {20, 35, 80, 85, 95}
    BY <2>2 DEF Ceiling, AllStages
  <2>4. new \in JobRow /\ new.status = snap[w].status /\ new.progress = Stage[s].progress
    BY <2>3 DEF JobRow, ProgressValues
  <2> HIDE DEF new
  <2>5. QED
    BY <1>0, <1>6, <2>1, <2>3, <2>4
<1>10. CASE FinalizeWrite(w)
  <2> DEFINE new == [snap[w] EXCEPT !.status = verdict[w], !.progress = 100]
  <2>1. w \in Busy /\ pc[w] = "finalize" /\ Flush(snap[w], new)
    BY <1>10 DEF FinalizeWrite, Busy
  <2>2. verdict[w] \in Ended
    BY <2>1, DeriveType DEF ChainInv, CopyIsCurrent
  <2>3. new \in JobRow /\ new.status = verdict[w] /\ new.progress = 100
    BY <2>2 DEF JobRow, ProgressValues, Ended, JobStatus
  <2> HIDE DEF new
  <2>4. snap[w].status = "running" /\ job.status = "running" /\ NoneYet({"loss"})
    BY <1>1, <2>1
  <2>5. job'.status = verdict[w] /\ job'.progress = 100
    BY <2>1, <2>2, <2>3, <2>4, CommitProgress DEF Flush, Ended
  <2>6. QED
    BY <1>0, <2>2, <2>4, <2>5
<1>11. QED
  BY <1>3, <1>5, <1>7, <1>8, <1>9, <1>10
     DEF WorkerStep, StartRead, DispatchChain, StageRead, Begin, Complete, Fail, Skip,
         PublishNext, FinalizeRead, Ack, dbVars

\* The safety part of Life!LifeSpec.
LifeSafety == Life!LifeInit /\ [][Life!LifeNext]_(Life!lifeVars)

\* A fault that has happened has happened for good.
LEMMA LostStays ==
  ASSUME Typed, BudgetBound, [Next]_vars, NoneYet({"loss"})'
  PROVE  NoneYet({"loss"})
BY NoneYetStep DEF Faults

LEMMA LifeStep ==
  ASSUME Background, Calm => ChainInv, Undisturbed => LifeInv, [Next]_vars
  PROVE  [Life!LifeNext]_(Life!lifeVars)
<1>1. CASE ~Undisturbed'
  BY <1>1 DEF Undisturbed, Life!LifeNext, Life!Disturb
<1>2. CASE Undisturbed'
  <2>1. /\ Typed /\ Recorded /\ Placed /\ ChainInv /\ LifeInv /\ BudgetBound
        /\ Undisturbed /\ ~Spend("cancel") /\ ~ \E w \in Workers : Crash(w)
    BY <1>2, UndisturbedStep DEF Background
  <2>2. (~NoneYet({"crash", "cancel"}))' = ~NoneYet({"crash", "cancel"})
    BY <1>2, <2>1 DEF Undisturbed
  <2>3. CASE UNCHANGED <<job.status, job.progress>>
    <3>1. CASE ~NoneYet({"loss"})'
      BY <2>2, <2>3, <3>1 DEF Life!LifeNext, Life!Lose
    <3>2. CASE NoneYet({"loss"})'
      <4>1. (~NoneYet({"loss"}))' = ~NoneYet({"loss"})
        BY <2>1, <3>2, LostStays
      <4>2. QED
        BY <2>2, <2>3, <4>1 DEF Life!lifeVars
    <3>3. QED
      BY <3>1, <3>2
  <2>4. CASE UNCHANGED budget
    <3>1. (~NoneYet({"loss"}))' = ~NoneYet({"loss"})
      BY <2>4 DEF NoneYet
    <3>2. CASE Upload
      <4>1. job.status = "none" /\ job.progress = 0
        BY <2>1, <3>2 DEF Upload, LifeInv, StatusFits, ChainInv, ProgressBelow
      <4>2. job'.status = "queued" /\ job'.progress = 0
        BY <3>2 DEF Upload
      <4>3. QED
        BY <2>2, <3>1, <4>1, <4>2 DEF Life!LifeNext, Life!Create
    <3>3. ASSUME NEW w \in Workers, WorkerStep(w)
          PROVE  Life!LifeNext \/ UNCHANGED <<job.status, job.progress>>
      <4>1. CASE /\ job.status = "queued" /\ job'.status = "running"
                 /\ job'.progress = job.progress /\ NoneYet({"loss"})
        BY <2>1, <2>2, <3>1, <4>1 DEF Undisturbed, Life!LifeNext, Life!Claim
      <4>2. CASE /\ job.status = "running" /\ job'.status = "running"
                 /\ job'.progress \in 1..99 /\ job'.progress > job.progress
        BY <2>2, <3>1, <4>2 DEF Life!LifeNext, Life!Advance
      <4>3. CASE /\ job.status = "running" /\ job'.status \in Ended
                 /\ job'.progress = 100 /\ NoneYet({"loss"})
        BY <2>1, <2>2, <3>1, <4>3 DEF Undisturbed, Ended, Life!LifeNext, Life!End
      <4>4. QED
        BY <2>1, <3>3, <4>1, <4>2, <4>3, RowStep
    <3>4. CASE UNCHANGED vars \/ Finished \/ DispatchAnalysis
      BY <2>3, <3>4 DEF Finished, DispatchAnalysis, vars, dbVars
    <3>5. ~CancelRead /\ ~CancelWrite
      BY <2>1 DEF CancelRead, CancelWrite, LifeInv, StatusFits
    <3>6. CASE LoseDispatch
      BY <2>3, <3>6 DEF LoseDispatch, dbVars
    <3>7. ASSUME NEW w \in Workers, FaultStep(w) PROVE UNCHANGED <<job.status, job.progress>>
      BY <3>7 DEF FaultStep, DispatchFails, RetryTask, StageError, UncaughtError, TimeLimit,
                  Crash, dbVars
    <3>8. QED
      BY <2>3, <3>2, <3>3, <3>4, <3>5, <3>6, <3>7 DEF Next, ApiStep
  <2>5. CASE LoseDispatch \/ \E w \in Workers : FaultStep(w)
    <3>1. UNCHANGED job
      BY <2>5 DEF LoseDispatch, FaultStep, DispatchFails, RetryTask, StageError, UncaughtError,
                  TimeLimit, Crash, dbVars
    <3>2. QED
      BY <2>3, <3>1
  <2>6. QED
    BY <2>1, <2>4, <2>5, RowStep
       DEF Next, ApiStep, Upload, DispatchAnalysis, CancelRead, CancelWrite, LifeInv,
           StatusFits, Finished, vars
<1>3. QED
  BY <1>1, <1>2

\* The pipeline implements what JobLifecycle promises a client, for every chain, with
\* errors, retries and lost tasks: created, claimed once, progress that only grows and
\* stays below 100, one end at 100; a task lost for good freezes the job where it was.
THEOREM ImplementsLifecycle == Spec => LifeSafety
<1>1. Init => Life!LifeInit
  BY DEF Init, NoJob, NoneYet, Life!LifeInit
<1>2. Background /\ (Calm => ChainInv) /\ (Undisturbed => LifeInv) /\ [Next]_vars
        => [Life!LifeNext]_(Life!lifeVars)
  BY LifeStep
<1>3. QED
  BY <1>1, <1>2, LifeHolds, PTL DEF Spec, LifeSafety
=============================================================================
