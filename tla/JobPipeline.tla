----------------------------- MODULE JobPipeline -----------------------------
(***************************************************************************)
(* One analysis job on its way through the Celery pipeline: the API that   *)
(* creates and cancels it, the broker that delivers its tasks at least     *)
(* once, the workers that run them, and the rows they commit.              *)
(*                                                                         *)
(* A step of the model is what happens between two points where another    *)
(* process can look: a commit, a publish, an acknowledgement.  Every task  *)
(* opens its own session; the ORM object it loads keeps the values it read *)
(* (expire_on_commit is off) and an UPDATE carries only the columns whose  *)
(* value the task changed.  No row is ever locked.                         *)
(*                                                                         *)
(* Simplifications: one job (jobs share no row); error texts, timestamps   *)
(* and metrics are left out; a risk score is present or absent; the        *)
(* sandbox's interpolated progress 36..80 is the one value 80; a retry's   *)
(* publish and its acknowledgement are one step.                           *)
(***************************************************************************)
EXTENDS Naturals

CONSTANTS
  Workers,     \* Celery worker processes
  Enabled,     \* stages whose settings flag is on
  MaxRetries,  \* max_retries of pipeline.analyze and pipeline.finalize
  Budget       \* how many faults and cancellations a behaviour may contain

AllStages == {"static", "code_intel", "dynamic", "threat_intel",
              "ai", "scoring", "reporting"}

\* crash: a worker process is lost; error: an exception a handler deals with; loss:
\* a task or a publish is lost for good; cancel: a user cancels.
Faults == {"crash", "error", "loss", "cancel"}

ASSUME EnabledAssumption == Enabled \subseteq AllStages
ASSUME MaxRetriesAssumption == MaxRetries \in Nat
ASSUME BudgetAssumption == Budget \in [Faults -> Nat]

VARIABLES
  job,      \* the analysis_jobs row: status, progress, risk ("none": no row yet)
  rows,     \* stage_runs: status per stage, "none" while there is no row
  evidence, \* stages that have an evidence row
  queue,    \* the broker: how many copies of each message wait for a worker
  upload,   \* the upload handler: "start", "committed", "done"
  cancel,   \* the cancel handler: "idle", or "read" between its read and write
  pc,       \* where each worker is in the task it runs
  msg,      \* the unacknowledged message each worker holds
  snap,     \* the job row as the worker's session holds it
  seen,     \* the evidence the stage read before it claimed its row
  verdict,  \* the status finalize derived from the stage rows it read
  budget    \* faults still allowed

dbVars == <<job, rows, evidence>>
workerVars == <<pc, msg, snap, seen, verdict>>
vars == <<dbVars, queue, upload, cancel, workerVars, budget>>

-----------------------------------------------------------------------------
(* The vocabulary of the rows and of the messages. *)

JobStatus == {"queued", "running", "partial", "completed", "failed", "cancelled"}

\* The statuses a late task must leave alone; "partial" is not one of them.
Terminal == {"completed", "cancelled", "failed"}

\* The statuses a user can cancel.
Active == {"queued", "running"}

RowStatus == {"none", "running", "ok", "partial", "failed", "skipped"}

ProgressValues == {0, 20, 35, 80, 85, 95, 100}

JobRow == [status: JobStatus \cup {"none"}, progress: ProgressValues, risk: BOOLEAN]

NoJob == [status |-> "none", progress |-> 0, risk |-> FALSE]

\* The order of the chain.
Pos == [analyze |-> 0, static |-> 1, code_intel |-> 2, dynamic |-> 3,
        threat_intel |-> 4, ai |-> 5, scoring |-> 6, reporting |-> 7,
        finalize |-> 8]

Tasks == Enabled \cup {"analyze", "finalize"}

Message == [task: Tasks, retries: 0..MaxRetries]

Fresh(t) == [task |-> t, retries |-> 0]

\* u is the task the chain runs after t: the next one whose flag is on.
Follows(t, u) ==
  /\ u \in Tasks
  /\ Pos[t] < Pos[u]
  /\ \A v \in Tasks : ~(Pos[t] < Pos[v] /\ Pos[v] < Pos[u])

\* derive_job_status: the job status that a set of stage rows adds up to.
DeriveJobStatus(r) ==
  LET present   == {s \in AllStages : r[s] # "none"}
      attempted == {s \in present : r[s] # "skipped"}
  IN  IF attempted = {} THEN "completed"
      ELSE IF \A s \in attempted : r[s] = "failed" THEN "failed"
      ELSE IF (\A s \in attempted : r[s] = "ok") /\ attempted = present
           THEN "completed"
      ELSE "partial"

-----------------------------------------------------------------------------
(* The stages.  Each is its task module in the terms the pipeline can tell   *)
(* apart: the envelope statuses its engine can report ("absent": the payload *)
(* has no status key), whether it can find nothing to do although its inputs *)
(* are there, the progress it reports once its envelope is stored (0: none), *)
(* and whether its task catches every exception.                             *)

StaticTask ==
  [reports |-> {"ok", "partial", "failed"}, mayBeEmpty |-> FALSE, progress |-> 20,
   catches |-> TRUE]

\* A static envelope without evidence leaves nothing to analyse.
CodeIntelTask ==
  [reports |-> {"ok", "partial", "failed"}, mayBeEmpty |-> TRUE, progress |-> 35,
   catches |-> TRUE]

\* The sandbox may be switched off.
DynamicTask ==
  [reports |-> {"ok", "partial", "failed"}, mayBeEmpty |-> TRUE, progress |-> 0,
   catches |-> TRUE]

\* The sample's own digests are always there to look up.
ThreatIntelTask ==
  [reports |-> {"ok"}, mayBeEmpty |-> FALSE, progress |-> 0, catches |-> TRUE]

AiTask ==
  [reports |-> {"absent"}, mayBeEmpty |-> FALSE, progress |-> 0, catches |-> FALSE]

\* Mutant: scoring resets the progress.
ScoringTaskReset ==
  [reports |-> {"ok"}, mayBeEmpty |-> TRUE, progress |-> 0, catches |-> TRUE]

\* Evidence need not hold a finding.
ScoringTask ==
  [reports |-> {"ok"}, mayBeEmpty |-> TRUE, progress |-> 85, catches |-> TRUE]

ReportingTask ==
  [reports |-> {"ok", "partial"}, mayBeEmpty |-> FALSE, progress |-> 95, catches |-> TRUE]

Stage ==
  [static |-> StaticTask, code_intel |-> CodeIntelTask, dynamic |-> DynamicTask,
   threat_intel |-> ThreatIntelTask, ai |-> AiTask, scoring |-> ScoringTask,
   reporting |-> ReportingTask]

\* Mutant: an engine's status is stored as it came.
EnvelopeStatusRaw(raw) == raw

\* envelope_status: anything unrecognised reads as partial.
EnvelopeStatus(raw) == IF raw \in {"ok", "partial", "failed"} THEN raw ELSE "partial"

\* Some evidence that findings come from was there to be read.
Harvested(visible) ==
  visible \cap {"static", "code_intel", "dynamic", "threat_intel", "ai"} # {}

\* Mutant: the evidence guards of the derived stages are gone.
HasInputsUnchecked(s, visible) == TRUE

\* The inputs without which a stage records a skip instead of working.
HasInputs(s, visible) ==
  /\ s = "code_intel" => "static" \in visible
  /\ s \in {"ai", "reporting"} => visible # {}
  /\ s = "scoring" => Harvested(visible)

\* A stage skips when its inputs are missing, or may be empty and are.
MaySkip(s, visible) == ~HasInputs(s, visible) \/ Stage[s].mayBeEmpty

\* Before it looks at its inputs a stage can fail on a missing engine or APK; the
\* AI stage loads its evidence first.
MayFail(s, visible) == s = "ai" => HasInputs(s, visible)

-----------------------------------------------------------------------------
(* Database and broker. *)

\* The UPDATE that takes the row from what the session loaded (old) to what the task
\* assigned (new): a column whose value did not change is not written.
Flush(old, new) ==
  job' = [status   |-> IF new.status   # old.status   THEN new.status   ELSE job.status,
          progress |-> IF new.progress # old.progress THEN new.progress ELSE job.progress,
          risk     |-> IF new.risk     # old.risk     THEN new.risk     ELSE job.risk]

\* Commit new over the row worker w loaded; the session now holds new.
CommitJob(w, new) ==
  /\ Flush(snap[w], new)
  /\ snap' = [snap EXCEPT ![w] = new]

Send(m) == queue' = [queue EXCEPT ![m] = @ + 1]

Spend(f) ==
  /\ budget[f] > 0
  /\ budget' = [budget EXCEPT ![f] = @ - 1]

Goto(w, label) == pc' = [pc EXCEPT ![w] = label]

\* An idle worker takes one copy of m off the queue; it stays unacknowledged.
Receive(w, m) ==
  /\ pc[w] = "idle"
  /\ queue[m] > 0
  /\ queue' = [queue EXCEPT ![m] = @ - 1]
  /\ msg' = [msg EXCEPT ![w] = m]

\* The task's session is closed and what it loaded is gone.
Close(w) ==
  /\ snap' = [snap EXCEPT ![w] = NoJob]
  /\ seen' = [seen EXCEPT ![w] = {}]
  /\ verdict' = [verdict EXCEPT ![w] = "none"]

\* The task is over for the broker: acknowledged, nothing left on the worker.
Rest(w) ==
  /\ Goto(w, "idle")
  /\ msg' = [msg EXCEPT ![w] = Fresh("analyze")]
  /\ Close(w)

-----------------------------------------------------------------------------
(* The API: upload and cancel. *)

\* upload_apk commits the queued job before it enqueues it.
Upload ==
  /\ upload = "start"
  /\ upload' = "committed"
  /\ job' = [status |-> "queued", progress |-> 0, risk |-> FALSE]
  /\ UNCHANGED <<rows, evidence, queue, cancel, workerVars, budget>>

\* Mutant: the job is enqueued before its row is committed.
DispatchEarly ==
  /\ upload # "done"
  /\ upload' = "done"
  /\ Send(Fresh("analyze"))
  /\ UNCHANGED <<dbVars, cancel, workerVars, budget>>

DispatchAnalysis ==
  /\ upload = "committed"
  /\ upload' = "done"
  /\ Send(Fresh("analyze"))
  /\ UNCHANGED <<dbVars, cancel, workerVars, budget>>

\* The API process dies, or the broker refuses, between the commit and the enqueue.
LoseDispatch ==
  /\ upload = "committed"
  /\ upload' = "done"
  /\ Spend("loss")
  /\ UNCHANGED <<dbVars, queue, cancel, workerVars>>

\* cancel_job loads the job and answers 409 unless it is active ...
CancelRead ==
  /\ cancel = "idle"
  /\ job.status \in Active
  /\ Spend("cancel")
  /\ cancel' = "read"
  /\ UNCHANGED <<dbVars, queue, upload, workerVars>>

\* ... and later commits the status; it loaded another one, so the column is written.
CancelWrite ==
  /\ cancel = "read"
  /\ cancel' = "idle"
  /\ job' = [job EXCEPT !.status = "cancelled"]
  /\ UNCHANGED <<rows, evidence, queue, upload, workerVars, budget>>

-----------------------------------------------------------------------------
(* pipeline.analyze: claim the job, then dispatch the chain. *)

StartRead(w) ==
  /\ \E m \in Message : m.task = "analyze" /\ Receive(w, m)
  /\ snap' = [snap EXCEPT ![w] = job]
  /\ Goto(w, IF job.status \in Terminal \cup {"none"} THEN "ack" ELSE "start")
  /\ UNCHANGED <<dbVars, upload, cancel, seen, verdict, budget>>

StartWrite(w) ==
  /\ pc[w] = "start"
  /\ CommitJob(w, [snap[w] EXCEPT !.status = "running", !.progress = 0])
  /\ Goto(w, "dispatch")
  /\ UNCHANGED <<rows, evidence, queue, upload, cancel, msg, seen, verdict, budget>>

\* Mutant: the stages and finalize are dispatched as a group.
DispatchGroup(w) ==
  /\ pc[w] = "dispatch"
  /\ queue' = [m \in Message |->
                 IF m.task # "analyze" /\ m.retries = 0 THEN queue[m] + 1 ELSE queue[m]]
  /\ Goto(w, "ack")
  /\ Close(w)
  /\ UNCHANGED <<dbVars, upload, cancel, msg, budget>>

\* The broker receives the first task of the chain.
DispatchChain(w) ==
  /\ pc[w] = "dispatch"
  /\ \E u \in Tasks : Follows("analyze", u) /\ Send(Fresh(u))
  /\ Goto(w, "ack")
  /\ Close(w)
  /\ UNCHANGED <<dbVars, upload, cancel, msg, budget>>

\* apply_async raises outside the try: the task fails, and a failed task is
\* acknowledged like any other.
DispatchFails(w) ==
  /\ pc[w] = "dispatch"
  /\ Spend("loss")
  /\ Rest(w)
  /\ UNCHANGED <<dbVars, queue, upload, cancel>>

-----------------------------------------------------------------------------
(* A stage task. *)

\* Mutant: a task returns when its row is already claimed.
StageReadOnce(w) ==
  /\ \E m \in Message :
       /\ m.task \in Enabled
       /\ Receive(w, m)
       /\ Goto(w, IF job.status \in {"cancelled", "none"} \/ rows[m.task] # "none"
                  THEN "publish" ELSE "begin")
  /\ snap' = [snap EXCEPT ![w] = job]
  /\ UNCHANGED <<dbVars, upload, cancel, seen, verdict, budget>>

\* The task loads its job; only a cancelled (or missing) one makes it return.
StageRead(w) ==
  /\ \E m \in Message : m.task \in Enabled /\ Receive(w, m)
  /\ snap' = [snap EXCEPT ![w] = job]
  /\ Goto(w, IF job.status \in {"cancelled", "none"} THEN "publish" ELSE "begin")
  /\ UNCHANGED <<dbVars, upload, cancel, seen, verdict, budget>>

\* The stage looks up its inputs and claims its row. Every path through _execute
\* begins the row, the ones that then skip or fail too.
Begin(w) ==
  /\ pc[w] = "begin"
  /\ rows' = [rows EXCEPT ![msg[w].task] = "running"]
  /\ seen' = [seen EXCEPT ![w] = evidence]
  /\ Goto(w, "work")
  /\ UNCHANGED <<job, evidence, queue, upload, cancel, msg, snap, verdict, budget>>

\* The sandbox's progress loop writes while the sandbox runs.
Interpolate(w) ==
  /\ pc[w] = "work"
  /\ msg[w].task = "dynamic"
  /\ CommitJob(w, [snap[w] EXCEPT !.progress = 80])
  /\ UNCHANGED <<rows, evidence, queue, upload, cancel, pc, msg, seen, verdict, budget>>

\* The evidence the stage decides on: the AI stage loads it after its claim.
Visible(w) == IF msg[w].task = "ai" THEN evidence ELSE seen[w]

\* What is still to commit once a stage's envelope is stored.
AfterComplete(s) ==
  IF s = "scoring" THEN "risk" ELSE IF Stage[s].progress # 0 THEN "progress" ELSE "publish"

\* Mutant: the outcome is committed without the evidence.
CompleteRowOnly(w) ==
  LET s == msg[w].task IN
  /\ pc[w] = "work"
  /\ HasInputs(s, Visible(w))
  /\ \E raw \in Stage[s].reports : rows' = [rows EXCEPT ![s] = EnvelopeStatus(raw)]
  /\ Goto(w, AfterComplete(s))
  /\ UNCHANGED <<job, evidence, queue, upload, cancel, msg, snap, seen, verdict, budget>>

\* StageRunner.complete: the evidence and the row's outcome, in one commit.
Complete(w) ==
  LET s == msg[w].task IN
  /\ pc[w] = "work"
  /\ HasInputs(s, Visible(w))
  /\ \E raw \in Stage[s].reports : rows' = [rows EXCEPT ![s] = EnvelopeStatus(raw)]
  /\ evidence' = evidence \cup {s}
  /\ Goto(w, AfterComplete(s))
  /\ UNCHANGED <<job, queue, upload, cancel, msg, snap, seen, verdict, budget>>

\* StageRunner.fail: the row's outcome only; evidence of an earlier attempt stays.
Fail(w) ==
  LET s == msg[w].task IN
  /\ pc[w] = "work"
  /\ MayFail(s, Visible(w))
  /\ rows' = [rows EXCEPT ![s] = "failed"]
  /\ Goto(w, "publish")
  /\ UNCHANGED <<job, evidence, queue, upload, cancel, msg, snap, seen, verdict, budget>>

\* StageRunner.skip.
Skip(w) ==
  LET s == msg[w].task IN
  /\ pc[w] = "work"
  /\ MaySkip(s, Visible(w))
  /\ rows' = [rows EXCEPT ![s] = "skipped"]
  /\ Goto(w, "publish")
  /\ UNCHANGED <<job, evidence, queue, upload, cancel, msg, snap, seen, verdict, budget>>

\* Scoring denormalises the risk onto the job, in a commit of its own.
WriteRisk(w) ==
  /\ pc[w] = "risk"
  /\ CommitJob(w, [snap[w] EXCEPT !.risk = TRUE])
  /\ Goto(w, "progress")
  /\ UNCHANGED <<rows, evidence, queue, upload, cancel, msg, seen, verdict, budget>>

SetProgress(w) ==
  /\ pc[w] = "progress"
  /\ CommitJob(w, [snap[w] EXCEPT !.progress = Stage[msg[w].task].progress])
  /\ Goto(w, "publish")
  /\ UNCHANGED <<rows, evidence, queue, upload, cancel, msg, seen, verdict, budget>>

\* The task returned: Celery sends the next task of the chain, then acknowledges.
PublishNext(w) ==
  /\ pc[w] = "publish"
  /\ \E u \in Tasks : Follows(msg[w].task, u) /\ Send(Fresh(u))
  /\ Goto(w, "ack")
  /\ Close(w)
  /\ UNCHANGED <<dbVars, upload, cancel, msg, budget>>

-----------------------------------------------------------------------------
(* pipeline.finalize. *)

FinalizeRead(w) ==
  /\ \E m \in Message : m.task = "finalize" /\ Receive(w, m)
  /\ snap' = [snap EXCEPT ![w] = job]
  /\ verdict' = [verdict EXCEPT ![w] = DeriveJobStatus(rows)]
  /\ Goto(w, IF job.status \in Terminal \cup {"none"} THEN "ack" ELSE "finalize")
  /\ UNCHANGED <<dbVars, upload, cancel, seen, budget>>

FinalizeWrite(w) ==
  /\ pc[w] = "finalize"
  /\ Flush(snap[w], [snap[w] EXCEPT !.status = verdict[w], !.progress = 100])
  /\ Goto(w, "ack")
  /\ Close(w)
  /\ UNCHANGED <<rows, evidence, queue, upload, cancel, msg, budget>>

Ack(w) ==
  /\ pc[w] = "ack"
  /\ Rest(w)
  /\ UNCHANGED <<dbVars, queue, upload, cancel, budget>>

-----------------------------------------------------------------------------
(* What goes wrong: exceptions, time limits, lost processes. *)

\* A database error inside analyze's claim or inside finalize: the task is retried
\* until max_retries, then fails and is acknowledged.
RetryTask(w) ==
  /\ pc[w] \in {"start", "finalize"}
  /\ Spend("error")
  /\ IF msg[w].retries < MaxRetries
     THEN Send([msg[w] EXCEPT !.retries = @ + 1])
     ELSE UNCHANGED queue
  /\ Rest(w)
  /\ UNCHANGED <<dbVars, upload, cancel>>

\* Mutant: the stage has no outer handler; the error ends its chain.
StageErrorEscapes(w) ==
  /\ pc[w] \in {"begin", "work", "risk", "progress"}
  /\ Stage[msg[w].task].catches
  /\ Spend("error")
  /\ Rest(w)
  /\ UNCHANGED <<dbVars, queue, upload, cancel>>

\* A database error or the soft time limit in a stage: the outer handler returns
\* "failed" without touching the row, and the chain goes on.
StageError(w) ==
  /\ pc[w] \in {"begin", "work", "risk", "progress"}
  /\ Stage[msg[w].task].catches
  /\ Spend("error")
  /\ Goto(w, "publish")
  /\ UNCHANGED <<dbVars, queue, upload, cancel, msg, snap, seen, verdict>>

\* A task without the outer handler (AI) fails, and its chain ends with it.
UncaughtError(w) ==
  /\ pc[w] \in {"begin", "work", "risk", "progress"}
  /\ ~Stage[msg[w].task].catches
  /\ Spend("loss")
  /\ Rest(w)
  /\ UNCHANGED <<dbVars, queue, upload, cancel>>

\* The hard time limit kills the process; the task counts as failed, is
\* acknowledged, and its chain ends with it.
TimeLimit(w) ==
  /\ pc[w] \in {"start", "dispatch", "begin", "work", "risk", "progress", "finalize"}
  /\ Spend("loss")
  /\ Rest(w)
  /\ UNCHANGED <<dbVars, queue, upload, cancel>>

\* Mutant: messages are acknowledged on delivery, so a crash loses the task.
CrashLosesTask(w) ==
  /\ pc[w] # "idle"
  /\ Spend("crash")
  /\ Rest(w)
  /\ UNCHANGED <<dbVars, queue, upload, cancel>>

\* The worker process is lost with its message unacknowledged: late
\* acknowledgement makes the broker deliver it again.
Crash(w) ==
  /\ pc[w] # "idle"
  /\ Spend("crash")
  /\ Send(msg[w])
  /\ Rest(w)
  /\ UNCHANGED <<dbVars, upload, cancel>>

-----------------------------------------------------------------------------

\* Nothing is queued, running or about to be enqueued.
Quiescent ==
  /\ upload = "done"
  /\ cancel = "idle"
  /\ \A m \in Message : queue[m] = 0
  /\ \A w \in Workers : pc[w] = "idle"

\* The system stops only when there is nothing left to do.
Finished == Quiescent /\ UNCHANGED vars

Init ==
  /\ job = NoJob
  /\ rows = [s \in AllStages |-> "none"]
  /\ evidence = {}
  /\ queue = [m \in Message |-> 0]
  /\ upload = "start"
  /\ cancel = "idle"
  /\ pc = [w \in Workers |-> "idle"]
  /\ msg = [w \in Workers |-> Fresh("analyze")]
  /\ snap = [w \in Workers |-> NoJob]
  /\ seen = [w \in Workers |-> {}]
  /\ verdict = [w \in Workers |-> "none"]
  /\ budget = Budget

ApiStep == Upload \/ DispatchAnalysis \/ CancelRead \/ CancelWrite

WorkerStep(w) ==
  \/ StartRead(w) \/ StartWrite(w) \/ DispatchChain(w)
  \/ StageRead(w) \/ Begin(w) \/ Interpolate(w)
  \/ Complete(w) \/ Fail(w) \/ Skip(w)
  \/ WriteRisk(w) \/ SetProgress(w) \/ PublishNext(w)
  \/ FinalizeRead(w) \/ FinalizeWrite(w) \/ Ack(w)

FaultStep(w) ==
  \/ DispatchFails(w) \/ RetryTask(w) \/ StageError(w)
  \/ UncaughtError(w) \/ TimeLimit(w) \/ Crash(w)

Next ==
  \/ ApiStep
  \/ LoseDispatch
  \/ \E w \in Workers : WorkerStep(w) \/ FaultStep(w)
  \/ Finished

Spec == Init /\ [][Next]_vars

\* A live API finishes its handlers and a live worker keeps taking and running
\* tasks; nobody owes a fault, a cancellation or a progress tick.
WorkerProgress(w) ==
  \/ StartRead(w) \/ StartWrite(w) \/ DispatchChain(w)
  \/ StageRead(w) \/ Begin(w) \/ Complete(w) \/ Fail(w) \/ Skip(w)
  \/ WriteRisk(w) \/ SetProgress(w) \/ PublishNext(w)
  \/ FinalizeRead(w) \/ FinalizeWrite(w) \/ Ack(w)

Fairness ==
  /\ WF_vars(DispatchAnalysis)
  /\ WF_vars(CancelWrite)
  /\ \A w \in Workers : WF_vars(WorkerProgress(w))

FairSpec == Spec /\ Fairness

-----------------------------------------------------------------------------
(* Properties. *)

PcLabels == {"idle", "start", "dispatch", "begin", "work", "risk", "progress",
             "publish", "finalize", "ack"}

\* Every variable stays in its range; in particular no budget is overspent and
\* every message is one the broker knows.
TypeOK ==
  /\ job \in JobRow
  /\ rows \in [AllStages -> RowStatus]
  /\ evidence \subseteq Enabled
  /\ queue \in [Message -> Nat]
  /\ upload \in {"start", "committed", "done"}
  /\ cancel \in {"idle", "read"}
  /\ pc \in [Workers -> PcLabels]
  /\ msg \in [Workers -> Message]
  /\ snap \in [Workers -> JobRow]
  /\ seen \in [Workers -> SUBSET Enabled]
  /\ verdict \in [Workers -> JobStatus \cup {"none"}]
  /\ budget \in [Faults -> Nat]

\* A stage row that says the stage produced something (ok or partial) has evidence
\* behind it, whatever was redelivered, killed or interrupted: StageRunner.complete
\* commits the two together and nothing removes evidence for good.
EvidenceBacksOutcome ==
  \A s \in AllStages : rows[s] \in {"ok", "partial"} => s \in evidence

\* Derived evidence has its source: no code-intel envelope without a static one, no
\* score without an analysis envelope, no risk without its score, no report or AI
\* verdict about nothing.
EvidenceProvenance ==
  /\ "code_intel" \in evidence => "static" \in evidence
  /\ "ai" \in evidence => evidence \ {"ai"} # {}
  /\ "scoring" \in evidence => Harvested(evidence)
  /\ "reporting" \in evidence => evidence \ {"reporting"} # {}
  /\ job.risk => "scoring" \in evidence

\* No task ever looks for a job that is not there: upload_apk commits the row before
\* it enqueues, "so the worker can never race ahead of a durable record".
NoOrphanTask ==
  /\ \A m \in Message : queue[m] > 0 => job.status # "none"
  /\ \A w \in Workers : pc[w] # "idle" => job.status # "none"

-----------------------------------------------------------------------------
(* What holds until the first redelivery. *)

\* None of these faults has happened so far.
NoneYet(fs) == \A f \in fs : budget[f] = Budget[f]

\* The statuses finalize gives a job.
Ended == {"completed", "partial", "failed"}

\* Workers whose task has still something to do than acknowledge.
Busy == {w \in Workers : pc[w] \notin {"idle", "ack"}}

\* The chain is a chain: until a worker is lost, one task of the job is queued or at
\* work at a time.
OneTaskAtATime ==
  NoneYet({"crash"}) =>
    /\ \A v, w \in Busy : v = w
    /\ \A m, n \in Message : queue[m] > 0 /\ queue[n] > 0 => m = n /\ queue[m] = 1
    /\ Busy # {} => \A m \in Message : queue[m] = 0

\* Until a worker is lost, the status of an ended job is the one its stage rows, as
\* they are now, add up to, and its progress says so: finalize reads the rows in one
\* statement and writes its verdict in another, a cancel may come between, and a later
\* task could still move either.
VerdictMatchesRows ==
  NoneYet({"crash"}) /\ job.status \in Ended =>
    job.status = DeriveJobStatus(rows) /\ job.progress = 100

\* Until a worker is lost, an ended job's stages and evidence never move again.
EndedIsFrozen ==
  [][NoneYet({"crash"}) /\ job.status \in Ended => UNCHANGED <<rows, evidence>>]_vars

\* Until a worker is lost, a job's progress never goes back.
ProgressMonotone == [][NoneYet({"crash"}) => job'.progress >= job.progress]_vars

-----------------------------------------------------------------------------
(* What holds under redelivery while every task runs to an end. *)

\* When all tasks of an ended job are done, crashed, redelivered and duplicated ones
\* included, no stage is left without a row or claimed by a task that is gone.
EveryStageSettled ==
  Quiescent /\ job.status \in Ended /\ NoneYet({"error", "loss", "cancel"}) =>
    \A s \in Enabled : rows[s] \notin {"none", "running"}

\* When all tasks of an ended job are done, a scored job carries its risk: lists rank
\* and filter on it without joining evidence. A lost worker and a cancellation together
\* can take it away: scoring commits its score and is lost before the risk, the cancel
\* makes the redelivered task return at once, and a finalize that had read the job
\* before the cancel ends it.
ScoredJobHasRisk ==
  NoneYet({"error", "loss"}) /\ (NoneYet({"crash"}) \/ NoneYet({"cancel"})) =>
    (Quiescent /\ job.status \in Ended /\ rows["scoring"] = "ok" => job.risk)

\* Unless a task is lost for good, every uploaded job reaches an end and stays there,
\* though a redelivered analyze may restart one that ended "partial".
JobSettles ==
  []NoneYet({"loss"}) =>
    (job.status = "queued" ~> [](job.status \in Ended \cup {"cancelled"}))

\* The job, seen through its row, keeps the promise of JobLifecycle until a worker is
\* lost or somebody cancels; errors may happen.
Life == INSTANCE JobLifecycle
          WITH status <- job.status, progress <- job.progress,
               disturbed <- ~NoneYet({"crash", "cancel"}),
               lost <- ~NoneYet({"loss"})

KeepsLifecycle == Life!LifeSpec

-----------------------------------------------------------------------------
(* What the repository says and the code does not do. *)

\* "Immutable once terminal" (the AnalysisJob docstring).
TerminalIsImmutable ==
  [][job.status \in Terminal => job'.status = job.status]_vars

\* derive_job_status documents that "any partial, failure, or skip" makes a job
\* partial: a completed one has every enabled stage on record.
CompletedMeansEveryStageRecorded ==
  job.status = "completed" => \A s \in Enabled : rows[s] # "none"

\* A job that was accepted is never silently dropped: it ends.
JobEnds == job.status = "queued" ~> job.status \in Ended \cup {"cancelled"}

=============================================================================
