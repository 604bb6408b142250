# Sephela in TLA+

Sephela analyses Android packages: an API takes an upload and creates a *job*, a
chain of Celery tasks runs the analysis stages over it, and every stage leaves a
status row, an evidence envelope and findings in PostgreSQL. This directory models
that system at the level of its commits, publishes, acknowledgements and awaits, has
TLC check the models on small instances, and proves the properties that matter most
for every instance with TLAPS.

Contents: [Inventory](#inventory) ·
[The job pipeline](#the-job-pipeline-jobpipelinetla) ·
[The agent graph](#the-agent-graph-agentgraphtla) ·
[One agent and the gateway](#one-agent-and-the-gateway-llmgatewaytla) ·
[The threat-intel run](#the-threat-intel-run-threatintelruntla) ·
[Uploads and stage transactions](#uploads-and-stage-transactions-sampleingesttla-stagestoretla) ·
[Retrieval, correlation, scoring, sandbox, reports](#retrieval-correlation-scoring-sandbox-reports) ·
[The edge](#the-edge-apiedgetla) · [Runs](#runs) ·
[Bounds and fairness](#bounds-and-fairness) · [Proofs](#proofs) ·
[What the code does not keep](#what-the-code-does-not-keep) · [Plan](#plan) ·
[Not modelled](#not-modelled)

## Inventory

Paths are relative to `src/`.

| Component | State it keeps | Operations | Hard behaviour | What makes it correct |
|---|---|---|---|---|
| **Job pipeline**: `backend/app/tasks/*.py`, `services/stages.py`, the upload and cancel endpoints | `analysis_jobs` and `stage_runs` rows, evidence, Celery messages | upload, cancel, analyze, seven stages, finalize | late acknowledgement redelivers a task; rows are read, decided on and written without a lock; three exception regimes; hard time limits | results have evidence, evidence has sources, one verdict per job that its rows support, every job ends |
| **Stage store**: `repositories/evidence.py`, `repositories/samples.py`, `services/artifacts.py` | one row per (job, engine), envelopes, findings; a source tree on a worker's disk and an archive of it in storage | begin, replace envelope, upsert findings, finish; publish, fetch, discard the tree | two deliveries of one stage at READ COMMITTED; the consumer's clean-up against another copy of it | one envelope per stage run, findings that point at it, no stale ones; the tree is there for whoever was promised it and does not outlive the job |
| **Threat-intel run**: `engines/threat_intel/sephela_threat_intel/` | call budget, a circuit breaker, a token bucket and an "exhausted" flag per provider, cache | concurrent lookups | checks before and after waiting; calls in flight when the breaker trips | the budget and the rate are kept, cached answers cost nothing, a dead provider is left alone |
| **Threat-intel correlation**: `engines/threat_intel/sephela_threat_intel/correlate.py`, `providers/` | none; reads the answers of a run | correlate, derive findings | the order of the answers, labels spelled differently | findings say what the answers say, in any order |
| **Sandbox**: `backend/app/tasks/dynamic.py`, `services/sandbox.py`, `infra/sandbox/run_analysis.sh` | one directory per job, shared by its deliveries; a sandbox process or container and an emulator per run | deliver, spawn, wait, read artifacts, remove | a budget that kills the child only, redelivery, one adb port | a run's behaviour is its own, nothing is left behind |
| **Reports**: `services/reports.py`, `tasks/reporting.py`, `api/v1/routers/reports.py` | files under names all runs of a job share, an envelope that lists them | score, assemble, render, serve | files before the envelope, a second copy of the chain, a client in between | what is listed can be fetched, what is served is the report shown, the last run's report is of the job's findings |
| **AI agent graph**: `ai/orchestration/`, `ai/integration.py` | graph state merged by reducers | start, six parallel agents, join, risk, report, abort, finalise | per-agent timeout and retry, join, failure threshold, two views of the final status | the join waits for all, no finding is lost, a run without a report is not a success |
| **Upload and storage**: `services/upload.py` | stored bytes, sample row | ingest | two uploads of one file, a crash between storing and committing | every sample row has its bytes, one row per hash |
| **LLM gateway**: `ai/llm/factory.py`, `ai/agents/base.py`, `ai/validation/` | turns and attempts of one agent | route, call, correct, parse, validate | three parsers with different rules, nested attempts | what is kept fits its schema, calls are bounded |
| **RAG ingestion**: `ai/rag/` | chunks, vectors, hashes | ingest, replace, search | failure between deleting and writing | a document is searchable or will be re-ingested, only trusted text is stored |
| **Risk scoring**: `ai/scoring/` | none | a pure function of the findings | saturation, thresholds | within 0..100, more findings never lower it, tiers agree with it |
| **API rate limiter**: `backend/app/core/ratelimit.py` | a Redis counter with an expiry | check | increment and expiry are separate commands | at most the budget per window, every counter expires |
| **Browser session**: `frontend/src/lib/api/client.ts`, `auth-store.ts` | token pair, one shared refresh promise | request, refresh and replay, logout | logout during a refresh, late 401s | one refresh at a time, logging out lasts |
| Static and code-intel engines, read side, audit, metrics, CLI | see [Not modelled](#not-modelled) | | | |

How they interact: the upload endpoint commits a job and publishes `pipeline.analyze`;
that task claims the job and publishes the chain of the enabled stages, ending in
`pipeline.finalize`. Stages talk only through the database (evidence of earlier stages)
and object storage (the decompiled tree). The threat-intel stage runs the lookup engine,
the AI stage the agent graph, whose agents call the gateway and are shown passages of
the knowledge store; the dynamic stage starts the sandbox, the scoring stage runs the
scoring engine, and reporting renders what all of them left. Browsers poll the job row,
may cancel it and fetch the report. Nothing takes a row lock; the only synchronisation
is the chain itself.

## The job pipeline (`JobPipeline.tla`)

`JobPipeline` follows one job from its upload to its end. Jobs share no row, so one
suffices. A step of the model is what the code does between two points where
another process can look:

* **The rows.** `job` is the `analysis_jobs` row (status, progress, whether a risk is
  set), `rows` the status of each `stage_runs` row, `evidence` the stages that have an
  envelope. `snap[w]` is the ORM object in worker `w`'s session. Sessions are created
  with `expire_on_commit=False`, so it stays as it was loaded; `Flush` writes only the
  columns a task changed against that copy, which is what SQLAlchemy's unit of work
  sends. A status someone else wrote in between therefore survives a progress update
  and is overwritten by a status update.
* **The broker.** `queue` counts the copies of each message, `msg[w]` is the message a
  worker holds unacknowledged. A stage that returns publishes its successor
  (`PublishNext`) and is acknowledged later (`Ack`). A lost process between the two
  makes the broker deliver it again (`Crash`) although the chain has gone on: from then
  on two copies of the rest of the chain run.
* **The handlers.** `StartRead`/`StartWrite` are `_start`, `DispatchChain` is analyze's
  `apply_async`. A stage is `StageRead` (load the job, return when it is cancelled),
  `Begin` (look up evidence, claim the row), then one of `Complete`, `Fail`, `Skip`, then
  `WriteRisk` and `SetProgress` where the stage has them. `FinalizeRead`/`FinalizeWrite`
  are `_finalize`. The seven stages share these actions and differ in a record each
  (`StaticTask` … `ReportingTask`): what their engine can report, whether they may find
  nothing to do, what progress they set, and whether they catch every exception.
  `HasInputs` is the evidence each needs; a stage without it skips.
* **What goes wrong.** `RetryTask` is analyze's and finalize's `self.retry`; `StageError`
  the outer handler of a stage, which returns `"failed"` without touching the row, so the
  chain goes on; `UncaughtError` the AI task, which has no such handler; `TimeLimit`
  the hard limit, after which Celery acknowledges the task as failed; `DispatchFails`
  and `LoseDispatch` publishes that are lost.

`JobLifecycle.tla` is the abstract specification: what a client that polls the job is
promised. `JobPipeline` instantiates it with the row's status and progress and
`KeepsLifecycle` says it implements it, liveness included, until a worker is lost or
somebody cancels.

### What is asked of it

| Property | Says |
|---|---|
| `TypeOK` | type invariant |
| `EvidenceBacksOutcome` | a row that reads ok or partial has an envelope |
| `EvidenceProvenance` | derived envelopes and the risk have their sources |
| `NoOrphanTask` | no task ever looks for a job that is not committed |
| `OneTaskAtATime` | until a worker is lost, one message or one busy worker |
| `VerdictMatchesRows` | until a worker is lost, an ended job's status is what its rows, as they are *now*, add up to |
| `EndedIsFrozen` | until a worker is lost, rows and evidence of an ended job never move |
| `ProgressMonotone` | until a worker is lost, progress never goes back |
| `EveryStageSettled` | when all is quiet, crashes and duplicated chains included, no stage is left claimed or without a row |
| `ScoredJobHasRisk` | when all is quiet, a scored job carries its risk, unless a worker was lost *and* somebody cancelled |
| `JobSettles` | unless a task is lost for good, a job ends and then stays ended |
| `KeepsLifecycle` | the pipeline implements `JobLifecycle` |

"Until a worker is lost" is `NoneYet({"crash"})`: the properties are conditional
on which faults have happened so far, so one run checks each of them under every fault
it tolerates and the condition shows which fault it does not tolerate. The conditions
are tight: without its condition, `EndedIsFrozen` fails after a crash between publish and
acknowledgement, and `ScoredJobHasRisk` after an error between scoring's two commits, or
after a lost worker and a cancellation together: scoring commits its score and is lost, the
cancellation makes the redelivered task return at once, and a finalize that had read the
job before the cancellation ends it without its risk.

## The agent graph (`AgentGraph.tla`)

The graph LangGraph runs for a job: `start`, six analysis agents side by side, a join,
the risk agent, the report agent, `finalise`, with `abort` on the way. A step of
the model is one transition of one agent or one node of the graph:

* `chan` is `GraphState` as of the last superstep, `writes` what the finished branches of
  the present one will merge. `Merged` is the reducers: results by agent, findings
  appended.
* `attempt[a]` is where an agent is in its two nested loops: the turns of
  `BaseAgent.execute` inside the attempts of `_execute_with_retry`. `Turn`, `Raise` and
  `Timeout` are their exits; only a raised error is retried by the outer loop.
* `CheckEvidence`, `Join` (`TooManyFailed`, half of the agents) and `RiskDone` are the three
  routers.
* `face` says who runs the graph. The "pipeline" is what the Celery task calls: it has no
  checkpointer and derives its status from report and errors. The "runner"
  checkpoints behind the run (`Persist`, at any distance) and resumes from what was saved.
* `Crash` and `Restart` lose everything that was not saved.

| Property | Says |
|---|---|
| `FindingsOnce` | findings are appended once per agent, whatever was retried or resumed |
| `JoinIsBarrier` | risk and report see a result of every analysis agent, resumed runs included |
| `CompletedHasBasis` | "completed" means evidence, a risk result and fewer than half of the agents failed |
| `ReportedProgressStays` | what a poll has shown is not taken back by a crash |
| `RunEnds` | every run ends with an answer |

Read off the model: a report agent that fails does not make the runner's run fail
(`ReportDone` sets `completed` whatever happened, as `orchestrator.py:631` does), and the
error list `IntegrationStatus` looks at is never written, so the pipeline's face never
says "partial".

## One agent and the gateway (`LLMGateway.tla`)

What `AgentGraph` has as the single action `Turn`: an agent's turns, each a gateway request
with its own attempts, one correction, and three parsers that read a reply by different
rules (`TryParse`, `SchemaReport`, `ParseOutput`). A reply is a form (a bare object, a list,
a fence, two fences, prose around an object, broken JSON, …) and a kind for each field;
`Repaired`, `Coerced` and `Partial` are the passes of the validator. `Resolves` is the
model router over the providers a deployment has keys for.

| Property | Says |
|---|---|
| `AcceptedIsSound` | what is kept satisfies the schema; what the validator calls completed is in range too |
| `ParsersAgree` | a reply the gateway took, and so did not have corrected, is one the agent can use |
| `AgentAnswers` | `execute` comes back |

Two exceptions are written into the properties because the code has them: a list around
the answer reads as an empty object for the validator although the gateway took it, and
`parse_output` knows no business rules, so a two-fence reply that only it can read is
completed although out of range.

## The threat-intel run (`ThreatIntelRun.tla`)

Deliveries of the stage's task. `Begin` harvests the indicators (a limited query, a rank by
engine, a cap per class, the hosts of URLs) and routes each to one capable provider at
random. Then the lookups of the plan run on one event loop, which switches only at an
`await`: every action of a lookup is the code between two of them.

* `AskCache` is the answer of the cache, the breaker and the budget; `Enter` the semaphore,
  first come first served, and the second look at the breaker; `Acquire` and `Refill` the
  token bucket, whose sleepers all wake for one token; `Answer`, `Refused`, `Fails` and
  `Store` the call and what is made of it.
* Answers go to the session (`pending`) and become rows with the outcome (`Complete`).
  `GiveUp` is a harvest or an engine that raises, whose failed outcome takes the session's
  answers along; `Abandon` is a soft time limit or a database error, `Redeliver` a lost
  worker: both lose the session, the second starts again.

| Property | Says |
|---|---|
| `ObservedFirst` | an indicator only static analysis saw never takes the place of an observed one, unless the query cut the findings short; the host of a reported URL comes with it |
| `Paced` | concurrent waiters never share a token |
| `FailureContained` | a feed that is down costs the threshold plus what was in flight; one that refuses, what was in flight |
| `AnswersKept` | a committed outcome has a row for every verdict it rests on |
| `RunEnds` | nobody waits for ever at the semaphore or the bucket |

Read off the model: the limit of the query has no order, so above `MAX_FINDING_ROWS` the rank
decides nothing; a call in flight when the breaker trips closes it again if it succeeds, so a
feed that answers now and then has no bound on what it costs; the caps count duplicates; a
retry after a lost worker asks every feed again, although the comment in
`tasks/threat_intel.py:22` expects the cached answers of the first attempt; and the stage is
`ok` whatever failed, where the docstring of `pipeline.py:116` speaks of partial and failed
(the errors of a channel never reach the envelope).

## Uploads and stage transactions (`SampleIngest.tla`, `StageStore.tla`)

What `JobPipeline` has as one commit each, statement by statement. `SampleIngest` is the
upload endpoint: look for the hash, probe and write the bytes, insert and commit the rows,
dispatch the job; the local backend opens (and empties) a file before it fills it.
`StageStore` extends it with the deliveries of the static and the code-intel stage:

* `LookUp` and `Claim` are the two halves of `start_stage`; of two deliveries that saw no row
  the second insert fails. `Snapshot`, `Replace`, `Upsert` and `Complete` are one transaction:
  at READ COMMITTED the delete sees what was committed when it started, a statement that
  meets a locked row waits (its action is disabled), and what a transaction holds
  (`doomed`, `touched`) shows with its commit.
* `tree`, `unpacked` and `archive` are the decompiled tree on each host and in object storage;
  `AnalyzeStatic`, `Publish`, `Resolve`, `AnalyzeCode` and `CleanUp` are its way from one stage
  to the other. `FetchFails` is an archive that is there but cannot be downloaded or
  unpacked, a fault after which code intel goes on without the tree; `Goals` is when code
  intel has nothing to do, no static envelope or one without evidence.
* `LoseWorker` and `StageError` hit any step; `past` remembers whether two deliveries of a
  stage overlapped.

| Property | Says |
|---|---|
| `SampleHasBytes` | a committed sample has its bytes, whoever wrote them; on the local disk until a request is lost inside a write or meets another one's file |
| `NothingLost` | what an envelope in the table reports is in the findings table: no cascading delete takes a finding another envelope shares |
| `NoStaleRows` | until deliveries of one stage overlap there is one envelope per stage, and each finding row belongs to it |
| `DepthKept` | without a fault or a second delivery, code intel sees the tree exactly when static archived it or ran on its host |

The condition of `NoStaleRows` is tight: two overlapping deliveries leave two envelopes of one
stage run, since no constraint forbids it, and findings that point at either. Read off the
model too: the latest envelope is picked by `created_at`, which is when its transaction
began; a static run that raises on a retry removes the tree but keeps the envelope that
names it; a code-intel delivery after the clean-up replaces a deep envelope by a shallow one;
and the host that decompiled keeps tree and package when code intel ran elsewhere, although
`tasks/code_intel.py:166` says the workspace is removed. The attempt counter, kept engine
artifacts and database deadlocks are left out.

## Retrieval, correlation, scoring, sandbox, reports

Five components that share no state with each other; `MCAnalysis` extends all five modules
and a variable `part` says which of them a behaviour is about.

**`Knowledge.tla`**, the retrieval layer. A process loads the corpus (`Load`), sees to its
collection (`CheckCollection`, `CreateCollection`) and brings the store up to date document by
document: `Probe` compares hashes, `DeleteDocument`, `Embed` and `Upsert` replace what
changed, each a request of its own that may fail or be the process's last. A version that is
headings only has no chunks (`HasChunks`): the probe rejects it, and what is stored of an
earlier one stays. With the memory backend the store is the process's, with Qdrant all
processes share one. Then it searches twice (with and without the family) and selects passages
(`Select`).

**`Correlation.tla`**, from answers to findings. `Hear` is the reply of the feed an indicator
was routed to and what `providers/` make of it, `Correlate` the verdicts, severities and
labels of all answers, the findings, and the rows that are left of them after ids collide.

**`RiskScoring.tla`**, the pure algorithm with its tables. `Deliver` replaces an engine's
findings, `ScoreJob` reads the table in one of the orders the database may return, and
computes domain scores, synergies, tier and category.

**`Sandbox.tla`**, deliveries of one job's dynamic task. `TurnAway` is one that returns before
its `try` (a cancelled or missing job, no engine, a failing database); `Accept`, `CopyApk`,
`Spawn`, then `SandboxExits` or `TimesOut`, `Analyze`, `CleanUp` are the task's handler;
`Boot`, `Capture`, `Convert`, `WriteMetadata`, `StepFails` and the exit trap are the script,
which goes on without its task when that was killed or lost. `LoseWorker` brings the message
back, `ExceedLimit`, the hard time limit, does not; neither runs the `finally` block.

**`ReportStage.tla`**, scoring and reporting deliveries of two copies of the chain, the files
they write one by one and the envelope after them, and one client: the report page (report,
then score) and the download (envelope, file, audit record). `Gather` reads the oldest
`MaxRead` findings and takes the worst of them. `StartFile` empties a file and `FinishFile`
fills it, as on the local disk; a delivery may fail, be lost or be killed at its time limit
anywhere between (`StageFails`, `BreakOff`, `LoseReporter`, `KillReporter`).

| Property | Says |
|---|---|
| `IngestedIsCurrent` | an ingestion that reports leaves of every document it loaded exactly the chunks of that version, whatever was interrupted before; of one whose version has no chunks, one whole version or nothing |
| `SelectionSound` | a passage that matches is left out only for better ones that use up its limit |
| `FindingsFollowAnswers` | every adverse answer and every label has its row, and critical means the sample is known or two feeds agree, in any order of the answers |
| `MoreNeverLess` | scoring again after evidence was added never lowers score or tier; the same rows in another order get the same |
| `EvidenceIsOwn` | as long as deliveries do not overlap and none was lost, a delivery stores its own run's artifacts only |
| `NothingLeftBehind` | when all is quiet the sample is gone, unless a delivery was killed at its hard limit or the redelivery of a lost one was turned away; so are captures and emulators, but for runs that were killed or lost |
| `ServedIsTheReport` | a listed format has its file, whole unless a delivery is writing it or broke off there; while deliveries do not overlap it is of the report shown or a later one |
| `ReportIsCurrent` | when all is quiet and nothing failed, the report is of the findings and the score the job has, and of the findings that were read it leaves out nothing worse than what it carries |

Where one of these is conditional, the history variables `torn`, `shared`, `late`,
`lost`, `lapsed`, `beside` and `cut` name the case the code does not handle; see [What the code
does not keep](#what-the-code-does-not-keep).

## The edge (`ApiEdge.tla`)

One browser tab against the server. `Open`, `Receive` and `RefreshReturns` are the fetch
wrapper: a query that is answered 401 waits for the one refresh all of them share, is sent
once more, and ends the session if that fails too. `StartLogin`, `LoginReturns` and `Logout`
are the auth store; a login counts from when the user asks for it (`meant`), and one under way
at a logout still stores its answer. On the server `Count` and `SetExpiry` are the two halves
of the limiter's check, `WindowEnds` the expiry of its key, `Serve` and `Issue` the endpoints,
`TokenExpires` and `Deactivate` what happens to a session meanwhile; `LoseCall` is a lost
process or connection.

| Property | Says |
|---|---|
| `SessionIsMeant` | the session in the tab is the one the user last asked for, and ends only if the server turned it away, unless a refresh or replay of the session before was under way then, or a login at a logout |
| `QueryComesBack` | whoever waits for a refresh has one under way that wakes it |
| `RefusedHasExpiry` | nobody is refused on a counter that will not expire |

## Runs

| Run | Instance | Shows |
|---|---|---|
| `faults` | two workers; static, AI, scoring; one fault of each kind | the safety properties of `JobPipeline` |
| `ends` | two workers; the sandbox stage; one fault of each kind; fairness | `JobSettles`, `KeepsLifecycle` |
| `immutable` | one stage, one cancellation | `TerminalIsImmutable` is violated |
| `unrecorded` | static, scoring; one exception | `CompletedMeansEveryStageRecorded` is violated |
| `dropped` | static, AI, reporting; one lost task; fairness | `JobEnds` is violated |
| `agents` | two analysis agents, both faces, two crashes, a raised error, a failing graph; fairness | the properties of `AgentGraph` |
| `gateway` | two turns, two attempts, one field of each sort, two deployments; fairness | the properties of `LLMGateway` |
| `intel` | four indicators, two providers, three lookups, two deliveries; fairness | the properties of `ThreatIntelRun` |
| `store` | two uploads, or two chains on two hosts with one fault | the properties of `SampleIngest` and `StageStore` |
| `bytes` | S3, one chain, no fault | `JobFindsItsBytes` is violated |
| `analysis` | one of retrieval, correlation, scoring, sandbox and report at a time | the properties of the five modules |
| `edge` | one tab, two users, two queries, a budget of one request, any two of user acts and faults | the properties of `ApiEdge` |

Every passing property has a mutant, a definition beside the one it replaces that
changes it the way a plausible bug would (acknowledging on delivery, dispatching the
stages as a group, committing an outcome without its evidence, …) and that TLC finds.

## Bounds and fairness

* Two workers: two copies of the chain can run side by side, and the only pairs of actors
  that share a row are two tasks, or a task and the cancel handler. Workers are
  interchangeable (`WorkerSymmetry` in the run without liveness).
* `Budget` bounds each kind of fault. One crash duplicates the chain and one exception,
  one lost task and one cancellation can hit any copy at any point; a second crash only
  adds a third copy of what two already interleave. `MaxRetries = 1` lets the one
  exception be retried.
* `Enabled` picks three stages that differ in what the pipeline can tell apart: a source
  of evidence, a consumer without an outer handler, and one with two commits after its
  outcome. The sandbox stage of `ends` has the progress loop.
* `agents`: agents differ only in their name and in what the join counts; of two, one
  failed is exactly half, the threshold. The second crash hits a run that was itself
  resumed.
* `gateway`: two turns of two attempts and a correction, so that the loops nest and both
  end. Every form of reply and every kind of field value is in; one required and one
  optional field are the two cases the validator tells apart.
* `intel`: a breaker and a bucket of one and two calls in flight are the smallest at which
  a call finds either changed while it waits; a budget of three is one less than the
  indicators, one of them is a URL whose host is another, and one answer is cached.
* `store`: three scopes (`MCStageStore`): two uploads; two deliveries of the static stage
  over one finding; the tree through both stages. Each host has one worker.
* `analysis`: retrieval has two documents in two versions, one of them without chunks, two
  processes, three starts, one edit and one fault; it fetches one candidate per passage to be
  shown, where the code fetches three, as the corpus is scaled down alike. Correlation has an
  indicator of each class, three answers, replies on either side of every threshold, and
  labels of which two are one slug. Scoring reads four findings where the code reads 5000, and
  a job may have six. The sandbox has one trace and the metadata file, three deliveries and
  one each of copy, worker lost or killed and late sandbox; deliveries are alike and numbered
  as they come. The report has two formats, a body of two where the code has 250, out of three
  findings read where the code reads 5000, two copies of the chain, one error, kill or lost
  worker, and a job whose findings change once, from more than are read to none. Conjuncts of
  `MCNext` cut interleavings that change nothing: one process searches at a time, what has
  answered ends, and a client that has read its file or score finishes first.
* `edge`: two queries are the least that share a refresh; tokens expire only when a
  request with them is under way, as nobody looks at them before.
* `CHECK_DEADLOCK` is on wherever the system does not stop by itself: in `faults` and its
  siblings `Finished` is the only way to stop, and it requires that nothing is queued,
  running or half done; in `store` the same holds for every request and message. It is off
  in `analysis` and `edge`, where the bounds run out and nothing is left to do.
* Fairness is weak. In the pipeline it is per worker: a live worker keeps taking tasks and
  finishing them, and the API finishes the handlers it started; Celery's prefork workers
  poll their queues, and the stages run on bounded time limits. No fault, no cancellation
  and no progress tick is owed by anybody, and nothing assumes that a particular worker
  takes a particular message. In `AgentGraph`, `ThreatIntelRun` and `LLMGateway` it is of
  the event loop: it runs what is ready, a call to a model or a feed ends, if only by its
  time limit, and a lost process is started again. The other modules state no liveness and
  assume none.

## Proofs

Each theorem holds for every value of its module's constants, so for any number of workers,
uploads, agents, queries, indicators, findings and faults, from the assumptions the module
declares (`Enabled` is a set of stages, `MaxRetries` a number, a set of agents is finite, a
concurrency positive, a file hash has no host, the ids of findings are distinct numbers that
stand for their order, no process is called as the shared store is, …):

| Module | Theorem | States |
|---|---|---|
| `JobPipelineProofs` | `TypeCorrect` | `Spec => [](TypeOK /\ HandlerMatchesTask)` |
| | `OutcomesHaveEvidence` | `Spec => []EvidenceBacksOutcome` |
| | `DerivedHasSource` | `Spec => []EvidenceProvenance` |
| | `TasksHaveTheirJob` | `Spec => []NoOrphanTask` |
| | `StagesSettle` | `Spec => []EveryStageSettled` |
| | `RiskIsWritten` | `Spec => []ScoredJobHasRisk` |
| | `ChainIsOneTask` | `Spec => []OneTaskAtATime` |
| | `VerdictHolds` | `Spec => []VerdictMatchesRows` |
| | `EndedFrozen` | `Spec => EndedIsFrozen` |
| | `ProgressGrows` | `Spec => ProgressMonotone` |
| | `ImplementsLifecycle` | `Spec => LifeSafety`, the refinement without its fairness |
| `AgentGraphProofs` | `GraphTyped` | `Spec => []TypeOK` |
| | `FindingsOnceHolds` | `Spec => []FindingsOnce` |
| | `JoinIsBarrierHolds` | `Spec => []JoinIsBarrier` |
| | `CompletedHasBasisHolds` | `Spec => []CompletedHasBasis` |
| | `ReportedProgressStaysHolds` | `Spec => ReportedProgressStays` |
| `LLMGatewayProofs` | `CallsBounded` | `Spec => []TypeOK`: a turn's attempts and corrections never multiply past `(turns + 1) * (attempts + 1)` calls |
| | `KeptIsSound` | `Spec => []AcceptedIsSound` |
| | `NoReplyWasted` | `Spec => []ParsersAgree` |
| `ThreatIntelProofs` | `IntelTyped` | `Spec => []TypeOK` |
| | `PacedHolds` | `Spec => []Paced` |
| | `FailureContainedHolds` | `Spec => []FailureContained` |
| | `AnswersKeptHolds` | `Spec => []AnswersKept` |
| | `ObservedFirstHolds` | `Spec => []ObservedFirst` |
| `StageStoreProofs` | `StoreTyped` | `Spec => []TypeOK` |
| | `SamplesHaveBytes` | `Spec => []SampleHasBytes` |
| | `NoFindingLost` | `Spec => []NothingLost` |
| | `RetriesReplace` | `Spec => []NoStaleRows` |
| | `TreeIsHandedOver` | `Spec => []DepthKept` |
| `ApiEdgeProofs` | `EdgeTyped` | `Spec => []TypeOK` |
| | `WaitersAreWoken` | `Spec => []QueryComesBack` |
| | `SessionKept` | `Spec => []SessionIsMeant` |
| | `RefusalsEnd` | `Spec => RefusedHasExpiry` |
| `AnalysisProofs` | `OwnEvidence` | `SandboxSpec => []EvidenceIsOwn` |
| | `CleansUp` | `SandboxSpec => []NothingLeftBehind` |
| | `ServesTheReport` | `ReportSpec => []ServedIsTheReport` |
| | `ReportsWhatIsThere` | `ReportSpec => []ReportIsCurrent` |
| | `IngestsCurrent` | `KSpec => []IngestedIsCurrent` |
| `ComputedProofs` | `SelectsSoundly` | `KSpec => []SelectionSound` |
| | `RowsFollowAnswers` | `CSpec => []FindingsFollowAnswers` |
| | `RescoringNeverLess` | `SSpec => MoreNeverLess` |

**Rows and evidence.** `TypeOK` is not inductive: that `Complete` adds an enabled stage to
`evidence` needs `HandlerMatchesTask`, a worker inside a stage handler holds the message
of an enabled stage. `EvidenceBacksOutcome` follows from it and `EvidenceStep`: evidence
only grows and only `Complete` writes an outcome that needs it. `EvidenceProvenance` is
strengthened to `ProvenanceInv`: what a stage read before it claimed its row (`seen`) is
still evidence when it stores its envelope, and a risk in a worker's stale copy of the
row has its score, since a stale copy may be written back. `NoOrphanTask` needs
`Recorded`: before the upload handler is done nothing is queued or running, and neither a
copy of the row nor a verdict is ever empty when it is written.

**Redelivered chains.** A lost worker's message comes back and may start a second chain beside
the first, so the token of the next paragraph is gone. What is left is `SettleInv`, per
combination of faults: a claimed row is *held*, by a worker in the handler or by a message
that will take the stage up again (`Claimed`); a message or a worker is at a task only over
rows of all stages before it, in however many copies (`Covered`); a scored job has its risk,
or a worker in scoring is about to write it, or, after a crash, scoring will run again
(`RiskFollows`, `RiskInHand`). The stale copies are why `RiskKept` is needed: a worker writes
back what it read, so a risk any worker has seen must still be on the row.

**The chain.** The four properties that hold until a worker is lost follow from one
invariant, `Calm => ChainInv`. `OneToken` says that the chain is one token, a message or
a busy worker; `ProgressBelow` that the row's progress is within the ceiling of the task
that has the token; `CopyIsCurrent` that the token's worker holds a copy with the row's
progress, and that in finalize its verdict is the one the rows add up to;
`EndedIsQuiet` that an ended job has no token. Three lemmas say what a step does to the
token (`TokenStays`, `TokenSent`, `TokenTaken`), three lift them to `ChainInv`
(`BusyMoves`, `BusySends`, `TaskTaken`), and every action is an instance of one of these.
`CalmStep` says that a step into a calm state starts in one: budgets only shrink.

**The refinement.** `LifeInv` adds what the token's place says about the status
(`StatusFits`: no row before the upload commits, queued until analyze writes, running
after) and that a lost task takes the token with it (`LostIsQuiet`), which is why nothing
is claimed or ended after a loss. `RowStep` lists what a worker's step can do to the
row, and `LifeStep` maps each step to `Create`, `Claim`, `Advance`, `End`, `Lose`,
`Disturb` or a stutter.

**The graph.** `Inv` says `Good` of the run *and* of the checkpoint, since a crash turns the one
into the other: an agent has no result before its superstep is over and its findings are
appended exactly when it has one (`OneResult`), the nodes behind the join see all results
(`Barrier`), and the stations a graph has passed tell what it has (`Passed`). `Behind` says that
the checkpoint has nothing the run has not and that a final status it shows is the run's,
which makes `ReportedProgressStays` an invariant's consequence. `Basis` carries `Passed` over to
the answer.

**The gateway.** The lemmas say what mending does to a reply: a valid one stays valid when it
is coerced, and each case of the validator's report is usable only with a valid instance or
a partial one that lacks no required field. `Within` counts the calls by turn and attempt.
`FormsAgree` goes through the shapes of a reply: what one parser reads the others read too.

**The threat-intel run.** `Orderly` says who waits where and that nobody is queued twice;
`Accounted` that the session holds the verdicts of this run and the table those of committed
ones. `Contained` is the accounting of a provider that never answered: while its breaker is
closed, the failures counted are those it cost; once it is open, the failures and the calls
still in flight, each of which may fail yet, are at most the threshold plus the
concurrency less one. For one that refuses, the same with the lookups that still pace.
`Harvested` says that the plan of a run comes from rows that are in the table still; with
what the sort and the caps keep of them that makes `ObservedFirst`. The proof showed why the
host of a URL must be left out: it is looked up even when no provider is there for its URL.

**The store.** For the bytes, what is committed was written before (`SampleHasBytes` is
inductive with the types). For the rows, `Ledger`: ids are unique, a finding's row belongs to
an envelope no open transaction has condemned unless every envelope that reports it is
condemned too (`OwnerIsLast`), and a transaction that is about to commit has touched all it
reports (`Writing`). This is where READ COMMITTED matters: no lock is taken, and the cascade
still removes only findings nobody else reports. Until deliveries overlap, `OneByOne` adds that
one delivery at a time deletes all there is. For the tree, `Handover`: code intel is heard of
only when static is done (`StaticFirst`); until it has begun to read, every tree is named by
an envelope and what an envelope names is there (`TreesKept`); from the moment it has
resolved its source, what it reads is what static left within its reach (`AsDeep`).

**The edge.** `Named` and `QueryComesBack` are inductive together: the refresh is idle only when
nobody waits, because the step that ends it wakes everybody. `RefusedHasExpiry` needs that a
call put aside to set its expiry belongs to a principal. `Session` is about whose tokens are
where: what a refresh got belongs to the user it was for (`Refreshed`), and, unless calls of
an earlier session were under way at a login or logout, or a login at a logout (`stray`),
the refresh and the queries sent again are of the session the user means (`Faithful`).

**The sandbox.** `BoxInv`: a sandbox runs for a task that waits for it or for one that was cut
short (`Attended`), and what is on the disk is there for somebody, or for a delivery still
queued, unless the one that should have removed it was killed or turned away (`Used`,
`lapsed`). Until the directory is shared, one delivery at a time is engaged, the files are its
own and the emulator on the port is the one it started (`Alone`).

**The report.** Until deliveries overlap, there is at most one of each task (`OneEach`), and
what is stored only gets newer: a delivery holds inputs between those of the stored report and
those of the job (`Forward`), and a reader is behind both (`ReaderSees`). `Whole` says that
each file is the stored report's, filled, or in the hands of a delivery that is saving them.
Without errors someone is always on the way to the report of what there is (`ToFindings`,
`ToScores`): that is what makes a statement about the end of all copies an invariant's
consequence. The body is the least elements by severity and id of the `MaxRead` oldest; that
something least exists is well-foundedness of the numbers, and that the body is full is
counting (`BodyLeavesTheLeast`).

**The knowledge base.** What a store holds of a document is one whole version, if anything
(`OneVersion`); while it is being replaced, the replacer's (`OwnVersion`); and of what an
ingestion has behind it, the version it loaded, if that has chunks (`UpToDate`). Ingestions
that overlap agree on a version or the document is torn (`SameVersion`).

**What is computed from data.** Selections, findings and scores are folds, and a fold is
`CHOOSE` of a recursive function. The library's induction takes an operator; here a set stands
for the property (`Upwards` on numbers, `BySize` on finite sets: of what has it not, take a
least one). With them `FoldExists` shows that the function is there, the lemmas on `Sum` that a
sum depends on nothing but its summands (not on the order, nor on the function chosen), and
`LeftsRun` that a left fold goes through the values its step gives.

*Retrieval.* The store has one chunk to an id and finitely many (`StoreInv`), so `Better` ranks
what is found without ties (`RankedIs`). Whoever admits the candidates in that order keeps the
limits, and a chunk that is refused has its reason in those chosen before it, which stay
(`AdmitsWithin`, `SelectsBest`). What was shown stays sound until the next answer.

*Correlation.* In one run an indicator has one answer (`IsRun`), so the findings are those that
the set of answers calls for (`FindingsAre`), and the order can only matter where two of them
share an id: `IdsApart` says that this takes two spellings of one label.

*Scoring.* A score is written as a sum over sets of findings (`ScoreOf`, `TotalOn`), whatever
order their rows were read in; it grows with the set (`DomainGrows`, `FinalGrows`), also through
the rounding, the synergy rules and the tiers. The category is one of the leading ones
(`LeadersAre`, `ClassifyIs`), hence the same if one leads. The proof needs that a delivery is
finite and that something is read (`MaxFindings` is positive).

The assumptions these add: lengths and scores are numbers (`MeasureAssumption`), a label is a
text with its slug (`SaysAssumption`, `correlate.py:107`), a finding's techniques are a
sequence of non-empty names and its confidence is a percentage or unstated
(`ScoringAssumption`).

Only model-checked: liveness (`JobSettles`, the fairness of `JobLifecycle`, `RunEnds` of
both modules, `AgentAnswers`), which TLAPS does not do. Every invariant and every action
property of the passing runs is proved; the other way round, the types of all modules but
`JobPipeline` are proved and not run. What `Score` makes of a query, the vectors, is a
constant; so are the replies of the feeds.

## What the code does not keep

Four statements of the repository's own comments and documents do not hold, each a run
with `"expect": "violation"`:

* *"Immutable once terminal"* (`backend/app/db/models/analysis.py:83`): `_start` reads
  the job, decides, and writes `running` later; a cancellation committed in between is
  lost (`immutable`).
  `_TERMINAL` leaves out partial, which `frontend/src/lib/hooks/use-jobs.ts:7` calls terminal
  too, so a redelivered analyze restarts such a job.
* *"any partial, failure, or skip → partial"* (`backend/app/tasks/pipeline.py:86`): a stage
  that fails before it claims its row leaves none, and the job is completed
  (`unrecorded`).
* *"never silently dropped"* (`docs/architecture/05-messaging.md:67`): a hard time limit, an
  error in the AI task or a lost publish ends the chain and the job never ends
  (`dropped`).
* *"a crash never leaves a job pointing at bytes that aren't there"*
  (`backend/app/services/upload.py:6`): `services/samples.py:27` always reads the local disk,
  and deployments must be configured with S3, so no job finds its bytes (`bytes`).

More was met while modelling and has no run of its own. The properties leave these cases out
by the conditions they state.

* **Gateway.** `for_providers` (`ai/integration.py:141`) gives an Anthropic-only
  deployment a default model that no registered provider serves, against its docstring at
  line 129. The usage a gateway call reports is that of its last response
  (`ai/llm/factory.py:386`), so the tokens of corrected and rejected replies are lost,
  against the comment at `backend/app/tasks/ai.py:121`.
* **Retrieval.** A version that is headings only has no chunks (`ai/rag/chunking.py:51`), so
  the ingestion rejects it before it deletes anything (`ingest.py:219`) and the version before
  is found for ever, where `ai/rag/models.py:95` says "replaced, not merged". The chunks of a
  document that was removed or is no longer trusted stay in the store and are found, though
  `ai/rag/ingest.py:10` has it that the store can only ever contain trusted text; an edit of
  its metadata alone goes unseen. Two overlapping ingestions of different versions into one
  Qdrant collection leave a mixture that later ones take for current (`torn`). A new embedder
  needs `force`, which the service never passes. The search for the family
  (`ai/rag/retriever.py:8`) brings only passages the unfiltered one brings too, unless its cut
  at the number of candidates left them out.
* **Correlation.** Each indicator is sent to one feed per run (`pipeline.py:173`), so the
  bonus for corroboration and the consensus of `correlate.py:111` never see two answers
  about one indicator. Feeds that spell a family differently do not corroborate each
  other, and of two spellings with one id the order of an unordered query picks the row.
  URLhaus's `threat` is read as a family.
* **Scoring.** A score that is a threshold in exact arithmetic may fall below it in
  floating point: the weighted scores 8.50, 15.00, 6.00, 3.19, 1.12, 3.19 and 3.00 add up
  to 39.99999999999999, which is stored as 40.0 beside the tier "benign"
  (`ai/scoring/engine.py:106`). The cap on findings keeps the oldest rows, so what a later
  stage found may not be scored, where the comment at `backend/app/tasks/scoring.py:50`
  says that more adds nothing. A tie between two categories is decided by the order of
  rows with equal `created_at`.
* **Sandbox.** "The process tree is killed on expiry" (`services/sandbox.py:21`): only the
  child is. Deliveries of a job share a directory and a port: artifacts of two runs mix,
  one run's exit trap may stop another's emulator, and a run whose task is gone makes the
  directory again. A directory removed by another delivery is reported as missing bytes. A
  redelivery that is turned away (`dynamic.py:73-96`, say of a job cancelled meanwhile) leaves
  the sample a lost worker had copied on the disk, and so does the hard time limit.
* **Reports.** On the local disk a client may be served a file that is empty or half written
  (`storage/local.py:22-24`), by a delivery in the middle of it or one that broke off there.
  Findings recorded after the oldest 5000 are not in the report, however severe
  (`reporting.py:122`). A delivery killed at its time limit leaves a report that is not of
  the job's findings. Overlapping deliveries may leave the files of one report beside the
  envelope of another, and a delivery that fails between the two leaves newer files under
  the old envelope. A failed rerun goes on serving the old report; one whose findings are
  gone keeps the old score beside an empty body. Ids of findings collide across engines,
  so the compliance mapping is ambiguous; it covers only the findings of the body.
* **Session.** A login answered after a logout signs the user in again (`use-auth.ts:14-16`).
  A refresh in flight at a logout or login stores its tokens over what the
  user asked for since, and the 401 of a query replayed for the old session clears the new
  one. A 429 or a lost connection at the refresh logs the user out. Refresh tokens are
  stateless: an old one stays valid, so a second refresh would not "invalidate its own
  session" as `frontend/src/lib/api/client.ts:33` says.
* **Audit.** `audit.record` swallows a failed flush (`repositories/audit.py:7`: auditing
  "must not be able to break the action it records"), but the session is unusable after
  it, and the caller's commit raises.

## Plan

Done, in this order: `JobPipeline` and `JobLifecycle`; `AgentGraph`; `LLMGateway`;
`ThreatIntelRun`; `SampleIngest` and `StageStore`; the five modules of `MCAnalysis`;
`ApiEdge`; and the proofs above, which leave no invariant of a run to TLC alone.

Left, by what it would add:

1. The abstract specification of what a stage's store promises (a stage has the findings of its
   last envelope), and that `StageStore` implements it until deliveries overlap.
2. Several tabs over one browser storage, and the second bucket of the limiter.

## Not modelled

* The static and code-intel engines are single-threaded functions over files; what they report
  is an input of the pipeline and of the store.
* `RetryHandler`, its circuit breaker, the output validator, streaming and the older model
  clients are exported and used by nothing but tests.
* The read side of the API, audit rows, metrics, the command lines and the deployment files have
  no state transitions of their own; where an endpoint's reads race a task (reports, job
  status) they are in the module of the task.
* React Query's cache and retries, and what passwords and roles decide; a second login
  beside one under way.
* The options that keep artifacts (`dynamic_keep_artifacts`, `keep_engine_artifacts`), a
  directory that cannot be removed, and the serialisation failure of a finished agent graph
  (`orchestrator.py:277-344`), which ends it as failed like other errors there.
* Error texts, timestamps and payloads are abstracted to what the properties tell apart; so are
  chunk boundaries, vectors, the wording of findings and reports, and the attempt counter of a
  stage row. The retry's publish and the acknowledgement that follows it are one step.

`PROJECT.json` lists every component with its status.
