-------------------------------- MODULE Sandbox --------------------------------
(* The dynamic stage's sandbox: deliveries of one job's task (backend/app/tasks/dynamic.py),
   the runner that starts a sandbox for each and waits for it (services/sandbox.py), the
   script that boots an emulator and writes artifacts (infra/sandbox/run_analysis.sh), and
   the engine that reads them (engines/dynamic).  All deliveries of a job share one
   directory, which each of them removes when it returns; a sandbox is a process, or a
   container, that can go on without the task that started it.

   Simplifications.  Dynamic analysis is enabled, and the workers share one disk, as in
   the compose deployment; the worker may remove what a sandbox wrote, and artifacts are
   not kept for debugging (dynamic_keep_artifacts).  A trace is what one converter and one
   extractor work on; which run it was captured in is all that is known of it; a part of a
   sample counts as one.  Reading the artifacts and removing the directory are one step
   each.  The stage's row and its progress are in JobPipeline.                         *)
EXTENDS Naturals, FiniteSets

CONSTANTS
  Tasks,       \* deliveries of the task
  Traces,      \* frida, network, logcat
  MaxCopies, MaxLost, MaxLate   \* bounds of the model

NoRun == "none"

ASSUME SandboxAssumption ==
  NoRun \notin Tasks /\ "metadata" \notin Traces /\ {MaxCopies, MaxLost, MaxLate} \subseteq Nat

VARIABLES
  mode,       \* settings.sandbox_runner: "compose" or "script"
  queue,      \* copies of the task in the broker
  task,       \* delivery -> where its handler is
  run,        \* delivery -> where its sandbox is
  emulators,  \* the runs whose emulator is up
  serial,     \* script: the run whose emulator has the port every adb command means
  disk,       \* the job's directory
  envelope,   \* delivery -> the runs its envelope has artifacts of
  copies,     \* counter of the bound
  late, lost, \* tasks whose sandbox was killed for time, whose worker was lost (history)
  shared,     \* a delivery began beside another, or after one cut short (history)
  lapsed      \* since the directory was last removed, a delivery was killed for time, or was
              \* turned away after one was cut short (history)

boxvars ==
  <<mode, queue, task, run, emulators, serial, disk, envelope, copies, late, lost, shared, lapsed>>

Artifacts == Traces \cup {"metadata"}
NoFiles == [t \in Traces |-> NoRun]
Removed == [input |-> FALSE, apk |-> FALSE, output |-> FALSE, raw |-> FALSE,
            captured |-> NoFiles, made |-> [a \in Artifacts |-> NoRun]]

Handling == {"copying", "begun", "waiting", "analyzing", "cleaning"}
Running == {"starting", "booting", "capturing", "converted"}
Busy(d) == task[d] \in Handling
Up(d) == run[d] \in Running

TaskAt(d, phase) == task' = [task EXCEPT ![d] = phase]
Runs == UNCHANGED <<run, emulators, serial>>
Rest == UNCHANGED <<mode, queue, envelope, copies, late, lost, shared, lapsed>>

(* ------------------------------ the task's handler --------------------------- *)

\* A worker was lost, or a sandbox was not killed when its time was up: it may still write.
Outlived == lost # {} \/ \E d \in late : run[d] # "killed"

\* The task is delivered, to a job that is gone or cancelled, a database that fails or a
\* worker without the engine: it returns before anything is made or removed.
TurnAway(d) ==
  /\ task[d] = "none" /\ queue > 0 /\ queue' = queue - 1
  /\ TaskAt(d, "done")
  /\ lapsed' = (lapsed \/ lost # {})
  /\ Runs /\ UNCHANGED <<mode, disk, envelope, copies, late, lost, shared>>

\* The task is delivered; materialize_apk makes the input directory.
Accept(d) ==
  /\ task[d] = "none" /\ queue > 0 /\ queue' = queue - 1
  /\ TaskAt(d, "copying")
  /\ disk' = [disk EXCEPT !.input = TRUE]
  /\ shared' = (shared \/ Outlived \/ \E e \in Tasks : Busy(e) \/ Up(e))
  /\ Runs /\ UNCHANGED <<mode, envelope, copies, late, lost, lapsed>>

\* Then it writes the sample.  Another delivery may have removed the directory: that, and
\* bytes that cannot be loaded or written, fail the stage.
CopyApk(d) ==
  /\ task[d] = "copying"
  /\ \/ /\ disk.input /\ disk' = [disk EXCEPT !.apk = TRUE]
        /\ TaskAt(d, "begun") \/ TaskAt(d, "cleaning")
     \/ UNCHANGED disk /\ TaskAt(d, "cleaning")
  /\ Runs /\ Rest

\* The stage is claimed and the sandbox started, unless the row or the executable fails.
Spawn(d) ==
  /\ task[d] = "begun"
  /\ disk' = [disk EXCEPT !.output = TRUE]
  /\ \/ TaskAt(d, "waiting") /\ run' = [run EXCEPT ![d] = "starting"]
     \/ TaskAt(d, "cleaning") /\ UNCHANGED run
  /\ UNCHANGED <<emulators, serial>> /\ Rest

\* The artifacts that are there, whoever wrote them.
Produced == {a \in Artifacts : disk.made[a] # NoRun}

\* An exit code other than 0, or none of the files there, is a failed stage.
SandboxExits(d) ==
  /\ task[d] = "waiting" /\ run[d] \in {"ok", "error"}
  /\ TaskAt(d, IF run[d] = "ok" /\ Produced # {} THEN "analyzing" ELSE "cleaning")
  /\ Runs /\ Rest /\ UNCHANGED disk

\* What ends with the child process: the script on the host, or a container not there yet.
Killable(d) == Up(d) /\ (mode = "script" \/ run[d] = "starting")

\* The budget is up: the child is killed, and only the child.  In script mode that is the
\* script, whose trap does not run; in compose mode the client, whose container goes on.
TimesOut(d) ==
  /\ task[d] = "waiting" /\ Up(d)
  /\ Cardinality(late) < MaxLate /\ late' = late \cup {d}
  /\ TaskAt(d, "cleaning")
  /\ run' = IF Killable(d) THEN [run EXCEPT ![d] = "killed"] ELSE run
  /\ UNCHANGED <<mode, queue, emulators, serial, disk, envelope, copies, lost, shared, lapsed>>

\* What an extractor finds in its file it takes for the sample's behaviour.
Extracted(parsed) == {disk.made[a] : a \in parsed}

\* Every extractor whose file is there runs, and may raise; without the directory the stage
\* fails.  What could be parsed goes into the envelope.
Analyze(d) ==
  /\ task[d] = "analyzing"
  /\ \/ /\ disk.output
        /\ \E parsed \in SUBSET Produced : envelope' = [envelope EXCEPT ![d] = Extracted(parsed)]
     \/ UNCHANGED envelope
  /\ TaskAt(d, "cleaning")
  /\ Runs /\ UNCHANGED <<mode, queue, disk, copies, late, lost, shared, lapsed>>

\* Mutant: only a stage that has an envelope removes the directory.
CleanUpWhenDone(d) ==
  /\ task[d] = "cleaning"
  /\ disk' = IF envelope[d] # {} THEN Removed ELSE disk
  /\ TaskAt(d, "done")
  /\ Runs /\ Rest

\* What rmtree, which ignores every error, may leave of directories others write to now.
Remains(d) ==
  LET written == disk.input /\ \E e \in Tasks \ {d} : task[e] = "copying"
      used    == \E e \in Tasks : Up(e)
  IN  {[Removed EXCEPT !.input = i, !.output = o, !.raw = r] :
         i \in {FALSE, written}, o \in {FALSE, used /\ disk.output}, r \in {FALSE, used /\ disk.raw}}

\* The finally block: whatever happened, and whoever else uses it, the directory goes.
CleanUp(d) ==
  /\ task[d] = "cleaning"
  /\ disk' \in Remains(d)
  /\ TaskAt(d, "done") /\ lapsed' = FALSE
  /\ Runs /\ UNCHANGED <<mode, queue, envelope, copies, late, lost, shared>>

\* The worker process is gone before the finally block.  Its sandbox goes on, unless it is
\* a container not there yet, or a script that falls over the broken pipe.
CutShort(d) ==
  /\ Busy(d)
  /\ Cardinality(lost) < MaxLost /\ lost' = lost \cup {d}
  /\ TaskAt(d, "lost")
  /\ run' \in {run, [run EXCEPT ![d] = IF Killable(d) THEN "killed" ELSE @]}
  /\ UNCHANGED <<mode, emulators, serial, disk, envelope, copies, late, shared>>

\* A lost worker's task is delivered again, ...
LoseWorker(d) == CutShort(d) /\ queue' = queue + 1 /\ UNCHANGED lapsed

\* ... one that is killed at the hard time limit is not.
ExceedLimit(d) == CutShort(d) /\ lapsed' = TRUE /\ UNCHANGED queue

\* A second copy of the chain reaches this stage.
Copy ==
  /\ copies < MaxCopies /\ copies' = copies + 1
  /\ queue' = queue + 1
  /\ UNCHANGED <<mode, task, disk, envelope, late, lost, shared, lapsed>> /\ Runs

(* ------------------------------ run_analysis.sh ------------------------------ *)

\* Mutant: the trap is set once everything is installed.
ExitUntrapped(d, code) ==
  /\ run' = [run EXCEPT ![d] = code]
  /\ emulators' = IF code = "error" THEN emulators
                  ELSE emulators \ {IF mode = "compose" THEN d ELSE serial}
  /\ serial' = NoRun

\* The EXIT trap.  A container takes its emulator with it; a script on the host stops the
\* one at emulator-5554, whichever script started that.
Exit(d, code) ==
  /\ run' = [run EXCEPT ![d] = code]
  /\ emulators' = emulators \ {IF mode = "compose" THEN d ELSE serial}
  /\ serial' = NoRun

\* Any command may fail, up to the end of the captures: without hooks to inject the script
\* falls over the variable that would hold their process.
StepFails(d) ==
  /\ run[d] \in {"starting", "booting", "capturing"}
  /\ Exit(d, "error")
  /\ UNCHANGED <<task, disk>> /\ Rest

\* Makes the directory for what is captured, reads the sample and starts an emulator; on
\* the host the second one gets another port.
Boot(d) ==
  /\ run[d] = "starting"
  /\ disk' = [disk EXCEPT !.output = TRUE, !.raw = TRUE]
  /\ IF disk.apk
     THEN /\ run' = [run EXCEPT ![d] = "booting"] /\ emulators' = emulators \cup {d}
          /\ serial' = IF mode = "script" /\ serial = NoRun THEN d ELSE serial
     ELSE Exit(d, "error")
  /\ UNCHANGED task /\ Rest

\* adb answers if it knows which emulator is meant; the captures that can be opened are,
\* and the sample is installed and launched.
Capture(d) ==
  /\ run[d] = "booting"
  /\ disk.apk /\ (mode = "script" => emulators = {d})
  /\ run' = [run EXCEPT ![d] = "capturing"]
  /\ \E opened \in SUBSET (IF disk.raw THEN Traces ELSE {}) :
       disk' = [disk EXCEPT !.captured = [t \in Traces |-> IF t \in opened THEN d ELSE @[t]]]
  /\ UNCHANGED <<task, emulators, serial>> /\ Rest

\* Each converter works on the file of that name, if it is there, and may fail.
Convert(d) ==
  /\ run[d] = "capturing"
  /\ run' = [run EXCEPT ![d] = "converted"]
  /\ \E ok \in SUBSET {t \in Traces : disk.output /\ disk.captured[t] # NoRun} :
       disk' = [disk EXCEPT !.made = [a \in Artifacts |-> IF a \in ok THEN disk.captured[a] ELSE @[a]]]
  /\ UNCHANGED <<task, emulators, serial>> /\ Rest

\* The metadata, for which the directory must still be there, and the end of the script.
WriteMetadata(d) ==
  /\ run[d] = "converted"
  /\ disk' = IF disk.output THEN [disk EXCEPT !.made["metadata"] = d] ELSE disk
  /\ Exit(d, IF disk.output THEN "ok" ELSE "error")
  /\ UNCHANGED task /\ Rest

(* ---------------------------------- the whole -------------------------------- *)

SandboxInit ==
  /\ mode \in {"compose", "script"}
  /\ queue = 1 /\ copies = 0
  /\ task = [d \in Tasks |-> "none"] /\ run = [d \in Tasks |-> "none"]
  /\ emulators = {} /\ serial = NoRun
  /\ disk = Removed
  /\ envelope = [d \in Tasks |-> {}]
  /\ late = {} /\ lost = {} /\ shared = FALSE /\ lapsed = FALSE

TaskStep(d) ==
  \/ TurnAway(d) \/ Accept(d) \/ CopyApk(d) \/ Spawn(d) \/ SandboxExits(d) \/ TimesOut(d)
  \/ Analyze(d) \/ CleanUp(d)

RunStep(d) == StepFails(d) \/ Boot(d) \/ Capture(d) \/ Convert(d) \/ WriteMetadata(d)

SandboxNext ==
  Copy \/ \E d \in Tasks : TaskStep(d) \/ RunStep(d) \/ LoseWorker(d) \/ ExceedLimit(d)

SandboxSpec == SandboxInit /\ [][SandboxNext]_boxvars

(* -------------------------------- properties --------------------------------- *)

\* What a delivery stores as the behaviour of the sample was captured in its own run: the
\* artifacts of a run that failed, and of a delivery that has returned, are never taken
\* for those of the next, which uses the same directory and finds whatever is in it
\* (services/sandbox.py:188).  Not so beside another delivery, or its sandbox, nor after one
\* that was lost or that a sandbox outlived: nothing tells the files of one run from those
\* of another.
EvidenceIsOwn == ~shared => \A d \in Tasks : envelope[d] \subseteq {d}

\* When all is quiet the sample is gone from the disk, however many deliveries shared the
\* directory and removed it under each other: one that is lost is delivered again, and that
\* one cleans up.  The code does not keep this if that one is turned away, the job having
\* been cancelled meanwhile (dynamic.py:73-76), or if a delivery was killed at its hard time
\* limit, and no other one cleaned up since.  What was captured is gone too, unless a
\* sandbox outlived the task that waited for it: one killed for time, or of a lost worker,
\* may make the directory again.  So is every emulator, but for a script on the host that
\* was killed or took another one's emulator for its own.  And no sandbox outlives its task
\* unless the budget ran out.
NothingLeftBehind ==
  /\ (queue = 0 /\ \A d \in Tasks : ~Busy(d) /\ ~Up(d)) =>
       /\ disk.apk => lapsed
       /\ late \cup lost = {} => disk.captured = NoFiles /\ Produced = {}
       /\ emulators = {} \/ (mode = "script" /\ (late \cup lost # {} \/ shared))
  /\ \A d \in Tasks : task[d] = "done" /\ Up(d) => d \in late
================================================================================
