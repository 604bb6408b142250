---------------------------- MODULE AnalysisProofs ----------------------------
(***************************************************************************)
(* Proofs about the sandbox of the dynamic stage, the report and the       *)
(* knowledge base: for every number of deliveries, workers and processes   *)
(* and whatever the bounds.                                                *)
(***************************************************************************)
EXTENDS Sandbox, ReportStage, Knowledge, FiniteSetTheorems, WellFoundedInduction, TLAPS

-----------------------------------------------------------------------------
(* The sandbox: what is where. *)

TaskPhases == Handling \cup {"none", "done", "lost"}
RunPhases == Running \cup {"none", "ok", "error", "killed"}

Disk == [input : BOOLEAN, apk : BOOLEAN, output : BOOLEAN, raw : BOOLEAN,
         captured : [Traces -> Tasks \cup {NoRun}], made : [Artifacts -> Tasks \cup {NoRun}]]

BoxType ==
  /\ mode \in {"compose", "script"} /\ queue \in Nat
  /\ task \in [Tasks -> TaskPhases] /\ run \in [Tasks -> RunPhases]
  /\ emulators \subseteq Tasks /\ serial \in Tasks \cup {NoRun}
  /\ disk \in Disk
  /\ envelope \in [Tasks -> SUBSET (Tasks \cup {NoRun})]
  /\ late \subseteq Tasks /\ lost \subseteq Tasks /\ shared \in BOOLEAN /\ lapsed \in BOOLEAN

LEMMA RemovedType == Removed \in Disk
BY DEF Removed, NoFiles, Disk

\* What rmtree may leave is directories, which nothing but those who write to them now has.
LEMMA RemainsAre ==
  ASSUME BoxType, NEW d \in Tasks, NEW left \in Remains(d)
  PROVE  /\ left \in Disk /\ ~left.apk
         /\ left.captured = NoFiles /\ left.made = [a \in Artifacts |-> NoRun]
         /\ left.output => \E e \in Tasks : Up(e)
<1>1. PICK i \in BOOLEAN, o \in BOOLEAN, r \in BOOLEAN :
        /\ left = [Removed EXCEPT !.input = i, !.output = o, !.raw = r]
        /\ o => \E e \in Tasks : Up(e)
  <2> DEFINE written == disk.input /\ \E e \in Tasks \ {d} : task[e] = "copying"
             used == \E e \in Tasks : Up(e)
  <2>1. written \in BOOLEAN /\ (used /\ disk.output) \in BOOLEAN /\ (used /\ disk.raw) \in BOOLEAN
    OBVIOUS
  <2>2. PICK i \in {FALSE, written}, o \in {FALSE, used /\ disk.output},
             r \in {FALSE, used /\ disk.raw} :
               left = [Removed EXCEPT !.input = i, !.output = o, !.raw = r]
    BY DEF Remains
  <2> HIDE DEF written
  <2>3. i \in BOOLEAN /\ o \in BOOLEAN /\ r \in BOOLEAN
    BY <2>1, <2>2
  <2>4. o => used
    BY <2>2
  <2>5. QED
    BY <2>2, <2>3, <2>4
<1>2. QED
  BY <1>1 DEF Removed, NoFiles, Disk

LEMMA BoxTypeInit == SandboxInit => BoxType
<1> SUFFICES ASSUME SandboxInit PROVE BoxType
  OBVIOUS
<1>1. disk \in Disk
  BY RemovedType DEF SandboxInit
<1>2. task \in [Tasks -> TaskPhases] /\ run \in [Tasks -> RunPhases]
  BY DEF SandboxInit, TaskPhases, RunPhases
<1>3. envelope \in [Tasks -> SUBSET (Tasks \cup {NoRun})]
  BY DEF SandboxInit
<1>4. QED
  BY <1>1, <1>2, <1>3 DEF SandboxInit, BoxType

LEMMA BoxTypeStep == BoxType /\ [SandboxNext]_boxvars => BoxType'
<1> SUFFICES ASSUME BoxType, [SandboxNext]_boxvars PROVE BoxType'
  OBVIOUS
<1> USE DEF BoxType, TaskPhases, RunPhases, Handling, Running, TaskAt, Runs, Rest
<1>1. CASE UNCHANGED boxvars \/ Copy
  BY <1>1 DEF boxvars, Copy
<1>2. ASSUME NEW d \in Tasks, Accept(d) \/ CopyApk(d) \/ Spawn(d) PROVE BoxType'
  <2>1. CASE Accept(d)
    <3>1. disk' \in Disk
      BY <2>1 DEF Accept, Disk
    <3>2. shared' \in BOOLEAN
      <4>1. (shared \/ Outlived \/ \E e \in Tasks : Busy(e) \/ Up(e)) \in BOOLEAN
        OBVIOUS
      <4>2. QED
        BY <2>1, <4>1 DEF Accept
    <3>3. QED
      BY <2>1, <3>1, <3>2 DEF Accept
  <2>2. CASE CopyApk(d)
    <3>1. disk' \in Disk
      BY <2>2 DEF CopyApk, Disk
    <3>2. QED
      BY <2>2, <3>1 DEF CopyApk
  <2>3. CASE Spawn(d)
    <3>1. disk' \in Disk
      BY <2>3 DEF Spawn, Disk
    <3>2. QED
      BY <2>3, <3>1 DEF Spawn
  <2>4. QED
    BY <1>2, <2>1, <2>2, <2>3
<1>3. ASSUME NEW d \in Tasks, SandboxExits(d) \/ TimesOut(d) PROVE BoxType'
  BY <1>3 DEF SandboxExits, TimesOut
<1>4. ASSUME NEW d \in Tasks, Analyze(d) PROVE BoxType'
  <2>1. \A parsed \in SUBSET Produced : Extracted(parsed) \subseteq Tasks \cup {NoRun}
    BY DEF Extracted, Produced, Disk
  <2>2. envelope' \in [Tasks -> SUBSET (Tasks \cup {NoRun})]
    BY <1>4, <2>1 DEF Analyze
  <2>3. QED
    BY <1>4, <2>2 DEF Analyze
<1>5. ASSUME NEW d \in Tasks, CleanUp(d) PROVE BoxType'
  <2>1. disk' \in Disk
    BY <1>5, RemainsAre DEF CleanUp
  <2>2. QED
    BY <1>5, <2>1 DEF CleanUp
<1>6. ASSUME NEW d \in Tasks, LoseWorker(d) \/ ExceedLimit(d) PROVE BoxType'
  <2>1. CutShort(d) /\ queue' \in Nat /\ lapsed' \in BOOLEAN
    <3>1. CASE LoseWorker(d)
      BY <3>1 DEF LoseWorker
    <3>2. CASE ExceedLimit(d)
      BY <3>2 DEF ExceedLimit
    <3>3. QED
      BY <1>6, <3>1, <3>2
  <2>2. run' \in [Tasks -> RunPhases] /\ task' \in [Tasks -> TaskPhases]
    BY <2>1 DEF CutShort
  <2>3. QED
    BY <2>1, <2>2 DEF CutShort
<1>12. ASSUME NEW d \in Tasks, TurnAway(d) PROVE BoxType'
  <2>1. (lapsed \/ lost # {}) \in BOOLEAN
    OBVIOUS
  <2>2. QED
    BY <1>12, <2>1 DEF TurnAway
<1>7. ASSUME NEW d \in Tasks, StepFails(d) \/ Boot(d) PROVE BoxType'
  <2>1. CASE StepFails(d)
    BY <2>1 DEF StepFails, Exit
  <2>2. CASE Boot(d)
    <3>1. disk' \in Disk
      BY <2>2 DEF Boot, Disk
    <3>2. QED
      BY <2>2, <3>1 DEF Boot, Exit
  <2>3. QED
    BY <1>7, <2>1, <2>2
<1>8. ASSUME NEW d \in Tasks, Capture(d) PROVE BoxType'
  <2>1. disk' \in Disk
    BY <1>8 DEF Capture, Disk
  <2>2. QED
    BY <1>8, <2>1 DEF Capture
<1>9. ASSUME NEW d \in Tasks, Convert(d) PROVE BoxType'
  <2>1. disk' \in Disk
    BY <1>9 DEF Convert, Disk
  <2>2. QED
    BY <1>9, <2>1 DEF Convert
<1>10. ASSUME NEW d \in Tasks, WriteMetadata(d) PROVE BoxType'
  <2>1. disk' \in Disk
    BY <1>10 DEF WriteMetadata, Disk, Artifacts
  <2>2. QED
    BY <1>10, <2>1 DEF WriteMetadata, Exit
<1>11. QED
  BY <1>1, <1>2, <1>3, <1>4, <1>5, <1>6, <1>7, <1>8, <1>9, <1>10, <1>12
     DEF SandboxNext, TaskStep, RunStep

-----------------------------------------------------------------------------
(* The sandbox: the inductive invariant. *)

Engaged(d) == Busy(d) \/ Up(d)
Nobody == \A d \in Tasks : ~Busy(d)

\* The files in the directory are of one of these runs, or of none.
FilesOf(ds) ==
  /\ \A t \in Traces : disk.captured[t] \in {NoRun} \cup ds
  /\ \A a \in Artifacts : disk.made[a] \in {NoRun} \cup ds

\* A sandbox runs for a task that waits for it, or for one that was cut short.
Attended ==
  \A d \in Tasks :
    /\ task[d] \in {"none", "copying", "begun"} => run[d] = "none"
    /\ task[d] = "analyzing" => ~Up(d)
    /\ task[d] \in {"cleaning", "done"} => run[d] # "starting"
    /\ Up(d) => task[d] = "waiting" \/ d \in late \cup lost
    /\ d \in lost => task[d] = "lost"

\* The sample is on the disk for somebody, or left by a task that was cut short and is to be
\* removed by the next, unless that has lapsed; so is what was captured, if no task was; a
\* container takes its emulator along.
Used ==
  /\ disk.apk /\ Nobody => lost # {} /\ (queue > 0 \/ lapsed)
  /\ late \cup lost = {} /\ Nobody => FilesOf({})
  /\ mode = "compose" => \A d \in emulators : Up(d) /\ run[d] # "starting"

\* The emulator that has the port is the only one, and its script is at work.
OwnPort ==
  /\ emulators \subseteq {serial}
  /\ serial \in Tasks => Up(serial) /\ run[serial] # "starting"

\* One delivery at a time finds the directory as a first one does, and on the host the
\* emulator it stops is its own.
Alone ==
  /\ \A d, e \in Tasks : Engaged(d) /\ Engaged(e) => d = e
  /\ lost # {} => Nobody
  /\ \A d \in Tasks : Busy(d) => FilesOf({d})
  /\ ~Outlived /\ Nobody => /\ FilesOf({}) /\ ~disk.apk /\ ~disk.output
                           /\ \A d \in Tasks : run[d] # "starting"
  /\ \A d \in Tasks : envelope[d] \subseteq {d}
  /\ mode = "script" /\ late \cup lost = {} => OwnPort

BoxInv == Attended /\ Used /\ (shared \/ Alone)

LEMMA BoxInit == SandboxInit => BoxInv
BY SandboxAssumption
   DEF SandboxInit, BoxInv, Attended, Used, Alone, OwnPort, FilesOf, Engaged, Nobody, Busy, Up,
       Handling,
       Running, Removed, NoFiles

-----------------------------------------------------------------------------
(* The sandbox: what each step does to the directory. *)

LEMMA TaskDisk ==
  ASSUME BoxType, NEW d \in Tasks
  PROVE  /\ Accept(d) \/ CopyApk(d) \/ Spawn(d) =>
              disk'.captured = disk.captured /\ disk'.made = disk.made
         /\ Accept(d) \/ Spawn(d) => disk'.apk = disk.apk
         /\ Accept(d) \/ CopyApk(d) => disk'.output = disk.output
<1>1. ASSUME Accept(d)
      PROVE  /\ disk'.captured = disk.captured /\ disk'.made = disk.made
             /\ disk'.apk = disk.apk /\ disk'.output = disk.output
  BY <1>1 DEF Accept, BoxType, Disk
<1>2. ASSUME CopyApk(d)
      PROVE  /\ disk'.captured = disk.captured /\ disk'.made = disk.made
             /\ disk'.output = disk.output
  BY <1>2 DEF CopyApk, BoxType, Disk
<1>3. ASSUME Spawn(d)
      PROVE  /\ disk'.captured = disk.captured /\ disk'.made = disk.made
             /\ disk'.apk = disk.apk
  BY <1>3 DEF Spawn, BoxType, Disk
<1>4. QED
  BY <1>1, <1>2, <1>3

LEMMA RunDisk ==
  ASSUME BoxType, NEW d \in Tasks, RunStep(d)
  PROVE  /\ disk'.apk = disk.apk
         /\ disk'.output = disk.output \/ run[d] = "starting"
         /\ \A t \in Traces :
              disk'.captured[t] = disk.captured[t] \/ (disk.apk /\ disk'.captured[t] = d)
         /\ \A a \in Artifacts :
              \/ disk'.made[a] = disk.made[a]
              \/ disk.output /\ disk'.made[a] = d
              \/ \E t \in Traces : disk'.made[a] = disk.captured[t]
<1>1. CASE StepFails(d)
  BY <1>1 DEF StepFails
<1>2. CASE Boot(d)
  BY <1>2 DEF Boot, BoxType, Disk
<1>3. CASE Capture(d)
  <2>1. PICK opened \in SUBSET Traces :
          disk' = [disk EXCEPT !.captured =
                     [t \in Traces |-> IF t \in opened THEN d ELSE disk.captured[t]]]
    BY <1>3 DEF Capture
  <2>2. /\ disk'.captured = [t \in Traces |-> IF t \in opened THEN d ELSE disk.captured[t]]
        /\ disk'.apk = disk.apk /\ disk'.output = disk.output /\ disk'.made = disk.made
    BY <2>1 DEF BoxType, Disk
  <2>3. disk.apk
    BY <1>3 DEF Capture
  <2>4. QED
    BY <2>2, <2>3
<1>4. CASE Convert(d)
  BY <1>4 DEF Convert, BoxType, Disk, Artifacts
<1>5. CASE WriteMetadata(d)
  BY <1>5 DEF WriteMetadata, BoxType, Disk, Artifacts
<1>6. QED
  BY <1>1, <1>2, <1>3, <1>4, <1>5 DEF RunStep

\* What each run step does to its run and to the emulators.
LEMMA RunMoves ==
  ASSUME BoxType, NEW d \in Tasks, RunStep(d)
  PROVE  /\ Up(d) /\ UNCHANGED <<mode, queue, task, envelope, late, lost, shared>>
         /\ UNCHANGED lapsed
         /\ \E label \in RunPhases \ {"none", "starting", "killed"} :
               run' = [run EXCEPT ![d] = label]
         /\ \/ UNCHANGED <<emulators, serial>> /\ run[d] # "starting" /\ Up(d)'
            \/ /\ emulators' = emulators \ {IF mode = "compose" THEN d ELSE serial}
               /\ serial' = NoRun
            \/ /\ emulators' = emulators \cup {d} /\ run[d] = "starting" /\ Up(d)'
               /\ serial' = IF mode = "script" /\ serial = NoRun THEN d ELSE serial
<1> USE DEF BoxType, RunPhases, Running, Up, Rest
<1>1. CASE StepFails(d)
  BY <1>1 DEF StepFails, Exit
<1>2. CASE Boot(d)
  BY <1>2 DEF Boot, Exit
<1>3. CASE Capture(d)
  BY <1>3 DEF Capture
<1>4. CASE Convert(d)
  BY <1>4 DEF Convert
<1>5. CASE WriteMetadata(d)
  BY <1>5 DEF WriteMetadata, Exit
<1>6. QED
  BY <1>1, <1>2, <1>3, <1>4, <1>5 DEF RunStep

-----------------------------------------------------------------------------
(* The sandbox: the invariant, step by step. *)

\* What a delivery does, as far as its place and its sandbox's go.
LEMMA TaskMoves ==
  ASSUME BoxType, NEW d \in Tasks, TaskStep(d)
  PROVE  /\ UNCHANGED <<mode, lost, emulators, serial>> /\ late \subseteq late'
         /\ \/ /\ Accept(d) /\ task[d] = "none" /\ queue > 0 /\ UNCHANGED <<run, envelope>>
               /\ task' = [task EXCEPT ![d] = "copying"]
            \/ /\ TurnAway(d) /\ task[d] = "none" /\ UNCHANGED <<run, envelope, disk, late, shared>>
               /\ task' = [task EXCEPT ![d] = "done"]
            \/ /\ Busy(d) /\ UNCHANGED <<queue, shared>>
               /\ \E label \in TaskPhases : task' = [task EXCEPT ![d] = label]
<1> USE DEF BoxType, TaskPhases, Busy, Handling, TaskAt, Runs, Rest
<1>1. CASE TurnAway(d)
  BY <1>1 DEF TurnAway
<1>2. CASE Accept(d)
  BY <1>2 DEF Accept
<1>3. CASE CopyApk(d) \/ Spawn(d) \/ SandboxExits(d)
  BY <1>3 DEF CopyApk, Spawn, SandboxExits
<1>4. CASE TimesOut(d) \/ Analyze(d) \/ CleanUp(d)
  BY <1>4 DEF TimesOut, Analyze, CleanUp
<1>5. QED
  BY <1>1, <1>2, <1>3, <1>4 DEF TaskStep

LEMMA AttendedStep ==
  ASSUME BoxType, Attended, [SandboxNext]_boxvars
  PROVE  Attended'
<1> USE DEF BoxType, Attended, TaskPhases, RunPhases, Handling, Running, Up, Busy
<1>1. CASE UNCHANGED boxvars \/ Copy
  BY <1>1 DEF boxvars, Copy, Runs
<1>2. ASSUME NEW d \in Tasks, RunStep(d) PROVE Attended'
  BY <1>2, RunMoves
<1>3. ASSUME NEW d \in Tasks, CutShort(d) PROVE Attended'
  BY <1>3 DEF CutShort, TaskAt
<1>4. ASSUME NEW d \in Tasks, TaskStep(d) PROVE Attended'
  <2>1. CASE Accept(d) \/ CopyApk(d) \/ Spawn(d)
    BY <2>1 DEF Accept, CopyApk, Spawn, TaskAt, Runs, Rest
  <2>2. CASE SandboxExits(d)
    BY <2>2 DEF SandboxExits, TaskAt, Runs, Rest
  <2>3. CASE TimesOut(d)
    BY <2>3 DEF TimesOut, Killable, TaskAt
  <2>4. CASE Analyze(d) \/ CleanUp(d)
    BY <2>4 DEF Analyze, CleanUp, TaskAt, Runs, Rest
  <2>6. CASE TurnAway(d)
    BY <2>6 DEF TurnAway, TaskAt, Runs
  <2>5. QED
    BY <1>4, <2>1, <2>2, <2>3, <2>4, <2>6 DEF TaskStep
<1>5. QED
  BY <1>1, <1>2, <1>3, <1>4 DEF SandboxNext, LoseWorker, ExceedLimit

\* A run that is up writes files of its own, or makes artifacts of what is captured.
LEMMA FilesByRun ==
  ASSUME BoxType, NEW d \in Tasks, RunStep(d), NEW ds, d \in ds, FilesOf(ds)
  PROVE  FilesOf(ds)'
BY RunDisk DEF FilesOf

LEMMA RemovedIsEmpty ==
  ASSUME BoxType, NEW d \in Tasks, CleanUp(d)
  PROVE  FilesOf({})' /\ ~disk'.apk /\ (disk'.output => \E e \in Tasks : Up(e))
BY RemainsAre DEF CleanUp, NoFiles, FilesOf

LEMMA FilesKept ==
  ASSUME NEW ds, FilesOf(ds), disk'.captured = disk.captured, disk'.made = disk.made
  PROVE  FilesOf(ds)'
BY DEF FilesOf

LEMMA FilesGrow == ASSUME NEW ds, FilesOf({}) PROVE FilesOf(ds)
BY DEF FilesOf

LEMMA UsedStep ==
  ASSUME BoxType, Attended, Used, [SandboxNext]_boxvars
  PROVE  Used'
<1> USE DEF BoxType
<1>1. CASE UNCHANGED boxvars \/ Copy
  BY <1>1, FilesKept DEF boxvars, Copy, Runs, Used, Nobody, Busy, Up
<1>2. ASSUME NEW d \in Tasks, RunStep(d) PROVE Used'
  <2>1. UNCHANGED <<mode, queue, task, late, lost>> /\ disk'.apk = disk.apk /\ Up(d)
    BY <1>2, RunMoves, RunDisk
  <2>2. disk'.apk /\ Nobody' => lost' # {} /\ (queue' > 0 \/ lapsed')
    BY <1>2, <2>1, RunMoves DEF Used, Nobody, Busy
  <2>3. late \cup lost = {} => ~Nobody'
    BY <2>1 DEF Attended, Nobody, Busy, Handling
  <2>4. mode = "compose" => \A e \in emulators' : Up(e)' /\ run'[e] # "starting"
    BY <1>2, RunMoves DEF Used, Up, RunPhases, Running
  <2>5. QED
    BY <2>1, <2>2, <2>3, <2>4 DEF Used
<1>3. ASSUME NEW d \in Tasks, LoseWorker(d) \/ ExceedLimit(d) PROVE Used'
  <2>1. (queue' > 0 \/ lapsed') /\ lost' # {} /\ UNCHANGED <<mode, emulators>>
    BY <1>3 DEF LoseWorker, ExceedLimit, CutShort
  <2>2. mode = "compose" => \A e \in emulators : Up(e)' /\ run'[e] # "starting"
    BY <1>3 DEF LoseWorker, ExceedLimit, CutShort, Killable, Used, Up, Running
  <2>3. QED
    BY <2>1, <2>2 DEF Used
<1>4. ASSUME NEW d \in Tasks, TaskStep(d) PROVE Used'
  <2>1. UNCHANGED <<mode, lost, emulators>> /\ late \subseteq late'
    BY <1>4, TaskMoves
  <2>2. mode = "compose" => \A e \in emulators : Up(e)' /\ run'[e] # "starting"
    <3>1. CASE Spawn(d) \/ TimesOut(d)
      BY <3>1 DEF Spawn, TimesOut, Killable, Attended, Used, Up, Running
    <3>2. CASE UNCHANGED run
      BY <3>2 DEF Used, Up
    <3>3. QED
      BY <1>4, <3>1, <3>2
         DEF TaskStep, TurnAway, Accept, CopyApk, SandboxExits, Analyze, CleanUp, Runs
  <2>3. CASE CleanUp(d)
    BY <2>1, <2>2, <2>3, RemovedIsEmpty DEF Used
  <2>6. CASE TurnAway(d)
    <3>1. UNCHANGED <<disk, late, lost>> /\ (lost # {} => lapsed') /\ (Nobody' => Nobody)
      BY <2>6 DEF TurnAway, TaskAt, Nobody, Busy, Handling
    <3>2. FilesOf({}) => FilesOf({})'
      BY <3>1, FilesKept
    <3>3. QED
      BY <2>1, <2>2, <3>1, <3>2 DEF Used
  <2>4. CASE ~CleanUp(d) /\ ~TurnAway(d)
    <3>1. Busy(d)'
      BY <1>4, <2>4
         DEF TaskStep, Accept, CopyApk, Spawn, SandboxExits, TimesOut, Analyze, TaskAt, Busy,
             Handling
    <3>2. ~Nobody'
      BY <3>1 DEF Nobody
    <3>3. QED
      BY <2>1, <2>2, <3>2 DEF Used
  <2>5. QED
    BY <2>3, <2>4, <2>6
<1>5. QED
  BY <1>1, <1>2, <1>3, <1>4 DEF SandboxNext

\* Nobody comes to be engaged but a delivery that is accepted.
LEMMA EngagedMoves ==
  ASSUME BoxType, Attended, NEW d \in Tasks,
         (TaskStep(d) /\ ~TurnAway(d)) \/ RunStep(d) \/ CutShort(d)
  PROVE  /\ \A e \in Tasks : Engaged(e)' => Engaged(e) \/ (e = d /\ Accept(d))
         /\ Engaged(d) \/ Accept(d)
         /\ \A e \in Tasks : Busy(e)' => Busy(e) \/ (e = d /\ Accept(d))
         /\ \A e \in Tasks : run'[e] = "starting" => run[e] = "starting" \/ (e = d /\ Busy(d)')
<1>1. CASE RunStep(d)
  BY <1>1, RunMoves DEF Engaged, Busy, Up, BoxType, RunPhases
<1>2. CASE CutShort(d)
  BY <1>2 DEF CutShort, TaskAt, Engaged, Busy, Up, Handling, Running, BoxType
<1>3. CASE Accept(d)
  BY <1>3 DEF Accept, TaskAt, Runs, Engaged, Busy, Up, Handling, BoxType
<1>4. CASE TaskStep(d) /\ ~Accept(d) /\ ~TurnAway(d)
  <2>1. Busy(d)
    BY <1>4, TaskMoves
  <2>2. \A e \in Tasks \ {d} : task'[e] = task[e] /\ run'[e] = run[e]
    BY <1>4 DEF TaskStep, CopyApk, Spawn, SandboxExits, TimesOut, Analyze, CleanUp, TaskAt,
                Runs, BoxType
  <2>3. run'[d] = "starting" => run[d] = "starting" \/ Busy(d)'
    BY <1>4 DEF TaskStep, CopyApk, Spawn, SandboxExits, TimesOut, Analyze, CleanUp, TaskAt,
                Runs, BoxType, Busy, Handling
  <2>4. QED
    BY <1>4, <2>1, <2>2, <2>3 DEF Engaged, Busy, Up
<1>5. QED
  BY <1>1, <1>2, <1>3, <1>4

\* What a delivery makes of its own files is its own.
LEMMA EnvelopeByTask ==
  ASSUME BoxType, Alone, NEW d \in Tasks, TaskStep(d)
  PROVE  \A e \in Tasks : envelope'[e] \subseteq {e}
<1>1. CASE Analyze(d)
  <2>1. FilesOf({d})
    BY <1>1 DEF Analyze, Alone, Busy, Handling
  <2>2. \A parsed \in SUBSET Produced : Extracted(parsed) \subseteq {d}
    BY <2>1 DEF FilesOf, Produced, Extracted
  <2>3. QED
    BY <1>1, <2>2 DEF Analyze, Alone, BoxType
<1>2. CASE UNCHANGED envelope
  BY <1>2 DEF Alone
<1>3. QED
  BY <1>1, <1>2
     DEF TaskStep, TurnAway, Accept, CopyApk, Spawn, SandboxExits, TimesOut, CleanUp, Rest

LEMMA AloneStep ==
  ASSUME BoxType, Attended, Alone, ~shared, [SandboxNext]_boxvars, ~shared'
  PROVE  Alone'
<1> USE DEF BoxType
<1>1. CASE UNCHANGED boxvars \/ Copy
  BY <1>1, FilesKept
     DEF boxvars, Copy, Runs, Alone, OwnPort, Engaged, Nobody, Busy, Up, FilesOf, Outlived
<1>9. ASSUME NEW d \in Tasks, TurnAway(d) PROVE Alone'
  <2>1. /\ UNCHANGED <<mode, disk, envelope, late, lost, run, emulators, serial>>
        /\ \A e \in Tasks : Busy(e)' <=> Busy(e)
    BY <1>9 DEF TurnAway, TaskAt, Runs, Busy, Handling
  <2>2. (\A e \in Tasks : Engaged(e)' <=> Engaged(e)) /\ (Nobody' <=> Nobody)
    BY <2>1 DEF Engaged, Nobody, Up
  <2>3. Outlived' = Outlived /\ OwnPort' = OwnPort
    BY <2>1 DEF Outlived, OwnPort, Up
  <2>4. \A ds : FilesOf(ds)' = FilesOf(ds)
    BY <2>1 DEF FilesOf
  <2>5. QED
    BY <2>1, <2>2, <2>3, <2>4 DEF Alone
<1>2. ASSUME NEW d \in Tasks, Accept(d)
      PROVE  ~Outlived /\ lost = {} /\ \A e \in Tasks : ~Busy(e) /\ ~Up(e)
  BY <1>2 DEF Accept, Outlived
<1>3. ASSUME NEW d \in Tasks, (TaskStep(d) /\ ~TurnAway(d)) \/ RunStep(d) \/ CutShort(d)
      PROVE  \A e, f \in Tasks : Engaged(e)' /\ Engaged(f)' => e = f
  BY <1>2, <1>3, EngagedMoves DEF Alone, Engaged
<1>4. ASSUME NEW d \in Tasks, (TaskStep(d) /\ ~TurnAway(d)) \/ RunStep(d) \/ CutShort(d),
             NEW e \in Tasks, Engaged(e)
      PROVE  e = d
  BY <1>2, <1>4, EngagedMoves DEF Alone, Engaged
<1>5. ASSUME NEW d \in Tasks, RunStep(d) PROVE Alone'
  <2>1. Up(d) /\ UNCHANGED <<mode, task, envelope, late, lost>>
    BY <1>5, RunMoves
  <2>2. ASSUME NEW e \in Tasks, Busy(e) PROVE FilesOf({e})'
    <3>1. e = d /\ FilesOf({d})
      BY <1>4, <1>5, <2>2 DEF Alone, Engaged
    <3>2. QED
      BY <1>5, <3>1, FilesByRun
  <2>3. Nobody => Outlived'
    <3>1. Nobody => d \in late \cup lost
      BY <2>1 DEF Attended, Nobody, Busy, Handling
    <3>2. run'[d] # "killed"
      BY <1>5, RunMoves
    <3>3. QED
      BY <2>1, <3>1, <3>2 DEF Outlived
  <2>4. ASSUME mode = "script", late \cup lost = {} PROVE OwnPort'
    <3>1. emulators \subseteq {serial}
      BY <2>4 DEF Alone, OwnPort
    <3>2. serial \in Tasks => Up(serial) /\ run[serial] # "starting"
      BY <2>4 DEF Alone, OwnPort
    <3>3. serial \in Tasks => serial = d
      BY <1>4, <1>5, <3>2 DEF Engaged
    <3>4. PICK label \in RunPhases \ {"none", "starting", "killed"} :
                run' = [run EXCEPT ![d] = label]
      BY <1>5, RunMoves
    <3>5. CASE UNCHANGED <<emulators, serial>> /\ run[d] # "starting" /\ Up(d)'
      BY <3>1, <3>3, <3>4, <3>5 DEF Up, OwnPort
    <3>6. CASE emulators' = emulators \ {serial} /\ serial' = NoRun
      BY <3>1, <3>6, SandboxAssumption DEF OwnPort
    <3>7. CASE /\ emulators' = emulators \cup {d} /\ run[d] = "starting" /\ Up(d)'
               /\ serial' = IF serial = NoRun THEN d ELSE serial
      <4>1. serial = NoRun
        BY <3>2, <3>3, <3>7
      <4>2. emulators = {}
        BY <3>1, <4>1, SandboxAssumption
      <4>3. QED
        BY <3>4, <3>7, <4>1, <4>2 DEF Up, OwnPort
    <3>8. QED
      BY <1>5, <2>4, <3>5, <3>6, <3>7, RunMoves
  <2>5. \A e \in Tasks : Busy(e)' <=> Busy(e)
    BY <2>1 DEF Busy
  <2>6. QED
    BY <1>3, <1>5, <2>1, <2>2, <2>3, <2>4, <2>5 DEF Alone, Nobody
<1>6. ASSUME NEW d \in Tasks, CutShort(d) PROVE Alone'
  <2>1. /\ Busy(d) /\ lost' # {} /\ ~Busy(d)' /\ Outlived'
        /\ UNCHANGED <<mode, envelope, disk>>
    BY <1>6 DEF CutShort, TaskAt, Busy, Handling, Outlived
  <2>2. Nobody'
    BY <1>2, <1>4, <1>6, <2>1, EngagedMoves DEF Nobody, Engaged
  <2>3. QED
    BY <1>3, <1>6, <2>1, <2>2 DEF Alone, Nobody
<1>7. ASSUME NEW d \in Tasks, TaskStep(d), ~TurnAway(d) PROVE Alone'
  <2>1. UNCHANGED <<mode, lost, emulators, serial>> /\ late \subseteq late'
    BY <1>7, TaskMoves
  <2>2. Busy(d) \/ (Accept(d) /\ ~Outlived /\ Nobody)
    BY <1>2, <1>7, TaskMoves DEF Nobody
  <2>3. lost # {} => Nobody'
    BY <1>2, <1>7, <2>2, EngagedMoves DEF Alone, Nobody
  <2>4. \A e \in Tasks : Busy(e)' => e = d
    BY <1>2, <1>4, <1>7, EngagedMoves DEF Engaged
  <2>5. FilesOf({d})
    BY <2>2, FilesGrow DEF Alone
  <2>6. ASSUME Busy(d)' PROVE FilesOf({d})'
    <3>1. CASE Accept(d) \/ CopyApk(d) \/ Spawn(d)
      BY <2>5, <3>1, TaskDisk, FilesKept
    <3>2. CASE UNCHANGED disk
      BY <2>5, <3>2, FilesKept
    <3>3. CASE CleanUp(d)
      BY <2>6, <3>3 DEF CleanUp, TaskAt, Busy, Handling
    <3>4. QED
      BY <1>7, <3>1, <3>2, <3>3 DEF TaskStep, SandboxExits, TimesOut, Analyze
  <2>7. ASSUME Nobody', ~Outlived'
        PROVE  /\ FilesOf({})' /\ ~disk'.apk /\ ~disk'.output
               /\ \A e \in Tasks : run'[e] # "starting"
    <3>1. CleanUp(d)
      BY <1>7, <2>7
         DEF TaskStep, Accept, CopyApk, Spawn, SandboxExits, TimesOut, Analyze, TaskAt, Nobody,
             Busy, Handling
    <3>2. UNCHANGED <<run, late, lost>> /\ run[d] # "starting" /\ Busy(d) /\ task[d] = "cleaning"
      BY <3>1 DEF CleanUp, Runs, Attended, Busy, Handling
    <3>3. \A e \in Tasks : Up(e) => e = d
      BY <1>4, <1>7 DEF Engaged
    <3>4. \A e \in Tasks : run[e] = "starting" => e = d
      BY <3>3 DEF Up, Running
    <3>5. ~Up(d)
      <4>1. Up(d) => d \in late \cup lost /\ run[d] # "killed"
        BY <3>2 DEF Attended, Up, Running
      <4>2. QED
        BY <2>7, <3>2, <4>1 DEF Outlived
    <3>6. QED
      BY <3>1, <3>2, <3>3, <3>4, <3>5, RemovedIsEmpty
  <2>8. ASSUME mode = "script", late' \cup lost' = {} PROVE OwnPort'
    <3>1. /\ emulators \subseteq {serial}
          /\ serial \in Tasks => Up(serial) /\ run[serial] # "starting"
      BY <2>1, <2>8 DEF Alone, OwnPort
    <3>2. CASE Spawn(d)
      <4>1. serial # d
        BY <3>1, <3>2 DEF Spawn, Attended, Up, Running
      <4>2. QED
        BY <2>1, <3>1, <3>2, <4>1 DEF Spawn, Up, OwnPort
    <3>3. CASE TimesOut(d)
      BY <2>8, <3>3 DEF TimesOut
    <3>4. CASE UNCHANGED run
      BY <2>1, <3>1, <3>4 DEF Up, OwnPort
    <3>5. QED
      BY <1>7, <3>2, <3>3, <3>4
         DEF TaskStep, Accept, CopyApk, SandboxExits, Analyze, CleanUp, Runs
  <2>9. QED
    BY <1>3, <1>7, <2>1, <2>3, <2>4, <2>6, <2>7, <2>8, EnvelopeByTask DEF Alone
<1>8. QED
  BY <1>1, <1>5, <1>6, <1>7, <1>9 DEF SandboxNext, LoseWorker, ExceedLimit

LEMMA BoxHolds == SandboxSpec => [](BoxType /\ BoxInv)
<1>1. BoxType /\ BoxInv /\ [SandboxNext]_boxvars => BoxInv'
  <2> SUFFICES ASSUME BoxType, BoxInv, [SandboxNext]_boxvars PROVE BoxInv'
    OBVIOUS
  <2>1. Attended' /\ Used'
    BY AttendedStep, UsedStep DEF BoxInv
  <2>2. shared => shared'
    BY DEF SandboxNext, boxvars, Copy, TaskStep, RunStep, Accept, CopyApk, Spawn, SandboxExits,
           TimesOut, Analyze, CleanUp, TurnAway, LoseWorker, ExceedLimit, CutShort, StepFails,
           Boot, Capture, Convert, WriteMetadata, Rest
  <2>3. QED
    BY <2>1, <2>2, AloneStep DEF BoxInv
<1>2. QED
  BY <1>1, BoxInit, BoxTypeInit, BoxTypeStep, PTL DEF SandboxSpec

\* One delivery at a time stores as the sample's behaviour only what was captured in its
\* own run: it finds the directory empty, because the one before removed it and what a
\* sandbox that outlives its task could still write has no directory to go to.
THEOREM OwnEvidence == SandboxSpec => []EvidenceIsOwn
<1>1. BoxType /\ BoxInv => EvidenceIsOwn
  BY DEF BoxInv, Alone, EvidenceIsOwn
<1>2. QED
  BY <1>1, BoxHolds, PTL

\* However many deliveries, lost workers and killed sandboxes there were, when all is
\* quiet the sample is gone from the disk, unless the delivery that was to make up for a
\* lost one was turned away or one was killed at its hard limit; without a mishap what was
\* captured and the emulators are gone too; and no sandbox outlives its task but for want
\* of time.
THEOREM CleansUp == SandboxSpec => []NothingLeftBehind
<1>1. BoxType /\ BoxInv => NothingLeftBehind
  <2> SUFFICES ASSUME BoxType, BoxInv PROVE NothingLeftBehind
    OBVIOUS
  <2>1. \A d \in Tasks : task[d] = "done" /\ Up(d) => d \in late
    BY DEF BoxInv, Attended
  <2>2. ASSUME queue = 0, \A d \in Tasks : ~Busy(d) /\ ~Up(d)
        PROVE  /\ disk.apk => lapsed
               /\ late \cup lost = {} => disk.captured = NoFiles /\ Produced = {}
               /\ emulators = {} \/ (mode = "script" /\ (late \cup lost # {} \/ shared))
    <3>1. (disk.apk => lapsed) /\ (late \cup lost = {} => FilesOf({}))
      BY <2>2 DEF BoxInv, Used, Nobody
    <3>2. ASSUME FilesOf({}) PROVE disk.captured = NoFiles /\ Produced = {}
      <4>1. disk.captured \in [Traces -> Tasks \cup {NoRun}]
        BY DEF BoxType, Disk
      <4>2. \A t \in Traces : disk.captured[t] = NoRun
        BY <3>2 DEF FilesOf
      <4>3. disk.captured = NoFiles
        BY <4>1, <4>2 DEF NoFiles
      <4>4. QED
        BY <3>2, <4>3 DEF FilesOf, Produced
    <3>3. CASE mode = "compose"
      BY <2>2, <3>1, <3>2, <3>3 DEF BoxInv, Used, BoxType
    <3>4. CASE mode = "script" /\ late \cup lost = {} /\ ~shared
      BY <2>2, <3>1, <3>2, <3>4, SandboxAssumption DEF BoxInv, Alone, OwnPort, BoxType
    <3>5. QED
      BY <3>1, <3>2, <3>3, <3>4 DEF BoxType
  <2>3. QED
    BY <2>1, <2>2 DEF NothingLeftBehind
<1>2. QED
  BY <1>1, BoxHolds, PTL

-----------------------------------------------------------------------------
(* The report: what is where. *)

AllFindings == UNION {FindingsOf[v] : v \in DOMAIN FindingsOf}

Reports == [score : FindingVersions, found : FindingVersions, body : SUBSET AllFindings]
ReportRows == [report : Reports, formats : SUBSET Formats]

HandPhases == {"idle", "score", "gather", "render", "save", "return", "ack"}
Hands == [task : {"none", "scoring", "reporting"}, phase : HandPhases, report : Reports,
          formats : SUBSET Formats, left : SUBSET Formats, open : SUBSET Formats]
Stored == [report : Reports, whole : BOOLEAN]

ReaderPhases == {"idle", "page", "shown", "load", "gone", "record", "commit", "served", "error"}
Readers == [phase : ReaderPhases, fmt : Formats \cup {"none"}, row : ReportRows,
            got : Stored, score : FindingVersions, audit : BOOLEAN]

ReportType ==
  /\ found \in FindingVersions /\ scores \in FindingVersions
  /\ told \in ReportRows /\ files \in [Formats -> Stored]
  /\ due \in [engines : Nat, scoring : Nat, reporting : Nat]
  /\ hand \in [Reporters -> Hands] /\ reader \in Readers
  /\ reader.phase = "load" => reader.fmt \in Formats
  /\ errors \in Nat /\ losses \in Nat /\ beside \in BOOLEAN /\ cut \in BOOLEAN

LEMMA Versioned == FindingVersions \subseteq Nat /\ 0 \in FindingVersions
BY FS_CardinalityType, ReportAssumption DEF FindingVersions

LEMMA BodyIsOfFindings ==
  ASSUME NEW v \in FindingVersions, NEW s \in Oldest(Findings(v))
  PROVE  Body(s) \in SUBSET AllFindings
<1>1. v = 0 \/ v \in DOMAIN FindingsOf
  BY FS_CardinalityType, ReportAssumption DEF FindingVersions
<1>2. Findings(v) \subseteq AllFindings
  BY <1>1 DEF Findings, AllFindings
<1>3. s \subseteq Findings(v)
  BY DEF Oldest
<1>4. QED
  BY <1>2, <1>3 DEF Body

LEMMA NothingReported ==
  /\ NoReport \in Reports /\ NoRow \in ReportRows /\ Idle \in Hands /\ Waiting \in Readers
  /\ NoReport.score = 0 /\ NoReport.found = 0 /\ NoReport.body = {}
  /\ NoFile \in Stored /\ NoFile.report = NoReport
  /\ \A q, b : File(q, b).report = q /\ File(q, b).whole = b
  /\ \A q \in Reports, b \in BOOLEAN : File(q, b) \in Stored
BY Versioned
   DEF NoReport, ReportOf, Unscored, NoRow, NoFile, File, Stored, Idle, Waiting, Reports,
       ReportRows, Hands,
       HandPhases, Readers, ReaderPhases

LEMMA ReportTypeInit == ReportInit => ReportType
<1> SUFFICES ASSUME ReportInit PROVE ReportType
  OBVIOUS
<1>1. due \in [engines : Nat, scoring : Nat, reporting : Nat]
  BY ReportAssumption DEF ReportInit
<1>2. QED
  BY <1>1, NothingReported, Versioned DEF ReportInit, ReportType, Unscored, Waiting

(* What an action does to the delivery it is of, and that it leaves the others. *)

Others(h) == \A k \in Reporters : k # h => hand'[k] = hand[k]

LEMMA Moved ==
  ASSUME ReportType, NEW h \in Reporters, NEW p \in HandPhases, Move(h, p)
  PROVE  /\ hand' \in [Reporters -> Hands] /\ Others(h)
         /\ hand'[h].phase = p /\ hand'[h].task = hand[h].task
         /\ hand'[h].report = hand[h].report
         /\ hand'[h].formats = hand[h].formats /\ hand'[h].left = hand[h].left
         /\ hand'[h].open = hand[h].open
BY DEF ReportType, Hands, Move, Others

LEMMA Failed ==
  ASSUME ReportType, NEW h \in Reporters, StageFails(h)
  PROVE  /\ hand' \in [Reporters -> Hands] /\ Others(h)
         /\ hand'[h].phase = "return" /\ hand'[h].task = hand[h].task
         /\ hand'[h].open = {}
<1>1. hand[h] \in Hands /\ hand' = [hand EXCEPT ![h].phase = "return", ![h].open = {}]
  BY DEF ReportType, StageFails
<1>2. QED
  BY <1>1 DEF ReportType, Hands, HandPhases, Others

LEMMA Emptied ==
  ASSUME ReportType, NEW h \in Reporters, hand' = [hand EXCEPT ![h] = Idle]
  PROVE  /\ hand' \in [Reporters -> Hands] /\ Others(h)
         /\ hand'[h] = Idle
BY NothingReported DEF ReportType, Others

LEMMA Began ==
  ASSUME ReportType, NEW h \in Reporters, NEW t \in {"scoring", "reporting"},
         NEW p \in HandPhases, NEW r \in Reports, Begin(h, t, p, r)
  PROVE  /\ hand' \in [Reporters -> Hands] /\ Others(h)
         /\ hand'[h].phase = p /\ hand'[h].task = t /\ hand'[h].report = r
         /\ hand'[h].open = {}
         /\ due' \in [engines : Nat, scoring : Nat, reporting : Nat]
<1> DEFINE n == [Idle EXCEPT !.task = t, !.phase = p, !.report = r]
<1>1. n \in Hands /\ n.phase = p /\ n.task = t /\ n.report = r /\ n.open = {}
  BY NothingReported DEF Idle, Hands
<1>2. hand' = [hand EXCEPT ![h] = n]
  BY DEF Begin
<1> HIDE DEF n
<1>3. hand' \in [Reporters -> Hands] /\ Others(h) /\ hand'[h] = n
  BY <1>1, <1>2 DEF ReportType, Others
<1>4. due' \in [engines : Nat, scoring : Nat, reporting : Nat]
  BY DEF Begin, ReportType
<1>5. QED
  BY <1>1, <1>3, <1>4

LEMMA BeganScoring ==
  ASSUME ReportType, NEW h \in Reporters, BeginScoring(h)
  PROVE  /\ hand' \in [Reporters -> Hands] /\ Others(h) /\ RowsKept
         /\ hand[h].phase = "idle" /\ hand'[h].phase = "score" /\ hand'[h].task = "scoring"
         /\ hand'[h].report.found = found /\ hand'[h].open = {}
         /\ due' = [due EXCEPT !.scoring = @ - 1] /\ due.scoring > 0
         /\ errors' = errors /\ cut' = cut /\ beside => beside'
         /\ ~beside' => \A k \in Reporters : hand[k].task # "scoring"
<1> DEFINE r == ReportOf(Unscored, found, {})
<1>1. r \in Reports /\ "score" \in HandPhases /\ r.found = found
  BY Versioned DEF ReportType, ReportOf, Reports, Unscored, HandPhases
<1>2. Begin(h, "scoring", "score", r)
  BY DEF BeginScoring
<1> HIDE DEF r
<1>3. /\ hand' \in [Reporters -> Hands] /\ Others(h) /\ hand'[h].phase = "score"
      /\ hand'[h].task = "scoring" /\ hand'[h].report = r /\ hand'[h].open = {}
  BY <1>1, <1>2, Began
<1>4. QED
  BY <1>1, <1>2, <1>3 DEF Begin, At

LEMMA BeganReporting ==
  ASSUME ReportType, NEW h \in Reporters, BeginReporting(h)
  PROVE  /\ hand' \in [Reporters -> Hands] /\ Others(h) /\ RowsKept
         /\ hand[h].phase = "idle" /\ hand'[h].task = "reporting"
         /\ hand'[h].phase \in {"return", "gather"}
         /\ found = 0 <=> hand'[h].phase = "return"
         /\ hand'[h].report.score = scores /\ hand'[h].open = {}
         /\ due' = [due EXCEPT !.reporting = @ - 1] /\ due.reporting > 0
         /\ errors' = errors /\ cut' = cut /\ beside => beside'
         /\ ~beside' => \A k \in Reporters : hand[k].task # "reporting"
<1> DEFINE r == ReportOf(scores, 0, {})
           p == IF found = 0 THEN "return" ELSE "gather"
<1>1. r \in Reports /\ r.score = scores
  BY Versioned DEF ReportType, ReportOf, Reports
<1>2. p \in HandPhases /\ p \in {"return", "gather"} /\ (found = 0 <=> p = "return")
  BY DEF HandPhases
<1>3. Begin(h, "reporting", p, r)
  BY DEF BeginReporting
<1> HIDE DEF r, p
<1>4. /\ hand' \in [Reporters -> Hands] /\ Others(h) /\ hand'[h].phase = p
      /\ hand'[h].task = "reporting" /\ hand'[h].report = r /\ hand'[h].open = {}
  BY <1>1, <1>2, <1>3, Began
<1>5. QED
  BY <1>1, <1>2, <1>3, <1>4 DEF Begin, At

LEMMA Gathered ==
  ASSUME ReportType, NEW h \in Reporters, Gather(h)
  PROVE  /\ hand' \in [Reporters -> Hands] /\ Others(h)
         /\ hand'[h].phase = "render" /\ hand'[h].task = hand[h].task
         /\ hand'[h].report.score = hand[h].report.score /\ hand'[h].report.found = found
         /\ \E s \in Oldest(Findings(found)) : hand'[h].report.body = Body(s)
<1>1. PICK s \in Oldest(Findings(found)) :
        hand' = [hand EXCEPT ![h].phase = "render",
                             ![h].report = ReportOf(@.score, found, Body(s))]
  BY DEF Gather
<1> DEFINE r == ReportOf(hand[h].report.score, found, Body(s))
<1>2. hand[h] \in Hands
  BY DEF ReportType
<1>3. r \in Reports
  BY <1>2, BodyIsOfFindings DEF ReportType, ReportOf, Hands, Reports
<1>4. r.score = hand[h].report.score /\ r.found = found /\ r.body = Body(s)
  BY DEF ReportOf
<1>5. hand' = [hand EXCEPT ![h].phase = "render", ![h].report = r]
  BY <1>1
<1> HIDE DEF r
<1> DEFINE n == [hand[h] EXCEPT !.phase = "render", !.report = r]
<1>6. n \in Hands /\ n.phase = "render" /\ n.task = hand[h].task /\ n.report = r
  BY <1>2, <1>3 DEF Hands, HandPhases
<1>7. hand' = [hand EXCEPT ![h] = n]
  BY <1>5
<1> HIDE DEF n
<1>8. hand' \in [Reporters -> Hands] /\ Others(h) /\ hand'[h] = n
  BY <1>6, <1>7 DEF ReportType, Others
<1>9. QED
  BY <1>4, <1>6, <1>8

LEMMA Rendered ==
  ASSUME ReportType, NEW h \in Reporters, RenderFormats(h)
  PROVE  /\ hand' \in [Reporters -> Hands] /\ Others(h)
         /\ hand'[h].phase = "save" /\ hand'[h].task = hand[h].task
         /\ hand'[h].report = hand[h].report
         /\ hand'[h].left = hand'[h].formats /\ hand'[h].open = hand[h].open
<1>1. PICK done \in SUBSET Formats :
        hand' = [hand EXCEPT ![h].phase = "save", ![h].formats = done, ![h].left = done]
  BY DEF RenderFormats
<1> DEFINE n == [hand[h] EXCEPT !.phase = "save", !.formats = done, !.left = done]
<1>2. n \in Hands /\ n.phase = "save" /\ n.task = hand[h].task /\ n.report = hand[h].report
      /\ n.left = n.formats /\ n.open = hand[h].open
  BY DEF ReportType, Hands, HandPhases
<1>3. hand' = [hand EXCEPT ![h] = n]
  BY <1>1
<1> HIDE DEF n
<1>4. QED
  BY <1>2, <1>3 DEF ReportType, Others

Writes(h) == StartFile(h) \/ FinishFile(h)

\* What a delivery does that is at its files, and to which file.
WroteOne(h, f) ==
  /\ files' \in [Formats -> Stored]
  /\ files'[f].report = hand[h].report
  /\ \A g \in Formats \ {f} : files'[g] = files[g]

LEMMA Replaced ==
  ASSUME ReportType, NEW h \in Reporters, NEW f \in Formats, NEW whole \in BOOLEAN,
         files' = [files EXCEPT ![f] = File(hand[h].report, whole)]
  PROVE  WroteOne(h, f) /\ files'[f] = File(hand[h].report, whole)
<1> DEFINE new == File(hand[h].report, whole)
<1>1. new \in Stored /\ new.report = hand[h].report
  BY NothingReported DEF ReportType, Hands
<1>2. files' = [files EXCEPT ![f] = new]
  OBVIOUS
<1> HIDE DEF new
<1>3. /\ files' \in [Formats -> Stored] /\ files'[f] = new
      /\ \A g \in Formats \ {f} : files'[g] = files[g]
  BY <1>1, <1>2 DEF ReportType
<1>4. QED
  BY <1>1, <1>3 DEF WroteOne, new

LEMMA Started ==
  ASSUME ReportType, NEW h \in Reporters, StartFile(h)
  PROVE  \E f \in hand[h].left :
           /\ hand' \in [Reporters -> Hands] /\ Others(h)
           /\ hand'[h].phase = "save" /\ hand'[h].task = hand[h].task
           /\ hand'[h].report = hand[h].report /\ hand'[h].formats = hand[h].formats
           /\ hand'[h].left = hand[h].left /\ hand'[h].open = {f} /\ hand[h].open = {}
           /\ f \in Formats /\ WroteOne(h, f)
<1>1. PICK f \in hand[h].left :
        /\ files' = [files EXCEPT ![f] = File(hand[h].report, FALSE)]
        /\ hand' = [hand EXCEPT ![h].open = {f}]
  BY DEF StartFile
<1>2. hand[h] \in Hands /\ f \in Formats /\ hand[h].phase = "save" /\ hand[h].open = {}
  BY DEF ReportType, Hands, StartFile, At
<1>3. WroteOne(h, f)
  BY <1>1, <1>2, Replaced
<1>4. /\ hand' \in [Reporters -> Hands] /\ Others(h)
      /\ hand'[h].phase = hand[h].phase /\ hand'[h].task = hand[h].task
      /\ hand'[h].report = hand[h].report /\ hand'[h].formats = hand[h].formats
      /\ hand'[h].left = hand[h].left /\ hand'[h].open = {f}
  BY <1>1, <1>2 DEF ReportType, Hands, Others
<1>5. QED
  BY <1>2, <1>3, <1>4

LEMMA Finished ==
  ASSUME ReportType, NEW h \in Reporters, FinishFile(h)
  PROVE  \E f \in hand[h].open :
           /\ hand' \in [Reporters -> Hands] /\ Others(h)
           /\ hand'[h].phase = "save" /\ hand'[h].task = hand[h].task
           /\ hand'[h].report = hand[h].report /\ hand'[h].formats = hand[h].formats
           /\ hand'[h].left = hand[h].left \ {f} /\ hand'[h].open = {}
           /\ f \in Formats /\ WroteOne(h, f)
           /\ files'[f] = File(hand[h].report, ~beside)
<1>1. PICK f \in hand[h].open :
        /\ files' = [files EXCEPT ![f] = File(hand[h].report, ~beside)]
        /\ hand' = [hand EXCEPT ![h].left = @ \ {f}, ![h].open = {}]
  BY DEF FinishFile
<1>2. hand[h] \in Hands /\ f \in Formats /\ hand[h].phase = "save"
  BY DEF ReportType, Hands, FinishFile, At
<1>3. WroteOne(h, f) /\ files'[f] = File(hand[h].report, ~beside)
  BY <1>1, <1>2, Replaced
<1>4. /\ hand' \in [Reporters -> Hands] /\ Others(h)
      /\ hand'[h].phase = hand[h].phase /\ hand'[h].task = hand[h].task
      /\ hand'[h].report = hand[h].report /\ hand'[h].formats = hand[h].formats
      /\ hand'[h].left = hand[h].left \ {f} /\ hand'[h].open = {}
  BY <1>1, <1>2 DEF ReportType, Hands, Others
<1>5. QED
  BY <1>2, <1>3, <1>4

LEMMA Wrote ==
  ASSUME ReportType, NEW h \in Reporters, Writes(h)
  PROVE  \E f \in Formats :
           /\ hand' \in [Reporters -> Hands] /\ Others(h)
           /\ hand[h].phase = "save" /\ hand'[h].phase = "save"
           /\ hand'[h].task = hand[h].task /\ hand'[h].report = hand[h].report
           /\ hand'[h].formats = hand[h].formats
           /\ f \in hand[h].left \cup hand[h].open /\ WroteOne(h, f)
           /\ UNCHANGED <<found, scores, told, due, reader, errors, losses, beside, cut>>
<1>1. hand[h].phase = "save"
      /\ UNCHANGED <<found, scores, told, due, reader, errors, losses, beside, cut>>
  BY DEF Writes, StartFile, FinishFile, At, Counted
<1>2. QED
  BY <1>1, Started, Finished DEF Writes

LEMMA ReaderTypeStep ==
  ASSUME ReportType, ReaderStep
  PROVE  ReportType'
<1> USE NothingReported DEF ReportType, Readers, ReaderPhases, ReportRows, Answers, RowsKept
<1>1. CASE OpenPage
  BY <1>1 DEF OpenPage, Waiting
<1>2. CASE AddScore
  BY <1>2 DEF AddScore
<1>3. ASSUME NEW f \in Formats, AskDownload(f) PROVE ReportType'
  BY <1>3 DEF AskDownload, Waiting
<1>4. CASE LoadFile
  <2> DEFINE got == files[reader.fmt]
             phase == IF got = NoFile THEN "gone" ELSE "record"
  <2>1. got \in Stored /\ phase \in {"gone", "record"}
    BY <1>4 DEF LoadFile
  <2>2. reader' = [reader EXCEPT !.phase = phase, !.got = got, !.fmt = "none"]
    BY <1>4 DEF LoadFile
  <2> HIDE DEF got, phase
  <2>3. reader' \in Readers /\ reader'.phase # "load"
    BY <2>1, <2>2
  <2>4. QED
    BY <1>4, <2>3 DEF LoadFile
<1>5. CASE Record
  <2>1. PICK written \in BOOLEAN :
          reader' = [reader EXCEPT !.phase = "commit", !.audit = written]
    BY <1>5 DEF Record
  <2>2. reader' \in Readers /\ reader'.phase # "load"
    BY <2>1
  <2>3. QED
    BY <1>5, <2>2 DEF Record
<1>6. CASE AnswerDownload
  <2>1. PICK ok \in {reader.audit, FALSE} :
          reader' = [reader EXCEPT !.phase = IF ok THEN "served" ELSE "error", !.audit = ok]
    BY <1>6 DEF AnswerDownload
  <2>2. reader' \in Readers /\ reader'.phase # "load"
    BY <2>1
  <2>3. QED
    BY <1>6, <2>2 DEF AnswerDownload
<1>7. CASE Forget
  BY <1>7 DEF Forget, Waiting
<1>8. QED
  BY <1>1, <1>2, <1>3, <1>4, <1>5, <1>6, <1>7 DEF ReaderStep

LEMMA ReportTypeStep == ReportType /\ [ReportNext]_rvars => ReportType'
<1> SUFFICES ASSUME ReportType, [ReportNext]_rvars PROVE ReportType'
  OBVIOUS
<1> DEFINE Due == [engines : Nat, scoring : Nat, reporting : Nat]
<1>1. CASE UNCHANGED rvars
  BY <1>1 DEF rvars, ReportType
<1>2. CASE EnginesDone
  <2>1. due' \in Due
    <3>1. due' = [due EXCEPT !.engines = @ - 1, !.scoring = @ + 1] /\ due.engines > 0
      BY <1>2 DEF EnginesDone
    <3>2. due.engines \in Nat /\ due.scoring \in Nat /\ due.reporting \in Nat
          /\ due = [engines |-> due.engines, scoring |-> due.scoring, reporting |-> due.reporting]
      BY DEF ReportType
    <3>3. due' = [engines |-> due.engines - 1, scoring |-> due.scoring + 1,
                  reporting |-> due.reporting]
      BY <3>1, <3>2
    <3>4. due.engines - 1 \in Nat
      BY <3>1, <3>2
    <3>5. QED
      BY <3>2, <3>3, <3>4
  <2>2. found' \in FindingVersions
    BY <1>2 DEF EnginesDone
  <2>3. QED
    BY <1>2, <2>1, <2>2 DEF EnginesDone, ReportType
<1>3. CASE ReaderStep
  BY <1>3, ReaderTypeStep
<1>4. ASSUME NEW h \in Reporters, ReporterStep(h) PROVE ReportType'
  <2>0. hand[h] \in Hands
    BY DEF ReportType
  <2>1. CASE BeginScoring(h)
    <3>1. due' \in Due
      BY <2>1, BeganScoring DEF ReportType
    <3>2. QED
      BY <2>1, <3>1, BeganScoring DEF BeginScoring, Begin, RowsKept, ReportType
  <2>2. CASE BeginReporting(h)
    <3>1. due' \in Due
      BY <2>2, BeganReporting DEF ReportType
    <3>2. QED
      BY <2>2, <3>1, BeganReporting DEF BeginReporting, Begin, RowsKept, ReportType
  <2>3. CASE ScoreFindings(h)
    <3>1. hand' \in [Reporters -> Hands]
      BY <2>3, Moved DEF ScoreFindings, HandPhases
    <3>2. scores' \in FindingVersions
      BY <2>0, <2>3 DEF ScoreFindings, Hands, Reports, ReportType
    <3>3. QED
      BY <2>3, <3>1, <3>2 DEF ScoreFindings, Counted, ReportType
  <2>4. CASE Gather(h)
    BY <2>4, Gathered DEF Gather, RowsKept, Counted, ReportType
  <2>5. CASE RenderFormats(h)
    BY <2>5, Rendered DEF RenderFormats, RowsKept, Counted, ReportType
  <2>6. CASE Writes(h)
    BY <2>6, Wrote DEF WroteOne, ReportType
  <2>7. CASE Tell(h)
    <3>1. hand' \in [Reporters -> Hands]
      BY <2>7, Moved DEF Tell, HandPhases
    <3>2. told' \in ReportRows
      BY <2>0, <2>7 DEF Tell, Hands, ReportRows
    <3>3. QED
      BY <2>7, <3>1, <3>2 DEF Tell, Counted, ReportType
  <2>8. CASE StageFails(h)
    <3>1. hand' \in [Reporters -> Hands]
      BY <2>8, Failed
    <3>2. cut' \in BOOLEAN
      BY <2>8 DEF StageFails
    <3>3. QED
      BY <2>8, <3>1, <3>2 DEF StageFails, RowsKept, ReportType
  <2>9. CASE Return(h)
    <3>1. hand' \in [Reporters -> Hands]
      BY <2>9, Moved DEF Return, HandPhases
    <3>2. due' \in Due
      BY <2>9 DEF Return, ReportType
    <3>3. QED
      BY <2>9, <3>1, <3>2 DEF Return, RowsKept, ReportType
  <2>10. CASE Acknowledge(h)
    BY <2>10, Emptied DEF Acknowledge, RowsKept, Counted, ReportType
  <2>11. CASE LoseReporter(h) \/ KillReporter(h)
    <3>1. hand' \in [Reporters -> Hands] /\ cut' \in BOOLEAN
          /\ UNCHANGED <<reader, beside>> /\ RowsKept
      BY <2>11, Emptied DEF LoseReporter, KillReporter, BreakOff
    <3>2. due' \in Due
      <4>1. CASE KillReporter(h)
        BY <4>1 DEF KillReporter, ReportType
      <4>2. CASE LoseReporter(h) /\ hand[h].task = "scoring"
        BY <4>2 DEF LoseReporter, ReportType
      <4>3. CASE LoseReporter(h) /\ hand[h].task = "reporting"
        BY <4>3 DEF LoseReporter, ReportType
      <4>4. CASE LoseReporter(h) /\ hand[h].task = "none"
        BY <4>4 DEF LoseReporter, ReportType
      <4>5. QED
        BY <2>0, <2>11, <4>1, <4>2, <4>3, <4>4 DEF Hands
    <3>3. errors' \in Nat /\ losses' \in Nat
      BY <2>11 DEF LoseReporter, KillReporter, ReportType
    <3>4. QED
      BY <3>1, <3>2, <3>3 DEF RowsKept, ReportType
  <2>12. QED
    BY <1>4, <2>1, <2>2, <2>3, <2>4, <2>5, <2>6, <2>7, <2>8, <2>9, <2>10, <2>11
       DEF ReporterStep, Writes
<1>5. QED
  BY <1>1, <1>2, <1>3, <1>4 DEF ReportNext

(* Where a delivery is, and that what the manifest names has been stored. *)

Placed ==
  \A h \in Reporters :
    /\ hand[h].phase = "idle" <=> hand[h].task = "none"
    /\ hand[h].phase = "score" => hand[h].task = "scoring"
    /\ hand[h].phase \in {"gather", "render", "save"} =>
         hand[h].task = "reporting" /\ found # 0

Saved(h) == hand[h].formats \ hand[h].left
Assembled(r) == r.found # 0 /\ \E s \in Oldest(Findings(r.found)) : r.body = Body(s)

Filed ==
  /\ told = NoRow \/ Assembled(told.report)
  /\ \A f \in told.formats : files[f] # NoFile
  /\ \A h \in Reporters :
       /\ hand[h].phase # "save" => hand[h].open = {}
       /\ \A f, g \in hand[h].open : f = g
       /\ hand[h].phase \in {"render", "save"} => Assembled(hand[h].report)
       /\ hand[h].phase = "save" => /\ hand[h].left \subseteq hand[h].formats
                                    /\ hand[h].open \subseteq hand[h].left
                                    /\ \A f \in Saved(h) : files[f] # NoFile

Served ==
  /\ reader.phase = "load" => files[reader.fmt] # NoFile
  /\ reader.phase # "gone"
  /\ reader.phase = "served" => reader.audit

LEMMA ReaderLeaves == ReaderStep =>
  UNCHANGED <<found, scores, told, files, due, hand, errors, losses, beside, cut>>
BY DEF ReaderStep, OpenPage, AddScore, AskDownload, LoadFile, Record, AnswerDownload, Forget,
       Answers, RowsKept

LEMMA FoundStays == ReportType /\ [ReportNext]_rvars => found' \in Nat /\ found' >= found
<1> SUFFICES ASSUME ReportType, [ReportNext]_rvars PROVE found' \in Nat /\ found' >= found
  OBVIOUS
<1>1. found \in Nat
  BY Versioned DEF ReportType
<1>2. CASE EnginesDone
  <2>1. found' \in {v \in FindingVersions : v >= found}
    BY <1>2 DEF EnginesDone
  <2>2. QED
    BY <2>1, Versioned
<1>3. CASE UNCHANGED rvars \/ ReaderStep
  BY <1>1, <1>3, ReaderLeaves DEF rvars
<1>4. ASSUME NEW h \in Reporters, ReporterStep(h) PROVE found' = found
  BY <1>4
     DEF ReporterStep, BeginScoring, BeginReporting, Begin, ScoreFindings, Gather,
         RenderFormats, StartFile, FinishFile, Tell, StageFails, Return, Acknowledge,
         LoseReporter, KillReporter, BreakOff, RowsKept
<1>5. QED
  BY <1>1, <1>2, <1>3, <1>4 DEF ReportNext

LEMMA TaskLeaves == EnginesDone \/ (\E h \in Reporters : ReporterStep(h)) => reader' = reader
BY DEF EnginesDone, ReporterStep, BeginScoring, BeginReporting, Begin, ScoreFindings, Gather,
       RenderFormats, StartFile, FinishFile, Tell, StageFails, Return, Acknowledge,
       LoseReporter, KillReporter, BreakOff, Counted

\* What one delivery's step does to its own place, and to what is in storage.
LEMMA HandSteps ==
  ASSUME ReportType, Placed, NEW h \in Reporters, ReporterStep(h)
  PROVE  /\ Others(h) /\ hand' \in [Reporters -> Hands]
         /\ hand'[h].phase = "idle" <=> hand'[h].task = "none"
         /\ hand'[h].phase = "score" => hand'[h].task = "scoring"
         /\ hand'[h].phase \in {"gather", "render", "save"} =>
              hand'[h].task = "reporting" /\ found' # 0
<1>0. hand[h] \in Hands /\ Idle.task = "none" /\ Idle.phase = "idle"
  BY DEF ReportType, Idle
<1>1. CASE BeginScoring(h)
  BY <1>1, BeganScoring
<1>2. CASE BeginReporting(h)
  BY <1>2, BeganReporting DEF RowsKept
<1>3. CASE ScoreFindings(h)
  BY <1>3, <1>0, Moved DEF ScoreFindings, HandPhases, At, Placed
<1>4. CASE Gather(h)
  BY <1>4, Gathered DEF Gather, At, RowsKept, Placed
<1>5. CASE RenderFormats(h)
  BY <1>5, Rendered DEF RenderFormats, At, RowsKept, Placed
<1>6. CASE Writes(h)
  BY <1>6, Wrote DEF Placed
<1>7. CASE Tell(h)
  BY <1>7, <1>0, Moved DEF Tell, HandPhases, At, Placed
<1>8. CASE StageFails(h)
  BY <1>8, <1>0, Failed DEF StageFails, At, Placed
<1>9. CASE Return(h)
  BY <1>9, <1>0, Moved DEF Return, HandPhases, At, Placed
<1>10. CASE Acknowledge(h)
  BY <1>10, <1>0, Emptied DEF Acknowledge
<1>11. CASE BreakOff(h)
  BY <1>11, <1>0, Emptied DEF BreakOff
<1>12. QED
  BY <1>1, <1>2, <1>3, <1>4, <1>5, <1>6, <1>7, <1>8, <1>9, <1>10, <1>11
     DEF ReporterStep, Writes, LoseReporter, KillReporter

LEMMA PlacedStep == ReportType /\ Placed /\ [ReportNext]_rvars => Placed'
<1> SUFFICES ASSUME ReportType, Placed, [ReportNext]_rvars PROVE Placed'
  OBVIOUS
<1>1. found # 0 => found' # 0
  BY FoundStays, Versioned DEF ReportType
<1>2. CASE UNCHANGED rvars \/ EnginesDone \/ ReaderStep
  <2>1. hand' = hand
    BY <1>2, ReaderLeaves DEF rvars, EnginesDone
  <2>2. QED
    BY <1>1, <2>1 DEF Placed
<1>3. ASSUME NEW h \in Reporters, ReporterStep(h) PROVE Placed'
  BY <1>1, <1>3, HandSteps DEF Placed, Others
<1>4. QED
  BY <1>2, <1>3 DEF ReportNext

LEMMA NotNothing ==
  \A f \in Stored : Assembled(f.report) => f # NoFile
BY NothingReported DEF Assembled

\* A file that is there is only ever replaced by another report.
LEMMA FilesStay ==
  ASSUME ReportType, Filed, [ReportNext]_rvars
  PROVE  \A f \in Formats : files[f] # NoFile => files'[f] # NoFile
<1>1. CASE UNCHANGED rvars \/ EnginesDone \/ ReaderStep
  BY <1>1, ReaderLeaves DEF rvars, EnginesDone
<1>2. ASSUME NEW h \in Reporters, ReporterStep(h)
      PROVE  \A f \in Formats : files[f] # NoFile => files'[f] # NoFile
  <2>1. CASE Writes(h)
    <3>1. PICK f \in Formats : WroteOne(h, f) /\ hand[h].phase = "save"
      BY <2>1, Wrote
    <3>2. files'[f] \in Stored /\ Assembled(files'[f].report)
      BY <3>1 DEF WroteOne, Filed
    <3>3. QED
      BY <3>1, <3>2, NotNothing DEF WroteOne
  <2>2. CASE ~Writes(h)
    BY <1>2, <2>2
       DEF Writes, ReporterStep, BeginScoring, BeginReporting, Begin, ScoreFindings, Gather,
           RenderFormats, Tell, StageFails, Return, Acknowledge, LoseReporter, KillReporter,
           BreakOff, RowsKept
  <2>3. QED
    BY <2>1, <2>2
<1>3. QED
  BY <1>1, <1>2 DEF ReportNext

LEMMA FiledStep == ReportType /\ Placed /\ Filed /\ [ReportNext]_rvars => Filed'
<1> SUFFICES ASSUME ReportType, Placed, Filed, [ReportNext]_rvars PROVE Filed'
  OBVIOUS
<1>1. CASE UNCHANGED rvars \/ EnginesDone \/ ReaderStep
  <2>1. UNCHANGED <<told, files, hand>>
    BY <1>1, ReaderLeaves DEF rvars, EnginesDone
  <2>2. QED
    BY <2>1 DEF Filed, Saved
<1>2. ASSUME NEW h \in Reporters, ReporterStep(h) PROVE Filed'
  <2> DEFINE HandMade(k) ==
        /\ hand'[k].phase # "save" => hand'[k].open = {}
        /\ \A f, g \in hand'[k].open : f = g
        /\ hand'[k].phase \in {"render", "save"} => Assembled(hand'[k].report)
        /\ hand'[k].phase = "save" =>
             /\ hand'[k].left \subseteq hand'[k].formats
             /\ hand'[k].open \subseteq hand'[k].left
             /\ \A f \in hand'[k].formats \ hand'[k].left : files'[f] # NoFile
  <2>0. hand[h] \in Hands /\ told.formats \subseteq Formats /\ Idle.phase = "idle"
    BY DEF ReportType, ReportRows, Idle
  <2>1. ASSUME NEW k \in Reporters, k # h PROVE HandMade(k)
    <3>1. hand'[k] = hand[k] /\ hand[k] \in Hands
      BY <1>2, <2>1, HandSteps DEF Others, ReportType
    <3>2. QED
      BY <3>1, FilesStay DEF Filed, Saved, Hands
  <2>2. (told' = NoRow \/ Assembled(told'.report)) /\ \A f \in told'.formats : files'[f] # NoFile
    <3>1. CASE Tell(h)
      <4>1. told' = [report |-> hand[h].report, formats |-> hand[h].formats]
        BY <3>1 DEF Tell
      <4>2. Assembled(hand[h].report)
        BY <3>1 DEF Tell, At, Filed
      <4>3. \A f \in hand[h].formats : files[f] # NoFile
        BY <3>1 DEF Tell, At, Filed, Saved
      <4>4. QED
        BY <2>0, <4>1, <4>2, <4>3, FilesStay DEF Hands
    <3>2. CASE ~Tell(h)
      <4>1. told' = told
        BY <1>2, <3>2
           DEF ReporterStep, BeginScoring, BeginReporting, Begin, ScoreFindings, Gather,
               RenderFormats, StartFile, FinishFile, StageFails, Return, Acknowledge,
               LoseReporter, KillReporter, BreakOff, RowsKept
      <4>2. QED
        BY <2>0, <4>1, FilesStay DEF Filed
    <3>3. QED
      BY <3>1, <3>2
  <2>3. HandMade(h)
    <3>1. CASE Gather(h)
      <4>1. found # 0
        BY <3>1 DEF Gather, At, Placed
      <4>2. hand'[h].phase = "render" /\ Assembled(hand'[h].report)
        BY <3>1, <4>1, Gathered DEF Assembled
      <4>3. hand[h].phase = "gather" /\ hand'[h].open = hand[h].open
        BY <3>1 DEF Gather, At, ReportType, Hands
      <4>4. QED
        BY <4>2, <4>3 DEF Filed
    <3>2. CASE RenderFormats(h)
      <4>1. Assembled(hand[h].report) /\ hand[h].open = {}
        BY <3>2 DEF RenderFormats, At, Filed
      <4>2. QED
        BY <3>2, <4>1, Rendered
    <3>3. CASE StartFile(h)
      <4>1. PICK f \in hand[h].left :
              /\ hand'[h].phase = "save" /\ hand'[h].report = hand[h].report
              /\ hand'[h].formats = hand[h].formats /\ hand'[h].left = hand[h].left
              /\ hand'[h].open = {f} /\ f \in Formats /\ WroteOne(h, f)
        BY <3>3, Started
      <4>2. /\ Assembled(hand[h].report) /\ hand[h].left \subseteq hand[h].formats
            /\ \A g \in Saved(h) : files[g] # NoFile
        BY <3>3 DEF StartFile, At, Filed
      <4>3. \A g \in Saved(h) : g \in Formats \ {f}
        BY <2>0, <4>1 DEF Saved, Hands
      <4>4. QED
        BY <4>1, <4>2, <4>3 DEF Saved, WroteOne
    <3>4. CASE FinishFile(h)
      <4>1. PICK f \in hand[h].open :
              /\ hand'[h].phase = "save" /\ hand'[h].report = hand[h].report
              /\ hand'[h].formats = hand[h].formats /\ hand'[h].left = hand[h].left \ {f}
              /\ hand'[h].open = {} /\ f \in Formats /\ WroteOne(h, f)
        BY <3>4, Finished
      <4>2. /\ Assembled(hand[h].report) /\ hand[h].left \subseteq hand[h].formats
            /\ \A g \in Saved(h) : files[g] # NoFile /\ g \in Formats
        BY <2>0, <3>4 DEF FinishFile, At, Filed, Saved, Hands
      <4>3. files'[f] # NoFile
        BY <4>1, <4>2, NotNothing DEF WroteOne
      <4>4. ASSUME NEW g \in hand'[h].formats \ hand'[h].left PROVE files'[g] # NoFile
        <5>1. g = f \/ g \in Saved(h)
          BY <4>1, <4>4 DEF Saved
        <5>2. QED
          BY <4>1, <4>2, <4>3, <5>1 DEF WroteOne
      <4>5. QED
        BY <4>1, <4>2, <4>4
    <3>5. CASE ~Gather(h) /\ ~RenderFormats(h) /\ ~Writes(h)
      <4>0. Idle.open = {}
        BY DEF Idle
      <4>1. hand'[h].phase \in {"score", "gather", "return", "ack", "idle"} /\ hand'[h].open = {}
        <5>1. CASE BeginScoring(h)
          BY <5>1, BeganScoring
        <5>2. CASE BeginReporting(h)
          BY <5>2, BeganReporting
        <5>3. CASE ScoreFindings(h) \/ Return(h)
          BY <5>3, Moved DEF ScoreFindings, Return, HandPhases, At, Filed
        <5>4. CASE Tell(h)
          <6>1. hand[h].open = {} /\ Move(h, "return")
            BY <5>4 DEF Tell, At, Filed
          <6>2. QED
            BY <6>1, Moved DEF HandPhases
        <5>5. CASE StageFails(h)
          BY <5>5, Failed
        <5>6. CASE Acknowledge(h) \/ BreakOff(h)
          BY <5>6, <2>0, <4>0, Emptied DEF Acknowledge, BreakOff
        <5>7. QED
          BY <1>2, <3>5, <5>1, <5>2, <5>3, <5>4, <5>5, <5>6
             DEF ReporterStep, Writes, LoseReporter, KillReporter
      <4>2. QED
        BY <4>1
    <3>6. QED
      BY <3>1, <3>2, <3>3, <3>4, <3>5 DEF Writes
  <2>4. \A k \in Reporters : HandMade(k)
    BY <2>1, <2>3
  <2>5. QED
    BY <2>2, <2>4 DEF Filed, Saved
<1>3. QED
  BY <1>1, <1>2 DEF ReportNext

LEMMA ServedStep == ReportType /\ Filed /\ Served /\ [ReportNext]_rvars => Served'
<1> SUFFICES ASSUME ReportType, Filed, Served, [ReportNext]_rvars PROVE Served'
  OBVIOUS
<1>1. CASE reader' = reader
  BY <1>1, FilesStay DEF Served, ReportType
<1>2. CASE ReaderStep
  <2>0. files' = files /\ reader \in Readers /\ told \in ReportRows /\ Waiting.phase = "idle"
    BY <1>2, ReaderLeaves DEF ReportType, Waiting
  <2>1. CASE OpenPage
    BY <2>0, <2>1 DEF OpenPage, Answers, Waiting, Served
  <2>2. CASE AddScore
    BY <2>0, <2>2 DEF AddScore, Answers, Readers, Served
  <2>3. ASSUME NEW f \in Formats, AskDownload(f) PROVE Served'
    <3>1. reader'.phase = "load" /\ reader'.fmt = f
      BY <2>3 DEF AskDownload, Answers, Waiting
    <3>2. files[f] # NoFile
      BY <2>3 DEF AskDownload, Filed
    <3>3. QED
      BY <2>0, <3>1, <3>2 DEF Served
  <2>4. CASE LoadFile
    <3>1. files[reader.fmt] # NoFile
      BY <2>4 DEF LoadFile, Served
    <3>2. reader' = [reader EXCEPT !.phase = "record", !.got = files[reader.fmt], !.fmt = "none"]
      BY <2>4, <3>1 DEF LoadFile, Answers
    <3>3. reader'.phase = "record"
      BY <2>0, <3>2 DEF Readers
    <3>4. QED
      BY <3>3 DEF Served
  <2>5. CASE Record
    <3>1. PICK written \in BOOLEAN :
            reader' = [reader EXCEPT !.phase = "commit", !.audit = written]
      BY <2>5 DEF Record, Answers
    <3>2. reader'.phase = "commit"
      BY <2>0, <3>1 DEF Readers
    <3>3. QED
      BY <3>2 DEF Served
  <2>6. CASE AnswerDownload
    <3>1. PICK ok \in {reader.audit, FALSE} :
            reader' = [reader EXCEPT !.phase = IF ok THEN "served" ELSE "error", !.audit = ok]
      BY <2>6 DEF AnswerDownload, Answers
    <3>2. reader'.phase \in {"served", "error"} /\ (reader'.phase = "served" => ok)
          /\ reader'.audit = ok
      BY <2>0, <3>1 DEF Readers
    <3>3. QED
      BY <3>2 DEF Served
  <2>7. CASE Forget
    BY <2>7, <2>0 DEF Forget, Answers, Served
  <2>8. QED
    BY <1>2, <2>1, <2>2, <2>3, <2>4, <2>5, <2>6, <2>7 DEF ReaderStep
<1>3. QED
  BY <1>1, <1>2, TaskLeaves DEF ReportNext, rvars

(* As long as deliveries of a task do not overlap, what is stored only gets newer. *)

OneEach ==
  \A h, k \in Reporters : hand[h].task = hand[k].task /\ hand[h].task # "none" => h = k

Assembling == {"gather", "render", "save"}

\* A delivery's inputs are no older than what is stored, nor newer than what there is.
InHandForward(h) ==
  /\ hand[h].phase = "score" =>
       scores <= hand[h].report.found /\ hand[h].report.found <= found
  /\ hand[h].phase \in Assembling =>
       told.report.score <= hand[h].report.score /\ hand[h].report.score <= scores
  /\ hand[h].phase \in {"render", "save"} =>
       told.report.found <= hand[h].report.found /\ hand[h].report.found <= found
  /\ hand[h].phase = "save" => \A f \in Saved(h) : files[f] = File(hand[h].report, TRUE)

Forward ==
  /\ scores <= found /\ told.report.score <= scores /\ told.report.found <= found
  /\ \A h \in Reporters : InHandForward(h)
  /\ \A f \in told.formats : NotOlder(files[f].report, told.report)

ReaderSees ==
  /\ reader.phase = "load" =>
       /\ NotOlder(files[reader.fmt].report, reader.row.report)
       /\ NotOlder(told.report, reader.row.report)
  /\ reader.got # NoFile => NotOlder(reader.got.report, reader.row.report)
  /\ reader.phase = "page" => reader.row.report.score <= scores
  /\ reader.phase = "shown" => reader.row.report.score <= reader.score

LEMMA Numbers ==
  ASSUME ReportType
  PROVE  /\ found \in Nat /\ scores \in Nat
         /\ \A r \in Reports : r.score \in Nat /\ r.found \in Nat
         /\ told.report \in Reports /\ told.formats \subseteq Formats
         /\ \A f \in Formats : files[f] \in Stored /\ files[f].report \in Reports
         /\ \A h \in Reporters : /\ hand[h] \in Hands /\ hand[h].report \in Reports
                                 /\ hand[h].formats \subseteq Formats
                                 /\ hand[h].left \subseteq Formats
                                 /\ hand[h].open \subseteq Formats
         /\ reader \in Readers /\ reader.row.report \in Reports /\ reader.got.report \in Reports
         /\ reader.score \in Nat
BY Versioned DEF ReportType, Reports, ReportRows, Hands, Readers, Stored

\* Only three actions write anything a client can read.
LEMMA Writers ==
  ASSUME NEW h \in Reporters, ReporterStep(h)
  PROVE  /\ found' = found /\ reader' = reader
         /\ scores' = scores \/ ScoreFindings(h)
         /\ files' = files \/ Writes(h)
         /\ told' = told \/ Tell(h)
BY DEF ReporterStep, BeginScoring, BeginReporting, Begin, ScoreFindings, Gather, RenderFormats,
       StartFile, FinishFile, Tell, StageFails, Return, Acknowledge, LoseReporter,
       KillReporter, BreakOff, RowsKept, Counted, Writes

LEMMA OverlapStays == [ReportNext]_rvars /\ ~beside' => ~beside
BY DEF ReportNext, rvars, EnginesDone, ReaderStep, OpenPage, AddScore, AskDownload, LoadFile,
       Record, AnswerDownload, Forget, Answers, ReporterStep, BeginScoring, BeginReporting, Begin,
       ScoreFindings, Gather, RenderFormats, StartFile, FinishFile, Tell, StageFails, Return,
       Acknowledge,
       LoseReporter, KillReporter, BreakOff, Counted

LEMMA TasksLeft ==
  ASSUME ReportType, NEW h \in Reporters, ReporterStep(h),
         ~BeginScoring(h), ~BeginReporting(h)
  PROVE  hand'[h].task \in {hand[h].task, "none"}
<1>1. Idle.task = "none"
  BY DEF Idle
<1>2. CASE ScoreFindings(h) \/ Tell(h) \/ StageFails(h) \/ Return(h)
  BY <1>2, Moved, Failed DEF ScoreFindings, Tell, Return, HandPhases
<1>3. CASE Gather(h) \/ RenderFormats(h)
  BY <1>3, Gathered, Rendered
<1>4. CASE Writes(h)
  BY <1>4, Wrote
<1>5. CASE Acknowledge(h) \/ BreakOff(h)
  BY <1>1, <1>5, Emptied DEF Acknowledge, BreakOff
<1>6. QED
  BY <1>2, <1>3, <1>4, <1>5 DEF ReporterStep, Writes, LoseReporter, KillReporter

LEMMA OneEachStep ==
  ASSUME ReportType, Placed, OneEach, [ReportNext]_rvars, ~beside'
  PROVE  OneEach'
<1>1. CASE UNCHANGED rvars \/ EnginesDone \/ ReaderStep
  <2>1. hand' = hand
    BY <1>1, ReaderLeaves DEF rvars, EnginesDone
  <2>2. QED
    BY <2>1 DEF OneEach
<1>2. ASSUME NEW h \in Reporters, ReporterStep(h) PROVE OneEach'
  <2>1. Others(h)
    BY <1>2, HandSteps
  <2>2. CASE BeginScoring(h)
    BY <2>1, <2>2, BeganScoring DEF OneEach, Others
  <2>3. CASE BeginReporting(h)
    BY <2>1, <2>3, BeganReporting DEF OneEach, Others
  <2>4. CASE ~BeginScoring(h) /\ ~BeginReporting(h)
    BY <1>2, <2>1, <2>4, TasksLeft DEF OneEach, Others
  <2>5. QED
    BY <2>2, <2>3, <2>4
<1>3. QED
  BY <1>1, <1>2 DEF ReportNext

\* While one delivery works, no other writes what it reads.
LEMMA OneWrites ==
  ASSUME ReportType, Placed, OneEach, NEW h \in Reporters, ReporterStep(h),
         NEW k \in Reporters, k # h
  PROVE  /\ hand[k].phase = "score" => scores' = scores
         /\ hand[k].phase \in Assembling => told' = told /\ files' = files
<1>1. ScoreFindings(h) => hand[h].task = "scoring"
  BY DEF ScoreFindings, At, Placed
<1>2. Writes(h) \/ Tell(h) => hand[h].task = "reporting"
  BY DEF Writes, StartFile, FinishFile, Tell, At, Placed
<1>3. /\ hand[k].phase = "score" => hand[k].task = "scoring"
      /\ hand[k].phase \in Assembling => hand[k].task = "reporting"
  BY DEF Placed, Assembling
<1>4. QED
  BY <1>1, <1>2, <1>3, Writers DEF OneEach

LEMMA Advances ==
  ASSUME ReportType, Forward, [ReportNext]_rvars
  PROVE  /\ scores <= scores' /\ scores' <= found'
         /\ NotOlder(told'.report, told.report)
         /\ told'.report.score <= scores' /\ told'.report.found <= found'
         /\ \A f \in Formats : files'[f] = files[f] \/ NotOlder(files'[f].report, told.report)
<1>0. found' \in Nat /\ found' >= found
  BY FoundStays
<1>1. CASE UNCHANGED rvars \/ EnginesDone \/ ReaderStep
  <2>1. UNCHANGED <<scores, told, files>>
    BY <1>1, ReaderLeaves DEF rvars, EnginesDone
  <2>2. QED
    BY <1>0, <2>1, Numbers DEF Forward, NotOlder
<1>2. ASSUME NEW h \in Reporters, ReporterStep(h)
      PROVE  /\ scores <= scores' /\ scores' <= found'
             /\ NotOlder(told'.report, told.report)
             /\ told'.report.score <= scores' /\ told'.report.found <= found'
             /\ \A f \in Formats : files'[f] = files[f] \/ NotOlder(files'[f].report, told.report)
  <2>1. InHandForward(h) /\ found' = found
    BY <1>2, Writers DEF Forward
  <2>2. CASE ScoreFindings(h)
    <3>1. told' = told /\ files' = files /\ scores' \in {scores, hand[h].report.found}
      BY <2>2 DEF ScoreFindings
    <3>2. scores <= hand[h].report.found /\ hand[h].report.found <= found
      BY <2>1, <2>2 DEF InHandForward, ScoreFindings, At
    <3>3. QED
      BY <2>1, <3>1, <3>2, Numbers DEF Forward, NotOlder
  <2>3. CASE Writes(h)
    <3>1. PICK f \in Formats :
            /\ told' = told /\ scores' = scores /\ hand[h].phase = "save" /\ WroteOne(h, f)
      BY <2>3, Wrote
    <3>2. NotOlder(hand[h].report, told.report)
      BY <2>1, <3>1, Numbers DEF InHandForward, Assembling, NotOlder
    <3>3. QED
      BY <2>1, <3>1, <3>2, Numbers DEF Forward, NotOlder, WroteOne
  <2>4. CASE Tell(h)
    <3>1. files' = files /\ scores' = scores /\ told'.report = hand[h].report
      BY <2>4 DEF Tell
    <3>2. QED
      BY <2>1, <2>4, <3>1, Numbers DEF InHandForward, Assembling, Tell, At, NotOlder, Forward
  <2>5. CASE UNCHANGED <<scores, told, files>>
    BY <2>1, <2>5, Numbers DEF Forward, NotOlder
  <2>6. QED
    BY <1>2, <2>2, <2>3, <2>4, <2>5, Writers
<1>3. QED
  BY <1>1, <1>2 DEF ReportNext

\* What a delivery has read stays good while what it reads stays and findings only come.
LEMMA InHandStays ==
  ASSUME ReportType, Forward, [ReportNext]_rvars, ReportType', NEW k \in Reporters,
         InHandForward(k), hand'[k] = hand[k],
         hand[k].phase = "score" => scores' = scores,
         hand[k].phase \in Assembling => told' = told /\ files' = files
  PROVE  InHandForward(k)'
<1>0. /\ found \in Nat /\ found' \in Nat /\ found' >= found
      /\ scores \in Nat /\ scores' \in Nat /\ scores <= scores'
      /\ hand[k].report.found \in Nat /\ hand[k].report.score \in Nat
  BY FoundStays, Advances, Numbers, Versioned DEF ReportType
<1>1. CASE hand[k].phase = "score"
  BY <1>0, <1>1 DEF InHandForward, Assembling
<1>2. CASE hand[k].phase = "gather"
  BY <1>0, <1>2 DEF InHandForward, Assembling
<1>3. CASE hand[k].phase = "render"
  BY <1>0, <1>3 DEF InHandForward, Assembling
<1>4. CASE hand[k].phase = "save"
  <2>1. Saved(k)' = Saved(k) /\ files' = files
    BY <1>4 DEF Saved, Assembling
  <2>2. \A f \in Saved(k)' : files'[f] = File(hand'[k].report, TRUE)
    BY <1>4, <2>1 DEF InHandForward, File
  <2>3. told' = told
    BY <1>4 DEF Assembling
  <2>4. /\ told.report.score <= hand[k].report.score /\ hand[k].report.score <= scores
        /\ told.report.found <= hand[k].report.found /\ hand[k].report.found <= found
    BY <1>4 DEF InHandForward, Assembling
  <2>5. hand[k].report.score <= scores' /\ hand[k].report.found <= found'
    BY <1>0, <2>4
  <2>6. QED
    BY <1>4, <2>2, <2>3, <2>4, <2>5 DEF InHandForward, Assembling, Saved, File
<1>5. CASE hand[k].phase \notin {"score", "gather", "render", "save"}
  BY <1>5 DEF InHandForward, Assembling
<1>6. QED
  BY <1>1, <1>2, <1>3, <1>4, <1>5

LEMMA ForwardStep ==
  ASSUME ReportType, Placed, OneEach, Forward, [ReportNext]_rvars, ReportType', ~beside'
  PROVE  Forward'
<1>0. /\ found' \in Nat /\ found' >= found
      /\ scores' \in Nat /\ scores <= scores' /\ scores' <= found'
  BY FoundStays, Advances, Versioned DEF ReportType
<1>1. CASE UNCHANGED rvars \/ EnginesDone \/ ReaderStep
  <2>1. UNCHANGED <<scores, told, files, hand>>
    BY <1>1, ReaderLeaves DEF rvars, EnginesDone
  <2>2. ASSUME NEW k \in Reporters PROVE InHandForward(k)'
    <3>1. InHandForward(k)
      BY DEF Forward
    <3>2. QED
      BY <2>1, <3>1, InHandStays
  <2>3. QED
    BY <1>0, <2>1, <2>2, Advances DEF Forward
<1>2. ASSUME NEW h \in Reporters, ReporterStep(h) PROVE Forward'
  <2>0. /\ found' = found /\ Others(h) /\ InHandForward(h)
        /\ hand[h] \in Hands /\ hand'[h] \in Hands
    BY <1>2, Writers, HandSteps DEF Forward, ReportType
  <2>1. ASSUME NEW k \in Reporters, k # h PROVE InHandForward(k)'
    <3>1. InHandForward(k) /\ hand'[k] = hand[k]
      BY <2>0, <2>1 DEF Forward, Others
    <3>2. /\ hand[k].phase = "score" => scores' = scores
          /\ hand[k].phase \in Assembling => told' = told /\ files' = files
      BY <1>2, <2>1, OneWrites
    <3>3. QED
      BY <3>1, <3>2, InHandStays
  <2>2. InHandForward(h)'
    <3>1. CASE BeginScoring(h)
      BY <3>1, <2>0, BeganScoring, Numbers DEF InHandForward, File, Assembling, RowsKept, Forward
    <3>2. CASE BeginReporting(h)
      BY <3>2, <2>0, BeganReporting, Numbers DEF InHandForward, File, Assembling, RowsKept,
      Forward
    <3>3. CASE Gather(h)
      <4>1. /\ hand'[h].phase = "render" /\ hand'[h].report.score = hand[h].report.score
            /\ hand'[h].report.found = found
        BY <3>3, Gathered
      <4>2. hand[h].phase = "gather" /\ UNCHANGED <<found, scores, told, files>>
        BY <3>3 DEF Gather, At, RowsKept
      <4>3. QED
        BY <2>0, <4>1, <4>2, Numbers DEF InHandForward, File, Assembling, Forward
    <3>4. CASE RenderFormats(h)
      <4>1. /\ hand'[h].phase = "save" /\ hand'[h].report = hand[h].report
            /\ hand'[h].left = hand'[h].formats
        BY <3>4, Rendered
      <4>2. hand[h].phase = "render" /\ UNCHANGED <<found, scores, told, files>>
        BY <3>4 DEF RenderFormats, At, RowsKept
      <4>3. QED
        BY <2>0, <4>1, <4>2 DEF InHandForward, File, Assembling, Saved
    <3>5. CASE StartFile(h)
      <4>1. PICK f \in hand[h].left :
              /\ hand'[h].phase = "save" /\ hand'[h].report = hand[h].report
              /\ hand'[h].formats = hand[h].formats /\ hand'[h].left = hand[h].left
              /\ f \in Formats /\ WroteOne(h, f)
        BY <3>5, Started
      <4>2. hand[h].phase = "save" /\ UNCHANGED <<found, scores, told>>
        BY <3>5 DEF StartFile, At
      <4>3. \A g \in Saved(h) : g \in Formats \ {f} /\ files[g] = File(hand[h].report, TRUE)
        BY <4>1, <4>2, Numbers, <2>0 DEF InHandForward, File, Saved
      <4>4. \A g \in Saved(h)' : files'[g] = File(hand'[h].report, TRUE)
        BY <4>1, <4>3 DEF Saved, WroteOne
      <4>5. QED
        BY <2>0, <4>1, <4>2, <4>4 DEF InHandForward, File, Assembling
    <3>8. CASE FinishFile(h)
      <4>1. PICK f \in hand[h].open :
              /\ hand'[h].phase = "save" /\ hand'[h].report = hand[h].report
              /\ hand'[h].formats = hand[h].formats /\ hand'[h].left = hand[h].left \ {f}
              /\ f \in Formats /\ WroteOne(h, f) /\ files'[f] = File(hand[h].report, ~beside)
        BY <3>8, Finished
      <4>2. hand[h].phase = "save" /\ UNCHANGED <<found, scores, told, beside>>
        BY <3>8 DEF FinishFile, At, Counted
      <4>3. \A g \in Saved(h) : g \in Formats /\ files[g] = File(hand[h].report, TRUE)
        BY <4>2, Numbers, <2>0 DEF InHandForward, File, Saved
      <4>4. files'[f] = File(hand[h].report, TRUE)
        BY <4>1, <4>2
      <4>5. ASSUME NEW g \in Saved(h)' PROVE files'[g] = File(hand'[h].report, TRUE)
        <5>1. g = f \/ g \in Saved(h)
          BY <4>1, <4>5 DEF Saved
        <5>2. QED
          BY <4>1, <4>3, <4>4, <5>1 DEF WroteOne
      <4>6. QED
        BY <2>0, <4>1, <4>2, <4>5 DEF InHandForward, File, Assembling
    <3>6. CASE ScoreFindings(h) \/ Tell(h) \/ StageFails(h) \/ Return(h)
      <4>1. hand'[h].phase \in {"return", "ack"}
        BY <3>6, Moved, Failed DEF ScoreFindings, Tell, Return, HandPhases
      <4>2. QED
        BY <4>1 DEF InHandForward, File, Assembling
    <3>7. CASE Acknowledge(h) \/ BreakOff(h)
      <4>1. hand'[h].phase = "idle"
        BY <3>7, Emptied DEF Acknowledge, BreakOff, Idle
      <4>2. QED
        BY <4>1 DEF InHandForward, File, Assembling
    <3>9. QED
      BY <1>2, <3>1, <3>2, <3>3, <3>4, <3>5, <3>6, <3>7, <3>8
         DEF ReporterStep, LoseReporter, KillReporter
  <2>3. \A f \in told'.formats : NotOlder(files'[f].report, told'.report)
    <3>1. CASE Tell(h)
      <4>1. /\ told'.report = hand[h].report /\ told'.formats = hand[h].formats
            /\ files' = files /\ hand[h].left = {} /\ hand[h].phase = "save"
        BY <3>1 DEF Tell, At
      <4>2. \A f \in hand[h].formats : files[f].report = hand[h].report
        BY <2>0, <4>1 DEF InHandForward, File, Saved
      <4>3. QED
        BY <4>1, <4>2, Numbers DEF NotOlder
    <3>2. CASE told' = told
      <4>1. \A f \in told.formats : NotOlder(files[f].report, told.report) /\ f \in Formats
        BY Numbers DEF Forward
      <4>2. QED
        BY <3>2, <4>1, Advances
    <3>3. QED
      BY <1>2, <3>1, <3>2, Writers
  <2>4. QED
    BY <2>1, <2>2, <2>3, <1>0, Advances DEF Forward
<1>3. QED
  BY <1>1, <1>2 DEF ReportNext

\* The client holds on to the report it has seen; what it then gets is no older.
LEMMA ReaderSeesStep ==
  ASSUME ReportType, Served, Forward, ReaderSees, [ReportNext]_rvars, ReportType'
  PROVE  ReaderSees'
<1>0. scores \in Nat /\ scores' \in Nat /\ scores <= scores'
  BY Advances, Versioned DEF ReportType
<1>1. CASE reader' = reader
  <2>1. CASE reader.phase = "load"
    <3>1. /\ files[reader.fmt].report \in Reports /\ files'[reader.fmt].report \in Reports
          /\ told'.report \in Reports /\ reader.fmt \in Formats
      BY <2>1 DEF ReportType, ReportRows, Stored
    <3>2. /\ NotOlder(files[reader.fmt].report, reader.row.report)
          /\ NotOlder(told.report, reader.row.report)
      BY <2>1 DEF ReaderSees
    <3>3. /\ NotOlder(told'.report, told.report)
          /\ \/ files'[reader.fmt] = files[reader.fmt]
             \/ NotOlder(files'[reader.fmt].report, told.report)
      BY <3>1, Advances
    <3>4. /\ NotOlder(files'[reader.fmt].report, reader.row.report)
          /\ NotOlder(told'.report, reader.row.report)
      BY <3>1, <3>2, <3>3, Numbers DEF NotOlder
    <3>5. QED
      BY <1>1, <2>1, <3>4 DEF ReaderSees
  <2>2. CASE reader.phase # "load"
    BY <1>0, <1>1, <2>2, Numbers DEF ReaderSees
  <2>3. QED
    BY <2>1, <2>2
<1>2. CASE ReaderStep
  <2>0. UNCHANGED <<scores, told, files>> /\ reader \in Readers /\ told \in ReportRows
    BY <1>2, ReaderLeaves DEF ReportType
  <2>1. CASE OpenPage
    <3>1. reader'.phase = "page" /\ reader'.row = told /\ reader'.got = NoFile
      BY <2>1 DEF OpenPage, Answers, Waiting
    <3>2. QED
      BY <2>0, <3>1 DEF ReaderSees, Forward
  <2>2. CASE AddScore
    <3>1. /\ reader'.phase = "shown" /\ reader'.row = reader.row /\ reader'.got = reader.got
          /\ reader'.score = scores /\ reader.phase = "page"
      BY <2>0, <2>2 DEF AddScore, Answers, Readers
    <3>2. QED
      BY <2>0, <3>1 DEF ReaderSees
  <2>3. ASSUME NEW f \in Formats, AskDownload(f) PROVE ReaderSees'
    <3>1. /\ reader'.phase = "load" /\ reader'.fmt = f /\ reader'.row = told
          /\ reader'.got = NoFile /\ f \in told.formats
      BY <2>3 DEF AskDownload, Answers, Waiting
    <3>2. NotOlder(files[f].report, told.report) /\ NotOlder(told.report, told.report)
      BY <3>1, Numbers DEF Forward, NotOlder
    <3>3. QED
      BY <2>0, <3>1, <3>2 DEF ReaderSees
  <2>4. CASE LoadFile
    <3>1. reader' = [reader EXCEPT !.phase = "record", !.got = files[reader.fmt], !.fmt = "none"]
      BY <2>4 DEF LoadFile, Answers, Served
    <3>2. /\ reader'.phase = "record" /\ reader'.got = files[reader.fmt]
          /\ reader'.row = reader.row /\ reader.phase = "load"
      BY <2>0, <2>4, <3>1 DEF Readers, LoadFile
    <3>3. QED
      BY <3>2 DEF ReaderSees
  <2>5. CASE Record
    <3>1. PICK written \in BOOLEAN :
            reader' = [reader EXCEPT !.phase = "commit", !.audit = written]
      BY <2>5 DEF Record, Answers
    <3>2. reader'.phase = "commit" /\ reader'.got = reader.got /\ reader'.row = reader.row
      BY <2>0, <3>1 DEF Readers
    <3>3. QED
      BY <3>2 DEF ReaderSees
  <2>6. CASE AnswerDownload
    <3>1. PICK ok \in {reader.audit, FALSE} :
            reader' = [reader EXCEPT !.phase = IF ok THEN "served" ELSE "error", !.audit = ok]
      BY <2>6 DEF AnswerDownload, Answers
    <3>2. /\ reader'.phase \in {"served", "error"}
          /\ reader'.got = reader.got /\ reader'.row = reader.row
      BY <2>0, <3>1 DEF Readers
    <3>3. QED
      BY <3>2 DEF ReaderSees
  <2>7. CASE Forget
    BY <2>7 DEF Forget, Answers, Waiting, ReaderSees
  <2>8. QED
    BY <1>2, <2>1, <2>2, <2>3, <2>4, <2>5, <2>6, <2>7 DEF ReaderStep
<1>3. QED
  BY <1>1, <1>2, TaskLeaves DEF ReportNext, rvars

\* As long as no delivery ended between its files and its envelope, the files the manifest
\* names are of the report it is of, but for those a delivery at it has replaced.
Whole ==
  \A f \in told.formats :
    \/ files[f] = File(told.report, TRUE)
    \/ \E h \in Reporters : hand[h].phase = "save" /\ f \in Saved(h) \cup hand[h].open

LEMMA CutStays == [ReportNext]_rvars /\ ~cut' => ~cut
BY DEF ReportNext, rvars, EnginesDone, ReaderStep, OpenPage, AddScore, AskDownload, LoadFile,
       Record, AnswerDownload, Forget, Answers, ReporterStep, BeginScoring, BeginReporting, Begin,
       ScoreFindings, Gather, RenderFormats, StartFile, FinishFile, Tell, StageFails, Return,
       Acknowledge,
       LoseReporter, KillReporter, BreakOff, Counted

\* The files a delivery has stored, and the one it is at.
Touched(h) == Saved(h) \cup hand[h].open

LEMMA TouchedGrows ==
  ASSUME ReportType, Filed, NEW h \in Reporters, Writes(h)
  PROVE  \E f \in Formats :
           /\ hand'[h].phase = "save" /\ WroteOne(h, f)
           /\ f \in Touched(h)' /\ Touched(h) \subseteq Touched(h)'
<1>1. hand[h].phase = "save"
  BY DEF Writes, StartFile, FinishFile, At
<1>2. hand[h].left \subseteq hand[h].formats /\ hand[h].open \subseteq hand[h].left
  BY <1>1 DEF Filed
<1>3. CASE StartFile(h)
  <2>1. PICK f \in hand[h].left :
          /\ hand'[h].phase = "save" /\ hand'[h].formats = hand[h].formats
          /\ hand'[h].left = hand[h].left /\ hand'[h].open = {f} /\ hand[h].open = {}
          /\ f \in Formats /\ WroteOne(h, f)
    BY <1>3, Started
  <2>2. f \in Touched(h)' /\ Touched(h) \subseteq Touched(h)'
    BY <2>1 DEF Touched, Saved
  <2>3. QED
    BY <2>1, <2>2
<1>4. CASE FinishFile(h)
  <2>1. PICK f \in hand[h].open :
          /\ hand'[h].phase = "save" /\ hand'[h].formats = hand[h].formats
          /\ hand'[h].left = hand[h].left \ {f} /\ hand'[h].open = {}
          /\ f \in Formats /\ WroteOne(h, f)
    BY <1>4, Finished
  <2>2. hand[h].open = {f}
    BY <1>4, <2>1 DEF Filed
  <2>3. f \in Touched(h)' /\ Touched(h) \subseteq Touched(h)'
    BY <1>2, <2>1, <2>2 DEF Touched, Saved
  <2>4. QED
    BY <2>1, <2>3
<1>5. QED
  BY <1>3, <1>4 DEF Writes

LEMMA WholeStep ==
  ASSUME ReportType, Placed, Filed, Forward, Whole, [ReportNext]_rvars, ~cut'
  PROVE  Whole'
<1>1. CASE UNCHANGED rvars \/ EnginesDone \/ ReaderStep
  <2>1. UNCHANGED <<told, files, hand>>
    BY <1>1, ReaderLeaves DEF rvars, EnginesDone
  <2>2. QED
    BY <2>1 DEF Whole, Saved
<1>2. ASSUME NEW h \in Reporters, ReporterStep(h) PROVE Whole'
  <2>0. Others(h) /\ hand[h] \in Hands
    BY <1>2, HandSteps DEF ReportType
  <2>1. CASE Tell(h)
    <3>1. /\ told'.report = hand[h].report /\ told'.formats = hand[h].formats
          /\ files' = files /\ hand[h].left = {} /\ hand[h].phase = "save"
      BY <2>1 DEF Tell, At
    <3>2. \A f \in hand[h].formats : files[f] = File(hand[h].report, TRUE)
      BY <3>1 DEF Forward, InHandForward, File, Saved
    <3>3. QED
      BY <3>1, <3>2 DEF Whole
  <2>2. CASE Writes(h)
    <3>1. PICK f \in Formats :
            /\ told' = told /\ hand[h].phase = "save" /\ hand'[h].phase = "save"
            /\ f \in Touched(h)' /\ Touched(h) \subseteq Touched(h)' /\ WroteOne(h, f)
      BY <2>2, TouchedGrows DEF Writes, StartFile, FinishFile, At
    <3>2. ASSUME NEW g \in told.formats
          PROVE  \/ files'[g] = File(told.report, TRUE)
                 \/ \E k \in Reporters : hand'[k].phase = "save" /\ g \in Touched(k)'
      <4>1. CASE g = f \/ g \in Touched(h)
        BY <3>1, <4>1
      <4>2. CASE g # f /\ g \notin Touched(h)
        <5>1. files'[g] = files[g]
          BY <3>1, <4>2, Numbers DEF WroteOne
        <5>2. CASE files[g] = File(told.report, TRUE)
          BY <5>1, <5>2
        <5>3. ASSUME NEW k \in Reporters, hand[k].phase = "save" /\ g \in Touched(k)
              PROVE  hand'[k].phase = "save" /\ g \in Touched(k)'
          BY <2>0, <4>2, <5>3 DEF Others, Saved, Touched
        <5>4. QED
          BY <5>2, <5>3 DEF Whole, Touched
      <4>3. QED
        BY <4>1, <4>2
    <3>3. QED
      BY <3>1, <3>2 DEF Whole, Touched
  <2>3. CASE ~Tell(h) /\ ~Writes(h)
    <3>1. told' = told /\ files' = files
      BY <1>2, <2>3, Writers
    <3>2. hand[h].phase = "save" => Touched(h) = {}
      <4>1. hand[h].phase = "save" => StageFails(h) \/ BreakOff(h)
        BY <1>2, <2>3
           DEF ReporterStep, Writes, BeginScoring, BeginReporting, Begin, ScoreFindings, Gather,
               RenderFormats, Return, Acknowledge, LoseReporter, KillReporter, At
      <4>2. StageFails(h) \/ BreakOff(h) => ~Tears(h)
        BY DEF StageFails, BreakOff
      <4>3. QED
        BY <4>1, <4>2 DEF Tears, At, Saved, Touched
    <3>3. QED
      BY <2>0, <3>1, <3>2 DEF Whole, Others, Saved, Touched
  <2>4. QED
    BY <2>1, <2>2, <2>3
<1>3. QED
  BY <1>1, <1>2 DEF ReportNext

(* Without a failure there is always someone on the way to the report of what there is. *)

Coming ==
  \/ due.scoring > 0 \/ due.reporting > 0
  \/ \E h \in Reporters : hand[h].task = "scoring" /\ hand[h].phase \in {"score", "return"}

ToFindings ==
  \/ found = 0 \/ told.report.found = found \/ Coming
  \/ \E h \in Reporters : \/ hand[h].phase = "gather"
                          \/ hand[h].phase \in {"render", "save"} /\ hand[h].report.found = found

ToScores ==
  \/ told.report.score = scores \/ Coming
  \/ \E h \in Reporters : hand[h].phase \in Assembling /\ hand[h].report.score = scores

LEMMA ErrorsStay == ReportType /\ [ReportNext]_rvars /\ errors' = 0 => errors = 0
<1>1. [ReportNext]_rvars => errors' = errors \/ errors' = errors + 1
  BY DEF ReportNext, rvars, EnginesDone, ReaderStep, OpenPage, AddScore, AskDownload, LoadFile,
         Record, AnswerDownload, Forget, Answers, ReporterStep, BeginScoring, BeginReporting,
         Begin, ScoreFindings, Gather, RenderFormats, StartFile, FinishFile, Tell, StageFails,
         Return,
         Acknowledge, LoseReporter, KillReporter, BreakOff, Counted
<1>2. QED
  BY <1>1 DEF ReportType

\* A step of one delivery takes no other's place, nor a message another one needs.
LEMMA StillComing ==
  ASSUME ReportType, Placed, NEW h \in Reporters, ReporterStep(h), errors' = 0
  PROVE  /\ Coming => Coming' \/ BeginReporting(h)
         /\ BeginScoring(h) \/ ScoreFindings(h) \/ LoseReporter(h) => Coming'
<1>0. /\ Others(h) /\ hand[h] \in Hands /\ hand'[h] \in Hands
      /\ due.engines \in Nat /\ due.scoring \in Nat /\ due.reporting \in Nat
      /\ due = [engines |-> due.engines, scoring |-> due.scoring, reporting |-> due.reporting]
  BY HandSteps DEF ReportType
<1>1. CASE BeginScoring(h)
  BY <1>1, BeganScoring DEF Coming
<1>2. CASE ScoreFindings(h)
  <2>1. hand'[h].phase = "return" /\ hand'[h].task = "scoring"
    BY <1>2, Moved DEF ScoreFindings, HandPhases, At, Placed
  <2>2. ~LoseReporter(h) /\ ~BeginScoring(h)
    BY <1>0, <1>2, <2>1, BeganScoring, Emptied DEF LoseReporter, BreakOff, Idle
  <2>3. QED
    BY <2>1 DEF Coming
<1>3. CASE LoseReporter(h)
  <2>1. due' = [due EXCEPT ![hand[h].task] = @ + 1] /\ hand[h].phase # "idle"
    BY <1>3 DEF LoseReporter, BreakOff, At
  <2>2. hand[h].task \in {"scoring", "reporting"}
    BY <1>0, <2>1 DEF Placed, Hands
  <2>3. CASE hand[h].task = "scoring"
    <3>1. due'.scoring = due.scoring + 1
      BY <1>0, <2>1, <2>3
    <3>2. QED
      BY <1>0, <3>1 DEF Coming
  <2>4. CASE hand[h].task = "reporting"
    <3>1. due'.reporting = due.reporting + 1
      BY <1>0, <2>1, <2>4
    <3>2. QED
      BY <1>0, <3>1 DEF Coming
  <2>5. QED
    BY <2>2, <2>3, <2>4
<1>4. CASE Return(h)
  <2>1. CASE hand[h].task = "scoring"
    <3>1. due'.reporting = due.reporting + 1
      BY <1>0, <1>4, <2>1 DEF Return
    <3>2. QED
      BY <1>0, <3>1 DEF Coming
  <2>2. CASE hand[h].task # "scoring"
    <3>1. due' = due
      BY <1>4, <2>2 DEF Return
    <3>2. hand[h].phase = "return" /\ hand'[h].phase = "ack"
      BY <1>4, Moved DEF Return, At, HandPhases
    <3>3. Coming => Coming'
      BY <1>0, <2>2, <3>1 DEF Coming, Others
    <3>4. ~BeginScoring(h) /\ ~ScoreFindings(h) /\ ~LoseReporter(h)
      BY <3>2, BeganScoring, Emptied DEF ScoreFindings, At, LoseReporter, BreakOff, Idle
    <3>5. QED
      BY <3>3, <3>4
  <2>3. QED
    BY <2>1, <2>2
<1>5. CASE BeginReporting(h) /\ ~BeginScoring(h) /\ ~ScoreFindings(h) /\ ~LoseReporter(h)
  BY <1>5
<1>6. CASE Gather(h) \/ RenderFormats(h) \/ Writes(h) \/ Tell(h) \/ Acknowledge(h)
  <2>1. due' = due /\ hand[h].phase \in {"gather", "render", "save", "ack"}
    BY <1>6
       DEF Gather, RenderFormats, Writes, StartFile, FinishFile, Tell, Acknowledge, At, Counted
  <2>2. Coming => Coming'
    BY <1>0, <2>1 DEF Coming, Others
  <2>3. ~BeginScoring(h) /\ ~ScoreFindings(h)
    BY <2>1, BeganScoring DEF ScoreFindings, At
  <2>4. QED
    BY <1>3, <2>2, <2>3
<1>7. CASE StageFails(h) \/ KillReporter(h)
  BY <1>7 DEF StageFails, KillReporter, ReportType
<1>8. QED
  BY <1>1, <1>2, <1>3, <1>4, <1>5, <1>6, <1>7 DEF ReporterStep, Writes

LEMMA TowardsStep ==
  ASSUME ReportType, Placed, OneEach, Forward, ToFindings, ToScores,
         [ReportNext]_rvars, ReportType', errors' = 0
  PROVE  ToFindings' /\ ToScores'
<1>1. CASE UNCHANGED rvars \/ ReaderStep
  <2>1. UNCHANGED <<found, scores, told, hand, due>>
    BY <1>1, ReaderLeaves DEF rvars
  <2>2. QED
    BY <2>1 DEF ToFindings, ToScores, Coming
<1>2. CASE EnginesDone
  <2>1. due' = [due EXCEPT !.engines = @ - 1, !.scoring = @ + 1]
    BY <1>2 DEF EnginesDone
  <2>2. due.scoring \in Nat /\ due'.scoring = due.scoring + 1
    BY <2>1 DEF ReportType
  <2>3. Coming'
    BY <2>2 DEF Coming
  <2>4. QED
    BY <2>3 DEF ToFindings, ToScores
<1>3. ASSUME NEW h \in Reporters, ReporterStep(h) PROVE ToFindings' /\ ToScores'
  <2>0. Others(h) /\ found' = found /\ InHandForward(h) /\ hand[h] \in Hands
    BY <1>3, HandSteps, Writers DEF Forward, ReportType
  <2>1. CASE Coming'
    BY <2>1 DEF ToFindings, ToScores
  <2>2. CASE BeginReporting(h)
    <3>1. CASE found = 0
      <4>1. scores = 0 /\ told.report.score = 0
        BY <3>1, Numbers DEF Forward
      <4>2. QED
        BY <2>0, <2>2, <3>1, <4>1, BeganReporting DEF ToFindings, ToScores, RowsKept
    <3>2. CASE found # 0
      <4>1. /\ hand'[h].phase = "gather" /\ hand'[h].report.score = scores /\ scores' = scores
        BY <2>2, <3>2, BeganReporting DEF RowsKept
      <4>2. QED
        BY <4>1 DEF ToFindings, ToScores, Assembling
    <3>3. QED
      BY <3>1, <3>2
  <2>3. CASE ~Coming /\ ~Coming' /\ ~BeginReporting(h)
    <3>1. ~BeginScoring(h) /\ ~ScoreFindings(h) /\ ~LoseReporter(h)
      BY <1>3, <2>3, StillComing
    <3>2. scores' = scores
      BY <1>3, <3>1, Writers
    <3>3. CASE Tell(h)
      <4>1. told'.report = hand[h].report /\ hand[h].phase = "save"
        BY <3>3 DEF Tell, At
      <4>2. ASSUME NEW k \in Reporters, hand[k].phase \in Assembling PROVE k = h
        BY <4>1, <4>2 DEF Placed, OneEach, Assembling
      <4>3. /\ told.report.score <= hand[h].report.score /\ hand[h].report.score <= scores
            /\ told.report.found <= hand[h].report.found /\ hand[h].report.found <= found
        BY <2>0, <4>1 DEF InHandForward, File, Assembling
      <4>4. \/ found = 0 \/ told.report.found = found \/ hand[h].report.found = found
        BY <2>3, <4>1, <4>2 DEF ToFindings, Assembling
      <4>5. told.report.score = scores \/ hand[h].report.score = scores
        BY <2>3, <4>2 DEF ToScores
      <4>6. found = 0 \/ hand[h].report.found = found
        BY <4>3, <4>4, Numbers
      <4>7. hand[h].report.score = scores
        BY <4>3, <4>5, Numbers
      <4>8. QED
        BY <2>0, <3>2, <4>1, <4>6, <4>7 DEF ToFindings, ToScores
    <3>4. CASE Gather(h)
      <4>1. hand'[h].phase = "render"
        BY <3>4, Gathered
      <4>2. hand'[h].report.score = hand[h].report.score /\ hand'[h].report.found = found
        BY <3>4, Gathered
      <4>3. told' = told
        BY <3>4 DEF Gather, RowsKept
      <4>4. QED
        BY <2>0, <2>3, <3>2, <4>1, <4>2, <4>3 DEF ToFindings, ToScores, Others, Assembling
    <3>5. CASE RenderFormats(h) \/ Writes(h)
      <4>1. /\ hand[h].phase \in {"render", "save"} /\ hand'[h].phase = "save"
            /\ hand'[h].report = hand[h].report /\ told' = told
        BY <3>5, Rendered, Wrote DEF RenderFormats, At, RowsKept
      <4>2. QED
        BY <2>0, <2>3, <3>2, <4>1 DEF ToFindings, ToScores, Others, Assembling
    <3>6. CASE Return(h) \/ Acknowledge(h)
      <4>1. hand[h].phase \in {"return", "ack"} /\ told' = told
        BY <3>6 DEF Return, Acknowledge, At, RowsKept
      <4>2. QED
        BY <2>0, <2>3, <3>2, <4>1 DEF ToFindings, ToScores, Others, Assembling
    <3>7. CASE StageFails(h) \/ KillReporter(h)
      BY <3>7 DEF StageFails, KillReporter, ReportType
    <3>8. QED
      BY <1>3, <2>3, <3>1, <3>3, <3>4, <3>5, <3>6, <3>7 DEF ReporterStep, Writes
  <2>4. QED
    BY <1>3, <2>1, <2>2, <2>3, StillComing
<1>4. QED
  BY <1>1, <1>2, <1>3 DEF ReportNext

-----------------------------------------------------------------------------
(* The report: what every reachable state has. *)

ReportInv ==
  /\ Placed /\ Filed /\ Served
  /\ \/ beside
     \/ /\ OneEach /\ Forward /\ ReaderSees
        /\ cut \/ Whole
        /\ errors # 0 \/ (ToFindings /\ ToScores)

LEMMA ReportInvInit == ReportInit => ReportInv
<1> SUFFICES ASSUME ReportInit PROVE ReportInv
  OBVIOUS
<1>1. /\ Idle.phase = "idle" /\ Idle.task = "none"
      /\ Waiting.phase = "idle" /\ Waiting.got = NoFile /\ Idle.open = {}
      /\ NoRow.report = NoReport /\ NoRow.formats = {} /\ NoReport.score = 0
      /\ NoReport.found = 0
  BY DEF Idle, Waiting, NoRow, NoReport, ReportOf, Unscored
<1>2. Placed /\ Filed /\ Served /\ OneEach
  BY <1>1 DEF ReportInit, Placed, Filed, Served, OneEach
<1>3. Forward /\ ReaderSees /\ Whole /\ ToFindings /\ ToScores
  BY <1>1 DEF ReportInit, Forward, InHandForward, File, Assembling, ReaderSees, Whole, ToFindings,
              ToScores, Unscored
<1>4. QED
  BY <1>2, <1>3 DEF ReportInv

LEMMA ReportHolds == ReportSpec => [](ReportType /\ ReportInv)
<1>1. ReportType /\ ReportInv /\ [ReportNext]_rvars => ReportInv'
  <2> SUFFICES ASSUME ReportType, ReportInv, [ReportNext]_rvars PROVE ReportInv'
    OBVIOUS
  <2>1. ReportType'
    BY ReportTypeStep
  <2>2. Placed' /\ Filed' /\ Served'
    BY PlacedStep, FiledStep, ServedStep DEF ReportInv
  <2>3. CASE beside'
    BY <2>2, <2>3 DEF ReportInv
  <2>4. CASE ~beside'
    <3>1. /\ OneEach /\ Forward /\ ReaderSees
          /\ cut \/ Whole
          /\ errors # 0 \/ (ToFindings /\ ToScores)
      BY <2>4, OverlapStays DEF ReportInv
    <3>2. OneEach' /\ Forward' /\ ReaderSees'
      BY <2>1, <2>4, <3>1, OneEachStep, ForwardStep, ReaderSeesStep DEF ReportInv
    <3>3. cut' \/ Whole'
      BY <3>1, CutStays, WholeStep DEF ReportInv
    <3>4. errors' # 0 \/ (ToFindings' /\ ToScores')
      BY <2>1, <3>1, ErrorsStay, TowardsStep DEF ReportInv
    <3>5. QED
      BY <2>2, <3>2, <3>3, <3>4 DEF ReportInv
  <2>5. QED
    BY <2>3, <2>4
<1>2. QED
  BY <1>1, ReportInvInit, ReportTypeInit, ReportTypeStep, PTL DEF ReportSpec

\* Whoever overwrote the files of a job and whenever a client comes, a format that the
\* manifest names has its file, of the report the API shows or of a later run, and in part
\* only while a delivery writes it or after one broke off; and what the API shows beside the
\* report is no older than it.
THEOREM ServesTheReport == ReportSpec => []ServedIsTheReport
<1>1. ReportType /\ ReportInv => ServedIsTheReport
  <2> SUFFICES ASSUME ReportType, ReportInv PROVE ServedIsTheReport
    OBVIOUS
  <2>1. /\ \A f \in told.formats : files[f] # NoFile
        /\ reader.phase # "gone"
        /\ reader.phase = "served" => reader.audit
    BY DEF ReportInv, Filed, Served
  <2>2. (~beside /\ reader.got # NoFile) => NotOlder(reader.got.report, reader.row.report)
    BY DEF ReportInv, ReaderSees
  <2>3. reader.phase = "shown" /\ ~beside => reader.score >= reader.row.report.score
    BY Numbers DEF ReportInv, ReaderSees
  <2>4. ASSUME ~beside, ~cut, \A h \in Reporters : ~Tears(h), NEW f \in told.formats
        PROVE  files[f] = File(told.report, TRUE)
    <3>1. \A h \in Reporters : hand[h].phase = "save" => Saved(h) \cup hand[h].open = {}
      BY <2>4, Numbers DEF Tears, At, Saved
    <3>2. QED
      BY <2>4, <3>1 DEF ReportInv, Whole
  <2>5. ASSUME ~beside, ~cut, NEW f \in told.formats
        PROVE  files[f].whole \/ \E h \in Reporters : At(h, "save") /\ f \in hand[h].open
    <3>1. CASE files[f] = File(told.report, TRUE)
      BY <3>1 DEF File
    <3>2. ASSUME NEW h \in Reporters, hand[h].phase = "save", f \in Saved(h)
          PROVE  files[f].whole
      <4>1. files[f] = File(hand[h].report, TRUE)
        BY <2>5, <3>2 DEF ReportInv, Forward, InHandForward
      <4>2. QED
        BY <4>1 DEF File
    <3>3. QED
      BY <2>5, <3>1, <3>2 DEF ReportInv, Whole, At
  <2>6. QED
    BY <2>1, <2>2, <2>3, <2>4, <2>5 DEF ServedIsTheReport
<1>2. QED
  BY <1>1, ReportHolds, PTL

(* Which findings are in the body of a report. *)

LEMMA LeastNat ==
  ASSUME NEW T \in SUBSET Nat, T # {}
  PROVE  \E n \in T : \A m \in T : n <= m
<1> DEFINE R == OpToRel(<, Nat)
<1>1. IsWellFoundedOn(R, Nat)
  BY NatLessThanWellFounded
<1>2. \A n, m \in Nat : <<m, n>> \in R <=> m < n
  BY DEF OpToRel
<1> HIDE DEF R
<1>3. \E n \in T : \A m \in T : ~(<<m, n>> \in R)
  BY <1>1, WFMin, Zenon
<1>4. PICK n \in T : \A m \in T : ~(<<m, n>> \in R)
  BY <1>3
<1>5. \A m \in T : ~(m < n)
  BY <1>2, <1>4
<1>6. \A m \in T : n <= m
  BY <1>5
<1>7. QED
  BY <1>6

LEMMA RankType == \A f : SeverityRank(f) \in Nat
<1> TAKE f
<1>1. CASE \E i \in 1..5 : Severities[i] = f.severity
  BY <1>1 DEF SeverityRank
<1>2. CASE ~\E i \in 1..5 : Severities[i] = f.severity
  BY <1>2 DEF SeverityRank
<1>3. QED
  BY <1>1, <1>2, Zenon

AheadOf(fs, f) == {g \in fs : Ahead(g, f)}

\* The findings of a run are in one order, by severity and then by id.
LEMMA InOneOrder ==
  ASSUME NEW v \in DOMAIN FindingsOf, NEW s \in SUBSET FindingsOf[v],
         NEW f \in s, NEW g \in s
  PROVE  /\ ~Ahead(f, f)
         /\ f = g \/ Ahead(f, g) \/ Ahead(g, f)
         /\ Ahead(f, g) => \A e \in s : Ahead(e, f) => Ahead(e, g)
BY RankType, ReportAssumption DEF Ahead

\* So one has fewer ahead of it than another exactly if it comes first.
LEMMA FewerAhead ==
  ASSUME NEW v \in DOMAIN FindingsOf, NEW s \in SUBSET FindingsOf[v],
         NEW f \in s, NEW g \in s,
         Ahead(f, g)
  PROVE  /\ Cardinality(AheadOf(s, f)) \in Nat
         /\ Cardinality(AheadOf(s, g)) \in Nat
         /\ Cardinality(AheadOf(s, f)) < Cardinality(AheadOf(s, g))
<1> DEFINE F == AheadOf(s, f)
           G == AheadOf(s, g)
<1>1. IsFiniteSet(s) /\ G \subseteq s
  BY ReportAssumption, FS_Subset DEF AheadOf
<1>2. F \subseteq G /\ f \in G /\ f \notin F
  BY InOneOrder DEF AheadOf
<1> HIDE DEF F, G
<1>3. IsFiniteSet(G)
  BY <1>1, FS_Subset
<1>4. IsFiniteSet(F) /\ Cardinality(F) <= Cardinality(G) /\ Cardinality(F) # Cardinality(G)
  BY <1>2, <1>3, FS_Subset
<1>5. Cardinality(F) \in Nat /\ Cardinality(G) \in Nat
  BY <1>3, <1>4, FS_CardinalityType
<1>6. QED
  BY <1>4, <1>5 DEF F, G

LEMMA BodyLeavesTheLeast ==
  ASSUME NEW v \in DOMAIN FindingsOf, NEW all \in SUBSET FindingsOf[v]
  PROVE  LET body == Body(all)
         IN  /\ \A f \in all \ body, g \in body : SeverityRank(g) <= SeverityRank(f)
             /\ Cardinality(body) \in Nat /\ Cardinality(body) <= MaxReport
             /\ Cardinality(body) = MaxReport \/ body = all
<1> DEFINE body == Body(all)
           count(f) == Cardinality(AheadOf(all, f))
<1>0. IsFiniteSet(all) /\ MaxReport \in Nat
  BY ReportAssumption, FS_Subset
<1>1. body \subseteq all /\ \A f \in all : f \in body <=> count(f) < MaxReport
  BY DEF Body, AheadOf
<1>2. \A f \in all : IsFiniteSet(AheadOf(all, f)) /\ count(f) \in Nat
  <2> TAKE f \in all
  <2>1. AheadOf(all, f) \subseteq all
    BY DEF AheadOf
  <2>2. QED
    BY <1>0, <2>1, FS_Subset, FS_CardinalityType
<1>3. \A f, g \in all : Ahead(f, g) => count(f) < count(g)
  BY FewerAhead
<1>4. \A f, g \in all : f = g \/ Ahead(f, g) \/ Ahead(g, f)
  BY InOneOrder
<1>5. IsFiniteSet(body) /\ Cardinality(body) \in Nat
  BY <1>0, <1>1, FS_Subset, FS_CardinalityType
<1> HIDE DEF body, count
<1>6. ASSUME NEW f \in all \ body, NEW g \in body PROVE Ahead(g, f)
  BY <1>0, <1>1, <1>2, <1>3, <1>4, <1>6
<1>7. \A f \in all \ body, g \in body : SeverityRank(g) <= SeverityRank(f)
  BY <1>6, RankType DEF Ahead
<1>8. Cardinality(body) <= MaxReport
  <2>1. CASE body = {}
    BY <1>0, <2>1, FS_EmptySet
  <2>2. CASE body # {}
    <3> DEFINE T == {MaxReport - count(g) : g \in body}
    <3>1. T \in SUBSET Nat /\ T # {}
      BY <1>0, <1>1, <1>2, <2>2
    <3>2. PICK n \in T : \A m \in T : n <= m
      BY <3>1, LeastNat
    <3>3. PICK l \in body : n = MaxReport - count(l)
      BY <3>2
    <3>4. ASSUME NEW g \in body PROVE count(g) <= count(l)
      <4>1. MaxReport - count(l) <= MaxReport - count(g)
        BY <3>2, <3>3
      <4>2. count(g) \in Nat /\ count(l) \in Nat
        BY <1>1, <1>2
      <4>3. QED
        BY <1>0, <4>1, <4>2
    <3>5. \A g \in body : g = l \/ Ahead(g, l)
      BY <1>1, <1>2, <1>3, <1>4, <3>4
    <3>6. body \ {l} \subseteq AheadOf(all, l)
      BY <1>1, <3>5 DEF AheadOf
    <3>7. Cardinality(body \ {l}) <= count(l)
      BY <1>1, <1>2, <3>6, FS_Subset DEF count
    <3>8. Cardinality(body \ {l}) = Cardinality(body) - 1
      BY <1>5, FS_RemoveElement
    <3>9. QED
      BY <1>0, <1>1, <1>2, <1>5, <3>7, <3>8
  <2>3. QED
    BY <2>1, <2>2
<1>9. ASSUME body # all PROVE MaxReport <= Cardinality(body)
  <2> DEFINE T == {count(f) : f \in all \ body}
  <2>1. T \in SUBSET Nat /\ T # {}
    BY <1>1, <1>2, <1>9
  <2>2. PICK n \in T : \A m \in T : n <= m
    BY <2>1, LeastNat
  <2>3. PICK f \in all \ body : n = count(f)
    BY <2>2
  <2>4. \A g \in all : Ahead(g, f) => g \in body
    BY <1>2, <1>3, <2>2, <2>3
  <2>5. AheadOf(all, f) \subseteq body
    BY <2>4 DEF AheadOf
  <2>6. count(f) <= Cardinality(body)
    BY <1>5, <2>5, FS_Subset DEF count
  <2>7. QED
    BY <1>0, <1>1, <1>2, <1>5, <2>6
<1>10. Cardinality(body) = MaxReport \/ body = all
  BY <1>0, <1>5, <1>8, <1>9
<1>11. QED
  BY <1>5, <1>7, <1>8, <1>10 DEF body

\* What is not read was recorded after all that is, which are as many as may be read.
LEMMA BodyOfTheOldest ==
  ASSUME NEW v \in DOMAIN FindingsOf, NEW s \in Oldest(FindingsOf[v])
  PROVE  LET all == FindingsOf[v]  body == Body(s)
         IN  /\ \A f \in all \ body, g \in body :
                  \/ SeverityRank(g) <= SeverityRank(f)
                  \/ Cardinality({e \in all : e.at <= f.at}) > MaxRead
             /\ Cardinality(body) = MaxReport \/ body = all
<1> DEFINE all == FindingsOf[v]
           body == Body(s)
           before(f) == {e \in all : e.at <= f.at}
<1>1. /\ s \in SUBSET all /\ (s = all \/ Cardinality(s) = MaxRead)
      /\ \A f \in s, g \in all \ s : f.at <= g.at
  BY DEF Oldest
<1>2. /\ IsFiniteSet(all) /\ MaxReport \in Nat /\ MaxRead \in Nat /\ MaxReport <= MaxRead
      /\ \A f \in all : f.at \in Nat
  BY ReportAssumption
<1>3. IsFiniteSet(s) /\ Cardinality(s) \in Nat
  BY <1>1, <1>2, FS_Subset, FS_CardinalityType
<1>4. /\ \A f \in s \ body, g \in body : SeverityRank(g) <= SeverityRank(f)
      /\ Cardinality(body) \in Nat /\ Cardinality(body) <= MaxReport
      /\ Cardinality(body) = MaxReport \/ body = s
  BY <1>1, BodyLeavesTheLeast
<1>5. ASSUME NEW f \in all \ s PROVE Cardinality(before(f)) > MaxRead
  <2>1. Cardinality(s) = MaxRead /\ s \subseteq before(f) /\ f \in before(f)
    BY <1>1, <1>2, <1>5
  <2>2. IsFiniteSet(before(f))
    BY <1>2, FS_Subset
  <2> HIDE DEF before, all
  <2>3. IsFiniteSet(before(f) \ {f})
        /\ Cardinality(before(f) \ {f}) = Cardinality(before(f)) - 1
        /\ Cardinality(before(f)) \in Nat
    BY <2>1, <2>2, FS_RemoveElement, FS_CardinalityType
  <2>4. s \subseteq before(f) \ {f}
    BY <1>5, <2>1
  <2>5. Cardinality(s) <= Cardinality(before(f) \ {f})
    BY <2>3, <2>4, FS_Subset
  <2>6. QED
    BY <1>2, <2>1, <2>3, <2>5
<1> HIDE DEF body, before
<1>6. Cardinality(body) = MaxReport \/ body = all
  <2>1. CASE s = all
    BY <1>4, <2>1
  <2>2. CASE s # all /\ body = s
    BY <1>1, <1>2, <1>4, <2>2
  <2>3. QED
    BY <1>4, <2>1, <2>2
<1>7. ASSUME NEW f \in all \ body, NEW g \in body
      PROVE  SeverityRank(g) <= SeverityRank(f) \/ Cardinality(before(f)) > MaxRead
  <2>1. CASE f \in s
    BY <1>4, <1>7, <2>1
  <2>2. CASE f \notin s
    BY <1>5, <1>7, <2>2
  <2>3. QED
    BY <2>1, <2>2
<1>8. QED
  BY <1>6, <1>7 DEF body, before

\* When every copy of the chain has ended, none of them failed and no two deliveries of a
\* task were under way at once, the report is of the job's score and findings, whichever
\* workers were lost; and a body that is cut to its bound has lost nothing worse than it has
\* but what was recorded after the MAX_FINDINGS that are read.
THEOREM ReportsWhatIsThere == ReportSpec => []ReportIsCurrent
<1>1. ReportType /\ ReportInv => ReportIsCurrent
  <2> SUFFICES ASSUME ReportType, ReportInv PROVE ReportIsCurrent
    OBVIOUS
  <2>1. ASSUME \A t \in DOMAIN due : due[t] = 0, \A h \in Reporters : At(h, "idle"),
               errors = 0, ~beside, found # 0
        PROVE  told.report.score = scores /\ told.report.found = found
    <3>1. due.scoring = 0 /\ due.reporting = 0
      BY <2>1 DEF ReportType
    <3>2. ~Coming
      BY <2>1, <3>1 DEF Coming, At
    <3>3. ToFindings /\ ToScores
      BY <2>1 DEF ReportInv
    <3>4. QED
      BY <2>1, <3>2, <3>3 DEF ToFindings, ToScores, At, Assembling
  <2>2. ASSUME told # NoRow
        PROVE  LET all == Findings(told.report.found)  body == told.report.body
               IN  /\ \A f \in all \ body, g \in body :
                        \/ SeverityRank(g) <= SeverityRank(f)
                        \/ Cardinality({e \in all : e.at <= f.at}) > MaxRead
                   /\ Cardinality(body) = MaxReport \/ body = all
    <3>1. /\ told.report.found # 0
          /\ \E s \in Oldest(Findings(told.report.found)) : told.report.body = Body(s)
      BY <2>2 DEF ReportInv, Filed, Assembled
    <3>2. told.report.found \in DOMAIN FindingsOf
      BY <3>1, ReportAssumption, FS_CardinalityType
         DEF ReportType, ReportRows, Reports, FindingVersions
    <3>3. Findings(told.report.found) = FindingsOf[told.report.found]
      BY <3>1 DEF Findings
    <3>4. QED
      BY <3>1, <3>2, <3>3, BodyOfTheOldest
  <2>3. QED
    BY <2>1, <2>2 DEF ReportIsCurrent
<1>2. QED
  BY <1>1, ReportHolds, PTL

-----------------------------------------------------------------------------
(* The knowledge base: who has what, and what a step does to others. *)

ServiceFields == {"phase", "force", "loaded", "todo", "home", "hurt", "query", "found", "shown"}

KnowledgeType ==
  /\ DOMAIN proc = Workers
  /\ \A w \in Workers : /\ DOMAIN proc[w] = ServiceFields
                        /\ proc[w].loaded \in [Docs -> Versions \cup {0}]
                        /\ proc[w].todo \in SUBSET Docs

ServiceStep(w) ==
  \/ StartService(w) \/ CheckCollection(w) \/ CreateCollection(w) \/ Load(w)
  \/ Probe(w) \/ DeleteDocument(w) \/ Embed(w) \/ Upsert(w) \/ Report(w)
  \/ Ask(w) \/ Answer(w) \/ EndService(w) \/ CrashService(w)

\* All the others notice is that one of them broke off.
Unmoved(v) ==
  /\ proc'[v].phase = proc[v].phase /\ proc'[v].loaded = proc[v].loaded
  /\ proc'[v].todo = proc[v].todo /\ proc'[v].home = proc[v].home
  /\ proc[v].hurt => proc'[v].hurt

Unloaded == [d \in Docs |-> 0]

LEMMA DownIs ==
  /\ DOMAIN Down = ServiceFields /\ Down.phase = "down" /\ Down.todo = {}
  /\ Down.loaded = Unloaded /\ Down.home = FALSE /\ Down.hurt = FALSE
  /\ Unloaded \in [Docs -> Versions \cup {0}]
BY DEF Down, ServiceFields, Unloaded

LEMMA KnowledgeTypeInit == KInit => KnowledgeType
<1> SUFFICES ASSUME KInit PROVE KnowledgeType
  OBVIOUS
<1>1. proc = [w \in Workers |-> Down]
  BY DEF KInit
<1>2. QED
  BY <1>1, DownIs DEF KnowledgeType

\* A process that goes on to another phase.
LEMMA Went ==
  ASSUME KnowledgeType, NEW w \in Workers, NEW p, Go(w, p)
  PROVE  /\ KnowledgeType' /\ \A v \in Workers \ {w} : Unmoved(v)
         /\ proc'[w].phase = p /\ proc'[w].loaded = proc[w].loaded
         /\ proc'[w].todo = proc[w].todo /\ proc'[w].home = proc[w].home
         /\ proc'[w].hurt = proc[w].hurt
BY DEF KnowledgeType, Go, Unmoved, ServiceFields

LEMMA Left ==
  ASSUME KnowledgeType, NEW w \in Workers, Gone(w)
  PROVE  /\ KnowledgeType' /\ proc'[w] = Down
         /\ \A v \in Workers \ {w} : /\ Unmoved(v)
                                     /\ v \in Peers(w) /\ proc[w].phase \in Replacing =>
                                          proc'[v].hurt = TRUE
<1> DEFINE next(v) == IF v = w THEN Down
                      ELSE IF v \in Peers(w) /\ proc[w].phase \in Replacing
                           THEN [proc[v] EXCEPT !.hurt = TRUE] ELSE proc[v]
<1>1. DOMAIN proc' = Workers /\ \A v \in Workers : proc'[v] = next(v)
  BY DEF Gone
<1>0. next(w) = Down
  OBVIOUS
<1>2. /\ DOMAIN next(w) = ServiceFields
      /\ next(w).loaded \in [Docs -> Versions \cup {0}] /\ next(w).todo \in SUBSET Docs
  BY DownIs
<1>3. ASSUME NEW v \in Workers \ {w}
      PROVE  /\ DOMAIN next(v) = ServiceFields
             /\ next(v).phase = proc[v].phase /\ next(v).loaded = proc[v].loaded
             /\ next(v).todo = proc[v].todo /\ next(v).home = proc[v].home
             /\ proc[v].hurt => next(v).hurt
             /\ v \in Peers(w) /\ proc[w].phase \in Replacing => next(v).hurt = TRUE
  BY <1>3 DEF KnowledgeType, ServiceFields
<1> HIDE DEF next
<1>4. \A v \in Workers \ {w} : Unmoved(v)
  BY <1>1, <1>3 DEF Unmoved
<1>5. KnowledgeType'
  <2>1. ASSUME NEW v \in Workers
        PROVE  /\ DOMAIN next(v) = ServiceFields
               /\ next(v).loaded \in [Docs -> Versions \cup {0}]
               /\ next(v).todo \in SUBSET Docs
    BY <1>2, <1>3 DEF KnowledgeType
  <2>2. QED
    BY <1>1, <2>1 DEF KnowledgeType
<1>6. QED
  BY <1>0, <1>1, <1>3, <1>4, <1>5

LEMMA BrokeOff ==
  ASSUME KnowledgeType, NEW w \in Workers, Abort(w)
  PROVE  /\ KnowledgeType' /\ proc'[w].phase = "serving" /\ proc'[w].home = proc[w].home
         /\ \A v \in Workers \ {w} : Unmoved(v) /\ (v \in Peers(w) => proc'[v].hurt = TRUE)
<1> DEFINE next(v) == IF v = w THEN [proc[w] EXCEPT !.phase = "serving", !.todo = {}]
                      ELSE IF v \in Peers(w) THEN [proc[v] EXCEPT !.hurt = TRUE] ELSE proc[v]
<1>1. DOMAIN proc' = Workers /\ \A v \in Workers : proc'[v] = next(v)
  BY DEF Abort
<1>2. /\ DOMAIN next(w) = ServiceFields /\ next(w).phase = "serving" /\ next(w).todo = {}
      /\ next(w).loaded = proc[w].loaded /\ next(w).home = proc[w].home
  BY DEF KnowledgeType, ServiceFields
<1>3. ASSUME NEW v \in Workers \ {w}
      PROVE  /\ DOMAIN next(v) = ServiceFields
             /\ next(v).phase = proc[v].phase /\ next(v).loaded = proc[v].loaded
             /\ next(v).todo = proc[v].todo /\ next(v).home = proc[v].home
             /\ proc[v].hurt => next(v).hurt
             /\ v \in Peers(w) => next(v).hurt = TRUE
  BY <1>3 DEF KnowledgeType, ServiceFields
<1> HIDE DEF next
<1>4. \A v \in Workers \ {w} : Unmoved(v)
  BY <1>1, <1>3 DEF Unmoved
<1>5. KnowledgeType'
  BY <1>1, <1>2, <1>3 DEF KnowledgeType
<1>6. QED
  BY <1>1, <1>2, <1>3, <1>4, <1>5

LoadedFrom == [d \in Docs |-> IF Loadable(d) THEN corpus[d].text ELSE 0]

CorpusType == corpus \in [Docs -> [text : Versions \cup {0}, trusted : BOOLEAN]]

LEMMA LoadStep ==
  ASSUME KnowledgeType, CorpusType, NEW w \in Workers, Load(w)
  PROVE  /\ KnowledgeType' /\ \A v \in Workers \ {w} : Unmoved(v)
         /\ proc'[w].phase = "probe" /\ proc'[w].loaded = LoadedFrom
         /\ proc'[w].home = (backend = "memory" \/ collection)
<1> DEFINE here == backend = "memory" \/ collection
<1>1. proc' = [proc EXCEPT ![w].phase = "probe", ![w].loaded = LoadedFrom, ![w].home = here]
  BY DEF Load, LoadedFrom
<1>2. LoadedFrom \in [Docs -> Versions \cup {0}]
  BY DEF LoadedFrom, CorpusType
<1> HIDE DEF here
<1>3. /\ KnowledgeType' /\ \A v \in Workers \ {w} : Unmoved(v)
      /\ proc'[w].phase = "probe" /\ proc'[w].loaded = LoadedFrom /\ proc'[w].home = here
  BY <1>1, <1>2 DEF KnowledgeType, ServiceFields, Unmoved
<1>4. QED
  BY <1>3 DEF here

LEMMA ProbeStep ==
  ASSUME KnowledgeType, NEW w \in Workers, Probe(w)
  PROVE  /\ KnowledgeType' /\ \A v \in Workers \ {w} : Unmoved(v)
         /\ proc'[w].phase = "replace" /\ proc'[w].loaded = proc[w].loaded
         /\ proc'[w].home = proc[w].home /\ proc'[w].hurt = proc[w].hurt
         /\ \A d \in proc'[w].todo : proc[w].loaded[d] # 0
         /\ \A d \in Docs \ proc'[w].todo :
              HasChunks(d, proc[w].loaded[d]) =>
                \E c \in Kept(Home(w), d) : c.text = proc[w].loaded[d]
<1>1. PICK h \in Hashes(Home(w)) \cup {Unloaded} :
        proc' = [proc EXCEPT ![w].phase = "replace", ![w].todo =
                   {d \in Docs : /\ HasChunks(d, proc[w].loaded[d])
                                 /\ proc[w].force \/ h[d] # proc[w].loaded[d]}]
  BY DEF Probe, Unloaded
<1> DEFINE todo == {d \in Docs : /\ HasChunks(d, proc[w].loaded[d])
                                 /\ proc[w].force \/ h[d] # proc[w].loaded[d]}
<1>2. todo \in SUBSET Docs /\ \A d \in todo : proc[w].loaded[d] # 0
  BY DEF HasChunks
<1>3. \A d \in Docs \ todo : HasChunks(d, proc[w].loaded[d]) => h[d] = proc[w].loaded[d]
  OBVIOUS
<1>4. proc' = [proc EXCEPT ![w].phase = "replace", ![w].todo = todo]
  BY <1>1
<1> HIDE DEF todo
<1>5. /\ KnowledgeType' /\ \A v \in Workers \ {w} : Unmoved(v)
      /\ proc'[w].phase = "replace" /\ proc'[w].loaded = proc[w].loaded
      /\ proc'[w].home = proc[w].home /\ proc'[w].hurt = proc[w].hurt
      /\ proc'[w].todo = todo
  BY <1>2, <1>4 DEF KnowledgeType, ServiceFields, Unmoved
<1>6. ASSUME NEW d \in Docs, h[d] # 0 PROVE \E c \in Kept(Home(w), d) : c.text = h[d]
  <2>1. h \in Hashes(Home(w))
    BY <1>6 DEF Unloaded
  <2>2. QED
    BY <1>6, <2>1 DEF Hashes
<1>7. \A d : HasChunks(d, proc[w].loaded[d]) => proc[w].loaded[d] # 0
  BY DEF HasChunks
<1>8. QED
  BY <1>2, <1>3, <1>5, <1>6, <1>7

\* A process between two phases of an ingestion, or of an answer.
LEMMA OtherSteps ==
  ASSUME KnowledgeType, NEW w \in Workers, StartService(w) \/ Ask(w) \/ Answer(w)
  PROVE  /\ KnowledgeType' /\ \A v \in Workers \ {w} : Unmoved(v)
         /\ proc'[w].phase \in {"check", "load", "asking", "answered"}
         /\ proc'[w].home => proc[w].home
<1>1. CASE StartService(w)
  <2>1. PICK f \in BOOLEAN :
          proc' = [proc EXCEPT ![w] =
            [Down EXCEPT !.phase = IF backend = "qdrant" THEN "check" ELSE "load", !.force = f]]
    BY <1>1 DEF StartService
  <2> DEFINE p == IF backend = "qdrant" THEN "check" ELSE "load"
             new == [Down EXCEPT !.phase = p, !.force = f]
  <2>2. /\ DOMAIN new = ServiceFields /\ new.phase = p /\ new.loaded = Unloaded
        /\ new.todo = {} /\ new.home = FALSE
    BY DownIs DEF ServiceFields
  <2>3. proc' = [proc EXCEPT ![w] = new] /\ p \in {"check", "load"}
    BY <2>1
  <2> HIDE DEF new, p
  <2>4. proc'[w] = new /\ \A v \in Workers \ {w} : Unmoved(v)
    BY <2>3 DEF KnowledgeType, Unmoved
  <2>5. KnowledgeType'
    BY <2>2, <2>3, DownIs DEF KnowledgeType
  <2>6. QED
    BY <2>2, <2>3, <2>4, <2>5
<1>2. CASE Ask(w)
  <2>1. PICK a \in Agents, f \in Families :
          proc' = [proc EXCEPT ![w].phase = "asking", ![w].query = BuildQuery(a, f),
                               ![w].found = SearchStore(w, BuildQuery(a, f), {})]
    BY <1>2 DEF Ask
  <2>2. QED
    BY <2>1 DEF KnowledgeType, ServiceFields, Unmoved
<1>3. CASE Answer(w)
  <2>1. \/ \E cands, shown :
             proc' = [proc EXCEPT ![w].phase = "answered", ![w].found = cands,
                                  ![w].shown = shown]
        \/ proc' = [proc EXCEPT ![w].phase = "answered", ![w].found = {}]
    BY <1>3 DEF Answer, Degrade
  <2>2. ASSUME NEW cands, NEW shown,
               proc' = [proc EXCEPT ![w].phase = "answered", ![w].found = cands,
                                    ![w].shown = shown]
        PROVE  /\ KnowledgeType' /\ \A v \in Workers \ {w} : Unmoved(v)
               /\ proc'[w].phase = "answered" /\ proc'[w].home = proc[w].home
    BY <2>2 DEF KnowledgeType, ServiceFields, Unmoved
  <2>3. CASE proc' = [proc EXCEPT ![w].phase = "answered", ![w].found = {}]
    BY <2>3 DEF KnowledgeType, ServiceFields, Unmoved
  <2>4. QED
    BY <2>1, <2>2, <2>3
<1>4. QED
  BY <1>1, <1>2, <1>3

\* Writing a document to the store.
Rewritten(w) ==
  LET new == Chunks(Home(w), Current(w), proc[w].loaded[Current(w)])
  IN  IF backend = "qdrant" /\ ~collection THEN stored
      ELSE {c \in stored : ~\E n \in new : n.at = c.at /\ Id(n) = Id(c)} \cup new

LEMMA UpsertStep ==
  ASSUME KnowledgeType, NEW w \in Workers, Upsert(w)
  PROVE  \/ /\ stored' = Rewritten(w)
            /\ KnowledgeType' /\ \A v \in Workers \ {w} : Unmoved(v)
            /\ proc'[w].phase = "replace" /\ proc'[w].loaded = proc[w].loaded
            /\ proc'[w].todo = proc[w].todo \ {Current(w)}
            /\ proc'[w].home = proc[w].home /\ proc'[w].hurt = proc[w].hurt
         \/ backend = "qdrant" /\ stored' \in {stored, Rewritten(w)} /\ Abort(w)
<1>1. \/ /\ stored' = Rewritten(w)
         /\ proc' = [proc EXCEPT ![w].phase = "replace", ![w].todo = @ \ {Current(w)}]
      \/ backend = "qdrant" /\ stored' \in {stored, Rewritten(w)} /\ Abort(w)
  BY DEF Upsert, Rewritten
<1>2. CASE /\ stored' = Rewritten(w)
           /\ proc' = [proc EXCEPT ![w].phase = "replace", ![w].todo = @ \ {Current(w)}]
  BY <1>2 DEF KnowledgeType, ServiceFields, Unmoved
<1>3. QED
  BY <1>1, <1>2

LEMMA ServiceShape ==
  ASSUME KnowledgeType, CorpusType, NEW w \in Workers, ServiceStep(w)
  PROVE  /\ KnowledgeType' /\ \A v \in Workers \ {w} : Unmoved(v)
         /\ backend' = backend /\ corpus' = corpus /\ torn \subseteq torn'
         /\ collection => collection'
<1>1. /\ backend' = backend /\ corpus' = corpus /\ torn \subseteq torn'
      /\ collection => collection'
  <2>1. CASE Load(w)
    <3>1. \E S : torn' = torn \cup S
      BY <2>1 DEF Load
    <3>2. backend' = backend /\ corpus' = corpus /\ collection' = collection
      BY <2>1 DEF Load
    <3>3. QED
      BY <3>1, <3>2
  <2>2. CASE ~Load(w)
    <3>1. torn' = torn /\ backend' = backend /\ corpus' = corpus
      BY <2>2
         DEF ServiceStep, StartService, CheckCollection, CreateCollection, Probe,
             DeleteDocument, Embed, Upsert, Report, Ask, Answer, EndService, CrashService
    <3>2. collection => collection'
      BY <2>2
         DEF ServiceStep, StartService, CheckCollection, CreateCollection, Probe,
             DeleteDocument, Embed, Upsert, Report, Ask, Answer, EndService, CrashService
    <3>3. QED
      BY <3>1, <3>2
  <2>3. QED
    BY <2>1, <2>2
<1>2. CASE StartService(w) \/ Ask(w) \/ Answer(w)
  BY <1>1, <1>2, OtherSteps
<1>3. CASE CheckCollection(w) \/ CreateCollection(w) \/ Report(w)
  BY <1>1, <1>3, Went DEF CheckCollection, CreateCollection, Report
<1>4. CASE Load(w)
  BY <1>1, <1>4, LoadStep
<1>5. CASE Probe(w)
  BY <1>1, <1>5, ProbeStep
<1>6. CASE DeleteDocument(w) \/ Embed(w)
  BY <1>1, <1>6, Went, BrokeOff DEF DeleteDocument, Embed
<1>7. CASE Upsert(w)
  BY <1>1, <1>7, UpsertStep, BrokeOff
<1>8. CASE EndService(w) \/ CrashService(w)
  BY <1>1, <1>8, Left DEF EndService, CrashService
<1>9. QED
  BY <1>2, <1>3, <1>4, <1>5, <1>6, <1>7, <1>8 DEF ServiceStep

(* Whose chunks a step can touch. *)

Of(chunks, place, d) == {c \in chunks : c.at = place /\ c.doc = d}

LEMMA ChunksAre ==
  ASSUME NEW place, NEW d, NEW v
  PROVE  /\ \A c \in Chunks(place, d, v) : c.at = place /\ c.doc = d /\ c.text = v
         /\ Of(Chunks(place, d, v), place, d) = Chunks(place, d, v)
<1>1. ASSUME NEW c \in Chunks(place, d, v)
      PROVE  c.at = place /\ c.doc = d /\ c.text = v
  <2>1. PICK o \in 0..(Length[d][v] - 1) : c = [at |-> place, doc |-> d, ord |-> o, text |-> v]
    BY DEF Chunks
  <2>2. QED
    BY <2>1
<1>2. QED
  BY <1>1 DEF Of

LEMMA RewritesItsOwn ==
  ASSUME NEW w \in Workers, NEW place, NEW d, place # Home(w) \/ d # Current(w)
  PROVE  /\ Of(Rewritten(w), place, d) = Of(stored, place, d)
         /\ Of(stored \ Kept(Home(w), Current(w)), place, d) = Of(stored, place, d)
<1> DEFINE new == Chunks(Home(w), Current(w), proc[w].loaded[Current(w)])
<1>1. \A n \in new : n.at = Home(w) /\ n.doc = Current(w)
  BY ChunksAre
<1>2. CASE backend = "qdrant" /\ ~collection
  BY <1>2 DEF Rewritten, Of, Kept
<1>3. CASE ~(backend = "qdrant" /\ ~collection)
  <2>1. Rewritten(w) = {c \in stored : ~\E n \in new : n.at = c.at /\ Id(n) = Id(c)} \cup new
    BY <1>3 DEF Rewritten
  <2> HIDE DEF new
  <2>2. \A n \in new : ~(n.at = place /\ n.doc = d)
    BY <1>1
  <2>3. \A c \in stored : c.at = place /\ c.doc = d =>
           ~\E n \in new : n.at = c.at /\ Id(n) = Id(c)
    BY <2>2 DEF Id
  <2>4. Of(Rewritten(w), place, d) = Of(stored, place, d)
    BY <2>1, <2>2, <2>3 DEF Of
  <2>5. QED
    BY <2>4 DEF Of, Kept
<1>4. QED
  BY <1>2, <1>3

LEMMA RewritesToOneVersion ==
  ASSUME NEW w \in Workers, NEW all,
         all = Chunks(Home(w), Current(w), proc[w].loaded[Current(w)]),
         Kept(Home(w), Current(w)) \subseteq all
  PROVE  LET kept == Of(Rewritten(w), Home(w), Current(w))
         IN  /\ kept \subseteq all
             /\ backend # "qdrant" \/ collection => kept = all
             /\ kept = Kept(Home(w), Current(w)) \/ kept = all
<1>1. \A n \in all : n.at = Home(w) /\ n.doc = Current(w)
  BY ChunksAre
<1>2. CASE backend = "qdrant" /\ ~collection
  BY <1>2 DEF Rewritten, Of, Kept
<1>3. CASE ~(backend = "qdrant" /\ ~collection)
  <2>1. Rewritten(w) = {c \in stored : ~\E n \in all : n.at = c.at /\ Id(n) = Id(c)} \cup all
    BY <1>3 DEF Rewritten
  <2>2. \A c \in stored : c.at = Home(w) /\ c.doc = Current(w) => c \in all
    BY DEF Kept
  <2>3. Of(Rewritten(w), Home(w), Current(w)) = all
    BY <1>1, <2>1, <2>2 DEF Of
  <2>4. QED
    BY <2>3
<1>4. QED
  BY <1>2, <1>3

LEMMA StoreStep ==
  ASSUME KnowledgeType, CorpusType, NEW w \in Workers, ServiceStep(w), NEW v \in Workers, NEW d
  PROVE  \/ Kept(Home(v), d)' = Kept(Home(v), d)
         \/ Home(v) = Home(w) /\ d = Current(w) /\ (DeleteDocument(w) \/ Upsert(w))
         \/ v = w /\ backend # "qdrant" /\ Gone(w) /\ Kept(Home(v), d)' = {}
<1>0. Home(v)' = Home(v) /\ Kept(Home(v), d) = Of(stored, Home(v), d)
      /\ Kept(Home(v), d)' = Of(stored', Home(v), d)
  BY ServiceShape DEF Home, Kept, Of
<1>1. CASE DeleteDocument(w) \/ Upsert(w)
  <2>1. stored' \in {stored, stored \ Kept(Home(w), Current(w)), Rewritten(w)}
    BY <1>1, UpsertStep DEF DeleteDocument
  <2>2. CASE Home(v) = Home(w) /\ d = Current(w)
    BY <1>1, <2>2
  <2>3. CASE Home(v) # Home(w) \/ d # Current(w)
    <3>1. /\ Of(Rewritten(w), Home(v), d) = Of(stored, Home(v), d)
          /\ Of(stored \ Kept(Home(w), Current(w)), Home(v), d) = Of(stored, Home(v), d)
      BY <2>3, RewritesItsOwn
    <3>2. Of(stored', Home(v), d) = Of(stored, Home(v), d)
      BY <2>1, <3>1
    <3>3. QED
      BY <1>0, <3>2
  <2>4. QED
    BY <2>2, <2>3
<1>2. CASE EndService(w) \/ CrashService(w)
  <2>1. Gone(w) /\ stored' = {c \in stored : c.at # w}
    BY <1>2 DEF EndService, CrashService, Gone
  <2>2. CASE v = w /\ backend # "qdrant"
    BY <1>0, <2>1, <2>2 DEF Home, Of
  <2>3. CASE ~(v = w /\ backend # "qdrant")
    <3>1. Home(v) # w
      BY <2>3, KnowledgeAssumption DEF Home
    <3>2. QED
      BY <1>0, <2>1, <3>1 DEF Of
  <2>4. QED
    BY <2>2, <2>3
<1>3. CASE ~DeleteDocument(w) /\ ~Upsert(w) /\ ~EndService(w) /\ ~CrashService(w)
  <2>1. stored' = stored
    BY <1>3 DEF ServiceStep, StartService, CheckCollection, CreateCollection, Load, Probe, Embed,
                Report, Ask, Answer
  <2>2. QED
    BY <1>0, <2>1
<1>4. QED
  BY <1>1, <1>2, <1>3

(* What an ingestion can rely on, and what each of its steps is. *)

Updating == {"replace", "embed", "upsert"}

Replaces(v, d) == proc[v].phase \in Replacing /\ Current(v) = d

HasCollection(w) == proc[w].home => backend # "qdrant" \/ collection

HasWork(w) ==
  /\ proc[w].phase \in Updating => \A d \in proc[w].todo : proc[w].loaded[d] # 0
  /\ proc[w].phase \in Replacing => proc[w].todo # {}

\* Ingestions that overlap have one version of a document, or it is known for torn.
SameVersion(w, v) ==
  w # v /\ Home(v) = Home(w) /\ proc[w].phase \in Ingesting /\ proc[v].phase \in Ingesting =>
    \A d \in Docs \ torn :
      proc[w].loaded[d] # 0 /\ proc[v].loaded[d] # 0 => proc[w].loaded[d] = proc[v].loaded[d]

\* What is kept of a document is one whole version of it, if anything ...
OneVersion(w) ==
  \A d \in Docs \ torn : \A c \in Kept(Home(w), d) :
    c.text \in Versions /\ Kept(Home(w), d) = Chunks(Home(w), d, c.text)

\* ... and while it is being replaced, the version of whoever replaces it.
OwnVersion(w) ==
  proc[w].phase \in Replacing /\ Current(w) \notin torn =>
    Kept(Home(w), Current(w)) \subseteq
      Chunks(Home(w), Current(w), proc[w].loaded[Current(w)])

UpToDate(w) ==
  proc[w].phase \in Updating /\ proc[w].home /\ ~proc[w].hurt =>
    \A d \in Docs \ (torn \cup proc[w].todo) :
      HasChunks(d, proc[w].loaded[d]) /\ (\A v \in Peers(w) : ~Replaces(v, d)) =>
        Kept(Home(w), d) = Chunks(Home(w), d, proc[w].loaded[d])

KnowledgeInv ==
  \A w \in Workers :
    /\ HasCollection(w) /\ HasWork(w) /\ OneVersion(w) /\ OwnVersion(w) /\ UpToDate(w)
    /\ \A v \in Workers : SameVersion(w, v)

LEMMA CurrentIs ==
  ASSUME KnowledgeType, NEW w \in Workers, proc[w].todo # {}
  PROVE  Current(w) \in proc[w].todo /\ Current(w) \in Docs
<1> DEFINE T == proc[w].todo
<1>1. T \in SUBSET Nat /\ T # {} /\ T \subseteq Docs
  BY KnowledgeAssumption DEF KnowledgeType
<1>2. \E x \in T : \A y \in T : x <= y
  BY <1>1, LeastNat
<1>3. Min(T) \in T
  BY <1>2 DEF Min
<1>4. QED
  BY <1>1, <1>3 DEF Current

StillAt(w) ==
  /\ proc'[w].loaded = proc[w].loaded /\ proc'[w].home = proc[w].home
  /\ proc'[w].hurt = proc[w].hurt

\* It is no longer at it; if it may have left something undone, the others know.
BreaksOff(w) ==
  /\ proc'[w].phase \notin Ingesting /\ (proc'[w].home => proc[w].home)
  /\ proc[w].phase \in Replacing \/ DeleteDocument(w) =>
       \A v \in Peers(w) : proc'[v].hurt = TRUE

LEMMA OwnSteps ==
  ASSUME KnowledgeType, NEW w \in Workers, ServiceStep(w)
  PROVE  \/ Load(w)
         \/ Probe(w)
         \/ /\ DeleteDocument(w) /\ StillAt(w)
            /\ proc[w].phase = "replace" /\ proc[w].todo # {}
            /\ proc'[w].phase = "embed" /\ proc'[w].todo = proc[w].todo
            /\ stored' = stored \ Kept(Home(w), Current(w))
         \/ /\ Embed(w) /\ StillAt(w) /\ proc[w].phase = "embed"
            /\ proc'[w].phase = "upsert" /\ proc'[w].todo = proc[w].todo
            /\ stored' = stored
         \/ /\ Upsert(w) /\ StillAt(w) /\ proc[w].phase = "upsert"
            /\ proc'[w].phase = "replace" /\ proc'[w].todo = proc[w].todo \ {Current(w)}
            /\ stored' = Rewritten(w)
         \/ BreaksOff(w)
<1>0. \A v \in Peers(w) : v \in Workers \ {w}
  BY DEF Peers
<1>1. CASE StartService(w) \/ Ask(w) \/ Answer(w)
  <2>1. proc[w].phase \in {"down", "serving", "asking"}
    BY <1>1 DEF StartService, Ask, Answer
  <2>2. QED
    BY <1>1, <2>1, OtherSteps DEF BreaksOff, Ingesting, Replacing, DeleteDocument
<1>2. CASE CheckCollection(w) \/ CreateCollection(w) \/ Report(w)
  <2>1. \E p \in {"load", "create", "serving"} : Go(w, p)
    BY <1>2 DEF CheckCollection, CreateCollection, Report
  <2>2. \/ proc[w].phase \in {"check", "create"}
        \/ proc[w].phase = "replace" /\ proc[w].todo = {}
    BY <1>2 DEF CheckCollection, CreateCollection, Report, Complete
  <2>3. QED
    BY <2>1, <2>2, Went DEF BreaksOff, Ingesting, Replacing, DeleteDocument
<1>3. CASE DeleteDocument(w)
  <2>1. CASE stored' = stored \ Kept(Home(w), Current(w)) /\ Go(w, "embed")
    BY <1>3, <2>1, Went DEF DeleteDocument, StillAt
  <2>2. CASE Abort(w)
    BY <1>0, <2>2, BrokeOff DEF BreaksOff, Ingesting
  <2>3. QED
    BY <1>3, <2>1, <2>2 DEF DeleteDocument
<1>4. CASE Embed(w)
  <2>1. CASE Go(w, "upsert")
    BY <1>4, <2>1, Went DEF Embed, StillAt
  <2>2. CASE Abort(w)
    BY <1>0, <2>2, BrokeOff DEF BreaksOff, Ingesting
  <2>3. QED
    BY <1>4, <2>1, <2>2 DEF Embed
<1>5. CASE Upsert(w)
  <2>1. CASE Abort(w)
    BY <1>0, <2>1, BrokeOff DEF BreaksOff, Ingesting
  <2>2. proc[w].phase = "upsert"
    BY <1>5 DEF Upsert
  <2>3. QED
    BY <1>5, <2>1, <2>2, UpsertStep DEF StillAt
<1>6. CASE EndService(w) \/ CrashService(w)
  <2>1. Gone(w) /\ Down.phase = "down" /\ Down.home = FALSE
    BY <1>6, DownIs DEF EndService, CrashService
  <2>2. proc'[w] = Down /\ (proc[w].phase \in Replacing => \A v \in Peers(w) : proc'[v].hurt = TRUE)
    BY <1>0, <2>1, Left
  <2>3. CASE ~DeleteDocument(w)
    BY <2>1, <2>2, <2>3 DEF BreaksOff, Ingesting
  <2>4. QED
    BY <1>3, <2>3
<1>7. QED
  BY <1>1, <1>2, <1>3, <1>4, <1>5, <1>6 DEF ServiceStep

LEMMA SameVersionStep ==
  ASSUME KnowledgeType, CorpusType, KnowledgeInv, NEW w \in Workers, ServiceStep(w),
         NEW u \in Workers, NEW v \in Workers
  PROVE  SameVersion(u, v)'
<1>0. /\ backend' = backend /\ torn \subseteq torn'
      /\ \A x \in Workers \ {w} : Unmoved(x) /\ Home(x)' = Home(x)
      /\ Home(w)' = Home(w)
  BY ServiceShape DEF Home
<1>1. CASE u # w /\ v # w
  <2>1. Unmoved(u) /\ Unmoved(v) /\ SameVersion(u, v) /\ Home(u)' = Home(u) /\ Home(v)' = Home(v)
    BY <1>0, <1>1 DEF KnowledgeInv
  <2>2. QED
    BY <1>0, <2>1 DEF SameVersion, Unmoved
<1>2. ASSUME NEW x \in Workers \ {w} PROVE SameVersion(w, x)' /\ SameVersion(x, w)'
  <2>0. /\ Unmoved(x) /\ SameVersion(w, x) /\ SameVersion(x, w)
        /\ Home(x)' = Home(x) /\ Home(w)' = Home(w)
    BY <1>0 DEF KnowledgeInv
  <2>1. CASE proc[w].phase \in Ingesting /\ proc'[w].loaded = proc[w].loaded
    BY <1>0, <2>0, <2>1 DEF SameVersion, Unmoved
  <2>2. CASE proc'[w].phase \notin Ingesting
    BY <2>2 DEF SameVersion
  <2>3. CASE Load(w)
    <3>1. proc'[w].loaded = LoadedFrom
      BY <2>3, LoadStep
    <3>2. torn' = torn \cup {d \in Docs : LoadedFrom[d] # 0 /\
                               \E y \in Peers(w) : proc[y].loaded[d] \notin {0, LoadedFrom[d]}}
      BY <2>3 DEF Load, LoadedFrom
    <3>3. ASSUME Home(x) = Home(w), proc[x].phase \in Ingesting, NEW d \in Docs \ torn',
                 LoadedFrom[d] # 0, proc[x].loaded[d] # 0
          PROVE  proc[x].loaded[d] = LoadedFrom[d]
      <4>1. x \in Peers(w)
        BY <3>3 DEF Peers
      <4>2. QED
        BY <3>2, <3>3, <4>1
    <3>4. QED
      BY <2>0, <3>1, <3>3 DEF SameVersion, Unmoved
  <2>4. CASE Probe(w)
    <3>1. proc[w].phase = "probe" /\ proc'[w].loaded = proc[w].loaded
      BY <2>4, ProbeStep DEF Probe
    <3>2. QED
      BY <2>1, <3>1 DEF Ingesting
  <2>5. QED
    BY <2>1, <2>2, <2>3, <2>4, OwnSteps DEF StillAt, BreaksOff, Ingesting
<1>3. u = v => SameVersion(u, v)'
  BY DEF SameVersion
<1>4. QED
  BY <1>1, <1>2, <1>3

LEMMA HasStep ==
  ASSUME KnowledgeType, CorpusType, KnowledgeInv, NEW w \in Workers, ServiceStep(w),
         NEW v \in Workers
  PROVE  HasCollection(v)' /\ HasWork(v)'
<1>0. backend' = backend /\ (collection => collection') /\ HasCollection(v) /\ HasWork(v)
  BY ServiceShape DEF KnowledgeInv
<1>1. CASE v # w
  <2>1. Unmoved(v)
    BY <1>1, ServiceShape
  <2>2. QED
    BY <1>0, <2>1 DEF HasCollection, HasWork, Unmoved
<1>2. CASE v = w
  <2>1. CASE Load(w)
    <3>1. proc'[w].phase = "probe" /\ proc'[w].home = (backend = "memory" \/ collection)
      BY <2>1, LoadStep
    <3>2. QED
      BY <1>0, <1>2, <3>1 DEF HasCollection, HasWork, Updating, Replacing
  <2>2. CASE Probe(w)
    <3>1. /\ proc'[w].phase = "replace" /\ proc'[w].loaded = proc[w].loaded
          /\ proc'[w].home = proc[w].home
          /\ \A d \in proc'[w].todo : proc[w].loaded[d] # 0
      BY <2>2, ProbeStep
    <3>2. QED
      BY <1>0, <1>2, <3>1 DEF HasCollection, HasWork, Updating, Replacing
  <2>3. CASE BreaksOff(w)
    BY <1>0, <1>2, <2>3
       DEF HasCollection, HasWork, BreaksOff, Ingesting, Updating, Replacing
  <2>4. CASE /\ StillAt(w) /\ proc[w].phase \in Updating
             /\ proc'[w].todo \subseteq proc[w].todo
             /\ proc'[w].phase \in Replacing => proc'[w].todo # {}
    BY <1>0, <1>2, <2>4 DEF HasCollection, HasWork, StillAt
  <2>5. QED
    <3>1. proc[w].phase = "embed" => proc[w].todo # {}
      BY <1>0, <1>2 DEF HasWork, Replacing
    <3>2. QED
      BY <2>1, <2>2, <2>3, <2>4, <3>1, OwnSteps DEF Updating, Replacing
<1>3. QED
  BY <1>1, <1>2

\* What happens to the document at hand: its chunks go, or all of one version are written.
LEMMA AtHand ==
  ASSUME KnowledgeType, KnowledgeInv, NEW w \in Workers, backend' = backend,
         DeleteDocument(w) \/ Upsert(w), NEW d, d = Current(w), d \notin torn
  PROVE  LET all == Chunks(Home(w), d, proc[w].loaded[d])
         IN  /\ \/ Kept(Home(w), d)' = Kept(Home(w), d)
                \/ Kept(Home(w), d)' = {}
                \/ Upsert(w) /\ Kept(Home(w), d)' = all
             /\ Upsert(w) => Kept(Home(w), d) \subseteq all /\ Kept(Home(w), d)' \subseteq all
<1> DEFINE all == Chunks(Home(w), d, proc[w].loaded[d])
<1>0. /\ Home(w)' = Home(w) /\ Kept(Home(w), d) = Of(stored, Home(w), d)
      /\ Kept(Home(w), d)' = Of(stored', Home(w), d)
  BY DEF Home, Kept, Of
<1>1. CASE Upsert(w)
  <2>1. proc[w].phase \in Replacing /\ OwnVersion(w)
    BY <1>1 DEF Upsert, Replacing, KnowledgeInv
  <2>2. Kept(Home(w), d) \subseteq all
    BY <2>1 DEF OwnVersion
  <2>3. stored' \in {stored, Rewritten(w)}
    BY <1>1, UpsertStep
  <2>4. /\ Of(Rewritten(w), Home(w), d) \subseteq all
        /\ Of(Rewritten(w), Home(w), d) = Kept(Home(w), d) \/ Of(Rewritten(w), Home(w), d) = all
    BY <2>2, RewritesToOneVersion
  <2>5. QED
    BY <1>0, <1>1, <2>2, <2>3, <2>4
<1>2. CASE DeleteDocument(w)
  <2>1. stored' \in {stored, stored \ Kept(Home(w), d)} /\ proc[w].phase = "replace"
    BY <1>2 DEF DeleteDocument
  <2>2. Of(stored \ Kept(Home(w), d), Home(w), d) = {}
    BY DEF Of, Kept
  <2>3. ~Upsert(w)
    BY <2>1 DEF Upsert
  <2>4. QED
    BY <1>0, <2>1, <2>2, <2>3
<1>3. QED
  BY <1>1, <1>2

LEMMA OneVersionStep ==
  ASSUME KnowledgeType, CorpusType, KnowledgeInv, NEW w \in Workers, ServiceStep(w),
         NEW v \in Workers
  PROVE  OneVersion(v)'
<1>0. backend' = backend /\ torn \subseteq torn' /\ Home(v)' = Home(v) /\ Home(w)' = Home(w)
  BY ServiceShape DEF Home
<1>1. SUFFICES ASSUME NEW d \in Docs \ torn', NEW c \in Kept(Home(v), d)'
               PROVE  c.text \in Versions /\ Kept(Home(v), d)' = Chunks(Home(v), d, c.text)
  BY <1>0 DEF OneVersion
<1>2. CASE Kept(Home(v), d)' = Kept(Home(v), d)
  BY <1>0, <1>1, <1>2 DEF KnowledgeInv, OneVersion
<1>3. CASE Home(v) = Home(w) /\ d = Current(w) /\ (DeleteDocument(w) \/ Upsert(w))
  <2> DEFINE all == Chunks(Home(w), d, proc[w].loaded[d])
  <2>1. \/ Kept(Home(w), d)' = Kept(Home(w), d) \/ Kept(Home(w), d)' = {}
        \/ Kept(Home(w), d)' = all
    BY <1>0, <1>3, AtHand
  <2>2. Kept(Home(v), d)' = Kept(Home(w), d)' /\ Kept(Home(v), d) = Kept(Home(w), d)
    BY <1>0, <1>3 DEF Kept
  <2>3. CASE Kept(Home(w), d)' = all
    <3>1. c.text = proc[w].loaded[d]
      BY <2>2, <2>3, ChunksAre
    <3>2. CASE Upsert(w)
      <4>1. proc[w].phase = "upsert" /\ HasWork(w)
        BY <3>2 DEF Upsert, KnowledgeInv
      <4>2. proc[w].todo # {} /\ \A e \in proc[w].todo : proc[w].loaded[e] # 0
        BY <4>1 DEF HasWork, Updating, Replacing
      <4>3. d \in Docs /\ proc[w].loaded[d] # 0
        BY <1>3, <4>2, CurrentIs DEF KnowledgeType
      <4>4. proc[w].loaded[d] \in Versions
        BY <4>3 DEF KnowledgeType
      <4>5. QED
        BY <1>3, <2>2, <2>3, <3>1, <4>4
    <3>3. CASE ~Upsert(w)
      <4>1. Kept(Home(w), d)' = Kept(Home(w), d) \/ Kept(Home(w), d)' = {}
        BY <1>0, <1>3, <3>3, AtHand
      <4>2. QED
        BY <1>1, <1>2, <2>2, <4>1
    <3>4. QED
      BY <3>2, <3>3
  <2>4. QED
    BY <1>1, <1>2, <2>1, <2>2, <2>3
<1>4. QED
  BY <1>0, <1>2, <1>3, StoreStep

LEMMA OwnVersionStep ==
  ASSUME KnowledgeType, CorpusType, KnowledgeInv, NEW w \in Workers, ServiceStep(w),
         NEW v \in Workers
  PROVE  OwnVersion(v)'
<1>0. /\ backend' = backend /\ torn \subseteq torn' /\ Home(v)' = Home(v) /\ Home(w)' = Home(w)
      /\ OwnVersion(v) /\ HasWork(v) /\ HasWork(w)
  BY ServiceShape DEF Home, KnowledgeInv
<1>1. CASE v # w
  <2>1. Unmoved(v) /\ Current(v)' = Current(v)
    BY <1>1, ServiceShape DEF Unmoved, Current
  <2>2. SUFFICES ASSUME proc[v].phase \in Replacing, NEW d, d = Current(v), d \notin torn
                 PROVE  Kept(Home(v), d)' \subseteq Chunks(Home(v), d, proc[v].loaded[d])
    BY <1>0, <2>1 DEF OwnVersion, Unmoved, Kept
  <2>3. Kept(Home(v), d) \subseteq Chunks(Home(v), d, proc[v].loaded[d])
    BY <1>0, <2>2 DEF OwnVersion
  <2>4. proc[v].loaded[d] # 0 /\ d \in Docs
    BY <1>0, <2>2, CurrentIs DEF HasWork, Replacing, Updating
  <2>5. CASE Home(v) = Home(w) /\ d = Current(w) /\ (DeleteDocument(w) \/ Upsert(w))
    <3>1. Kept(Home(v), d)' = Kept(Home(w), d)' /\ Kept(Home(v), d) = Kept(Home(w), d)
      BY <1>0, <2>5 DEF Kept
    <3>2. CASE Upsert(w)
      <4>1. proc[w].phase = "upsert"
        BY <3>2 DEF Upsert
      <4>2. proc[w].loaded[d] # 0
        BY <1>0, <2>5, <4>1, CurrentIs DEF HasWork, Replacing, Updating
      <4>3. proc[w].loaded[d] = proc[v].loaded[d]
        BY <1>1, <2>2, <2>4, <2>5, <4>1, <4>2
           DEF KnowledgeInv, SameVersion, Replacing, Ingesting
      <4>4. Kept(Home(w), d)' \subseteq Chunks(Home(w), d, proc[w].loaded[d])
        BY <1>0, <2>2, <2>5, <3>2, AtHand
      <4>5. QED
        BY <2>5, <3>1, <4>3, <4>4
    <3>3. CASE ~Upsert(w)
      <4>1. Kept(Home(w), d)' = Kept(Home(w), d) \/ Kept(Home(w), d)' = {}
        BY <1>0, <2>2, <2>5, <3>3, AtHand
      <4>2. QED
        BY <2>3, <3>1, <4>1
    <3>4. QED
      BY <3>2, <3>3
  <2>6. QED
    BY <1>1, <2>3, <2>5, StoreStep
<1>2. CASE v = w
  <2>1. CASE Load(w) \/ Probe(w) \/ BreaksOff(w)
    <3>1. proc'[w].phase \notin Replacing
      BY <2>1, LoadStep, ProbeStep DEF BreaksOff, Ingesting, Replacing
    <3>2. QED
      BY <1>2, <3>1 DEF OwnVersion
  <2>2. CASE DeleteDocument(w) /\ stored' = stored \ Kept(Home(w), Current(w))
             /\ proc'[w].todo = proc[w].todo
    <3>1. Current(w)' = Current(w) /\ Kept(Home(w), Current(w))' = {}
      BY <1>0, <1>2, <2>2 DEF Current, Kept
    <3>2. QED
      BY <1>2, <3>1 DEF OwnVersion
  <2>3. CASE /\ StillAt(w) /\ proc[w].phase = "embed" /\ proc'[w].todo = proc[w].todo
             /\ stored' = stored
    <3>1. Current(w)' = Current(w) /\ Kept(Home(w), Current(w))' = Kept(Home(w), Current(w))
      BY <1>0, <1>2, <2>3 DEF Current, Kept
    <3>2. QED
      BY <1>0, <1>2, <2>3, <3>1 DEF OwnVersion, StillAt, Replacing
  <2>4. CASE proc'[w].phase = "replace"
    BY <1>2, <2>4 DEF OwnVersion, Replacing
  <2>5. QED
    BY <2>1, <2>2, <2>3, <2>4, OwnSteps
<1>3. QED
  BY <1>1, <1>2

\* What another process does to a document that is up to date for v.
LEMMA UpToDateForOthers ==
  ASSUME KnowledgeType, CorpusType, KnowledgeInv, NEW w \in Workers, ServiceStep(w),
         NEW v \in Workers \ {w}
  PROVE  UpToDate(v)'
<1>0. /\ backend' = backend /\ torn \subseteq torn' /\ Unmoved(v)
      /\ \A x \in Workers : Home(x)' = Home(x)
      /\ UpToDate(v) /\ HasCollection(v) /\ HasWork(w)
  BY ServiceShape DEF Home, KnowledgeInv
<1>1. SUFFICES ASSUME proc[v].phase \in Updating, proc[v].home, ~proc[v].hurt, ~proc'[v].hurt,
                      NEW d \in Docs, d \notin torn, d \notin proc[v].todo,
                      HasChunks(d, proc[v].loaded[d]), \A x \in Peers(v)' : ~Replaces(x, d)'
               PROVE  Kept(Home(v), d)' = Chunks(Home(v), d, proc[v].loaded[d])
  BY <1>0 DEF UpToDate, Unmoved
<1> DEFINE all == Chunks(Home(v), d, proc[v].loaded[d])
<1>2. \A x \in Peers(v) : x # w => ~Replaces(x, d)
  <2>1. ASSUME NEW x \in Peers(v), x # w PROVE ~Replaces(x, d)
    <3>1. x \in Workers \ {w} /\ Unmoved(x) /\ x # v
      BY <2>1, ServiceShape DEF Peers
    <3>2. x \in Peers(v)'
      BY <1>0, <2>1, <3>1 DEF Peers, Unmoved
    <3>3. ~Replaces(x, d)'
      BY <1>1, <3>2
    <3>4. QED
      BY <3>1, <3>3 DEF Replaces, Current, Unmoved
  <2>2. QED
    BY <2>1
<1>3. CASE Home(v) # Home(w)
  <2>1. w \notin Peers(v)
    BY <1>3 DEF Peers
  <2>2. Kept(Home(v), d) = all
    BY <1>0, <1>1, <1>2, <2>1 DEF UpToDate
  <2>3. QED
    BY <1>3, <2>2, StoreStep
<1>4. CASE Home(v) = Home(w)
  <2>0. proc[v].phase \in Ingesting
    BY <1>1 DEF Updating, Ingesting
  <2>1. v \in Peers(w)
    BY <1>4, <2>0 DEF Peers
  <2>2. proc[w].phase \in Ingesting => w \in Peers(v)
    BY <1>4 DEF Peers
  <2>3. Kept(Home(v), d)' = Kept(Home(w), d)' /\ Kept(Home(v), d) = Kept(Home(w), d)
    BY <1>0, <1>4 DEF Kept
  <2>4. CASE Replaces(w, d)
    <3>1. proc[w].phase \in Replacing /\ Current(w) = d /\ proc[w].loaded[d] # 0
      BY <1>0, <2>4, CurrentIs DEF Replaces, HasWork, Replacing, Updating
    <3>2. ~BreaksOff(w)
      BY <1>1, <2>1, <3>1 DEF BreaksOff
    <3>3. CASE Embed(w) /\ proc'[w].phase = "upsert" /\ proc'[w].todo = proc[w].todo
      <4>1. w \in Peers(v)'
        BY <1>0, <1>4, <3>3 DEF Peers, Ingesting
      <4>2. Replaces(w, d)'
        BY <3>1, <3>3 DEF Replaces, Current, Replacing
      <4>3. QED
        BY <1>1, <4>1, <4>2
    <3>4. CASE Upsert(w) /\ stored' = Rewritten(w)
      <4>1. proc[w].loaded[d] = proc[v].loaded[d]
        BY <1>1, <1>4, <2>0, <3>1 DEF KnowledgeInv, SameVersion, Replacing, Ingesting,
                                      HasChunks
      <4>2. Kept(Home(w), d) \subseteq Chunks(Home(w), d, proc[w].loaded[d])
        BY <1>1, <3>1 DEF KnowledgeInv, OwnVersion
      <4>3. Of(Rewritten(w), Home(w), d) = Chunks(Home(w), d, proc[w].loaded[d])
        BY <1>0, <1>1, <3>1, <4>2, RewritesToOneVersion DEF HasCollection
      <4>4. Kept(Home(w), d)' = Of(Rewritten(w), Home(w), d)
        BY <1>0, <3>4 DEF Kept, Of
      <4>5. QED
        BY <1>4, <2>3, <4>1, <4>3, <4>4
    <3>5. CASE Load(w) \/ Probe(w) \/ proc[w].phase = "replace"
      BY <3>1, <3>5 DEF Load, Probe, Replacing
    <3>6. QED
      BY <3>2, <3>3, <3>4, <3>5, OwnSteps
  <2>5. CASE ~Replaces(w, d)
    <3>1. Kept(Home(v), d) = all
      BY <1>0, <1>1, <1>2, <2>5 DEF UpToDate
    <3>2. CASE d = Current(w) /\ (DeleteDocument(w) \/ Upsert(w))
      <4>1. DeleteDocument(w) /\ ~Upsert(w)
        BY <2>5, <3>2 DEF Replaces, Upsert, Replacing
      <4>2. ~BreaksOff(w)
        BY <1>1, <2>1, <4>1 DEF BreaksOff
      <4>3. proc[w].phase = "replace"
        BY <4>1 DEF DeleteDocument
      <4>4. proc'[w].phase = "embed" /\ proc'[w].todo = proc[w].todo
        BY <4>1, <4>2, <4>3, OwnSteps DEF Load, Probe, Embed
      <4>5. w \in Peers(v)' /\ Replaces(w, d)'
        BY <1>0, <1>4, <3>2, <4>4 DEF Peers, Ingesting, Replaces, Current, Replacing
      <4>6. QED
        BY <1>1, <4>5
    <3>3. QED
      BY <3>1, <3>2, StoreStep
  <2>6. QED
    BY <2>4, <2>5
<1>5. QED
  BY <1>3, <1>4

LEMMA UpToDateStep ==
  ASSUME KnowledgeType, CorpusType, KnowledgeInv, NEW w \in Workers, ServiceStep(w)
  PROVE  UpToDate(w)'
<1>0. /\ backend' = backend /\ torn \subseteq torn'
      /\ \A x \in Workers : Home(x)' = Home(x)
      /\ UpToDate(w) /\ HasCollection(w) /\ HasWork(w) /\ OneVersion(w)
  BY ServiceShape DEF Home, KnowledgeInv
<1>1. ASSUME StillAt(w), NEW d \in Docs, \A x \in Peers(w)' : ~Replaces(x, d)'
      PROVE  \A x \in Peers(w) : ~Replaces(x, d)
  <2>1. ASSUME NEW x \in Peers(w) PROVE ~Replaces(x, d)
    <3>1. x \in Workers \ {w} /\ Unmoved(x)
      BY ServiceShape DEF Peers
    <3>2. x \in Peers(w)'
      BY <1>0, <2>1, <3>1 DEF Peers, Unmoved
    <3>3. ~Replaces(x, d)'
      BY <1>1, <3>2
    <3>4. QED
      BY <3>1, <3>3 DEF Replaces, Current, Unmoved
  <2>2. QED
    BY <2>1
<1>2. CASE Load(w) \/ BreaksOff(w)
  <2>1. proc'[w].phase \notin Updating
    BY <1>2, LoadStep DEF BreaksOff, Ingesting, Updating
  <2>2. QED
    BY <2>1 DEF UpToDate
<1>3. CASE Probe(w)
  <2>1. /\ proc'[w].loaded = proc[w].loaded /\ stored' = stored
        /\ \A d \in Docs \ proc'[w].todo :
             HasChunks(d, proc[w].loaded[d]) =>
               \E c \in Kept(Home(w), d) : c.text = proc[w].loaded[d]
    BY <1>3, ProbeStep DEF Probe
  <2>2. ASSUME NEW d \in Docs, d \notin torn, d \notin proc'[w].todo,
               HasChunks(d, proc[w].loaded[d])
        PROVE  Kept(Home(w), d) = Chunks(Home(w), d, proc[w].loaded[d])
    BY <1>0, <2>1, <2>2 DEF OneVersion
  <2>3. \A d : Kept(Home(w), d)' = Kept(Home(w), d)
    BY <1>0, <2>1 DEF Kept
  <2>4. QED
    BY <1>0, <2>1, <2>2, <2>3 DEF UpToDate
<1>4. ASSUME StillAt(w), proc[w].phase \in Updating, proc[w].todo # {},
             \/ DeleteDocument(w) /\ proc'[w].todo = proc[w].todo
             \/ stored' = stored /\ proc'[w].todo = proc[w].todo
             \/ /\ Upsert(w) /\ stored' = Rewritten(w) /\ proc[w].phase = "upsert"
                /\ proc'[w].todo = proc[w].todo \ {Current(w)}
      PROVE  UpToDate(w)'
  <2>1. SUFFICES ASSUME proc[w].home, ~proc[w].hurt,
                        NEW d \in Docs, d \notin torn, d \notin proc'[w].todo,
                        HasChunks(d, proc[w].loaded[d]), \A x \in Peers(w)' : ~Replaces(x, d)'
                 PROVE  Kept(Home(w), d)' = Chunks(Home(w), d, proc[w].loaded[d])
    BY <1>0, <1>4 DEF UpToDate, StillAt
  <2>2. Current(w) \in proc[w].todo
    BY <1>4, CurrentIs
  <2>3. CASE d \notin proc[w].todo
    <3>1. Kept(Home(w), d) = Chunks(Home(w), d, proc[w].loaded[d])
      BY <1>0, <1>1, <1>4, <2>1, <2>3 DEF UpToDate
    <3>2. Kept(Home(w), d)' = Of(stored', Home(w), d) /\ Kept(Home(w), d) = Of(stored, Home(w), d)
      BY <1>0 DEF Kept, Of
    <3>3. /\ Of(Rewritten(w), Home(w), d) = Of(stored, Home(w), d)
          /\ Of(stored \ Kept(Home(w), Current(w)), Home(w), d) = Of(stored, Home(w), d)
      BY <2>2, <2>3, RewritesItsOwn
    <3>4. stored' \in {stored, stored \ Kept(Home(w), Current(w)), Rewritten(w)}
      BY <1>4 DEF DeleteDocument
    <3>5. Of(stored', Home(w), d) = Of(stored, Home(w), d)
      BY <3>3, <3>4
    <3>6. QED
      BY <3>1, <3>2, <3>5
  <2>4. CASE d \in proc[w].todo
    <3>1. d = Current(w) /\ stored' = Rewritten(w) /\ proc[w].phase = "upsert"
      BY <1>4, <2>1, <2>4
    <3>2. Kept(Home(w), d) \subseteq Chunks(Home(w), d, proc[w].loaded[d])
      BY <2>1, <3>1 DEF KnowledgeInv, OwnVersion, Replacing
    <3>3. Of(Rewritten(w), Home(w), d) = Chunks(Home(w), d, proc[w].loaded[d])
      BY <1>0, <2>1, <3>1, <3>2, RewritesToOneVersion DEF HasCollection
    <3>4. Kept(Home(w), d)' = Of(Rewritten(w), Home(w), d)
      BY <1>0, <3>1 DEF Kept, Of
    <3>5. QED
      BY <3>3, <3>4
  <2>5. QED
    BY <2>3, <2>4
<1>5. proc[w].phase \in Replacing => proc[w].todo # {}
  BY <1>0 DEF HasWork
<1>6. QED
  BY <1>2, <1>3, <1>4, <1>5, OwnSteps DEF Updating, Replacing

-----------------------------------------------------------------------------
(* The knowledge base: what every reachable state has. *)

LEMMA KnowledgeInvInit == KInit => KnowledgeType /\ CorpusType /\ KnowledgeInv
<1> SUFFICES ASSUME KInit PROVE KnowledgeType /\ CorpusType /\ KnowledgeInv
  OBVIOUS
<1>1. KnowledgeType
  BY KnowledgeTypeInit
<1>2. CorpusType
  BY KnowledgeAssumption DEF KInit, CorpusType
<1>3. \A w \in Workers : proc[w] = Down /\ Down.phase = "down" /\ Down.home = FALSE
  BY DownIs DEF KInit
<1>4. ASSUME NEW w \in Workers
      PROVE  /\ HasCollection(w) /\ HasWork(w) /\ OneVersion(w) /\ OwnVersion(w) /\ UpToDate(w)
             /\ \A v \in Workers : SameVersion(w, v)
  <2>1. stored = {}
    BY DEF KInit
  <2>2. OneVersion(w)
    BY <2>1 DEF OneVersion, Kept
  <2>3. QED
    BY <1>3, <2>2 DEF HasCollection, HasWork, OwnVersion, UpToDate, SameVersion, Updating,
                      Replacing, Ingesting
<1>5. QED
  BY <1>1, <1>2, <1>4 DEF KnowledgeInv

\* An edit of the corpus is nothing to anyone who has loaded it.
LEMMA EditLeaves ==
  ASSUME KnowledgeInv, KnowledgeType, UNCHANGED <<backend, collection, stored, proc, torn>>
  PROVE  KnowledgeInv' /\ KnowledgeType'
<1>1. KnowledgeType'
  BY DEF KnowledgeType
<1>2. ASSUME NEW w \in Workers
      PROVE  /\ HasCollection(w)' /\ HasWork(w)' /\ OneVersion(w)' /\ OwnVersion(w)'
             /\ \A v \in Workers : SameVersion(w, v)'
  BY <1>2 DEF KnowledgeInv, HasCollection, HasWork, OneVersion, OwnVersion, SameVersion, Kept,
              Home, Current
<1>3. ASSUME NEW w \in Workers PROVE UpToDate(w)'
  BY <1>3 DEF KnowledgeInv, UpToDate, Kept, Home, Current, Peers, Replaces
<1>4. QED
  BY <1>1, <1>2, <1>3 DEF KnowledgeInv

LEMMA KnowledgeHolds == KSpec => [](KnowledgeType /\ CorpusType /\ KnowledgeInv)
<1>1. ASSUME KnowledgeType, CorpusType, KnowledgeInv, [KNext]_kvars
      PROVE  KnowledgeType' /\ CorpusType' /\ KnowledgeInv'
  <2>1. CASE UNCHANGED kvars
    BY <1>1, <2>1, EditLeaves DEF kvars, CorpusType
  <2>2. ASSUME NEW d \in Docs, EditCorpus(d)
        PROVE  KnowledgeType' /\ CorpusType' /\ KnowledgeInv'
    <3>1. CorpusType'
      <4>1. CASE \E v \in (Versions \cup {0}) \ {corpus[d].text} :
                   corpus' = [corpus EXCEPT ![d].text = v]
        BY <1>1, <4>1 DEF CorpusType
      <4>2. CASE corpus' = [corpus EXCEPT ![d].trusted = ~@]
        <5>1. (~corpus[d].trusted) \in BOOLEAN
          OBVIOUS
        <5>2. QED
          BY <1>1, <4>2, <5>1 DEF CorpusType
      <4>3. QED
        BY <2>2, <4>1, <4>2 DEF EditCorpus
    <3>2. QED
      BY <1>1, <2>2, <3>1, EditLeaves DEF EditCorpus
  <2>3. ASSUME NEW w \in Workers, ServiceStep(w)
        PROVE  KnowledgeType' /\ CorpusType' /\ KnowledgeInv'
    <3>1. KnowledgeType' /\ CorpusType'
      BY <1>1, <2>3, ServiceShape DEF CorpusType
    <3>2. ASSUME NEW v \in Workers
          PROVE  /\ HasCollection(v)' /\ HasWork(v)' /\ OneVersion(v)' /\ OwnVersion(v)'
                 /\ UpToDate(v)' /\ \A u \in Workers : SameVersion(v, u)'
      BY <1>1, <2>3, HasStep, OneVersionStep, OwnVersionStep, UpToDateStep, UpToDateForOthers,
         SameVersionStep
    <3>3. QED
      BY <3>1, <3>2 DEF KnowledgeInv
  <2>4. QED
    BY <1>1, <2>1, <2>2, <2>3 DEF KNext, ServiceStep
<1>2. QED
  BY <1>1, KnowledgeInvInit, PTL DEF KSpec

\* However many processes bring the store up to date at once, or broke off half-way before:
\* when one of them reports, the store holds of each document it loaded exactly the chunks
\* of that version, or one whole version or nothing if that version has no chunks, unless
\* the document is torn or another process is at it.
THEOREM IngestsCurrent == KSpec => []IngestedIsCurrent
<1>1. KnowledgeType /\ KnowledgeInv => IngestedIsCurrent
  <2> SUFFICES ASSUME KnowledgeType, KnowledgeInv,
                      NEW w \in Workers, Complete(w), proc[w].home, ~proc[w].hurt,
                      NEW d \in Docs \ torn, proc[w].loaded[d] # 0,
                      \A v \in Peers(w) : proc[v].phase \in Replacing => Current(v) # d
               PROVE  \E v \in Versions :
                        /\ Kept(Home(w), d) = Chunks(Home(w), d, v)
                        /\ HasChunks(d, proc[w].loaded[d]) => v = proc[w].loaded[d]
    BY DEF IngestedIsCurrent
  <2>1. proc[w].phase \in Updating /\ proc[w].todo = {}
    BY DEF Complete, Updating
  <2>2. UpToDate(w) /\ OneVersion(w)
    BY DEF KnowledgeInv
  <2>3. proc[w].loaded[d] \in Versions
    BY DEF KnowledgeType
  <2>4. CASE HasChunks(d, proc[w].loaded[d])
    <3>1. Kept(Home(w), d) = Chunks(Home(w), d, proc[w].loaded[d])
      BY <2>1, <2>2, <2>4 DEF UpToDate, Replaces
    <3>2. QED
      BY <2>3, <3>1
  <2>5. CASE ~HasChunks(d, proc[w].loaded[d]) /\ Kept(Home(w), d) = {}
    <3>1. Length[d][proc[w].loaded[d]] = 0
      BY <2>5 DEF HasChunks
    <3>2. Chunks(Home(w), d, proc[w].loaded[d]) = {}
      BY <3>1 DEF Chunks
    <3>3. QED
      BY <2>3, <2>5, <3>2
  <2>6. CASE ~HasChunks(d, proc[w].loaded[d]) /\ Kept(Home(w), d) # {}
    <3>1. PICK c \in Kept(Home(w), d) : TRUE
      BY <2>6
    <3>2. c.text \in Versions /\ Kept(Home(w), d) = Chunks(Home(w), d, c.text)
      BY <2>2 DEF OneVersion
    <3>3. QED
      BY <2>6, <3>2
  <2>7. QED
    BY <2>4, <2>5, <2>6
<1>2. QED
  BY <1>1, KnowledgeHolds, PTL
=============================================================================
