--------------------------- MODULE StageStoreProofs ---------------------------
(***************************************************************************)
(* Proofs about StageStore for every number of workers, hosts, uploads,    *)
(* findings, copies of the chain and faults: no sample without its bytes,  *)
(* no finding of an envelope lost, nothing of an earlier delivery left     *)
(* behind until deliveries of one stage overlap, and the decompiled tree   *)
(* handed from one stage to the other.                                     *)
(***************************************************************************)
EXTENDS StageStore, FiniteSetTheorems, TLAPS

-----------------------------------------------------------------------------
(* Types. *)

LEMMA Leaves == ASSUME NEW s PROVE Leave(s) \in {"clean", "return"}
BY DEF Leave

LEMMA NoTaskType == NoTask \in Tasks
BY DEF NoTask, Tasks, NoEnvelope, Envelope, Envelopes, Stages

LEMMA HostType == ASSUME NEW w \in Workers PROVE HostOf[w] \in Hosts
BY DEF Hosts

\* What a delivery's task looks like when it leaves its stage run.
LEMMA DepartType ==
  ASSUME task \in [Workers -> Tasks], NEW w \in Workers,
         NEW phase \in {"clean", "return"}, Depart(w, phase)
  PROVE  task' \in [Workers -> Tasks]
<1>1. [NoTask EXCEPT !.stage = task[w].stage, !.phase = phase] \in Tasks
  <2>1. task[w].stage \in Stages \cup {"none"}
    BY DEF Tasks
  <2>2. QED
    BY <2>1, NoTaskType DEF Tasks
<1>2. QED
  BY <1>1 DEF Depart

LEMMA GoType ==
  ASSUME task \in [Workers -> Tasks], NEW w \in Workers, NEW phase, Go(w, phase),
         phase \in {"run", "settle", "snap", "upsert", "return", "ack"}
  PROVE  task' \in [Workers -> Tasks]
<1>1. [task[w] EXCEPT !.phase = phase] \in Tasks
  BY DEF Tasks
<1>2. QED
  BY <1>1 DEF Go

LEMMA ReportType ==
  ASSUME task \in [Workers -> Tasks], NEW w \in Workers,
         NEW found \in SUBSET FindingIds, NEW info \in SUBSET {"dir", "key", "tree"},
         Report(w, found, info)
  PROVE  task' \in [Workers -> Tasks]
<1>1. Envelope(0, task[w].stage, HostOf[w], found, info) \in Envelopes
  BY HostType DEF Tasks, Envelope, Envelopes
<1>2. \A next \in {"publish", "snap"}, e \in Envelopes :
        [task[w] EXCEPT !.phase = next, !.source = "none", !.envelope = e] \in Tasks
  <2>1. task[w] \in Tasks
    OBVIOUS
  <2>2. QED
    BY <2>1 DEF Tasks
<1>3. PICK next \in {"publish", "snap"} :
        task' = [task EXCEPT ![w] = [task[w] EXCEPT !.phase = next, !.source = "none",
                   !.envelope = Envelope(0, task[w].stage, HostOf[w], found, info)]]
  BY DEF Report
<1>4. QED
  BY <1>1, <1>2, <1>3

LEMMA UploadType ==
  ASSUME IngestTypeOK, NEW u \in Uploads, UploadStep(u)
  PROVE  IngestTypeOK'
<1> USE IngestAssumption DEF IngestTypeOK, Move, Backends
<1>1. CASE Dedup(u)
  BY <1>1 DEF Dedup
<1>2. CASE Probe(u)
  BY <1>2 DEF Probe
<1>3. CASE PutObject(u)
  BY <1>3 DEF PutObject
<1>4. CASE OpenFile(u)
  BY <1>4 DEF OpenFile
<1>5. CASE FillFile(u)
  BY <1>5 DEF FillFile
<1>6. CASE Commit(u)
  BY <1>6 DEF Commit
<1>7. CASE LoseRequest(u)
  BY <1>7 DEF LoseRequest
<1>8. QED
  BY <1>1, <1>2, <1>3, <1>4, <1>5, <1>6, <1>7 DEF UploadStep

\* No worker touches what the uploads keep.
LEMMA WorkersOnlyRead ==
  ASSUME NEW w \in Workers, WorkerStep(w)
  PROVE  UNCHANGED ingestVars /\ UNCHANGED given
BY DEF WorkerStep, Take, Materialize, Resolve, LookUp, Claim, Settle, AnalyzeStatic,
       AnalyzeCode, EngineRaises, Publish, Snapshot, Replace, Upsert, Complete, CleanUp,
       Return, Ack, LoseWorker, StageError, FetchFails, DbOnly, FilesOnly

\* What a delivery of code intel makes of the static envelope.
LEMMA ResolveShape ==
  ASSUME NEW w \in Workers, Resolve(w)
  PROVE  \E goal \in {"work", "skipped"}, source \in {"none", "dir", "copy"} :
           task' = [task EXCEPT ![w] = [task[w] EXCEPT !.phase = "look", !.goal = goal,
                                                       !.source = source]]
<1> DEFINE h == HostOf[w]
           found == EnvelopesOf("static") # {}
           local == found /\ "dir" \in LatestStatic.info /\ h \in tree
           fetched == found /\ ~local /\ Fetched(LatestStatic)
<1>1. PICK goal \in Goals :
        task' = [task EXCEPT ![w] = [task[w] EXCEPT !.phase = "look", !.goal = goal,
                   !.source = IF local THEN "dir" ELSE IF fetched THEN "copy" ELSE "none"]]
  BY DEF Resolve
<1>2. goal \in {"work", "skipped"}
  BY DEF Goals
<1> HIDE DEF local, fetched
<1>3. (IF local THEN "dir" ELSE IF fetched THEN "copy" ELSE "none") \in {"none", "dir", "copy"}
  OBVIOUS
<1>4. QED
  BY <1>1, <1>2, <1>3

LEMMA WorkerType ==
  ASSUME TypeOK, NEW w \in Workers, WorkerStep(w)
  PROVE  TypeOK'
<1> DEFINE Rows == rows \in [Stages -> {"absent", "running", "ok", "failed", "skipped"}]
           Evidence == evidence \subseteq Envelopes /\ clock \in Nat
           Owner == owner \in [Stages \X FindingIds -> Nat]
           Queue == pend \in [Stages -> Nat]
           Task == task \in [Workers -> Tasks]
           Files == tree \subseteq Hosts /\ unpacked \subseteq Hosts /\ archive \in BOOLEAN
           Past == faults \in 0..MaxFaults /\ past \in {"single", "repeated", "overlapping"}
<1>1. IngestTypeOK' /\ (given \in [chain: SUBSET Stages, jadx: BOOLEAN, reports: SUBSET FindingIds])'
  BY WorkersOnlyRead DEF TypeOK, IngestTypeOK, ingestVars
<1>2. SUFFICES ASSUME Rows, Evidence, Owner, Queue, Task, Files, Past, task[w] \in Tasks,
                      HostOf[w] \in Hosts
               PROVE  Rows' /\ Evidence' /\ Owner' /\ Queue' /\ Task' /\ Files' /\ Past'
  BY <1>1, HostType DEF TypeOK
<1>3. ASSUME DbOnly, UNCHANGED evidence, UNCHANGED owner, Rows', Task'
      PROVE  Rows' /\ Evidence' /\ Owner' /\ Queue' /\ Task' /\ Files' /\ Past'
  BY <1>2, <1>3 DEF DbOnly
<1>4. ASSUME FilesOnly, Files', Task'
      PROVE  Rows' /\ Evidence' /\ Owner' /\ Queue' /\ Task' /\ Files' /\ Past'
  BY <1>2, <1>4 DEF FilesOnly
<1>5. ASSUME NEW s \in Stages, Take(w, s)
      PROVE  Rows' /\ Evidence' /\ Owner' /\ Queue' /\ Task' /\ Files' /\ Past'
  <2>1. [NoTask EXCEPT !.stage = s, !.phase = "read"] \in Tasks
    BY NoTaskType DEF Tasks
  <2>2. Queue' /\ Task'
    BY <1>2, <1>5, <2>1 DEF Take
  <2>3. QED
    BY <1>2, <1>5, <2>2 DEF Take
<1>6. CASE Materialize(w)
  <2>1. [task[w] EXCEPT !.phase = "look", !.goal = IF Bytes = "absent" THEN "failed" ELSE "work"] \in Tasks
    BY <1>2 DEF Tasks
  <2>2. QED
    BY <1>2, <1>4, <1>6, <2>1 DEF Materialize
<1>7. CASE Resolve(w)
  <2>1. \A goal \in {"work", "skipped"}, source \in {"none", "dir", "copy"} :
          [task[w] EXCEPT !.phase = "look", !.goal = goal, !.source = source] \in Tasks
    BY <1>2 DEF Tasks
  <2>2. PICK goal \in {"work", "skipped"}, source \in {"none", "dir", "copy"} :
          task' = [task EXCEPT ![w] = [task[w] EXCEPT !.phase = "look", !.goal = goal,
                                                      !.source = source]]
    BY <1>7, ResolveShape
  <2>3. Task'
    BY <1>2, <2>1, <2>2
  <2>4. Files'
    BY <1>2, <1>7 DEF Resolve
  <2>5. QED
    BY <1>4, <1>7, <2>3, <2>4 DEF Resolve
<1>8. CASE LookUp(w)
  <2>1. [task[w] EXCEPT !.phase = "claim", !.absent = rows[task[w].stage] = "absent"] \in Tasks
    BY <1>2 DEF Tasks
  <2>2. QED
    BY <1>2, <1>3, <1>8, <2>1 DEF LookUp
<1>9. CASE Claim(w)
  <2>1. Task'
    BY <1>2, <1>9, DepartType, GoType, Leaves DEF Claim
  <2>2. QED
    BY <1>2, <1>3, <1>9, <2>1 DEF Claim
<1>10. CASE Settle(w)
  <2>1. Task'
    BY <1>2, <1>10, DepartType, Leaves DEF Settle
  <2>2. Rows'
    BY <1>2, <1>10 DEF Settle, Tasks
  <2>3. QED
    BY <1>3, <1>10, <2>1, <2>2 DEF Settle
<1>11. CASE AnalyzeStatic(w)
  <2>1. PICK found \in Normalized, info \in SUBSET {"dir"} :
          /\ Report(w, found, info)
          /\ tree' = IF info = {} THEN tree ELSE tree \cup {HostOf[w]}
    BY <1>11 DEF AnalyzeStatic
  <2>2. found \in SUBSET FindingIds
    BY DEF Normalized, TypeOK
  <2>3. Task' /\ Files'
    BY <1>2, <1>11, <2>1, <2>2, ReportType DEF AnalyzeStatic
  <2>4. QED
    BY <1>4, <1>11, <2>3 DEF AnalyzeStatic
<1>12. CASE AnalyzeCode(w)
  <2>1. PICK found \in Normalized, info \in SUBSET {"tree"} : Report(w, found, info)
    BY <1>12 DEF AnalyzeCode
  <2>2. found \in SUBSET FindingIds
    BY DEF Normalized, TypeOK
  <2>3. Task'
    BY <1>2, <2>1, <2>2, ReportType
  <2>4. QED
    BY <1>2, <1>4, <1>12, <2>3 DEF AnalyzeCode
<1>13. CASE EngineRaises(w)
  BY <1>2, <1>4, <1>13, GoType DEF EngineRaises
<1>14. CASE Publish(w)
  <2>1. CASE archive' = TRUE
             /\ task' = [task EXCEPT ![w].phase = "snap", ![w].envelope.info = @ \cup {"key"}]
    <3>1. [task[w].envelope EXCEPT !.info = @ \cup {"key"}] \in Envelopes
      BY <1>2 DEF Tasks, Envelopes
    <3>2. [task[w] EXCEPT !.phase = "snap",
                          !.envelope = [task[w].envelope EXCEPT !.info = @ \cup {"key"}]] \in Tasks
      BY <1>2, <3>1 DEF Tasks
    <3>3. Task'
      BY <1>2, <2>1, <3>2
    <3>4. QED
      BY <1>2, <1>4, <1>14, <2>1, <3>3 DEF Publish
  <2>2. CASE Go(w, "snap") /\ UNCHANGED archive
    BY <1>2, <1>4, <1>14, <2>2, GoType DEF Publish
  <2>3. QED
    BY <1>14, <2>1, <2>2 DEF Publish
<1>15. CASE Snapshot(w)
  <2>1. [task[w].envelope EXCEPT !.id = clock + 1] \in Envelopes
    BY <1>2 DEF Tasks, Envelopes
  <2>2. {e.id : e \in EnvelopesOf(task[w].stage)} \in SUBSET Nat
    BY <1>2 DEF EnvelopesOf, Envelopes
  <2>3. [task[w] EXCEPT !.phase = "replace",
                        !.envelope = [task[w].envelope EXCEPT !.id = clock + 1],
                        !.seen = {e.id : e \in EnvelopesOf(task[w].stage)}] \in Tasks
    BY <1>2, <2>1, <2>2 DEF Tasks
  <2>4. Task'
    BY <1>2, <1>15, <2>3 DEF Snapshot
  <2>5. QED
    BY <1>2, <1>15, <2>4 DEF Snapshot
<1>16. CASE Replace(w)
  <2>1. PICK left \in SUBSET Nat :
          task' = [task EXCEPT ![w].phase = "upsert", ![w].doomed = left, ![w].seen = {}]
    BY <1>2, <1>16 DEF Replace, Tasks
  <2>2. [task[w] EXCEPT !.phase = "upsert", !.doomed = left, !.seen = {}] \in Tasks
    BY <1>2 DEF Tasks
  <2>3. Task'
    BY <1>2, <2>1, <2>2
  <2>4. QED
    BY <1>2, <1>3, <1>16, <2>3 DEF Replace
<1>17. CASE Upsert(w)
  <2>1. [task[w] EXCEPT !.phase = "commit", !.touched = task[w].envelope.findings] \in Tasks
    BY <1>2 DEF Tasks, Envelopes
  <2>2. QED
    BY <1>2, <1>3, <1>17, <2>1 DEF Upsert
<1>18. CASE StageError(w)
  <2>1. Task'
    BY <1>2, <1>18, DepartType, Leaves DEF StageError
  <2>2. QED
    BY <1>2, <1>18, <2>1, StoreAssumption DEF StageError
<1>19. CASE CleanUp(w)
  BY <1>2, <1>4, <1>19, GoType DEF CleanUp
<1>20. CASE Return(w)
  <2>1. Queue'
    BY <1>2, <1>20 DEF Return, Stages
  <2>2. QED
    BY <1>2, <1>20, <2>1, GoType DEF Return
<1>21. CASE Ack(w)
  BY <1>2, <1>4, <1>21, NoTaskType DEF Ack
<1>22. CASE LoseWorker(w)
  <2>1. Task'
    BY <1>2, <1>22, NoTaskType DEF LoseWorker
  <2>2. pend' = [pend EXCEPT ![task[w].stage] = pend[task[w].stage] + 1]
    BY <1>22 DEF LoseWorker
  <2>3. Queue'
    <3>1. CASE task[w].stage \in Stages
      BY <1>2, <2>2, <3>1
    <3>2. CASE task[w].stage \notin Stages
      BY <1>2, <2>2, <3>2
    <3>3. QED
      BY <3>1, <3>2
  <2>4. QED
    BY <1>2, <1>22, <2>1, <2>3, StoreAssumption DEF LoseWorker
<1>23. CASE Complete(w)
  <2>1. task[w].envelope \in Envelopes /\ task[w].envelope.id \in Nat
    BY <1>2 DEF Tasks, Envelopes
  <2>2. Task'
    BY <1>2, <1>23, DepartType, Leaves DEF Complete
  <2>3. Rows'
    BY <1>2, <1>23 DEF Complete
  <2>4. Evidence' /\ Owner'
    BY <1>2, <1>23, <2>1 DEF Complete, DbOnly
  <2>5. QED
    BY <1>2, <1>23, <2>2, <2>3, <2>4 DEF Complete, DbOnly
<1>24. CASE FetchFails(w)
  <2>1. [task[w] EXCEPT !.phase = "look"] \in Tasks
    BY <1>2 DEF Tasks
  <2>2. Task' /\ Files'
    BY <1>2, <1>24, <2>1 DEF FetchFails, Go
  <2>3. QED
    BY <1>2, <1>24, <2>2, StoreAssumption DEF FetchFails
<1>25. QED
  BY <1>5, <1>6, <1>7, <1>8, <1>9, <1>10, <1>11, <1>12, <1>13, <1>14, <1>15, <1>16, <1>17,
     <1>18, <1>19, <1>20, <1>21, <1>22, <1>23, <1>24 DEF WorkerStep

\* Every variable keeps its type whatever the workers and the uploads do side by side.
THEOREM StoreTyped == Spec => []TypeOK
<1>1. Init => TypeOK
  <2> SUFFICES ASSUME Init PROVE TypeOK
    OBVIOUS
  <2>1. IngestTypeOK
    <3>1. request \in [Uploads -> {"never", "new", "known", "fresh", "save", "writing",
                                   "stored", "done", "refused", "lost"}]
      BY DEF Init, IngestInit
    <3>2. backend \in Backends /\ lost \in 0..MaxLost
      BY IngestAssumption DEF Init, IngestInit
    <3>3. blob \in [Backends -> {"absent", "part", "whole"}]
      BY DEF Init, IngestInit
    <3>4. QED
      BY <3>1, <3>2, <3>3 DEF Init, IngestInit, IngestTypeOK
  <2>2. pend \in [Stages -> Nat] /\ task \in [Workers -> Tasks]
    BY StoreAssumption, NoTaskType DEF Init
  <2>3. given \in [chain: SUBSET Stages, jadx: BOOLEAN, reports: SUBSET FindingIds]
    BY DEF Init, Stages
  <2>4. /\ rows \in [Stages -> {"absent", "running", "ok", "failed", "skipped"}]
        /\ owner \in [Stages \X FindingIds -> Nat]
    BY DEF Init
  <2>5. faults \in 0..MaxFaults /\ past \in {"single", "repeated", "overlapping"}
    BY StoreAssumption DEF Init
  <2>6. QED
    BY <2>1, <2>2, <2>3, <2>4, <2>5 DEF Init, TypeOK
<1>2. TypeOK /\ [Next]_vars => TypeOK'
  <2> SUFFICES ASSUME TypeOK, [Next]_vars PROVE TypeOK'
    OBVIOUS
  <2>1. ASSUME NEW u \in Uploads, UploadStep(u), UNCHANGED storeVars PROVE TypeOK'
    BY <2>1, UploadType DEF TypeOK, storeVars
  <2>2. ASSUME UNCHANGED vars PROVE TypeOK'
    BY <2>2 DEF vars, ingestVars, storeVars, TypeOK, IngestTypeOK
  <2>3. QED
    BY <2>1, <2>2, WorkerType DEF Next, Finished
<1>3. QED
  BY <1>1, <1>2, PTL DEF Spec

-----------------------------------------------------------------------------
(* The bytes of a sample. *)

\* S3, or a local disk on which no request was lost or met another one's file.
Sound == backend = "s3" \/ (lost = 0 /\ ~mixed)

\* A request that goes on to commit found the bytes whole, and one that needs no bytes
\* found the sample.
BytesFirst ==
  /\ Sound /\ (sample \/ \E u \in Uploads : request[u] = "stored") => blob[backend] = "whole"
  /\ \A u \in Uploads : /\ request[u] = "known" => sample
                        /\ request[u] = "writing" => backend = "local"
  /\ blob["s3"] # "part"

LEMMA UploadKeepsBytes ==
  ASSUME IngestTypeOK, BytesFirst, NEW u \in Uploads, UploadStep(u)
  PROVE  BytesFirst'
<1> USE DEF IngestTypeOK, Move, Backends, BytesFirst, Sound
<1>1. CASE Dedup(u)
  BY <1>1 DEF Dedup
<1>2. CASE Probe(u)
  BY <1>2 DEF Probe
<1>3. CASE PutObject(u)
  BY <1>3 DEF PutObject
<1>4. CASE OpenFile(u)
  BY <1>4 DEF OpenFile
<1>5. CASE FillFile(u)
  BY <1>5 DEF FillFile
<1>6. CASE Commit(u)
  BY <1>6 DEF Commit
<1>7. CASE LoseRequest(u)
  BY <1>7 DEF LoseRequest
<1>8. QED
  BY <1>1, <1>2, <1>3, <1>4, <1>5, <1>6, <1>7 DEF UploadStep

\* services/upload.py, storage/local.py, storage/s3.py: no sample row is committed without
\* its bytes, for any number of requests with the same bytes in any order.
THEOREM SamplesHaveBytes == Spec => []SampleHasBytes
<1>1. Init => BytesFirst
  <2> SUFFICES ASSUME Init PROVE BytesFirst
    OBVIOUS
  <2>1. \A u \in Uploads : request[u] \in {"never", "new"}
    BY DEF Init, IngestInit
  <2>2. QED
    BY <2>1 DEF Init, IngestInit, BytesFirst, Backends
<1>2. TypeOK /\ BytesFirst /\ [Next]_vars => BytesFirst'
  <2> SUFFICES ASSUME TypeOK, BytesFirst, [Next]_vars PROVE BytesFirst'
    OBVIOUS
  <2>1. ASSUME UNCHANGED ingestVars PROVE BytesFirst'
    BY <2>1 DEF ingestVars, BytesFirst, Sound
  <2>2. QED
    BY <2>1, UploadKeepsBytes, WorkersOnlyRead DEF TypeOK, Next, Finished, vars
<1>3. BytesFirst => SampleHasBytes
  BY DEF BytesFirst, Sound, SampleHasBytes
<1>4. QED
  BY <1>1, <1>2, <1>3, StoreTyped, PTL DEF Spec

-----------------------------------------------------------------------------
(* Envelopes and the findings they own. *)

\* A transaction is open on the envelopes of its stage ...
Open(w) == task[w].phase \in {"replace", "upsert", "commit"}

\* ... and these are the ones it is going to delete, or has deleted already.
Condemned(w) == IF task[w].phase = "replace" THEN task[w].seen ELSE task[w].doomed

\* Ids are given once: no envelope, and no list of envelopes to delete, has the id of one
\* that is still being written.
Ids ==
  /\ \A e \in evidence : e.id \in 1..clock /\ e.stage \in Stages /\ e.findings \subseteq FindingIds
  /\ \A w \in Workers : Open(w) =>
       LET x == task[w].envelope.id
       IN  /\ x \in 1..clock /\ \A e \in evidence : e.id # x
           /\ Condemned(w) \subseteq 1..clock
           /\ \A v \in Workers : Open(v) => x \notin Condemned(v)
                                            /\ (v # w => task[v].envelope.id # x)

\* A finding belongs to the envelope that was committed last of those that report it: a
\* transaction that takes the owner takes every other envelope with that finding too.
OwnerIsLast ==
  \A w \in Workers : Open(w) =>
    \A e \in evidence : \A f \in e.findings :
      e.stage = task[w].stage /\ owner[<<e.stage, f>>] \in Condemned(w) => e.id \in Condemned(w)

Writing ==
  \A w \in Workers :
    /\ task[w].phase \in {"publish", "snap"} \/ Open(w) =>
         task[w].envelope.stage = task[w].stage /\ task[w].stage \in Stages
    /\ task[w].phase = "commit" => task[w].touched = task[w].envelope.findings

\* One delivery of a stage after the other: one at a time, which deletes all there is.
OneByOne ==
  /\ \A v, w \in Workers : v # w /\ task[v].stage = task[w].stage => task[v].stage = "none"
  /\ \A w \in Workers : Open(w) =>
       \A e \in evidence : e.stage = task[w].stage => e.id \in Condemned(w)
  /\ \A d, e \in evidence : d.stage = e.stage => d = e
  /\ \A s \in Stages, f \in FindingIds : owner[<<s, f>>] # 0 =>
       \E e \in EnvelopesOf(s) : f \in e.findings /\ e.id = owner[<<s, f>>]

Ledger == Ids /\ OwnerIsLast /\ Writing /\ NothingLost /\ (past # "overlapping" => OneByOne)

\* Steps that open no transaction and write nothing.
LEMMA Elsewhere ==
  ASSUME Ledger, task \in [Workers -> Tasks], NEW w \in Workers, NEW t \in Tasks,
         task' = [task EXCEPT ![w] = t], UNCHANGED <<evidence, owner, clock>>,
         t.phase \notin {"replace", "upsert", "commit"},
         t.phase \in {"publish", "snap"} => t.envelope.stage = t.stage /\ t.stage \in Stages,
         past' # "overlapping" =>
           /\ past # "overlapping"
           /\ \/ t.stage \in {"none", task[w].stage}
              \/ \A v \in Workers : task[v].stage # t.stage
  PROVE  Ledger'
<1>1. task'[w] = t /\ \A v \in Workers : v # w => task'[v] = task[v]
  OBVIOUS
<1>2. \A v \in Workers : Open(v)' => v # w /\ Open(v) /\ Condemned(v)' = Condemned(v)
  BY <1>1 DEF Open, Condemned
<1>3. Ids' /\ OwnerIsLast'
  BY <1>1, <1>2 DEF Ledger, Ids, OwnerIsLast
<1>4. Writing'
  BY <1>1, <1>2 DEF Ledger, Writing, Open
<1>5. NothingLost'
  BY DEF Ledger, NothingLost
<1>6. ASSUME past' # "overlapping" PROVE OneByOne'
  <2>1. OneByOne
    BY <1>6 DEF Ledger
  <2>2. \A u, v \in Workers : u # v /\ task'[u].stage = task'[v].stage => task'[u].stage = "none"
    BY <1>1, <1>6, <2>1 DEF OneByOne
  <2>3. QED
    BY <1>1, <1>2, <2>1, <2>2 DEF OneByOne, EnvelopesOf
<1>7. QED
  BY <1>3, <1>4, <1>5, <1>6 DEF Ledger

LEMMA SnapshotLedger ==
  ASSUME TypeOK, Ledger, NEW w \in Workers, Snapshot(w)
  PROVE  Ledger'
<1> DEFINE all == {e.id : e \in EnvelopesOf(task[w].stage)}
<1>1. /\ task'[w].phase = "replace" /\ task'[w].seen = all
      /\ task'[w].envelope.id = clock + 1 /\ task'[w].stage = task[w].stage
      /\ task'[w].envelope.stage = task[w].envelope.stage
      /\ \A v \in Workers : v # w => task'[v] = task[v]
  BY DEF Snapshot, TypeOK, Tasks, Envelopes
<1>2. UNCHANGED <<evidence, owner, past>> /\ clock' = clock + 1 /\ clock \in Nat /\ task[w].phase = "snap"
  BY DEF Snapshot, At, TypeOK
<1>3. Open(w)' /\ ~Open(w) /\ Condemned(w)' = all
  BY <1>1, <1>2 DEF Open, Condemned
<1>4. \A v \in Workers : v # w => (Open(v)' <=> Open(v)) /\ Condemned(v)' = Condemned(v)
  BY <1>1 DEF Open, Condemned
<1>5. all \subseteq 1..clock
  BY DEF EnvelopesOf, Ledger, Ids
<1>6. Ids'
  <2>1. \A e \in evidence : e.id \in 1..clock' /\ e.stage \in Stages /\ e.findings \subseteq FindingIds
    BY <1>2 DEF Ledger, Ids
  <2>2. \A v \in Workers : Open(v)' => Condemned(v)' \subseteq 1..clock
    BY <1>3, <1>4, <1>5 DEF Ledger, Ids
  <2>3. \A v \in Workers : Open(v)' /\ v # w =>
          /\ task'[v].envelope.id = task[v].envelope.id
          /\ task[v].envelope.id \in 1..clock /\ task[v].envelope.id \notin all
          /\ \A e \in evidence : e.id # task[v].envelope.id
          /\ \A u \in Workers : Open(u)' /\ u # w =>
               task[v].envelope.id \notin Condemned(u)'
               /\ (u # v => task'[u].envelope.id # task[v].envelope.id)
    BY <1>1, <1>4 DEF Ledger, Ids, EnvelopesOf
  <2>4. clock + 1 \in 1..clock' /\ clock + 1 \notin 1..clock /\ 1..clock \subseteq 1..clock'
    BY <1>2
  <2> HIDE DEF all
  <2>5. ASSUME NEW v \in Workers, Open(v)'
        PROVE  LET x == task'[v].envelope.id
               IN  /\ x \in 1..clock' /\ \A e \in evidence : e.id # x
                   /\ Condemned(v)' \subseteq 1..clock'
                   /\ \A u \in Workers : Open(u)' => x \notin Condemned(u)'
                                        /\ (u # v => task'[u].envelope.id # x)
    <3>1. CASE v = w
      <4>1. \A e \in evidence : e.id # clock + 1
        BY <2>4 DEF Ledger, Ids
      <4>2. \A u \in Workers : Open(u)' =>
              clock + 1 \notin Condemned(u)' /\ (u # w => task'[u].envelope.id # clock + 1)
        BY <2>2, <2>3, <2>4
      <4>3. Condemned(w)' \subseteq 1..clock'
        BY <1>3, <2>2, <2>4
      <4>4. QED
        BY <1>1, <2>4, <3>1, <4>1, <4>2, <4>3
    <3>2. CASE v # w
      BY <1>1, <1>3, <2>2, <2>3, <2>4, <2>5, <3>2
    <3>3. QED
      BY <3>1, <3>2
  <2>6. QED
    BY <1>2, <2>1, <2>5 DEF Ids
<1>7. OwnerIsLast'
  <2>1. \A e \in evidence : e.stage = task[w].stage => e.id \in all
    BY DEF EnvelopesOf
  <2>2. QED
    BY <1>1, <1>2, <1>3, <1>4, <2>1 DEF Ledger, OwnerIsLast
<1>8. Writing'
  BY <1>1, <1>2, <1>4 DEF Ledger, Writing, Open
<1>9. NothingLost'
  BY <1>2 DEF Ledger, NothingLost
<1>10. ASSUME past # "overlapping" PROVE OneByOne'
  <2>1. OneByOne
    BY <1>10 DEF Ledger
  <2>2. \A e \in evidence : e.stage = task[w].stage => e.id \in all
    BY DEF EnvelopesOf
  <2>3. \A v \in Workers : task'[v].stage = task[v].stage
    BY <1>1
  <2>4. QED
    BY <1>1, <1>2, <1>3, <1>4, <2>1, <2>2, <2>3 DEF OneByOne, EnvelopesOf
<1>11. QED
  BY <1>2, <1>6, <1>7, <1>8, <1>9, <1>10 DEF Ledger

\* Between the delete and the commit the transaction only narrows what it condemns to the
\* envelopes that are still there.
LEMMA InsideLedger ==
  ASSUME TypeOK, Ledger, NEW w \in Workers, Replace(w) \/ Upsert(w)
  PROVE  Ledger'
<1>1. /\ UNCHANGED <<evidence, owner, clock, past>> /\ Open(w)
      /\ task'[w].stage = task[w].stage /\ task'[w].envelope = task[w].envelope
      /\ \A v \in Workers : v # w => task'[v] = task[v]
      /\ task'[w].phase \in {"upsert", "commit"}
      /\ task'[w].phase = "commit" => task'[w].touched = task[w].envelope.findings
  <2>1. CASE Replace(w)
    BY <2>1 DEF Replace, DbOnly, TypeOK, Tasks, At, Open
  <2>2. CASE Upsert(w)
    BY <2>2 DEF Upsert, DbOnly, TypeOK, Tasks, At, Open
  <2>3. QED
    BY <2>1, <2>2
<1>2. /\ Condemned(w)' \subseteq Condemned(w)
      /\ \A e \in evidence : e.stage = task[w].stage /\ e.id \in Condemned(w) => e.id \in Condemned(w)'
  <2>1. CASE Replace(w)
    <3>1. /\ task[w].phase = "replace" /\ task'[w].phase = "upsert"
          /\ task'[w].doomed = task[w].seen \cap {e.id : e \in EnvelopesOf(task[w].stage)}
      BY <2>1 DEF Replace, TypeOK, Tasks, At
    <3>2. QED
      BY <3>1 DEF Condemned, EnvelopesOf
  <2>2. CASE Upsert(w)
    BY <2>2 DEF Upsert, TypeOK, Tasks, At, Condemned
  <2>3. QED
    BY <2>1, <2>2
<1>3. \A v \in Workers : /\ Open(v)' <=> Open(v)
                         /\ v # w => Condemned(v)' = Condemned(v)
                         /\ Condemned(v)' \subseteq Condemned(v)
                         /\ task'[v].stage = task[v].stage /\ task'[v].envelope = task[v].envelope
  BY <1>1, <1>2 DEF Open, Condemned
<1>4. Ids'
  BY <1>1, <1>3 DEF Ledger, Ids
<1>5. OwnerIsLast'
  BY <1>1, <1>2, <1>3 DEF Ledger, OwnerIsLast
<1>6. Writing'
  BY <1>1, <1>3 DEF Ledger, Writing, Open
<1>7. NothingLost'
  BY <1>1 DEF Ledger, NothingLost
<1>8. ASSUME past # "overlapping" PROVE OneByOne'
  BY <1>1, <1>2, <1>3, <1>8 DEF Ledger, OneByOne, EnvelopesOf
<1>9. QED
  BY <1>1, <1>4, <1>5, <1>6, <1>7, <1>8 DEF Ledger

LEMMA CompleteLedger ==
  ASSUME TypeOK, Ledger, NEW w \in Workers, Complete(w)
  PROVE  Ledger'
<1> DEFINE s == task[w].stage
           new == task[w].envelope
           gone == task[w].doomed
<1>1. /\ evidence' = {e \in evidence : e.stage # s \/ e.id \notin gone} \cup {new}
      /\ UNCHANGED <<clock, past>>
      /\ task'[w].phase \in {"clean", "return"} /\ task'[w].stage = s
      /\ \A v \in Workers : v # w => task'[v] = task[v]
  BY Leaves, NoTaskType DEF Complete, DbOnly, Depart, TypeOK, Tasks
<1>2. \A t \in Stages, f \in FindingIds :
        owner'[<<t, f>>] = IF t = s /\ f \in new.findings THEN new.id
                       ELSE IF t = s /\ owner[<<t, f>>] \in gone THEN 0 ELSE owner[<<t, f>>]
  BY DEF Complete, Ledger, Writing, At
<1>3. /\ Open(w) /\ Condemned(w) = gone /\ new.stage = s /\ s \in Stages
      /\ new.id \in 1..clock /\ new.findings \subseteq FindingIds /\ clock \in Nat
  BY DEF Complete, At, Open, Condemned, Ledger, Writing, Ids, TypeOK, Tasks, Envelopes
<1>4. \A v \in Workers : Open(v)' => v # w /\ Open(v) /\ Condemned(v)' = Condemned(v)
                                     /\ task'[v] = task[v]
  BY <1>1 DEF Open, Condemned
<1>5. Ids'
  <2>1. \A e \in evidence' : e \in evidence \/ e = new
    BY <1>1
  <2>2. QED
    BY <1>1, <1>3, <1>4, <2>1 DEF Ledger, Ids
<1>6. OwnerIsLast'
  <2> SUFFICES ASSUME NEW v \in Workers, Open(v)', NEW e \in evidence', NEW f \in e.findings,
                      e.stage = task'[v].stage, owner'[<<e.stage, f>>] \in Condemned(v)'
               PROVE  e.id \in Condemned(v)'
    BY DEF OwnerIsLast
  <2>1. /\ v # w /\ Open(v) /\ Condemned(v)' = Condemned(v) /\ task'[v] = task[v]
        /\ new.id \notin Condemned(v) /\ 0 \notin Condemned(v)
    BY <1>3, <1>4 DEF Ledger, Ids
  <2>2. e.stage \in Stages /\ f \in FindingIds
    BY <1>1, <1>3 DEF Ledger, Ids
  <2>3. ~(e.stage = s /\ f \in new.findings) /\ owner[<<e.stage, f>>] \in Condemned(v)
    BY <1>2, <2>1, <2>2
  <2>4. e \in evidence
    BY <1>1, <1>3, <2>3
  <2>5. QED
    BY <2>1, <2>3, <2>4 DEF Ledger, OwnerIsLast
<1>7. Writing'
  BY <1>1, <1>4 DEF Ledger, Writing, Open
<1>8. NothingLost'
  <2> SUFFICES ASSUME NEW e \in evidence', NEW f \in e.findings PROVE owner'[<<e.stage, f>>] # 0
    BY DEF NothingLost
  <2>1. e.stage \in Stages /\ f \in FindingIds
    BY <1>1, <1>3 DEF Ledger, Ids
  <2>2. CASE e.stage = s /\ f \in new.findings
    BY <1>2, <1>3, <2>1, <2>2
  <2>3. CASE ~(e.stage = s /\ f \in new.findings)
    <3>1. e \in evidence /\ ~(e.stage = s /\ e.id \in gone)
      BY <1>1, <1>3, <2>3
    <3>2. owner[<<e.stage, f>>] # 0
      BY <3>1 DEF Ledger, NothingLost
    <3>3. ~(e.stage = s /\ owner[<<e.stage, f>>] \in gone)
      BY <1>3, <3>1 DEF Ledger, OwnerIsLast
    <3>4. QED
      BY <1>2, <2>1, <2>3, <3>2, <3>3
  <2>4. QED
    BY <2>2, <2>3
<1>9. ASSUME past # "overlapping" PROVE OneByOne'
  <2>1. OneByOne
    BY <1>9 DEF Ledger
  <2>2. \A e \in evidence : e.stage = s => e.id \in gone
    BY <1>3, <2>1 DEF OneByOne
  <2>3. \A e \in evidence' : e = new \/ (e \in evidence /\ e.stage # s)
    BY <1>1, <2>2
  <2>4. \A v \in Workers : task'[v].stage = task[v].stage
    BY <1>1
  <2>5. \A v \in Workers : Open(v)' => task[v].stage # s
    BY <1>3, <1>4, <2>1 DEF OneByOne, Stages
  <2>6. \A v \in Workers : Open(v)' =>
          \A e \in evidence' : e.stage = task'[v].stage => e.id \in Condemned(v)'
    BY <1>3, <1>4, <2>1, <2>3, <2>5 DEF OneByOne
  <2>7. \A d, e \in evidence' : d.stage = e.stage => d = e
    BY <1>3, <2>1, <2>3 DEF OneByOne
  <2>8. ASSUME NEW t \in Stages, NEW f \in FindingIds, owner'[<<t, f>>] # 0
        PROVE  \E e \in evidence' : e.stage = t /\ f \in e.findings /\ e.id = owner'[<<t, f>>]
    <3>1. CASE t = s /\ f \in new.findings
      BY <1>1, <1>2, <1>3, <3>1
    <3>2. CASE ~(t = s /\ f \in new.findings)
      <4>1. owner'[<<t, f>>] = owner[<<t, f>>] /\ ~(t = s /\ owner[<<t, f>>] \in gone)
        BY <1>2, <2>8, <3>2
      <4>2. PICK e \in evidence : e.stage = t /\ f \in e.findings /\ e.id = owner[<<t, f>>]
        BY <2>1, <2>8, <4>1 DEF OneByOne, EnvelopesOf
      <4>3. e \in evidence'
        BY <1>1, <2>2, <4>1, <4>2
      <4>4. QED
        BY <4>1, <4>2, <4>3
    <3>3. QED
      BY <3>1, <3>2
  <2>9. QED
    BY <2>1, <2>4, <2>6, <2>7, <2>8 DEF OneByOne, EnvelopesOf
<1>10. QED
  BY <1>1, <1>5, <1>6, <1>7, <1>8, <1>9 DEF Ledger

LEMMA WorkerKeepsLedger ==
  ASSUME TypeOK, Ledger, NEW w \in Workers, WorkerStep(w)
  PROVE  Ledger'
<1> DEFINE t == task'[w]
           Same == UNCHANGED <<evidence, owner, clock>>
<1>1. (task' \in [Workers -> Tasks]) /\ t \in Tasks /\ task \in [Workers -> Tasks]
  BY WorkerType DEF TypeOK
<1>2. CASE Snapshot(w) \/ Replace(w) \/ Upsert(w) \/ Complete(w)
  BY <1>2, SnapshotLedger, InsideLedger, CompleteLedger
<1>3. ASSUME NEW s \in Stages, Take(w, s) PROVE Ledger'
  <2>1. task' = [task EXCEPT ![w] = t] /\ t.stage = s /\ t.phase = "read" /\ Same
    BY <1>1, <1>3, NoTaskType DEF Take, Tasks
  <2>2. past' # "overlapping" => past # "overlapping" /\ \A v \in Workers : task[v].stage # t.stage
    BY <1>3, <2>1 DEF Take
  <2>3. QED
    BY <1>1, <2>1, <2>2, Elsewhere
<1>4. ASSUME task' = [task EXCEPT ![w] = t], Same, past' = past,
             t.phase \notin {"replace", "upsert", "commit"}, t.stage \in {"none", task[w].stage},
             t.phase \in {"publish", "snap"} => t.envelope.stage = t.stage /\ t.stage \in Stages
      PROVE  Ledger'
  BY <1>1, <1>4, Elsewhere
<1>5. ASSUME NEW next, task' = [task EXCEPT ![w] = [task[w] EXCEPT !.phase = next]], Same, past' = past,
             next \in {"look", "run", "settle", "return", "ack"}
      PROVE  Ledger'
  BY <1>1, <1>4, <1>5 DEF Tasks
<1>6. ASSUME NEW next \in {"clean", "return"}, Depart(w, next), Same, past' = past PROVE Ledger'
  BY <1>1, <1>4, <1>6, NoTaskType DEF Depart, Tasks
<1>7. CASE Materialize(w) \/ Resolve(w) \/ LookUp(w)
  <2>1. /\ task' = [task EXCEPT ![w] = t] /\ Same /\ past' = past
        /\ t.phase \in {"look", "claim"} /\ t.stage = task[w].stage
    <3>1. CASE Materialize(w)
      <4>1. \E goal : task' = [task EXCEPT ![w] = [task[w] EXCEPT !.phase = "look", !.goal = goal]]
        BY <3>1 DEF Materialize
      <4>2. Same /\ past' = past
        BY <3>1 DEF Materialize, FilesOnly
      <4>3. QED
        BY <1>1, <4>1, <4>2 DEF Tasks
    <3>2. CASE Resolve(w)
      <4>1. \E goal, source :
              task' = [task EXCEPT ![w] = [task[w] EXCEPT !.phase = "look", !.goal = goal,
                                                          !.source = source]]
        BY <3>2, ResolveShape
      <4>2. Same /\ past' = past
        BY <3>2 DEF Resolve, FilesOnly
      <4>3. QED
        BY <1>1, <4>1, <4>2 DEF Tasks
    <3>3. CASE LookUp(w)
      <4>1. \E absent : task' = [task EXCEPT ![w] = [task[w] EXCEPT !.phase = "claim",
                                                                   !.absent = absent]]
        BY <3>3 DEF LookUp
      <4>2. Same /\ past' = past
        BY <3>3 DEF LookUp, DbOnly
      <4>3. QED
        BY <1>1, <4>1, <4>2 DEF Tasks
    <3>4. QED
      BY <1>7, <3>1, <3>2, <3>3
  <2>2. QED
    BY <1>4, <2>1
<1>8. CASE Claim(w)
  BY <1>5, <1>6, <1>8, Leaves DEF Claim, DbOnly, Go
<1>9. CASE Settle(w)
  BY <1>6, <1>9, Leaves DEF Settle, DbOnly
<1>10. CASE AnalyzeStatic(w) \/ AnalyzeCode(w)
  <2>1. PICK found, info : Report(w, found, info)
    BY <1>10 DEF AnalyzeStatic, AnalyzeCode
  <2>2. task[w].stage \in Stages /\ Same /\ past' = past
    BY <1>10 DEF AnalyzeStatic, AnalyzeCode, FilesOnly, Stages
  <2>3. /\ task' = [task EXCEPT ![w] = t] /\ t.phase \in {"publish", "snap"}
        /\ t.stage = task[w].stage /\ t.envelope.stage = task[w].stage
    <3>1. PICK next \in {"publish", "snap"} :
            task' = [task EXCEPT ![w] = [task[w] EXCEPT !.phase = next, !.source = "none",
                       !.envelope = Envelope(0, task[w].stage, HostOf[w], found, info)]]
      BY <2>1 DEF Report
    <3>2. QED
      BY <1>1, <3>1 DEF Envelope, Tasks
  <2>4. QED
    BY <1>4, <2>2, <2>3
<1>11. CASE EngineRaises(w)
  BY <1>5, <1>11 DEF EngineRaises, FilesOnly, Go
<1>12. CASE Publish(w)
  <2>1. task[w].envelope.stage = task[w].stage /\ task[w].stage \in Stages
    BY <1>12 DEF Publish, At, Ledger, Writing
  <2>2. /\ task' = [task EXCEPT ![w] = t] /\ t.phase = "snap" /\ t.stage = task[w].stage
        /\ t.envelope.stage = task[w].envelope.stage
    BY <1>1, <1>12 DEF Publish, Go, Tasks, Envelopes
  <2>3. QED
    BY <1>4, <1>12, <2>1, <2>2 DEF Publish, FilesOnly
<1>13. CASE CleanUp(w) \/ Return(w)
  BY <1>5, <1>13 DEF CleanUp, Return, FilesOnly, Go
<1>14. CASE Ack(w) \/ LoseWorker(w)
  <2>1. task' = [task EXCEPT ![w] = t] /\ t = NoTask /\ Same /\ past' = past
    BY <1>1, <1>14 DEF Ack, LoseWorker, FilesOnly
  <2>2. QED
    BY <1>4, <2>1 DEF NoTask
<1>15. CASE StageError(w)
  BY <1>6, <1>15, Leaves DEF StageError
<1>16. CASE FetchFails(w)
  BY <1>5, <1>16 DEF FetchFails, Go
<1>17. QED
  BY <1>2, <1>3, <1>7, <1>8, <1>9, <1>10, <1>11, <1>12, <1>13, <1>14, <1>15, <1>16
     DEF WorkerStep

THEOREM LedgerHolds == Spec => []Ledger
<1>1. Init => Ledger
  BY DEF Init, Ledger, Ids, OwnerIsLast, Writing, NothingLost, OneByOne, EnvelopesOf, Open, NoTask
<1>2. TypeOK /\ Ledger /\ [Next]_vars => Ledger'
  <2> SUFFICES ASSUME TypeOK, Ledger, [Next]_vars PROVE Ledger'
    OBVIOUS
  <2>1. ASSUME UNCHANGED storeVars PROVE Ledger'
    BY <2>1 DEF storeVars, Ledger, Ids, OwnerIsLast, Writing, NothingLost, OneByOne,
                EnvelopesOf, Open, Condemned
  <2>2. QED
    BY <2>1, WorkerKeepsLedger DEF Next, Finished, vars
<1>3. QED
  BY <1>1, <1>2, StoreTyped, PTL DEF Spec

\* repositories/evidence.py, repositories/findings.py: however deliveries of one stage
\* interleave their deletes, upserts and commits, a finding of an envelope in the table has
\* a row.  It takes neither a lock nor the order of the upserts, only that an upsert takes
\* the row over.
THEOREM NoFindingLost == Spec => []NothingLost
<1>1. Ledger => NothingLost
  BY DEF Ledger
<1>2. QED
  BY <1>1, LedgerHolds, PTL

\* repositories/evidence.py: until deliveries of one stage overlap, a retried stage leaves
\* one envelope, and no row of an earlier one.
THEOREM RetriesReplace == Spec => []NoStaleRows
<1>1. TypeOK /\ Ledger => NoStaleRows
  <2> SUFFICES ASSUME TypeOK, Ledger, past # "overlapping", NEW s \in Stages
               PROVE  /\ Cardinality(EnvelopesOf(s)) <= 1
                      /\ \A f \in FindingIds :
                           owner[<<s, f>>] # 0
                             <=> \E e \in EnvelopesOf(s) : f \in e.findings /\ e.id = owner[<<s, f>>]
    BY DEF NoStaleRows
  <2>1. OneByOne
    BY DEF Ledger
  <2>2. Cardinality(EnvelopesOf(s)) <= 1
    <3>1. CASE EnvelopesOf(s) = {}
      BY <3>1, FS_EmptySet
    <3>2. CASE EnvelopesOf(s) # {}
      <4>1. PICK e \in EnvelopesOf(s) : TRUE
        BY <3>2
      <4>2. EnvelopesOf(s) = {e}
        BY <2>1, <4>1 DEF OneByOne, EnvelopesOf
      <4>3. Cardinality({e}) = 1
        BY FS_Singleton
      <4>4. QED
        BY <4>2, <4>3
    <3>3. QED
      BY <3>1, <3>2
  <2>3. \A e \in EnvelopesOf(s) : e.id # 0
    BY DEF EnvelopesOf, Ledger, Ids
  <2>4. QED
    BY <2>1, <2>2, <2>3 DEF OneByOne
<1>2. QED
  BY <1>1, LedgerHolds, StoreTyped, PTL

-----------------------------------------------------------------------------
(* The tree that static leaves to code intel. *)

Calm == faults = 0 /\ past = "single"

Early == {"read", "look", "claim"}

Holding == {"publish", "snap", "replace", "upsert", "commit"}

Gone == {"clean", "return", "ack"}

Settled == {"ok", "failed", "skipped"}

\* The row of a stage says how far its one delivery is.
RowsFollow ==
  /\ \A v, w \in Workers : v # w /\ task[v].stage = task[w].stage => task[v].stage = "none"
  /\ \A w \in Workers :
       /\ task[w].stage = "none" <=> task[w].phase = "idle"
       /\ task[w].phase \in Early => rows[task[w].stage] = "absent"
       /\ task[w].phase \in Holding \cup {"run", "settle"} => rows[task[w].stage] = "running"
       /\ task[w].phase \in Gone => rows[task[w].stage] \in Settled
       /\ task[w].phase = "clean" => task[w].stage = "code_intel"
       /\ task[w].phase = "publish" => task[w].stage = "static"
  /\ \A e \in evidence : rows[e.stage] = "ok"
  /\ \A d, e \in evidence : d.stage = e.stage => d = e

CodeBegun ==
  \/ pend["code_intel"] > 0 \/ rows["code_intel"] # "absent"
  \/ \E w \in Workers : task[w].stage = "code_intel"

\* Code intel is heard of only once static is done.
StaticFirst ==
  CodeBegun => /\ rows["static"] \in Settled
               /\ \A w \in Workers : task[w].stage = "static" => task[w].phase = "ack"

\* What an envelope names is there: the tree on the host that wrote it, the archive in
\* storage.
Backed(e) == ("dir" \in e.info => e.host \in tree) /\ ("key" \in e.info => archive)

OfStatic(w) == task[w].stage = "static" /\ task[w].phase \in Holding

\* Until code intel has begun to read it, a tree and the static envelope go together.
TreesKept ==
  /\ \A h \in tree :
       \/ \E e \in EnvelopesOf("static") : "dir" \in e.info /\ e.host = h
       \/ \E w \in Workers :
            OfStatic(w) /\ "dir" \in task[w].envelope.info /\ task[w].envelope.host = h
  /\ rows["code_intel"] = "absent" =>
       /\ \A e \in EnvelopesOf("static") : Backed(e)
       /\ \A w \in Workers : OfStatic(w) => Backed(task[w].envelope)

\* What static leaves to a code-intel stage on this host.
Reaches(h) ==
  \E d \in EnvelopesOf("static") : "key" \in d.info \/ ("dir" \in d.info /\ d.host = h)

\* From the moment it has resolved the tree, code intel is as deep as static allows.
AsDeep ==
  /\ \A w \in Workers : task[w].stage = "code_intel" =>
       /\ task[w].phase \in {"look", "claim", "run"} =>
            /\ task[w].source # "none" <=> Reaches(HostOf[w])
            /\ task[w].source = "dir" => HostOf[w] \in tree
            /\ task[w].source = "copy" => HostOf[w] \in unpacked
       /\ task[w].phase \in Holding =>
            /\ task[w].envelope.host = HostOf[w]
            /\ "tree" \in task[w].envelope.info <=> Reaches(HostOf[w])
  /\ \A e \in EnvelopesOf("code_intel") : "tree" \in e.info <=> Reaches(e.host)

Handover == RowsFollow /\ StaticFirst /\ TreesKept /\ AsDeep

\* A delivery that goes on within one part of its stage run.
LEMMA GoesOn ==
  ASSUME task \in [Workers -> Tasks], NEW w \in Workers, NEW t \in Tasks,
         task' = [task EXCEPT ![w] = t], t.stage = task[w].stage,
         UNCHANGED <<rows, evidence, pend>>, RowsFollow, StaticFirst, task[w].phase # "ack",
         \/ {t.phase, task[w].phase} \subseteq Early
         \/ /\ {t.phase, task[w].phase} \subseteq Holding \cup {"run", "settle"}
            /\ t.phase = "publish" => t.stage = "static"
         \/ {t.phase, task[w].phase} \subseteq Gone /\ t.phase # "clean"
  PROVE  RowsFollow' /\ StaticFirst'
<1>1. task'[w] = t /\ \A v \in Workers : v # w => task'[v] = task[v]
  OBVIOUS
<1>2. \A v \in Workers : task'[v].stage = task[v].stage
  BY <1>1
<1>3. RowsFollow'
  <2>1. t.phase # "idle" /\ task[w].phase # "idle"
    BY DEF Early, Holding, Gone
  <2>2. /\ t.phase \in Early => rows[t.stage] = "absent"
        /\ t.phase \in Holding \cup {"run", "settle"} => rows[t.stage] = "running"
        /\ t.phase \in Gone => rows[t.stage] \in Settled
        /\ t.phase = "clean" => t.stage = "code_intel"
        /\ t.phase = "publish" => t.stage = "static"
    BY DEF RowsFollow, Early, Holding, Gone
  <2>3. QED
    BY <1>1, <1>2, <2>1, <2>2 DEF RowsFollow
<1>4. StaticFirst'
  <2>1. CodeBegun' => CodeBegun
    BY <1>2 DEF CodeBegun
  <2>2. QED
    BY <1>1, <1>2, <2>1 DEF StaticFirst
<1>5. QED
  BY <1>3, <1>4

\* A step that moves no tree: the envelope in hand keeps its tree, and code intel its
\* source.
LEMMA TreeStays ==
  ASSUME task \in [Workers -> Tasks], NEW w \in Workers, NEW t \in Tasks,
         task' = [task EXCEPT ![w] = t], UNCHANGED <<evidence, tree, unpacked, archive>>,
         rows'["code_intel"] = "absent" => rows["code_intel"] = "absent",
         \/ t.phase \notin Holding /\ task[w].phase \notin Holding
         \/ /\ t.phase \in Holding /\ task[w].phase \in Holding /\ t.stage = task[w].stage
            /\ t.envelope.info = task[w].envelope.info /\ t.envelope.host = task[w].envelope.host,
         t.stage = "code_intel" /\ t.phase \in {"look", "claim", "run"} =>
           /\ task[w].stage = "code_intel" /\ task[w].phase \in {"look", "claim", "run"}
           /\ t.source = task[w].source,
         TreesKept, AsDeep
  PROVE  TreesKept' /\ AsDeep'
<1>1. task'[w] = t /\ \A v \in Workers : v # w => task'[v] = task[v]
  OBVIOUS
<1>2. \A v \in Workers : /\ OfStatic(v)' <=> OfStatic(v)
                         /\ OfStatic(v) => /\ task'[v].envelope.info = task[v].envelope.info
                                           /\ task'[v].envelope.host = task[v].envelope.host
  BY <1>1 DEF OfStatic
<1>3. /\ \A h : Reaches(h)' <=> Reaches(h)
      /\ \A s : EnvelopesOf(s)' = EnvelopesOf(s)
  BY DEF Reaches, EnvelopesOf
<1>4. TreesKept'
  BY <1>2, <1>3 DEF TreesKept, Backed
<1>5. AsDeep'
  BY <1>1, <1>3 DEF AsDeep, Holding
<1>6. QED
  BY <1>4, <1>5

LEMMA TakeHands ==
  ASSUME TypeOK, Handover, NEW w \in Workers, NEW s \in Stages, Take(w, s), past' = "single"
  PROVE  Handover'
<1> DEFINE t == task'[w]
<1>1. /\ task' = [task EXCEPT ![w] = t] /\ t \in Tasks /\ t.stage = s /\ t.phase = "read"
      /\ task \in [Workers -> Tasks] /\ task[w].phase = "idle"
      /\ \A v \in Workers : v # w => task'[v] = task[v]
  BY NoTaskType DEF Take, TypeOK, Tasks, At
<1>2. /\ rows[s] = "absent" /\ \A v \in Workers : task[v].stage # s
      /\ pend[s] > 0 /\ pend' = [pend EXCEPT ![s] = pend[s] - 1]
      /\ UNCHANGED <<rows, evidence, tree, unpacked, archive>>
  BY DEF Take
<1> HIDE DEF t
<1>3. RowsFollow'
  BY <1>1, <1>2 DEF Handover, RowsFollow, Early, Holding, Gone, Stages
<1>4. StaticFirst'
  <2>1. CodeBegun' => CodeBegun
    BY <1>1, <1>2 DEF CodeBegun, TypeOK, Stages
  <2>2. CodeBegun => s # "static"
    BY <1>2 DEF Handover, StaticFirst, Settled
  <2>3. QED
    BY <1>1, <1>2, <2>1, <2>2 DEF Handover, StaticFirst
<1>5. TreesKept' /\ AsDeep'
  BY <1>1, <1>2, TreeStays DEF Handover, Holding
<1>6. QED
  BY <1>3, <1>4, <1>5 DEF Handover

\* Steps within one part of a stage run that touch neither rows nor trees.
LEMMA QuietHands ==
  ASSUME TypeOK, Handover, NEW w \in Workers,
         \/ Materialize(w) \/ LookUp(w) \/ Snapshot(w) \/ Replace(w) \/ Upsert(w)
  PROVE  Handover'
<1> DEFINE t == task'[w]
<1>1. task \in [Workers -> Tasks] /\ task[w] \in Tasks /\ t \in Tasks
  BY WorkerType DEF TypeOK, WorkerStep
<1>2. /\ task' = [task EXCEPT ![w] = t] /\ t.stage = task[w].stage
      /\ UNCHANGED <<rows, evidence, pend, tree, unpacked, archive>>
      /\ t.envelope.info = task[w].envelope.info /\ t.envelope.host = task[w].envelope.host
      /\ \/ t.phase = "look" /\ task[w].phase = "read" /\ t.stage = "static"
         \/ t.phase = "claim" /\ task[w].phase = "look" /\ t.source = task[w].source
         \/ t.phase \in {"replace", "upsert", "commit"}
            /\ task[w].phase \in {"snap", "replace", "upsert"}
  <2>1. CASE Materialize(w)
    <3>1. \E goal : task' = [task EXCEPT ![w] = [task[w] EXCEPT !.phase = "look", !.goal = goal]]
      BY <2>1 DEF Materialize
    <3>2. task[w].phase = "read" /\ task[w].stage = "static" /\ UNCHANGED <<rows, evidence, pend, tree, unpacked, archive>>
      BY <2>1 DEF Materialize, FilesOnly, At
    <3>3. QED
      BY <1>1, <3>1, <3>2 DEF Tasks
  <2>2. CASE LookUp(w)
    <3>1. \E absent : task' = [task EXCEPT ![w] = [task[w] EXCEPT !.phase = "claim", !.absent = absent]]
      BY <2>2 DEF LookUp
    <3>2. task[w].phase = "look" /\ UNCHANGED <<rows, evidence, pend, tree, unpacked, archive>>
      BY <2>2 DEF LookUp, DbOnly, At
    <3>3. QED
      BY <1>1, <3>1, <3>2 DEF Tasks
  <2>3. CASE Snapshot(w)
    <3> DEFINE e == [task[w].envelope EXCEPT !.id = clock + 1]
               seen == {d.id : d \in EnvelopesOf(task[w].stage)}
    <3>1. task' = [task EXCEPT ![w] = [task[w] EXCEPT !.phase = "replace", !.envelope = e, !.seen = seen]]
      BY <2>3 DEF Snapshot
    <3>2. task[w].phase = "snap" /\ UNCHANGED <<rows, evidence, pend, tree, unpacked, archive>>
      BY <2>3 DEF Snapshot, At
    <3>3. e.info = task[w].envelope.info /\ e.host = task[w].envelope.host
      BY <1>1 DEF Tasks, Envelopes
    <3> HIDE DEF e, seen
    <3>4. QED
      BY <1>1, <3>1, <3>2, <3>3 DEF Tasks
  <2>4. CASE Replace(w)
    <3>1. \E left : task' = [task EXCEPT ![w] = [task[w] EXCEPT !.phase = "upsert", !.doomed = left, !.seen = {}]]
      BY <2>4 DEF Replace
    <3>2. task[w].phase = "replace" /\ UNCHANGED <<rows, evidence, pend, tree, unpacked, archive>>
      BY <2>4 DEF Replace, DbOnly, At
    <3>3. QED
      BY <1>1, <3>1, <3>2 DEF Tasks
  <2>5. CASE Upsert(w)
    <3>1. task' = [task EXCEPT ![w] = [task[w] EXCEPT !.phase = "commit", !.touched = task[w].envelope.findings]]
      BY <2>5 DEF Upsert
    <3>2. task[w].phase = "upsert" /\ UNCHANGED <<rows, evidence, pend, tree, unpacked, archive>>
      BY <2>5 DEF Upsert, DbOnly, At
    <3>3. QED
      BY <1>1, <3>1, <3>2 DEF Tasks
  <2>6. QED
    BY <2>1, <2>2, <2>3, <2>4, <2>5
<1> HIDE DEF t
<1>3. RowsFollow' /\ StaticFirst'
  BY <1>1, <1>2, GoesOn DEF Handover, Early, Holding
<1>4. TreesKept' /\ AsDeep'
  BY <1>1, <1>2, TreeStays DEF Handover, Holding
<1>5. QED
  BY <1>3, <1>4 DEF Handover

\* The tree a code-intel delivery resolves is the one static left for its host.
LEMMA ResolveHands ==
  ASSUME TypeOK, Handover, NEW w \in Workers, Resolve(w)
  PROVE  Handover'
<1> DEFINE t == task'[w]
           h == HostOf[w]
           found == EnvelopesOf("static") # {}
           local == found /\ "dir" \in LatestStatic.info /\ h \in tree
           fetched == found /\ ~local /\ Fetched(LatestStatic)
<1>1. task \in [Workers -> Tasks] /\ task[w] \in Tasks /\ t \in Tasks
  BY WorkerType DEF TypeOK, WorkerStep
<1>2. /\ task[w].phase = "read" /\ task[w].stage = "code_intel"
      /\ unpacked' = (IF fetched THEN unpacked \cup {h} ELSE unpacked)
      /\ UNCHANGED <<rows, evidence, pend, tree, archive>>
  BY DEF Resolve, FilesOnly, At
<1>3. /\ task' = [task EXCEPT ![w] = t] /\ t.stage = "code_intel" /\ t.phase = "look"
      /\ t.source = IF local THEN "dir" ELSE IF fetched THEN "copy" ELSE "none"
      /\ \A v \in Workers : v # w => task'[v] = task[v]
  <2>1. \E goal : task' = [task EXCEPT ![w] = [task[w] EXCEPT !.phase = "look", !.goal = goal,
                     !.source = IF local THEN "dir" ELSE IF fetched THEN "copy" ELSE "none"]]
    BY DEF Resolve
  <2> HIDE DEF local, fetched
  <2>2. QED
    BY <1>1, <1>2, <2>1 DEF Tasks
<1> HIDE DEF t
<1>4. RowsFollow' /\ StaticFirst'
  BY <1>1, <1>2, <1>3, GoesOn DEF Handover, Early
<1>5. /\ rows["code_intel"] = "absent" /\ \A v \in Workers : ~OfStatic(v)
  BY <1>2 DEF Handover, RowsFollow, StaticFirst, CodeBegun, OfStatic, Early, Holding
<1>6. /\ \A x : Reaches(x)' <=> Reaches(x)
      /\ \A s : EnvelopesOf(s)' = EnvelopesOf(s)
      /\ \A v \in Workers : ~OfStatic(v)'
  BY <1>2, <1>3, <1>5 DEF Reaches, EnvelopesOf, OfStatic, Holding
<1>7. local \/ fetched <=> Reaches(h)
  <2>1. CASE ~found
    BY <2>1 DEF Reaches
  <2>2. CASE found
    <3>1. PICK d \in EnvelopesOf("static") : EnvelopesOf("static") = {d}
      BY <2>2 DEF Handover, RowsFollow, EnvelopesOf
    <3>2. LatestStatic = d
      <4>1. d.id \in Nat
        BY DEF TypeOK, Envelopes, EnvelopesOf
      <4>2. QED
        BY <3>1, <4>1 DEF LatestStatic
    <3>3. /\ "key" \in d.info => archive
          /\ h \in tree => "dir" \in d.info /\ d.host = h
          /\ "dir" \in d.info /\ d.host = h => h \in tree
      BY <1>5, <3>1 DEF Handover, TreesKept, Backed
    <3>4. QED
      BY <2>2, <3>1, <3>2, <3>3 DEF Reaches, Fetched
  <2>3. QED
    BY <2>1, <2>2
<1>8. TreesKept'
  BY <1>2, <1>5, <1>6 DEF Handover, TreesKept, Backed
<1>9. AsDeep'
  <2>1. /\ t.source # "none" <=> Reaches(h)
        /\ t.source = "dir" => h \in tree
        /\ t.source = "copy" => h \in unpacked'
    BY <1>2, <1>3, <1>7
  <2>2. unpacked \subseteq unpacked'
    BY <1>2
  <2>3. QED
    BY <1>2, <1>3, <1>6, <2>1, <2>2 DEF Handover, AsDeep, Holding, t
<1>10. QED
  BY <1>4, <1>8, <1>9 DEF Handover

LEMMA ClaimHands ==
  ASSUME TypeOK, Ledger, Handover, NEW w \in Workers, Claim(w) \/ Settle(w)
  PROVE  Handover'
<1> DEFINE t == task'[w]
           s == task[w].stage
<1>1. task \in [Workers -> Tasks] /\ task[w] \in Tasks /\ t \in Tasks
  BY WorkerType DEF TypeOK, WorkerStep
<1>2. /\ s \in Stages /\ task[w].phase \in {"claim", "settle"}
      /\ rows[s] = IF task[w].phase = "claim" THEN "absent" ELSE "running"
      /\ task[w].phase \notin Holding
  BY <1>1 DEF Claim, Settle, At, Handover, RowsFollow, Early, Holding, Tasks
<1>3. /\ task' = [task EXCEPT ![w] = t] /\ t.stage = s
      /\ UNCHANGED <<evidence, pend, tree, unpacked, archive>>
      /\ \/ /\ Claim(w) /\ t.phase \in {"run", "settle"} /\ rows' = [rows EXCEPT ![s] = "running"]
            /\ t.source = task[w].source
         \/ /\ Settle(w) /\ t.phase = Leave(s)
            /\ \E r \in Settled : rows' = [rows EXCEPT ![s] = r]
  <2>1. CASE Claim(w)
    <3>1. task[w].phase = "claim" /\ rows[s] = "absent"
      BY <1>2, <2>1 DEF Claim, At
    <3>2. QED
      BY <1>1, <2>1, <3>1 DEF Claim, DbOnly, Go, Tasks
  <2>2. CASE Settle(w)
    <3>1. t = [NoTask EXCEPT !.stage = s, !.phase = Leave(s)]
      BY <1>1, <2>2 DEF Settle, Depart
    <3>2. t.stage = s /\ t.phase = Leave(s)
      BY <3>1 DEF NoTask
    <3>3. (IF task[w].goal = "work" THEN "failed" ELSE task[w].goal) \in Settled
      BY <1>1 DEF Tasks, Settled
    <3>4. QED
      BY <1>1, <2>2, <3>2, <3>3 DEF Settle, DbOnly, Depart
  <2>3. QED
    BY <2>1, <2>2
<1>4. /\ \A v \in Workers : v # w => task'[v] = task[v]
      /\ \A v \in Workers : task'[v].stage = task[v].stage
      /\ rows'[s] # "absent" /\ \A r \in Stages : r # s => rows'[r] = rows[r]
      /\ \A v \in Workers : v # w => task[v].stage # s
      /\ \A e \in evidence : e.stage # s
  BY <1>1, <1>2, <1>3 DEF Handover, RowsFollow, TypeOK, Settled, Stages
<1>5. t.phase \notin Holding \cup Early \cup {"idle", "ack"}
  BY <1>3, Leaves DEF Holding, Early
<1> HIDE DEF t
<1>6. RowsFollow'
  <2>1. /\ t.phase \in {"run", "settle"} => rows'[s] = "running"
        /\ t.phase \in Gone => rows'[s] \in Settled
        /\ t.phase = "clean" => s = "code_intel"
    BY <1>2, <1>3 DEF TypeOK, Leave, Gone, Stages
  <2>2. \A v \in Workers : v # w /\ task[v].stage # "none" => rows'[task[v].stage] = rows[task[v].stage]
    BY <1>1, <1>4 DEF Tasks
  <2>3. \A v \in Workers : task[v].phase \in Early \cup Holding \cup Gone \cup {"run", "settle"}
                           => task[v].stage # "none"
    BY DEF Handover, RowsFollow, Early, Holding, Gone
  <2>4. \A v \in Workers \ {w} :
         /\ task'[v].stage = "none" <=> task'[v].phase = "idle"
         /\ task'[v].phase \in Early => rows'[task'[v].stage] = "absent"
         /\ task'[v].phase \in Holding \cup {"run", "settle"} => rows'[task'[v].stage] = "running"
         /\ task'[v].phase \in Gone => rows'[task'[v].stage] \in Settled
         /\ task'[v].phase = "clean" => task'[v].stage = "code_intel"
         /\ task'[v].phase = "publish" => task'[v].stage = "static"
    BY <1>4, <2>2, <2>3 DEF Handover, RowsFollow
  <2>5. \A e \in evidence : rows'[e.stage] = rows[e.stage]
    <3>1. \A e \in evidence : e.stage \in Stages
      BY DEF Ledger, Ids
    <3>2. QED
      BY <1>4, <3>1
  <2>6. s # "none"
    BY <1>2 DEF Stages
  <2>7. QED
    BY <1>3, <1>4, <1>5, <2>1, <2>4, <2>5, <2>6 DEF Handover, RowsFollow, t, Holding
<1>7. StaticFirst'
  <2>1. CodeBegun' => CodeBegun
    BY <1>2, <1>3, <1>4 DEF CodeBegun, Stages
  <2>2. CodeBegun => s # "static"
    BY <1>2 DEF Handover, StaticFirst
  <2>3. QED
    BY <1>2, <1>4, <2>1, <2>2 DEF Handover, StaticFirst, Stages
<1>8. TreesKept' /\ AsDeep'
  <2>1. rows'["code_intel"] = "absent" => rows["code_intel"] = "absent"
    BY <1>4 DEF Stages
  <2>2. t.phase \in {"look", "claim", "run"} => task[w].phase = "claim" /\ t.source = task[w].source
    BY <1>3, Leaves DEF Claim, At
  <2>3. QED
    BY <1>1, <1>2, <1>3, <1>5, <2>1, <2>2, TreeStays DEF Handover
<1>9. QED
  BY <1>6, <1>7, <1>8 DEF Handover

\* The engines: static's tree is on its host when its envelope names it, and code intel's
\* findings come from the tree it resolved.
LEMMA AnalyzeHands ==
  ASSUME TypeOK, Handover, NEW w \in Workers, AnalyzeStatic(w) \/ AnalyzeCode(w)
  PROVE  Handover'
<1> DEFINE t == task'[w]
           h == HostOf[w]
           deep == \/ task[w].source = "dir" /\ h \in tree
                   \/ task[w].source = "copy" /\ h \in unpacked
<1>1. task \in [Workers -> Tasks] /\ task[w] \in Tasks /\ t \in Tasks
  BY WorkerType DEF TypeOK, WorkerStep
<1>2. PICK found, info :
        /\ Report(w, found, info)
        /\ \/ /\ task[w].stage = "static" /\ info \in SUBSET {"dir"}
              /\ tree' = IF info = {} THEN tree ELSE tree \cup {h}
           \/ /\ task[w].stage = "code_intel" /\ info = IF deep THEN {"tree"} ELSE {}
              /\ UNCHANGED tree
  <2>1. CASE AnalyzeStatic(w)
    BY <2>1 DEF AnalyzeStatic
  <2>2. CASE AnalyzeCode(w)
    BY <2>2 DEF AnalyzeCode
  <2>3. QED
    BY <2>1, <2>2
<1>3. task[w].phase = "run" /\ UNCHANGED <<rows, evidence, pend, unpacked, archive>>
  BY DEF AnalyzeStatic, AnalyzeCode, FilesOnly, At
<1>4. /\ task' = [task EXCEPT ![w] = t] /\ t.stage = task[w].stage
      /\ t.phase \in {"publish", "snap"} /\ (t.phase = "publish" => "dir" \in info)
      /\ t.envelope.host = h /\ t.envelope.info = info
      /\ \A v \in Workers : v # w => task'[v] = task[v]
  <2> DEFINE e == Envelope(0, task[w].stage, HostOf[w], found, info)
  <2>1. e.host = h /\ e.info = info
    BY DEF Envelope
  <2>2. task' = [task EXCEPT ![w] = [task[w] EXCEPT !.phase = IF "dir" \in info THEN "publish" ELSE "snap",
                                                    !.source = "none", !.envelope = e]]
    BY <1>2 DEF Report
  <2> HIDE DEF e
  <2>3. QED
    BY <1>1, <2>1, <2>2 DEF Tasks
<1> HIDE DEF t
<1>5. RowsFollow' /\ StaticFirst'
  <2>1. t.phase = "publish" => t.stage = "static"
    BY <1>2, <1>4
  <2>2. QED
    BY <1>1, <1>3, <1>4, <2>1, GoesOn DEF Handover, Holding
<1>6. /\ \A x : Reaches(x)' <=> Reaches(x)
      /\ \A s : EnvelopesOf(s)' = EnvelopesOf(s)
  BY <1>3 DEF Reaches, EnvelopesOf
<1>7. \A v \in Workers : v # w => (OfStatic(v)' <=> OfStatic(v))
  BY <1>4 DEF OfStatic
<1>8. CASE task[w].stage = "static"
  <2>1. OfStatic(w)' /\ ~OfStatic(w)
    BY <1>3, <1>4, <1>8 DEF OfStatic, Holding, t
  <2>2. \A v \in Workers : task[v].stage # "code_intel" /\ task'[v].stage # "code_intel"
    BY <1>3, <1>4, <1>8 DEF Handover, StaticFirst, CodeBegun, t
  <2>3. info \in SUBSET {"dir"} /\ tree' = IF info = {} THEN tree ELSE tree \cup {h}
    BY <1>2, <1>8
  <2>4. TreesKept'
    <3>1. ASSUME NEW x \in tree'
          PROVE  \/ \E e \in EnvelopesOf("static") : "dir" \in e.info /\ e.host = x
                 \/ \E v \in Workers :
                      OfStatic(v)' /\ "dir" \in task'[v].envelope.info /\ task'[v].envelope.host = x
      <4>1. CASE x \in tree
        BY <1>4, <1>7, <2>1, <4>1 DEF Handover, TreesKept
      <4>2. CASE x \notin tree
        <5>1. x = h /\ "dir" \in info
          BY <2>3, <4>2
        <5>2. QED
          BY <1>4, <2>1, <5>1 DEF t
      <4>3. QED
        BY <4>1, <4>2
    <3>2. ASSUME rows["code_intel"] = "absent", NEW v \in Workers, OfStatic(v)'
          PROVE  Backed(task[v].envelope)'
      <4>1. CASE v = w
        BY <1>4, <2>3, <4>1 DEF Backed, t
      <4>2. CASE v # w
        BY <1>3, <1>4, <1>7, <2>3, <3>2, <4>2 DEF Handover, TreesKept, Backed
      <4>3. QED
        BY <4>1, <4>2
    <3>3. rows["code_intel"] = "absent" => \A e \in EnvelopesOf("static") : Backed(e)'
      BY <1>3, <2>3 DEF Handover, TreesKept, Backed
    <3>4. QED
      BY <1>3, <1>6, <3>1, <3>2, <3>3 DEF TreesKept, Backed
  <2>5. AsDeep'
    BY <1>6, <2>2 DEF Handover, AsDeep
  <2>6. QED
    BY <1>5, <2>4, <2>5 DEF Handover
<1>9. CASE task[w].stage = "code_intel"
  <2>1. info = (IF deep THEN {"tree"} ELSE {}) /\ UNCHANGED tree
    BY <1>2, <1>9
  <2>2. deep <=> Reaches(h)
    BY <1>1, <1>3, <1>9 DEF Handover, AsDeep, Tasks
  <2>3. ~OfStatic(w) /\ ~OfStatic(w)'
    BY <1>4, <1>9 DEF OfStatic, t
  <2>4. TreesKept'
    BY <1>3, <1>4, <1>6, <1>7, <2>1, <2>3 DEF Handover, TreesKept, Backed
  <2>5. AsDeep'
    BY <1>3, <1>4, <1>6, <2>1, <2>2 DEF Handover, AsDeep, Holding, t
  <2>6. QED
    BY <1>5, <2>4, <2>5 DEF Handover
<1>10. QED
  BY <1>2, <1>8, <1>9

LEMMA RaiseHands ==
  ASSUME TypeOK, Handover, NEW w \in Workers, EngineRaises(w)
  PROVE  Handover'
<1> DEFINE t == task'[w]
<1>1. task \in [Workers -> Tasks] /\ task[w] \in Tasks /\ t \in Tasks
  BY WorkerType DEF TypeOK, WorkerStep
<1>2. /\ task[w].phase = "run" /\ UNCHANGED <<rows, evidence, pend, unpacked, archive>>
      /\ tree' = IF task[w].stage = "static" THEN tree \ {HostOf[w]} ELSE tree
      /\ task' = [task EXCEPT ![w] = [task[w] EXCEPT !.phase = "settle"]]
  BY DEF EngineRaises, FilesOnly, At, Go
<1>3. /\ task' = [task EXCEPT ![w] = t] /\ t.stage = task[w].stage /\ t.phase = "settle"
      /\ \A v \in Workers : v # w => task'[v] = task[v]
  BY <1>1, <1>2 DEF Tasks
<1> HIDE DEF t
<1>4. RowsFollow' /\ StaticFirst'
  BY <1>1, <1>2, <1>3, GoesOn DEF Handover, Holding
<1>5. CASE task[w].stage = "static"
  <2>1. \A e \in evidence : e.stage # "static"
    BY <1>2, <1>5 DEF Handover, RowsFollow
  <2>2. \A v \in Workers : ~OfStatic(v) /\ ~OfStatic(v)'
    BY <1>2, <1>3, <1>5 DEF Handover, RowsFollow, OfStatic, Holding, t
  <2>3. \A v \in Workers : task[v].stage # "code_intel" /\ task'[v].stage # "code_intel"
    BY <1>2, <1>3, <1>5 DEF Handover, StaticFirst, CodeBegun, t
  <2>4. EnvelopesOf("static") = {} /\ EnvelopesOf("static")' = {}
    BY <1>2, <2>1 DEF EnvelopesOf
  <2>5. TreesKept'
    BY <1>2, <2>2, <2>4 DEF Handover, TreesKept
  <2>6. AsDeep'
    BY <1>2, <2>3 DEF Handover, AsDeep, Reaches, EnvelopesOf
  <2>7. QED
    BY <1>4, <2>5, <2>6 DEF Handover
<1>6. CASE task[w].stage # "static"
  BY <1>1, <1>2, <1>3, <1>4, <1>6, TreeStays DEF Handover, Holding
<1>7. QED
  BY <1>5, <1>6

LEMMA PublishHands ==
  ASSUME TypeOK, Handover, NEW w \in Workers, Publish(w)
  PROVE  Handover'
<1> DEFINE t == task'[w]
<1>1. task \in [Workers -> Tasks] /\ task[w] \in Tasks /\ t \in Tasks
  BY WorkerType DEF TypeOK, WorkerStep
<1>2. /\ task[w].phase = "publish" /\ UNCHANGED <<rows, evidence, pend, unpacked, tree>>
      /\ task[w].stage = "static"
  BY DEF Publish, FilesOnly, At, Handover, RowsFollow
<1>3. CASE Go(w, "snap") /\ UNCHANGED archive
  <2>1. task' = [task EXCEPT ![w] = [task[w] EXCEPT !.phase = "snap"]]
    BY <1>3 DEF Go
  <2>2. /\ task' = [task EXCEPT ![w] = t] /\ t.stage = task[w].stage /\ t.phase = "snap"
        /\ t.envelope = task[w].envelope
    BY <1>1, <2>1 DEF Tasks
  <2> HIDE DEF t
  <2>3. QED
    BY <1>1, <1>2, <1>3, <2>2, GoesOn, TreeStays DEF Handover, Holding
<1>4. CASE /\ archive' = TRUE
           /\ task' = [task EXCEPT ![w].phase = "snap", ![w].envelope.info = @ \cup {"key"}]
  <2>1. /\ task' = [task EXCEPT ![w] = t] /\ t.stage = task[w].stage /\ t.phase = "snap"
        /\ t.envelope.info = task[w].envelope.info \cup {"key"}
        /\ t.envelope.host = task[w].envelope.host
        /\ \A v \in Workers : v # w => task'[v] = task[v]
    <3> DEFINE e == [task[w].envelope EXCEPT !.info = @ \cup {"key"}]
    <3>1. e.info = task[w].envelope.info \cup {"key"} /\ e.host = task[w].envelope.host
      BY <1>1 DEF Tasks, Envelopes
    <3>2. task' = [task EXCEPT ![w] = [task[w] EXCEPT !.phase = "snap", !.envelope = e]]
      BY <1>4
    <3> HIDE DEF e
    <3>3. QED
      BY <1>1, <3>1, <3>2 DEF Tasks
  <2> HIDE DEF t
  <2>2. RowsFollow' /\ StaticFirst'
    BY <1>1, <1>2, <2>1, GoesOn DEF Handover, Holding
  <2>3. /\ \A x : Reaches(x)' <=> Reaches(x)
        /\ \A s : EnvelopesOf(s)' = EnvelopesOf(s)
    BY <1>2 DEF Reaches, EnvelopesOf
  <2>4. \A v \in Workers : OfStatic(v)' <=> OfStatic(v)
    BY <1>2, <2>1 DEF OfStatic, Holding, t
  <2>5. OfStatic(w)
    BY <1>2 DEF OfStatic, Holding
  <2>6. TreesKept'
    <3>1. \A x \in tree : \/ \E e \in EnvelopesOf("static") : "dir" \in e.info /\ e.host = x
                          \/ \E v \in Workers : OfStatic(v)' /\ "dir" \in task'[v].envelope.info
                                                             /\ task'[v].envelope.host = x
      BY <2>1, <2>4 DEF Handover, TreesKept, t
    <3>2. rows["code_intel"] = "absent" => \A v \in Workers : OfStatic(v)' => Backed(task[v].envelope)'
      <4>1. ASSUME rows["code_intel"] = "absent", NEW v \in Workers, OfStatic(v)'
            PROVE  Backed(task[v].envelope)'
        <5>1. Backed(task[v].envelope)
          BY <1>2, <2>4, <4>1 DEF Handover, TreesKept
        <5>2. CASE v = w
          <6>1. /\ task'[v].envelope.info = task[v].envelope.info \cup {"key"}
                /\ task'[v].envelope.host = task[v].envelope.host
            BY <2>1, <5>2 DEF t
          <6>2. archive' = TRUE
            BY <1>4
          <6>3. QED
            BY <1>2, <5>1, <6>1, <6>2 DEF Backed
        <5>3. CASE v # w
          BY <1>2, <1>4, <2>1, <5>1, <5>3 DEF Backed
        <5>4. QED
          BY <5>2, <5>3
      <4>2. QED
        BY <4>1
    <3>3. rows["code_intel"] = "absent" => \A e \in EnvelopesOf("static") : Backed(e)'
      BY <1>2, <1>4 DEF Handover, TreesKept, Backed
    <3>4. QED
      BY <1>2, <2>3, <3>1, <3>2, <3>3 DEF TreesKept, Backed
  <2>7. AsDeep'
    BY <1>2, <2>1, <2>3 DEF Handover, AsDeep, t
  <2>8. QED
    BY <2>2, <2>6, <2>7 DEF Handover
<1>5. QED
  BY <1>3, <1>4 DEF Publish

\* The row is written with the envelope, and there was none of this stage before.
LEMMA CompleteHands ==
  ASSUME TypeOK, Ledger, Handover, NEW w \in Workers, Complete(w)
  PROVE  Handover'
<1> DEFINE t == task'[w]
           s == task[w].stage
           new == task[w].envelope
<1>1. task \in [Workers -> Tasks] /\ task[w] \in Tasks /\ t \in Tasks
  BY WorkerType DEF TypeOK, WorkerStep
<1>2. /\ task[w].phase = "commit" /\ s \in Stages /\ new.stage = s
      /\ rows[s] = "running" /\ \A e \in evidence : e.stage # s
  BY DEF Complete, At, Ledger, Writing, Open, Handover, RowsFollow, Holding
<1>3. /\ evidence' = evidence \cup {new} /\ rows' = [rows EXCEPT ![s] = "ok"]
      /\ UNCHANGED <<pend, tree, unpacked, archive>>
  BY <1>2 DEF Complete, DbOnly
<1>4. /\ task' = [task EXCEPT ![w] = t] /\ t.stage = s /\ t.phase = Leave(s)
      /\ \A v \in Workers : v # w => task'[v] = task[v]
      /\ \A v \in Workers : task'[v].stage = task[v].stage
  <2>1. t = [NoTask EXCEPT !.stage = s, !.phase = Leave(s)]
    BY <1>1 DEF Complete, Depart
  <2>2. t.stage = s /\ t.phase = Leave(s)
    BY <2>1 DEF NoTask
  <2>3. QED
    BY <1>1, <2>2 DEF Complete, Depart
<1>5. /\ rows'[s] = "ok" /\ \A r : r # s /\ r \in Stages => rows'[r] = rows[r]
      /\ \A v \in Workers : v # w => task[v].stage # s
      /\ t.phase \in {"clean", "return"} /\ s # "none"
  BY <1>2, <1>3, <1>4, Leaves DEF TypeOK, Handover, RowsFollow, Stages
<1> HIDE DEF t
<1>6. RowsFollow'
  <2>1. \A v \in Workers : task[v].phase \in Early \cup Holding \cup Gone \cup {"run", "settle"}
                           => task[v].stage \in Stages
    BY <1>1 DEF Handover, RowsFollow, Early, Holding, Gone, Tasks
  <2>2. \A v \in Workers \ {w} :
         /\ task'[v].stage = "none" <=> task'[v].phase = "idle"
         /\ task'[v].phase \in Early => rows'[task'[v].stage] = "absent"
         /\ task'[v].phase \in Holding \cup {"run", "settle"} => rows'[task'[v].stage] = "running"
         /\ task'[v].phase \in Gone => rows'[task'[v].stage] \in Settled
         /\ task'[v].phase = "clean" => task'[v].stage = "code_intel"
         /\ task'[v].phase = "publish" => task'[v].stage = "static"
    BY <1>4, <1>5, <2>1 DEF Handover, RowsFollow
  <2>3. \A e \in evidence' : rows'[e.stage] = "ok"
    <3>1. \A e \in evidence : e.stage \in Stages
      BY DEF Ledger, Ids
    <3>2. QED
      BY <1>2, <1>3, <1>5, <3>1 DEF Handover, RowsFollow
  <2>4. \A d, e \in evidence' : d.stage = e.stage => d = e
    BY <1>2, <1>3 DEF Handover, RowsFollow
  <2>5. t.phase \notin Early \cup Holding \cup {"run", "settle", "idle"}
        /\ (t.phase = "clean" => s = "code_intel")
    BY <1>2, <1>4, <1>5 DEF Early, Holding, Leave, Stages
  <2>6. \A u, v \in Workers : u # v /\ task'[u].stage = task'[v].stage => task'[u].stage = "none"
    BY <1>4 DEF Handover, RowsFollow
  <2>7. QED
    BY <1>4, <1>5, <2>2, <2>3, <2>4, <2>5, <2>6 DEF RowsFollow, t, Settled, Holding
<1>7. StaticFirst'
  <2>1. CodeBegun' => CodeBegun
    BY <1>2, <1>3, <1>4, <1>5 DEF CodeBegun, Stages
  <2>2. CodeBegun => s # "static"
    BY <1>2 DEF Handover, StaticFirst
  <2>3. QED
    BY <1>2, <1>4, <1>5, <2>1, <2>2 DEF Handover, StaticFirst, Stages
<1>8. \A v \in Workers : OfStatic(v)' <=> OfStatic(v) /\ v # w
  BY <1>4, <1>5 DEF OfStatic, Holding, t
<1>9. \A r : EnvelopesOf(r)' = IF r = s THEN {new} ELSE EnvelopesOf(r)
  BY <1>2, <1>3 DEF EnvelopesOf
<1>10. CASE s = "static"
  <2>1. OfStatic(w) /\ EnvelopesOf("static") = {}
    BY <1>2, <1>10 DEF OfStatic, Holding, EnvelopesOf
  <2>2. \A v \in Workers : task[v].stage # "code_intel" /\ task'[v].stage # "code_intel"
    BY <1>2, <1>4, <1>10 DEF Handover, StaticFirst, CodeBegun
  <2>3. EnvelopesOf("code_intel") = {} /\ EnvelopesOf("code_intel")' = {}
    BY <1>2, <1>9, <1>10 DEF Handover, RowsFollow, StaticFirst, CodeBegun, EnvelopesOf, Settled
  <2>4. TreesKept'
    <3>1. rows'["code_intel"] = rows["code_intel"] /\ EnvelopesOf("static")' = {new}
      BY <1>5, <1>9, <1>10 DEF Stages
    <3>2. \A x \in tree : \/ "dir" \in new.info /\ new.host = x
                          \/ \E v \in Workers : /\ OfStatic(v) /\ v # w
                                                /\ "dir" \in task[v].envelope.info
                                                /\ task[v].envelope.host = x
      BY <2>1 DEF Handover, TreesKept
    <3>3. rows["code_intel"] = "absent" =>
            Backed(new) /\ \A v \in Workers : OfStatic(v) => Backed(task[v].envelope)
      BY <2>1 DEF Handover, TreesKept
    <3>4. QED
      BY <1>3, <1>4, <1>8, <3>1, <3>2, <3>3 DEF TreesKept, Backed
  <2>5. AsDeep'
    BY <2>2, <2>3 DEF AsDeep
  <2>6. QED
    BY <1>6, <1>7, <2>4, <2>5 DEF Handover
<1>11. CASE s = "code_intel"
  <2>1. ~OfStatic(w) /\ EnvelopesOf("static")' = EnvelopesOf("static")
    BY <1>9, <1>11 DEF OfStatic
  <2>2. \A x : Reaches(x)' <=> Reaches(x)
    BY <2>1 DEF Reaches
  <2>3. rows'["code_intel"] = "ok"
    BY <1>5, <1>11
  <2>4. TreesKept'
    BY <1>3, <1>4, <1>8, <2>1, <2>3 DEF Handover, TreesKept
  <2>5. "tree" \in new.info <=> Reaches(new.host)
    BY <1>2, <1>11 DEF Handover, AsDeep, Holding
  <2>6. AsDeep'
    BY <1>3, <1>4, <1>5, <1>9, <1>11, <2>2, <2>5 DEF Handover, AsDeep, Holding, t
  <2>7. QED
    BY <1>6, <1>7, <2>4, <2>6 DEF Handover
<1>12. QED
  BY <1>2, <1>10, <1>11 DEF Stages

LEMMA LeaveHands ==
  ASSUME TypeOK, Handover, NEW w \in Workers, CleanUp(w) \/ Return(w) \/ Ack(w)
  PROVE  Handover'
<1> DEFINE t == task'[w]
<1>1. task \in [Workers -> Tasks] /\ task[w] \in Tasks /\ t \in Tasks
  BY WorkerType DEF TypeOK, WorkerStep
<1>2. CASE CleanUp(w)
  <2>1. /\ task[w].phase = "clean" /\ task[w].stage = "code_intel"
        /\ UNCHANGED <<rows, evidence, pend>> /\ tree' \subseteq tree
        /\ task' = [task EXCEPT ![w] = [task[w] EXCEPT !.phase = "return"]]
    BY <1>2 DEF CleanUp, At, Go, FilesOnly, Handover, RowsFollow
  <2>2. /\ task' = [task EXCEPT ![w] = t] /\ t.stage = task[w].stage /\ t.phase = "return"
        /\ \A v \in Workers : v # w => task'[v] = task[v]
    BY <1>1, <2>1 DEF Tasks
  <2> HIDE DEF t
  <2>3. RowsFollow' /\ StaticFirst'
    <3>1. {t.phase, task[w].phase} \subseteq Gone /\ t.phase # "clean" /\ task[w].phase # "ack"
      BY <2>1, <2>2 DEF Gone
    <3>2. QED
      BY <1>1, <2>1, <2>2, <3>1, GoesOn DEF Handover
  <2>4. /\ \A x : Reaches(x)' <=> Reaches(x)
        /\ \A s : EnvelopesOf(s)' = EnvelopesOf(s)
        /\ \A v \in Workers : OfStatic(v)' <=> OfStatic(v)
        /\ \A v \in Workers : OfStatic(v) => v # w
    BY <2>1, <2>2 DEF Reaches, EnvelopesOf, OfStatic, Holding, t
  <2>5. rows["code_intel"] # "absent"
    BY <2>1 DEF Handover, RowsFollow, Gone, Settled
  <2>6. TreesKept'
    BY <2>1, <2>2, <2>4, <2>5 DEF Handover, TreesKept
  <2>7. \A v \in Workers : task[v].stage = "code_intel" => v = w
    BY <2>1 DEF Handover, RowsFollow
  <2>8. AsDeep'
    BY <2>1, <2>2, <2>4, <2>7 DEF Handover, AsDeep, Holding, t
  <2>9. QED
    BY <2>3, <2>6, <2>8 DEF Handover
<1>3. CASE Return(w)
  <2>1. /\ task[w].phase = "return" /\ UNCHANGED <<rows, evidence, tree, unpacked, archive>>
        /\ pend' = IF task[w].stage = "static" /\ "code_intel" \in given.chain
                   THEN [pend EXCEPT !["code_intel"] = @ + 1] ELSE pend
        /\ task' = [task EXCEPT ![w] = [task[w] EXCEPT !.phase = "ack"]]
    BY <1>3 DEF Return, At, Go
  <2>2. /\ task' = [task EXCEPT ![w] = t] /\ t.stage = task[w].stage /\ t.phase = "ack"
        /\ \A v \in Workers : v # w => task'[v] = task[v]
        /\ \A v \in Workers : task'[v].stage = task[v].stage
    BY <1>1, <2>1 DEF Tasks
  <2> HIDE DEF t
  <2>3. RowsFollow'
    BY <2>1, <2>2 DEF Handover, RowsFollow, Early, Holding, Gone, t
  <2>4. StaticFirst'
    <3>1. CASE task[w].stage = "static"
      <4>1. rows["static"] \in Settled
        BY <2>1, <3>1 DEF Handover, RowsFollow, Gone
      <4>2. \A v \in Workers : task[v].stage = "static" => v = w
        BY <3>1 DEF Handover, RowsFollow
      <4>3. QED
        BY <2>1, <2>2, <4>1, <4>2 DEF StaticFirst, t
    <3>2. CASE task[w].stage # "static"
      <4>1. CodeBegun' => CodeBegun
        BY <2>1, <2>2, <3>2 DEF CodeBegun
      <4>2. QED
        BY <2>1, <2>2, <3>2, <4>1 DEF Handover, StaticFirst, t
    <3>3. QED
      BY <3>1, <3>2
  <2>5. TreesKept' /\ AsDeep'
    BY <1>1, <2>1, <2>2, TreeStays DEF Handover, Holding
  <2>6. QED
    BY <2>3, <2>4, <2>5 DEF Handover
<1>4. CASE Ack(w)
  <2>1. /\ task[w].phase = "ack" /\ UNCHANGED <<rows, evidence, pend, tree, unpacked, archive>>
        /\ task' = [task EXCEPT ![w] = NoTask] /\ t = NoTask
        /\ \A v \in Workers : v # w => task'[v] = task[v]
    BY <1>1, <1>4 DEF Ack, At, FilesOnly
  <2>2. t.stage = "none" /\ t.phase = "idle"
    BY <2>1 DEF NoTask
  <2> HIDE DEF t
  <2>3. RowsFollow'
    BY <2>1, <2>2 DEF Handover, RowsFollow, Early, Holding, Gone, t
  <2>4. StaticFirst'
    <3>1. CodeBegun' => CodeBegun
      BY <2>1, <2>2 DEF CodeBegun, t
    <3>2. QED
      BY <2>1, <2>2, <3>1 DEF Handover, StaticFirst, t
  <2>5. TreesKept' /\ AsDeep'
    BY <1>1, <2>1, <2>2, TreeStays DEF Handover, Holding
  <2>6. QED
    BY <2>3, <2>4, <2>5 DEF Handover
<1>5. QED
  BY <1>2, <1>3, <1>4

LEMMA WorkerHands ==
  ASSUME TypeOK, Ledger, Calm => Handover, NEW w \in Workers, WorkerStep(w), Calm'
  PROVE  Handover'
<1>1. faults \in Nat /\ MaxFaults \in Nat
  BY StoreAssumption DEF TypeOK
<1>2. ~LoseWorker(w) /\ ~StageError(w) /\ ~FetchFails(w)
  BY <1>1 DEF LoseWorker, StageError, FetchFails, Calm
<1>3. Calm
  <2>1. CASE \E s \in Stages : Take(w, s)
    <3>1. UNCHANGED faults /\ past' \in {"overlapping", "repeated", past}
      <4>1. PICK s \in Stages : Take(w, s)
        BY <2>1
      <4>2. /\ UNCHANGED faults
            /\ past' = IF past = "overlapping" \/ \E v \in Workers : task[v].stage = s
                       THEN "overlapping"
                       ELSE IF past = "repeated" \/ rows[s] # "absent" THEN "repeated" ELSE "single"
        BY <4>1 DEF Take
      <4>3. past \in {"single", "repeated", "overlapping"}
        BY DEF TypeOK
      <4>4. QED
        BY <4>2, <4>3
    <3>2. QED
      BY <3>1 DEF Calm
  <2>2. CASE ~(\E s \in Stages : Take(w, s))
    <3>1. UNCHANGED <<faults, past>>
      BY <1>2, <2>2 DEF WorkerStep, Materialize, Resolve, LookUp, Claim, Settle, AnalyzeStatic,
           AnalyzeCode, EngineRaises, Publish, Snapshot, Replace, Upsert, Complete, CleanUp,
           Return, Ack, DbOnly, FilesOnly
    <3>2. QED
      BY <3>1 DEF Calm
  <2>3. QED
    BY <2>1, <2>2
<1>4. past' = "single"
  BY DEF Calm
<1>5. QED
  BY <1>2, <1>3, <1>4, TakeHands, QuietHands, ResolveHands, ClaimHands, AnalyzeHands,
     RaiseHands, PublishHands, CompleteHands, LeaveHands DEF WorkerStep

THEOREM HandoverHolds == Spec => [](Calm => Handover)
<1>1. Init => Handover
  <2> SUFFICES ASSUME Init PROVE Handover
    OBVIOUS
  <2>1. /\ \A w \in Workers : task[w].stage = "none" /\ task[w].phase = "idle"
        /\ evidence = {} /\ tree = {} /\ rows["code_intel"] = "absent" /\ pend["code_intel"] = 0
    BY DEF Init, NoTask, Stages
  <2>2. RowsFollow
    BY <2>1 DEF RowsFollow, Early, Holding, Gone
  <2>3. StaticFirst
    BY <2>1 DEF StaticFirst, CodeBegun
  <2>4. TreesKept /\ AsDeep
    BY <2>1 DEF TreesKept, AsDeep, OfStatic, EnvelopesOf
  <2>5. QED
    BY <2>2, <2>3, <2>4 DEF Handover
<1>2. TypeOK /\ Ledger /\ (Calm => Handover) /\ [Next]_vars => (Calm => Handover)'
  <2> SUFFICES ASSUME TypeOK, Ledger, Calm => Handover, [Next]_vars, Calm' PROVE Handover'
    OBVIOUS
  <2>1. ASSUME UNCHANGED storeVars PROVE Handover'
    <3>1. Handover
      BY <2>1 DEF Calm, storeVars
    <3>2. QED
      BY <2>1, <3>1 DEF storeVars, Handover, RowsFollow, StaticFirst, CodeBegun, TreesKept, AsDeep,
           Backed, Reaches, OfStatic, EnvelopesOf
  <2>2. QED
    BY <2>1, WorkerHands DEF Next, Finished, vars
<1>3. QED
  BY <1>1, <1>2, StoreTyped, LedgerHolds, PTL DEF Spec

\* tasks/code_intel.py, services/artifacts.py: with neither a fault nor a second
\* delivery, code intel sees the tree wherever the two stages run, if static archived it or
\* ran on the same host, and only then.
THEOREM TreeIsHandedOver == Spec => []DepthKept
<1>1. (Calm => Handover) => DepthKept
  BY DEF Calm, Handover, AsDeep, Reaches, DepthKept
<1>2. QED
  BY <1>1, HandoverHolds, PTL

=============================================================================
