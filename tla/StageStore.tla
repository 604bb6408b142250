------------------------------ MODULE StageStore ------------------------------
(***************************************************************************)
(* The static and the code-intel stage of one job at the level of their    *)
(* SQL statements and files: the stage row is read and then claimed, an    *)
(* envelope replaces the one before it in a transaction at READ COMMITTED, *)
(* and the decompiled tree goes from one stage to the other over the disk  *)
(* of a host or an archive in object storage.  Deliveries of one task may  *)
(* overlap.  The bytes come from SampleIngest.                             *)
(*                                                                         *)
(* A transaction that waits for a row lock of another is one whose action  *)
(* is disabled.  An insert or update that commits at once is one action.   *)
(*                                                                         *)
(* Simplifications: the policy switches are on and the engines installed;  *)
(* attempts, progress and the cancelled job are left to JobPipeline; a     *)
(* tree that is unpacked again is never seen half empty; artifacts are not *)
(* kept.                                                                   *)
(***************************************************************************)
EXTENDS SampleIngest

CONSTANTS
  Workers,
  HostOf,      \* the host of each worker
  FindingIds,  \* what an envelope may report
  MaxChains,   \* copies of the chain that a redelivered analyze may dispatch
  MaxFaults    \* lost workers and errors

Stages == {"static", "code_intel"}

Hosts == {HostOf[w] : w \in Workers}

ASSUME StoreAssumption ==
  DOMAIN HostOf = Workers /\ IsFiniteSet(FindingIds) /\ {MaxChains, MaxFaults} \subseteq Nat

VARIABLES
  given,     \* the stages of the chain, whether JADX is installed, what may be found
  rows,      \* status of each stage row, "absent" before the first claim
  evidence,  \* committed envelopes
  owner,     \* the envelope each finding row points at, 0 without a row
  clock,     \* envelopes opened so far: their order by created_at
  pend,      \* messages of each stage in the queue
  task,      \* the delivery each worker is at
  tree,      \* hosts with the tree JADX wrote
  unpacked,  \* hosts with a tree from the archive
  archive,   \* the archive is in storage
  faults,    \* faults so far
  past       \* the worst that deliveries of one stage did: "single", "repeated" after one
             \* another, or "overlapping" (history)

storeVars == <<given, rows, evidence, owner, clock, pend, task, tree, unpacked, archive,
               faults, past>>

vars == <<ingestVars, storeVars>>

-----------------------------------------------------------------------------
(* Rows and transactions. *)

Envelope(id, stage, host, found, info) ==
  [id |-> id, stage |-> stage, host |-> host, findings |-> found, info |-> info]

NoEnvelope == Envelope(0, "none", "none", {}, {})

\* A delivery: the goal of its stage run, the tree it reads, what its statements have seen
\* and what its open transaction holds.
NoTask == [stage |-> "none", phase |-> "idle", goal |-> "work", absent |-> FALSE,
           source |-> "none", seen |-> {}, doomed |-> {}, touched |-> {},
           envelope |-> NoEnvelope]

At(w, phase) == task[w].phase = phase

Go(w, phase) == task' = [task EXCEPT ![w].phase = phase]

Others(w) == {v \in Workers \ {w} : task[v].stage = task[w].stage}

EnvelopesOf(s) == {e \in evidence : e.stage = s}

OwnedBy(ids, s) == {f \in FindingIds : owner[<<s, f>>] \in ids}

\* Finding rows an open transaction has locked.
Locked(v) == task[v].touched \cup OwnedBy(task[v].doomed, task[v].stage)

\* The delivery leaves its stage run; an open transaction is over.
Depart(w, phase) ==
  task' = [task EXCEPT ![w] = [NoTask EXCEPT !.stage = task[w].stage, !.phase = phase]]

DbOnly == UNCHANGED <<clock, pend, tree, unpacked, archive, faults, past>>
          /\ UNCHANGED <<given, ingestVars>>

FilesOnly == UNCHANGED <<rows, evidence, owner, clock, pend, faults, past>>
             /\ UNCHANGED <<given, ingestVars>>

-----------------------------------------------------------------------------
(* Deliveries. *)

Take(w, s) ==
  /\ At(w, "idle") /\ jobs > 0 /\ pend[s] > 0
  /\ pend' = [pend EXCEPT ![s] = @ - 1]
  /\ task' = [task EXCEPT ![w] = [NoTask EXCEPT !.stage = s, !.phase = "read"]]
  /\ past' = IF past = "overlapping" \/ \E v \in Workers : task[v].stage = s
             THEN "overlapping"
             ELSE IF past = "repeated" \/ rows[s] # "absent" THEN "repeated" ELSE "single"
  /\ UNCHANGED <<rows, evidence, owner, clock, tree, unpacked, archive, faults>>
  /\ UNCHANGED <<given, ingestVars>>

\* materialize_apk: no bytes, no analysis.
Materialize(w) ==
  /\ At(w, "read") /\ task[w].stage = "static"
  /\ task' = [task EXCEPT ![w].phase = "look",
                          ![w].goal = IF Bytes = "absent" THEN "failed" ELSE "work"]
  /\ UNCHANGED <<tree, unpacked, archive>> /\ FilesOnly

\* rows[-1] of list_for_job: the envelope that was opened last.
LatestStatic ==
  CHOOSE e \in EnvelopesOf("static") : \A d \in EnvelopesOf("static") : d.id <= e.id

\* Mutant: the hand-off by path alone.
ResolveByPath(w) ==
  /\ At(w, "read") /\ task[w].stage = "code_intel"
  /\ task' = [task EXCEPT ![w].phase = "look",
                          ![w].goal = IF EnvelopesOf("static") = {} THEN "skipped" ELSE "work",
                          ![w].source = IF EnvelopesOf("static") # {}
                                             /\ HostOf[w] \in tree THEN "dir" ELSE "none"]
  /\ UNCHANGED <<tree, unpacked, archive>> /\ FilesOnly

\* fetch_tree: an archive that is gone is no error.
Fetched(e) == "key" \in e.info /\ archive

\* Code intel is skipped without a static envelope; one of a static run that got nowhere,
\* which has no tree either, may carry no evidence.
Goals ==
  IF EnvelopesOf("static") = {} THEN {"skipped"}
  ELSE IF LatestStatic.info = {} THEN {"work", "skipped"} ELSE {"work"}

\* The static envelope, and its tree: from this host's disk, else from the archive.
Resolve(w) ==
  /\ At(w, "read") /\ task[w].stage = "code_intel"
  /\ LET h == HostOf[w]
         found == EnvelopesOf("static") # {}
         local == found /\ "dir" \in LatestStatic.info /\ h \in tree
         fetched == found /\ ~local /\ Fetched(LatestStatic)
     IN  /\ \E goal \in Goals :
              task' = [task EXCEPT ![w].phase = "look", ![w].goal = goal,
                                   ![w].source = IF local THEN "dir"
                                                 ELSE IF fetched THEN "copy" ELSE "none"]
         /\ unpacked' = IF fetched THEN unpacked \cup {h} ELSE unpacked
  /\ UNCHANGED <<tree, archive>> /\ FilesOnly

\* The archive is there but cannot be downloaded or unpacked: no error either, code intel
\* goes on without a tree.  What was unpacked so far is removed.
FetchFails(w) ==
  LET h == HostOf[w]
  IN  /\ At(w, "read") /\ task[w].stage = "code_intel"
      /\ EnvelopesOf("static") # {} /\ Fetched(LatestStatic)
      /\ ~("dir" \in LatestStatic.info /\ h \in tree)
      /\ faults < MaxFaults /\ faults' = faults + 1
      /\ Go(w, "look")
      /\ unpacked' \in {unpacked, unpacked \ {h}}
      /\ UNCHANGED <<rows, evidence, owner, clock, pend, tree, archive, past>>
      /\ UNCHANGED <<given, ingestVars>>

\* start_stage: the row is read ...
LookUp(w) ==
  /\ At(w, "look")
  /\ task' = [task EXCEPT ![w].phase = "claim", ![w].absent = rows[task[w].stage] = "absent"]
  /\ UNCHANGED <<rows, evidence, owner>> /\ DbOnly

Leave(s) == IF s = "code_intel" THEN "clean" ELSE "return"

\* ... and inserted or updated later: the second of two inserts fails on the unique
\* constraint, and the delivery leaves without an outcome.
Claim(w) ==
  LET s == task[w].stage
      collides == task[w].absent /\ rows[s] # "absent"
  IN  /\ At(w, "claim")
      /\ IF collides THEN Depart(w, Leave(s))
         ELSE Go(w, IF task[w].goal = "work" THEN "run" ELSE "settle")
      /\ rows' = IF collides THEN rows ELSE [rows EXCEPT ![s] = "running"]
      /\ UNCHANGED <<evidence, owner>> /\ DbOnly

\* StageRunner.fail and StageRunner.skip
Settle(w) ==
  LET s == task[w].stage
  IN  /\ At(w, "settle")
      /\ rows' = [rows EXCEPT ![s] = IF task[w].goal = "work" THEN "failed" ELSE task[w].goal]
      /\ Depart(w, Leave(s))
      /\ UNCHANGED <<evidence, owner>> /\ DbOnly

-----------------------------------------------------------------------------
(* The engines. *)

\* normalize_findings: distinct well-formed findings, or none.
Normalized == SUBSET given.reports

\* The envelope goes to complete, over publish_tree if it names a tree.
Report(w, found, info) ==
  task' = [task EXCEPT ![w].phase = IF "dir" \in info THEN "publish" ELSE "snap",
                       ![w].source = "none",
                       ![w].envelope = Envelope(0, task[w].stage, HostOf[w], found, info)]

\* The static engine, with or without JADX.
AnalyzeStatic(w) ==
  /\ At(w, "run") /\ task[w].stage = "static"
  /\ \E found \in Normalized, info \in SUBSET {"dir"} :
       /\ info # {} => given.jadx
       /\ Report(w, found, info)
       /\ tree' = IF info = {} THEN tree ELSE tree \cup {HostOf[w]}
  /\ UNCHANGED <<unpacked, archive>> /\ FilesOnly

\* Code intel: what it finds is as deep as the tree that is still there when it is done.
AnalyzeCode(w) ==
  LET h == HostOf[w]
      deep == \/ task[w].source = "dir" /\ h \in tree
              \/ task[w].source = "copy" /\ h \in unpacked
  IN  /\ At(w, "run") /\ task[w].stage = "code_intel"
      /\ \E found \in Normalized : Report(w, found, IF deep THEN {"tree"} ELSE {})
      /\ UNCHANGED <<tree, unpacked, archive>> /\ FilesOnly

\* The engine raises; static then removes its input directory, the tree with it.
EngineRaises(w) ==
  /\ At(w, "run")
  /\ Go(w, "settle")
  /\ tree' = IF task[w].stage = "static" THEN tree \ {HostOf[w]} ELSE tree
  /\ UNCHANGED <<unpacked, archive>> /\ FilesOnly

\* publish_tree: too large or not storable is no error.
Publish(w) ==
  /\ At(w, "publish")
  /\ \/ /\ archive' = TRUE
        /\ task' = [task EXCEPT ![w].phase = "snap", ![w].envelope.info = @ \cup {"key"}]
     \/ Go(w, "snap") /\ UNCHANGED archive
  /\ UNCHANGED <<tree, unpacked>> /\ FilesOnly

-----------------------------------------------------------------------------
(* StageRunner.complete: one transaction of three statements. *)

\* replace_for_stage: the delete sees the envelopes committed when it starts ...
Snapshot(w) ==
  /\ At(w, "snap")
  /\ clock' = clock + 1
  /\ task' = [task EXCEPT ![w].phase = "replace", ![w].envelope.id = clock + 1,
                          ![w].seen = {e.id : e \in EnvelopesOf(task[w].stage)}]
  /\ UNCHANGED <<rows, evidence, owner, pend, tree, unpacked, archive, faults, past>>
  /\ UNCHANGED <<given, ingestVars>>

\* Mutant: the envelope is added beside the one before it.
ReplaceNothing(w) ==
  /\ At(w, "replace")
  /\ Go(w, "upsert")
  /\ UNCHANGED <<rows, evidence, owner>> /\ DbOnly

\* ... waits for those another transaction is deleting, and removes what is left of
\* them, their findings with them.
Replace(w) ==
  LET s == task[w].stage
      left == task[w].seen \cap {e.id : e \in EnvelopesOf(s)}
  IN  /\ At(w, "replace")
      /\ \A v \in Others(w) :
           left \cap task[v].doomed = {} /\ OwnedBy(left, s) \cap Locked(v) = {}
      /\ task' = [task EXCEPT ![w].phase = "upsert", ![w].doomed = left, ![w].seen = {}]
      /\ UNCHANGED <<rows, evidence, owner>> /\ DbOnly

\* Mutant: on conflict do nothing.
UpsertNew(w) ==
  LET s == task[w].stage
      new == {f \in task[w].envelope.findings :
                owner[<<s, f>>] = 0 \/ owner[<<s, f>>] \in task[w].doomed}
  IN  /\ At(w, "upsert")
      /\ \A v \in Others(w) : task[w].envelope.findings \cap Locked(v) = {}
      /\ task' = [task EXCEPT ![w].phase = "commit", ![w].touched = new]
      /\ UNCHANGED <<rows, evidence, owner>> /\ DbOnly

\* bulk_upsert: waits for rows another transaction has written or is deleting, then
\* every finding is this envelope's.
Upsert(w) ==
  /\ At(w, "upsert")
  /\ \A v \in Others(w) : task[w].envelope.findings \cap Locked(v) = {}
  /\ task' = [task EXCEPT ![w].phase = "commit", ![w].touched = task[w].envelope.findings]
  /\ UNCHANGED <<rows, evidence, owner>> /\ DbOnly

\* finish_stage and the commit.
Complete(w) ==
  LET s == task[w].stage
  IN  /\ At(w, "commit")
      /\ rows' = [rows EXCEPT ![s] = "ok"]
      /\ evidence' = {e \in evidence : e.stage # s \/ e.id \notin task[w].doomed}
                       \cup {task[w].envelope}
      /\ owner' = [row \in Stages \X FindingIds |->
                     IF row[1] = s /\ row[2] \in task[w].touched THEN task[w].envelope.id
                     ELSE IF row[1] = s /\ owner[row] \in task[w].doomed THEN 0 ELSE owner[row]]
      /\ Depart(w, Leave(s))
      /\ DbOnly

-----------------------------------------------------------------------------
(* Leaving. *)

\* The finally block of code intel removes this host's workspace and the archive.
CleanUp(w) ==
  /\ At(w, "clean")
  /\ Go(w, "return")
  /\ tree' = tree \ {HostOf[w]} /\ unpacked' = unpacked \ {HostOf[w]}
  /\ archive' = FALSE /\ FilesOnly

\* The chain's next message is published before this one is acknowledged.
Return(w) ==
  /\ At(w, "return")
  /\ Go(w, "ack")
  /\ pend' = IF task[w].stage = "static" /\ "code_intel" \in given.chain
             THEN [pend EXCEPT !["code_intel"] = @ + 1]
             ELSE pend
  /\ UNCHANGED <<rows, evidence, owner, clock, tree, unpacked, archive, faults, past>>
  /\ UNCHANGED <<given, ingestVars>>

Ack(w) ==
  /\ At(w, "ack")
  /\ task' = [task EXCEPT ![w] = NoTask]
  /\ UNCHANGED <<tree, unpacked, archive>> /\ FilesOnly

\* The worker is lost, its transaction rolls back and its message is delivered again.
LoseWorker(w) ==
  /\ ~At(w, "idle") /\ faults < MaxFaults
  /\ faults' = faults + 1
  /\ pend' = [pend EXCEPT ![task[w].stage] = @ + 1]
  /\ task' = [task EXCEPT ![w] = NoTask]
  /\ UNCHANGED <<rows, evidence, owner, clock, tree, unpacked, archive, past>>
  /\ UNCHANGED <<given, ingestVars>>

\* The database fails a statement: the outer handler returns, the row stays as it was.
StageError(w) ==
  /\ task[w].phase \in {"claim", "settle", "replace", "upsert", "commit"}
  /\ faults < MaxFaults
  /\ faults' = faults + 1
  /\ Depart(w, Leave(task[w].stage))
  /\ UNCHANGED <<rows, evidence, owner, clock, pend, tree, unpacked, archive, past>>
  /\ UNCHANGED <<given, ingestVars>>

-----------------------------------------------------------------------------

Init ==
  /\ IngestInit
  /\ given \in [chain: {{"static"}, Stages}, jadx: BOOLEAN, reports: SUBSET FindingIds]
  /\ rows = [s \in Stages |-> "absent"]
  /\ evidence = {} /\ owner = [pair \in Stages \X FindingIds |-> 0] /\ clock = 0
  /\ \E n \in 0..MaxChains : pend = [s \in Stages |-> IF s = "static" THEN n ELSE 0]
  /\ task = [w \in Workers |-> NoTask]
  /\ tree = {} /\ unpacked = {} /\ archive = FALSE
  /\ faults = 0 /\ past = "single"

WorkerStep(w) ==
  \/ \E s \in Stages : Take(w, s)
  \/ Materialize(w) \/ Resolve(w) \/ FetchFails(w) \/ LookUp(w) \/ Claim(w) \/ Settle(w)
  \/ AnalyzeStatic(w) \/ AnalyzeCode(w) \/ EngineRaises(w) \/ Publish(w)
  \/ Snapshot(w) \/ Replace(w) \/ Upsert(w) \/ Complete(w)
  \/ CleanUp(w) \/ Return(w) \/ Ack(w)
  \/ LoseWorker(w) \/ StageError(w)

Quiet == /\ \A u \in Uploads : request[u] \in {"never", "done", "refused", "lost"}
         /\ \A w \in Workers : At(w, "idle")
         /\ jobs > 0 => \A s \in Stages : pend[s] = 0

Finished == Quiet /\ UNCHANGED vars

Next ==
  \/ \E u \in Uploads : UploadStep(u) /\ UNCHANGED storeVars
  \/ \E w \in Workers : WorkerStep(w)
  \/ Finished

Spec == Init /\ [][Next]_vars

-----------------------------------------------------------------------------
(* What should hold. *)

Envelopes ==
  [id: Nat, stage: Stages \cup {"none"}, host: Hosts \cup {"none"},
   findings: SUBSET FindingIds, info: SUBSET {"dir", "key", "tree"}]

Tasks ==
  [stage: Stages \cup {"none"},
   phase: {"idle", "read", "look", "claim", "run", "settle", "publish", "snap", "replace",
           "upsert", "commit", "clean", "return", "ack"},
   goal: {"work", "failed", "skipped"}, absent: BOOLEAN, source: {"none", "dir", "copy"},
   seen: SUBSET Nat, doomed: SUBSET Nat, touched: SUBSET FindingIds, envelope: Envelopes]

TypeOK ==
  /\ IngestTypeOK
  /\ given \in [chain: SUBSET Stages, jadx: BOOLEAN, reports: SUBSET FindingIds]
  /\ rows \in [Stages -> {"absent", "running", "ok", "failed", "skipped"}]
  /\ evidence \subseteq Envelopes /\ clock \in Nat
  /\ owner \in [Stages \X FindingIds -> Nat]
  /\ pend \in [Stages -> Nat] /\ task \in [Workers -> Tasks]
  /\ tree \subseteq Hosts /\ unpacked \subseteq Hosts /\ archive \in BOOLEAN
  /\ faults \in 0..MaxFaults /\ past \in {"single", "repeated", "overlapping"}

\* Deliveries that overlap may leave two envelopes of one stage run, but whatever an
\* envelope in the table reports is in the findings table: no delete takes a finding that
\* another envelope shares.
NothingLost ==
  \A e \in evidence : \A f \in e.findings : owner[<<e.stage, f>>] # 0

\* "a retried stage replaces its previous evidence rather than accumulating duplicates"
\* (repositories/evidence.py): true until two deliveries of one stage overlap.
NoStaleRows ==
  past # "overlapping" =>
    \A s \in Stages :
      /\ Cardinality(EnvelopesOf(s)) <= 1
      /\ \A f \in FindingIds :
           owner[<<s, f>>] # 0 <=> \E e \in EnvelopesOf(s) : f \in e.findings /\ e.id = owner[<<s, f>>]

\* Without a fault or a second delivery, code intel is as deep as static allows wherever
\* the two of them run: it has the tree if it was archived or is on its own host.
DepthKept ==
  faults = 0 /\ past = "single" =>
    \A e \in EnvelopesOf("code_intel") :
      "tree" \in e.info <=>
        \E d \in EnvelopesOf("static") :
          "key" \in d.info \/ ("dir" \in d.info /\ d.host = e.host)
=============================================================================
