----------------------------- MODULE SampleIngest -----------------------------
(***************************************************************************)
(* Uploads of one file: every request looks for the sample, stores its     *)
(* bytes under their hash, inserts the rows and dispatches a job after the *)
(* commit.  Requests run side by side; between two of their awaits is one  *)
(* action.  S3 puts an object as a whole; the local backend truncates the  *)
(* file first and fills it then, and shares its directory with the workers.*)
(*                                                                         *)
(* Simplifications: validation has passed; the dispatch after the commit   *)
(* is part of the commit (JobPipeline has its loss); of the jobs that are  *)
(* created only the first is followed.                                     *)
(***************************************************************************)
EXTENDS Naturals, FiniteSets

CONSTANTS
  Uploads,      \* requests that may bring the same bytes
  Configured,   \* what SEPHELA_STORAGE_BACKEND may be
  MaxLost       \* requests that may be lost

Backends == {"local", "s3"}

ASSUME IngestAssumption ==
  IsFiniteSet(Uploads) /\ Configured \subseteq Backends /\ MaxLost \in Nat

VARIABLES
  backend,  \* the configured backend
  blob,     \* the bytes under the sample's key, per backend
  request,  \* where each upload is
  sample,   \* the sample row is committed
  jobs,     \* jobs committed and dispatched
  lost,     \* requests lost so far
  mixed     \* a request met the file while another was writing it (history)

ingestVars == <<backend, blob, request, sample, jobs, lost, mixed>>

-----------------------------------------------------------------------------

Move(u, from, to) == request[u] = from /\ request' = [request EXCEPT ![u] = to]

\* get_by_sha256
Dedup(u) ==
  /\ Move(u, "new", IF sample THEN "known" ELSE "fresh")
  /\ UNCHANGED <<backend, blob, sample, jobs, lost, mixed>>

\* storage.exists: bytes that are there are not written again.
Probe(u) ==
  /\ Move(u, "fresh", IF blob[backend] = "absent" THEN "save" ELSE "stored")
  /\ mixed' = (mixed \/ blob[backend] = "part")
  /\ UNCHANGED <<backend, blob, sample, jobs, lost>>

\* S3Storage.save
PutObject(u) ==
  /\ backend = "s3"
  /\ Move(u, "save", "stored")
  /\ blob' = [blob EXCEPT !["s3"] = "whole"]
  /\ UNCHANGED <<backend, sample, jobs, lost, mixed>>

\* LocalStorage.save: write_bytes opens the file, which empties it, and fills it.
OpenFile(u) ==
  /\ backend = "local"
  /\ Move(u, "save", "writing")
  /\ blob' = [blob EXCEPT !["local"] = "part"]
  /\ mixed' = (mixed \/ blob["local"] # "absent")
  /\ UNCHANGED <<backend, sample, jobs, lost>>

FillFile(u) ==
  /\ Move(u, "writing", "stored")
  /\ blob' = [blob EXCEPT !["local"] = "whole"]
  /\ UNCHANGED <<backend, sample, jobs, lost, mixed>>

\* Mutant: the rows are committed before the bytes are stored.
CommitEarly(u) ==
  /\ request[u] \in {"fresh", "stored", "known"}
  /\ request' = [request EXCEPT ![u] = IF request[u] # "known" /\ sample
                                       THEN "refused" ELSE "done"]
  /\ sample' = TRUE
  /\ jobs' = jobs + (IF request'[u] = "done" THEN 1 ELSE 0)
  /\ UNCHANGED <<backend, blob, lost, mixed>>

\* The insert of sample and job, and their commit: the hash is unique, so of two
\* requests that saw no sample the second is refused.
Commit(u) ==
  /\ request[u] \in {"stored", "known"}
  /\ request' = [request EXCEPT ![u] = IF request[u] = "stored" /\ sample
                                       THEN "refused" ELSE "done"]
  /\ sample' = TRUE
  /\ jobs' = jobs + (IF request'[u] = "done" THEN 1 ELSE 0)
  /\ UNCHANGED <<backend, blob, lost, mixed>>

\* The API process dies, or the client goes away, and the request rolls back.
LoseRequest(u) ==
  /\ request[u] \notin {"never", "done", "refused", "lost"} /\ lost < MaxLost
  /\ request' = [request EXCEPT ![u] = "lost"]
  /\ lost' = lost + 1
  /\ UNCHANGED <<backend, blob, sample, jobs, mixed>>

IngestInit ==
  /\ backend \in Configured
  /\ blob = [b \in Backends |-> "absent"]
  /\ request \in [Uploads -> {"never", "new"}]
  /\ sample = FALSE /\ jobs = 0 /\ lost = 0 /\ mixed = FALSE

UploadStep(u) ==
  \/ Dedup(u) \/ Probe(u) \/ PutObject(u) \/ OpenFile(u) \/ FillFile(u) \/ Commit(u)
  \/ LoseRequest(u)

\* LocalStorage under settings.storage_local_root: what materialize_apk reads, whatever
\* the configured backend is.
Bytes == blob["local"]

-----------------------------------------------------------------------------

IngestTypeOK ==
  /\ backend \in Backends
  /\ blob \in [Backends -> {"absent", "part", "whole"}]
  /\ request \in [Uploads -> {"never", "new", "known", "fresh", "save", "writing",
                              "stored", "done", "refused", "lost"}]
  /\ sample \in BOOLEAN /\ jobs \in Nat
  /\ lost \in 0..MaxLost /\ mixed \in BOOLEAN

\* A sample row is never committed without its bytes: not by a request that found another
\* one's bytes, nor by one that overtakes another.  The local backend keeps this as long
\* as no request is lost inside a write or meets the file of another one's.
SampleHasBytes ==
  sample /\ (backend = "s3" \/ (lost = 0 /\ ~mixed)) => blob[backend] = "whole"

\* "a crash never leaves a job pointing at bytes that aren't there" (services/upload.py).
JobFindsItsBytes == jobs > 0 => Bytes = "whole"
=============================================================================
