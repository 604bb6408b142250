------------------------------ MODULE ReportStage ------------------------------
(* The end of a job: the scoring and the reporting task of each copy of the chain
   (backend/app/tasks/scoring.py, tasks/reporting.py), the report they assemble
   (services/reports.py) and render (engines/reporting), its files in object storage under
   names that every run of the job shares, and the two endpoints that serve it
   (api/v1/routers/reports.py).

   Simplifications.  The engines before are one step, which may leave other findings than
   the run before it; the stages are switched on, and their rows and the cancelled job are
   in JobPipeline; an envelope replaces the one before it in one step (StageStore has its
   statements).  The score is known by the findings it was computed from; the copy of it
   on the job's own row is left out: it is written after the envelope and read only without
   one.  Ids and times of findings are numbers, and no two findings share an id.  Files are
   written as on the local disk, emptied and then filled; what S3 puts is never met half
   written.  The wording of a report, its compliance mapping and what the model adds to it
   are left out.                                                                        *)
EXTENDS Naturals, FiniteSets

CONSTANTS
  Reporters,   \* workers that serve the scoring and the reporting queue
  Formats,     \* DEFAULT_FORMATS
  FindingsOf,  \* the findings of a job after each change of them, in the order of changes
  MaxReport,   \* MAX_REPORT_FINDINGS (250)
  MaxRead,     \* MAX_FINDINGS (5000)
  MaxChains, MaxMishaps   \* bounds of the model: copies of the chain, errors and losses

ASSUME ReportAssumption ==
  /\ IsFiniteSet(Formats) /\ {MaxChains, MaxMishaps} \subseteq Nat
  /\ MaxReport \in Nat /\ MaxRead \in Nat /\ MaxReport <= MaxRead
  /\ IsFiniteSet(DOMAIN FindingsOf) /\ DOMAIN FindingsOf = 1 .. Cardinality(DOMAIN FindingsOf)
  /\ \A v \in DOMAIN FindingsOf :
       /\ IsFiniteSet(FindingsOf[v])
       /\ \A f, g \in FindingsOf[v] : f.id \in Nat /\ f.at \in Nat /\ (f.id = g.id => f = g)

VARIABLES
  found,     \* the last change of the findings, 0 before any envelope
  scores,    \* the change of the findings the scoring envelope is of, 0 without one
  told,      \* the reporting envelope
  files,     \* format -> its file: the report in it, and whether that is known to be all there
  due,       \* messages in each queue
  hand,      \* worker -> its delivery
  reader,    \* one client of the endpoints
  errors,    \* stages that failed or were killed at their time limit, bounded as the losses are
  losses,    \* workers lost
  beside,    \* two deliveries of one task overlapped (history)
  cut        \* a delivery ended between its first file and its envelope (history)

rvars == <<found, scores, told, files, due, hand, reader, errors, losses, beside, cut>>

Unscored == 0
FindingVersions == 0 .. Cardinality(DOMAIN FindingsOf)

ReportOf(score, v, body) == [score |-> score, found |-> v, body |-> body]
NoReport == ReportOf(Unscored, 0, {})
NoRow == [report |-> NoReport, formats |-> {}]

File(r, whole) == [report |-> r, whole |-> whole]
NoFile == File(NoReport, FALSE)

Idle == [task |-> "none", phase |-> "idle", report |-> NoReport,
         formats |-> {}, left |-> {}, open |-> {}]
Waiting == [phase |-> "idle", fmt |-> "none", row |-> NoRow, got |-> NoFile,
            score |-> Unscored, audit |-> FALSE]

At(h, phase) == hand[h].phase = phase
Move(h, phase) == hand' = [hand EXCEPT ![h].phase = phase]

RowsKept == UNCHANGED <<found, scores, told, files>>
Counted == UNCHANGED <<due, reader, errors, losses, beside, cut>>

(* ------------------------------ what is in a report -------------------------- *)

Severities == <<"critical", "high", "medium", "low", "info">>

\* What an engine calls a severity may be anything; what is not known is reported as info.
SeverityRank(f) == IF \E i \in 1..5 : Severities[i] = f.severity
           THEN CHOOSE i \in 1..5 : Severities[i] = f.severity ELSE 5

Ahead(f, g) ==
  \/ SeverityRank(f) < SeverityRank(g)
  \/ SeverityRank(f) = SeverityRank(g) /\ f.id < g.id

\* The body carries as many findings as a report may, the worst of them.
Body(fs) == {f \in fs : Cardinality({g \in fs : Ahead(g, f)}) < MaxReport}

\* What a query for the oldest findings may return, in whatever order equals come.
Oldest(fs) ==
  {s \in SUBSET fs :
     /\ s = fs \/ Cardinality(s) = MaxRead
     /\ Cardinality(s) <= MaxRead
     /\ \A f \in s, g \in fs \ s : f.at <= g.at}

(* ------------------------------ scoring and reporting ------------------------ *)

Findings(v) == IF v = 0 THEN {} ELSE FindingsOf[v]

\* The engines of one copy of the chain are done.
EnginesDone ==
  /\ due.engines > 0
  /\ due' = [due EXCEPT !.engines = @ - 1, !.scoring = @ + 1]
  /\ found' \in {v \in FindingVersions : v >= found}
  /\ UNCHANGED <<scores, told, files, hand, reader, errors, losses, beside, cut>>

Begin(h, t, phase, r) ==
  /\ At(h, "idle") /\ due[t] > 0
  /\ due' = [due EXCEPT ![t] = @ - 1]
  /\ hand' = [hand EXCEPT ![h] = [Idle EXCEPT !.task = t, !.phase = phase, !.report = r]]
  /\ beside' = (beside \/ \E k \in Reporters : hand[k].task = t)
  /\ UNCHANGED <<reader, errors, losses, cut>> /\ RowsKept

\* Scoring reads the findings ...
BeginScoring(h) == Begin(h, "scoring", "score", ReportOf(Unscored, found, {}))

\* ... and replaces the envelope, or is skipped for want of findings and leaves it.
ScoreFindings(h) ==
  /\ At(h, "score")
  /\ scores' = IF Findings(hand[h].report.found) = {} THEN scores ELSE hand[h].report.found
  /\ Move(h, "return")
  /\ UNCHANGED <<found, told, files>> /\ Counted

\* Reporting reads the envelopes, with the score ...
BeginReporting(h) == Begin(h, "reporting", IF found = 0 THEN "return" ELSE "gather",
                           ReportOf(scores, 0, {}))

\* ... and then the findings, which may be of a later run than the envelopes.
Gather(h) ==
  /\ At(h, "gather")
  /\ \E s \in Oldest(Findings(found)) :
       hand' = [hand EXCEPT ![h].phase = "render",
                            ![h].report = ReportOf(@.score, found, Body(s))]
  /\ RowsKept /\ Counted

\* A renderer that fails costs its format; when all fail, two are tried once more.
RenderFormats(h) ==
  /\ At(h, "render")
  /\ \E done \in (SUBSET Formats) \ {{}} :
       hand' = [hand EXCEPT ![h].phase = "save", ![h].formats = done, ![h].left = done]
  /\ RowsKept /\ Counted

\* One file after the other is emptied, the file of an earlier run with it ...
StartFile(h) ==
  /\ At(h, "save") /\ hand[h].open = {}
  /\ \E f \in hand[h].left :
       /\ files' = [files EXCEPT ![f] = File(hand[h].report, FALSE)]
       /\ hand' = [hand EXCEPT ![h].open = {f}]
  /\ UNCHANGED <<found, scores, told>> /\ Counted

\* ... and filled.  Two deliveries that write one file may leave a mixture: from then on no
\* file counts as whole.
FinishFile(h) ==
  /\ At(h, "save")
  /\ \E f \in hand[h].open :
       /\ files' = [files EXCEPT ![f] = File(hand[h].report, ~beside)]
       /\ hand' = [hand EXCEPT ![h].left = @ \ {f}, ![h].open = {}]
  /\ UNCHANGED <<found, scores, told>> /\ Counted

\* Mutant: a report that is there is left alone.
TellOnce(h) ==
  /\ At(h, "save") /\ hand[h].left = {}
  /\ told' = IF told = NoRow THEN [report |-> hand[h].report, formats |-> hand[h].formats] ELSE told
  /\ Move(h, "return")
  /\ UNCHANGED <<found, scores, files>> /\ Counted

\* Mutant: the manifest has every format there is.
TellAll(h) ==
  /\ At(h, "save") /\ hand[h].left = {}
  /\ told' = [report |-> hand[h].report, formats |-> Formats]
  /\ Move(h, "return")
  /\ UNCHANGED <<found, scores, files>> /\ Counted

\* The envelope has the report and the manifest of its files.
Tell(h) ==
  /\ At(h, "save") /\ hand[h].left = {}
  /\ told' = [report |-> hand[h].report, formats |-> hand[h].formats]
  /\ Move(h, "return")
  /\ UNCHANGED <<found, scores, files>> /\ Counted

Tears(h) == At(h, "save") /\ (hand[h].left # hand[h].formats \/ hand[h].open # {})

\* The engine, every renderer, storage or the database fails: the stage has failed, what
\* it has stored stays, a file half written too, and so does the envelope of an earlier run.
StageFails(h) ==
  /\ hand[h].phase \in {"score", "gather", "render", "save"}
  /\ errors + losses < MaxMishaps /\ errors' = errors + 1
  /\ cut' = (cut \/ Tears(h))
  /\ hand' = [hand EXCEPT ![h].phase = "return", ![h].open = {}]
  /\ UNCHANGED <<due, reader, losses, beside>> /\ RowsKept

\* The chain goes on whatever the outcome, and then the message is acknowledged.
Return(h) ==
  /\ At(h, "return")
  /\ due' = IF hand[h].task = "scoring" THEN [due EXCEPT !.reporting = @ + 1] ELSE due
  /\ Move(h, "ack")
  /\ UNCHANGED <<reader, errors, losses, beside, cut>> /\ RowsKept

Acknowledge(h) ==
  /\ At(h, "ack")
  /\ hand' = [hand EXCEPT ![h] = Idle]
  /\ RowsKept /\ Counted

BreakOff(h) ==
  /\ ~At(h, "idle")
  /\ errors + losses < MaxMishaps
  /\ cut' = (cut \/ Tears(h))
  /\ hand' = [hand EXCEPT ![h] = Idle]
  /\ UNCHANGED <<reader, beside>> /\ RowsKept

\* The message of a worker that is lost comes back.
LoseReporter(h) ==
  /\ BreakOff(h) /\ losses' = losses + 1
  /\ due' = [due EXCEPT ![hand[h].task] = @ + 1]
  /\ UNCHANGED errors

\* One that is killed at the hard time limit is acknowledged, and its chain goes no further.
KillReporter(h) ==
  /\ BreakOff(h) /\ errors' = errors + 1
  /\ UNCHANGED <<due, losses>>

(* -------------------------------- the endpoints ------------------------------ *)

Answers(r) == reader' = r
             /\ UNCHANGED <<due, hand, errors, losses, beside, cut>> /\ RowsKept

\* get_report: the report, and then the score beside it.  Without a row both answer 404.
OpenPage ==
  /\ reader.phase = "idle" /\ told # NoRow
  /\ Answers([Waiting EXCEPT !.phase = "page", !.row = told])

AddScore ==
  /\ reader.phase = "page"
  /\ Answers([reader EXCEPT !.phase = "shown", !.score = scores])

\* download_report: the manifest must have the format, and storage the file.
AskDownload(f) ==
  /\ reader.phase = "idle" /\ f \in told.formats
  /\ Answers([Waiting EXCEPT !.phase = "load", !.fmt = f, !.row = told])

LoadFile ==
  /\ reader.phase = "load"
  /\ Answers([reader EXCEPT !.phase = IF files[reader.fmt] = NoFile THEN "gone" ELSE "record",
                          !.got = files[reader.fmt], !.fmt = "none"])

\* The download is put on record in the transaction; record swallows its failure, after
\* which the commit raises.
Record ==
  /\ reader.phase = "record"
  /\ \E written \in BOOLEAN : Answers([reader EXCEPT !.phase = "commit", !.audit = written])

AnswerDownload ==
  /\ reader.phase = "commit"
  /\ \E ok \in {reader.audit, FALSE} :
       Answers([reader EXCEPT !.phase = IF ok THEN "served" ELSE "error", !.audit = ok])

Forget ==
  /\ reader.phase \in {"shown", "served", "gone", "error"}
  /\ Answers(Waiting)

ReportInit ==
  /\ found = 0 /\ scores = Unscored /\ told = NoRow
  /\ files = [f \in Formats |-> NoFile]
  /\ due = [engines |-> MaxChains, scoring |-> 0, reporting |-> 0]
  /\ hand = [h \in Reporters |-> Idle]
  /\ reader = Waiting
  /\ errors = 0 /\ losses = 0 /\ beside = FALSE /\ cut = FALSE

ReporterStep(h) ==
  \/ BeginScoring(h) \/ ScoreFindings(h)
  \/ BeginReporting(h) \/ Gather(h) \/ RenderFormats(h) \/ StartFile(h) \/ FinishFile(h)
  \/ Tell(h) \/ StageFails(h) \/ Return(h) \/ Acknowledge(h)
  \/ LoseReporter(h) \/ KillReporter(h)

ReaderStep ==
  \/ OpenPage \/ AddScore \/ (\E f \in Formats : AskDownload(f)) \/ LoadFile
  \/ Record \/ AnswerDownload \/ Forget

ReportNext == EnginesDone \/ ReaderStep \/ \E h \in Reporters : ReporterStep(h)

ReportSpec == ReportInit /\ [][ReportNext]_rvars

(* -------------------------------- properties --------------------------------- *)

NotOlder(r, s) == r.found >= s.found /\ r.score >= s.score

\* Every format the manifest names has its file, whoever overwrote it and whenever the
\* reader comes for it; but it may be part of one, which is served like any other.  As long
\* as deliveries of a task do not overlap and none ended between its first file and its
\* envelope, that is so only while a delivery writes that very file.  What there is of a
\* file is of the report the API shows or of a later run, as long as deliveries do not
\* overlap; it is that report, the whole of it, if in addition none ended so and none is
\* at its files.  What was served is on record.  And a page never has a report of a newer
\* score beside an older one: the report is read before the score is, and as long as
\* deliveries do not overlap a score is replaced by later ones only.
ServedIsTheReport ==
  /\ \A f \in told.formats : files[f] # NoFile
  /\ \A f \in told.formats :
       \/ files[f].whole \/ beside \/ cut
       \/ \E h \in Reporters : At(h, "save") /\ f \in hand[h].open
  /\ reader.phase # "gone"
  /\ (~beside /\ reader.got # NoFile) => NotOlder(reader.got.report, reader.row.report)
  /\ (~beside /\ ~cut /\ \A h \in Reporters : ~Tears(h)) =>
       \A f \in told.formats : files[f] = File(told.report, TRUE)
  /\ reader.phase = "served" => reader.audit
  /\ reader.phase = "shown" /\ ~beside => reader.score >= reader.row.report.score

\* When every copy of the chain has come to its end, with no stage failed or killed at its
\* time limit and no two deliveries of a task at once, the report is of the score and the
\* findings the job has, whichever worker was lost: a copy that changed the findings scores
\* and reports after it.  Its body is full or has all there is, and leaves out nothing worse
\* than what it carries but what MAX_FINDINGS kept from being read, the findings recorded
\* last.
ReportIsCurrent ==
  /\ (/\ \A t \in DOMAIN due : due[t] = 0
      /\ \A h \in Reporters : At(h, "idle")
      /\ errors = 0 /\ ~beside /\ found # 0) =>
         told.report.score = scores /\ told.report.found = found
  /\ told # NoRow =>
       LET all == Findings(told.report.found)  body == told.report.body
       IN  /\ \A f \in all \ body, g \in body :
                \/ SeverityRank(g) <= SeverityRank(f)
                \/ Cardinality({e \in all : e.at <= f.at}) > MaxRead
           /\ Cardinality(body) = MaxReport \/ body = all
================================================================================
