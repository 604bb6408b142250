------------------------------ MODULE Correlation ------------------------------
(* How the threat-intel engine reads what its feeds say and turns the answers of one run
   into findings, and which of the findings get a row.

   A run asks one feed for each indicator (module ThreatIntelRun) and correlates what came
   back in the order of its candidates: the digests of the sample, then what the engines
   reported, in an order the database chooses.

   Scores and confidences are in thousandths; the ratio of detections is rounded down.
   Left out: the wording of a finding, its mappings, its locator and the mark that it came
   from the cache, which rebuilds an answer as it was; and the limits on how many names an
   answer keeps.                                                                       *)
EXTENDS Integers, Sequences, FiniteSets, FiniteSetsExt, SequencesExt

CONSTANTS
  Iocs,        \* the indicators of a job
  Type,        \* the class of each
  Says,        \* Says[feed][type]: the replies a feed may give about a class
  Slug,        \* the token a label leaves in the id of a finding
  MaxAnswers   \* bound: answers of a run

\* The feeds, in the order of their names, and the classes each answers for.
Feeds == <<"abuseipdb", "bazaar", "otx", "urlhaus", "virustotal">>

Handles ==
  [abuseipdb |-> {"ip"}, bazaar |-> {"hash"}, otx |-> {"hash", "domain", "ip", "url"},
   urlhaus |-> {"url", "domain", "ip"}, virustotal |-> {"hash", "domain", "ip", "url"}]

ASSUME CorrelationAssumption ==
  /\ Type \in [Iocs -> {"hash", "domain", "ip", "url"}]
  /\ MaxAnswers \in Nat

\* Labels are text, and every text leaves a token.
ASSUME SaysAssumption ==
  \A feed \in ToSet(Feeds) : \A type \in Handles[feed] : \A r \in Says[feed][type] :
    /\ feed = "virustotal" => r.label \in Seq(DOMAIN Slug) /\ r.threats \in Seq(DOMAIN Slug)
    /\ feed = "otx" => r.families \in Seq(DOMAIN Slug) /\ r.adversaries \in Seq(DOMAIN Slug)
    /\ feed = "urlhaus" => r.threat \in Seq(DOMAIN Slug)
    /\ feed = "bazaar" => r.family \in Seq(DOMAIN Slug)

VARIABLES
  answers,     \* the answers of the run, in the order of the candidates
  correlated,  \* whether they were turned into findings
  filed        \* the rows of the findings table

cvars == <<answers, correlated, filed>>

(* ---------------------------- what a feed says -------------------------------- *)

Reading(verdict, score, families, actors, signatures) ==
  [verdict |-> verdict, score |-> score, families |-> families, actors |-> actors,
   signatures |-> signatures]

\* No record: the feed answers 404, or says so in the body.
NoRecord == Reading("unknown", 0, <<>>, <<>>, <<>>)

\* Each name that is wanted once, where it first stands.
Firsts(names, wanted) ==
  FoldLeft(LAMBDA kept, n : IF n \in wanted \ ToSet(kept) THEN Append(kept, n) ELSE kept,
           <<>>, names)

Once(names) == Firsts(names, ToSet(names))

ReadVirusTotal(r) ==
  LET ratio == IF r.responded = 0 THEN 0 ELSE (1000 * r.flagged) \div r.responded
  IN  Reading(CASE r.responded = 0 -> "unknown"
                [] r.responded > 0 /\ 10 * r.flagged >= r.responded -> "malicious"
                [] 10 * r.flagged < r.responded /\ r.flagged >= 1 -> "suspicious"
                [] OTHER -> "benign",
              Min({1000, 2 * ratio}), Once(r.label \o r.threats), <<>>, Once(r.detections))

ReadOtx(r) ==
  Reading(CASE r.pulses >= 3 -> "malicious" [] r.pulses \in 1..2 -> "suspicious"
            [] OTHER -> "unknown",
          Min({1000, 100 * r.pulses}), Once(r.families), Once(r.adversaries), <<>>)

\* A listed URL keeps its verdict when it is offline; a host is judged by its URLs.
ReadUrlHaus(type, r) ==
  IF type = "url"
  THEN Reading("malicious", IF r.offline THEN 700 ELSE 1000, r.threat, <<>>, r.tags)
  ELSE Reading(IF r.urls > 0 THEN "malicious" ELSE "suspicious",
               CASE r.urls >= 3 -> 1000 [] r.urls \in 1..2 -> 800 [] OTHER -> 400,
               r.threat, <<>>, r.tags)

ReadBazaar(r) ==
  Reading("malicious", 1000, r.family, <<>>,
          IF r.vendors # <<>> THEN Once(r.vendors) ELSE r.tags)

ReadAbuseIpDb(r) ==
  Reading(CASE r.confidence >= 50 -> "malicious"
            [] r.confidence < 50 /\ (r.confidence >= 15 \/ r.reports > 0) -> "suspicious"
            [] OTHER -> "benign",
          Min({1000, 10 * r.confidence}), <<>>, <<>>, <<>>)

Read(feed, type, reply) ==
  CASE feed = "virustotal" -> ReadVirusTotal(reply)
    [] feed = "otx" -> ReadOtx(reply)
    [] feed = "urlhaus" -> ReadUrlHaus(type, reply)
    [] feed = "bazaar" -> ReadBazaar(reply)
    [] feed = "abuseipdb" -> ReadAbuseIpDb(reply)

(* -------------------------------- consensus ----------------------------------- *)

VerdictRank(verdict) ==
  CASE verdict = "malicious" -> 3 [] verdict = "suspicious" -> 2 [] verdict = "benign" -> 1
    [] OTHER -> 0

IsHit(a) == a.verdict \in {"malicious", "suspicious"}

\* A group is the set of places of its answers.
About(run, i) == {k \in DOMAIN run : run[k].ioc = i}

HitsOf(run, group) == {k \in group : IsHit(run[k])}

\* The worst answer counts.
Worst(run, group) ==
  run[CHOOSE k \in group :
        \A j \in group : VerdictRank(run[k].verdict) >= VerdictRank(run[j].verdict)].verdict

\* The best hit, and fifteen percent for each other one; without a hit, how many were asked.
Confidence(run, group) ==
  LET hits == HitsOf(run, group)
  IN  IF hits = {} THEN Min({900, 400 + 100 * Cardinality(group)})
      ELSE Min({1000, Max({run[k].score : k \in hits}) + 150 * (Cardinality(hits) - 1)})

\* How bad a hit is depends on what was hit.
SeverityOf(type, verdict) ==
  CASE verdict = "malicious" ->
         (CASE type = "hash" -> "critical" [] type = "ip" -> "medium" [] OTHER -> "high")
    [] verdict = "suspicious" -> IF type = "hash" THEN "high" ELSE "medium"
    [] OTHER -> "info"

(* --------------------------------- findings ----------------------------------- *)

Finding(id, type, severity, confidence, feed) ==
  [id |-> id, type |-> type, severity |-> severity, confidence |-> confidence, feed |-> feed]

\* The indicators of some answers of a run, in the order of its groups.
Grouped(run, some) == Firsts([k \in DOMAIN run |-> run[k].ioc], {run[k].ioc : k \in some})

Match(run, i) ==
  LET group == About(run, i)
  IN  Finding(<<"ioc", i>>, "ioc_match", SeverityOf(Type[i], Worst(run, group)),
              Confidence(run, group), run[Min(HitsOf(run, group))].feed)

IocMatches(run) ==
  LET hit == Grouped(run, HitsOf(run, DOMAIN run))
  IN  [k \in DOMAIN hit |-> Match(run, hit[k])]

First(names) == Feeds[Min({k \in DOMAIN Feeds : Feeds[k] \in names})]

\* Mutant: a family counts the indicators that led to it, not the feeds that name it.
FamilyByIndicators(run, f) ==
  LET naming == {a \in ToSet(run) : f \in ToSet(a.families)}
  IN  Finding(<<"family", Slug[f]>>, "family_attribution",
              IF Cardinality({a.ioc : a \in naming}) > 1 THEN "critical" ELSE "high",
              Min({1000, 400 + 200 * Cardinality({a.ioc : a \in naming})}),
              First({a.feed : a \in naming}))

\* Two feeds that name one family make it critical.
Family(run, f) ==
  LET feeds == {a.feed : a \in {b \in ToSet(run) : f \in ToSet(b.families)}}
  IN  Finding(<<"family", Slug[f]>>, "family_attribution",
              IF Cardinality(feeds) > 1 THEN "critical" ELSE "high",
              Min({1000, 400 + 200 * Cardinality(feeds)}), First(feeds))

Actor(run, n) ==
  LET feeds == {a.feed : a \in {b \in ToSet(run) : n \in ToSet(b.actors)}}
  IN  Finding(<<"actor", Slug[n]>>, "actor_attribution", "high",
              Min({1000, 300 + 200 * Cardinality(feeds)}), First(feeds))

Attributions(run) ==
  LET families == Once(FlattenSeq([k \in DOMAIN run |-> run[k].families]))
      actors == Once(FlattenSeq([k \in DOMAIN run |-> run[k].actors]))
  IN  [k \in DOMAIN families |-> Family(run, families[k])]
        \o [k \in DOMAIN actors |-> Actor(run, actors[k])]

\* One finding for each indicator with signatures, however many names it has.
Signature(run, i) ==
  Finding(<<"sig", i>>, "signature", "medium", Confidence(run, About(run, i)),
          run[Min(About(run, i))].feed)

Signatures(run) ==
  LET named == Grouped(run, {k \in DOMAIN run : run[k].signatures # <<>>})
  IN  [k \in DOMAIN named |-> Signature(run, named[k])]

BuildFindings(run) == IocMatches(run) \o Attributions(run) \o Signatures(run)

\* Of findings with one id the first gets a row.
RowsOf(findings) ==
  {findings[k] : k \in {n \in DOMAIN findings :
                          \A j \in 1..n - 1 : findings[j].id # findings[n].id}}

(* ---------------------------------- a run ------------------------------------- *)

\* An answer is a reading of one feed about one indicator.
Answered(i, feed, read) ==
  [ioc |-> i, feed |-> feed, verdict |-> read.verdict, score |-> read.score,
   families |-> read.families, actors |-> read.actors, signatures |-> read.signatures]

\* A feed that handles the indicator answers; a feed that fails leaves no answer.
Hear(i) ==
  /\ ~correlated /\ Len(answers) < MaxAnswers
  /\ \A a \in ToSet(answers) : a.ioc # i
  /\ Type[i] = "hash" => \A a \in ToSet(answers) : Type[a.ioc] = "hash"
  /\ \E feed \in ToSet(Feeds) :
       /\ Type[i] \in Handles[feed]
       /\ \E read \in {NoRecord} \cup {Read(feed, Type[i], r) : r \in Says[feed][Type[i]]} :
            answers' = Append(answers, Answered(i, feed, read))
  /\ UNCHANGED <<correlated, filed>>

\* The answers are in: findings, and their rows.
Correlate ==
  /\ ~correlated /\ correlated' = TRUE
  /\ filed' = RowsOf(BuildFindings(answers))
  /\ UNCHANGED answers

CInit == answers = <<>> /\ correlated = FALSE /\ filed = {}

CNext == (\E i \in Iocs : Hear(i)) \/ Correlate

CSpec == CInit /\ [][CNext]_cvars

(* ------------------------------ what should hold ------------------------------- *)

\* Two spellings of a label leave one id, and one of them no row.
SpelledTwice ==
  LET labels == UNION {ToSet(a.families) \cup ToSet(a.actors) : a \in ToSet(answers)}
  IN  \E l, m \in labels : l # m /\ Slug[l] = Slug[m]

\* The rows say what the answers say, in whatever order they stand: every adverse answer
\* and every label is behind a row; a row is critical when the sample itself is known to
\* be malicious or two feeds name one family, and in no other case; and only labels that
\* are spelled in two ways leave the choice of a row to the order.
FindingsFollowAnswers ==
  correlated =>
    LET Naming(f) == {a.feed : a \in {b \in ToSet(answers) : f \in ToSet(b.families)}}
        Known == \E a \in ToSet(answers) : Type[a.ioc] = "hash" /\ a.verdict = "malicious"
        Agreed(slug) == \E f \in DOMAIN Slug : Slug[f] = slug /\ Cardinality(Naming(f)) > 1
    IN  /\ \A a \in ToSet(answers) :
             /\ IsHit(a) => \E r \in filed : r.id = <<"ioc", a.ioc>> /\ r.severity # "info"
             /\ \A f \in ToSet(a.families) : \E r \in filed : r.id = <<"family", Slug[f]>>
             /\ \A n \in ToSet(a.actors) : \E r \in filed : r.id = <<"actor", Slug[n]>>
        /\ \A r \in filed : r.severity = "critical" =>
             \/ r.type = "ioc_match" /\ Type[r.id[2]] = "hash" /\ Known
             \/ r.type = "family_attribution" /\ Agreed(r.id[2])
        /\ Known => \E r \in filed : r.type = "ioc_match" /\ r.severity = "critical"
        /\ ~SpelledTwice =>
             /\ \A f \in DOMAIN Slug : Cardinality(Naming(f)) > 1 =>
                  \E r \in filed : r.id = <<"family", Slug[f]>> /\ r.severity = "critical"
             /\ \A order \in Bijection(DOMAIN answers, DOMAIN answers) :
                  filed = RowsOf(BuildFindings([k \in DOMAIN answers |-> answers[order[k]]]))
=============================================================================
