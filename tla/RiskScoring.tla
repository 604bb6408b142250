------------------------------ MODULE RiskScoring ------------------------------
(* Risk scoring (src/backend/app/tasks/scoring.py over src/ai/scoring): the findings a job
   has in the table are read in the order of their creation, translated to the scoring
   vocabulary and turned into a score, a tier and a malware category.  Stages may deliver
   again between two scorings and replace their findings.

   Scores are in hundredths of a point, confidences in percent.  Halves are rounded to
   even; the one entry of the tables where floating point does otherwise is severity info
   with confidence 85% and weight 15 (1.27 for 1.28).  Sums are exact here, while the
   code adds floating point numbers: see the README on what that does at a threshold.
   Left out: the confidence of the whole assessment, the lists kept for display, the votes
   of permission combinations and of families in the AI stage's output.               *)
EXTENDS Integers, FiniteSets, Sequences, FiniteSetsExt, SequencesExt

CONSTANTS
  Pool,         \* the findings engines may report: [id, engine, type, severity, confidence,
                \* mitre]; confidence is a percentage or Unstated, mitre a sequence
  MaxFindings,  \* the cap on what is read (code: 5000)
  MaxBatches    \* bound: stage deliveries

Unstated == -1

ASSUME ScoringAssumption ==
  /\ MaxFindings \in Nat \ {0} /\ MaxBatches \in Nat
  /\ \A f \in Pool : f.confidence \in {Unstated} \cup 0..100 /\ f.mitre \in Seq(STRING \ {""})

VARIABLES
  rows,      \* the findings table of the job: a finding and the delivery it came with
  batch,     \* deliveries so far
  verdict    \* the last scoring: what was read, score, tier, category

svars == <<rows, batch, verdict>>

(* ------------------------- tables (constants.py) ----------------------------- *)

Weights == [manifest |-> 10, permissions |-> 15, code |-> 20, api |-> 15, network |-> 15,
            threat_intel |-> 15, dynamic |-> 10]
Domains == DOMAIN Weights

SeverityScore(s) ==
  CASE s = "critical" -> 100 [] s = "high" -> 75 [] s = "medium" -> 50 [] s = "low" -> 25
    [] OTHER -> 10

Multiplier(label) ==
  CASE label = "very_high" -> 100 [] label = "high" -> 85 [] label = "medium" -> 60
    [] label = "low" -> 30

TypesOf ==
  [manifest |-> {"exported_component", "debuggable", "backup_allowed", "cleartext",
                 "certificate", "manifest_config"},
   permissions |-> {"permission", "permission_risk"},
   api |-> {"dangerous_api", "api_usage", "api", "reflection", "native_code"},
   network |-> {"network", "c2", "data_exfil", "suspicious_domain", "pinning_bypass", "url", "ip"},
   threat_intel |-> {"threat_intel", "ioc_match", "family_attribution", "actor_attribution",
                     "signature"},
   dynamic |-> {"runtime_behavior", "dynamic"}]

\* Types nobody lists are code, like control_flow, obfuscation, anti_analysis, behavior.
DomainOf(type) ==
  IF \E d \in DOMAIN TypesOf : type \in TypesOf[d]
  THEN CHOOSE d \in DOMAIN TypesOf : type \in TypesOf[d] ELSE "code"

Tier(score) ==
  CASE score >= 9000 -> "critical" [] score \in 7000..8999 -> "malicious"
    [] score \in 4000..6999 -> "suspicious" [] OTHER -> "benign"

Tiers == <<"benign", "suspicious", "malicious", "critical">>
Rank(tier) == CHOOSE i \in DOMAIN Tiers : Tiers[i] = tier

Rule(bonus, domains, types, mitre) ==
  [bonus |-> 100 * bonus, domains |-> domains, types |-> types, mitre |-> mitre]

SynergyRules ==
  {Rule(15, {}, {}, {"T1417.002", "T1636.004"}),
   Rule(20, {}, {}, {"T1417.001", "T1417.002", "T1626"}),
   Rule(15, {"network"}, {}, {"T1407", "T1620"}),
   Rule(12, {"network"}, {}, {"T1636.004", "T1636.003"}),
   Rule(10, {}, {"obfuscation", "anti_analysis", "native_code"}, {}),
   Rule(8,  {}, {"reflection"}, {"T1623"}),
   Rule(5,  {}, {"cleartext", "debuggable"}, {}),
   Rule(12, {"threat_intel", "permissions"}, {}, {}),
   Rule(8,  {}, {}, {"T1573", "T1041"}),
   Rule(12, {}, {}, {"T1417.001", "T1636.004"})}

(* ------------------------- translation (scoring.py) -------------------------- *)

ConfidenceLabel(c) ==
  CASE c = Unstated -> "medium" [] c >= 95 -> "very_high" [] c \in 75..94 -> "high"
    [] c \in 45..74 -> "medium" [] OTHER -> "low"

\* A code engine's signature is a packer match, not a feed hit.
ScoringType(engine, type) ==
  CASE type = "signature" /\ engine \in {"static", "code_intel"} -> "anti_analysis"
    [] type = "cert" -> "certificate"
    [] OTHER -> type

ToScoring(f) ==
  [type |-> ScoringType(f.engine, f.type), mitre |-> f.mitre,
   points |-> SeverityScore(f.severity) * Multiplier(ConfidenceLabel(f.confidence))]

(* ------------------------- the engine (engine.py) ---------------------------- *)

Halved(n) == LET q == n \div 100  r == n % 100
             IN IF r > 50 \/ (r = 50 /\ q % 2 = 1) THEN q + 1 ELSE q

Points(fs, d) == {fs[i].points : i \in {j \in DOMAIN fs : DomainOf(fs[j].type) = d}}

\* Mutant: a domain counts the average of its findings.
DomainAverage(fs, d) ==
  IF Points(fs, d) = {} THEN 0
  ELSE Halved((SumSet(Points(fs, d)) \div Cardinality(Points(fs, d))) * Weights[d])

\* A domain counts its strongest finding.
DomainScore(fs, d) ==
  IF Points(fs, d) = {} THEN 0 ELSE Halved(Max(Points(fs, d)) * Weights[d])

BaseScore(fs) == MapThenSumSet(LAMBDA d : DomainScore(fs, d), Domains)

ActiveDomains(fs) == {DomainOf(fs[i].type) : i \in DOMAIN fs}
ActiveTypes(fs) == {fs[i].type : i \in DOMAIN fs}
ActiveMitre(fs) == UNION {ToSet(fs[i].mitre) : i \in DOMAIN fs}

EvaluateSynergy(fs) ==
  {r \in SynergyRules : /\ r.domains \subseteq ActiveDomains(fs)
                        /\ r.types \subseteq ActiveTypes(fs)
                        /\ r.mitre \subseteq ActiveMitre(fs)}

Synergy(fs) == MapThenSumSet(LAMBDA r : r.bonus, EvaluateSynergy(fs))

FinalScore(fs) == Min({10000, BaseScore(fs) + Synergy(fs)})

(* ------------------------- categories (categorizer.py) ----------------------- *)

Vote(category, weight) == [for |-> category, weight |-> weight]

MitreVotes(t) ==
  CASE t = "T1636.004" -> <<Vote("banking_trojan", 2), Vote("spyware", 2)>>
    [] t = "T1623" -> <<Vote("banking_trojan", 2), Vote("rootkit", 2)>>
    [] t \in {"T1417.001", "T1417.002", "T1626", "T1204"} -> <<Vote("banking_trojan", 2)>>
    [] t \in {"T1636.003", "T1636.001", "T1429", "T1512", "T1430"} -> <<Vote("spyware", 2)>>
    [] t \in {"T1407", "T1620"} -> <<Vote("dropper", 2)>>
    [] t \in {"T1486", "T1489"} -> <<Vote("ransomware", 2)>>
    [] OTHER -> <<>>

TypeVotes(t) ==
  CASE t = "c2" -> <<Vote("banking_trojan", 3), Vote("spyware", 2)>>
    [] t = "data_exfil" -> <<Vote("spyware", 3), Vote("banking_trojan", 1)>>
    [] t = "reflection" -> <<Vote("dropper", 2), Vote("banking_trojan", 1)>>
    [] t = "control_flow" -> <<Vote("banking_trojan", 2), Vote("dropper", 1)>>
    [] t = "obfuscation" -> <<Vote("banking_trojan", 1), Vote("dropper", 1)>>
    [] t = "anti_analysis" -> <<Vote("banking_trojan", 2), Vote("rootkit", 1)>>
    [] t = "suspicious_domain" -> <<Vote("banking_trojan", 1), Vote("spyware", 1)>>
    [] t = "native_code" -> <<Vote("rootkit", 2)>>
    [] t = "debuggable" -> <<Vote("riskware", 2)>>
    [] t \in {"backup_allowed", "cleartext"} -> <<Vote("riskware", 1)>>
    [] t \in {"permission", "permission_risk"} -> <<Vote("spyware", 1)>>
    [] t \in {"exported_component", "behavior"} -> <<Vote("banking_trojan", 1)>>
    [] t = "pinning_bypass" -> <<Vote("banking_trojan", 2)>>
    [] t = "signature" -> <<Vote("banking_trojan", 3)>>
    [] t \in {"ioc_match", "family_attribution"} -> <<Vote("banking_trojan", 5)>>
    [] OTHER -> <<>>

Each(fs, Votes(_)) == FlattenSeq([i \in DOMAIN fs |-> Votes(fs[i])])

\* All techniques vote before any type does.
Ballot(fs) ==
  Each(fs, LAMBDA f : FlattenSeq([i \in DOMAIN f.mitre |-> MitreVotes(f.mitre[i])]))
    \o Each(fs, LAMBDA f : TypeVotes(f.type))

Total(ballot, c) ==
  MapThenSumSet(LAMBDA i : ballot[i].weight, {i \in DOMAIN ballot : ballot[i].for = c})

Leaders(ballot) ==
  LET named == {ballot[i].for : i \in DOMAIN ballot}
  IN {c \in named : \A d \in named : Total(ballot, d) <= Total(ballot, c)}

\* Of those that lead, the one that was voted for first.
Classify(ballot) ==
  IF ballot = <<>> THEN "unknown"
  ELSE ballot[Min({i \in DOMAIN ballot : ballot[i].for \in Leaders(ballot)})].for

(* ------------------------------- behaviour ----------------------------------- *)

Engines == {f.engine : f \in Pool}

\* A stage that completes again drops its earlier envelope and the findings with it.
Deliver(e) ==
  /\ batch < MaxBatches /\ batch' = batch + 1
  /\ \E fs \in SUBSET {f \in Pool : f.engine = e} :
       /\ IsFiniteSet(fs) /\ \A f, g \in fs : f.id = g.id => f = g
       /\ rows' = {r \in rows : r.finding.engine # e} \cup {[finding |-> f, at |-> batch + 1] : f \in fs}
  /\ UNCHANGED verdict

\* ORDER BY created_at LIMIT: rows of one delivery have one time, their order is open.
Reads ==
  {s \in [1..Min({MaxFindings, Cardinality(rows)}) -> rows] :
     /\ \A i, j \in DOMAIN s : i < j => s[i] # s[j] /\ s[i].at <= s[j].at
     /\ \A i \in DOMAIN s : \A r \in rows : r.at < s[i].at => \E j \in DOMAIN s : s[j] = r}

Verdict(s) ==
  LET fs == [i \in DOMAIN s |-> ToScoring(s[i].finding)] IN
  [read |-> {s[i].finding : i \in DOMAIN s}, score |-> FinalScore(fs),
   tier |-> Tier(FinalScore(fs)), category |-> Classify(Ballot(fs)),
   clear |-> Cardinality(Leaders(Ballot(fs))) <= 1]

NoVerdict == [read |-> {}, score |-> 0, tier |-> "benign", category |-> "unknown", clear |-> TRUE]

\* A job without findings is skipped, and keeps the verdict it has.
ScoreJob ==
  /\ rows # {}
  /\ \E s \in Reads : verdict' = Verdict(s)
  /\ UNCHANGED <<rows, batch>>

SInit == rows = {} /\ batch = 0 /\ verdict = NoVerdict
SNext == (\E e \in Engines : Deliver(e)) \/ ScoreJob
SSpec == SInit /\ [][SNext]_svars

(* ------------------------------- properties ---------------------------------- *)

\* Scoring a job again after evidence was added never lowers its score or its tier; the
\* same evidence, in whatever order its rows are returned, gets the same score and tier,
\* and the same category unless two categories lead with equal votes: then the order of
\* rows of one delivery decides ("deterministic and reproducible", categorizer.py:9).
MoreNeverLess ==
  [][verdict.read \subseteq verdict'.read =>
       /\ verdict'.score >= verdict.score /\ Rank(verdict'.tier) >= Rank(verdict.tier)
       /\ verdict.read = verdict'.read => /\ verdict'.score = verdict.score
                                          /\ verdict.clear => verdict'.category = verdict.category
    ]_svars
================================================================================
