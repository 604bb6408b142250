------------------------------- MODULE MCAnalysis ------------------------------
(* Retrieval, the correlation of answers, risk scoring, the sandbox and the report, which
   share no state: one of them is under way.                                          *)
EXTENDS Knowledge, Correlation, RiskScoring, Sandbox, ReportStage, TLC

VARIABLE part

\* The second version of document 1 is shorter, that of document 2 has headings only.
MCLength == << <<3, 2>>, <<2, 0>> >>
\* Within a document the last chunk's id comes second.
MCIdRank(i) == 3 * i[1] + ((2 * i[2]) % 3)
MCCost(c) == IF c.ord = 0 THEN 3 ELSE 1
MCScore(q, c) ==
  IF c.ord = 2 THEN 0 ELSE (IF q.family = "none" THEN c.doc ELSE 2) + ((c.text + c.ord) % 2)
MCKindOf == [d \in Docs |-> IF d = 1 THEN "technique" ELSE "malware_family"]
MCFamilyOf == [d \in Docs |-> IF d = 2 THEN "anubis" ELSE "none"]
MCKindsFor == ("network" :> {"malware_family"}) @@ ("other" :> {})
\* The workers of every part have the same names.
NameSymmetry == Permutations(Workers) \cup Permutations(Formats)

\* Deliveries are alike: they are numbered as they come.
Numbered == <<"t1", "t2", "t3">>
MCTasks == Range(Numbered)
InOrder == \A i \in 2..Len(Numbered) : task'[Numbered[i]] # "none" => task[Numbered[i - 1]] # "none"

Reported(i, e, t, s, c, m) ==
  [id |-> i, engine |-> e, type |-> t, severity |-> s, confidence |-> c, mitre |-> m]

\* Takeover, dropper and packer findings; the second form of "a" and of "b" is what the
\* engine finds when it runs again.
MCPool ==
  {Reported("a", "static", "signature", "critical", 96, <<"T1417.001", "T1417.002">>),
   Reported("a", "static", "permission", "low", 40, <<"T1636.004">>),
   Reported("b", "static", "native_code", "high", 90, <<"T1626">>),
   Reported("c", "static", "unheard_of", "medium", Unstated, <<>>),
   Reported("a", "intel", "signature", "critical", 100, <<"T1407", "T1620">>),
   Reported("b", "intel", "c2", "high", 75, <<"T1636.003">>),
   Reported("a", "dynamic", "runtime_behavior", "info", 45, <<"T1636.004">>)}

MCType == [i \in {"sample", "c2", "drop", "host"} |->
             CASE i = "sample" -> "hash" [] i = "c2" -> "domain" [] i = "drop" -> "url"
               [] i = "host" -> "ip"]
MCSlug == [l \in {"Cerberus", "cerberus", "Anubis"} |-> IF l = "Anubis" THEN l ELSE "cerberus"]

\* On either side of every threshold, with the names that matter.
VirusTotalSays ==
  {[flagged |-> n, responded |-> 40, label |-> l, threats |-> <<"Cerberus">>, detections |-> <<"X">>] :
     n \in {3, 4}, l \in {<<>>, <<"cerberus">>}}
    \cup {[flagged |-> 0, responded |-> n, label |-> <<>>, threats |-> <<>>, detections |-> <<>>] :
             n \in {0, 40}}
OtxSays ==
  {[pulses |-> n, families |-> <<"Anubis", "cerberus">>, adversaries |-> <<"Anubis">>] :
     n \in {2, 3}}
    \cup {[pulses |-> 0, families |-> <<>>, adversaries |-> <<>>]}
UrlHausSays ==
  {[offline |-> TRUE, threat |-> <<"Anubis">>, tags |-> <<"X">>],
   [offline |-> FALSE, threat |-> <<>>, tags |-> <<>>]}
HostSays == {[urls |-> n, threat |-> <<"Anubis">>, tags |-> <<>>] : n \in {0, 1}}
BazaarSays ==
  {[family |-> f, tags |-> <<"X">>, vendors |-> <<>>] : f \in {<<>>, <<"Cerberus">>}}
AbuseSays == {[confidence |-> c, reports |-> 0] : c \in {14, 15, 50}}
MCSays ==
  [feed \in ToSet(Feeds) |-> [type \in Handles[feed] |->
     CASE feed = "virustotal" -> VirusTotalSays [] feed = "otx" -> OtxSays
       [] feed = "bazaar" -> BazaarSays [] feed = "abuseipdb" -> AbuseSays
       [] OTHER -> IF type = "url" THEN UrlHausSays ELSE HostSays]]

\* A run finds more than is read for a report and that more than it carries, the worst
\* last; or nothing, before that or after it.
Said(i, s, t) == [id |-> i, severity |-> s, at |-> t]
MCFindings ==
  <<{Said(1, "made up", 1), Said(2, "low", 1), Said(3, "high", 2), Said(4, "critical", 3)}, {}>>

MCInit ==
  /\ KInit /\ CInit /\ SInit /\ SandboxInit /\ ReportInit
  /\ part \in {"retrieval", "correlation", "scoring", "sandbox", "report"}
  /\ part # "retrieval" => backend = "memory"
  /\ part # "sandbox" => mode = "script"

\* A search changes nothing but its own process, so one at a time is enough, and what is
\* left to a process that has answered is to end.
OneSearches ==
  /\ Cardinality({w \in Workers : proc'[w].phase \in {"asking", "answered"}}) <= 1
  /\ \A w \in Workers : proc[w].phase = "answered" => proc'[w] = Down

\* A client that has read all it wants touches nothing the tasks do: it goes first.
ClientFirst ==
  reader.phase \in {"record", "commit", "shown", "served", "gone", "error"} => reader' # reader

MCNext ==
  \/ part = "retrieval" /\ KNext /\ OneSearches /\ UNCHANGED <<cvars, svars, boxvars, rvars, part>>
  \/ part = "correlation" /\ CNext /\ UNCHANGED <<kvars, svars, boxvars, rvars, part>>
  \/ part = "scoring" /\ SNext /\ UNCHANGED <<kvars, cvars, boxvars, rvars, part>>
  \/ part = "sandbox" /\ SandboxNext /\ InOrder /\ UNCHANGED <<kvars, cvars, svars, rvars, part>>
  \/ part = "report" /\ ReportNext /\ ClientFirst /\ UNCHANGED <<kvars, cvars, svars, boxvars, part>>

MCSpec == MCInit /\ [][MCNext]_<<kvars, cvars, svars, boxvars, rvars, part>>
================================================================================
