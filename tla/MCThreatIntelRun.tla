--------------------------- MODULE MCThreatIntelRun ---------------------------
EXTENDS ThreatIntelRun

MCIndicators == {"hash", "url", "host", "domain"}

MCClass == [i \in MCIndicators |-> IF i = "hash" THEN "hash"
                                   ELSE IF i = "url" THEN "url" ELSE "domain"]

MCHostOf == [i \in MCIndicators |-> IF i = "url" THEN "host" ELSE i]

MCReported == {<<"dynamic", "url">>, <<"dynamic", "domain">>, <<"static", "host">>}

\* One provider answers for everything, the other for URLs only.
MCSupports == [p \in {"otx", "urlhaus"} |->
                 IF p = "otx" THEN {"hash", "url", "domain"} ELSE {"url"}]

MCKnown == {<<"url", "otx">>}
===============================================================================
