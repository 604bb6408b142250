---------------------------- MODULE ThreatIntelRun ----------------------------
(***************************************************************************)
(* One delivery after another of the threat-intel stage: indicators are    *)
(* harvested from the findings of earlier stages, each is given to one     *)
(* capable provider, and the lookups run concurrently behind the cache,    *)
(* the budget of the run, a semaphore, the token bucket of the provider    *)
(* and its circuit breaker.  Answers are added to the session and become   *)
(* durable with the stage's outcome.                                       *)
(*                                                                         *)
(* The event loop switches lookups only where they wait: at the cache, the *)
(* semaphore, the bucket, the provider and the store.  Everything between  *)
(* two waits is one action.                                                *)
(*                                                                         *)
(* Simplifications: an indicator is a value with a class; a verdict stands *)
(* for the whole answer; the bucket holds whole tokens; the breaker never  *)
(* half-opens, as its reset is longer than the time limit of a task.       *)
(***************************************************************************)
EXTENDS Integers, FiniteSets, Sequences

CONSTANTS
  Indicators,   \* every indicator a job may meet
  Sample,       \* the hash of the sample itself
  Class,        \* the class of each indicator
  HostOf,       \* the host indicator of a URL, or the URL itself
  Reported,     \* findings of earlier stages: pairs of an engine and an indicator
  Providers,
  Supports,     \* the classes each provider answers for
  Known,        \* pairs of indicator and provider that earlier jobs may have cached
  MaxRows,      \* MAX_FINDING_ROWS
  Cap,          \* indicators of one class that are harvested
  MaxLookups,   \* live calls of one run
  Concurrency,  \* calls in flight
  Threshold,    \* consecutive failures that open the breaker
  Capacity,     \* burst of a token bucket
  MaxCrashes    \* workers that may be lost

Engines == {"dynamic", "static"}

ASSUME HarvestAssumption ==
  /\ IsFiniteSet(Indicators) /\ Sample \in Indicators
  /\ HostOf \in [Indicators -> Indicators] /\ HostOf[Sample] = Sample
  /\ Reported \subseteq Engines \X Indicators /\ IsFiniteSet(Reported)
ASSUME ProviderAssumption ==
  /\ DOMAIN Class = Indicators /\ DOMAIN Supports = Providers
  /\ Known \subseteq Indicators \X Providers
ASSUME LimitAssumption ==
  /\ {MaxRows, Cap, MaxLookups, MaxCrashes} \subseteq Nat
  /\ {Concurrency, Threshold, Capacity} \subseteq Nat \ {0}

Verdict == {"malicious", "unknown"}

VARIABLES
  configured, \* providers with an API key; none also stands for a missing engine
  enabled,    \* policy
  findings,   \* what the findings table holds
  stage,      \* status of the stage row
  run,        \* "idle", "looking" or "over"
  plan,       \* indicators to look up
  route,      \* the provider each of them was given
  phase,      \* where each lookup is
  queue,      \* lookups waiting at the semaphore, first come first served
  channel,    \* the guardrails of each provider
  used,       \* units of the budget taken
  results,    \* the verdict of each indicator, if any
  pending,    \* answers added to the session
  rows,       \* answers in the enrichments table that have not expired
  crashes,    \* workers lost so far
  calls       \* per provider: calls begun, refills, failures, late calls (history)

vars == <<configured, enabled, findings, stage, run, plan, route, phase, queue,
          channel, used, results, pending, rows, crashes, calls>>

world == <<configured, enabled, findings>>

-----------------------------------------------------------------------------
(* Harvesting. *)

\* Rows of one class.
OfClass(R, c) == {r \in R : Class[r[2]] = c}

\* _finding_rows: a limited query without an order.
FindingRows(found) ==
  {R \in SUBSET found : Cardinality(R) = MaxRows
                         \/ (R = found /\ Cardinality(R) < MaxRows)}

\* Mutant: the rows are not sorted by engine.
KeptUnsorted(R) ==
  {K \in SUBSET R : \A c \in {Class[r[2]] : r \in R} :
     Cardinality(OfClass(K, c)) = Cap
       \/ (OfClass(K, c) = OfClass(R, c) /\ Cardinality(OfClass(R, c)) < Cap)}

\* iocs_from_findings: a cap per class on rows sorted by engine, observed ones first.
Kept(R) ==
  {K \in KeptUnsorted(R) :
     \A r \in K, dropped \in R \ K :
       Class[r[2]] = Class[dropped[2]] /\ dropped[1] = "dynamic" => r[1] = "dynamic"}

\* gather_iocs and expand_urls: the sample, what was kept, and the hosts of the URLs.
Candidates(K) ==
  LET iocs == {Sample} \cup {r[2] : r \in K} IN iocs \cup {HostOf[i] : i \in iocs}

Capable(i) == {p \in configured : Class[i] \in Supports[p]}

-----------------------------------------------------------------------------
(* The guardrails of a provider. *)

NewChannel == [tokens |-> Capacity, failures |-> 0, open |-> FALSE, exhausted |-> FALSE]

Usable(p) == ~channel[p].exhausted /\ ~channel[p].open

RecordSuccess(c) == [c EXCEPT !.failures = 0, !.open = FALSE]

\* Mutant: the threshold must be passed, not reached.
RecordFailureLate(c) ==
  IF c.failures > Threshold THEN [c EXCEPT !.failures = @ + 1, !.open = TRUE]
                            ELSE [c EXCEPT !.failures = @ + 1]

RecordFailure(c) ==
  IF c.failures + 1 >= Threshold THEN [c EXCEPT !.failures = @ + 1, !.open = TRUE]
                                 ELSE [c EXCEPT !.failures = @ + 1]

\* Lookups inside the semaphore.
InFlight == {i \in Indicators : phase[i] \notin {"none", "queued", "storing", "done"}}

BudgetLeft == used < MaxLookups

NoCalls == [begun |-> 0, refills |-> 0, failed |-> 0, answered |-> 0, late |-> 0]

NoRows == [pair \in Indicators \X Providers |-> "none"]

NoPhase == [i \in Indicators |-> "none"]

NewChannels == [p \in Providers |-> NewChannel]

NoneCalled == [p \in Providers |-> NoCalls]

\* What a run created for itself is gone with its process, and the session with it.
Forget ==
  /\ plan' = {} /\ route' = <<>> /\ phase' = NoPhase /\ queue' = <<>> /\ used' = 0
  /\ results' = NoPhase /\ channel' = NewChannels /\ calls' = NoneCalled
  /\ pending' = NoRows

-----------------------------------------------------------------------------
(* A delivery of the task. *)

Settled(status) ==
  /\ stage' = status /\ run' = "over"
  /\ UNCHANGED <<plan, route, phase, queue, channel, used, results,
                 pending, rows, crashes, calls>>

\* The policy gate and the missing providers.
Decline ==
  /\ run = "idle" /\ (~enabled \/ configured = {})
  /\ Settled(IF enabled THEN "failed" ELSE "skipped")
  /\ UNCHANGED world

\* analyze: candidates, and one capable provider for each, at random.
Begin ==
  /\ run = "idle" /\ enabled /\ configured # {}
  /\ stage' = "running" /\ run' = "looking"
  /\ \E R \in FindingRows(findings) : \E K \in Kept(R) :
       plan' = {i \in Candidates(K) : Capable(i) # {}}
  /\ route' \in {r \in [plan' -> configured] : \A i \in plan' : r[i] \in Capable(i)}
  /\ UNCHANGED <<phase, queue, channel, used, results, pending, rows, crashes, calls>>
  /\ UNCHANGED world

Lookup == /\ run = "looking" /\ UNCHANGED world
          /\ UNCHANGED <<stage, run, plan, route, rows, crashes>>

\* cache.get comes back; then the breaker is asked, then the budget.  The lookups get
\* here one after the other, in an order the query leaves open.
AskCache(i) ==
  LET p == route[i]
  IN  /\ Lookup /\ phase[i] = "none"
      /\ IF rows[<<i, p>>] # "none"
         THEN /\ results' = [results EXCEPT ![i] = rows[<<i, p>>]]
              /\ phase' = [phase EXCEPT ![i] = "done"]
              /\ UNCHANGED <<queue, used>>
         ELSE /\ UNCHANGED results
              /\ IF Usable(p) /\ BudgetLeft
                 THEN /\ phase' = [phase EXCEPT ![i] = "queued"]
                      /\ queue' = Append(queue, i) /\ used' = used + 1
                 ELSE /\ phase' = [phase EXCEPT ![i] = "done"]
                      /\ UNCHANGED <<queue, used>>
      /\ UNCHANGED <<channel, pending, calls>>

\* Mutant: a lookup that gives up keeps its place in the semaphore.
EnterKeepsSlot ==
  /\ Lookup /\ queue # <<>> /\ Cardinality(InFlight) < Concurrency
  /\ queue' = Tail(queue)
  /\ phase' = [phase EXCEPT ![Head(queue)] = IF Usable(route[Head(queue)])
                                             THEN "pacing" ELSE "leaving"]
  /\ UNCHANGED <<channel, used, results, pending, calls>>

\* Mutant: no second look at the breaker inside the semaphore.
EnterUnchecked ==
  /\ Lookup /\ queue # <<>> /\ Cardinality(InFlight) < Concurrency
  /\ queue' = Tail(queue)
  /\ phase' = [phase EXCEPT ![Head(queue)] = "pacing"]
  /\ UNCHANGED <<channel, used, results, pending, calls>>

\* The semaphore lets the first waiter in, which looks at the breaker once more.
Enter ==
  /\ Lookup /\ queue # <<>> /\ Cardinality(InFlight) < Concurrency
  /\ queue' = Tail(queue)
  /\ phase' = [phase EXCEPT ![Head(queue)] = IF Usable(route[Head(queue)])
                                             THEN "pacing" ELSE "done"]
  /\ UNCHANGED <<channel, used, results, pending, calls>>

\* TokenBucket.acquire: take a token and call, or sleep until the next one is due.
Acquire(i) ==
  LET p == route[i]
  IN  /\ Lookup /\ phase[i] = "pacing"
      /\ IF channel[p].tokens >= 1
         THEN /\ phase' = [phase EXCEPT ![i] = "calling"]
              /\ channel' = [channel EXCEPT ![p].tokens = @ - 1]
              /\ calls' = [calls EXCEPT ![p].begun = @ + 1,
                                        ![p].late = @ + IF channel[p].exhausted THEN 1 ELSE 0]
         ELSE phase' = [phase EXCEPT ![i] = "sleeping"] /\ UNCHANGED <<channel, calls>>
      /\ UNCHANGED <<queue, used, results, pending>>

Woken(p, to) ==
  [i \in Indicators |-> IF phase[i] = "sleeping" /\ route[i] = p THEN to ELSE phase[i]]

\* Mutant: a waiter that wakes up takes the token for granted.
RefillGrants(p) ==
  /\ Lookup /\ channel[p].tokens < Capacity
  /\ channel' = [channel EXCEPT ![p].tokens = @ + 1]
  /\ calls' = [calls EXCEPT ![p].refills = @ + 1,
                 ![p].begun = @ + Cardinality({i \in plan : phase[i] = "sleeping"
                                                                  /\ route[i] = p})]
  /\ phase' = Woken(p, "calling")
  /\ UNCHANGED <<queue, used, results, pending>>

\* Time passes: one more token, and everyone who waited for it wakes up.
Refill(p) ==
  /\ Lookup /\ channel[p].tokens < Capacity
  /\ channel' = [channel EXCEPT ![p].tokens = @ + 1]
  /\ calls' = [calls EXCEPT ![p].refills = @ + 1]
  /\ phase' = Woken(p, "pacing")
  /\ UNCHANGED <<queue, used, results, pending>>

\* The provider answers; the semaphore is left, the answer is not yet stored.
Answer(i) ==
  LET p == route[i]
  IN  /\ Lookup /\ phase[i] = "calling"
      /\ \E v \in Verdict : results' = [results EXCEPT ![i] = v]
      /\ phase' = [phase EXCEPT ![i] = "storing"]
      /\ channel' = [channel EXCEPT ![p] = RecordSuccess(@)]
      /\ calls' = [calls EXCEPT ![p].answered = @ + 1]
      /\ UNCHANGED <<queue, used, pending>>

\* Mutant: "no record" is not worth a row.
StoreFound(i) ==
  /\ Lookup /\ phase[i] = "storing"
  /\ phase' = [phase EXCEPT ![i] = "done"]
  /\ pending' = IF results[i] = "unknown" THEN pending
                ELSE [pending EXCEPT ![<<i, route[i]>>] = results[i]]
  /\ UNCHANGED <<queue, channel, used, results, calls>>

\* cache.put
Store(i) ==
  /\ Lookup /\ phase[i] = "storing"
  /\ phase' = [phase EXCEPT ![i] = "done"]
  /\ pending' = [pending EXCEPT ![<<i, route[i]>>] = results[i]]
  /\ UNCHANGED <<queue, channel, used, results, calls>>

\* HTTP 429, 401 or 403: the provider is done for this run.
Refused(i) ==
  /\ Lookup /\ phase[i] = "calling"
  /\ phase' = [phase EXCEPT ![i] = "done"]
  /\ channel' = [channel EXCEPT ![route[i]].exhausted = TRUE]
  /\ calls' = [calls EXCEPT ![route[i]].failed = @ + 1]
  /\ UNCHANGED <<queue, used, results, pending>>

\* Every other error.
Fails(i) ==
  /\ Lookup /\ phase[i] = "calling"
  /\ phase' = [phase EXCEPT ![i] = "done"]
  /\ channel' = [channel EXCEPT ![route[i]] = RecordFailure(@)]
  /\ calls' = [calls EXCEPT ![route[i]].failed = @ + 1]
  /\ UNCHANGED <<queue, used, results, pending>>

Merged == [pair \in Indicators \X Providers |->
             IF pending[pair] = "none" THEN rows[pair] ELSE pending[pair]]

\* gather is done: the outcome and the answers are one commit.
Complete ==
  /\ run = "looking"
  /\ \A i \in plan : phase[i] = "done"
  /\ stage' = "ok" /\ run' = "over"
  /\ rows' = Merged /\ pending' = NoRows
  /\ UNCHANGED <<plan, route, phase, queue, channel, used, results,
                 crashes, calls>> /\ UNCHANGED world

\* The harvest or the engine raises: the stage is failed, and the commit that says so
\* takes along the answers the session already holds.
GiveUp ==
  /\ run = "looking" /\ run' = "over" /\ stage' = "failed"
  /\ rows' = Merged
  /\ Forget
  /\ UNCHANGED crashes /\ UNCHANGED world

\* A database error or the soft time limit: the task returns, its session is lost and
\* the row stays as it was.
Abandon ==
  /\ run = "looking" /\ run' = "over"
  /\ Forget
  /\ UNCHANGED <<stage, rows, crashes>> /\ UNCHANGED world

\* The worker is lost and the message comes back; cached answers may expire meanwhile.
Redeliver ==
  /\ run = "looking" /\ crashes < MaxCrashes
  /\ crashes' = crashes + 1 /\ run' = "idle"
  /\ Forget
  /\ \E fresh \in SUBSET {pair \in Indicators \X Providers : rows[pair] # "none"} :
       rows' = [pair \in Indicators \X Providers |->
                  IF pair \in fresh THEN rows[pair] ELSE "none"]
  /\ UNCHANGED stage /\ UNCHANGED world

Init ==
  /\ configured \in SUBSET Providers /\ enabled \in BOOLEAN
  /\ findings \in SUBSET Reported
  /\ stage = "queued" /\ run = "idle"
  /\ plan = {} /\ route = <<>> /\ phase = NoPhase /\ queue = <<>> /\ used = 0
  /\ results = NoPhase /\ channel = NewChannels /\ calls = NoneCalled
  /\ pending = NoRows
  /\ \E known \in SUBSET Known :
       rows = [pair \in Indicators \X Providers |->
                 IF pair \in known THEN "malicious" ELSE "none"]
  /\ crashes = 0

LookupStep ==
  \/ Enter
  \/ \E i \in plan : AskCache(i) \/ Acquire(i) \/ Answer(i) \/ Store(i) \/ Refused(i) \/ Fails(i)
  \/ \E p \in configured : Refill(p)

Step == Decline \/ Begin \/ LookupStep \/ Complete

Done == run = "over" /\ UNCHANGED vars

Next == Step \/ GiveUp \/ Abandon \/ Redeliver \/ Done

\* Every call has a timeout, every sleep ends and the loop runs what is ready.
Spec == Init /\ [][Next]_vars /\ WF_vars(Step)

-----------------------------------------------------------------------------
(* What should hold. *)

Phases == {"none", "queued", "pacing", "sleeping", "calling", "storing", "done"}

Channels == [tokens: 0..Capacity, failures: Nat, open: BOOLEAN, exhausted: BOOLEAN]

Tallies == [begun: Nat, refills: Nat, failed: Nat, answered: Nat, late: Nat]

TypeOK ==
  /\ configured \subseteq Providers /\ enabled \in BOOLEAN /\ findings \subseteq Reported
  /\ stage \in {"queued", "running", "ok", "skipped", "failed"}
  /\ run \in {"idle", "looking", "over"}
  /\ plan \subseteq Indicators /\ \A i \in plan : route[i] \in Providers
  /\ phase \in [Indicators -> Phases]
  /\ queue \in Seq(Indicators)
  /\ channel \in [Providers -> Channels]
  /\ used \in 0..MaxLookups
  /\ results \in [Indicators -> Verdict \cup {"none"}]
  /\ {pending, rows} \subseteq [Indicators \X Providers -> Verdict \cup {"none"}]
  /\ crashes \in 0..MaxCrashes
  /\ calls \in [Providers -> Tallies]

\* Indicators that were seen at run time get the quota: one that only static analysis
\* reported is looked up only if every one of its class that was observed is, as long as
\* the query does not cut the findings short.  The host of a URL is looked up with it, or
\* for it when no configured provider knows URLs.
ObservedFirst ==
  LET Found == {r[2] : r \in findings}
      Derived == {HostOf[u] : u \in {v \in Found : HostOf[v] # v}}
      Observed == {j \in Indicators : <<"dynamic", j>> \in findings}
  IN  run = "looking" /\ Cardinality(findings) <= MaxRows =>
        \A i \in plan \ (Observed \cup Derived \cup {Sample}) :
          \A j \in Observed : Class[j] = Class[i] => j \in plan

\* Waiters of one bucket wake up together and never share a token.
Paced ==
  \A p \in Providers : calls[p].begun + channel[p].tokens <= Capacity + calls[p].refills

\* A feed that is down costs the threshold and what was in flight, and one that refuses
\* costs what was in flight, although a lookup checks the breaker before it waits for
\* the bucket.
FailureContained ==
  \A p \in Providers :
    /\ calls[p].answered = 0 => calls[p].failed <= Threshold + Concurrency - 1
    /\ calls[p].late <= Concurrency - 1

\* A stage that is done leaves a row for every verdict its evidence rests on.
AnswersKept ==
  stage = "ok" => \A i \in plan :
                    results[i] # "none" => rows[<<i, route[i]>>] = results[i]

\* No lookup waits for ever at the semaphore or the bucket: the task returns.
RunEnds == <>(run = "over")
=============================================================================
