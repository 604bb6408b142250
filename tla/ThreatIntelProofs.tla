--------------------------- MODULE ThreatIntelProofs ---------------------------
(***************************************************************************)
(* Proofs about ThreatIntelRun for every set of indicators and providers   *)
(* and every limit: the bucket is never overdrawn, a provider that is down *)
(* or refuses costs no more calls than were in flight, and every verdict   *)
(* the evidence rests on has its row.                                      *)
(***************************************************************************)
EXTENDS ThreatIntelRun, FiniteSetTheorems, SequenceTheorems, TLAPS

-----------------------------------------------------------------------------
(* The inductive invariant. *)

Waiting == {"none", "queued", "pacing", "sleeping", "calling"}

\* Only planned indicators are looked up, each at most once in the queue; a lookup that
\* still waits has no verdict and nothing in the session.
Orderly ==
  /\ \A i \in Indicators : phase[i] # "none" => i \in plan /\ run # "idle"
  /\ \A k \in 1..Len(queue) : phase[queue[k]] = "queued"
  /\ \A j, k \in 1..Len(queue) : queue[j] = queue[k] => j = k
  /\ \A i \in Indicators : phase[i] \in Waiting => results[i] = "none"

\* The session holds the verdicts of the lookups that stored theirs.
Stored ==
  run # "over" =>
    /\ \A i \in Indicators, p \in Providers :
         pending[<<i, p>>] # "none" => i \in plan /\ route[i] = p /\ phase[i] = "done"
    /\ \A i \in plan :
         phase[i] = "done" /\ results[i] # "none" =>
           \/ pending[<<i, route[i]>>] = results[i]
           \/ pending[<<i, route[i]>>] = "none" /\ rows[<<i, route[i]>>] = results[i]

InFlightAt(p) == {i \in InFlight : route[i] = p}

\* Before they call.
PacingAt(p) == {i \in InFlightAt(p) : phase[i] \in {"pacing", "sleeping"}}

\* What a provider that was never reached has cost, with what may still be lost on it.
Contained(p) ==
  /\ calls[p].answered = 0 =>
       IF Usable(p)
       THEN calls[p].failed = channel[p].failures /\ calls[p].failed < Threshold
       ELSE calls[p].failed + Cardinality(InFlightAt(p)) <= Threshold + Concurrency - 1
  /\ IF channel[p].exhausted
     THEN calls[p].late + Cardinality(PacingAt(p)) <= Concurrency - 1
     ELSE calls[p].late = 0

Accounted == Stored /\ (stage = "ok" => run = "over") /\ AnswersKept

Bounded == Cardinality(InFlight) <= Concurrency /\ \A p \in Providers : Contained(p)

Inv == TypeOK /\ Orderly /\ Accounted /\ Paced /\ Bounded

-----------------------------------------------------------------------------
(* What the steps of a lookup change. *)

\* The phases of a run that has forgotten its lookups.
LEMMA NothingYet ==
  /\ NoPhase \in [Indicators -> Phases] /\ NoPhase \in [Indicators -> Verdict \cup {"none"}]
  /\ \A i \in Indicators : NoPhase[i] = "none"
  /\ NoRows \in [Indicators \X Providers -> Verdict \cup {"none"}]
  /\ \A i \in Indicators, p \in Providers : NoRows[<<i, p>>] = "none"
  /\ NewChannels \in [Providers -> Channels] /\ NoneCalled \in [Providers -> Tallies]
  /\ \A p \in Providers : NewChannels[p] = NewChannel /\ NoneCalled[p] = NoCalls
BY LimitAssumption
   DEF NoPhase, Phases, NoRows, NewChannels, NewChannel, Channels, NoneCalled, NoCalls, Tallies

\* One lookup moves on, in the channel and the tally of its provider.
LEMMA MoveType ==
  ASSUME TypeOK, NEW i \in plan, NEW x \in Phases, NEW c \in Channels, NEW n \in Tallies,
         phase' = [phase EXCEPT ![i] = x],
         channel' = [channel EXCEPT ![route[i]] = c], calls' = [calls EXCEPT ![route[i]] = n],
         queue' \in Seq(Indicators), used' \in 0..MaxLookups,
         results' \in [Indicators -> Verdict \cup {"none"}],
         pending' \in [Indicators \X Providers -> Verdict \cup {"none"}],
         UNCHANGED <<stage, run, plan, route, rows, crashes>>, UNCHANGED world
  PROVE  TypeOK'
<1>1. route[i] \in Providers /\ i \in Indicators
  BY DEF TypeOK
<1>2. /\ phase' \in [Indicators -> Phases] /\ channel' \in [Providers -> Channels]
      /\ calls' \in [Providers -> Tallies]
  BY <1>1 DEF TypeOK
<1>3. QED
  BY <1>2 DEF TypeOK, world

\* What success and failure leave of a channel.
LEMMA Records ==
  ASSUME NEW c \in Channels
  PROVE  /\ RecordSuccess(c) \in Channels
         /\ RecordSuccess(c).tokens = c.tokens /\ RecordSuccess(c).exhausted = c.exhausted
         /\ RecordFailure(c) \in Channels
         /\ RecordFailure(c).tokens = c.tokens /\ RecordFailure(c).exhausted = c.exhausted
         /\ RecordFailure(c).failures = c.failures + 1
         /\ c.open = TRUE => RecordFailure(c).open = TRUE
         /\ c.failures + 1 >= Threshold => RecordFailure(c).open = TRUE
         /\ c.failures + 1 < Threshold => RecordFailure(c).open = c.open
<1>1. /\ RecordSuccess(c) \in Channels
      /\ RecordSuccess(c).tokens = c.tokens /\ RecordSuccess(c).exhausted = c.exhausted
  BY DEF Channels, RecordSuccess
<1>2. c.failures \in Nat /\ Threshold \in Nat
  BY LimitAssumption DEF Channels
<1>3. CASE c.failures + 1 >= Threshold
  <2> DEFINE Opened(n) == [c EXCEPT !.failures = n, !.open = TRUE]
  <2>1. \A n \in Nat : /\ Opened(n) \in Channels
                       /\ Opened(n).tokens = c.tokens /\ Opened(n).exhausted = c.exhausted
                       /\ Opened(n).failures = n /\ Opened(n).open = TRUE
    BY DEF Channels
  <2>2. RecordFailure(c) = Opened(c.failures + 1)
    BY <1>3 DEF RecordFailure
  <2> HIDE DEF Opened
  <2>3. QED
    BY <1>1, <1>2, <1>3, <2>1, <2>2
<1>4. CASE ~(c.failures + 1 >= Threshold)
  <2>1. RecordFailure(c) = [c EXCEPT !.failures = c.failures + 1]
    BY <1>4 DEF RecordFailure
  <2>2. /\ RecordFailure(c) \in Channels
        /\ RecordFailure(c).tokens = c.tokens /\ RecordFailure(c).exhausted = c.exhausted
        /\ RecordFailure(c).failures = c.failures + 1 /\ RecordFailure(c).open = c.open
    BY <1>2, <2>1 DEF Channels
  <2>3. QED
    BY <1>1, <1>2, <1>4, <2>2
<1>5. QED
  BY <1>3, <1>4

\* The provider of a planned indicator, and what it has.
LEMMA RouteType ==
  ASSUME TypeOK, NEW i \in plan
  PROVE  /\ i \in Indicators /\ route[i] \in Providers /\ <<i, route[i]>> \in Indicators \X Providers
         /\ channel[route[i]] \in Channels /\ calls[route[i]] \in Tallies
BY DEF TypeOK

\* One more call, failure, answer or refill counted.
LEMMA TallyTypes ==
  ASSUME NEW n \in Tallies, NEW late \in {0, 1}
  PROVE  /\ [n EXCEPT !.begun = @ + 1, !.late = @ + late] \in Tallies
         /\ [n EXCEPT !.failed = @ + 1] \in Tallies
         /\ [n EXCEPT !.answered = @ + 1] \in Tallies
         /\ [n EXCEPT !.refills = @ + 1] \in Tallies
<1>1. n.begun + 1 \in Nat /\ n.failed + 1 \in Nat /\ n.answered + 1 \in Nat /\ n.refills + 1 \in Nat
  BY DEF Tallies
<1>2. n.late + late \in Nat
  BY DEF Tallies
<1>3. QED
  BY <1>1, <1>2 DEF Tallies

\* Acquire, in one equation for each outcome.
LEMMA AcquireShape ==
  ASSUME TypeOK, NEW i \in plan, Acquire(i)
  PROVE  /\ phase[i] = "pacing" /\ run = "looking"
         /\ \/ /\ channel[route[i]].tokens >= 1
               /\ phase' = [phase EXCEPT ![i] = "calling"]
               /\ channel' = [channel EXCEPT ![route[i]] =
                                [channel[route[i]] EXCEPT !.tokens = @ - 1]]
               /\ \E late \in {0, 1} :
                    /\ late = IF channel[route[i]].exhausted THEN 1 ELSE 0
                    /\ calls' = [calls EXCEPT ![route[i]] =
                                   [calls[route[i]] EXCEPT !.begun = @ + 1, !.late = @ + late]]
            \/ phase' = [phase EXCEPT ![i] = "sleeping"] /\ UNCHANGED <<channel, calls>>
         /\ UNCHANGED <<configured, enabled, findings, stage, run, plan, route, rows, crashes,
                        queue, used, results, pending>>
<1>1. CASE channel[route[i]].tokens >= 1
  <2>1. PICK late \in {0, 1} : late = IF channel[route[i]].exhausted THEN 1 ELSE 0
    OBVIOUS
  <2>2. calls' = [calls EXCEPT ![route[i]] =
                    [calls[route[i]] EXCEPT !.begun = @ + 1, !.late = @ + late]]
    BY <1>1, <2>1, RouteType DEF Acquire, TypeOK
  <2>3. channel' = [channel EXCEPT ![route[i]] = [channel[route[i]] EXCEPT !.tokens = @ - 1]]
    BY <1>1 DEF Acquire
  <2>4. QED
    BY <1>1, <2>1, <2>2, <2>3 DEF Acquire, Lookup, world
<1>2. CASE ~(channel[route[i]].tokens >= 1)
  BY <1>2 DEF Acquire, Lookup, world
<1>3. QED
  BY <1>1, <1>2

-----------------------------------------------------------------------------
(* Types. *)

\* A lookup moves on and nothing is called.
LEMMA PlainMoveType ==
  ASSUME TypeOK, NEW i \in Indicators, NEW x \in Phases, phase' = [phase EXCEPT ![i] = x],
         queue' \in Seq(Indicators), used' \in 0..MaxLookups,
         results' \in [Indicators -> Verdict \cup {"none"}],
         pending' \in [Indicators \X Providers -> Verdict \cup {"none"}],
         UNCHANGED <<stage, run, plan, route, rows, crashes, channel, calls>>, UNCHANGED world
  PROVE  TypeOK'
<1>1. phase' \in [Indicators -> Phases]
  BY DEF TypeOK
<1>2. QED
  BY <1>1 DEF TypeOK, world

LEMMA LookupTypes ==
  ASSUME TypeOK, NEW i \in plan,
         AskCache(i) \/ Acquire(i) \/ Answer(i) \/ Store(i) \/ Refused(i) \/ Fails(i)
  PROVE  TypeOK'
<1>1. /\ i \in Indicators /\ route[i] \in Providers /\ <<i, route[i]>> \in Indicators \X Providers
      /\ channel[route[i]] \in Channels /\ calls[route[i]] \in Tallies
  BY RouteType
<1>2. /\ queue \in Seq(Indicators) /\ used \in 0..MaxLookups
      /\ results \in [Indicators -> Verdict \cup {"none"}]
      /\ pending \in [Indicators \X Providers -> Verdict \cup {"none"}]
      /\ rows \in [Indicators \X Providers -> Verdict \cup {"none"}]
      /\ channel \in [Providers -> Channels] /\ calls \in [Providers -> Tallies]
  BY DEF TypeOK
<1>3. MaxLookups \in Nat /\ {"none", "queued", "pacing", "sleeping", "calling", "storing", "done"} = Phases
  BY LimitAssumption DEF Phases
<1>4. CASE AskCache(i)
  <2>1. CASE rows[<<i, route[i]>>] # "none"
    BY <1>1, <1>2, <1>3, <1>4, <2>1, PlainMoveType DEF AskCache, Lookup
  <2>2. CASE rows[<<i, route[i]>>] = "none" /\ Usable(route[i]) /\ BudgetLeft
    <3>1. Append(queue, i) \in Seq(Indicators)
      BY <1>1, <1>2, AppendProperties
    <3>2. used + 1 \in 0..MaxLookups
      BY <1>2, <1>3, <2>2 DEF BudgetLeft
    <3>3. QED
      BY <1>1, <1>2, <1>3, <1>4, <2>2, <3>1, <3>2, PlainMoveType DEF AskCache, Lookup
  <2>3. CASE rows[<<i, route[i]>>] = "none" /\ ~(Usable(route[i]) /\ BudgetLeft)
    BY <1>1, <1>2, <1>3, <1>4, <2>3, PlainMoveType DEF AskCache, Lookup
  <2>4. QED
    BY <2>1, <2>2, <2>3
<1>5. CASE Acquire(i)
  <2>0. UNCHANGED <<configured, enabled, findings, stage, run, plan, route, rows, crashes,
                    queue, used, results, pending>>
    BY <1>5, AcquireShape
  <2>1. CASE phase' = [phase EXCEPT ![i] = "sleeping"] /\ UNCHANGED <<channel, calls>>
    BY <1>1, <1>2, <1>3, <2>0, <2>1, PlainMoveType DEF world
  <2>2. CASE channel[route[i]].tokens >= 1 /\ phase' = [phase EXCEPT ![i] = "calling"]
    <3>1. channel[route[i]].tokens \in 0..Capacity /\ Capacity \in Nat
      BY <1>1, LimitAssumption DEF Channels
    <3>2. channel[route[i]].tokens - 1 \in 0..Capacity
      BY <2>2, <3>1
    <3>3. [channel[route[i]] EXCEPT !.tokens = @ - 1] \in Channels
      BY <1>1, <3>2 DEF Channels
    <3>4. PICK n \in Tallies : calls' = [calls EXCEPT ![route[i]] = n]
      <4>1. PICK late \in {0, 1} :
              calls' = [calls EXCEPT ![route[i]] =
                          [calls[route[i]] EXCEPT !.begun = @ + 1, !.late = @ + late]]
        <5>1. phase' # [phase EXCEPT ![i] = "sleeping"]
          BY <1>1, <2>2 DEF TypeOK
        <5>2. QED
          BY <1>5, <5>1, AcquireShape
      <4>2. QED
        BY <1>1, <4>1, TallyTypes
    <3>5. channel' = [channel EXCEPT ![route[i]] = [channel[route[i]] EXCEPT !.tokens = @ - 1]]
      <4>1. phase' # [phase EXCEPT ![i] = "sleeping"]
        BY <1>1, <2>2 DEF TypeOK
      <4>2. QED
        BY <1>5, <4>1, AcquireShape
    <3>6. QED
      BY <1>2, <1>3, <2>0, <2>2, <3>3, <3>4, <3>5, MoveType DEF world
  <2>3. QED
    BY <1>5, <2>1, <2>2, AcquireShape
<1>6. CASE Answer(i)
  <2>1. PICK v \in Verdict : results' = [results EXCEPT ![i] = v]
    BY <1>6 DEF Answer
  <2>2. results' \in [Indicators -> Verdict \cup {"none"}]
    BY <1>1, <1>2, <2>1
  <2>3. calls' = [calls EXCEPT ![route[i]] = [calls[route[i]] EXCEPT !.answered = @ + 1]]
    BY <1>2, <1>6 DEF Answer
  <2>4. channel' = [channel EXCEPT ![route[i]] = RecordSuccess(channel[route[i]])]
    BY <1>2, <1>6 DEF Answer
  <2>5. QED
    BY <1>1, <1>2, <1>3, <1>6, <2>2, <2>3, <2>4, MoveType, TallyTypes, Records DEF Answer, Lookup
<1>7. CASE Store(i)
  <2>1. pending' \in [Indicators \X Providers -> Verdict \cup {"none"}]
    BY <1>1, <1>2, <1>7 DEF Store
  <2>2. QED
    BY <1>1, <1>2, <1>3, <1>7, <2>1, PlainMoveType DEF Store, Lookup
<1>8. CASE Refused(i)
  <2>1. calls' = [calls EXCEPT ![route[i]] = [calls[route[i]] EXCEPT !.failed = @ + 1]]
    BY <1>2, <1>8 DEF Refused
  <2>2. channel' = [channel EXCEPT ![route[i]] = [channel[route[i]] EXCEPT !.exhausted = TRUE]]
    BY <1>2, <1>8 DEF Refused
  <2>3. [channel[route[i]] EXCEPT !.exhausted = TRUE] \in Channels
    BY <1>1 DEF Channels
  <2>4. QED
    BY <1>1, <1>2, <1>3, <1>8, <2>1, <2>2, <2>3, MoveType, TallyTypes DEF Refused, Lookup
<1>9. CASE Fails(i)
  <2>1. calls' = [calls EXCEPT ![route[i]] = [calls[route[i]] EXCEPT !.failed = @ + 1]]
    BY <1>2, <1>9 DEF Fails
  <2>2. channel' = [channel EXCEPT ![route[i]] = RecordFailure(channel[route[i]])]
    BY <1>2, <1>9 DEF Fails
  <2>3. QED
    BY <1>1, <1>2, <1>3, <1>9, <2>1, <2>2, MoveType, TallyTypes, Records DEF Fails, Lookup
<1>10. QED
  BY <1>4, <1>5, <1>6, <1>7, <1>8, <1>9

\* Enter lets the first one in or sends it away.
LEMMA EnterShape ==
  ASSUME TypeOK, Enter
  PROVE  /\ run = "looking" /\ Cardinality(InFlight) < Concurrency
         /\ Head(queue) \in Indicators /\ Tail(queue) \in Seq(Indicators) /\ queue # <<>>
         /\ \/ Usable(route[Head(queue)]) /\ phase' = [phase EXCEPT ![Head(queue)] = "pacing"]
            \/ phase' = [phase EXCEPT ![Head(queue)] = "done"]
         /\ queue' = Tail(queue)
         /\ UNCHANGED <<configured, enabled, findings, stage, run, plan, route, rows, crashes,
                        channel, calls, used, results, pending>>
<1>1. queue \in Seq(Indicators) /\ queue # <<>>
  BY DEF TypeOK, Enter
<1>2. Head(queue) \in Indicators /\ Tail(queue) \in Seq(Indicators)
  BY <1>1, HeadTailProperties
<1>3. CASE Usable(route[Head(queue)])
  BY <1>1, <1>2, <1>3 DEF Enter, Lookup, world
<1>4. CASE ~Usable(route[Head(queue)])
  BY <1>1, <1>2, <1>4 DEF Enter, Lookup, world
<1>5. QED
  BY <1>3, <1>4

\* A refill wakes the sleepers of its bucket.
LEMMA RefillShape ==
  ASSUME TypeOK, NEW p \in configured, Refill(p)
  PROVE  /\ p \in Providers /\ run = "looking" /\ channel[p].tokens < Capacity
         /\ channel' = [channel EXCEPT ![p] = [channel[p] EXCEPT !.tokens = @ + 1]]
         /\ calls' = [calls EXCEPT ![p] = [calls[p] EXCEPT !.refills = @ + 1]]
         /\ phase' \in [Indicators -> Phases]
         /\ \A i \in Indicators : phase'[i] = phase[i] \/ (phase[i] = "sleeping" /\ phase'[i] = "pacing")
         /\ UNCHANGED <<configured, enabled, findings, stage, run, plan, route, rows, crashes,
                        queue, used, results, pending>>
<1>1. p \in Providers /\ phase \in [Indicators -> Phases] /\ "pacing" \in Phases
  BY DEF TypeOK, Phases
<1>2. phase' = [i \in Indicators |-> IF phase[i] = "sleeping" /\ route[i] = p THEN "pacing" ELSE phase[i]]
  BY DEF Refill, Woken
<1>3. \A i \in Indicators :
        (IF phase[i] = "sleeping" /\ route[i] = p THEN "pacing" ELSE phase[i]) \in Phases
  BY <1>1
<1>4. phase' \in [Indicators -> Phases]
  BY <1>2, <1>3
<1>5. \A i \in Indicators : phase'[i] = phase[i] \/ (phase[i] = "sleeping" /\ phase'[i] = "pacing")
  BY <1>2
<1>6. /\ channel' = [channel EXCEPT ![p] = [channel[p] EXCEPT !.tokens = @ + 1]]
      /\ calls' = [calls EXCEPT ![p] = [calls[p] EXCEPT !.refills = @ + 1]]
  BY <1>1 DEF Refill, TypeOK
<1>7. QED
  BY <1>1, <1>4, <1>5, <1>6 DEF Refill, Lookup, world

\* What the end of a process leaves.
LEMMA ForgetTypes ==
  ASSUME TypeOK, Forget, stage' \in {stage, "failed"}, run' \in {"idle", "over"}, UNCHANGED world,
         crashes' \in 0..MaxCrashes,
         rows' \in [Indicators \X Providers -> Verdict \cup {"none"}]
  PROVE  TypeOK'
<1>1. /\ plan' = {} /\ queue' = <<>> /\ queue' \in Seq(Indicators) /\ used' = 0
      /\ phase' = NoPhase /\ results' = NoPhase /\ channel' = NewChannels
      /\ calls' = NoneCalled /\ pending' = NoRows
  BY DEF Forget
<1>2. 0 \in 0..MaxLookups
  BY LimitAssumption
<1>3. QED
  BY <1>1, <1>2, NothingYet DEF TypeOK, world

LEMMA TypeInv ==
  ASSUME TypeOK, [Next]_vars
  PROVE  TypeOK'
<1>1. CASE Decline
  BY <1>1 DEF Decline, Settled, TypeOK, world
<1>2. CASE Begin
  <2>1. plan' \subseteq Indicators
    <3>1. PICK R \in FindingRows(findings) : \E K \in Kept(R) :
            plan' = {i \in Candidates(K) : Capable(i) # {}}
      BY <1>2 DEF Begin
    <3>2. PICK K \in Kept(R) : plan' = {i \in Candidates(K) : Capable(i) # {}}
      BY <3>1
    <3>3. K \subseteq R /\ R \subseteq findings
      BY <3>1, <3>2 DEF Kept, KeptUnsorted, FindingRows
    <3>4. {Sample} \cup {r[2] : r \in K} \subseteq Indicators
      BY <3>3, HarvestAssumption DEF TypeOK
    <3>5. Candidates(K) \subseteq Indicators
      BY <3>4, HarvestAssumption DEF Candidates
    <3>6. QED
      BY <3>2, <3>5
  <2>2. \A i \in plan' : route'[i] \in Providers
    BY <1>2 DEF Begin, TypeOK
  <2>3. QED
    BY <1>2, <2>1, <2>2 DEF Begin, TypeOK, world
<1>3. CASE Enter
  <2>1. /\ used' \in 0..MaxLookups /\ results' \in [Indicators -> Verdict \cup {"none"}]
        /\ pending' \in [Indicators \X Providers -> Verdict \cup {"none"}]
        /\ Head(queue) \in Indicators /\ queue' \in Seq(Indicators)
    BY <1>3, EnterShape DEF TypeOK
  <2>2. UNCHANGED <<stage, run, plan, route, rows, crashes, channel, calls>> /\ UNCHANGED world
    BY <1>3, EnterShape DEF world
  <2>3. PICK x \in Phases : phase' = [phase EXCEPT ![Head(queue)] = x]
    BY <1>3, EnterShape DEF Phases
  <2>4. QED
    BY <2>1, <2>2, <2>3, PlainMoveType
<1>4. CASE \E i \in plan : \/ AskCache(i) \/ Acquire(i) \/ Answer(i) \/ Store(i)
                           \/ Refused(i) \/ Fails(i)
  BY <1>4, LookupTypes
<1>5. ASSUME NEW p \in configured, Refill(p) PROVE TypeOK'
  <2>1. /\ p \in Providers /\ channel[p] \in Channels /\ calls[p] \in Tallies
        /\ channel \in [Providers -> Channels] /\ calls \in [Providers -> Tallies]
    BY DEF TypeOK
  <2>2. [calls[p] EXCEPT !.refills = @ + 1] \in Tallies
    BY <2>1, TallyTypes
  <2>3. [channel[p] EXCEPT !.tokens = @ + 1] \in Channels
    <3>1. channel[p].tokens + 1 \in 0..Capacity
      BY <1>5, <2>1, RefillShape, LimitAssumption DEF Channels
    <3>2. QED
      BY <2>1, <3>1 DEF Channels
  <2>4. channel' \in [Providers -> Channels] /\ calls' \in [Providers -> Tallies]
    BY <1>5, <2>1, <2>2, <2>3, RefillShape
  <2>5. QED
    BY <1>5, <2>4, RefillShape DEF TypeOK
<1>6. CASE Complete
  <2>1. Merged \in [Indicators \X Providers -> Verdict \cup {"none"}]
    BY DEF Merged, TypeOK
  <2>2. QED
    BY <1>6, <2>1, NothingYet DEF Complete, TypeOK, world
<1>7. CASE Abandon
  BY <1>7, ForgetTypes DEF Abandon, TypeOK
<1>8. CASE Redeliver
  <2>1. crashes' \in 0..MaxCrashes
    BY <1>8, LimitAssumption DEF Redeliver, TypeOK
  <2>2. rows' \in [Indicators \X Providers -> Verdict \cup {"none"}]
    BY <1>8 DEF Redeliver, TypeOK
  <2>3. QED
    BY <1>8, <2>1, <2>2, ForgetTypes DEF Redeliver
<1>9. CASE UNCHANGED vars
  BY <1>9 DEF vars, TypeOK
<1>10. CASE GiveUp
  <2>1. Merged \in [Indicators \X Providers -> Verdict \cup {"none"}]
    BY DEF Merged, TypeOK
  <2>2. QED
    BY <1>10, <2>1, ForgetTypes DEF GiveUp, TypeOK
<1>11. QED
  BY <1>1, <1>2, <1>3, <1>4, <1>5, <1>6, <1>7, <1>8, <1>9, <1>10
     DEF Next, Step, LookupStep, Done

-----------------------------------------------------------------------------
(* The order of lookups. *)

\* A lookup that is not queued moves on to a phase other than the queue.
LEMMA MoveOrder ==
  ASSUME TypeOK, Orderly, NEW i \in plan, NEW x \in Phases \ {"none", "queued"},
         phase[i] # "queued", phase' = [phase EXCEPT ![i] = x], run = "looking",
         UNCHANGED <<plan, run, queue>>,
         x \in Waiting => phase[i] \in Waiting /\ UNCHANGED results,
         \A j \in Indicators \ {i} : results'[j] = results[j]
  PROVE  Orderly'
<1>1. i \in Indicators /\ phase'[i] = x /\ \A j \in Indicators \ {i} : phase'[j] = phase[j]
  BY DEF TypeOK
<1>2. queue \in Seq(Indicators) /\ \A k \in 1..Len(queue) : queue[k] \in Indicators /\ queue[k] # i
  BY ElementOfSeq DEF TypeOK, Orderly
<1>3. \A j \in Indicators : phase'[j] \in Waiting => results'[j] = "none"
  <2>1. CASE x \in Waiting
    BY <1>1, <2>1 DEF Orderly
  <2>2. CASE x \notin Waiting
    BY <1>1, <2>2 DEF Orderly
  <2>3. QED
    BY <2>1, <2>2
<1>4. QED
  BY <1>1, <1>2, <1>3 DEF Orderly

LEMMA AskOrder ==
  ASSUME TypeOK, Orderly, NEW i \in plan, AskCache(i)
  PROVE  Orderly'
<1>1. /\ i \in Indicators /\ phase[i] = "none" /\ run = "looking" /\ UNCHANGED <<plan, run>>
      /\ results \in [Indicators -> Verdict \cup {"none"}] /\ queue \in Seq(Indicators)
      /\ phase \in [Indicators -> Phases]
  BY DEF TypeOK, AskCache, Lookup
<1>2. CASE phase' = [phase EXCEPT ![i] = "done"] /\ UNCHANGED queue
  <2>1. \A j \in Indicators \ {i} : results'[j] = results[j]
    BY <1>1 DEF AskCache
  <2>2. QED
    BY <1>1, <1>2, <2>1, MoveOrder DEF Waiting, Phases
<1>3. CASE /\ phase' = [phase EXCEPT ![i] = "queued"] /\ queue' = Append(queue, i)
           /\ UNCHANGED results
  <2>1. /\ Len(queue') = Len(queue) + 1 /\ queue'[Len(queue) + 1] = i
        /\ \A k \in 1..Len(queue) : queue'[k] = queue[k]
        /\ Len(queue) \in Nat
    BY <1>1, <1>3, AppendProperties, LenProperties
  <2>2. \A k \in 1..Len(queue) : queue[k] # i /\ queue[k] \in Indicators
    BY <1>1, ElementOfSeq DEF Orderly
  <2>3. \A k \in 1..Len(queue') : phase'[queue'[k]] = "queued"
    BY <1>1, <1>3, <2>1, <2>2 DEF Orderly
  <2>4. \A j, k \in 1..Len(queue') : queue'[j] = queue'[k] => j = k
    BY <2>1, <2>2 DEF Orderly
  <2>5. QED
    BY <1>1, <1>3, <2>3, <2>4 DEF Orderly, Waiting
<1>4. QED
  BY <1>1, <1>2, <1>3 DEF AskCache

LEMMA EnterOrder ==
  ASSUME TypeOK, Orderly, Enter
  PROVE  Orderly' /\ Head(queue) \in plan /\ phase[Head(queue)] = "queued"
<1>1. /\ queue \in Seq(Indicators) /\ queue # <<>> /\ Head(queue) \in Indicators
      /\ Len(queue) \in Nat \ {0} /\ Head(queue) = queue[1]
      /\ Len(Tail(queue)) = Len(queue) - 1
      /\ \A k \in 1..Len(Tail(queue)) : Tail(queue)[k] = queue[k + 1]
  BY HeadTailProperties, EmptySeq, LenProperties DEF TypeOK, Enter
<1>2. phase[Head(queue)] = "queued" /\ Head(queue) \in plan
  BY <1>1 DEF Orderly
<1>3. PICK x \in {"pacing", "done"} : phase' = [phase EXCEPT ![Head(queue)] = x]
  BY EnterShape
<1>4. /\ queue' = Tail(queue) /\ UNCHANGED <<plan, run, results>> /\ run = "looking"
      /\ phase \in [Indicators -> Phases]
  BY EnterShape DEF TypeOK
<1>5. \A k \in 1..Len(queue') :
        /\ queue'[k] = queue[k + 1] /\ k + 1 \in 1..Len(queue)
        /\ queue[k + 1] # Head(queue) /\ queue[k + 1] \in Indicators
  BY <1>1, <1>4, ElementOfSeq DEF Orderly
<1>6. \A k \in 1..Len(queue') : phase'[queue'[k]] = "queued"
  BY <1>1, <1>3, <1>4, <1>5 DEF Orderly
<1>7. \A j, k \in 1..Len(queue') : queue'[j] = queue'[k] => j = k
  <2>1. SUFFICES ASSUME NEW j \in 1..Len(queue'), NEW k \in 1..Len(queue'), queue'[j] = queue'[k]
                 PROVE  j = k
    OBVIOUS
  <2>2. queue[j + 1] = queue[k + 1] /\ j + 1 \in 1..Len(queue) /\ k + 1 \in 1..Len(queue)
    BY <1>5, <2>1
  <2>3. j + 1 = k + 1
    BY <2>2 DEF Orderly
  <2>4. QED
    BY <2>3, <1>1, <1>4
<1>8. QED
  BY <1>1, <1>2, <1>3, <1>4, <1>6, <1>7 DEF Orderly, Waiting

LEMMA OrderInv ==
  ASSUME TypeOK, Orderly, [Next]_vars
  PROVE  Orderly'
<1>1. CASE Decline \/ UNCHANGED vars
  BY <1>1 DEF Decline, Settled, Orderly, vars
<1>2. CASE Begin
  <2>1. \A i \in Indicators : phase[i] = "none"
    BY <1>2 DEF Orderly, Begin
  <2>2. QED
    BY <1>2, <2>1 DEF Orderly, Begin
<1>3. CASE Enter
  BY <1>3, EnterOrder
<1>4. ASSUME NEW i \in plan, AskCache(i) PROVE Orderly'
  BY <1>4, AskOrder
<1>5. ASSUME NEW i \in plan, Acquire(i) PROVE Orderly'
  <2>1. phase[i] = "pacing" /\ run = "looking" /\ UNCHANGED <<plan, run, queue, results>>
    BY <1>5, AcquireShape
  <2>2. PICK x \in {"calling", "sleeping"} : phase' = [phase EXCEPT ![i] = x]
    BY <1>5, AcquireShape
  <2>3. QED
    BY <2>1, <2>2, MoveOrder DEF Waiting, Phases
<1>6. ASSUME NEW i \in plan, Answer(i) PROVE Orderly'
  <2>1. \A j \in Indicators \ {i} : results'[j] = results[j]
    BY <1>6 DEF Answer, TypeOK
  <2>2. QED
    BY <1>6, <2>1, MoveOrder DEF Answer, Lookup, Waiting, Phases
<1>7. ASSUME NEW i \in plan, Store(i) \/ Refused(i) \/ Fails(i) PROVE Orderly'
  BY <1>7, MoveOrder DEF Store, Refused, Fails, Lookup, Waiting, Phases
<1>8. ASSUME NEW p \in configured, Refill(p) PROVE Orderly'
  <2>1. /\ phase' \in [Indicators -> Phases] /\ UNCHANGED <<plan, run, queue, results>>
        /\ \A i \in Indicators : phase'[i] = phase[i] \/ (phase[i] = "sleeping" /\ phase'[i] = "pacing")
        /\ run = "looking" /\ queue \in Seq(Indicators)
    BY <1>8, RefillShape DEF TypeOK
  <2>2. \A k \in 1..Len(queue) : queue[k] \in Indicators
    BY <2>1, ElementOfSeq
  <2>3. QED
    BY <2>1, <2>2 DEF Orderly, Waiting
<1>9. CASE Complete
  BY <1>9 DEF Complete, Orderly
<1>10. CASE GiveUp \/ Abandon \/ Redeliver
  <2>1. phase' = NoPhase /\ results' = NoPhase /\ queue' = <<>>
    BY <1>10 DEF GiveUp, Abandon, Redeliver, Forget
  <2>2. Len(queue') = 0
    BY <2>1
  <2>3. QED
    BY <2>1, <2>2, NothingYet DEF Orderly
<1>11. QED
  BY <1>1, <1>2, <1>3, <1>4, <1>5, <1>6, <1>7, <1>8, <1>9, <1>10 DEF Next, Step, LookupStep, Done

-----------------------------------------------------------------------------
(* The answers. *)

\* A lookup moves on without touching the session.
LEMMA MoveStored ==
  ASSUME TypeOK, Orderly, Accounted, NEW i \in plan, NEW x \in Phases,
         phase[i] # "done", run = "looking", phase' = [phase EXCEPT ![i] = x],
         UNCHANGED <<stage, run, plan, route, rows, pending>>,
         \A j \in Indicators \ {i} : results'[j] = results[j],
         x = "done" => results'[i] \in {"none", rows[<<i, route[i]>>]}
  PROVE  Accounted'
<1>1. i \in Indicators /\ phase'[i] = x /\ \A j \in Indicators \ {i} : phase'[j] = phase[j]
  BY DEF TypeOK
<1>2. pending[<<i, route[i]>>] = "none" /\ plan \subseteq Indicators /\ route[i] \in Providers
  BY <1>1 DEF Accounted, Stored, TypeOK
<1>3. Stored'
  <2>1. ASSUME NEW j \in Indicators, NEW p \in Providers, pending'[<<j, p>>] # "none"
        PROVE  j \in plan' /\ route'[j] = p /\ phase'[j] = "done"
    BY <1>1, <1>2, <2>1 DEF Accounted, Stored
  <2>2. ASSUME NEW j \in plan', phase'[j] = "done", results'[j] # "none"
        PROVE  \/ pending'[<<j, route'[j]>>] = results'[j]
               \/ pending'[<<j, route'[j]>>] = "none" /\ rows'[<<j, route'[j]>>] = results'[j]
    <3>1. CASE j = i
      BY <1>1, <1>2, <2>2, <3>1
    <3>2. CASE j # i
      BY <1>1, <1>2, <2>2, <3>2 DEF Accounted, Stored
    <3>3. QED
      BY <3>1, <3>2
  <2>3. QED
    BY <2>1, <2>2 DEF Stored
<1>4. stage' # "ok"
  BY DEF Accounted
<1>5. QED
  BY <1>3, <1>4 DEF Accounted, AnswersKept

LEMMA StoreStored ==
  ASSUME TypeOK, Orderly, Accounted, NEW i \in plan, Store(i)
  PROVE  Accounted'
<1>1. /\ i \in Indicators /\ route[i] \in Providers /\ plan \subseteq Indicators
      /\ phase' = [phase EXCEPT ![i] = "done"] /\ phase \in [Indicators -> Phases]
      /\ pending' = [pending EXCEPT ![<<i, route[i]>>] = results[i]]
      /\ pending \in [Indicators \X Providers -> Verdict \cup {"none"}]
      /\ run = "looking" /\ phase[i] = "storing"
      /\ UNCHANGED <<stage, run, plan, route, rows, results>>
  BY DEF Store, Lookup, TypeOK
<1>2. \A j \in Indicators \ {i} : phase'[j] = phase[j]
  BY <1>1
<1>3. phase'[i] = "done" /\ pending'[<<i, route[i]>>] = results[i]
  BY <1>1
<1>4. \A j \in Indicators, p \in Providers :
        <<j, p>> # <<i, route[i]>> => pending'[<<j, p>>] = pending[<<j, p>>]
  BY <1>1
<1>5. Stored'
  <2>1. ASSUME NEW j \in Indicators, NEW p \in Providers, pending'[<<j, p>>] # "none"
        PROVE  j \in plan' /\ route'[j] = p /\ phase'[j] = "done"
    <3>1. CASE <<j, p>> = <<i, route[i]>>
      BY <1>1, <1>3, <3>1
    <3>2. CASE <<j, p>> # <<i, route[i]>>
      BY <1>1, <1>2, <1>3, <1>4, <2>1, <3>2 DEF Accounted, Stored
    <3>3. QED
      BY <3>1, <3>2
  <2>2. ASSUME NEW j \in plan', phase'[j] = "done", results'[j] # "none"
        PROVE  \/ pending'[<<j, route'[j]>>] = results'[j]
               \/ pending'[<<j, route'[j]>>] = "none" /\ rows'[<<j, route'[j]>>] = results'[j]
    <3>1. CASE j = i
      BY <1>1, <1>3, <3>1
    <3>2. CASE j # i
      <4>1. j \in Indicators /\ route[j] \in Providers /\ j \in plan
        BY <1>1, <2>2 DEF TypeOK
      <4>2. QED
        BY <1>1, <1>2, <1>4, <2>2, <3>2, <4>1 DEF Accounted, Stored
    <3>3. QED
      BY <3>1, <3>2
  <2>3. QED
    BY <2>1, <2>2 DEF Stored
<1>6. stage' # "ok"
  BY <1>1 DEF Accounted
<1>7. QED
  BY <1>5, <1>6 DEF Accounted, AnswersKept

LEMMA CompleteStored ==
  ASSUME TypeOK, Orderly, Accounted, Complete
  PROVE  Accounted'
<1>1. /\ run' = "over" /\ rows' = Merged /\ UNCHANGED <<plan, route, phase, results>>
      /\ run = "looking" /\ \A i \in plan : phase[i] = "done"
  BY DEF Complete
<1>2. ASSUME NEW i \in plan, results[i] # "none"
      PROVE  Merged[<<i, route[i]>>] = results[i]
  <2>1. /\ <<i, route[i]>> \in Indicators \X Providers
        /\ Merged[<<i, route[i]>>] = IF pending[<<i, route[i]>>] = "none" THEN rows[<<i, route[i]>>]
                                     ELSE pending[<<i, route[i]>>]
    BY RouteType DEF Merged
  <2>2. \/ pending[<<i, route[i]>>] = results[i]
        \/ pending[<<i, route[i]>>] = "none" /\ rows[<<i, route[i]>>] = results[i]
    BY <1>1, <1>2 DEF Accounted, Stored
  <2>3. QED
    BY <1>2, <2>1, <2>2
<1>3. AnswersKept'
  BY <1>1, <1>2 DEF AnswersKept
<1>4. QED
  BY <1>1, <1>3 DEF Accounted, Stored

LEMMA StoreInv ==
  ASSUME TypeOK, Orderly, Accounted, [Next]_vars
  PROVE  Accounted'
<1>1. CASE Decline
  BY <1>1 DEF Decline, Settled, Accounted, Stored, AnswersKept
<1>2. CASE Begin
  <2>1. /\ \A i \in Indicators : phase[i] = "none"
        /\ run = "idle" /\ run' = "looking" /\ stage' = "running" /\ UNCHANGED <<phase, pending>>
    BY <1>2 DEF Orderly, Begin
  <2>2. \A i \in Indicators, p \in Providers : pending[<<i, p>>] = "none"
    BY <2>1 DEF Accounted, Stored
  <2>3. plan' \subseteq Indicators
    BY <1>2, TypeInv DEF TypeOK, Next, Step
  <2>4. QED
    BY <2>1, <2>2, <2>3 DEF Accounted, Stored, AnswersKept
<1>3. CASE Enter
  <2>1. /\ Head(queue) \in plan /\ phase[Head(queue)] = "queued" /\ run = "looking"
        /\ UNCHANGED <<stage, run, plan, route, rows, pending, results>>
    BY <1>3, EnterOrder, EnterShape
  <2>2. PICK x \in {"pacing", "done"} : phase' = [phase EXCEPT ![Head(queue)] = x]
    BY <1>3, EnterShape
  <2>3. results[Head(queue)] = "none" /\ x \in Phases
    BY <2>1, <2>2 DEF Orderly, Waiting, TypeOK, Phases
  <2>4. QED
    BY <2>1, <2>2, <2>3, MoveStored
<1>4. ASSUME NEW i \in plan, AskCache(i) PROVE Accounted'
  <2>1. /\ phase[i] = "none" /\ run = "looking" /\ i \in Indicators
        /\ UNCHANGED <<stage, run, plan, route, rows, pending>>
        /\ results \in [Indicators -> Verdict \cup {"none"}]
    BY <1>4 DEF AskCache, Lookup, TypeOK
  <2>2. PICK x \in {"queued", "done"} : phase' = [phase EXCEPT ![i] = x]
    BY <1>4 DEF AskCache
  <2>3. \/ results' = [results EXCEPT ![i] = rows[<<i, route[i]>>]]
        \/ UNCHANGED results
    BY <1>4 DEF AskCache
  <2>4. results[i] = "none" /\ x \in Phases
    BY <2>1, <2>2 DEF Orderly, Waiting, Phases
  <2>5. /\ \A j \in Indicators \ {i} : results'[j] = results[j]
        /\ results'[i] \in {"none", rows[<<i, route[i]>>]}
    BY <2>1, <2>3, <2>4
  <2>6. QED
    BY <2>1, <2>2, <2>4, <2>5, MoveStored
<1>5. ASSUME NEW i \in plan, Acquire(i) PROVE Accounted'
  <2>1. /\ phase[i] = "pacing" /\ run = "looking"
        /\ UNCHANGED <<stage, run, plan, route, rows, pending, results>>
    BY <1>5, AcquireShape
  <2>2. PICK x \in {"calling", "sleeping"} : phase' = [phase EXCEPT ![i] = x]
    BY <1>5, AcquireShape
  <2>3. QED
    BY <2>1, <2>2, MoveStored DEF Phases
<1>6. ASSUME NEW i \in plan, Answer(i) PROVE Accounted'
  <2>1. \A j \in Indicators \ {i} : results'[j] = results[j]
    BY <1>6 DEF Answer, TypeOK
  <2>2. QED
    BY <1>6, <2>1, MoveStored DEF Answer, Lookup, Phases
<1>7. ASSUME NEW i \in plan, Store(i) PROVE Accounted'
  BY <1>7, StoreStored
<1>8. ASSUME NEW i \in plan, Refused(i) \/ Fails(i) PROVE Accounted'
  <2>1. /\ phase[i] = "calling" /\ run = "looking" /\ i \in Indicators
        /\ phase' = [phase EXCEPT ![i] = "done"]
        /\ UNCHANGED <<stage, run, plan, route, rows, pending, results>>
    BY <1>8 DEF Refused, Fails, Lookup, TypeOK
  <2>2. results[i] = "none"
    BY <2>1 DEF Orderly, Waiting
  <2>3. QED
    BY <2>1, <2>2, MoveStored DEF Phases
<1>9. ASSUME NEW p \in configured, Refill(p) PROVE Accounted'
  <2>1. /\ \A i \in Indicators : phase'[i] = phase[i] \/ (phase[i] = "sleeping" /\ phase'[i] = "pacing")
        /\ UNCHANGED <<stage, run, plan, route, rows, pending, results>>
        /\ plan \subseteq Indicators
    BY <1>9, RefillShape DEF TypeOK
  <2>2. QED
    BY <2>1 DEF Accounted, Stored, AnswersKept
<1>10. CASE Complete
  BY <1>10, CompleteStored
<1>11. CASE GiveUp \/ Abandon \/ Redeliver
  <2>1. plan' = {} /\ pending' = NoRows /\ stage' \in {stage, "failed"} /\ run = "looking"
    BY <1>11 DEF GiveUp, Abandon, Redeliver, Forget
  <2>2. QED
    BY <2>1, NothingYet DEF Accounted, Stored, AnswersKept
<1>12. CASE UNCHANGED vars
  BY <1>12 DEF vars, Accounted, Stored, AnswersKept
<1>13. QED
  BY <1>1, <1>2, <1>3, <1>4, <1>5, <1>6, <1>7, <1>8, <1>9, <1>10, <1>11, <1>12
     DEF Next, Step, LookupStep, Done

-----------------------------------------------------------------------------
(* The token bucket. *)

LEMMA PacedInv ==
  ASSUME TypeOK, Paced, [Next]_vars
  PROVE  Paced'
<1>1. /\ \A p \in Providers : channel[p].tokens \in Int /\ calls[p].begun \in Nat /\ calls[p].refills \in Nat
      /\ channel \in [Providers -> Channels] /\ calls \in [Providers -> Tallies] /\ Capacity \in Nat
  <2>1. /\ channel \in [Providers -> Channels] /\ calls \in [Providers -> Tallies] /\ Capacity \in Nat
    BY LimitAssumption DEF TypeOK
  <2>2. \A c \in Channels : c.tokens \in Int
    BY <2>1 DEF Channels
  <2>3. \A n \in Tallies : n.begun \in Nat /\ n.refills \in Nat
    BY DEF Tallies
  <2>4. QED
    BY <2>1, <2>2, <2>3
<1>2. ASSUME UNCHANGED <<channel, calls>> PROVE Paced'
  BY <1>2 DEF Paced
<1>3. ASSUME NEW r \in Providers, NEW c \in Channels, NEW n \in Tallies,
             channel' = [channel EXCEPT ![r] = c], calls' = [calls EXCEPT ![r] = n],
             n.begun + c.tokens <= Capacity + n.refills
      PROVE  Paced'
  <2>1. channel'[r] = c /\ calls'[r] = n
    BY <1>1, <1>3
  <2>2. \A p \in Providers \ {r} : channel'[p] = channel[p] /\ calls'[p] = calls[p]
    BY <1>1, <1>3
  <2>3. QED
    BY <1>3, <2>1, <2>2 DEF Paced
<1>4. ASSUME NEW i \in plan, Acquire(i) PROVE Paced'
  <2>1. CASE UNCHANGED <<channel, calls>>
    BY <1>2, <2>1
  <2>2. CASE ~UNCHANGED <<channel, calls>>
    <3>1. PICK late \in {0, 1} :
            /\ channel' = [channel EXCEPT ![route[i]] = [channel[route[i]] EXCEPT !.tokens = @ - 1]]
            /\ calls' = [calls EXCEPT ![route[i]] =
                           [calls[route[i]] EXCEPT !.begun = @ + 1, !.late = @ + late]]
            /\ channel[route[i]].tokens >= 1
      BY <1>4, <2>2, AcquireShape
    <3>2. /\ route[i] \in Providers /\ channel[route[i]] \in Channels /\ calls[route[i]] \in Tallies
          /\ calls[route[i]].begun + channel[route[i]].tokens <= Capacity + calls[route[i]].refills
      BY RouteType DEF Paced
    <3> DEFINE n == [calls[route[i]] EXCEPT !.begun = @ + 1, !.late = @ + late]
               c == [channel[route[i]] EXCEPT !.tokens = @ - 1]
    <3>3. n \in Tallies /\ n.begun = calls[route[i]].begun + 1 /\ n.refills = calls[route[i]].refills
      BY <3>2, TallyTypes DEF Tallies
    <3>4. c \in Channels /\ c.tokens = channel[route[i]].tokens - 1
      <4>1. channel[route[i]].tokens - 1 \in 0..Capacity
        BY <1>1, <3>1, <3>2 DEF Channels
      <4>2. QED
        BY <3>2, <4>1 DEF Channels
    <3>5. channel' = [channel EXCEPT ![route[i]] = c] /\ calls' = [calls EXCEPT ![route[i]] = n]
      BY <3>1
    <3> HIDE DEF n, c
    <3>6. n.begun + c.tokens <= Capacity + n.refills
      BY <1>1, <3>2, <3>3, <3>4
    <3>7. QED
      BY <1>3, <3>2, <3>3, <3>4, <3>5, <3>6
  <2>3. QED
    BY <2>1, <2>2
<1>5. ASSUME NEW i \in plan, Answer(i) \/ Refused(i) \/ Fails(i) PROVE Paced'
  <2>1. \A p \in Providers : channel'[p].tokens = channel[p].tokens
    <3>1. \A p \in Providers : channel[p] \in Channels
      BY <1>1
    <3>2. CASE Answer(i)
      BY <1>1, <3>1, <3>2, Records DEF Answer
    <3>3. CASE Refused(i)
      BY <1>1, <3>1, <3>3 DEF Refused, Channels
    <3>4. CASE Fails(i)
      BY <1>1, <3>1, <3>4, Records DEF Fails
    <3>5. QED
      BY <1>5, <3>2, <3>3, <3>4
  <2>2. \A p \in Providers : calls'[p].begun = calls[p].begun /\ calls'[p].refills = calls[p].refills
    BY <1>1, <1>5 DEF Answer, Refused, Fails, Tallies
  <2>3. QED
    BY <2>1, <2>2 DEF Paced
<1>6. ASSUME NEW p \in configured, Refill(p) PROVE Paced'
  <2>1. /\ p \in Providers /\ channel[p].tokens < Capacity
        /\ channel' = [channel EXCEPT ![p] = [channel[p] EXCEPT !.tokens = @ + 1]]
        /\ calls' = [calls EXCEPT ![p] = [calls[p] EXCEPT !.refills = @ + 1]]
    BY <1>6, RefillShape
  <2>2. /\ channel'[p].tokens = channel[p].tokens + 1 /\ calls'[p].refills = calls[p].refills + 1
        /\ calls'[p].begun = calls[p].begun
        /\ \A q \in Providers \ {p} : channel'[q] = channel[q] /\ calls'[q] = calls[q]
    BY <1>1, <2>1 DEF Channels, Tallies
  <2>3. QED
    BY <1>1, <2>1, <2>2 DEF Paced
<1>7. CASE GiveUp \/ Abandon \/ Redeliver
  <2>1. channel' = NewChannels /\ calls' = NoneCalled
    BY <1>7 DEF GiveUp, Abandon, Redeliver, Forget
  <2>2. \A p \in Providers : channel'[p] = NewChannel /\ calls'[p] = NoCalls
    BY <2>1, NothingYet
  <2>3. QED
    BY <1>1, <2>2 DEF Paced, NewChannel, NoCalls
<1>8. CASE \/ Decline \/ Begin \/ Enter \/ Complete \/ UNCHANGED vars
           \/ \E i \in plan : AskCache(i) \/ Store(i)
  BY <1>2, <1>8 DEF Decline, Settled, Begin, Enter, Complete, vars, AskCache, Store
<1>9. QED
  BY <1>4, <1>5, <1>6, <1>7, <1>8 DEF Next, Step, LookupStep, Done

-----------------------------------------------------------------------------
(* What a provider that is down costs. *)

LEMMA FiniteSets ==
  /\ Concurrency \in Nat \ {0} /\ Threshold \in Nat \ {0}
  /\ \A T \in SUBSET Indicators :
       /\ Cardinality(T) \in Nat
       /\ \A U \in SUBSET T : Cardinality(U) <= Cardinality(T)
       /\ \A i \in T : Cardinality(T \ {i}) = Cardinality(T) - 1
       /\ \A i : Cardinality(T \cup {i}) <= Cardinality(T) + 1
<1>1. Concurrency \in Nat \ {0} /\ Threshold \in Nat \ {0}
  BY LimitAssumption
<1>2. ASSUME NEW T \in SUBSET Indicators
      PROVE  /\ Cardinality(T) \in Nat
             /\ \A U \in SUBSET T : Cardinality(U) <= Cardinality(T)
             /\ \A i \in T : Cardinality(T \ {i}) = Cardinality(T) - 1
             /\ \A i : Cardinality(T \cup {i}) <= Cardinality(T) + 1
  <2>1. IsFiniteSet(T)
    BY FS_Subset, HarvestAssumption
  <2>2. Cardinality(T) \in Nat
    BY <2>1, FS_CardinalityType
  <2>3. \A i : Cardinality(T \cup {i}) <= Cardinality(T) + 1
    BY <2>1, <2>2, FS_AddElement
  <2>4. QED
    BY <2>1, <2>2, <2>3, FS_Subset, FS_RemoveElement
<1>3. QED
  BY <1>1, <1>2

LEMMA FlightSets ==
  /\ InFlight \subseteq Indicators
  /\ \A p \in Providers : InFlightAt(p) \subseteq InFlight /\ PacingAt(p) \subseteq InFlightAt(p)
BY DEF InFlight, InFlightAt, PacingAt

Active == {"pacing", "sleeping", "calling"}

LEMMA ActiveFlight ==
  ASSUME TypeOK
  PROVE  InFlight = {i \in Indicators : phase[i] \in Active}
BY DEF TypeOK, InFlight, Active, Phases

\* A step that no call begins or ends in.
LEMMA NoCallBounded ==
  ASSUME TypeOK, Bounded, TypeOK',
         \A i \in Indicators : /\ phase'[i] \in Active <=> phase[i] \in Active
                               /\ phase'[i] \in {"pacing", "sleeping"} <=> phase[i] \in {"pacing", "sleeping"},
         UNCHANGED <<route, calls>>, UNCHANGED channel
  PROVE  Bounded'
<1>1. InFlight = {i \in Indicators : phase[i] \in Active}
  BY ActiveFlight
<1>2. InFlight' = {i \in Indicators : phase'[i] \in Active}
  BY DEF TypeOK, InFlight, Active, Phases
<1>3. InFlight' = InFlight
  BY <1>1, <1>2
<1>4. \A p \in Providers : InFlightAt(p)' = InFlightAt(p) /\ PacingAt(p)' = PacingAt(p)
  BY <1>3 DEF InFlightAt, PacingAt, InFlight
<1>5. \A p \in Providers : Contained(p)'
  BY <1>4 DEF Bounded, Contained, Usable
<1>6. QED
  BY <1>3, <1>5 DEF Bounded

\* A lookup in flight moves on; the tallies and the channel of its provider move with it.
LEMMA FlightMoves ==
  ASSUME TypeOK, TypeOK', NEW i \in Indicators, NEW x \in Phases, phase[i] \in Active,
         phase' = [phase EXCEPT ![i] = x], UNCHANGED route
  PROVE  /\ InFlight' = IF x \in Active THEN InFlight ELSE InFlight \ {i}
         /\ i \in InFlight
         /\ \A p \in Providers : InFlightAt(p)' = IF x \in Active THEN InFlightAt(p)
                                                  ELSE InFlightAt(p) \ {i}
         /\ \A p \in Providers :
              x \notin {"pacing", "sleeping"} => PacingAt(p)' = PacingAt(p) \ {i}
<1>1. /\ InFlight = {j \in Indicators : phase[j] \in Active}
      /\ InFlight' = {j \in Indicators : phase'[j] \in Active}
  BY DEF TypeOK, InFlight, Active, Phases
<1>2. phase'[i] = x /\ \A j \in Indicators \ {i} : phase'[j] = phase[j]
  BY DEF TypeOK
<1>3. InFlight' = (IF x \in Active THEN InFlight ELSE InFlight \ {i}) /\ i \in InFlight
  <2>1. CASE x \in Active
    BY <1>1, <1>2, <2>1
  <2>2. CASE x \notin Active
    BY <1>1, <1>2, <2>2
  <2>3. QED
    BY <2>1, <2>2
<1>4. ASSUME NEW p \in Providers
      PROVE  InFlightAt(p)' = IF x \in Active THEN InFlightAt(p) ELSE InFlightAt(p) \ {i}
  <2>1. InFlightAt(p)' = {j \in InFlight' : route[j] = p} /\ InFlightAt(p) = {j \in InFlight : route[j] = p}
    BY DEF InFlightAt
  <2>2. CASE x \in Active
    BY <1>3, <2>1, <2>2
  <2>3. CASE x \notin Active
    BY <1>3, <2>1, <2>3
  <2>4. QED
    BY <2>2, <2>3
<1>5. ASSUME NEW p \in Providers, x \notin {"pacing", "sleeping"}
      PROVE  PacingAt(p)' = PacingAt(p) \ {i}
  <2>1. /\ PacingAt(p)' = {j \in InFlightAt(p)' : phase'[j] \in {"pacing", "sleeping"}}
        /\ PacingAt(p) = {j \in InFlightAt(p) : phase[j] \in {"pacing", "sleeping"}}
    BY DEF PacingAt
  <2>2. InFlightAt(p) \subseteq Indicators
    BY FlightSets
  <2>3. CASE x \in Active
    BY <1>2, <1>4, <1>5, <2>1, <2>2, <2>3
  <2>4. CASE x \notin Active
    BY <1>2, <1>4, <1>5, <2>1, <2>2, <2>4
  <2>5. QED
    BY <2>3, <2>4
<1>6. QED
  BY <1>3, <1>4, <1>5

\* Fewer lookups in flight, and a provider of which nothing else changed.
LEMMA OthersContained ==
  ASSUME TypeOK, NEW p \in Providers, Contained(p), channel'[p] = channel[p], calls'[p] = calls[p],
         InFlightAt(p)' \subseteq InFlightAt(p), PacingAt(p)' \subseteq PacingAt(p)
  PROVE  Contained(p)'
<1>1. /\ Cardinality(InFlightAt(p)') <= Cardinality(InFlightAt(p))
      /\ Cardinality(PacingAt(p)') <= Cardinality(PacingAt(p))
      /\ Cardinality(InFlightAt(p)) \in Nat /\ Cardinality(PacingAt(p)) \in Nat
      /\ Cardinality(InFlightAt(p)') \in Nat /\ Cardinality(PacingAt(p)') \in Nat
  <2>1. InFlightAt(p) \in SUBSET Indicators /\ PacingAt(p) \in SUBSET Indicators
    BY FlightSets
  <2>2. InFlightAt(p)' \in SUBSET Indicators /\ PacingAt(p)' \in SUBSET Indicators
    BY <2>1
  <2>3. QED
    BY <2>1, <2>2, FiniteSets
<1>2. calls[p].failed \in Nat /\ calls[p].late \in Nat
  BY DEF TypeOK, Tallies
<1>3. Concurrency \in Nat /\ Threshold \in Nat
  BY FiniteSets
<1>4. Usable(p)' <=> Usable(p)
  BY DEF Usable
<1>5. /\ calls'[p].answered = calls[p].answered /\ calls'[p].failed = calls[p].failed
      /\ calls'[p].late = calls[p].late /\ channel'[p].failures = channel[p].failures
      /\ channel'[p].exhausted = channel[p].exhausted
  OBVIOUS
<1>6. /\ calls[p].answered = 0 =>
           IF Usable(p)
           THEN calls[p].failed = channel[p].failures /\ calls[p].failed < Threshold
           ELSE calls[p].failed + Cardinality(InFlightAt(p)) <= Threshold + Concurrency - 1
      /\ IF channel[p].exhausted
         THEN calls[p].late + Cardinality(PacingAt(p)) <= Concurrency - 1
         ELSE calls[p].late = 0
  BY DEF Contained
<1>7. calls'[p].answered = 0 =>
        IF Usable(p)'
        THEN calls'[p].failed = channel'[p].failures /\ calls'[p].failed < Threshold
        ELSE calls'[p].failed + Cardinality(InFlightAt(p)') <= Threshold + Concurrency - 1
  BY <1>1, <1>2, <1>3, <1>4, <1>5, <1>6
<1>8. IF channel'[p].exhausted
      THEN calls'[p].late + Cardinality(PacingAt(p)') <= Concurrency - 1
      ELSE calls'[p].late = 0
  BY <1>1, <1>2, <1>3, <1>5, <1>6
<1>9. QED
  BY <1>7, <1>8 DEF Contained

\* A call ends: with an answer, a refusal or an error.
LEMMA EndBounded ==
  ASSUME TypeOK, Bounded, TypeOK', NEW i \in plan, Answer(i) \/ Refused(i) \/ Fails(i)
  PROVE  Bounded'
<1> DEFINE r == route[i]
<1>1. PICK x \in {"storing", "done"} : phase' = [phase EXCEPT ![i] = x]
  BY DEF Answer, Refused, Fails
<1>2. /\ i \in Indicators /\ r \in Providers /\ phase[i] = "calling" /\ UNCHANGED route
      /\ channel \in [Providers -> Channels] /\ calls \in [Providers -> Tallies]
      /\ channel[r] \in Channels /\ calls[r] \in Tallies
  BY RouteType DEF TypeOK, Answer, Refused, Fails, Lookup
<1>3. /\ InFlight' = InFlight \ {i} /\ i \in InFlight
      /\ \A p \in Providers : /\ InFlightAt(p)' = InFlightAt(p) \ {i}
                              /\ PacingAt(p)' = PacingAt(p) \ {i}
  <2>1. x \in Phases /\ x \notin Active /\ phase[i] \in Active /\ x \notin {"pacing", "sleeping"}
    BY <1>1, <1>2 DEF Phases, Active
  <2>2. QED
    BY <1>1, <1>2, <2>1, FlightMoves
<1>4. i \in InFlightAt(r) /\ i \notin PacingAt(r)
  BY <1>2, <1>3 DEF InFlightAt, PacingAt
<1>5. /\ InFlight \in SUBSET Indicators /\ InFlightAt(r) \in SUBSET InFlight
      /\ PacingAt(r) \in SUBSET InFlight /\ PacingAt(r) \in SUBSET (InFlight \ {i})
  BY <1>2, <1>4, FlightSets
<1>6. /\ Cardinality(InFlight') = Cardinality(InFlight) - 1
      /\ Cardinality(InFlightAt(r)') = Cardinality(InFlightAt(r)) - 1
      /\ Cardinality(InFlightAt(r)) <= Cardinality(InFlight)
      /\ Cardinality(PacingAt(r)') <= Cardinality(InFlight) - 1
      /\ PacingAt(r)' = PacingAt(r)
      /\ Cardinality(InFlight) \in Nat /\ Cardinality(InFlightAt(r)) \in Nat
      /\ Cardinality(InFlight) <= Concurrency /\ Cardinality(PacingAt(r)) \in Nat
  <2>1. /\ InFlight' = InFlight \ {i} /\ InFlightAt(r)' = InFlightAt(r) \ {i} /\ i \in InFlight
        /\ PacingAt(r)' = PacingAt(r)
    BY <1>2, <1>3, <1>4
  <2>2. InFlight \ {i} \in SUBSET Indicators /\ InFlightAt(r) \in SUBSET Indicators
        /\ PacingAt(r) \in SUBSET Indicators
    BY <1>5
  <2>3. /\ Cardinality(InFlight \ {i}) = Cardinality(InFlight) - 1
        /\ Cardinality(InFlightAt(r) \ {i}) = Cardinality(InFlightAt(r)) - 1
        /\ Cardinality(InFlight) \in Nat /\ Cardinality(InFlightAt(r)) \in Nat
        /\ Cardinality(PacingAt(r)) \in Nat
    BY <1>4, <1>5, <2>1, <2>2, FiniteSets
  <2>4. /\ Cardinality(InFlightAt(r)) <= Cardinality(InFlight)
        /\ Cardinality(PacingAt(r)) <= Cardinality(InFlight \ {i})
    BY <1>5, <2>2, FiniteSets
  <2>5. QED
    BY <2>1, <2>3, <2>4 DEF Bounded
<1>7. /\ Concurrency \in Nat /\ Threshold \in Nat
      /\ channel[r].failures \in Nat /\ calls[r].failed \in Nat /\ calls[r].late \in Nat
      /\ calls[r].answered \in Nat
  BY <1>2, FiniteSets DEF Channels, Tallies
<1>8. /\ calls[r].answered = 0 =>
           IF Usable(r)
           THEN calls[r].failed = channel[r].failures /\ calls[r].failed < Threshold
           ELSE calls[r].failed + Cardinality(InFlightAt(r)) <= Threshold + Concurrency - 1
      /\ IF channel[r].exhausted
         THEN calls[r].late + Cardinality(PacingAt(r)) <= Concurrency - 1
         ELSE calls[r].late = 0
  BY <1>2 DEF Bounded, Contained
<1>9. ASSUME NEW p \in Providers \ {r} PROVE Contained(p)'
  <2>1. channel'[p] = channel[p] /\ calls'[p] = calls[p]
    BY <1>2 DEF Answer, Refused, Fails
  <2>2. InFlightAt(p)' \subseteq InFlightAt(p) /\ PacingAt(p)' \subseteq PacingAt(p)
    BY <1>3
  <2>3. Contained(p)
    BY DEF Bounded
  <2>4. QED
    BY <2>1, <2>2, <2>3, OthersContained
<1>10. Contained(r)'
  <2>1. CASE Answer(i)
    <3>1. /\ calls'[r].answered = calls[r].answered + 1 /\ calls'[r].late = calls[r].late
          /\ channel'[r].exhausted = channel[r].exhausted
      BY <1>2, <2>1, Records DEF Answer, Tallies
    <3>2. r' = r
      BY <1>2
    <3>3. QED
      BY <1>6, <1>7, <1>8, <3>1, <3>2 DEF Contained
  <2>2. CASE Refused(i)
    <3>1. /\ calls'[r].failed = calls[r].failed + 1 /\ calls'[r].late = calls[r].late
          /\ calls'[r].answered = calls[r].answered /\ channel'[r].exhausted = TRUE
      BY <1>2, <2>2 DEF Refused, Tallies, Channels
    <3>2. r' = r /\ ~Usable(r)'
      BY <1>2, <3>1 DEF Usable
    <3>3. calls[r].answered = 0 =>
            calls'[r].failed + Cardinality(InFlightAt(r)') <= Threshold + Concurrency - 1
      BY <1>6, <1>7, <1>8, <3>1
    <3>4. calls'[r].late + Cardinality(PacingAt(r)') <= Concurrency - 1
      BY <1>6, <1>7, <1>8, <3>1
    <3>5. QED
      BY <3>1, <3>2, <3>3, <3>4 DEF Contained
  <2>3. CASE Fails(i)
    <3>1. /\ calls'[r].failed = calls[r].failed + 1 /\ calls'[r].late = calls[r].late
          /\ calls'[r].answered = calls[r].answered
      BY <1>2, <2>3 DEF Fails, Tallies
    <3>2. /\ channel'[r].exhausted = channel[r].exhausted
          /\ channel'[r].failures = channel[r].failures + 1
          /\ channel[r].open = TRUE => channel'[r].open = TRUE
          /\ channel[r].failures + 1 >= Threshold => channel'[r].open = TRUE
      BY <1>2, <2>3, Records DEF Fails
    <3>3. r' = r
      BY <1>2
    <3>4. calls[r].answered = 0 /\ ~Usable(r)' =>
            calls'[r].failed + Cardinality(InFlightAt(r)') <= Threshold + Concurrency - 1
      BY <1>6, <1>7, <1>8, <3>1
    <3>5. calls[r].answered = 0 /\ Usable(r)' =>
            calls'[r].failed = channel'[r].failures /\ calls'[r].failed < Threshold
      <4>1. Usable(r)' => Usable(r) /\ channel[r].failures + 1 < Threshold
        <5>1. channel[r].open \in BOOLEAN /\ channel'[r].open \in BOOLEAN
          BY <1>2 DEF TypeOK, Channels
        <5>2. QED
          BY <1>7, <3>2, <3>3, <5>1 DEF Usable
      <4>2. QED
        BY <1>7, <1>8, <3>1, <3>2, <4>1
    <3>6. IF channel'[r].exhausted
          THEN calls'[r].late + Cardinality(PacingAt(r)') <= Concurrency - 1
          ELSE calls'[r].late = 0
      BY <1>6, <1>7, <1>8, <3>1, <3>2
    <3>7. QED
      BY <3>1, <3>3, <3>4, <3>5, <3>6 DEF Contained
  <2>4. QED
    BY <2>1, <2>2, <2>3
<1>11. \A p \in Providers : Contained(p)'
  BY <1>9, <1>10, <1>2
<1>12. QED
  BY <1>6, <1>7, <1>11 DEF Bounded

LEMMA EnterBounded ==
  ASSUME TypeOK, Orderly, Bounded, TypeOK', Enter
  PROVE  Bounded'
<1> DEFINE h == Head(queue)
<1>1. /\ h \in Indicators /\ h \in plan /\ phase[h] = "queued" /\ route[h] \in Providers
      /\ phase \in [Indicators -> Phases] /\ Cardinality(InFlight) < Concurrency
      /\ UNCHANGED <<route, channel, calls>>
  BY EnterOrder, EnterShape, RouteType DEF TypeOK
<1>2. CASE phase' = [phase EXCEPT ![h] = "done"]
  BY <1>1, <1>2, NoCallBounded DEF Active
<1>3. CASE Usable(route[h]) /\ phase' = [phase EXCEPT ![h] = "pacing"]
  <2>1. /\ InFlight = {j \in Indicators : phase[j] \in Active}
        /\ InFlight' = {j \in Indicators : phase'[j] \in Active}
    BY DEF TypeOK, InFlight, Active, Phases
  <2>2. InFlight' = InFlight \cup {h}
    BY <1>1, <1>3, <2>1 DEF Active
  <2>3. Cardinality(InFlight') <= Concurrency
    <3>1. /\ Cardinality(InFlight \cup {h}) <= Cardinality(InFlight) + 1
          /\ Cardinality(InFlight) \in Nat /\ Concurrency \in Nat
      BY FlightSets, FiniteSets
    <3>2. Cardinality(InFlight \cup {h}) \in Nat
      BY <1>1, FlightSets, FiniteSets
    <3>3. QED
      BY <1>1, <2>2, <3>1, <3>2
  <2>4. ASSUME NEW p \in Providers PROVE Contained(p)'
    <3>1. CASE p = route[h]
      <4>1. Usable(p) /\ Usable(p)' /\ ~channel[p].exhausted
        BY <1>1, <1>3, <3>1 DEF Usable
      <4>2. QED
        BY <1>1, <4>1 DEF Bounded, Contained
    <3>2. CASE p # route[h]
      <4>1. InFlightAt(p)' = InFlightAt(p)
        BY <1>1, <2>2, <3>2 DEF InFlightAt
      <4>2. PacingAt(p)' = PacingAt(p)
        <5>1. h \notin InFlightAt(p)
          BY <3>2 DEF InFlightAt
        <5>2. \A j \in InFlightAt(p) : phase'[j] = phase[j]
          BY <1>1, <1>3, <5>1, FlightSets
        <5>3. QED
          BY <4>1, <5>2 DEF PacingAt
      <4>3. QED
        BY <1>1, <4>1, <4>2, OthersContained DEF Bounded
    <3>3. QED
      BY <3>1, <3>2
  <2>5. QED
    BY <2>3, <2>4 DEF Bounded
<1>4. QED
  BY <1>2, <1>3, EnterShape

LEMMA AcquireBounded ==
  ASSUME TypeOK, Bounded, TypeOK', NEW i \in plan, Acquire(i)
  PROVE  Bounded'
<1> DEFINE r == route[i]
<1>1. /\ i \in Indicators /\ r \in Providers /\ phase[i] = "pacing" /\ UNCHANGED route
      /\ channel \in [Providers -> Channels] /\ calls \in [Providers -> Tallies]
      /\ channel[r] \in Channels /\ calls[r] \in Tallies /\ phase \in [Indicators -> Phases]
  BY RouteType, AcquireShape DEF TypeOK
<1>2. CASE phase' = [phase EXCEPT ![i] = "sleeping"] /\ UNCHANGED <<channel, calls>>
  BY <1>1, <1>2, NoCallBounded DEF Active
<1>3. ASSUME phase' = [phase EXCEPT ![i] = "calling"],
             channel' = [channel EXCEPT ![r] = [channel[r] EXCEPT !.tokens = @ - 1]],
             NEW late \in {0, 1}, late = IF channel[r].exhausted THEN 1 ELSE 0,
             calls' = [calls EXCEPT ![r] = [calls[r] EXCEPT !.begun = @ + 1, !.late = @ + late]]
      PROVE  Bounded'
  <2>1. /\ InFlight' = InFlight /\ i \in InFlight
        /\ \A p \in Providers : /\ InFlightAt(p)' = InFlightAt(p)
                                /\ PacingAt(p)' = PacingAt(p) \ {i}
    <3>1. "calling" \in Phases /\ "calling" \in Active /\ phase[i] \in Active
          /\ "calling" \notin {"pacing", "sleeping"}
      BY <1>1 DEF Phases, Active
    <3>2. QED
      BY <1>1, <1>3, <3>1, FlightMoves
  <2>2. ASSUME NEW p \in Providers \ {r} PROVE Contained(p)'
    BY <1>1, <1>3, <2>1, OthersContained DEF Bounded
  <2>3. /\ channel'[r].failures = channel[r].failures /\ channel'[r].open = channel[r].open
        /\ channel'[r].exhausted = channel[r].exhausted
        /\ calls'[r].answered = calls[r].answered /\ calls'[r].failed = calls[r].failed
        /\ calls'[r].late = calls[r].late + late /\ r' = r
    BY <1>1, <1>3 DEF Channels, Tallies
  <2>4. Usable(r)' <=> Usable(r)
    BY <2>3 DEF Usable
  <2>5. /\ Cardinality(PacingAt(r)') = Cardinality(PacingAt(r)) - 1
        /\ Cardinality(PacingAt(r)) \in Nat /\ calls[r].late \in Nat /\ Concurrency \in Nat
    <3>1. i \in PacingAt(r) /\ PacingAt(r) \in SUBSET Indicators
      BY <1>1, <2>1, FlightSets DEF PacingAt, InFlightAt
    <3>2. PacingAt(r)' = PacingAt(r) \ {i}
      BY <1>1, <2>1, <2>3
    <3>3. QED
      BY <1>1, <3>1, <3>2, FiniteSets DEF Tallies
  <2>6. /\ calls[r].answered = 0 =>
             IF Usable(r)
             THEN calls[r].failed = channel[r].failures /\ calls[r].failed < Threshold
             ELSE calls[r].failed + Cardinality(InFlightAt(r)) <= Threshold + Concurrency - 1
        /\ IF channel[r].exhausted
           THEN calls[r].late + Cardinality(PacingAt(r)) <= Concurrency - 1
           ELSE calls[r].late = 0
    BY <1>1 DEF Bounded, Contained
  <2>7. IF channel'[r].exhausted
        THEN calls'[r].late + Cardinality(PacingAt(r)') <= Concurrency - 1
        ELSE calls'[r].late = 0
    BY <1>3, <2>3, <2>5, <2>6
  <2>8. InFlightAt(r)' = InFlightAt(r)
    BY <1>1, <2>1, <2>3
  <2>9. Contained(r)'
    BY <2>3, <2>4, <2>6, <2>7, <2>8 DEF Contained
  <2>10. \A p \in Providers : Contained(p)'
    BY <2>2, <2>3, <2>9
  <2>11. QED
    BY <2>1, <2>10 DEF Bounded
<1>4. QED
  BY <1>2, <1>3, AcquireShape

LEMMA RefillBounded ==
  ASSUME TypeOK, Bounded, TypeOK', NEW p \in configured, Refill(p)
  PROVE  Bounded'
<1>1. /\ p \in Providers /\ UNCHANGED route
      /\ channel' = [channel EXCEPT ![p] = [channel[p] EXCEPT !.tokens = @ + 1]]
      /\ calls' = [calls EXCEPT ![p] = [calls[p] EXCEPT !.refills = @ + 1]]
      /\ \A i \in Indicators : phase'[i] = phase[i] \/ (phase[i] = "sleeping" /\ phase'[i] = "pacing")
      /\ channel \in [Providers -> Channels] /\ calls \in [Providers -> Tallies]
  BY RefillShape DEF TypeOK
<1>2. /\ InFlight = {j \in Indicators : phase[j] \in Active}
      /\ InFlight' = {j \in Indicators : phase'[j] \in Active}
  BY DEF TypeOK, InFlight, Active, Phases
<1>3. InFlight' = InFlight /\ InFlight \subseteq Indicators
  BY <1>1, <1>2 DEF Active
<1>4. \A q \in Providers : InFlightAt(q)' = InFlightAt(q) /\ PacingAt(q)' = PacingAt(q)
  BY <1>1, <1>3 DEF InFlightAt, PacingAt
<1>5. \A q \in Providers :
        /\ channel'[q].failures = channel[q].failures /\ channel'[q].open = channel[q].open
        /\ channel'[q].exhausted = channel[q].exhausted
        /\ calls'[q].answered = calls[q].answered /\ calls'[q].failed = calls[q].failed
        /\ calls'[q].late = calls[q].late
  BY <1>1 DEF Channels, Tallies
<1>6. \A q \in Providers : Contained(q)'
  BY <1>4, <1>5 DEF Bounded, Contained, Usable
<1>7. QED
  BY <1>3, <1>6 DEF Bounded

\* Nothing is in flight, and nothing was.
LEMMA NothingInFlight ==
  ASSUME InFlight' = {}, \A p \in Providers : channel'[p] = NewChannel /\ calls'[p] = NoCalls
  PROVE  Bounded'
<1>1. Cardinality({}) = 0
  BY FS_EmptySet
<1>2. \A p \in Providers : InFlightAt(p)' = {} /\ PacingAt(p)' = {}
  BY DEF InFlightAt, PacingAt
<1>3. \A p \in Providers : Contained(p)'
  BY <1>1, <1>2, FiniteSets DEF Contained, Usable, NewChannel, NoCalls
<1>4. QED
  BY <1>1, <1>3, FiniteSets DEF Bounded

LEMMA BoundedInv ==
  ASSUME TypeOK, Orderly, Bounded, [Next]_vars
  PROVE  Bounded'
<1>1. TypeOK'
  BY TypeInv
<1>2. CASE Decline \/ Complete \/ UNCHANGED vars
  BY <1>1, <1>2, NoCallBounded DEF Decline, Settled, Complete, vars
<1>3. CASE Begin
  <2>1. /\ \A i \in Indicators : phase[i] = "none" /\ phase'[i] = "none"
        /\ UNCHANGED <<channel, calls>>
    BY <1>3 DEF Orderly, Begin
  <2>2. InFlight' = {} /\ InFlight = {}
    BY <2>1 DEF InFlight
  <2>3. \A p \in Providers : InFlightAt(p)' = {} /\ PacingAt(p)' = {}
    BY <2>2 DEF InFlightAt, PacingAt
  <2>4. \A p \in Providers : Contained(p)'
    BY <2>1, <2>3, OthersContained DEF Bounded
  <2>5. QED
    BY <2>2, <2>4 DEF Bounded
<1>4. CASE Enter
  BY <1>1, <1>4, EnterBounded
<1>5. ASSUME NEW i \in plan, AskCache(i) \/ Store(i) PROVE Bounded'
  <2>1. i \in Indicators /\ UNCHANGED <<route, channel, calls>>
    BY <1>5 DEF TypeOK, AskCache, Store, Lookup
  <2>2. PICK x \in {"queued", "done"} : phase' = [phase EXCEPT ![i] = x]
    BY <1>5 DEF AskCache, Store
  <2>3. phase[i] \notin Active /\ phase \in [Indicators -> Phases]
    BY <1>5 DEF AskCache, Store, Active, TypeOK
  <2>4. QED
    BY <1>1, <2>1, <2>2, <2>3, NoCallBounded DEF Active
<1>6. ASSUME NEW i \in plan, Acquire(i) PROVE Bounded'
  BY <1>1, <1>6, AcquireBounded
<1>7. ASSUME NEW i \in plan, Answer(i) \/ Refused(i) \/ Fails(i) PROVE Bounded'
  BY <1>1, <1>7, EndBounded
<1>8. ASSUME NEW p \in configured, Refill(p) PROVE Bounded'
  BY <1>1, <1>8, RefillBounded
<1>9. CASE GiveUp \/ Abandon \/ Redeliver
  <2>1. channel' = NewChannels /\ calls' = NoneCalled /\ phase' = NoPhase
    BY <1>9 DEF GiveUp, Abandon, Redeliver, Forget
  <2>2. InFlight' = {}
    BY <2>1, NothingYet DEF InFlight
  <2>3. QED
    BY <2>1, <2>2, NothingYet, NothingInFlight
<1>10. QED
  BY <1>2, <1>3, <1>4, <1>5, <1>6, <1>7, <1>8, <1>9 DEF Next, Step, LookupStep, Done

-----------------------------------------------------------------------------
(* The specification. *)

LEMMA InitInv ==
  ASSUME Init
  PROVE  Inv
<1>1. /\ plan = {} /\ queue = <<>> /\ phase = NoPhase /\ results = NoPhase /\ pending = NoRows
      /\ channel = NewChannels /\ calls = NoneCalled /\ stage = "queued" /\ run = "idle"
  BY DEF Init
<1>2. rows \in [Indicators \X Providers -> Verdict \cup {"none"}]
  <2>1. PICK known \in SUBSET Known :
          rows = [pair \in Indicators \X Providers |-> IF pair \in known THEN "malicious" ELSE "none"]
    BY DEF Init
  <2>2. QED
    BY <2>1 DEF Verdict
<1>3. TypeOK
  <2>1. 0 \in 0..MaxLookups /\ 0 \in 0..MaxCrashes
    BY LimitAssumption
  <2>2. queue \in Seq(Indicators)
    BY <1>1
  <2>3. configured \subseteq Providers /\ enabled \in BOOLEAN /\ findings \subseteq Reported
        /\ used = 0 /\ crashes = 0
    BY DEF Init
  <2>4. QED
    BY <1>1, <1>2, <2>1, <2>2, <2>3, NothingYet DEF TypeOK
<1>4. Orderly
  BY <1>1, NothingYet DEF Orderly
<1>5. Accounted
  BY <1>1, NothingYet DEF Accounted, Stored, AnswersKept
<1>6. Paced
  BY <1>1, NothingYet, LimitAssumption DEF Paced, NewChannel, NoCalls
<1>7. Bounded
  <2>1. InFlight = {}
    BY <1>1, NothingYet DEF InFlight
  <2>2. \A p \in Providers : InFlightAt(p) = {} /\ PacingAt(p) = {}
    BY <2>1 DEF InFlightAt, PacingAt
  <2>3. Cardinality({}) = 0
    BY FS_EmptySet
  <2>4. QED
    BY <1>1, <2>1, <2>2, <2>3, NothingYet, FiniteSets
       DEF Bounded, Contained, Usable, NewChannel, NoCalls
<1>8. QED
  BY <1>3, <1>4, <1>5, <1>6, <1>7 DEF Inv

LEMMA InvHolds == Spec => []Inv
<1>1. Init => Inv
  BY InitInv
<1>2. Inv /\ [Next]_vars => Inv'
  BY TypeInv, OrderInv, StoreInv, PacedInv, BoundedInv DEF Inv
<1>3. QED
  BY <1>1, <1>2, PTL DEF Spec

\* The state of a run stays within its types: no bucket holds more than its burst, no run
\* takes more of the budget than there is.
THEOREM IntelTyped == Spec => []TypeOK
<1>1. Inv => TypeOK
  BY DEF Inv
<1>2. QED
  BY <1>1, InvHolds, PTL

\* However many lookups wait for one bucket, and however they are woken, no provider gets
\* more calls than its burst and the tokens that came due.
THEOREM PacedHolds == Spec => []Paced
<1>1. Inv => Paced
  BY DEF Inv
<1>2. QED
  BY <1>1, InvHolds, PTL

\* For any number of indicators, a provider that never answers costs at most its threshold
\* and the rest of the semaphore, and one that refuses is called at most by the rest of
\* the semaphore afterwards.
THEOREM FailureContainedHolds == Spec => []FailureContained
<1>1. Inv => FailureContained
  <2>1. SUFFICES ASSUME Inv, NEW p \in Providers
                 PROVE  /\ calls[p].answered = 0 => calls[p].failed <= Threshold + Concurrency - 1
                        /\ calls[p].late <= Concurrency - 1
    BY DEF FailureContained
  <2>2. /\ calls[p].failed \in Nat /\ calls[p].late \in Nat
        /\ Threshold \in Nat \ {0} /\ Concurrency \in Nat \ {0}
    BY <2>1, FiniteSets DEF Inv, TypeOK, Tallies
  <2>3. Cardinality(InFlightAt(p)) \in Nat /\ Cardinality(PacingAt(p)) \in Nat
    <3>1. InFlightAt(p) \in SUBSET Indicators /\ PacingAt(p) \in SUBSET Indicators
      BY FlightSets
    <3>2. QED
      BY <3>1, FiniteSets
  <2>4. Contained(p)
    BY <2>1 DEF Inv, Bounded
  <2>5. QED
    BY <2>2, <2>3, <2>4 DEF Contained
<1>2. QED
  BY <1>1, InvHolds, PTL

\* Every verdict behind the evidence of a stage that is done has its row, whatever was
\* answered, cached, lost with a worker or found expired before.
THEOREM AnswersKeptHolds == Spec => []AnswersKept
<1>1. Inv => AnswersKept
  BY DEF Inv, Accounted
<1>2. QED
  BY <1>1, InvHolds, PTL


-----------------------------------------------------------------------------
(* What a run looks up. *)

\* The plan of a run comes from findings that are still the ones in the table.
Harvested ==
  run = "looking" =>
    \E R \in FindingRows(findings) : \E K \in Kept(R) :
      plan = {i \in Candidates(K) : Capable(i) # {}}

LEMMA HarvestInv ==
  ASSUME Harvested, [Next]_vars
  PROVE  Harvested'
<1>1. CASE Begin
  <2>1. /\ UNCHANGED world
        /\ \E R \in FindingRows(findings) : \E K \in Kept(R) :
             plan' = {i \in Candidates(K) : Capable(i) # {}}
    BY <1>1 DEF Begin
  <2>2. QED
    BY <2>1 DEF Harvested, Capable, world
<1>2. CASE run' # "looking"
  BY <1>2 DEF Harvested
<1>3. CASE UNCHANGED <<run, plan>> /\ UNCHANGED world
  BY <1>3 DEF Harvested, Capable, world
<1>4. CASE Enter
  BY <1>3, <1>4 DEF Enter, Lookup
<1>5. ASSUME NEW i \in plan,
             AskCache(i) \/ Acquire(i) \/ Answer(i) \/ Store(i) \/ Refused(i) \/ Fails(i)
      PROVE  Harvested'
  BY <1>3, <1>5 DEF AskCache, Acquire, Answer, Store, Refused, Fails, Lookup
<1>6. ASSUME NEW p \in configured, Refill(p)
      PROVE  Harvested'
  BY <1>3, <1>6 DEF Refill, Lookup
<1>7. CASE Decline \/ Complete \/ GiveUp \/ Abandon \/ Redeliver
  BY <1>2, <1>7 DEF Decline, Settled, Complete, GiveUp, Abandon, Redeliver
<1>8. CASE Done \/ UNCHANGED vars
  BY <1>3, <1>8 DEF Done, vars, world
<1>9. QED
  BY <1>1, <1>4, <1>5, <1>6, <1>7, <1>8 DEF Next, Step, LookupStep

\* A query that is not cut short returns every finding.
LEMMA WholeTable ==
  ASSUME findings \subseteq Reported, Cardinality(findings) <= MaxRows,
         NEW R \in FindingRows(findings)
  PROVE  R = findings
<1>1. IsFiniteSet(findings) /\ MaxRows \in Nat
  BY FS_Subset, HarvestAssumption, LimitAssumption
<1>2. CASE Cardinality(R) = MaxRows
  <2>1. R \subseteq findings
    BY DEF FindingRows
  <2>2. Cardinality(findings) \in Nat
    BY <1>1, FS_CardinalityType
  <2>3. Cardinality(R) <= Cardinality(findings)
    BY <1>1, <2>1, FS_Subset
  <2>4. Cardinality(findings) = Cardinality(R)
    BY <1>1, <1>2, <2>2, <2>3
  <2>5. QED
    BY <1>1, <2>1, <2>4, FS_Subset
<1>3. QED
  BY <1>2 DEF FindingRows

\* What was kept of the findings, row by row.
LEMMA PlannedOnes ==
  ASSUME findings \subseteq Reported,
         NEW K \in Kept(findings), plan = {i \in Candidates(K) : Capable(i) # {}},
         NEW i \in plan, i # Sample, <<"dynamic", i>> \notin findings,
         \A r \in findings : HostOf[r[2]] # r[2] => i # HostOf[r[2]]
  PROVE  <<"static", i>> \in K
<1>1. K \subseteq findings
  BY DEF Kept, KeptUnsorted
<1>2. ASSUME NEW r \in K, i = r[2]
      PROVE  <<"static", i>> \in K
  <2>1. r \in Engines \X Indicators /\ r \in findings
    BY <1>1, HarvestAssumption
  <2>2. r = <<r[1], i>> /\ r[1] \in Engines
    BY <1>2, <2>1
  <2>3. r[1] # "dynamic"
    BY <2>1, <2>2
  <2>4. QED
    BY <2>2, <2>3 DEF Engines
<1>3. CASE \E r \in K : i = HostOf[r[2]]
  <2>1. PICK r \in K : i = HostOf[r[2]]
    BY <1>3
  <2>2. HostOf[r[2]] = r[2]
    BY <1>1, <2>1
  <2>3. QED
    BY <1>2, <2>1, <2>2
<1>4. \/ i \in {Sample} \cup {r[2] : r \in K}
      \/ i \in {HostOf[x] : x \in {Sample} \cup {r[2] : r \in K}}
  BY DEF Candidates
<1>5. QED
  BY <1>2, <1>3, <1>4, HarvestAssumption

\* What only static analysis reported never takes the place in a run of what was seen at
\* run time, for any findings, caps and providers.
THEOREM ObservedFirstHolds == Spec => []ObservedFirst
<1>1. Init => Harvested
  BY DEF Init, Harvested
<1>2. Spec => []Harvested
  BY <1>1, HarvestInv, PTL DEF Spec
<1>3. TypeOK /\ Harvested => ObservedFirst
  <2>1. SUFFICES ASSUME TypeOK, Harvested
                 PROVE  ObservedFirst
    OBVIOUS
  <2>2. plan \subseteq Indicators
    BY <2>1 DEF TypeOK
  <2>3. SUFFICES ASSUME run = "looking",
                        Cardinality(findings) <= MaxRows,
                        NEW i \in plan, <<"dynamic", i>> \notin findings, i # Sample,
                        i \notin {HostOf[u] : u \in {v \in {r[2] : r \in findings} :
                                                       HostOf[v] # v}},
                        NEW j \in Indicators, <<"dynamic", j>> \in findings,
                        Class[j] = Class[i]
                 PROVE  j \in plan
    BY <2>2 DEF ObservedFirst
  <2>4. findings \subseteq Reported
    BY <2>1 DEF TypeOK
  <2>5. PICK K \in Kept(findings) : plan = {x \in Candidates(K) : Capable(x) # {}}
    BY <2>1, <2>3, <2>4, WholeTable DEF Harvested
  <2>6. \A r \in findings : HostOf[r[2]] # r[2] => i # HostOf[r[2]]
    BY <2>3
  <2>7. <<"static", i>> \in K
    BY <2>3, <2>4, <2>5, <2>6, PlannedOnes
  <2>8. <<"dynamic", j>> \in K
    <3>1. ASSUME <<"dynamic", j>> \notin K
          PROVE  FALSE
      BY <2>3, <2>5, <2>7, <3>1 DEF Kept
    <3>2. QED
      BY <3>1
  <2>9. j \in Candidates(K)
    BY <2>8 DEF Candidates
  <2>10. Capable(j) = Capable(i)
    BY <2>3 DEF Capable
  <2>11. QED
    BY <2>3, <2>5, <2>9, <2>10
<1>4. QED
  BY <1>2, <1>3, IntelTyped, PTL
=============================================================================
