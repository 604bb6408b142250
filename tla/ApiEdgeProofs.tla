----------------------------- MODULE ApiEdgeProofs -----------------------------
(* Proofs about ApiEdge for every set of users and queries and every budget, however often
   the user acts, tokens expire, windows end and calls are lost.                         *)
EXTENDS ApiEdge, FiniteSetTheorems, TLAPS

(* ---------------------------------- types ------------------------------------ *)

\* A refresh and a login name a user, and a call put aside the counter it waits for.
Named ==
  /\ IsFiniteSet(Issued)
  /\ \A c \in Calls : call[c].at = "unset" => call[c].key \in Principals
  /\ \A c \in {"refresh", "login"} : call[c].at # "idle" => call[c].who \in Users

Typed == TypeOK /\ Named

LEMMA CallNames ==
  /\ Queries \subseteq Calls /\ {"refresh", "login"} \subseteq Calls
  /\ {"refresh", "login"} \cap Queries = {}
BY EdgeAssumption DEF Calls

LEMMA NoCallType == NoCall \in CallRecords
BY DEF NoCall, CallRecords

LEMMA RequestType ==
  ASSUME NEW token \in {0} \cup Issued, NEW who \in Users \cup {"none"}
  PROVE  /\ Request(token, who) \in CallRecords
         /\ Request(token, who).at = "sent" /\ Request(token, who).who = who
         /\ Request(token, who).status = "none"
BY NoCallType DEF Request, CallRecords, NoCall

LEMMA RequestToken ==
  ASSUME NEW token \in {0} \cup Issued, NEW who \in Users \cup {"none"}
  PROVE  Request(token, who).token = token
BY NoCallType DEF Request, CallRecords, NoCall

\* An answer changes the call it is for and nothing else of it.
LEMMA AnswerType ==
  ASSUME Typed, NEW c \in Calls, NEW status \in {"ok", "401", "429", "lost"},
         Answer(c, status), call[c].at \in {"sent", "unset"}, UNCHANGED owner
  PROVE  /\ (call \in [Calls -> CallRecords])' /\ Named'
         /\ call'[c].at = "answered" /\ call'[c].status = status
         /\ \A d \in Calls \ {c} : call'[d] = call[d]
<1>1. call[c] \in CallRecords
  BY DEF Typed, TypeOK
<1>2. /\ [call[c] EXCEPT !.at = "answered", !.status = status] \in CallRecords
      /\ [call[c] EXCEPT !.at = "answered", !.status = status].at = "answered"
      /\ [call[c] EXCEPT !.at = "answered", !.status = status].status = status
      /\ [call[c] EXCEPT !.at = "answered", !.status = status].who = call[c].who
  BY <1>1 DEF CallRecords
<1>3. call' = [call EXCEPT ![c] = [call[c] EXCEPT !.at = "answered", !.status = status]]
  BY DEF Answer
<1>4. /\ call'[c] = [call[c] EXCEPT !.at = "answered", !.status = status]
      /\ \A d \in Calls \ {c} : call'[d] = call[d]
      /\ call' \in [Calls -> CallRecords]
  BY <1>2, <1>3 DEF Typed, TypeOK
<1>5. CallRecords' = CallRecords /\ Issued' = Issued
  BY DEF CallRecords, Issued
<1>6. Named'
  BY <1>2, <1>4, <1>5, CallNames DEF Typed, Named
<1>7. QED
  BY <1>2, <1>4, <1>5, <1>6

\* Whatever a token endpoint or a query does with a call, it answers it.
LEMMA ServeType ==
  ASSUME Typed, NEW c \in Calls, Serve(c), call[c].at \in {"sent", "unset"}
  PROVE  /\ (call \in [Calls -> CallRecords])' /\ Named'
         /\ (Issued = 1..Cardinality(Issued))' /\ (owner \in [Issued -> Users])'
         /\ Issued \subseteq Issued'
         /\ call'[c].at = "answered" /\ call'[c].status \in {"ok", "401"}
         /\ \A d \in Calls \ {c} : call'[d] = call[d]
<1>1. CASE UNCHANGED owner /\ (Answer(c, "ok") \/ Answer(c, "401"))
  <2>1. Issued' = Issued
    BY <1>1 DEF Issued
  <2>2. QED
    BY <1>1, <2>1, AnswerType DEF Typed, TypeOK
<1>2. CASE Issue(c) /\ c \notin Queries
  <2> DEFINE n == Cardinality(Issued) + 1
  <2>1. /\ Cardinality(Issued) \in Nat /\ n \in Nat /\ n \notin Issued
        /\ Issued \cup {n} = 1..n
    BY FS_CardinalityType DEF Typed, TypeOK, Named
  <2>2. /\ owner' = [i \in Issued \cup {n} |-> IF i = n THEN call[c].who ELSE owner[i]]
        /\ call' = [call EXCEPT ![c] = [call[c] EXCEPT !.at = "answered", !.status = "ok", !.token = n]]
    BY <1>2 DEF Issue
  <2>3. Issued' = Issued \cup {n}
    BY <2>2 DEF Issued
  <2>4. IsFiniteSet(Issued') /\ Cardinality(Issued') = n
    BY <2>1, <2>3, FS_AddElement DEF Typed, Named
  <2>5. call[c].who \in Users /\ call[c] \in CallRecords
    BY <1>2, CallNames DEF Typed, TypeOK, Named, Calls
  <2>6. owner' \in [Issued' -> Users]
    BY <2>2, <2>3, <2>5 DEF Typed, TypeOK
  <2>7. CallRecords \subseteq CallRecords'
    BY <2>3 DEF CallRecords
  <2> DEFINE answer == [call[c] EXCEPT !.at = "answered", !.status = "ok", !.token = n]
  <2>8. /\ answer \in CallRecords' /\ answer.at = "answered" /\ answer.status = "ok"
        /\ answer.who = call[c].who
    BY <2>3, <2>5 DEF CallRecords
  <2>9. /\ call'[c] = answer /\ \A d \in Calls \ {c} : call'[d] = call[d]
        /\ call' \in [Calls -> CallRecords']
    <3> HIDE DEF answer
    <3>1. QED
      BY <2>2, <2>7, <2>8 DEF Typed, TypeOK, answer
  <2> HIDE DEF answer, n
  <2>10. Named'
    BY <2>4, <2>5, <2>8, <2>9, CallNames DEF Typed, Named
  <2>11. QED
    BY <2>1, <2>3, <2>4, <2>6, <2>8, <2>9, <2>10
<1>3. QED
  BY <1>1, <1>2 DEF Serve

LEMMA KeyType ==
  ASSUME Typed, NEW c \in Calls PROVE PrincipalKey(c) \in Principals
<1>1. call[c].token \in {0} \cup Issued
  BY DEF Typed, TypeOK, CallRecords
<1>2. QED
  BY <1>1 DEF PrincipalKey, Principals, Typed, TypeOK

(* ------------------------------- who waits ------------------------------------ *)

Inv == Typed /\ QueryComesBack

\* Steps of the server: a call that is under way stays so, and the tab sees nothing of it.
LEMMA ServerStep ==
  ASSUME Inv, NEW c \in Calls, UNCHANGED <<store, page>>,
         (call \in [Calls -> CallRecords])', Named',
         (Issued = 1..Cardinality(Issued))', (owner \in [Issued -> Users])',
         Issued \subseteq Issued', counter' \in [Principals -> Nat], ttl' \in [Principals -> BOOLEAN],
         call[c].at # "idle", call'[c].at # "idle", \A d \in Calls \ {c} : call'[d] = call[d]
  PROVE  Inv'
<1>1. TypeOK'
  BY DEF Inv, Typed, TypeOK
<1>2. \A d \in Calls : call'[d].at # "idle" <=> call[d].at # "idle"
  OBVIOUS
<1>3. QueryComesBack'
  BY <1>2, CallNames DEF Inv, QueryComesBack
<1>4. QED
  BY <1>1, <1>3 DEF Inv, Typed

LEMMA CounterType ==
  ASSUME Typed, NEW k \in Principals, NEW m,
         counter' = [counter EXCEPT ![k] = m], m \in Nat
  PROVE  counter' \in [Principals -> Nat]
BY DEF Typed, TypeOK

LEMMA BudgetNat == Budget \in Nat
BY EdgeAssumption

\* A call the limiter has counted is put aside until its key has an expiry.
LEMMA PutAside ==
  ASSUME Typed, NEW c \in Calls, NEW k \in Principals, NEW n \in Nat, call[c].at = "sent",
         call' = [call EXCEPT ![c].at = "unset", ![c].key = k, ![c].count = n], UNCHANGED owner
  PROVE  /\ (call \in [Calls -> CallRecords])' /\ Named'
         /\ call'[c].at = "unset" /\ call'[c].status = call[c].status
         /\ \A d \in Calls \ {c} : call'[d] = call[d]
<1> DEFINE r == [call[c] EXCEPT !.at = "unset", !.key = k, !.count = n]
<1>1. /\ r \in CallRecords /\ r.at = "unset" /\ r.status = call[c].status /\ r.who = call[c].who
      /\ r.key = k
  <2>1. call[c] \in CallRecords
    BY DEF Typed, TypeOK
  <2>2. QED
    BY <2>1 DEF CallRecords
<1>2. call' = [call EXCEPT ![c] = r]
  OBVIOUS
<1> HIDE DEF r
<1>3. /\ call'[c] = r
      /\ \A d \in Calls \ {c} : call'[d] = call[d]
      /\ call' \in [Calls -> CallRecords]
  <2>1. call \in [Calls -> CallRecords] /\ r \in CallRecords
    BY <1>1 DEF Typed, TypeOK
  <2>2. QED
    BY <1>2, <2>1
<1>4. CallRecords' = CallRecords /\ Issued' = Issued
  BY DEF CallRecords, Issued
<1>5. Named'
  BY <1>1, <1>3, <1>4, CallNames DEF Typed, Named
<1>6. QED
  BY <1>1, <1>3, <1>4, <1>5

\* What the limiter lets through is served, and what it does not is answered 429.
LEMMA JudgeType ==
  ASSUME Typed, NEW c \in Calls, NEW n, Judge(c, n), call[c].at \in {"sent", "unset"}
  PROVE  /\ (call \in [Calls -> CallRecords])' /\ Named'
         /\ (Issued = 1..Cardinality(Issued))' /\ (owner \in [Issued -> Users])'
         /\ Issued \subseteq Issued' /\ call'[c].at = "answered"
         /\ \A d \in Calls \ {c} : call'[d] = call[d]
<1>1. CASE n <= Budget
  BY <1>1, ServeType DEF Judge
<1>2. CASE ~(n <= Budget)
  <2>1. Answer(c, "429") /\ UNCHANGED owner
    BY <1>2 DEF Judge
  <2>2. Issued' = Issued
    BY <2>1 DEF Issued
  <2>3. QED
    BY <2>1, <2>2, AnswerType DEF Typed, TypeOK
<1>3. QED
  BY <1>1, <1>2

LEMMA CallStepInv ==
  ASSUME Inv, NEW c \in Calls, CallStep(c)
  PROVE  Inv'
<1>1. Typed /\ ttl \in [Principals -> BOOLEAN] /\ counter \in [Principals -> Nat]
  BY DEF Inv, Typed, TypeOK
<1>2. UNCHANGED <<store, page>>
  BY DEF CallStep, Count, SetExpiry, LoseCall, Browser
<1>3. CASE Count(c)
  <2> DEFINE k == PrincipalKey(c)
             n == counter[k] + 1
  <2>1. k \in Principals /\ n \in Nat /\ (IF n > Budget THEN Budget + 1 ELSE n) \in Nat
    BY <1>1, KeyType, BudgetNat
  <2>2. call[c].at = "sent" /\ UNCHANGED ttl
    BY <1>3 DEF Count
  <2>3. counter' \in [Principals -> Nat]
    <3>1. (IF n > Budget THEN counter[k] ELSE n) \in Nat
      BY <1>1, <2>1
    <3>2. \/ counter' = [counter EXCEPT ![k] = IF n > Budget THEN Budget + 1 ELSE n]
          \/ counter' = counter
          \/ counter' = [counter EXCEPT ![k] = IF n > Budget THEN counter[k] ELSE n]
      BY <1>3 DEF Count
    <3> HIDE DEF n, k
    <3>3. QED
      BY <1>1, <2>1, <3>1, <3>2, CounterType
  <2>4. \/ Judge(c, n) \/ Serve(c)
        \/ call' = [call EXCEPT ![c].at = "unset", ![c].key = k, ![c].count = n] /\ UNCHANGED owner
    BY <1>3 DEF Count
  <2> HIDE DEF n, k
  <2>5. CASE Judge(c, n) \/ Serve(c)
    BY <1>1, <1>2, <2>2, <2>3, <2>5, JudgeType, ServeType, ServerStep
  <2>6. CASE call' = [call EXCEPT ![c].at = "unset", ![c].key = k, ![c].count = n] /\ UNCHANGED owner
    <3>1. Issued' = Issued
      BY <2>6 DEF Issued
    <3>2. /\ (call \in [Calls -> CallRecords])' /\ Named' /\ call'[c].at = "unset"
          /\ \A d \in Calls \ {c} : call'[d] = call[d]
      BY <1>1, <2>1, <2>2, <2>6, PutAside
    <3>3. (Issued = 1..Cardinality(Issued))' /\ (owner \in [Issued -> Users])'
      BY <1>1, <2>6, <3>1 DEF Typed, TypeOK
    <3>4. QED
      BY <1>1, <1>2, <2>2, <2>3, <3>1, <3>2, <3>3, ServerStep
  <2>7. QED
    BY <2>4, <2>5, <2>6
<1>4. CASE SetExpiry(c)
  <2>1. call[c].at = "unset" /\ UNCHANGED counter
    BY <1>4 DEF SetExpiry
  <2>2. ttl' \in [Principals -> BOOLEAN]
    <3> DEFINE set == counter[call[c].key] > 0
    <3>1. set \in BOOLEAN
      OBVIOUS
    <3>2. ttl' = ttl \/ ttl' = [ttl EXCEPT ![call[c].key] = set]
      BY <1>4 DEF SetExpiry
    <3> HIDE DEF set
    <3>3. QED
      BY <1>1, <3>1, <3>2
  <2>3. Judge(c, call[c].count) \/ Serve(c)
    BY <1>4 DEF SetExpiry
  <2>4. QED
    BY <1>1, <1>2, <2>1, <2>2, <2>3, JudgeType, ServeType, ServerStep
<1>5. CASE LoseCall(c)
  <2>1. Answer(c, "lost") /\ UNCHANGED owner /\ call[c].at \in {"sent", "unset"}
    BY <1>5 DEF LoseCall, server
  <2>2. Issued' = Issued /\ UNCHANGED <<counter, ttl>>
    BY <1>5 DEF Issued, LoseCall, server
  <2>3. (Issued = 1..Cardinality(Issued))' /\ (owner \in [Issued -> Users])'
    BY <1>1, <2>1, <2>2 DEF Typed, TypeOK
  <2>4. QED
    BY <1>1, <1>2, <2>1, <2>2, <2>3, AnswerType, ServerStep
<1>6. QED
  BY <1>3, <1>4, <1>5 DEF CallStep

\* Steps that leave the server alone but for what it knows of users and expiries.
LEMMA TabStep ==
  ASSUME Inv, UNCHANGED <<owner, counter, ttl>>,
         store' \in [user: Users \cup {"none"}, access: {0} \cup Issued],
         page' \in [Queries -> {"idle", "first", "waiting", "again"}],
         call' \in [Calls -> CallRecords], Named', QueryComesBack'
  PROVE  Inv'
<1>1. Issued' = Issued /\ CallRecords' = CallRecords
  BY DEF Issued, CallRecords
<1>2. QED
  BY <1>1 DEF Inv, Typed, TypeOK

LEMMA QueryStepInv ==
  ASSUME Inv, NEW q \in Queries, Open(q) \/ Receive(q)
  PROVE  Inv'
<1>1. /\ Typed /\ QueryComesBack /\ q \in Calls /\ q \notin {"refresh", "login"}
      /\ store \in [user: Users \cup {"none"}, access: {0} \cup Issued]
      /\ page \in [Queries -> {"idle", "first", "waiting", "again"}]
      /\ call \in [Calls -> CallRecords] /\ Named
  BY CallNames DEF Inv, Typed, TypeOK
<1>2. NoCall \in CallRecords /\ NoCall.at = "idle"
  BY NoCallType DEF NoCall
<1>3. IsFiniteSet(Issued) /\ UNCHANGED <<owner, counter, ttl>> /\ Issued' = Issued
  BY <1>1 DEF Open, Receive, server, Named, Issued
<1>4. CASE Open(q)
  <2> DEFINE r == Request(store.access, "none")
  <2>1. r \in CallRecords /\ r.at = "sent"
    <3>1. store.access \in {0} \cup Issued
      BY <1>1
    <3>2. QED
      BY <3>1, RequestType
  <2>2. /\ page' = [page EXCEPT ![q] = "first"] /\ UNCHANGED store
        /\ call' = [call EXCEPT ![q] = r]
    BY <1>4 DEF Open
  <2> HIDE DEF r
  <2>3. Named'
    BY <1>1, <1>3, <2>1, <2>2, CallNames DEF Named
  <2>4. QueryComesBack'
    BY <1>1, <2>1, <2>2, CallNames DEF QueryComesBack
  <2>5. /\ page' \in [Queries -> {"idle", "first", "waiting", "again"}]
        /\ call' \in [Calls -> CallRecords]
    BY <1>1, <2>1, <2>2
  <2>6. QED
    BY <1>1, <1>3, <2>2, <2>3, <2>4, <2>5, TabStep
<1>5. CASE Receive(q)
  <2>1. call[q].at = "answered" /\ page[q] \in {"first", "again"}
    BY <1>1, <1>5 DEF Receive, QueryComesBack
  <2>2. ASSUME Finish(q), Hang(q), store' = store \/ store' = NoSession PROVE Inv'
    <3>1. store' \in [user: Users \cup {"none"}, access: {0} \cup Issued]
      BY <1>1, <2>2 DEF NoSession
    <3>2. /\ page' = [page EXCEPT ![q] = "idle"] /\ call' = [call EXCEPT ![q] = NoCall]
      BY <2>2 DEF Finish, Hang
    <3>3. Named'
      BY <1>1, <1>2, <1>3, <3>2, CallNames DEF Named
    <3>4. QueryComesBack'
      BY <1>1, <1>2, <3>2, CallNames DEF QueryComesBack
    <3>5. QED
      BY <1>1, <1>2, <1>3, <3>1, <3>2, <3>3, <3>4, TabStep
  <2>3. ASSUME page' = [page EXCEPT ![q] = "waiting"], UNCHANGED store,
               ~(call["refresh"].at = "idle" /\ store.user = "none"),
               call' = [call EXCEPT ![q] = NoCall, !["refresh"] =
                          IF call["refresh"].at = "idle" THEN Request(0, store.user) ELSE call["refresh"]]
        PROVE  Inv'
    <3> DEFINE r == IF call["refresh"].at = "idle" THEN Request(0, store.user) ELSE call["refresh"]
    <3>1. /\ r \in CallRecords /\ r.at # "idle" /\ r.who \in Users
          /\ r.at = "unset" => r.key \in Principals
      <4>1. CASE call["refresh"].at = "idle"
        BY <1>1, <2>3, <4>1, RequestType
      <4>2. CASE call["refresh"].at # "idle"
        BY <1>1, <4>2, CallNames DEF Named
      <4>3. QED
        BY <4>1, <4>2
    <3>2. call' = [[call EXCEPT ![q] = NoCall] EXCEPT !["refresh"] = r]
      BY <1>1, <2>3
    <3> HIDE DEF r
    <3>3. /\ call' \in [Calls -> CallRecords] /\ call'["refresh"] = r /\ call'[q] = NoCall
          /\ \A c \in Calls \ {q, "refresh"} : call'[c] = call[c]
      BY <1>1, <1>2, <3>1, <3>2, CallNames
    <3>4. Named'
      BY <1>1, <1>2, <1>3, <3>1, <3>3, CallNames DEF Named
    <3>5. QueryComesBack'
      BY <1>1, <1>2, <2>3, <3>1, <3>3, CallNames DEF QueryComesBack
    <3>6. QED
      BY <1>1, <1>3, <2>3, <3>3, <3>4, <3>5, TabStep
  <2>4. \/ Finish(q) /\ Hang(q) /\ (store' = store \/ store' = NoSession)
        \/ /\ page' = [page EXCEPT ![q] = "waiting"] /\ UNCHANGED store
           /\ ~(call["refresh"].at = "idle" /\ store.user = "none")
           /\ call' = [call EXCEPT ![q] = NoCall, !["refresh"] =
                         IF call["refresh"].at = "idle" THEN Request(0, store.user) ELSE call["refresh"]]
    BY <1>1, <1>5, CallNames DEF Receive, Clear
  <2>5. QED
    BY <2>2, <2>3, <2>4
<1>6. QED
  BY <1>4, <1>5

LEMMA RefreshInv ==
  ASSUME Inv, RefreshReturns
  PROVE  Inv'
<1>1. /\ Typed /\ QueryComesBack /\ Named /\ call \in [Calls -> CallRecords]
      /\ store \in [user: Users \cup {"none"}, access: {0} \cup Issued]
      /\ page \in [Queries -> {"idle", "first", "waiting", "again"}]
      /\ UNCHANGED <<owner, counter, ttl>> /\ Issued' = Issued
  BY DEF Inv, Typed, TypeOK, RefreshReturns, server, Issued
<1> DEFINE answer == call["refresh"]
<1>2. /\ answer.at = "answered" /\ answer \in CallRecords /\ answer.who \in Users
      /\ answer.token \in {0} \cup Issued
  BY <1>1, CallNames DEF RefreshReturns, Named, CallRecords
<1>3. NoCall \in CallRecords /\ NoCall.at = "idle"
  BY NoCallType DEF NoCall
<1>4. CASE answer.status = "ok"
  <2> DEFINE r == Request(answer.token, "none")
  <2>1. r \in CallRecords /\ r.at = "sent"
    <3>1. answer.token \in {0} \cup Issued /\ "none" \in Users \cup {"none"}
      BY <1>2
    <3> HIDE DEF answer
    <3>2. QED
      BY <3>1, RequestType
  <2>2. /\ store' = [user |-> answer.who, access |-> answer.token]
        /\ page' = [q \in Queries |-> IF q \in Waiting THEN "again" ELSE page[q]]
        /\ call' = [c \in Calls |-> IF c = "refresh" THEN NoCall
                                    ELSE IF c \in Waiting THEN r ELSE call[c]]
    BY <1>4 DEF RefreshReturns
  <2> HIDE DEF r, answer
  <2>3. store' \in [user: Users \cup {"none"}, access: {0} \cup Issued]
    BY <1>2, <2>2
  <2>4. page' \in [Queries -> {"idle", "first", "waiting", "again"}] /\ call' \in [Calls -> CallRecords]
    BY <1>1, <1>3, <2>1, <2>2
  <2>5. Named'
    BY <1>1, <1>3, <2>1, <2>2, CallNames DEF Named, Waiting
  <2>6. QueryComesBack'
    BY <1>1, <2>1, <2>2, CallNames DEF QueryComesBack, Waiting
  <2>7. QED
    BY <1>1, <2>3, <2>4, <2>5, <2>6, TabStep
<1>5. CASE answer.status # "ok"
  <2>1. /\ store' = NoSession
        /\ page' = [q \in Queries |-> IF q \in Waiting THEN "idle" ELSE page[q]]
        /\ call' = [call EXCEPT !["refresh"] = NoCall]
    BY <1>5 DEF RefreshReturns, Clear
  <2>2. store' \in [user: Users \cup {"none"}, access: {0} \cup Issued]
    BY <2>1 DEF NoSession
  <2>3. page' \in [Queries -> {"idle", "first", "waiting", "again"}] /\ call' \in [Calls -> CallRecords]
    BY <1>1, <1>3, <2>1
  <2>4. Named'
    BY <1>1, <1>3, <2>1, CallNames DEF Named
  <2>5. QueryComesBack'
    BY <1>1, <2>1, CallNames DEF QueryComesBack, Waiting
  <2>6. QED
    BY <1>1, <2>2, <2>3, <2>4, <2>5, TabStep
<1>6. QED
  BY <1>4, <1>5

LEMMA UserInv ==
  ASSUME Inv, (\E u \in Users : StartLogin(u)) \/ LoginReturns \/ Logout
  PROVE  Inv'
<1>1. /\ Typed /\ QueryComesBack /\ Named /\ call \in [Calls -> CallRecords]
      /\ store \in [user: Users \cup {"none"}, access: {0} \cup Issued]
      /\ page \in [Queries -> {"idle", "first", "waiting", "again"}]
      /\ UNCHANGED <<owner, counter, ttl, page>> /\ Issued' = Issued
  BY DEF Inv, Typed, TypeOK, StartLogin, LoginReturns, Logout, server, Issued
<1>2. NoCall \in CallRecords /\ NoCall.at = "idle"
  BY NoCallType DEF NoCall
<1>3. ASSUME NEW r \in CallRecords, call' = [call EXCEPT !["login"] = r],
             r.at # "idle" => r.who \in Users, r.at # "unset",
             store' \in [user: Users \cup {"none"}, access: {0} \cup Issued]
      PROVE  Inv'
  <2>1. /\ call' \in [Calls -> CallRecords] /\ call'["login"] = r
        /\ \A c \in Calls \ {"login"} : call'[c] = call[c]
    BY <1>1, <1>3, CallNames
  <2>2. Named'
    BY <1>1, <1>3, <2>1, CallNames DEF Named
  <2>3. QueryComesBack'
    BY <1>1, <2>1, CallNames DEF QueryComesBack
  <2>4. QED
    BY <1>1, <1>3, <2>1, <2>2, <2>3, TabStep
<1>4. ASSUME NEW u \in Users, StartLogin(u) PROVE Inv'
  <2> DEFINE r == Request(0, u)
  <2>1. r \in CallRecords /\ r.who = u /\ r.at = "sent"
    BY RequestType
  <2>2. call' = [call EXCEPT !["login"] = r] /\ UNCHANGED store
    BY <1>4 DEF StartLogin
  <2> HIDE DEF r
  <2>3. QED
    BY <1>1, <1>3, <2>1, <2>2
<1>5. CASE LoginReturns
  <2>1. /\ call' = [call EXCEPT !["login"] = NoCall] /\ call["login"].at = "answered"
        /\ \/ store' = [user |-> call["login"].who, access |-> call["login"].token]
           \/ store' = store
    BY <1>5 DEF LoginReturns
  <2>2. call["login"].who \in Users /\ call["login"].token \in {0} \cup Issued
    BY <1>1, <2>1, CallNames DEF Named, CallRecords
  <2>3. store' \in [user: Users \cup {"none"}, access: {0} \cup Issued]
    BY <1>1, <2>1, <2>2
  <2>4. QED
    BY <1>2, <1>3, <2>1, <2>3
<1>6. CASE Logout
  <2>1. store' = NoSession /\ UNCHANGED call
    BY <1>6 DEF Logout
  <2>2. Named' /\ QueryComesBack'
    BY <1>1, <2>1 DEF Named, QueryComesBack
  <2>3. QED
    BY <1>1, <2>1, <2>2, TabStep DEF NoSession
<1>7. QED
  BY <1>4, <1>5, <1>6

LEMMA OtherInv ==
  ASSUME Inv, \/ \E k \in Principals : WindowEnds(k)
              \/ \E n \in Issued \ expired : TokenExpires(n)
              \/ \E u \in Users : Deactivate(u)
              \/ UNCHANGED vars
  PROVE  Inv'
<1>1. UNCHANGED <<store, page, call, owner>> /\ Issued' = Issued /\ CallRecords' = CallRecords
  BY DEF WindowEnds, TokenExpires, Deactivate, Browser, vars, server, Issued, CallRecords
<1>2. (counter' \in [Principals -> Nat]) /\ ttl' \in [Principals -> BOOLEAN]
  <2>1. counter \in [Principals -> Nat] /\ ttl \in [Principals -> BOOLEAN]
    BY DEF Inv, Typed, TypeOK
  <2>2. ASSUME NEW k \in Principals, WindowEnds(k)
        PROVE  (counter' \in [Principals -> Nat]) /\ ttl' \in [Principals -> BOOLEAN]
    BY <2>1, <2>2 DEF WindowEnds
  <2>3. QED
    BY <2>1, <2>2 DEF TokenExpires, Deactivate, vars, server
<1>3. QED
  BY <1>1, <1>2 DEF Inv, Typed, TypeOK, Named, QueryComesBack

LEMMA InvHolds == Spec => []Inv
<1>1. Init => Inv
  <2> SUFFICES ASSUME Init PROVE Inv
    OBVIOUS
  <2>1. /\ Issued = {1} /\ \E u \in Users : store = [user |-> u, access |-> 1]
        /\ owner \in [Issued -> Users]
    BY DEF Init, Issued
  <2>2. IsFiniteSet(Issued) /\ Cardinality(Issued) = 1 /\ Issued = 1..1
    BY <2>1, FS_Singleton
  <2>3. \A c \in Calls : call[c].at = "idle"
    BY DEF Init, NoCall
  <2>4. TypeOK
    BY <2>1, <2>2, NoCallType DEF Init, TypeOK
  <2>5. QED
    BY <2>2, <2>3, <2>4, CallNames DEF Inv, Typed, Named, QueryComesBack, Init
<1>2. Inv /\ [Next]_vars => Inv'
  BY CallStepInv, QueryStepInv, RefreshInv, UserInv, OtherInv DEF Next
<1>3. QED
  BY <1>1, <1>2, PTL DEF Spec

(* ------------------------------- the session ---------------------------------- *)

\* What a refresh got is a token of the user it was for.
Refreshed ==
  LET answer == call["refresh"] IN
  answer.status = "ok" => answer.token \in Issued /\ owner[answer.token] = answer.who

\* A refresh, and whoever is sent again, is of the session the tab is to have, if any.
Faithful ==
  /\ call["refresh"].at # "idle" => call["refresh"].who = Settled
  /\ \A q \in Queries : page[q] = "again" /\ Settled # "none" =>
       call[q].token \in Issued /\ owner[call[q].token] = Settled

\* A login under way is the last thing the user asked for, but for a logout.
Asked == call["login"].at # "idle" => meant \in {"none", call["login"].who}

Session == Refreshed /\ Asked /\ SessionIsMeant /\ (~stray => Faithful)

LEMMA SettledStays ==
  ASSUME UNCHANGED <<meant, before>>, call'["login"].at = "idle" <=> call["login"].at = "idle"
  PROVE  Settled' = Settled
BY DEF Settled

\* What the server does to one call leaves the tokens it has issued to whom they were.
Kept(c) ==
  /\ Issued \subseteq Issued' /\ \A n \in Issued : owner'[n] = owner[n]
  /\ call'[c].who = call[c].who /\ call'[c].at # "idle"
  /\ c \in Queries => call'[c].token = call[c].token
  /\ \A d \in Calls \ {c} : call'[d] = call[d]
  /\ c \notin Queries /\ call'[c].status = "ok" =>
       \/ call[c].status = "ok" /\ call'[c].token = call[c].token
       \/ call'[c].token \in Issued' /\ owner'[call'[c].token] = call'[c].who

LEMMA AnswerKeeps ==
  ASSUME Typed, NEW c \in Calls, NEW status \in {"ok", "401", "429", "lost"},
         Answer(c, status), UNCHANGED owner, status = "ok" => c \in Queries
  PROVE  Kept(c)
<1>1. call[c] \in CallRecords /\ call \in [Calls -> CallRecords] /\ Issued' = Issued
  BY DEF Typed, TypeOK, Issued
<1> DEFINE r == [call[c] EXCEPT !.at = "answered", !.status = status]
<1>2. r.at = "answered" /\ r.status = status /\ r.token = call[c].token /\ r.who = call[c].who
  BY <1>1 DEF CallRecords
<1>3. call' = [call EXCEPT ![c] = r]
  BY DEF Answer
<1> HIDE DEF r
<1>4. call'[c] = r /\ \A d \in Calls \ {c} : call'[d] = call[d]
  BY <1>1, <1>3
<1>5. QED
  BY <1>1, <1>2, <1>4 DEF Kept

LEMMA ServeKeeps ==
  ASSUME Typed, NEW c \in Calls, Serve(c)
  PROVE  Kept(c)
<1>1. CASE UNCHANGED owner /\ (Answer(c, "401") \/ (Answer(c, "ok") /\ c \in Queries))
  BY <1>1, AnswerKeeps
<1>2. CASE Issue(c) /\ c \notin Queries
  <2> DEFINE n == Cardinality(Issued) + 1
             r == [call[c] EXCEPT !.at = "answered", !.status = "ok", !.token = n]
  <2>1. /\ owner' = [i \in Issued \cup {n} |-> IF i = n THEN call[c].who ELSE owner[i]]
        /\ call' = [call EXCEPT ![c] = r]
    BY <1>2 DEF Issue
  <2>2. n \notin Issued /\ call[c] \in CallRecords /\ call \in [Calls -> CallRecords]
    BY FS_CardinalityType DEF Typed, TypeOK, Named
  <2>3. r.at = "answered" /\ r.token = n /\ r.who = call[c].who
    BY <2>2 DEF CallRecords
  <2> HIDE DEF n, r
  <2>4. Issued' = Issued \cup {n} /\ owner'[n] = call[c].who /\ \A i \in Issued : owner'[i] = owner[i]
    BY <2>1, <2>2 DEF Issued
  <2>5. call'[c] = r /\ \A d \in Calls \ {c} : call'[d] = call[d]
    BY <2>1, <2>2
  <2>6. QED
    BY <1>2, <2>3, <2>4, <2>5 DEF Kept
<1>3. QED
  BY <1>1, <1>2 DEF Serve

LEMMA CallStepKeeps ==
  ASSUME Typed, NEW c \in Calls, CallStep(c)
  PROVE  Kept(c)
<1>1. ASSUME NEW k, NEW n,
             call' = [call EXCEPT ![c].at = "unset", ![c].key = k, ![c].count = n], UNCHANGED owner
      PROVE  Kept(c)
  <2> DEFINE r == [call[c] EXCEPT !.at = "unset", !.key = k, !.count = n]
  <2>1. call[c] \in CallRecords /\ call \in [Calls -> CallRecords] /\ Issued' = Issued
    BY <1>1 DEF Typed, TypeOK, Issued
  <2>2. /\ r.at = "unset" /\ r.token = call[c].token /\ r.who = call[c].who
        /\ r.status = call[c].status
    BY <2>1 DEF CallRecords
  <2>3. call' = [call EXCEPT ![c] = r]
    BY <1>1
  <2> HIDE DEF r
  <2>4. call'[c] = r /\ \A d \in Calls \ {c} : call'[d] = call[d]
    BY <2>1, <2>3
  <2>5. QED
    BY <1>1, <2>1, <2>2, <2>4 DEF Kept
<1>2. ASSUME NEW n, Judge(c, n) PROVE Kept(c)
  BY <1>2, AnswerKeeps, ServeKeeps DEF Judge
<1>3. CASE LoseCall(c)
  BY <1>3, AnswerKeeps DEF LoseCall, server
<1>4. QED
  BY <1>1, <1>2, <1>3, ServeKeeps DEF CallStep, Count, SetExpiry

LEMMA ServerSession ==
  ASSUME Inv, Session, NEW c \in Calls, CallStep(c)
  PROVE  Session'
<1>1. Kept(c) /\ call[c].at # "idle" /\ UNCHANGED <<store, page, meant, before, stray, refused>>
  BY CallStepKeeps DEF Inv, CallStep, Count, SetExpiry, LoseCall, Browser, history
<1>2. Refreshed'
  BY <1>1, CallNames DEF Session, Refreshed, Kept
<1>5. Settled' = Settled
  <2>1. call'["login"].at = "idle" <=> call["login"].at = "idle"
    BY <1>1, CallNames DEF Kept
  <2>2. QED
    BY <1>1, <2>1, SettledStays
<1>6. Asked'
  <2>1. /\ call'["login"].at = "idle" <=> call["login"].at = "idle"
        /\ call'["login"].who = call["login"].who
    BY <1>1, CallNames DEF Kept
  <2>2. QED
    BY <1>1, <2>1 DEF Session, Asked
<1>3. ~stray => Faithful'
  <2>1. call'["refresh"].who = call["refresh"].who /\ (call'["refresh"].at # "idle" => call["refresh"].at # "idle")
    BY <1>1, CallNames DEF Kept
  <2>2. \A q \in Queries : call'[q].token = call[q].token
    BY <1>1, CallNames DEF Kept
  <2>3. QED
    BY <1>1, <1>5, <2>1, <2>2 DEF Session, Faithful, Kept
<1>4. QED
  BY <1>1, <1>2, <1>3, <1>5, <1>6 DEF Session, SessionIsMeant

\* Steps that leave the calls and the session in the tab alone.
LEMMA OutsideSession ==
  ASSUME Session, UNCHANGED <<store, page, call, owner, history>>
  PROVE  Session'
<1>1. Settled' = Settled
  BY SettledStays DEF history
<1>2. QED
  BY <1>1 DEF Session, Refreshed, Asked, SessionIsMeant, Faithful, history, Issued

LEMMA QuerySession ==
  ASSUME Inv, Session, NEW q \in Queries, Open(q) \/ Receive(q)
  PROVE  Session'
<1>1. /\ Typed /\ QueryComesBack /\ q \in Calls /\ q \notin {"refresh", "login"}
      /\ page \in [Queries -> {"idle", "first", "waiting", "again"}]
      /\ call \in [Calls -> CallRecords] /\ "none" \notin Users
  BY CallNames, EdgeAssumption DEF Inv, Typed, TypeOK
<1>2. NoCall.at = "idle" /\ NoCall.status = "none"
  BY DEF NoCall
<1>3. UNCHANGED <<owner, stray, meant, before>> /\ Issued' = Issued
  BY DEF Open, Receive, server, history, Clear, Issued
<1>10. call'["login"] = call["login"] /\ Settled' = Settled
  <2>1. call'["login"] = call["login"]
    BY <1>1, CallNames DEF Open, Receive, Hang
  <2>2. QED
    BY <1>3, <2>1, SettledStays
<1>11. Asked'
  BY <1>3, <1>10 DEF Session, Asked
<1>4. CASE Open(q)
  <2>1. /\ page' = [page EXCEPT ![q] = "first"] /\ UNCHANGED <<store, history>>
        /\ \A c \in Calls \ {q} : call'[c] = call[c]
    BY <1>1, <1>4 DEF Open
  <2>2. QED
    BY <1>1, <1>3, <1>10, <1>11, <2>1, CallNames
       DEF Session, Refreshed, SessionIsMeant, Faithful, history
<1>5. ASSUME Finish(q), Hang(q),
             \/ UNCHANGED <<store, history>>
             \/ store' = NoSession /\ (~stray => Settled = "none" \/ refused')
      PROVE  Session'
  <2>1. /\ page' = [page EXCEPT ![q] = "idle"]
        /\ \A c \in Calls \ {q} : call'[c] = call[c]
    BY <1>1, <1>5 DEF Finish, Hang
  <2>2. SessionIsMeant'
    BY <1>3, <1>5, <1>10 DEF Session, SessionIsMeant, NoSession, history
  <2>3. QED
    BY <1>1, <1>3, <1>10, <1>11, <2>1, <2>2, CallNames DEF Session, Refreshed, Faithful
<1>6. CASE Receive(q) /\ call[q].status # "401"
  BY <1>1, <1>5, <1>6 DEF Receive
<1>7. CASE Receive(q) /\ call[q].status = "401" /\ page[q] = "again"
  <2>1. Finish(q) /\ Hang(q) /\ Clear(owner[call[q].token])
    BY <1>7 DEF Receive
  <2>2. ~stray => Settled = "none" \/ refused'
    BY <1>7, <2>1 DEF Clear, Session, Faithful
  <2>3. QED
    BY <1>5, <2>1, <2>2 DEF Clear
<1>8. CASE Receive(q) /\ call[q].status = "401" /\ page[q] # "again"
  <2>1. CASE call["refresh"].at = "idle" /\ store.user = "none"
    BY <1>5, <1>8, <2>1 DEF Receive
  <2>2. CASE ~(call["refresh"].at = "idle" /\ store.user = "none")
    <3> DEFINE r == IF call["refresh"].at = "idle" THEN Request(0, store.user) ELSE call["refresh"]
    <3>1. /\ page' = [page EXCEPT ![q] = "waiting"] /\ UNCHANGED <<store, history>>
          /\ call' = [[call EXCEPT ![q] = NoCall] EXCEPT !["refresh"] = r]
      BY <1>1, <1>8, <2>2, CallNames DEF Receive
    <3>2. store.user \in Users \cup {"none"}
      BY DEF Inv, Typed, TypeOK
    <3>3. \/ r = call["refresh"] /\ call["refresh"].at # "idle"
          \/ r.who = store.user /\ store.user # "none" /\ r.status = "none"
      BY <2>2, <3>2, RequestType
    <3> HIDE DEF r
    <3>4. /\ call'["refresh"] = r
          /\ \A c \in Calls \ {q, "refresh"} : call'[c] = call[c]
      BY <1>1, <3>1, CallNames
    <3>5. Refreshed'
      BY <1>3, <3>3, <3>4 DEF Session, Refreshed
    <3>6. ~stray => Faithful'
      BY <1>1, <1>3, <1>10, <3>1, <3>3, <3>4, CallNames DEF Session, SessionIsMeant, Faithful
    <3>7. QED
      BY <1>3, <1>10, <1>11, <3>1, <3>5, <3>6 DEF Session, SessionIsMeant, history
  <2>3. QED
    BY <2>1, <2>2
<1>9. QED
  BY <1>4, <1>6, <1>7, <1>8

LEMMA RefreshSession ==
  ASSUME Inv, Session, RefreshReturns
  PROVE  Session'
<1>1. /\ call \in [Calls -> CallRecords] /\ page \in [Queries -> {"idle", "first", "waiting", "again"}]
      /\ UNCHANGED <<owner, stray, meant, before>> /\ Issued' = Issued
  BY DEF Inv, Typed, TypeOK, RefreshReturns, server, Issued, history, Clear
<1>7. Settled' = Settled /\ Asked'
  <2>1. call'["login"] = call["login"]
    BY <1>1, CallNames DEF RefreshReturns, Waiting
  <2>2. QED
    BY <1>1, <2>1, SettledStays DEF Session, Asked
<1> DEFINE answer == call["refresh"]
<1>2. /\ answer.at = "answered" /\ answer.token \in {0} \cup Issued
      /\ ~stray => answer.who = Settled
  BY <1>1, CallNames DEF RefreshReturns, Session, Faithful, CallRecords
<1>3. NoCall.at = "idle" /\ NoCall.status = "none"
  BY DEF NoCall
<1>4. CASE answer.status = "ok"
  <2> DEFINE r == Request(answer.token, "none")
  <2>1. r.token = answer.token
    <3>1. answer.token \in {0} \cup Issued /\ "none" \in Users \cup {"none"}
      BY <1>2
    <3> HIDE DEF answer
    <3>2. QED
      BY <3>1, RequestToken
  <2>2. /\ store' = [user |-> answer.who, access |-> answer.token] /\ UNCHANGED history
        /\ page' = [q \in Queries |-> IF q \in Waiting THEN "again" ELSE page[q]]
        /\ call' = [c \in Calls |-> IF c = "refresh" THEN NoCall
                                    ELSE IF c \in Waiting THEN r ELSE call[c]]
    BY <1>4 DEF RefreshReturns
  <2>3. answer.token \in Issued /\ owner[answer.token] = answer.who
    BY <1>4 DEF Session, Refreshed
  <2> HIDE DEF r, answer
  <2>4. call'["refresh"] = NoCall
    BY <2>2, CallNames
  <2>5. \A q \in Queries : /\ q \in Waiting => page'[q] = "again" /\ call'[q].token = answer.token
                           /\ q \notin Waiting => page'[q] = page[q] /\ call'[q] = call[q]
    BY <2>1, <2>2, CallNames
  <2>6. ~stray => Faithful'
    BY <1>1, <1>2, <1>3, <1>7, <2>3, <2>4, <2>5 DEF Session, Faithful
  <2>7. QED
    BY <1>1, <1>2, <1>3, <1>7, <2>2, <2>4, <2>6 DEF Session, SessionIsMeant, Refreshed, history
<1>5. CASE answer.status # "ok"
  <2>1. /\ store' = NoSession /\ refused' = (refused \/ answer.who = Settled)
        /\ page' = [q \in Queries |-> IF q \in Waiting THEN "idle" ELSE page[q]]
        /\ call' = [call EXCEPT !["refresh"] = NoCall]
    BY <1>5 DEF RefreshReturns, Clear
  <2>2. call'["refresh"] = NoCall /\ \A q \in Queries : call'[q] = call[q]
    BY <1>1, <2>1, CallNames
  <2>3. ~stray => Faithful'
    BY <1>1, <1>3, <1>7, <2>1, <2>2 DEF Session, Faithful
  <2>4. QED
    BY <1>1, <1>2, <1>3, <1>7, <2>1, <2>2, <2>3
       DEF Session, SessionIsMeant, Refreshed, NoSession
<1>6. QED
  BY <1>4, <1>5

LEMMA UserSession ==
  ASSUME Inv, Session, (\E u \in Users : StartLogin(u)) \/ LoginReturns \/ Logout
  PROVE  Session'
<1>1. /\ call \in [Calls -> CallRecords] /\ UNCHANGED <<owner, page>> /\ Issued' = Issued
      /\ \A c \in Calls \ {"login"} : call'[c] = call[c]
  BY DEF Inv, Typed, TypeOK, StartLogin, LoginReturns, Logout, server, Issued
<1>2. Refreshed'
  BY <1>1, CallNames DEF Session, Refreshed
<1>7. ASSUME UNCHANGED <<store, stray, refused>>, Settled' = Settled, Asked'
      PROVE  Session'
  BY <1>1, <1>2, <1>7, CallNames DEF Session, SessionIsMeant, Faithful
<1>3. ASSUME NEW u \in Users, StartLogin(u) PROVE Session'
  <2>1. call'["login"] = Request(0, u) /\ call["login"].at = "idle" /\ 0 \in {0} \cup Issued
    BY <1>1, <1>3, CallNames DEF StartLogin
  <2>2. call'["login"].at = "sent" /\ call'["login"].who = u
    BY <2>1, RequestType
  <2>3. meant' = u /\ before' = meant /\ UNCHANGED <<store, stray, refused>>
    BY <1>3 DEF StartLogin
  <2>4. Settled' = Settled /\ Asked'
    BY <2>1, <2>2, <2>3 DEF Settled, Asked
  <2>5. QED
    BY <1>7, <2>3, <2>4
<1>4. CASE Logout
  <2>1. call' = call /\ meant' = "none" /\ before' = "none"
    BY <1>4 DEF Logout
  <2>2. Settled' = "none" /\ Asked'
    BY <2>1 DEF Settled, Asked
  <2>3. QED
    BY <1>1, <1>2, <1>4, <2>2, CallNames DEF Logout, NoSession, Session, SessionIsMeant, Faithful
<1>5. CASE LoginReturns
  <2>1. call["login"].at = "answered" /\ call'["login"] = NoCall /\ NoCall.at = "idle"
    BY <1>1, <1>5, CallNames DEF LoginReturns, NoCall
  <2>2. Settled' = meant' /\ Settled = before /\ Asked'
    BY <2>1 DEF Settled, Asked
  <2>3. CASE call["login"].status = "ok"
    <3>1. /\ store' = [user |-> call["login"].who, access |-> call["login"].token]
          /\ meant' = meant
          /\ stray' = (\/ meant = "none" \/ call["refresh"].at # "idle"
                       \/ \E q \in Queries : page[q] = "again")
      BY <1>5, <2>3 DEF LoginReturns
    <3>2. ~stray' => call["login"].who = meant
      BY <2>1, <3>1 DEF Session, Asked
    <3>3. QED
      BY <1>1, <1>2, <2>2, <3>1, <3>2, CallNames DEF Session, SessionIsMeant, Faithful
  <2>4. CASE call["login"].status # "ok"
    BY <1>5, <1>7, <2>2, <2>4 DEF LoginReturns
  <2>5. QED
    BY <2>3, <2>4
<1>6. QED
  BY <1>3, <1>4, <1>5

LEMMA SessionHolds == Spec => []Session
<1>1. Init => Session
  BY CallNames DEF Init, Session, Refreshed, Asked, SessionIsMeant, Settled, Faithful, NoCall
<1>2. Inv /\ Session /\ [Next]_vars => Session'
  <2> SUFFICES ASSUME Inv, Session, [Next]_vars PROVE Session'
    OBVIOUS
  <2>1. CASE \/ \E k \in Principals : WindowEnds(k)
             \/ \E n \in Issued \ expired : TokenExpires(n)
             \/ \E u \in Users : Deactivate(u)
             \/ UNCHANGED vars
    <3>1. UNCHANGED <<store, page, call, owner, history>>
      BY <2>1 DEF WindowEnds, TokenExpires, Deactivate, Browser, vars, server, history
    <3>2. QED
      BY <3>1, OutsideSession
  <2>2. QED
    BY <2>1, ServerSession, QuerySession, RefreshSession, UserSession DEF Next
<1>3. QED
  BY <1>1, <1>2, InvHolds, PTL DEF Spec

(* --------------------------------- theorems ----------------------------------- *)

\* Every variable keeps its type; the tab and its calls only ever carry tokens that were issued.
THEOREM EdgeTyped == Spec => []TypeOK
<1>1. Inv => TypeOK
  BY DEF Inv, Typed
<1>2. QED
  BY <1>1, InvHolds, PTL

\* lib/api/client.ts: a query that waits for the refresh others share has one under way to
\* wake it, whatever is lost, refused or limited, and whoever logs in or out meanwhile.
THEOREM WaitersAreWoken == Spec => []QueryComesBack
<1>1. Inv => QueryComesBack
  BY DEF Inv
<1>2. QED
  BY <1>1, InvHolds, PTL

\* lib/api/client.ts, lib/auth-store.ts: the tab has the session its user last asked for, or
\* none because the server turned that one away, whatever is refreshed, replayed or lost
\* meanwhile, unless a refresh or replay of the session before was still under way at that
\* login or logout, or a login at that logout.
THEOREM SessionKept == Spec => []SessionIsMeant
<1>1. Session => SessionIsMeant
  BY DEF Session
<1>2. QED
  BY <1>1, SessionHolds, PTL

\* core/ratelimit.py:107-118: nobody is refused under a counter that would never expire.
THEOREM RefusalsEnd == Spec => RefusedHasExpiry
<1> DEFINE Turned(c) == call'[c].status = "429" /\ call[c].status # "429"
           Key(c) == IF call[c].at = "unset" THEN call[c].key ELSE PrincipalKey(c)
           Lets == \A c \in Calls : Turned(c) => ttl'[Key(c)] \/ counter'[Key(c)] = 0
<1>1. Inv /\ [Next]_vars => Lets
  <2> SUFFICES ASSUME Inv, [Next]_vars, NEW c \in Calls, Turned(c)
               PROVE  ttl'[Key(c)] \/ counter'[Key(c)] = 0
    OBVIOUS
  <2>1. /\ Typed /\ call \in [Calls -> CallRecords] /\ NoCall.status = "none"
        /\ counter \in [Principals -> Nat] /\ ttl \in [Principals -> BOOLEAN]
        /\ \A who, token : Request(token, who).status = "none"
    BY DEF Inv, Typed, TypeOK, NoCall, Request
  <2>2. ASSUME NEW d \in Calls, Count(d) PROVE ttl'[Key(c)] \/ counter'[Key(c)] = 0
    <3> DEFINE k == PrincipalKey(d)
               n == counter[k] + 1
    <3>1. call[d].at = "sent" /\ UNCHANGED ttl
      BY <2>2 DEF Count
    <3>2. CASE ttl[k] /\ Judge(d, n)
      <4>1. c = d
        BY <2>1, <3>1, <3>2, JudgeType
      <4>2. QED
        BY <3>1, <3>2, <4>1
    <3>3. CASE Serve(d)
      BY <2>1, <3>1, <3>3, ServeType
    <3>4. CASE call' = [call EXCEPT ![d].at = "unset", ![d].key = k, ![d].count = n] /\ UNCHANGED owner
      <4>1. k \in Principals /\ n \in Nat
        BY <2>1, KeyType
      <4> HIDE DEF k, n
      <4>2. call'[d].status = call[d].status /\ \A e \in Calls \ {d} : call'[e] = call[e]
        BY <2>1, <3>1, <3>4, <4>1, PutAside
      <4>3. QED
        BY <4>2
    <3>5. QED
      BY <2>2, <3>2, <3>3, <3>4 DEF Count
  <2>3. ASSUME NEW d \in Calls, SetExpiry(d) PROVE ttl'[Key(c)] \/ counter'[Key(c)] = 0
    <3> DEFINE k == call[d].key
    <3>1. call[d].at = "unset" /\ UNCHANGED counter /\ k \in Principals
      BY <2>1, <2>3 DEF SetExpiry, Typed, Named
    <3>2. CASE ttl' = [ttl EXCEPT ![k] = counter[k] > 0] /\ Judge(d, call[d].count)
      <4>1. c = d
        BY <2>1, <3>1, <3>2, JudgeType
      <4>2. CASE counter[k] > 0
        BY <2>1, <3>1, <3>2, <4>1, <4>2
      <4>3. CASE ~(counter[k] > 0)
        <5>1. counter[k] = 0
          BY <2>1, <3>1, <4>3
        <5>2. QED
          BY <3>1, <4>1, <5>1
      <4>4. QED
        BY <4>2, <4>3
    <3>3. CASE Serve(d)
      BY <2>1, <3>1, <3>3, ServeType
    <3>4. QED
      BY <2>3, <3>2, <3>3 DEF SetExpiry
  <2>4. ASSUME NEW d \in Calls, LoseCall(d) PROVE FALSE
    <3>1. Answer(d, "lost") /\ call[d].at \in {"sent", "unset"} /\ UNCHANGED owner
      BY <2>4 DEF LoseCall, server
    <3>2. QED
      BY <2>1, <3>1, AnswerType
  <2>5. ASSUME NEW q \in Queries, Open(q) \/ Receive(q) PROVE FALSE
    BY <2>1, <2>5, CallNames DEF Open, Receive, Hang
  <2>6. CASE RefreshReturns
    BY <2>1, <2>6, CallNames DEF RefreshReturns
  <2>7. CASE (\E u \in Users : StartLogin(u)) \/ LoginReturns \/ Logout
    <3>1. \A e \in Calls : e # "login" => call'[e] = call[e]
      BY <2>1, <2>7 DEF StartLogin, LoginReturns, Logout
    <3>2. \/ call' = call
          \/ call' = [call EXCEPT !["login"] = NoCall]
          \/ \E u \in Users : call' = [call EXCEPT !["login"] = Request(0, u)]
      BY <2>7 DEF StartLogin, LoginReturns, Logout
    <3>3. QED
      BY <2>1, <3>1, <3>2, CallNames
  <2>8. CASE \/ \E k \in Principals : WindowEnds(k)
             \/ \E n \in Issued \ expired : TokenExpires(n)
             \/ \E u \in Users : Deactivate(u)
             \/ UNCHANGED vars
    BY <2>8 DEF WindowEnds, TokenExpires, Deactivate, vars
  <2>9. QED
    BY <2>2, <2>3, <2>4, <2>5, <2>6, <2>7, <2>8 DEF Next, CallStep
<1>2. QED
  BY <1>1, InvHolds, PTL DEF Spec, RefusedHasExpiry

=============================================================================
