-------------------------------- MODULE ApiEdge --------------------------------
(* The edge of the API: one browser tab (src/frontend/src/lib: the fetch wrapper, the auth
   store, login and logout) against the server's rate limiter, token check and token
   endpoints (src/backend/app: core/ratelimit.py, core/security.py, routers/auth.py).
   Queries run concurrently; one that is answered 401 waits for the refresh all of them
   share, is replayed once with the new token, and ends the session if that fails too.

   Simplifications.  Access tokens are numbered in the order of issue; of a refresh token,
   which nothing on the server remembers, only the user it names matters.  A principal has
   one bucket (the upload bucket works alike).  What a query returns, roles and the audit
   rows are left out, and so are passwords: a login of an active user succeeds.  One login
   is under way at a time: a second one, sent from the login page opened anew before the
   first is answered, is left out.                                                      *)
EXTENDS Naturals, FiniteSets

CONSTANTS
  Users, Queries,
  Budget,       \* requests of a principal in one window
  MaxOpens, MaxActs, MaxFaults   \* bounds of the model

ASSUME EdgeAssumption ==
  /\ "none" \notin Users /\ "ip" \notin Users
  /\ {"refresh", "login"} \cap Queries = {}
  /\ Budget \in Nat \ {0} /\ {MaxOpens, MaxActs, MaxFaults} \subseteq Nat

VARIABLES
  store,      \* the tab's token pair: whose it is, and the access token
  page,       \* query -> what the fetch wrapper is doing for it
  call,       \* query, refresh, login -> the HTTP call
  owner,      \* the access tokens issued: whose each one is
  expired,    \* those that have expired
  active,     \* users not deactivated
  counter, ttl,   \* principal -> Redis: counter, and whether it has an expiry
  opens, acts, faults,    \* counters of the bounds
  meant,      \* whom the user last asked to be, "none" after a logout (history)
  before,     \* whom, before the login that is under way (history)
  stray,      \* calls that came before were under way when that was done (history)
  refused     \* the server has turned the session away since (history)

server == <<owner, expired, active, counter, ttl>>
history == <<meant, before, stray, refused>>
vars == <<store, page, call, server, opens, acts, faults, history>>

Calls == Queries \cup {"refresh", "login"}
Principals == Users \cup {"ip"}
Issued == DOMAIN owner

NoSession == [user |-> "none", access |-> 0]
NoCall == [at |-> "idle", token |-> 0, who |-> "none", key |-> "none", count |-> 0, status |-> "none"]

Request(token, who) == [NoCall EXCEPT !.at = "sent", !.token = token, !.who = who]
Answer(c, status) == call' = [call EXCEPT ![c].at = "answered", ![c].status = status]

Fault == faults < MaxFaults /\ faults' = faults + 1
Browser == UNCHANGED <<store, page, opens, acts, history>>

(* ------------------------------ the endpoints -------------------------------- *)

\* decode_token, and the user row, read on every request.
Authentic(n) == n # 0 /\ n \notin expired /\ owner[n] \in active

\* refresh and login issue a pair to a user that is active.
Issue(c) ==
  LET n == Cardinality(Issued) + 1 IN
  /\ owner' = [i \in Issued \cup {n} |-> IF i = n THEN call[c].who ELSE owner[i]]
  /\ call' = [call EXCEPT ![c].at = "answered", ![c].status = "ok", ![c].token = n]

Serve(c) ==
  IF c \in Queries
  THEN Answer(c, IF Authentic(call[c].token) THEN "ok" ELSE "401") /\ UNCHANGED owner
  ELSE IF call[c].who \in active THEN Issue(c) ELSE Answer(c, "401") /\ UNCHANGED owner

(* ------------------------------ rate limiter --------------------------------- *)

\* The token's subject, if it verifies and has not expired; otherwise the peer's address,
\* which is what a refresh and a login are counted under.
PrincipalKey(c) ==
  LET n == call[c].token IN IF n # 0 /\ n \notin expired THEN owner[n] ELSE "ip"

\* What is allowed is served at once: nothing the limiter reads changes in between.
Judge(c, count) ==
  IF count <= Budget THEN Serve(c) ELSE Answer(c, "429") /\ UNCHANGED owner

\* Mutant: only the request that opens a window sets its expiry.
CountFirst(c) ==
  LET k == PrincipalKey(c)  n == counter[k] + 1 IN
  /\ call[c].at = "sent"
  /\ counter' = [counter EXCEPT ![k] = IF n > Budget THEN Budget + 1 ELSE n]
  /\ IF n = 1 THEN call' = [call EXCEPT ![c].at = "unset", ![c].key = k, ![c].count = n] /\ UNCHANGED owner
     ELSE Judge(c, n)
  /\ Browser /\ UNCHANGED <<expired, active, ttl, faults>>

\* INCR and TTL in one pipeline; without Redis, or its answer, the request proceeds.
Count(c) ==
  LET k == PrincipalKey(c)  n == counter[k] + 1 IN
  /\ call[c].at = "sent"
  /\ \/ /\ counter' = [counter EXCEPT ![k] = IF n > Budget THEN Budget + 1 ELSE n]
        /\ IF ttl[k] THEN Judge(c, n)
           ELSE call' = [call EXCEPT ![c].at = "unset", ![c].key = k, ![c].count = n] /\ UNCHANGED owner
        /\ UNCHANGED faults
     \/ Serve(c) /\ Fault /\ counter' \in {counter, [counter EXCEPT ![k] = IF n > Budget THEN @ ELSE n]}
  /\ Browser /\ UNCHANGED <<expired, active, ttl>>

\* EXPIRE, a call of its own, does nothing to a key that is gone.
SetExpiry(c) ==
  LET k == call[c].key IN
  /\ call[c].at = "unset"
  /\ \/ ttl' = [ttl EXCEPT ![k] = counter[k] > 0] /\ Judge(c, call[c].count) /\ UNCHANGED faults
     \/ Serve(c) /\ Fault /\ ttl' \in {ttl, [ttl EXCEPT ![k] = counter[k] > 0]}
  /\ Browser /\ UNCHANGED <<expired, active, counter>>

WindowEnds(k) ==
  /\ ttl[k]
  /\ counter' = [counter EXCEPT ![k] = 0] /\ ttl' = [ttl EXCEPT ![k] = FALSE]
  /\ Browser /\ UNCHANGED <<call, owner, expired, active, faults>>

\* The process, or the connection, is gone: wherever the call was.
LoseCall(c) ==
  /\ call[c].at \in {"sent", "unset"}
  /\ Answer(c, "lost") /\ Fault
  /\ Browser /\ UNCHANGED server

TokenExpires(n) ==
  /\ expired' = expired \cup {n}
  /\ Browser /\ UNCHANGED <<call, owner, active, counter, ttl, faults>>

Deactivate(u) ==
  /\ acts < MaxActs /\ acts' = acts + 1
  /\ active' = active \ {u} /\ active' # active
  /\ UNCHANGED <<store, page, call, owner, expired, counter, ttl, opens, faults, history>>

(* ------------------------------ the fetch wrapper ---------------------------- *)

Open(q) ==
  /\ page[q] = "idle" /\ opens < MaxOpens /\ opens' = opens + 1
  /\ page' = [page EXCEPT ![q] = "first"]
  /\ call' = [call EXCEPT ![q] = Request(store.access, "none")]
  /\ UNCHANGED <<store, server, acts, faults, history>>

Finish(q) == page' = [page EXCEPT ![q] = "idle"]
Hang(q) == call' = [call EXCEPT ![q] = NoCall]

\* Whom the tab is to be signed in as by now: a login counts once it is answered.
Settled == IF call["login"].at = "idle" THEN meant ELSE before

\* clearToken: the tab forgets the session it has by now, whichever it is.
Clear(who) ==
  /\ store' = NoSession
  /\ refused' = (refused \/ who = Settled)
  /\ UNCHANGED <<meant, before, stray>>

\* Mutant: a 401 ends the session.
ReceiveGivingUp(q) ==
  /\ call[q].at = "answered"
  /\ Finish(q) /\ Hang(q)
  /\ IF call[q].status = "401" THEN store' = NoSession ELSE UNCHANGED store
  /\ UNCHANGED <<server, opens, acts, faults, history>>

\* What comes back is returned or thrown, except a 401: the first one joins the refresh
\* that is under way or starts one; without a refresh token there is nothing to wait for.
Receive(q) ==
  /\ call[q].at = "answered"
  /\ IF call[q].status # "401" THEN Finish(q) /\ Hang(q) /\ UNCHANGED <<store, history>>
     ELSE IF page[q] = "again"
     THEN Finish(q) /\ Hang(q) /\ Clear(owner[call[q].token])
     ELSE IF call["refresh"].at = "idle" /\ store.user = "none"
     THEN Finish(q) /\ Hang(q) /\ UNCHANGED <<store, history>>
     ELSE /\ page' = [page EXCEPT ![q] = "waiting"]
          /\ call' = [call EXCEPT ![q] = NoCall, !["refresh"] =
                        IF @.at = "idle" THEN Request(0, store.user) ELSE @]
          /\ UNCHANGED <<store, history>>
  /\ UNCHANGED <<server, opens, acts, faults>>

Waiting == {q \in Queries : page[q] = "waiting"}

\* Mutant: the refresh wakes up only the query that began it.
RefreshWakesOne ==
  /\ call["refresh"].at = "answered"
  /\ LET n == call["refresh"].token IN
     \E one \in Waiting :
       IF call["refresh"].status = "ok"
       THEN /\ store' = [user |-> call["refresh"].who, access |-> n]
            /\ page' = [page EXCEPT ![one] = "again"]
            /\ call' = [call EXCEPT !["refresh"] = NoCall, ![one] = Request(n, "none")]
            /\ UNCHANGED history
       ELSE /\ page' = [page EXCEPT ![one] = "idle"]
            /\ Clear(call["refresh"].who) /\ call' = [call EXCEPT !["refresh"] = NoCall]
  /\ UNCHANGED <<server, opens, acts, faults>>

\* The new pair is stored and every query that waited is sent again with it; any failure
\* (refused, limited, lost) leaves each of them with its 401.
RefreshReturns ==
  LET answer == call["refresh"] IN
  /\ answer.at = "answered"
  /\ IF answer.status = "ok"
     THEN /\ store' = [user |-> answer.who, access |-> answer.token]
          /\ page' = [q \in Queries |-> IF q \in Waiting THEN "again" ELSE page[q]]
          /\ call' = [c \in Calls |-> IF c = "refresh" THEN NoCall
                                      ELSE IF c \in Waiting THEN Request(answer.token, "none") ELSE call[c]]
          /\ UNCHANGED history
     ELSE /\ page' = [q \in Queries |-> IF q \in Waiting THEN "idle" ELSE page[q]]
          /\ call' = [call EXCEPT !["refresh"] = NoCall]
          /\ Clear(answer.who)
  /\ UNCHANGED <<server, opens, acts, faults>>

(* ------------------------------ login and logout ----------------------------- *)

StartLogin(u) ==
  /\ acts < MaxActs /\ acts' = acts + 1
  /\ call["login"].at = "idle"
  /\ call' = [call EXCEPT !["login"] = Request(0, u)]
  /\ meant' = u /\ before' = meant
  /\ UNCHANGED <<store, page, server, opens, faults, stray, refused>>

\* Whatever was done since, a logout too, the pair is stored: that leaves a session nobody
\* means to have.  A login that fails changes nothing.
LoginReturns ==
  LET answer == call["login"] IN
  /\ answer.at = "answered"
  /\ call' = [call EXCEPT !["login"] = NoCall]
  /\ IF answer.status = "ok"
     THEN /\ store' = [user |-> answer.who, access |-> answer.token]
          /\ refused' = FALSE
          /\ stray' = (\/ meant = "none" \/ call["refresh"].at # "idle"
                       \/ \E q \in Queries : page[q] = "again")
          /\ UNCHANGED meant
     ELSE meant' = before /\ UNCHANGED <<store, stray, refused>>
  /\ before' = "none"
  /\ UNCHANGED <<page, server, opens, acts, faults>>

Logout ==
  /\ acts < MaxActs /\ acts' = acts + 1
  /\ store' = NoSession /\ meant' = "none" /\ before' = "none" /\ refused' = FALSE
  /\ stray' = (call["refresh"].at # "idle")
  /\ UNCHANGED <<page, call, server, opens, faults>>

(* ---------------------------------- the whole -------------------------------- *)

\* The tab opens with the session it saved.
Init ==
  /\ \E u \in Users :
       /\ store = [user |-> u, access |-> 1] /\ owner = [i \in {1} |-> u]
       /\ meant = u /\ before = "none"
  /\ page = [q \in Queries |-> "idle"] /\ call = [c \in Calls |-> NoCall]
  /\ expired = {} /\ active = Users
  /\ counter = [k \in Principals |-> 0] /\ ttl = [k \in Principals |-> FALSE]
  /\ opens = 0 /\ acts = 0 /\ faults = 0 /\ stray = FALSE /\ refused = FALSE

CallStep(c) == Count(c) \/ SetExpiry(c) \/ LoseCall(c)

Next ==
  \/ \E c \in Calls : CallStep(c)
  \/ \E k \in Principals : WindowEnds(k)
  \/ \E n \in Issued \ expired : TokenExpires(n)
  \/ \E u \in Users : Deactivate(u) \/ StartLogin(u)
  \/ \E q \in Queries : Open(q) \/ Receive(q)
  \/ RefreshReturns \/ LoginReturns \/ Logout

Spec == Init /\ [][Next]_vars

(* -------------------------------- properties --------------------------------- *)

CallRecords ==
  [at: {"idle", "sent", "unset", "answered"}, token: {0} \cup Issued, who: Users \cup {"none"},
   key: Principals \cup {"none"}, count: Nat, status: {"none", "ok", "401", "429", "lost"}]

TypeOK ==
  /\ store \in [user: Users \cup {"none"}, access: {0} \cup Issued]
  /\ page \in [Queries -> {"idle", "first", "waiting", "again"}]
  /\ call \in [Calls -> CallRecords]
  /\ Issued = 1..Cardinality(Issued) /\ owner \in [Issued -> Users]
  /\ counter \in [Principals -> Nat] /\ ttl \in [Principals -> BOOLEAN]

\* The session in the tab is the one the user last asked for, once that is answered: a
\* logout lasts and a login is not overwritten by tokens of the user before; and it ends
\* only if the server has turned it away, never because some query of several got a 401 of
\* an expired token.  The code does not keep this if something else was still under way: a
\* refresh of the session before at a login or a logout (or a replay, at a login), whose
\* result is then stored or whose failure clears the store; or a login at a logout, whose
\* answer is stored after it and signs the user in again (use-auth.ts:14-16).
SessionIsMeant ==
  ~stray => store.user = Settled \/ (store.user = "none" /\ refused)

\* A principal is refused only while its counter has an expiry, so that it will be let in
\* again: an expiry lost between INCR and EXPIRE (ratelimit.py:107-118) is set by the next
\* check before anyone is turned away.
RefusedHasExpiry ==
  [][\A c \in Calls :
       call'[c].status = "429" /\ call[c].status # "429"
         => LET k == IF call[c].at = "unset" THEN call[c].key ELSE PrincipalKey(c)
            IN ttl'[k] \/ counter'[k] = 0]_vars

\* No query waits for ever for a refresh that others share: whoever waits, a refresh is
\* under way that wakes it, and whoever was sent or replayed has a call of its own.
QueryComesBack ==
  \A q \in Queries :
    /\ page[q] = "waiting" => call["refresh"].at # "idle"
    /\ page[q] \in {"first", "again"} <=> call[q].at # "idle"
================================================================================
