--------------------------- MODULE LLMGatewayProofs ---------------------------
(***************************************************************************)
(* Proofs about LLMGateway for every set of deployments, every schema and  *)
(* every limit on turns and attempts: what an agent keeps is sound, and    *)
(* what it costs is bounded.                                               *)
(***************************************************************************)
EXTENDS LLMGateway, TLAPS

-----------------------------------------------------------------------------
(* Types, and the bound on the calls. *)

\* The calls one turn may make: the attempts and a correction.
PerTurn == MaxAttempts + 1

LEMMA PerTurnNat ==
  /\ PerTurn \in Nat /\ MaxAttempts \in Nat /\ MaxAttempts >= 1 /\ MaxTurns \in Nat
  /\ PerTurn = MaxAttempts + 1
BY LimitsAssumption DEF PerTurn

LEMMA NoReplyType == NoReply \in Replies
BY DEF NoReply, Replies, Forms, Kinds

LEMMA RepairedType == ASSUME NEW r \in Replies PROVE Repaired(r) \in Replies
BY NoReplyType DEF Repaired, Empty

LEMMA MendedType ==
  ASSUME NEW d \in Replies PROVE Coerced(d) \in Replies /\ Partial(d) \in Replies
<1>1. /\ [f \in Fields |-> IF d.fields[f] = "coercible" THEN "good" ELSE d.fields[f]] \in [Fields -> Kinds]
      /\ [f \in Fields |-> IF f \in Failing(d) THEN "missing" ELSE d.fields[f]] \in [Fields -> Kinds]
  BY DEF Replies, Kinds
<1>2. QED
  BY <1>1 DEF Coerced, Partial, Replies

\* A valid reply has nothing to coerce.
LEMMA ValidStays == ASSUME NEW d \in Replies, Valid(d) PROVE Valid(Coerced(d))
BY DEF Valid, Coerced, Replies

\* The cases of the report exclude one another.
LEMMA ReportCases ==
  ASSUME NEW r \in Replies
  PROVE  LET d == Repaired(r)  report == SchemaReport(r)
         IN  \/ report = [usable |-> FALSE, instance |-> Empty, errors |-> TRUE]
             \/ Valid(d) /\ report = [usable |-> TRUE, instance |-> d, errors |-> FALSE]
             \/ /\ Valid(Coerced(d))
                /\ report = [usable |-> TRUE, instance |-> Coerced(d), errors |-> FALSE]
             \/ PartialUsable(d) /\ report = [usable |-> TRUE, instance |-> Partial(d), errors |-> TRUE]
<1> DEFINE d == Repaired(r)
<1>1. Valid(d) => Valid(Coerced(d))
  BY RepairedType, ValidStays
<1> HIDE DEF d
<1>2. CASE r.form = "none"
  BY <1>2 DEF SchemaReport, d
<1>3. CASE r.form # "none" /\ Valid(d)
  BY <1>1, <1>3 DEF SchemaReport, d
<1>4. CASE r.form # "none" /\ ~Valid(d) /\ Valid(Coerced(d))
  BY <1>4 DEF SchemaReport, d
<1>5. CASE r.form # "none" /\ ~Valid(d) /\ ~Valid(Coerced(d)) /\ PartialUsable(d)
  BY <1>5 DEF SchemaReport, d
<1>6. CASE r.form # "none" /\ ~Valid(d) /\ ~Valid(Coerced(d)) /\ ~PartialUsable(d)
  BY <1>6 DEF SchemaReport, d
<1>7. QED
  BY <1>2, <1>3, <1>4, <1>5, <1>6

LEMMA ReportType ==
  ASSUME NEW r \in Replies
  PROVE  SchemaReport(r).instance \in Replies
BY ReportCases, RepairedType, MendedType, NoReplyType DEF Empty

\* A reply that passes validation, however mended, satisfies the schema.
LEMMA UsableIsValid ==
  ASSUME NEW r \in Replies, SchemaReport(r).usable
  PROVE  Valid(SchemaReport(r).instance)
BY ReportCases DEF PartialUsable

\* Some registered provider is the most preferred one, and its default is a model.
LEMMA DefaultType ==
  ASSUME NEW registered \in Deployments PROVE ForProviders(registered) \in Models
<1>1. registered \subseteq ProviderName /\ registered # {}
  BY DeploymentsAssumption
<1>2. \E p \in registered : \A q \in registered : Preference[p] <= Preference[q]
  <2>1. CASE "openrouter" \in registered
    BY <1>1, <2>1 DEF ProviderName, Preference
  <2>2. CASE "openrouter" \notin registered /\ "anthropic" \in registered
    BY <1>1, <2>2 DEF ProviderName, Preference
  <2>3. CASE registered \cap {"openrouter", "anthropic"} = {} /\ "openai" \in registered
    BY <1>1, <2>3 DEF ProviderName, Preference
  <2>4. CASE registered \cap {"openrouter", "anthropic", "openai"} = {} /\ "gemini" \in registered
    BY <1>1, <2>4 DEF ProviderName, Preference
  <2>5. CASE registered = {"local"}
    BY <2>5 DEF Preference
  <2>6. QED
    BY <1>1, <2>1, <2>2, <2>3, <2>4, <2>5 DEF ProviderName
<1>3. \A p \in ProviderName : DefaultModel[p] \in Models
  BY DEF ProviderName, DefaultModel, Models
<1>4. QED
  BY <1>1, <1>2, <1>3 DEF ForProviders

\* The calls made by the time a turn is in some phase.
Within ==
  /\ phase = "turn" => calls <= turn * PerTurn
  /\ phase = "calling" => calls + 1 <= turn * PerTurn + attempt
  /\ phase = "correct" => calls <= turn * PerTurn + MaxAttempts
  /\ phase \in {"judge", "done"} => calls <= turn * PerTurn + PerTurn

Typed ==
  /\ providers \in Deployments /\ model \in Models
  /\ phase \in {"turn", "calling", "correct", "judge", "done"}
  /\ turn \in 0..MaxTurns /\ attempt \in 1..MaxAttempts
  /\ reply \in Replies /\ calls \in Nat /\ spent \in 0..calls
  /\ errors \subseteq {"lookup", "call", "schema", "rules"}
  /\ outcome \in [status: {"none", "completed", "partial", "failed"}, output: Replies,
                  by: {"nobody", "validator", "parse_output"}, tokens: {0, 1}]

LEMMA NextTurnCalls ==
  ASSUME turn \in 0..MaxTurns
  PROVE  /\ turn * PerTurn \in Nat
         /\ (turn + 1) * PerTurn = turn * PerTurn + PerTurn
         /\ turn * PerTurn + PerTurn <= (MaxTurns + 1) * PerTurn
<1>1. \A m, n, k \in Nat : m <= n => m * k <= n * k /\ m * k \in Nat /\ (m + 1) * k = m * k + k
  OBVIOUS
<1>2. QED
  BY <1>1, PerTurnNat

\* A turn that raised.
LEMMA RejectTyped ==
  ASSUME Typed, Within, NEW kind \in {"lookup", "call", "schema", "rules"}, Reject(kind),
         calls' \in Nat, calls' <= turn * PerTurn + PerTurn
  PROVE  /\ phase' \in {"turn", "done"} /\ turn' \in 0..MaxTurns
         /\ errors' \subseteq {"lookup", "call", "schema", "rules"}
         /\ outcome' \in [status: {"none", "completed", "partial", "failed"}, output: Replies,
                          by: {"nobody", "validator", "parse_output"}, tokens: {0, 1}]
         /\ phase' = "turn" => calls' <= turn' * PerTurn
         /\ phase' = "done" => calls' <= turn' * PerTurn + PerTurn
<1>1. turn \in 0..MaxTurns /\ turn < MaxTurns => turn + 1 \in 0..MaxTurns
  BY PerTurnNat
<1>2. QED
  BY <1>1, PerTurnNat, NoReplyType, NextTurnCalls DEF Typed, Reject, NoOutcome

LEMMA AcceptTyped ==
  ASSUME Typed, NEW status \in {"completed", "partial"}, NEW output \in Replies,
         NEW by \in {"validator", "parse_output"}, Accept(status, output, by),
         UNCHANGED <<providers, model, attempt, calls, spent>>, reply' = NoReply,
         calls <= turn * PerTurn + PerTurn
  PROVE  Typed' /\ Within'
BY NoReplyType DEF Typed, Within, Accept

LEMMA TypedStep ==
  ASSUME Typed, Within, [Next]_vars
  PROVE  Typed' /\ Within'
<1>1. turn * PerTurn \in Nat /\ PerTurn = MaxAttempts + 1
  BY NextTurnCalls DEF Typed, PerTurn
<1> DEFINE start == turn * PerTurn
<1>2. CASE BeginTurn
  <2>1. CASE Resolves(providers, model)
    <3>1. /\ phase = "turn" /\ phase' = "calling" /\ attempt' = 1
          /\ UNCHANGED <<turn, errors, outcome, reply, calls, spent, providers, model>>
      BY <1>2, <2>1 DEF BeginTurn, Same
    <3>2. calls <= start /\ turn' * PerTurn = start /\ attempt' \in 1..MaxAttempts
      BY <3>1, PerTurnNat DEF Within
    <3>3. Typed'
      BY <3>1, <3>2 DEF Typed
    <3>4. calls' + 1 <= turn' * PerTurn + attempt'
      BY <1>1, <3>1, <3>2 DEF Typed
    <3>5. QED
      BY <3>1, <3>3, <3>4 DEF Within
  <2>2. CASE ~Resolves(providers, model)
    <3>1. Reject("lookup") /\ UNCHANGED <<attempt, reply, calls, spent, providers, model>> /\ phase = "turn"
      BY <1>2, <2>2 DEF BeginTurn, Same
    <3>2. calls' \in Nat /\ calls' <= turn * PerTurn + PerTurn
      BY <1>1, <3>1, PerTurnNat DEF Typed, Within
    <3>3. QED
      BY <3>1, <3>2, RejectTyped DEF Typed, Within
  <2>3. QED
    BY <2>1, <2>2
<1>3. CASE CallFails
  <2>1. CASE attempt < MaxAttempts
    <3>1. /\ phase = "calling" /\ calls' = calls + 1 /\ attempt' = attempt + 1
          /\ UNCHANGED <<phase, turn, errors, outcome, reply, spent, providers, model>>
      BY <1>3, <2>1 DEF CallFails, MayRetryCall, Same
    <3>2. calls + 1 <= start + attempt /\ turn' * PerTurn = start
      BY <3>1 DEF Within
    <3>3. Typed'
      BY <2>1, <3>1, PerTurnNat DEF Typed
    <3>4. calls' + 1 <= turn' * PerTurn + attempt'
      BY <1>1, <3>1, <3>2 DEF Typed
    <3>5. QED
      BY <3>1, <3>3, <3>4 DEF Within
  <2>2. CASE ~(attempt < MaxAttempts)
    <3>1. Reject("call") /\ UNCHANGED <<attempt, reply, spent, providers, model>>
          /\ calls' = calls + 1 /\ phase = "calling"
      BY <1>3, <2>2 DEF CallFails, MayRetryCall, Same
    <3>2. calls' \in Nat /\ calls' <= turn * PerTurn + PerTurn /\ spent \in 0..calls'
      BY <1>1, <3>1, PerTurnNat DEF Typed, Within
    <3>3. QED
      BY <3>1, <3>2, RejectTyped DEF Typed, Within
  <2>3. QED
    BY <2>1, <2>2
<1>4. CASE CallAnswers
  BY <1>1, <1>4, PerTurnNat DEF CallAnswers, Same, Typed, Within
<1>5. CASE CorrectionAnswers
  BY <1>1, <1>5, PerTurnNat DEF CorrectionAnswers, Same, Typed, Within
<1>6. CASE CorrectionFails
  BY <1>1, <1>6, PerTurnNat DEF CorrectionFails, Same, Typed, Within
<1>7. CASE Judge
  <2>1. /\ phase = "judge" /\ UNCHANGED <<providers, model, attempt, calls, spent>> /\ reply' = NoReply
        /\ \/ \E kind \in {"rules", "schema"} : Reject(kind)
           \/ \E status \in {"completed", "partial"} :
                Accept(status, SchemaReport(reply).instance, "validator")
           \/ Accept("completed", reply, "parse_output")
    BY <1>7 DEF Judge, Same
  <2>2. calls <= turn * PerTurn + PerTurn /\ calls \in Nat /\ reply \in Replies
    BY <2>1 DEF Typed, Within
  <2>3. ASSUME NEW kind \in {"rules", "schema"}, Reject(kind) PROVE Typed' /\ Within'
    BY <2>1, <2>2, <2>3, RejectTyped, NoReplyType DEF Typed, Within
  <2>4. QED
    BY <2>1, <2>2, <2>3, AcceptTyped, ReportType
<1>8. CASE Done \/ UNCHANGED vars
  BY <1>8 DEF Done, vars, Typed, Within
<1>9. QED
  BY <1>2, <1>3, <1>4, <1>5, <1>6, <1>7, <1>8 DEF Next, Step

\* Every variable keeps its type, and the turns of the agent, the attempts of the gateway
\* and its correction never multiply to more calls than (turns + 1) * (attempts + 1).
THEOREM CallsBounded == Spec => []TypeOK
<1>1. Init => Typed /\ Within
  <2> SUFFICES ASSUME Init PROVE Typed /\ Within
    OBVIOUS
  <2>1. model \in Models
    BY DefaultType DEF Init, Models
  <2>2. 0 * PerTurn = 0
    BY PerTurnNat
  <2>3. QED
    BY <2>1, <2>2, PerTurnNat, NoReplyType DEF Init, Typed, Within, NoOutcome
<1>2. Typed /\ Within /\ [Next]_vars => Typed' /\ Within'
  BY TypedStep
<1>3. Typed /\ Within => TypeOK
  <2> SUFFICES ASSUME Typed, Within PROVE TypeOK
    OBVIOUS
  <2>1. calls <= turn * PerTurn + PerTurn
    BY PerTurnNat, NextTurnCalls DEF Typed, Within
  <2>2. calls <= (MaxTurns + 1) * PerTurn /\ calls \in Nat
    BY <2>1, PerTurnNat, NextTurnCalls DEF Typed
  <2>3. calls \in 0..((MaxTurns + 1) * (MaxAttempts + 1))
    BY <2>2, PerTurnNat DEF PerTurn
  <2>4. QED
    BY <2>3 DEF Typed, TypeOK
<1>4. QED
  BY <1>1, <1>2, <1>3, PTL DEF Spec

-----------------------------------------------------------------------------
(* What is kept. *)

\* Whatever mix of repair, coercion, dropped fields and fallbacks an output went through
\* (validation/schema_validator.py, agents/base.py), one that is kept satisfies its
\* schema, and one called completed by the validator is within its ranges.
THEOREM KeptIsSound == Spec => []AcceptedIsSound
<1>1. Init => AcceptedIsSound
  BY DEF Init, AcceptedIsSound, NoOutcome
<1>2. TypeOK /\ AcceptedIsSound /\ [Next]_vars => AcceptedIsSound'
  <2> SUFFICES ASSUME TypeOK, AcceptedIsSound, [Next]_vars PROVE AcceptedIsSound'
    OBVIOUS
  <2>1. ASSUME UNCHANGED outcome PROVE AcceptedIsSound'
    BY <2>1 DEF AcceptedIsSound, Valid
  <2>2. ASSUME NEW kind, Reject(kind) PROVE AcceptedIsSound'
    BY <2>1, <2>2 DEF Reject, AcceptedIsSound, NoOutcome
  <2>3. CASE BeginTurn
    BY <2>1, <2>2, <2>3 DEF BeginTurn
  <2>4. CASE CallFails
    BY <2>1, <2>2, <2>4 DEF CallFails
  <2>5. CASE CallAnswers \/ CorrectionAnswers \/ CorrectionFails \/ Done \/ UNCHANGED vars
    BY <2>1, <2>5 DEF CallAnswers, CorrectionAnswers, CorrectionFails, Done, vars
  <2>6. CASE Judge
    <3> DEFINE report == SchemaReport(reply)
    <3>1. CASE report.usable /\ Blocking(report) /\ turn < MaxTurns
      BY <2>2, <2>6, <3>1 DEF Judge
    <3>2. CASE report.usable /\ ~(Blocking(report) /\ turn < MaxTurns)
      <4>1. Valid(report.instance)
        BY <3>2, UsableIsValid DEF TypeOK
      <4>2. Accept(IF Blocking(report) THEN "partial" ELSE "completed", report.instance, "validator")
        BY <2>6, <3>2 DEF Judge
      <4>3. Blocking(report) \/ ~report.instance.outOfRange
        BY DEF Blocking
      <4> HIDE DEF report
      <4>4. QED
        BY <4>1, <4>2, <4>3 DEF Accept, AcceptedIsSound
    <3>3. CASE ~report.usable /\ ParseOutput(reply)
      <4>1. Accept("completed", reply, "parse_output")
        BY <2>6, <3>3 DEF Judge
      <4>2. Valid(reply)
        BY <3>3 DEF ParseOutput
      <4>3. QED
        BY <4>1, <4>2 DEF Accept, AcceptedIsSound
    <3>4. CASE ~report.usable /\ ~ParseOutput(reply)
      BY <2>2, <2>6, <3>4 DEF Judge
    <3>5. QED
      BY <3>1, <3>2, <3>3, <3>4
  <2>7. QED
    BY <2>3, <2>4, <2>5, <2>6 DEF Next, Step
<1>3. QED
  BY <1>1, <1>2, CallsBounded, PTL DEF Spec

-----------------------------------------------------------------------------
(* What the parsers make of one reply. *)

\* A valid object in hand is reported as it stands, with nothing to mend.
LEMMA ValidIsUsable ==
  ASSUME NEW r \in Replies, r.form # "none", Valid(Repaired(r))
  PROVE  SchemaReport(r) = [usable |-> TRUE, instance |-> Repaired(r), errors |-> FALSE]
<1> DEFINE d == Repaired(r)
<1>1. Valid(Coerced(d))
  BY RepairedType, ValidStays
<1> HIDE DEF d
<1>2. QED
  BY <1>1 DEF SchemaReport, d

\* Every form the gateway reads is one the validator or the agent reads as the same
\* object, except the list.
LEMMA FormsAgree ==
  ASSUME NEW r \in Replies, TryParse(r), r.form # "list"
  PROVE  SchemaReport(r).usable \/ ParseOutput(r)
<1>1. CASE r.form = "two_fences"
  BY <1>1 DEF TryParse, ParseOutput
<1>2. CASE r.form \in {"object", "fenced", "embedded"}
  <2>1. Repaired(r) = r /\ r.form # "none" /\ Valid(r)
    BY <1>2 DEF Repaired, TryParse
  <2>2. QED
    BY <2>1, ValidIsUsable
<1>3. QED
  BY <1>1, <1>2 DEF TryParse, GatewayForms

\* llm/factory.py sends no correction for a reply it could parse itself: the agent never
\* loses a turn on such a reply because the other two parsers see something else in it.
THEOREM NoReplyWasted == Spec => []ParsersAgree
<1>1. TypeOK => ParsersAgree
  BY FormsAgree DEF TypeOK, ParsersAgree
<1>2. QED
  BY <1>1, CallsBounded, PTL

=============================================================================
