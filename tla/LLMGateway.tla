------------------------------ MODULE LLMGateway ------------------------------
(***************************************************************************)
(* One agent's execute: its turns, the gateway that routes each turn to a  *)
(* provider, retries the call and asks once for a correction, and the      *)
(* three parsers a reply meets: the gateway's _try_parse, the              *)
(* ResponseValidator and the agent's own parse_output.  AgentGraph has     *)
(* this whole module as the action Turn.                                   *)
(*                                                                         *)
(* A reply is what the parsers can tell apart: the form in which the text  *)
(* carries JSON, how each field of the schema fares, and whether a         *)
(* confidence or score is outside its range.                               *)
(*                                                                         *)
(* Simplifications: waiting times, warnings and the wording of errors are  *)
(* left out; one token stands for the usage of one answered call; models   *)
(* are the defaults of each provider and one bare Claude name.             *)
(***************************************************************************)
EXTENDS Naturals, FiniteSets

CONSTANTS
  Deployments, \* the sets of providers that may have a key in the environment
  Required,    \* required fields of the agent's output schema
  Optional,    \* its optional fields
  MaxTurns,    \* max_retries of AgentConfig
  MaxAttempts  \* max_retries of the gateway: attempts of one call

Fields == Required \cup Optional

ProviderName == {"anthropic", "openai", "openrouter", "gemini", "local"}

\* from_env refuses to build a gateway without a provider.
ASSUME DeploymentsAssumption == Deployments \subseteq (SUBSET ProviderName) \ {{}}

ASSUME FieldsAssumption ==
  IsFiniteSet(Fields) /\ Required \cap Optional = {}
ASSUME LimitsAssumption == MaxTurns \in Nat /\ MaxAttempts \in Nat \ {0}

VARIABLES
  providers,  \* registered providers: those with a key in the environment
  model,      \* the model the agent is configured with
  phase,      \* "turn", "calling", "correct", "judge" or "done"
  turn,       \* turns begun before this one
  attempt,    \* attempt of the current call, from 1
  reply,      \* the reply in hand
  calls,      \* provider calls made so far
  spent,      \* tokens the providers have charged
  errors,     \* the kinds of error the agent has recorded
  outcome     \* the AgentResult

vars == <<providers, model, phase, turn, attempt, reply, calls, spent, errors, outcome>>

-----------------------------------------------------------------------------
(* Routing. *)

\* A slug has a slash in it; "local/default" has one too.
Models == {"slug", "gpt-4o", "gemini", "local/default", "claude"}

DefaultModel ==
  [anthropic |-> "slug", openrouter |-> "slug", openai |-> "gpt-4o",
   gemini |-> "gemini", local |-> "local/default"]

Preference ==
  [openrouter |-> 1, anthropic |-> 2, openai |-> 3, gemini |-> 4, local |-> 5]

\* AgentModelConfig.for_providers: the default of the most preferred provider.
ForProviders(registered) ==
  DefaultModel[CHOOSE p \in registered :
                 \A q \in registered : Preference[p] <= Preference[q]]

AnthropicSupports == {"claude"}

OpenAISupports == {"gpt-4o"}

GeminiSupports == {"gemini"}

OpenRouterSupports == {"slug", "local/default"}

LocalSupports == Models

Supports ==
  [anthropic |-> AnthropicSupports, openai |-> OpenAISupports,
   gemini |-> GeminiSupports, openrouter |-> OpenRouterSupports,
   local |-> LocalSupports]

\* The prefix map adds no provider to those that support the model themselves.
Resolves(registered, m) ==
  (\E p \in registered : m \in Supports[p]) \/ "openrouter" \in registered

-----------------------------------------------------------------------------
(* Replies and the three parsers. *)

\* A list wraps one object; two fences hold first the answer and then a longer
\* object without any field of the schema; broken JSON needs a repair strategy.
Forms == {"object", "list", "scalar", "fenced", "two_fences", "embedded", "broken", "none"}

\* coercible: only _coerce_dict mends it; nested: an element inside it is wrong.
Kinds == {"good", "coercible", "bad", "nested", "missing"}

Replies == [form: Forms, fields: [Fields -> Kinds], outOfRange: BOOLEAN]

NoReply == [form |-> "none", fields |-> [f \in Fields |-> "missing"], outOfRange |-> FALSE]

\* A JSON text read as an object that is not the answer.
Empty == NoReply

\* Plain validation by the schema.
Valid(d) ==
  \A f \in Fields : d.fields[f] = "good" \/ (d.fields[f] = "missing" /\ f \notin Required)

\* _try_parse: the whole text, the first fence, or the outermost braces.
GatewayForms == {"object", "list", "fenced", "two_fences", "embedded"}

TryParse(r) == r.form \in GatewayForms /\ Valid(r)

\* Mutant: the longest fence is taken, as the validator does.
ParseOutputLongest(r) == r.form \in {"object", "fenced"} /\ Valid(r)

\* parse_output: the whole text or the first fence.
ParseOutput(r) == r.form \in {"object", "fenced", "two_fences"} /\ Valid(r)

\* JSONRepair.repair: what the first strategy that reads JSON comes back with; a
\* value that is not an object reads as an empty one.
Repaired(r) ==
  IF r.form \in {"list", "scalar", "two_fences"} THEN Empty ELSE r

\* The second pass: type coercion.
Coerced(d) ==
  [d EXCEPT !.fields = [f \in Fields |-> IF @[f] = "coercible" THEN "good" ELSE @[f]]]

Failing(d) ==
  {f \in Fields : d.fields[f] \in {"coercible", "bad"}
                  \/ (d.fields[f] = "missing" /\ f \in Required)}

\* The third pass: drop the optional fields that fail.
Partial(d) ==
  [d EXCEPT !.fields = [f \in Fields |-> IF f \in Failing(d) THEN "missing" ELSE @[f]]]

\* Mutant: required fields that fail are dropped as well.
PartialUsableAny(d) ==
  \A f \in Fields : Partial(d).fields[f] \in {"good", "missing"}

PartialUsable(d) == Failing(d) \cap Required = {} /\ Valid(Partial(d))

\* SchemaValidator._validate_dict: the instance it builds, and whether errors remain.
SchemaReport(r) ==
  LET d == Repaired(r)
  IN  CASE r.form = "none"      -> [usable |-> FALSE, instance |-> Empty, errors |-> TRUE]
        [] OTHER ->
             CASE Valid(d)          -> [usable |-> TRUE, instance |-> d, errors |-> FALSE]
               [] Valid(Coerced(d)) /\ ~Valid(d) ->
                    [usable |-> TRUE, instance |-> Coerced(d), errors |-> FALSE]
               [] ~Valid(Coerced(d)) /\ PartialUsable(d) ->
                    [usable |-> TRUE, instance |-> Partial(d), errors |-> TRUE]
               [] OTHER -> [usable |-> FALSE, instance |-> Empty, errors |-> TRUE]

\* ResponseValidator.validate adds the business rules.
Blocking(report) == report.errors \/ report.instance.outOfRange

-----------------------------------------------------------------------------
(* The agent and the gateway. *)

NoOutcome == [status |-> "none", output |-> NoReply, by |-> "nobody", tokens |-> 0]

Same == UNCHANGED <<providers, model>>

\* Mutant: the turns start over.
RejectForever(kind) ==
  /\ errors' = errors \cup {kind}
  /\ turn' = (turn + 1) % (MaxTurns + 1)
  /\ phase' = "turn"
  /\ UNCHANGED outcome

\* A turn that raised: the next one, or the agent has failed.
Reject(kind) ==
  /\ errors' = errors \cup {kind}
  /\ IF turn < MaxTurns
     THEN turn' = turn + 1 /\ phase' = "turn" /\ UNCHANGED outcome
     ELSE /\ phase' = "done" /\ UNCHANGED turn
          /\ outcome' = [NoOutcome EXCEPT !.status = "failed"]

\* The result carries the usage of the last response only.
Accept(status, output, by) ==
  /\ phase' = "done"
  /\ outcome' = [status |-> status, output |-> output, by |-> by, tokens |-> 1]
  /\ UNCHANGED <<turn, errors>>

\* ModelRouter.resolve, before the loop of attempts.
BeginTurn ==
  /\ phase = "turn"
  /\ IF Resolves(providers, model)
     THEN phase' = "calling" /\ attempt' = 1 /\ UNCHANGED <<turn, errors, outcome>>
     ELSE Reject("lookup") /\ UNCHANGED attempt
  /\ UNCHANGED <<reply, calls, spent>> /\ Same

MayRetryCall == attempt < MaxAttempts

\* An HTTP error, a timeout or a response without choices.
CallFails ==
  /\ phase = "calling"
  /\ calls' = calls + 1
  /\ IF MayRetryCall
     THEN attempt' = attempt + 1 /\ UNCHANGED <<phase, turn, errors, outcome>>
     ELSE Reject("call") /\ UNCHANGED attempt
  /\ UNCHANGED <<reply, spent>> /\ Same

CallAnswers ==
  /\ phase = "calling"
  /\ calls' = calls + 1 /\ spent' = spent + 1
  /\ reply' \in Replies
  /\ phase' = IF TryParse(reply') THEN "judge" ELSE "correct"
  /\ UNCHANGED <<turn, attempt, errors, outcome>> /\ Same

\* The one self-correction: its reply replaces the first, unless the request failed.
CorrectionAnswers ==
  /\ phase = "correct"
  /\ calls' = calls + 1 /\ spent' = spent + 1
  /\ reply' \in Replies
  /\ phase' = "judge"
  /\ UNCHANGED <<turn, attempt, errors, outcome>> /\ Same

CorrectionFails ==
  /\ phase = "correct"
  /\ calls' = calls + 1
  /\ phase' = "judge"
  /\ UNCHANGED <<turn, attempt, reply, spent, errors, outcome>> /\ Same

\* _validate_output and what execute makes of it.  Output with errors is worth another
\* turn and is kept as partial on the last one; parse_output knows no business rules.
Judge ==
  LET report == SchemaReport(reply)
  IN  /\ phase = "judge"
      /\ IF report.usable
         THEN IF Blocking(report) /\ turn < MaxTurns
              THEN Reject("rules")
              ELSE Accept(IF Blocking(report) THEN "partial" ELSE "completed",
                          report.instance, "validator")
         ELSE IF ParseOutput(reply)
              THEN Accept("completed", reply, "parse_output")
              ELSE Reject("schema")
      /\ reply' = NoReply
      /\ UNCHANGED <<attempt, calls, spent>> /\ Same

Init ==
  /\ providers \in Deployments
  /\ model \in {ForProviders(providers), "claude"}
  /\ phase = "turn" /\ turn = 0 /\ attempt = 1
  /\ reply = NoReply /\ calls = 0 /\ spent = 0
  /\ errors = {} /\ outcome = NoOutcome

Step ==
  BeginTurn \/ CallFails \/ CallAnswers \/ CorrectionAnswers \/ CorrectionFails \/ Judge

Done == phase = "done" /\ UNCHANGED vars

Next == Step \/ Done

\* Every request has an HTTP timeout, so every call comes back.
Spec == Init /\ [][Next]_vars /\ WF_vars(Step)

-----------------------------------------------------------------------------
(* What should hold. *)

TypeOK ==
  /\ providers \in Deployments /\ model \in Models
  /\ phase \in {"turn", "calling", "correct", "judge", "done"}
  /\ turn \in 0..MaxTurns /\ attempt \in 1..MaxAttempts
  /\ reply \in Replies
  /\ calls \in 0..((MaxTurns + 1) * (MaxAttempts + 1)) /\ spent \in 0..calls
  /\ errors \subseteq {"lookup", "call", "schema", "rules"}
  /\ outcome \in [status: {"none", "completed", "partial", "failed"}, output: Replies,
                  by: {"nobody", "validator", "parse_output"}, tokens: {0, 1}]

\* Whatever mix of repair, coercion, dropped fields and fallbacks an output went
\* through, one that is kept satisfies the schema; one that is called completed is also
\* within its ranges, unless the validator never saw it.
AcceptedIsSound ==
  /\ outcome.status \in {"completed", "partial"} => Valid(outcome.output)
  /\ outcome.status = "completed" /\ outcome.by = "validator" => ~outcome.output.outOfRange

\* The parsers agree where it matters: a reply the gateway could parse, and therefore
\* did not ask to be corrected, is one the agent can use.  A list around the answer is
\* the exception: the validator reads it as an empty object.
ParsersAgree ==
  phase = "judge" /\ TryParse(reply) /\ reply.form # "list" =>
    SchemaReport(reply).usable \/ ParseOutput(reply)

\* execute always comes back with a result: it never raises and never loops.
AgentAnswers == <>(outcome.status # "none")
=============================================================================
