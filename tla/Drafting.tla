------------------------------ MODULE Drafting ------------------------------
(***************************************************************************)
(* The conversation with the language model (runtime/llm_planner.py) from  *)
(* which a draft comes: at most two calls of the planner, the draft and    *)
(* its repair, each of several requests, within one budget of requests and *)
(* one deadline (runtime/planning_control.py).                             *)
(*                                                                         *)
(* Of a response the model keeps its kind.  A draft is as in Compiler,     *)
(* with what it asks of the user, "nothing", a "question" or a "blank"     *)
(* one, and whether it agrees with the names and distances the request     *)
(* states (grounded).                                                      *)
(***************************************************************************)
EXTENDS Compiler

CONSTANTS
    MaxCalls,       \* max_http_calls of the budget
    MaxRetries      \* max_retries of one call

ASSUME BudgetAssumption == MaxCalls \in Nat \ {0} /\ MaxRetries \in Nat

VARIABLE talk       \* [phase, repair, attempt, plain, calls, code]

Talk(phase, repair, calls) ==
    [phase |-> phase, repair |-> repair, attempt |-> 0, plain |-> TRUE, calls |-> calls,
     code |-> "none"]
Over == Talk("over", FALSE, 0)
Ended(code) == [Over EXCEPT !.phase = "ended", !.code = code]

-----------------------------------------------------------------------------
(* Requests.                                                               *)
Unusable == {"not JSON", "no choices", "empty", "reasoning", "cut", "refusal", "too large"}
Responses == Unusable \cup {"draft", "bad request", "busy", "rejected", "lost"}

(* _extract_content, and a response that is no JSON.                       *)
ContentFault(response) ==
    CASE response = "cut" -> "LLM_RESPONSE_TRUNCATED"
      [] response = "refusal" -> "LLM_REFUSAL"
      [] response = "too large" -> "LLM_RESPONSE_TOO_LARGE"
      [] response \in Unusable -> "LLM_RESPONSE_INVALID"
      [] OTHER -> "none"

(* The loop of _call_async: a gateway that refuses the extensions, or      *)
(* answers in its hidden reasoning, is asked once more without them; one   *)
(* that is busy or not reached, until the retries are used up.             *)
Post(response) ==
    /\ talk.phase = "post"
    /\ LET posted == [talk EXCEPT !.calls = @ + 1]
           again == talk.attempt < MaxRetries
           code == CASE response \in {"bad request", "busy", "rejected"} -> "LLM_HTTP_ERROR"
                     [] response = "lost" -> "LLM_UNAVAILABLE"
                     [] OTHER -> ContentFault(response)
       IN  talk' = CASE talk.calls >= MaxCalls -> Ended("LLM_CALL_BUDGET_EXCEEDED")
                     [] talk.plain /\ response \in {"bad request", "reasoning"} ->
                            [posted EXCEPT !.plain = FALSE]
                     [] again /\ response \in {"busy", "lost"} -> [posted EXCEPT !.attempt = @ + 1]
                     [] code # "none" -> Ended(code)
                     [] OTHER -> Talk("answered", talk.repair, posted.calls)

(* The deadline of the budget.                                             *)
Expire ==
    /\ talk.phase \in {"post", "answered"}
    /\ talk' = Ended("LLM_PLANNING_DEADLINE")

Repair == talk' = Talk("post", TRUE, talk.calls)

-----------------------------------------------------------------------------
(* The boundary of _plan.  A question wins over the steps that come with   *)
(* it; of the rest the way of writing is normalised and never the meaning. *)
Spelled == ("zero" :> "false") @@ ("one" :> "true") @@ ("'true'" :> "true") @@ ("'false'" :> "false")

Normalised(step) ==
    LET flag(p) == step.op = "raster.slope" /\ p = "degree" /\ step.params[p] \in DOMAIN Spelled
        kept == DOMAIN step.params \ (IF step.op = "code.execute" THEN {"source_code_hash"} ELSE {})
    IN  [step EXCEPT !.op = CanonicalName(@),
                     !.params = [p \in kept |-> IF flag(p) THEN Spelled[step.params[p]] ELSE step.params[p]]]

Bounded(raw) ==
    IF raw.asks = "question" THEN [raw EXCEPT !.steps = <<>>, !.external = <<>>]
    ELSE [raw EXCEPT !.steps = [i \in DOMAIN @ |-> Normalised(@[i])]]

Cited(d) ==
    ToSet(d.external) \cup {r.of : r \in {x \in UNION {Refs(s) : s \in ToSet(d.steps)} : x.kind = "artifact"}}

BoundaryFault(d, known) ==
    When(~(Cited(d) \subseteq DOMAIN known) \/ d.asks = "blank" \/ ~d.grounded, "LLM_DRAFT_INVALID")

(* From a draft of the model to a plan, a question or a refusal.           *)
Judged(d, known) ==
    IF BoundaryFault(d, known) # "none" THEN Verdict(BoundaryFault(d, known), <<>>)
    ELSE IF d.asks = "question" THEN Verdict("CLARIFICATION_REQUIRED", <<>>)
    ELSE Compile(d, known)
=============================================================================
