---------------------------- MODULE ModelRouting ----------------------------
(***************************************************************************)
(* The model gateway (moxi-model-gateway): which provider a request of an  *)
(* intent is routed to, which ones can take its place, and the proposal    *)
(* made of what the model answered.  Cost and latency are small numbers.   *)
(***************************************************************************)
EXTENDS Integers, Sequences, FiniteSets, SequencesExt

\* Whole cents for every thousand tokens begun; u32 saturation is out of reach.
CeilThousands(n) == (n + 999) \div 1000

EstimatedCost(provider, request) ==
      CeilThousands(request.input_tokens * provider.cost_per_1k_input_cents)
    + CeilThousands(request.output_tokens * provider.cost_per_1k_output_cents)

Score(provider, request) ==
    LET score == provider.p95_latency_ms + 10 * EstimatedCost(provider, request)
    IN  IF request.prefer_local /\ provider.locality = "Local" THEN Max({score - 100, 0}) ELSE score

Eligible(manifest, provider, request, risk) ==
    /\ provider.provider_ref \in manifest.provider_refs
    /\ request.required_capability \in provider.capability_kinds
    /\ request.require_structured_output => provider.supports_structured_output
    /\ provider.max_risk_level >= risk

\* By score; the order of equal scores is the one of the references, given as
\* numbers here.
Cheaper(request, p, q) ==
    LET a == Score(p, request)  b == Score(q, request)
    IN  a < b \/ (a = b /\ p.provider_ref <= q.provider_ref)

Candidates(manifest, providers, request, risk) ==
    SetToSortSeq({p \in providers : Eligible(manifest, p, request, risk)},
                 LAMBDA p, q : Cheaper(request, p, q))

WithinBudget(provider, request) ==
    /\ EstimatedCost(provider, request) <= request.max_cost_cents
    /\ provider.p95_latency_ms <= request.max_latency_ms

NoRoute == [selected |-> "none"]

\* The selected provider may exceed the budget; a fallback may not.
Route(manifest, providers, request, risk) ==
    LET candidates == Candidates(manifest, providers, request, risk)
    IN  IF candidates = << >> THEN NoRoute
        ELSE [selected |-> candidates[1].provider_ref, request_id |-> request.request_id,
              fallbacks |-> SelectSeq(Tail(candidates), LAMBDA p : WithinBudget(p, request)),
              estimated_cost_cents |-> EstimatedCost(candidates[1], request),
              redaction_applied |-> manifest.redacts]

DecisionId(route) == <<"model_route", route.request_id, route.selected>>

\* understanding_proposal_from_route: it never authorises, and it carries the
\* risk of the intent.
ProposalFrom(route, intent, steps, capabilities) ==
    [intent |-> intent, proposed_steps |-> steps, suggested_capabilities |-> capabilities,
     kind |-> IF steps = << >> THEN "Clarification" ELSE "TaskDecomposition",
     risk_level |-> intent.risk_level, evidence_refs |-> {DecisionId(route)},
     cannot_authorize |-> TRUE]

\* A structured output is tried again while it is not valid, later each time.
Attempt(route, index, valid) ==
    [decision_id |-> DecisionId(route), attempt_index |-> index, valid |-> valid]
RetryDelay(attempt) == IF attempt.valid THEN 0 ELSE 100 * Max({attempt.attempt_index, 1})
=============================================================================
