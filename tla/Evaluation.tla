----------------------------- MODULE Evaluation -----------------------------
(***************************************************************************)
(* Regression evaluation (moxi-eval): a suite made of the facts of a       *)
(* projection, the run of its cases, the score and the report.  A case is  *)
(* [kind, severity, facts, expected, placeholder].  Identifiers are hashes *)
(* of what they are made of; records stand for them here.                  *)
(***************************************************************************)
EXTENDS Observation, FiniteSetsExt

P0Kinds ==
    {"PolicyDecisionRecorded", "ExecutionTicketRecorded", "SandboxResultRecorded",
     "ProofRecorded", "LedgerEventRecorded"}

RuntimeKinds == {"GraphPlanned", "PlannerBound", "TaskState"}

\* Both replay profiles are alike in their flags.
ReplayProfile(kinds) ==
    [required_fact_kinds |-> kinds, fail_on_missing_evidence |-> TRUE, allow_placeholder_cases |-> TRUE]

P0ReplayAudit(facts) ==
    [kind |-> "P0ReplayAudit", severity |-> "Critical", expected |-> P0Kinds, placeholder |-> FALSE,
     facts |-> {f \in facts : f.kind \in P0Kinds \cup {"StoreRunCompleted"}}]

RuntimeFactRegression(facts) ==
    [kind |-> "P0ReplayAudit", severity |-> "High", expected |-> RuntimeKinds, placeholder |-> FALSE,
     facts |-> {f \in facts : f.kind \in RuntimeKinds}]

Placeholder(kind, severity) ==
    [kind |-> kind, severity |-> severity, expected |-> {}, placeholder |-> TRUE, facts |-> {}]

SecurityPlaceholders ==
    {Placeholder("PolicyBypassAttempt", "Critical"),
     Placeholder("PromptInjectionDataOnlyBoundary", "High"),
     Placeholder("ToolFeedbackInjection", "High"),
     Placeholder("MemoryContaminationPlaceholder", "Medium"),
     Placeholder("SwarmMergeWithoutEvidencePlaceholder", "Medium"),
     Placeholder("LatencyHotpathBenchmarkPlaceholder", "Low")}

FromStoreProjection(observation) ==
    [of |-> observation.run_id, profile |-> ReplayProfile(P0Kinds),
     cases |-> {P0ReplayAudit(StoreFacts(observation))}]

FromProjection(snapshot, plan) ==
    [of |-> snapshot.graph_id, profile |-> ReplayProfile(RuntimeKinds),
     cases |-> {RuntimeFactRegression(QueryFacts(snapshot, plan))}]

WithSecurityPlaceholders(suite) == [suite EXCEPT !.cases = @ \cup SecurityPlaceholders]

EvidenceOf(case) == UNION {f.evidence : f \in case.facts}

\* Not one of these kinds was seen.
MissingKinds(case) == case.expected \ {f.kind : f \in case.facts}

Outcome(case, status, findings) ==
    [case |-> case, status |-> status, findings |-> findings]

EvaluateCase_EvidenceOnly(case, profile) ==
    IF case.placeholder THEN Outcome(case, "Skipped", {})
    ELSE IF profile.fail_on_missing_evidence /\ EvidenceOf(case) = {}
         THEN Outcome(case, "Failed", {case.severity})
         ELSE Outcome(case, "Passed", {})
EvaluateCase(case, profile) ==
    IF case.placeholder
    THEN Outcome(case, IF profile.allow_placeholder_cases THEN "Skipped" ELSE "NeedsReview", {})
    ELSE IF \/ profile.fail_on_missing_evidence /\ EvidenceOf(case) = {}
            \/ MissingKinds(case) # {}
         THEN Outcome(case, "Failed", {case.severity})
         ELSE Outcome(case, "Passed", {})

RunRegression(suite) ==
    [of |-> suite.of, results |-> {EvaluateCase(case, suite.profile) : case \in suite.cases}]

ScoreOf(results) ==
    LET failed == {r \in results : r.status = "Failed"}
        found == UNION {r.findings : r \in results}
    IN  [total |-> Cardinality(results), failed |-> Cardinality(failed),
         adaptive_promotion_allowed |-> failed = {} /\ found \cap {"Critical", "High"} = {}]

\* RegressionReport::from_eval_run
ReportOf(run) == [eval_run |-> run, score |-> ScoreOf(run.results)]
=============================================================================
