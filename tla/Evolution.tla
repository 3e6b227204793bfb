------------------------------ MODULE Evolution ------------------------------
(***************************************************************************)
(* The loop of self-improvement: a run of the store is observed statement  *)
(* by statement while the kernel goes on writing (moxi-store), projected   *)
(* (moxi-observability) and evaluated (moxi-eval); a report is reflected   *)
(* on and a delta proposed and tried (moxi-adaptive); the delta is         *)
(* promoted, rolled out and rolled back, and the ledger of evolution keeps *)
(* what was decided (moxi-governance).  The last three are pure functions, *)
(* and the host may pass any records made so far.                          *)
(***************************************************************************)
EXTENDS Evaluation, SequencesExt

CONSTANTS
    RuntimeGraphs,    \* [snapshot, plan] of graphs of the runtime
    DeltaKinds,       \* kinds of deltas that are proposed
    DeltaRiskLevels,
    ScoreDeltas,
    MaxReports, MaxDeltas, MaxEvolution   \* bounds

ASSUME RuntimeGraphsAssumption == \A graph \in RuntimeGraphs : DOMAIN graph = {"snapshot", "plan"}

VARIABLES
    store_run,        \* the tables of one run in the store
    observer,         \* statements of observe_run done, and what they returned
    reports,          \* ghost and host: [report, basis]: what the store or runtime had
    deltas,           \* deltas proposed
    result,           \* the last experiment result
    decision,         \* the last promotion decision
    rollout,          \* the last rollout plan
    evolution_ledger

evolutionVars ==
    <<store_run, observer, reports, deltas, result, decision, rollout, evolution_ledger>>

Nothing == [kind |-> "none"]
NoApproval == "no approval"

EmptyRun ==
    [run_id |-> "run", status |-> NoStatus, policy_decisions |-> {}, approval_grants |-> {},
     execution_tickets |-> {}, sandbox_results |-> {}, proofs |-> {}, ledger_events |-> {}]

EvolutionInit ==
    /\ store_run = EmptyRun
    /\ observer = [done |-> 0, seen |-> EmptyRun]
    /\ reports = {}
    /\ deltas = {}
    /\ result = Nothing /\ decision = Nothing /\ rollout = Nothing
    /\ evolution_ledger = << >>

-----------------------------------------------------------------------------
\* Bound: the store is written and read until MaxReports reports are made.
Watched == Cardinality(reports) < MaxReports

\* The kernel writes a run's records in this order (Kernel.tla); a run that
\* is blocked or fails has an event and no more.
Write(table, record) == [store_run EXCEPT ![table] = @ \cup {record}]

Success == [id |-> 1, result |-> "Success"]

KernelWrites ==
    /\ Watched
    /\ \/ /\ store_run.status = NoStatus
          /\ store_run' = [store_run EXCEPT !.status = "Admitted"]
       \/ /\ store_run.status = "Admitted"
          /\ store_run' = Write("policy_decisions", 1)
       \/ /\ store_run.policy_decisions # {}
          /\ store_run' \in {Write("execution_tickets", 1), Write("approval_grants", 1)}
       \/ store_run.execution_tickets # {} /\ store_run' = Write("sandbox_results", 1)
       \/ store_run.sandbox_results # {} /\ store_run' = Write("proofs", 1)
       \/ store_run.proofs # {} /\ store_run' = Write("ledger_events", Success)
       \/ Success \in store_run.ledger_events /\ store_run' = [store_run EXCEPT !.status = "Completed"]
       \/ /\ store_run.policy_decisions # {}
          /\ \E end \in {"Failed", "Blocked"} :
                store_run' = [Write("ledger_events", [id |-> 2, result |-> end]) EXCEPT !.status = end]
    /\ store_run.status \notin {"Failed", "Blocked"}
    /\ store_run' # store_run
    /\ UNCHANGED <<observer, reports, deltas, result, decision, rollout, evolution_ledger>>

\* observe_run: one SELECT after the other, without a transaction.
Statements ==
    <<"status", "policy_decisions", "approval_grants", "execution_tickets", "sandbox_results",
      "proofs", "ledger_events">>

ReadStatement ==
    /\ Watched
    /\ observer.done < Len(Statements)
    /\ LET table == Statements[observer.done + 1]
       IN  observer' = [done |-> observer.done + 1,
                        seen |-> [observer.seen EXCEPT ![table] = store_run[table]]]
    /\ UNCHANGED <<store_run, reports, deltas, result, decision, rollout, evolution_ledger>>

KeepReport(suite, basis) ==
    /\ Watched
    /\ reports' = reports \cup {[report |-> ReportOf(RunRegression(suite)), basis |-> basis]}
    /\ UNCHANGED <<store_run, deltas, result, decision, rollout, evolution_ledger>>

\* The observation is complete; a new one may begin.
AuditStoreRun(withPlaceholders) ==
    LET suite == FromStoreProjection(observer.seen)
    IN  /\ observer.done = Len(Statements)
        /\ KeepReport(IF withPlaceholders THEN WithSecurityPlaceholders(suite) ELSE suite, store_run)
        /\ observer' = [done |-> 0, seen |-> EmptyRun]

\* Bound: no graph is audited in the middle of an observation, with which it has
\* nothing in common.
AuditRuntimeGraph(graph) ==
    /\ observer.done = 0
    /\ KeepReport(FromProjection(graph.snapshot, graph.plan), graph)
    /\ UNCHANGED observer

-----------------------------------------------------------------------------
\* Adaptive.

\* An eval run always has an identifier, and so a reflection its evidence: of
\* evidence only whether there is any is told apart here.
Reflect(report) == [hypotheses |-> UNION {r.findings : r \in report.eval_run.results},
                    eval_evidence |-> {"eval run", "report"}]

Protected(kind) == kind \in {"PolicyPack", "Capability"}

DeltaOf(reflection, kind, risk) ==
    [kind |-> kind, risk_level |-> risk, evidence |-> reflection.eval_evidence,
     status |-> IF Protected(kind) THEN "NeedsGovernance" ELSE "Proposed",
     requires_human_approval |-> Protected(kind) \/ risk >= 2]

ExperimentPlan(delta) == [delta |-> delta, evidence |-> delta.evidence]

\* The identifier of a result is made of the delta and the report, not of the
\* score.
ExperimentResult(plan, report, score) ==
    [delta |-> plan.delta, report |-> report,
     passed |-> report.score.adaptive_promotion_allowed /\ score >= 0,
     evidence |-> {"eval run", "report"}]

Propose(report, kind, risk) ==
    /\ Cardinality(deltas) < MaxDeltas
    /\ deltas' = deltas \cup {DeltaOf(Reflect(report), kind, risk)}
    /\ UNCHANGED <<store_run, observer, reports, result, decision, rollout, evolution_ledger>>

Experiment(delta, report, score) ==
    /\ delta.evidence # {}
    /\ result' = ExperimentResult(ExperimentPlan(delta), report, score)
    /\ UNCHANGED <<store_run, observer, reports, deltas, decision, rollout, evolution_ledger>>

-----------------------------------------------------------------------------
\* Governance.

NeedsHuman(delta) ==
    \/ delta.requires_human_approval
    \/ Protected(delta.kind)
    \/ delta.risk_level >= 2
    \/ delta.status = "NeedsGovernance"

\* The result need not be the one of this delta.
DecisionOn(delta, of, approval) ==
    [kind |-> IF NeedsHuman(delta) /\ approval = NoApproval THEN "NeedsHumanApproval" ELSE "Approved",
     delta |-> delta, result |-> of,
     approval_policy |-> IF NeedsHuman(delta) THEN "Human" ELSE "None",
     human_approval |-> approval, evidence |-> delta.evidence \cup of.evidence]

DecidePromotion(delta, approval) ==
    /\ result # Nothing
    /\ delta.evidence # {} /\ result.evidence # {}
    /\ result.passed
    /\ decision' = DecisionOn(delta, result, approval)
    /\ UNCHANGED <<store_run, observer, reports, deltas, result, rollout, evolution_ledger>>

\* The delta need not be the one decided on.
PlanRollout(delta) ==
    /\ decision # Nothing
    /\ decision.evidence # {}
    /\ decision.kind # "NeedsHumanApproval"
    /\ rollout' = [kind |-> "rollout", delta |-> delta, decision |-> decision,
                   percents |-> <<5, 25>>, evidence |-> decision.evidence]
    /\ UNCHANGED <<store_run, observer, reports, deltas, result, decision, evolution_ledger>>

\* What an event says of its subject is left out; rollback_plan takes any
\* delta, with a rollout or without one, and any evidence.
Record(kind) ==
    /\ Len(evolution_ledger) < MaxEvolution
    /\ evolution_ledger' = Append(evolution_ledger, kind)
    /\ UNCHANGED <<store_run, observer, reports, deltas, result, decision, rollout>>

RecordPromotion == decision # Nothing /\ Record("PromotionDecided")

RecordRollout == rollout # Nothing /\ Record("RolloutPlanned")

RecordRollback == deltas # {} /\ Record("RollbackPlanned")

EvolutionNext ==
    \/ KernelWrites
    \/ ReadStatement
    \/ \E withPlaceholders \in BOOLEAN : AuditStoreRun(withPlaceholders)
    \/ \E graph \in RuntimeGraphs : AuditRuntimeGraph(graph)
    \/ \E r \in reports, kind \in DeltaKinds, risk \in DeltaRiskLevels : Propose(r.report, kind, risk)
    \/ \E delta \in deltas, r \in reports, score \in ScoreDeltas : Experiment(delta, r.report, score)
    \/ \E delta \in deltas, approval \in {NoApproval, "owner"} : DecidePromotion(delta, approval)
    \/ \E delta \in deltas : PlanRollout(delta)
    \/ RecordPromotion
    \/ RecordRollout
    \/ RecordRollback

-----------------------------------------------------------------------------
\* A run that was seen with nothing missing has it all.
HasItAll(basis) ==
    IF "run_id" \in DOMAIN basis
    THEN \A table \in {"policy_decisions", "execution_tickets", "sandbox_results", "proofs",
                       "ledger_events"} : basis[table] # {}
    ELSE basis.snapshot.planner # NoPlanner /\ DOMAIN basis.snapshot.tasks # {}

\* A rollout rests on a passed experiment, whose report was made of a run that
\* has its policy decision, ticket, result, proof and ledger event in the store,
\* or of a graph with its planner and tasks; and when the delta decided on is
\* protected or of a high risk, on the approval of a human.  That is said of the
\* delta that is rolled out only as far as it is the one decided on: neither
\* rollout_plan (governance lib.rs:161-196) nor decide_promotion (103-159)
\* compares the deltas, so that a protected delta is rolled out on the decision
\* on another one, and a delta is approved on the experiment of another one,
\* though README.md:153-155 requires "passed experiments, evidence refs, and
\* human approval for protected/high-risk deltas before rollout planning".
ApprovedIsEarned ==
    rollout # Nothing =>
        LET approved == rollout.decision
            NeedsOne(delta) == Protected(delta.kind) \/ delta.risk_level >= 2
        IN  /\ approved.result.passed
            /\ \A r \in reports : r.report = approved.result.report => HasItAll(r.basis)
            /\ NeedsOne(approved.delta) => approved.human_approval # NoApproval
            /\ NeedsOne(rollout.delta) /\ approved.human_approval = NoApproval
                  => rollout.delta # approved.delta
=============================================================================
