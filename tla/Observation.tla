----------------------------- MODULE Observation -----------------------------
(***************************************************************************)
(* Projections (moxi-observability): the facts and the metrics made of     *)
(* what the store has of a run, and of a snapshot of a runtime graph.      *)
(*                                                                         *)
(* A fact is [kind, graph, run, task, evidence]; its evidence is a set of  *)
(* references to records, written as pairs of the source and the record.   *)
(* Messages, payloads and hashes are left out, and so is the order by time *)
(* in which facts are listed: facts form a set.                            *)
(***************************************************************************)
EXTENDS Integers, Sequences, FiniteSets

NoRun == "no run"
NoTask == "no task"
NoPlanner == "no planner"
NoResumePlan == "no plan"

Fact(kind, graph, run, task, evidence) ==
    [kind |-> kind, graph |-> graph, run |-> run, task |-> task, evidence |-> evidence]

EvidenceRef(source, record) == {<<source, record>>}

-----------------------------------------------------------------------------
\* A run in the store: [run_id, status, policy_decisions, approval_grants,
\* execution_tickets, sandbox_results, proofs, ledger_events], each table a
\* set of records; a ledger event is [id, result].

NoStatus == "no status"

RecordFacts(observation, kind, source, records) ==
    {Fact(kind, observation.run_id, observation.run_id, NoTask, EvidenceRef(source, record)) :
        record \in records}

StateFacts(observation) ==
    IF observation.status = NoStatus THEN {}
    ELSE {Fact("StoreRunState", observation.run_id, observation.run_id, NoTask,
               EvidenceRef("StoreRecord", observation.status))}

AuthorityFacts(observation) ==
    UNION {RecordFacts(observation, "PolicyDecisionRecorded", "StoreRecord", observation.policy_decisions),
           RecordFacts(observation, "ApprovalGrantRecorded", "StoreRecord", observation.approval_grants),
           RecordFacts(observation, "ExecutionTicketRecorded", "StoreRecord", observation.execution_tickets)}

SuccessEvents(observation) == {event \in observation.ledger_events : event.result = "Success"}

OutcomeFacts(observation) ==
    UNION {RecordFacts(observation, "SandboxResultRecorded", "StoreRecord", observation.sandbox_results),
           RecordFacts(observation, "ProofRecorded", "Proof", observation.proofs),
           RecordFacts(observation, "LedgerEventRecorded", "LedgerEvent", observation.ledger_events),
           IF SuccessEvents(observation) = {} THEN {}
           ELSE {Fact("StoreRunCompleted", observation.run_id, observation.run_id, NoTask,
                      {<<"LedgerEvent", event>> : event \in SuccessEvents(observation)})}}

StoreFacts(observation) ==
    StateFacts(observation) \cup AuthorityFacts(observation) \cup OutcomeFacts(observation)

StoreRunMetric(observation) ==
    [policy_decisions |-> Cardinality(observation.policy_decisions),
     ledger_events |-> Cardinality(observation.ledger_events),
     has_status |-> observation.status # NoStatus,
     is_complete |-> SuccessEvents(observation) # {} \/ observation.status = "Completed"]

-----------------------------------------------------------------------------
\* A graph of the runtime: [graph_id, planner, tasks, events, attempts,
\* probes], and the resume plan made with it: [recommendations, is_complete].
\* tasks is a function from tasks to states, recommendations one to actions;
\* an event is [id, run, task], an attempt [id, run, task, stage], a probe
\* [attempt, task].

AttemptKind(stage) ==
    CASE stage = "Started" -> "AttemptStarted"
      [] stage = "Completed" -> "AttemptCompleted"
      [] OTHER -> "AttemptFailed"

AttemptFacts(snapshot) ==
    {Fact(AttemptKind(a.stage), snapshot.graph_id, a.run, a.task, EvidenceRef("RuntimeAttempt", a)) :
        a \in snapshot.attempts}

ProbeFacts(snapshot) ==
    {Fact("AdoptionProbeObserved", snapshot.graph_id, NoRun, p.task,
          EvidenceRef("RuntimeAdoptionProbe", p)) : p \in snapshot.probes}

ResumePlanFacts(graph, plan) ==
    {Fact("ResumeRecommendation", graph, NoRun, t,
          EvidenceRef("RuntimeResumePlan", <<t, plan.recommendations[t]>>)) :
        t \in DOMAIN plan.recommendations}

PlannerFacts(snapshot) ==
    IF snapshot.planner = NoPlanner THEN {}
    ELSE {Fact("PlannerBound", snapshot.graph_id, snapshot.planner, NoTask,
               EvidenceRef("RuntimePlanner", snapshot.planner))}

CompletionFacts(snapshot, plan) ==
    IF plan.is_complete
    THEN {Fact("GraphCompleted", snapshot.graph_id, NoRun, NoTask,
               EvidenceRef("RuntimeResumePlan", plan.is_complete))}
    ELSE {}

SnapshotFacts(snapshot) ==
    UNION {{Fact("GraphPlanned", snapshot.graph_id, NoRun, NoTask,
                 EvidenceRef("RuntimeGraph", snapshot.graph_id))},
           PlannerFacts(snapshot),
           {Fact("TaskState", snapshot.graph_id, NoRun, t,
                 EvidenceRef("RuntimeTask", <<t, snapshot.tasks[t]>>)) : t \in DOMAIN snapshot.tasks},
           {Fact("RuntimeEvent", snapshot.graph_id, e.run, e.task, EvidenceRef("RuntimeEvent", e)) :
                e \in snapshot.events},
           AttemptFacts(snapshot), ProbeFacts(snapshot)}

\* runtime_facts_from_graph_snapshot: with a plan or without one.
GraphFacts(snapshot, plan) ==
    IF plan = NoResumePlan THEN SnapshotFacts(snapshot)
    ELSE UNION {SnapshotFacts(snapshot), ResumePlanFacts(snapshot.graph_id, plan),
                CompletionFacts(snapshot, plan)}

\* runtime_facts_from_query_snapshot: a query always carries the plan.
QueryFacts(snapshot, plan) ==
    UNION {SnapshotFacts(snapshot), ResumePlanFacts(snapshot.graph_id, plan),
           CompletionFacts(snapshot, plan)}

InState(tasks, state) == {t \in DOMAIN tasks : tasks[t] = state}

Recommended(plan, action) ==
    Cardinality({t \in DOMAIN plan.recommendations : plan.recommendations[t] = action})

\* RunMetric::from_graph_snapshot: without a plan, the tasks decide.
GraphMetric(snapshot, plan) ==
    [completed |-> Cardinality(InState(snapshot.tasks, "Completed")),
     running |-> Cardinality(InState(snapshot.tasks, "Running")),
     failed |-> Cardinality(InState(snapshot.tasks, "Failed")),
     awaiting |-> Cardinality(InState(snapshot.tasks, "AwaitingApproval")),
     already_committed |-> IF plan = NoResumePlan THEN 0 ELSE Recommended(plan, "AlreadyCommitted"),
     is_complete |-> IF plan = NoResumePlan
                     THEN /\ DOMAIN snapshot.tasks # {}
                          /\ InState(snapshot.tasks, "Completed") = DOMAIN snapshot.tasks
                     ELSE plan.is_complete]

\* RunMetric::from_query_snapshot: the plan decides.
QueryMetric(plan) ==
    [completed |-> Len(plan.completed), running |-> Len(plan.running), failed |-> Len(plan.failed),
     awaiting |-> Len(plan.awaiting),
     already_committed |-> Recommended(plan, "AlreadyCommitted"),
     is_complete |-> plan.is_complete]
=============================================================================
