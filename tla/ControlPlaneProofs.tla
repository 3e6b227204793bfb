------------------------- MODULE ControlPlaneProofs -------------------------
(***************************************************************************)
(* Proofs about the control planes: what a merge into the parent run and   *)
(* a rollout rest on, what the memory hands out, what the first packet     *)
(* says, and that a plan stays within its request and its session.  The    *)
(* functions of these planes keep little and take any of the records made  *)
(* so far, so the arguments are about what the identifiers and the records *)
(* themselves bind; those about lists (the memory, the measured times, the *)
(* order of tasks) rest on what it is to put a finite set in order.        *)
(***************************************************************************)
EXTENDS ControlPlane, FiniteSetTheorems, TLAPS

-----------------------------------------------------------------------------
(* The swarm.                                                               *)

SealedIds == {s.sidechain_id : s \in sidechains}

\* The identifier of a gate has its sidechain and its decision in it, and
\* evidence counts as accepted only by a gate that was made.
GateInv ==
    \A gate \in gates :
        /\ gate.gate_id[3] = gate.target_sidechain_id /\ gate.gate_id[4] = gate.decision
        /\ gate.target_sidechain_id \in SealedIds

\* The item is of a sealed sidechain and cites an approval.
Backed(item) ==
    /\ item.sidechain_id \in SealedIds
    /\ \E gate \in gates : gate.gate_id = item.review_gate_id /\ gate.decision = "Approved"

EvidenceInv == \A item \in evidence : item.accepted => Backed(item)

MergeInv == \A item \in merge.evidence : Backed(item)

SwarmInv == GateInv /\ EvidenceInv /\ MergeInv

LEMMA SwarmStep ==
    ASSUME SwarmInv, SwarmNext
    PROVE  SwarmInv'
  <1>1. ASSUME UNCHANGED <<gates, evidence, merge>>, sidechains \subseteq sidechains' PROVE SwarmInv'
    <2>1. SealedIds \subseteq SealedIds'
      BY <1>1 DEF SealedIds
    <2>2. GateInv'
      BY <1>1, <2>1 DEF SwarmInv, GateInv
    <2>3. EvidenceInv' /\ MergeInv'
      BY <1>1, <2>1 DEF SwarmInv, EvidenceInv, MergeInv, Backed
    <2>4. QED
      BY <2>2, <2>3 DEF SwarmInv
  <1>2. ASSUME NEW reviewer, NEW sidechain \in sidechains, NEW verdict, Review(reviewer, sidechain, verdict)
        PROVE  SwarmInv'
    <2> DEFINE made == ReviewGate(reviewer, sidechain, verdict)
    <2>1. gates' = gates \cup {made} /\ UNCHANGED <<sidechains, evidence, merge>>
      BY <1>2 DEF Review
    <2>2. /\ made.gate_id[3] = made.target_sidechain_id /\ made.gate_id[4] = made.decision
          /\ made.target_sidechain_id \in SealedIds
      BY DEF ReviewGate, GateId, SealedIds
    <2> HIDE DEF made
    <2>3. SealedIds' = SealedIds
      BY <2>1 DEF SealedIds
    <2>4. GateInv'
      BY <2>1, <2>2, <2>3 DEF SwarmInv, GateInv
    <2>5. EvidenceInv' /\ MergeInv'
      BY <2>1, <2>3 DEF SwarmInv, EvidenceInv, MergeInv, Backed
    <2>6. QED
      BY <2>4, <2>5 DEF SwarmInv
  <1>3. ASSUME NEW item, item.accepted => Backed(item), Present(item) PROVE SwarmInv'
    <2>1. evidence' = evidence \cup {item} /\ UNCHANGED <<sidechains, gates, merge>>
      BY <1>3 DEF Present
    <2>2. SealedIds' = SealedIds
      BY <2>1 DEF SealedIds
    <2>3. QED
      BY <1>3, <2>1, <2>2 DEF SwarmInv, GateInv, EvidenceInv, MergeInv, Backed
  <1>4. ASSUME NEW sidechain \in sidechains, NEW gate \in gates, Present(EvidenceWith(sidechain, gate))
        PROVE  SwarmInv'
    <2> DEFINE item == EvidenceWith(sidechain, gate)
    <2>1. /\ item.accepted => item.review_gate_id = gate.gate_id /\ gate.decision = "Approved"
          /\ item.sidechain_id \in SealedIds
      BY DEF EvidenceWith, SealedIds
    <2>2. item.accepted => Backed(item)
      BY <2>1 DEF Backed
    <2> HIDE DEF item
    <2>3. QED
      BY <1>3, <1>4, <2>2 DEF item
  <1>5. ASSUME NEW sidechain, Present(EvidenceWithoutReview(sidechain)) PROVE SwarmInv'
    <2>1. ~EvidenceWithoutReview(sidechain).accepted
      BY DEF EvidenceWithoutReview
    <2>2. QED
      BY <1>3, <1>5, <2>1
  <1>6. ASSUME NEW items \in SUBSET evidence, Merge(items) PROVE SwarmInv'
    <2>1. merge'.evidence = items /\ UNCHANGED <<sidechains, gates, evidence>>
          /\ \A item \in items : item.accepted
      BY <1>6 DEF Merge, CanMerge
    <2>2. SealedIds' = SealedIds
      BY <2>1 DEF SealedIds
    <2>3. QED
      BY <1>6, <2>1, <2>2 DEF SwarmInv, GateInv, EvidenceInv, MergeInv, Backed
  <1>7. QED
    BY <1>1, <1>2, <1>4, <1>5, <1>6
    DEF SwarmNext, PlanTasks, HandOver, Say, Seal, Inspect

\* Nothing is merged into the parent run but on an approval, each of one sealed
\* sidechain, however many agents and reviewers there are and whatever they
\* present; which sidechain that is, the code does not ask.
THEOREM MergeIsApproved == Spec => []MergeRestsOnApprovals
  <1>1. Init => SwarmInv
    BY DEF Init, SwarmInit, SwarmInv, GateInv, EvidenceInv, MergeInv, NoMerge
  <1>2. SwarmInv /\ [Next]_controlVars => SwarmInv'
    <2>1. ASSUME SwarmInv, UNCHANGED swarmVars PROVE SwarmInv'
      BY <2>1 DEF SwarmInv, GateInv, EvidenceInv, MergeInv, Backed, SealedIds, swarmVars
    <2>2. QED
      BY <2>1, SwarmStep DEF Next, controlVars
  <1>3. SwarmInv => MergeRestsOnApprovals
    <2> SUFFICES ASSUME SwarmInv, NEW item \in merge.evidence
                 PROVE  LET cited == {gate \in gates : gate.gate_id = item.review_gate_id}
                        IN  /\ item.sidechain_id \in SealedIds
                            /\ \E approved \in SealedIds :
                                  \A gate \in cited : /\ gate.decision = "Approved"
                                                      /\ gate.target_sidechain_id = approved
                            /\ cited # {}
      BY DEF MergeRestsOnApprovals, SealedIds
    <2>1. Backed(item) /\ GateInv
      BY DEF SwarmInv, MergeInv
    <2>2. PICK gate \in gates : gate.gate_id = item.review_gate_id /\ gate.decision = "Approved"
      BY <2>1 DEF Backed
    <2>3. gate.target_sidechain_id \in SealedIds
      BY <2>1 DEF GateInv
    <2>4. \A other \in gates : other.gate_id = item.review_gate_id
             => other.decision = "Approved" /\ other.target_sidechain_id = gate.target_sidechain_id
      BY <2>1, <2>2 DEF GateInv
    <2>5. QED
      BY <2>1, <2>2, <2>3, <2>4 DEF Backed
  <1>4. QED
    BY <1>1, <1>2, <1>3, PTL DEF Spec

-----------------------------------------------------------------------------
(* Evolution.                                                               *)

Allowed(report) == report.score.adaptive_promotion_allowed

\* A report that allows a promotion has no case of which a kind is missing.
LEMMA AllowedMissesNothing ==
    ASSUME NEW suite, NEW case \in suite.cases, ~case.placeholder,
           Allowed(ReportOf(RunRegression(suite)))
    PROVE  MissingKinds(case) = {}
  <1> DEFINE results == RunRegression(suite).results
  <1>1. EvaluateCase(case, suite.profile) \in results
    BY DEF RunRegression
  <1>2. {r \in results : r.status = "Failed"} = {}
    BY DEF Allowed, ReportOf, ScoreOf
  <1>3. EvaluateCase(case, suite.profile).status # "Failed"
    BY <1>1, <1>2
  <1>4. ASSUME MissingKinds(case) # {} PROVE FALSE
    <2>1. EvaluateCase(case, suite.profile) = Outcome(case, "Failed", {case.severity})
      BY <1>4 DEF EvaluateCase
    <2>2. QED
      BY <1>3, <2>1 DEF Outcome
  <1>5. QED
    BY <1>4

\* A fact of one of these kinds is made of a record of its table only.
LEMMA StoreFactsAreOfRecords ==
    ASSUME NEW observation, NEW f \in StoreFacts(observation)
    PROVE  /\ f.kind = "PolicyDecisionRecorded" => observation.policy_decisions # {}
           /\ f.kind = "ExecutionTicketRecorded" => observation.execution_tickets # {}
           /\ f.kind = "SandboxResultRecorded" => observation.sandbox_results # {}
           /\ f.kind = "ProofRecorded" => observation.proofs # {}
           /\ f.kind = "LedgerEventRecorded" => observation.ledger_events # {}
  <1>1. ASSUME NEW kind, NEW source, NEW records, f \in RecordFacts(observation, kind, source, records)
        PROVE  f.kind = kind /\ records # {}
    BY <1>1 DEF RecordFacts, Fact
  <1>2. CASE f \in StateFacts(observation)
    BY <1>2 DEF StateFacts, Fact
  <1>3. CASE f \in AuthorityFacts(observation)
    BY <1>1, <1>3 DEF AuthorityFacts
  <1>4. CASE f \in OutcomeFacts(observation)
    <2>1. CASE f.kind = "StoreRunCompleted"
      BY <2>1
    <2>2. CASE f.kind # "StoreRunCompleted"
      BY <1>1, <1>4, <2>2 DEF OutcomeFacts, Fact
    <2>3. QED
      BY <2>1, <2>2
  <1>5. QED
    BY <1>2, <1>3, <1>4 DEF StoreFacts

Tables == {"policy_decisions", "execution_tickets", "sandbox_results", "proofs", "ledger_events"}

LEMMA AllowedStoreReport ==
    ASSUME NEW observation, NEW suite, P0ReplayAudit(StoreFacts(observation)) \in suite.cases,
           Allowed(ReportOf(RunRegression(suite)))
    PROVE  /\ observation.policy_decisions # {} /\ observation.execution_tickets # {}
           /\ observation.sandbox_results # {} /\ observation.proofs # {}
           /\ observation.ledger_events # {}
  <1> DEFINE case == P0ReplayAudit(StoreFacts(observation))
  <1>1. ~case.placeholder /\ case.expected = P0Kinds /\ case.facts \subseteq StoreFacts(observation)
    BY DEF P0ReplayAudit
  <1>2. MissingKinds(case) = {}
    BY <1>1, AllowedMissesNothing
  <1>3. \A kind \in P0Kinds : \E f \in StoreFacts(observation) : f.kind = kind
    BY <1>1, <1>2 DEF MissingKinds
  <1>4. QED
    BY <1>3, StoreFactsAreOfRecords DEF P0Kinds

LEMMA AllowedGraphReport ==
    ASSUME NEW snapshot_, NEW plan,
           Allowed(ReportOf(RunRegression(FromProjection(snapshot_, plan))))
    PROVE  snapshot_.planner # NoPlanner /\ DOMAIN snapshot_.tasks # {}
  <1> DEFINE suite == FromProjection(snapshot_, plan)
             case == RuntimeFactRegression(QueryFacts(snapshot_, plan))
  <1>1. /\ case \in suite.cases /\ ~case.placeholder /\ case.expected = RuntimeKinds
        /\ case.facts \subseteq QueryFacts(snapshot_, plan)
    BY DEF FromProjection, RuntimeFactRegression
  <1>2. MissingKinds(case) = {}
    BY <1>1, AllowedMissesNothing
  <1>3. \A kind \in RuntimeKinds : \E f \in QueryFacts(snapshot_, plan) : f.kind = kind
    BY <1>1, <1>2 DEF MissingKinds
  <1>4. ASSUME NEW f \in QueryFacts(snapshot_, plan)
        PROVE  /\ f.kind = "PlannerBound" => snapshot_.planner # NoPlanner
               /\ f.kind = "TaskState" => DOMAIN snapshot_.tasks # {}
    <2>1. ASSUME NEW kind, NEW g, NEW run, NEW task, NEW refs
          PROVE  Fact(kind, g, run, task, refs).kind = kind
      BY DEF Fact
    <2>2. f \in ResumePlanFacts(snapshot_.graph_id, plan) => f.kind = "ResumeRecommendation"
      <3>1. ASSUME f \in ResumePlanFacts(snapshot_.graph_id, plan)
            PROVE  \E task, refs : f = Fact("ResumeRecommendation", snapshot_.graph_id, NoRun, task, refs)
        BY <3>1, Zenon DEF ResumePlanFacts
      <3>2. QED
        BY <2>1, <3>1
    <2>3. f \in CompletionFacts(snapshot_, plan) => f.kind = "GraphCompleted"
      BY <2>1 DEF CompletionFacts
    <2>4. f \in AttemptFacts(snapshot_) => f.kind \notin {"PlannerBound", "TaskState"}
      BY <2>1 DEF AttemptFacts, AttemptKind
    <2>5. f \in ProbeFacts(snapshot_) => f.kind = "AdoptionProbeObserved"
      BY <2>1 DEF ProbeFacts
    <2>6. f \in PlannerFacts(snapshot_) => snapshot_.planner # NoPlanner /\ f.kind = "PlannerBound"
      BY <2>1 DEF PlannerFacts
    <2>7. \/ f \in ResumePlanFacts(snapshot_.graph_id, plan) \/ f \in CompletionFacts(snapshot_, plan)
          \/ f \in AttemptFacts(snapshot_) \/ f \in ProbeFacts(snapshot_) \/ f \in PlannerFacts(snapshot_)
          \/ f.kind = "GraphPlanned" \/ f.kind = "RuntimeEvent"
          \/ f.kind = "TaskState" /\ DOMAIN snapshot_.tasks # {}
      <3>1. CASE f \in ResumePlanFacts(snapshot_.graph_id, plan) \cup CompletionFacts(snapshot_, plan)
        BY <3>1
      <3>2. CASE f \in SnapshotFacts(snapshot_)
        <4>1. \/ f = Fact("GraphPlanned", snapshot_.graph_id, NoRun, NoTask, EvidenceRef("RuntimeGraph", snapshot_.graph_id))
              \/ f \in PlannerFacts(snapshot_) \/ f \in AttemptFacts(snapshot_) \/ f \in ProbeFacts(snapshot_)
              \/ \E t \in DOMAIN snapshot_.tasks :
                    f = Fact("TaskState", snapshot_.graph_id, NoRun, t, EvidenceRef("RuntimeTask", <<t, snapshot_.tasks[t]>>))
              \/ \E e \in snapshot_.events :
                    f = Fact("RuntimeEvent", snapshot_.graph_id, e.run, e.task, EvidenceRef("RuntimeEvent", e))
          BY <3>2 DEF SnapshotFacts
        <4>2. ASSUME NEW t \in DOMAIN snapshot_.tasks,
                     f = Fact("TaskState", snapshot_.graph_id, NoRun, t, EvidenceRef("RuntimeTask", <<t, snapshot_.tasks[t]>>))
              PROVE  f.kind = "TaskState" /\ DOMAIN snapshot_.tasks # {}
          BY <2>1, <4>2
        <4>3. ASSUME NEW e \in snapshot_.events,
                     f = Fact("RuntimeEvent", snapshot_.graph_id, e.run, e.task, EvidenceRef("RuntimeEvent", e))
              PROVE  f.kind = "RuntimeEvent"
          BY <2>1, <4>3
        <4>4. f = Fact("GraphPlanned", snapshot_.graph_id, NoRun, NoTask, EvidenceRef("RuntimeGraph", snapshot_.graph_id))
                => f.kind = "GraphPlanned"
          BY <2>1
        <4>5. QED
          BY <4>1, <4>2, <4>3, <4>4, Zenon
      <3>3. QED
        BY <3>1, <3>2 DEF QueryFacts
    <2>8. QED
      BY <2>2, <2>3, <2>4, <2>5, <2>6, <2>7
  <1>5. QED
    BY <1>3, <1>4 DEF RuntimeKinds

\* A report that allows a promotion was made of a run or graph that has it all.
ReportInv == \A r \in reports : Allowed(r.report) => HasItAll(r.basis)

\* The observer has seen a part of what is in the tables, which only grow.
ObserverInv ==
    /\ DOMAIN store_run = DOMAIN EmptyRun /\ DOMAIN observer.seen = DOMAIN EmptyRun
    /\ \A table \in Tables : observer.seen[table] \subseteq store_run[table]

ResultInv == result # Nothing => (result.passed => Allowed(result.report))

\* What a decision rests on once it is not waiting for a human.
Earned(d) ==
    /\ d.result.passed /\ Allowed(d.result.report)
    /\ (Protected(d.delta.kind) \/ d.delta.risk_level >= 2) /\ d.kind # "NeedsHumanApproval"
          => d.human_approval # NoApproval

DecisionInv == decision # Nothing => Earned(decision)
RolloutInv == rollout # Nothing => Earned(rollout.decision) /\ rollout.decision.kind # "NeedsHumanApproval"

EvolutionInv == ReportInv /\ ObserverInv /\ ResultInv /\ DecisionInv /\ RolloutInv

LEMMA EmptyRunHasTables ==
    DOMAIN EmptyRun = {"run_id", "status", "approval_grants"} \cup Tables
  BY DEF EmptyRun, Tables

LEMMA KernelWritesGrow ==
    ASSUME ObserverInv, KernelWrites
    PROVE  ObserverInv'
  <1>1. DOMAIN store_run = {"run_id", "status", "approval_grants"} \cup Tables
    BY EmptyRunHasTables DEF ObserverInv
  <1>2. ASSUME NEW table \in Tables \cup {"approval_grants"}, NEW record
        PROVE  LET written == Write(table, record)
               IN  DOMAIN written = DOMAIN store_run /\ \A t \in Tables : store_run[t] \subseteq written[t]
    BY <1>1 DEF Write
  <1>3. ASSUME NEW run, DOMAIN run = DOMAIN store_run, \A t \in Tables : store_run[t] \subseteq run[t], NEW to
        PROVE  LET moved == [run EXCEPT !.status = to]
               IN  DOMAIN moved = DOMAIN store_run /\ \A t \in Tables : store_run[t] \subseteq moved[t]
    BY <1>1, <1>3 DEF Tables
  <1>4. DOMAIN store_run' = DOMAIN store_run /\ \A t \in Tables : store_run[t] \subseteq store_run'[t]
    <2>1. ASSUME NEW table \in Tables \cup {"approval_grants"}, NEW record, store_run' = Write(table, record)
          PROVE  DOMAIN store_run' = DOMAIN store_run /\ \A t \in Tables : store_run[t] \subseteq store_run'[t]
      BY <1>2, <2>1
    <2>2. ASSUME NEW to, store_run' = [store_run EXCEPT !.status = to]
          PROVE  DOMAIN store_run' = DOMAIN store_run /\ \A t \in Tables : store_run[t] \subseteq store_run'[t]
      BY <1>3, <2>2
    <2>3. ASSUME NEW record, NEW to, store_run' = [Write("ledger_events", record) EXCEPT !.status = to]
          PROVE  DOMAIN store_run' = DOMAIN store_run /\ \A t \in Tables : store_run[t] \subseteq store_run'[t]
      <3>1. "ledger_events" \in Tables
        BY DEF Tables
      <3>2. LET written == Write("ledger_events", record)
            IN  DOMAIN written = DOMAIN store_run /\ \A t \in Tables : store_run[t] \subseteq written[t]
        BY <1>2, <3>1
      <3>3. QED
        BY <1>3, <2>3, <3>2
    <2>4. \/ \E table \in Tables \cup {"approval_grants"} : \E record : store_run' = Write(table, record)
          \/ \E to : store_run' = [store_run EXCEPT !.status = to]
          \/ \E record, to : store_run' = [Write("ledger_events", record) EXCEPT !.status = to]
      BY DEF KernelWrites, Tables
    <2>5. QED
      BY <2>1, <2>2, <2>3, <2>4
  <1>5. observer' = observer
    BY DEF KernelWrites
  <1>6. QED
    BY <1>4, <1>5 DEF ObserverInv

LEMMA ReadStatementSees ==
    ASSUME ObserverInv, ReadStatement
    PROVE  ObserverInv'
  <1> DEFINE table == Statements[observer.done + 1]
  <1>1. /\ observer' = [done |-> observer.done + 1, seen |-> [observer.seen EXCEPT ![table] = store_run[table]]]
        /\ store_run' = store_run
    BY DEF ReadStatement
  <1>2. observer'.seen = [observer.seen EXCEPT ![table] = store_run[table]]
    BY <1>1
  <1> HIDE DEF table
  <1>3. DOMAIN observer'.seen = DOMAIN observer.seen
        /\ \A t \in Tables : observer'.seen[t] = IF t = table THEN store_run[t] ELSE observer.seen[t]
    BY <1>2, EmptyRunHasTables DEF ObserverInv
  <1>4. QED
    BY <1>1, <1>3 DEF ObserverInv

\* What was seen of the run with nothing missing is in the tables.
LEMMA AuditStoreRunKeeps ==
    ASSUME ObserverInv, ReportInv, NEW withPlaceholders \in BOOLEAN, AuditStoreRun(withPlaceholders)
    PROVE  ObserverInv' /\ ReportInv'
  <1> DEFINE plain == FromStoreProjection(observer.seen)
             suite == IF withPlaceholders THEN WithSecurityPlaceholders(plain) ELSE plain
             made == [report |-> ReportOf(RunRegression(suite)), basis |-> store_run]
  <1>1. reports' = reports \cup {made} /\ store_run' = store_run
        /\ observer' = [done |-> 0, seen |-> EmptyRun]
    BY DEF AuditStoreRun, KeepReport
  <1>2. P0ReplayAudit(StoreFacts(observer.seen)) \in suite.cases
    BY DEF FromStoreProjection, WithSecurityPlaceholders
  <1>3. ASSUME Allowed(ReportOf(RunRegression(suite))) PROVE HasItAll(store_run)
    <2>1. /\ observer.seen.policy_decisions # {} /\ observer.seen.execution_tickets # {}
          /\ observer.seen.sandbox_results # {} /\ observer.seen.proofs # {}
          /\ observer.seen.ledger_events # {}
      BY <1>2, <1>3, AllowedStoreReport
    <2>2. \A table \in Tables : store_run[table] # {}
      BY <2>1 DEF ObserverInv, Tables
    <2>3. "run_id" \in DOMAIN store_run
      BY EmptyRunHasTables DEF ObserverInv
    <2>4. QED
      BY <2>2, <2>3 DEF HasItAll, Tables
  <1>4. ReportInv'
    BY <1>1, <1>3 DEF ReportInv
  <1>5. ObserverInv'
    <2>1. \A table \in Tables : EmptyRun[table] = {}
      BY DEF EmptyRun, Tables
    <2>2. QED
      BY <1>1, <2>1 DEF ObserverInv
  <1>6. QED
    BY <1>4, <1>5

LEMMA AuditRuntimeGraphKeeps ==
    ASSUME ObserverInv, ReportInv, NEW g \in RuntimeGraphs, AuditRuntimeGraph(g)
    PROVE  ObserverInv' /\ ReportInv'
  <1>1. /\ reports' = reports \cup {[report |-> ReportOf(RunRegression(FromProjection(g.snapshot, g.plan))), basis |-> g]}
        /\ UNCHANGED <<store_run, observer>>
    BY DEF AuditRuntimeGraph, KeepReport
  <1>2. "run_id" \notin DOMAIN g
    BY RuntimeGraphsAssumption
  <1>3. Allowed(ReportOf(RunRegression(FromProjection(g.snapshot, g.plan)))) => HasItAll(g)
    BY <1>2, AllowedGraphReport DEF HasItAll
  <1>4. QED
    BY <1>1, <1>3 DEF ObserverInv, ReportInv

LEMMA EvolutionStep ==
    ASSUME EvolutionInv, EvolutionNext
    PROVE  EvolutionInv'
  <1>1. ASSUME UNCHANGED <<result, decision, rollout>>, ReportInv', ObserverInv' PROVE EvolutionInv'
    BY <1>1 DEF EvolutionInv, ResultInv, DecisionInv, RolloutInv, Earned
  <1>2. ASSUME UNCHANGED <<store_run, observer, reports>> PROVE ReportInv' /\ ObserverInv'
    BY <1>2 DEF EvolutionInv, ReportInv, ObserverInv
  <1>3. CASE KernelWrites \/ ReadStatement
    <2>1. UNCHANGED <<reports, result, decision, rollout>>
      BY <1>3 DEF KernelWrites, ReadStatement
    <2>2. ReportInv'
      BY <2>1 DEF EvolutionInv, ReportInv
    <2>3. QED
      BY <1>1, <1>3, <2>1, <2>2, KernelWritesGrow, ReadStatementSees DEF EvolutionInv
  <1>4. ASSUME NEW withPlaceholders \in BOOLEAN, AuditStoreRun(withPlaceholders) PROVE EvolutionInv'
    BY <1>1, <1>4, AuditStoreRunKeeps DEF AuditStoreRun, KeepReport, EvolutionInv
  <1>5. ASSUME NEW g \in RuntimeGraphs, AuditRuntimeGraph(g) PROVE EvolutionInv'
    BY <1>1, <1>5, AuditRuntimeGraphKeeps DEF AuditRuntimeGraph, KeepReport, EvolutionInv
  <1>6. ASSUME NEW report, NEW kind, NEW risk, Propose(report, kind, risk) PROVE EvolutionInv'
    BY <1>1, <1>2, <1>6 DEF Propose
  <1>7. ASSUME NEW delta, NEW report, NEW score, Experiment(delta, report, score) PROVE EvolutionInv'
    <2>1. result' = ExperimentResult(ExperimentPlan(delta), report, score)
          /\ UNCHANGED <<store_run, observer, reports, decision, rollout>>
      BY <1>7 DEF Experiment
    <2>2. ResultInv'
      BY <2>1 DEF ResultInv, ExperimentResult, Allowed
    <2>3. QED
      BY <1>2, <2>1, <2>2 DEF EvolutionInv, DecisionInv, RolloutInv, Earned
  <1>8. ASSUME NEW delta, NEW approval, DecidePromotion(delta, approval) PROVE EvolutionInv'
    <2>1. decision' = DecisionOn(delta, result, approval) /\ result # Nothing /\ result.passed
          /\ UNCHANGED <<store_run, observer, reports, result, rollout>>
      BY <1>8 DEF DecidePromotion
    <2>2. Earned(DecisionOn(delta, result, approval))
      BY <2>1 DEF EvolutionInv, ResultInv, Earned, DecisionOn, NeedsHuman
    <2>3. DecisionInv'
      BY <2>1, <2>2 DEF DecisionInv, Earned
    <2>4. QED
      BY <1>2, <2>1, <2>3 DEF EvolutionInv, ResultInv, RolloutInv, Earned
  <1>9. ASSUME NEW delta, PlanRollout(delta) PROVE EvolutionInv'
    <2>1. rollout'.decision = decision /\ decision # Nothing /\ decision.kind # "NeedsHumanApproval"
          /\ UNCHANGED <<store_run, observer, reports, result, decision>>
      BY <1>9 DEF PlanRollout
    <2>2. RolloutInv'
      BY <2>1 DEF EvolutionInv, DecisionInv, RolloutInv, Earned
    <2>3. QED
      BY <1>2, <2>1, <2>2 DEF EvolutionInv, ResultInv, DecisionInv, Earned
  <1>10. CASE RecordPromotion \/ RecordRollout \/ RecordRollback
    BY <1>1, <1>2, <1>10 DEF RecordPromotion, RecordRollout, RecordRollback, Record
  <1>11. QED
    BY <1>3, <1>4, <1>5, <1>6, <1>7, <1>8, <1>9, <1>10 DEF EvolutionNext

\* A rollout rests on a passed experiment whose report was made of a run with a
\* record in every table, or of a planned graph with tasks, however the
\* observation was interleaved with the kernel's writes; and when the delta
\* decided on is protected or of a high risk, on the approval of a human.  The
\* delta that is rolled out is that one or, the code does not ask, another.
THEOREM RolloutIsEarned == Spec => []ApprovedIsEarned
  <1>1. Init => EvolutionInv
    BY DEF Init, EvolutionInit, EvolutionInv, ReportInv, ObserverInv, ResultInv, DecisionInv, RolloutInv,
       EmptyRun, Tables
  <1>2. EvolutionInv /\ [Next]_controlVars => EvolutionInv'
    <2>1. ASSUME EvolutionInv, UNCHANGED evolutionVars PROVE EvolutionInv'
      BY <2>1 DEF EvolutionInv, ReportInv, ObserverInv, ResultInv, DecisionInv, RolloutInv, Earned, evolutionVars
    <2>2. QED
      BY <2>1, EvolutionStep DEF Next, controlVars
  <1>3. EvolutionInv => ApprovedIsEarned
    BY DEF EvolutionInv, ReportInv, RolloutInv, Earned, ApprovedIsEarned
  <1>4. QED
    BY <1>1, <1>2, <1>3, PTL DEF Spec

-----------------------------------------------------------------------------
(* Lists: a finite set in order.                                            *)

\* The order is total on S.
Orders(order, S) ==
    /\ \A x, y \in S : <<x, y>> \in order \/ <<y, x>> \in order
    /\ \A x, y \in S : <<x, y>> \in order /\ <<y, x>> \in order => x = y
    /\ \A x, y, z \in S : <<x, y>> \in order /\ <<y, z>> \in order => <<x, z>> \in order

\* An element that comes before another has fewer before it.
LEMMA LaterHasMore ==
    ASSUME NEW S, IsFiniteSet(S), NEW order, Orders(order, S),
           NEW x \in S, NEW y \in S, x # y, <<x, y>> \in order
    PROVE  /\ IsFiniteSet(Upto(S, order, y))
           /\ Cardinality(Upto(S, order, x)) \in Nat /\ Cardinality(Upto(S, order, y)) \in Nat
           /\ Cardinality(Upto(S, order, x)) < Cardinality(Upto(S, order, y))
  <1> DEFINE X == Upto(S, order, x)
             Y == Upto(S, order, y)
  <1>1. X \in SUBSET Y /\ y \in Y /\ y \notin X /\ Y \in SUBSET S
    BY DEF Upto, Orders
  <1>2. IsFiniteSet(Y) /\ IsFiniteSet(X)
    BY <1>1, FS_Subset
  <1>3. Cardinality(X) <= Cardinality(Y) /\ Cardinality(X) # Cardinality(Y)
    BY <1>1, <1>2, FS_Subset
  <1>4. Cardinality(X) \in Nat /\ Cardinality(Y) \in Nat
    BY <1>2, FS_CardinalityType
  <1> QED
    BY <1>2, <1>3, <1>4

\* Every number up to the size of S is the place of one element.
LEMMA EveryPlaceIsTaken ==
    ASSUME NEW S, IsFiniteSet(S), NEW order, Orders(order, S),
           NEW k \in 1 .. Cardinality(S)
    PROVE  /\ \E x \in S : Cardinality(Upto(S, order, x)) = k
           /\ \A x, y \in S : Cardinality(Upto(S, order, x)) = k /\ Cardinality(Upto(S, order, y)) = k
                                 => x = y
  <1> DEFINE n == Cardinality(S)
             place == [x \in S |-> Cardinality(Upto(S, order, x))]
  <1>1. n \in Nat /\ IsFiniteSet(1..n) /\ Cardinality(1..n) = n
    BY FS_CardinalityType, FS_Interval
  <1>2. ASSUME NEW x \in S PROVE place[x] \in 1..n
    <2>1. Upto(S, order, x) \in SUBSET S /\ x \in Upto(S, order, x)
      BY DEF Upto, Orders
    <2>2. IsFiniteSet(Upto(S, order, x)) /\ Cardinality(Upto(S, order, x)) <= n
      BY <2>1, FS_Subset
    <2>3. Cardinality(Upto(S, order, x)) \in Nat /\ Cardinality(Upto(S, order, x)) # 0
      BY <2>1, <2>2, FS_CardinalityType, FS_EmptySet
    <2> QED
      BY <1>1, <2>2, <2>3
  <1>3. ASSUME NEW x \in S, NEW y \in S, place[x] = place[y] PROVE x = y
    <2>1. <<x, y>> \in order \/ <<y, x>> \in order
      BY DEF Orders
    <2> QED
      BY <1>3, <2>1, LaterHasMore
  <1>4. place \in Injection(S, 1..n)
    BY <1>2, <1>3 DEF Injection, IsInjective
  <1>5. place \in Surjection(S, 1..n)
    BY <1>1, <1>4, FS_Injection
  <1>6. PICK x \in S : place[x] = k
    BY <1>5 DEF Surjection
  <1> QED
    BY <1>3, <1>6

\* A list of S in order: every element at one place, and those that come before
\* it at earlier ones.
LEMMA ArrangedInOrder ==
    ASSUME NEW S, IsFiniteSet(S), NEW order, Orders(order, S)
    PROVE  LET at == Arranged(S, order)  n == Cardinality(S)
           IN  /\ n \in Nat /\ DOMAIN at = 1..n
               /\ \A k \in 1..n : at[k] \in S
               /\ \A k, l \in 1..n : k < l => at[k] # at[l] /\ <<at[k], at[l]>> \in order
  <1> DEFINE at == Arranged(S, order)
             n == Cardinality(S)
  <1>1. n \in Nat /\ DOMAIN at = 1..n
    BY FS_CardinalityType DEF Arranged
  <1>2. ASSUME NEW k \in 1..n PROVE at[k] \in S /\ Cardinality(Upto(S, order, at[k])) = k
    BY <1>2, EveryPlaceIsTaken DEF Arranged
  <1>3. ASSUME NEW k \in 1..n, NEW l \in 1..n, k < l
        PROVE  at[k] # at[l] /\ <<at[k], at[l]>> \in order
    <2>1. at[k] # at[l]
      BY <1>2, <1>3
    <2>2. ~(<<at[l], at[k]>> \in order)
      <3> SUFFICES ASSUME <<at[l], at[k]>> \in order PROVE FALSE
        OBVIOUS
      <3>1. Cardinality(Upto(S, order, at[l])) < Cardinality(Upto(S, order, at[k]))
        BY <1>2, <2>1, LaterHasMore
      <3> QED
        BY <1>1, <1>2, <1>3, <3>1
    <2> QED
      BY <1>2, <2>1, <2>2 DEF Orders
  <1> HIDE DEF at, n
  <1>4. QED
    BY <1>1, <1>2, <1>3 DEF at, n

LEMMA RisingOrders ==
    ASSUME NEW places \in SUBSET Nat
    PROVE  Orders(Rising(places), places)
BY DEF Orders, Rising

LEMMA KeyOrders ==
    ASSUME NEW places \in SUBSET Nat, NEW key, \A i \in places : key[i] \in Nat
    PROVE  Orders(ByKey(places, key), places)
  <1> DEFINE before(i, j) == key[i] < key[j] \/ (key[i] = key[j] /\ i <= j)
  <1>1. \A i, j \in places : <<i, j>> \in ByKey(places, key) <=> before(i, j)
    BY DEF ByKey
  <1>2. \A i, j \in places : before(i, j) \/ before(j, i)
    OBVIOUS
  <1>3. \A i, j \in places : before(i, j) /\ before(j, i) => i = j
    OBVIOUS
  <1>4. \A i, j, k \in places : before(i, j) /\ before(j, k) => before(i, k)
    OBVIOUS
  <1> HIDE DEF before
  <1> QED
    BY <1>1, <1>2, <1>3, <1>4 DEF Orders

\* t is what s has at its places, in an order, that of the k-th being at[k].
Taken(t, s, places, order, at) ==
    /\ Len(t) \in Nat /\ DOMAIN t = 1 .. Len(t) /\ t = [k \in 1 .. Len(t) |-> t[k]]
    /\ \A k \in DOMAIN t : at[k] \in places /\ t[k] = s[at[k]]
    /\ \A k, l \in DOMAIN t : k < l => at[k] # at[l] /\ <<at[k], at[l]>> \in order

\* What is taken from places of a list.
LEMMA TakenInOrder ==
    ASSUME NEW s, NEW n \in Nat, NEW places \in SUBSET (1..n), NEW order, Orders(order, places)
    PROVE  Taken(InOrder(s, places, order), s, places, order, Arranged(places, order))
  <1> DEFINE at == Arranged(places, order)
             m == Cardinality(places)
             t == InOrder(s, places, order)
  <1>1. IsFiniteSet(places)
    <2>1. IsFiniteSet(1..n)
      BY FS_Interval
    <2> QED
      BY <2>1, FS_Subset
  <1>2. /\ m \in Nat /\ DOMAIN at = 1..m
        /\ \A k \in 1..m : at[k] \in places
        /\ \A k, l \in 1..m : k < l => at[k] # at[l] /\ <<at[k], at[l]>> \in order
    BY <1>1, ArrangedInOrder
  <1>3. t = [k \in 1..m |-> s[at[k]]]
    BY <1>2 DEF InOrder
  <1> HIDE DEF at, m, t
  <1>4. Len(t) = m /\ DOMAIN t = 1..m /\ t = [k \in 1..m |-> t[k]] /\ \A k \in 1..m : t[k] = s[at[k]]
    BY <1>2, <1>3
  <1>5. /\ Len(t) \in Nat /\ DOMAIN t = 1 .. Len(t) /\ Len(t) = m /\ t = [k \in 1 .. Len(t) |-> t[k]]
        /\ \A k \in DOMAIN t : at[k] \in places /\ t[k] = s[at[k]]
        /\ \A k, l \in DOMAIN t : k < l => at[k] # at[l] /\ <<at[k], at[l]>> \in order
    BY <1>2, <1>4
  <1>6. Taken(t, s, places, order, at)
    BY <1>5 DEF Taken
  <1> QED
    BY <1>6 DEF at, t

-----------------------------------------------------------------------------
(* The memory.                                                              *)

\* What the audit trail says of a memory that is in the list.
LastDone(m) == IF m.soft_deleted THEN "SoftDeleted" ELSE "Accepted"

IsMemory(m, clock, audit) ==
    /\ {"memory_id", "soft_deleted", "consent_ref", "created_at", "source"} \subseteq DOMAIN m
    /\ m.consent_ref # None
    /\ m.soft_deleted \in BOOLEAN
    /\ m.created_at \in Nat /\ m.created_at < clock
    /\ m.memory_id \in DOMAIN audit /\ audit[m.memory_id] = LastDone(m)

Apart(s) ==
    \A i, j \in DOMAIN s : i # j => s[i].memory_id # s[j].memory_id /\ s[i].created_at # s[j].created_at

\* Every memory in the list is one that was accepted and, by the trail, not
\* forgotten; no two have the same id or the same age.
ListOf(s, clock, audit) ==
    /\ Len(s) \in Nat /\ DOMAIN s = 1 .. Len(s)
    /\ clock \in Nat
    /\ \A i \in DOMAIN s : IsMemory(s[i], clock, audit)
    /\ Apart(s)

ListInv == ListOf(memories, memory_clock, memory_audit)

ProposalInv ==
    \A wp \in write_proposals : "risk_level" \in DOMAIN wp /\ wp.risk_level \in Nat

MemoryInv == ListInv /\ ProposalInv /\ RecallIsAccountable

PickedFrom(t, places) ==
    /\ Len(t) \in Nat /\ DOMAIN t = 1 .. Len(t) /\ t = [k \in 1 .. Len(t) |-> t[k]]
    /\ \A k \in DOMAIN t : \E i \in places : t[k] = memories[i]
    /\ Apart(t)

\* Memories taken from the list are memories, and apart.
LEMMA PickedAreMemories ==
    ASSUME ListInv, NEW places \in SUBSET (DOMAIN memories)
    PROVE  PickedFrom(Picked(memories, places), places)
  <1> DEFINE t == Picked(memories, places)
             order == Rising(places)
             at == Arranged(places, order)
  <1>1. places \in SUBSET (1 .. Len(memories)) /\ places \in SUBSET Nat /\ Len(memories) \in Nat
    BY DEF ListInv, ListOf
  <1>2. Orders(order, places) /\ t = InOrder(memories, places, order)
    BY <1>1, RisingOrders DEF Picked
  <1> HIDE DEF t, order
  <1>3. /\ Len(t) \in Nat /\ DOMAIN t = 1 .. Len(t) /\ t = [k \in 1 .. Len(t) |-> t[k]]
        /\ \A k \in DOMAIN t : at[k] \in places /\ t[k] = memories[at[k]]
        /\ \A k, l \in DOMAIN t : k < l => at[k] # at[l]
    <2>1. Taken(t, memories, places, order, at)
      BY <1>1, <1>2, TakenInOrder
    <2> HIDE DEF at
    <2> QED
      BY <2>1 DEF Taken
  <1> HIDE DEF at
  <1>4. \A k, l \in DOMAIN t : k # l => at[k] # at[l]
    BY <1>3
  <1>5. Apart(t)
    BY <1>3, <1>4 DEF Apart, ListInv, ListOf
  <1>6. PickedFrom(t, places)
    BY <1>3, <1>5 DEF PickedFrom
  <1> QED
    BY <1>6 DEF t

RecalledFor(t, query) ==
    /\ \A k \in DOMAIN t : \E i \in DOMAIN memories :
          t[k] = memories[i] /\ RecallMatches(query, memories[i])
    /\ \A k, l \in DOMAIN t : k < l => t[k].created_at < t[l].created_at

\* A recall: what matches, and the oldest first.
LEMMA RecalledAreMemories ==
    ASSUME ListInv, NEW query
    PROVE  RecalledFor(Recalled(query), query)
  <1> DEFINE t == Recalled(query)
             places == Found(query)
             key == [i \in DOMAIN memories |-> memories[i].created_at]
             order == ByKey(places, key)
             at == Arranged(places, order)
  <1>1. /\ places \in SUBSET (1 .. Len(memories)) /\ places \in SUBSET Nat
        /\ Len(memories) \in Nat
        /\ \A i \in places : i \in DOMAIN memories /\ RecallMatches(query, memories[i])
    BY DEF ListInv, ListOf, Found, FirstOf
  <1>2. \A i \in places : key[i] = memories[i].created_at /\ key[i] \in Nat
    BY <1>1 DEF ListInv, ListOf, IsMemory
  <1>3. Orders(order, places)
    BY <1>1, <1>2, KeyOrders
  <1>4. t = InOrder(memories, places, order)
    BY DEF Recalled
  <1>5. \A i, j \in places : i # j /\ <<i, j>> \in order => memories[i].created_at < memories[j].created_at
    <2> SUFFICES ASSUME NEW i \in places, NEW j \in places, i # j, <<i, j>> \in order
                 PROVE  memories[i].created_at < memories[j].created_at
      OBVIOUS
    <2>1. key[i] < key[j] \/ key[i] = key[j]
      BY DEF ByKey
    <2>2. key[i] # key[j]
      BY <1>1, <1>2 DEF ListInv, ListOf, Apart
    <2> QED
      BY <1>2, <2>1, <2>2
  <1> HIDE DEF t, places, key, order
  <1>6. /\ Len(t) \in Nat /\ DOMAIN t = 1 .. Len(t)
        /\ \A k \in DOMAIN t : at[k] \in places /\ t[k] = memories[at[k]]
        /\ \A k, l \in DOMAIN t : k < l => at[k] # at[l] /\ <<at[k], at[l]>> \in order
    <2>1. Taken(t, memories, places, order, at)
      BY <1>1, <1>3, <1>4, TakenInOrder
    <2> HIDE DEF at
    <2> QED
      BY <2>1 DEF Taken
  <1> HIDE DEF at
  <1>7. \A k \in DOMAIN t : \E i \in DOMAIN memories : t[k] = memories[i] /\ RecallMatches(query, memories[i])
    BY <1>1, <1>6
  <1>8. \A k, l \in DOMAIN t : k < l => t[k].created_at < t[l].created_at
    <2> SUFFICES ASSUME NEW k \in DOMAIN t, NEW l \in DOMAIN t, k < l
                 PROVE  t[k].created_at < t[l].created_at
      OBVIOUS
    <2>1. /\ at[k] \in places /\ at[l] \in places /\ at[k] # at[l] /\ <<at[k], at[l]>> \in order
          /\ t[k] = memories[at[k]] /\ t[l] = memories[at[l]]
      BY <1>6
    <2> QED
      BY <1>5, <2>1
  <1>9. RecalledFor(t, query)
    BY <1>7, <1>8 DEF RecalledFor
  <1> QED
    BY <1>9 DEF t

\* A citation for every memory of a list.
LEMMA CitationsAreAligned ==
    ASSUME NEW s
    PROVE  /\ DOMAIN Citations(s) = DOMAIN s
           /\ \A i \in DOMAIN s : Citations(s)[i] = CitationFor(s[i])
BY DEF Citations

\* The memory that is put at either end of a list it is apart from.
LEMMA JoinedToTheList ==
    ASSUME NEW t, NEW clock, NEW audit, NEW m,
           ListOf(t, clock, audit), t = [k \in 1 .. Len(t) |-> t[k]],
           IsMemory(m, clock, audit),
           \A k \in DOMAIN t : t[k].memory_id # m.memory_id /\ t[k].created_at # m.created_at,
           NEW end, end = Append(t, m), NEW front, front = <<m>> \o t
    PROVE  ListOf(end, clock, audit) /\ ListOf(front, clock, audit)
  <1> DEFINE S == {t[k] : k \in DOMAIN t} \cup {m}
             n == Len(t)
  <1>1. n \in Nat /\ DOMAIN t = 1..n /\ clock \in Nat
    BY DEF ListOf
  <1>2. t \in Seq(S) /\ m \in S
    <2>1. \A k \in 1..n : t[k] \in S
      BY <1>1
    <2>2. m \in S
      OBVIOUS
    <2> HIDE DEF S
    <2>3. t \in [1..n -> S]
      BY <1>1, <2>1
    <2>4. t \in Seq(S)
      BY <1>1, <2>3
    <2> QED
      BY <2>2, <2>4
  <1> HIDE DEF S
  <1>3. /\ Len(end) = n + 1 /\ DOMAIN end = 1..n+1
        /\ end[n + 1] = m /\ \A k \in 1..n : end[k] = t[k]
    BY <1>1, <1>2
  <1>4. /\ Len(front) = n + 1 /\ DOMAIN front = 1..n+1
        /\ front[1] = m /\ \A k \in 2..n+1 : k - 1 \in 1..n /\ front[k] = t[k - 1]
    BY <1>1, <1>2
  <1>5. \A k \in 1..n : IsMemory(t[k], clock, audit)
    BY <1>1 DEF ListOf
  <1>6. \A j, k \in 1..n : j # k => t[j].memory_id # t[k].memory_id /\ t[j].created_at # t[k].created_at
    BY <1>1 DEF ListOf, Apart
  <1>7. \A k \in 1..n : t[k].memory_id # m.memory_id /\ t[k].created_at # m.created_at
    BY <1>1
  <1> HIDE DEF n
  <1>8. Apart(end)
    <2> SUFFICES ASSUME NEW i \in 1..n+1, NEW j \in 1..n+1, i # j
                 PROVE  end[i].memory_id # end[j].memory_id /\ end[i].created_at # end[j].created_at
      BY <1>3 DEF Apart
    <2>1. (i \in 1..n \/ i = n + 1) /\ (j \in 1..n \/ j = n + 1)
      BY <1>1
    <2> QED
      BY <1>3, <1>6, <1>7, <2>1
  <1>9. Apart(front)
    <2> SUFFICES ASSUME NEW i \in 1..n+1, NEW j \in 1..n+1, i # j
                 PROVE  front[i].memory_id # front[j].memory_id /\ front[i].created_at # front[j].created_at
      BY <1>4 DEF Apart
    <2>1. /\ i = 1 \/ (i - 1 \in 1..n /\ front[i] = t[i - 1])
          /\ j = 1 \/ (j - 1 \in 1..n /\ front[j] = t[j - 1])
          /\ i - 1 # j - 1
      BY <1>1, <1>4
    <2> QED
      BY <1>4, <1>6, <1>7, <2>1
  <1>10. \A k \in 1..n+1 : IsMemory(end[k], clock, audit)
    <2> SUFFICES ASSUME NEW k \in 1..n+1 PROVE IsMemory(end[k], clock, audit)
      OBVIOUS
    <2>1. k \in 1..n \/ k = n + 1
      BY <1>1
    <2> QED
      BY <1>3, <1>5, <2>1
  <1>11. \A k \in 1..n+1 : IsMemory(front[k], clock, audit)
    <2> SUFFICES ASSUME NEW k \in 1..n+1 PROVE IsMemory(front[k], clock, audit)
      OBVIOUS
    <2>1. k = 1 \/ (k - 1 \in 1..n /\ front[k] = t[k - 1])
      BY <1>1, <1>4
    <2> QED
      BY <1>4, <1>5, <2>1
  <1>12. ListOf(end, clock, audit)
    BY <1>1, <1>3, <1>8, <1>10 DEF ListOf
  <1>13. ListOf(front, clock, audit)
    BY <1>1, <1>4, <1>9, <1>11 DEF ListOf
  <1> QED
    BY <1>12, <1>13

OthersOf(t, id, clock, audit) ==
    /\ ListOf(t, clock, audit)
    /\ t = [k \in 1 .. Len(t) |-> t[k]]
    /\ \A k \in DOMAIN t : t[k].memory_id # id /\ t[k].created_at < memory_clock

\* The others of a list, as a list.
LEMMA OthersAreMemories ==
    ASSUME ListInv, NEW id,
           NEW clock \in Nat, clock >= memory_clock, NEW audit,
           \A i \in DOMAIN memories :
              memories[i].memory_id # id => /\ memories[i].memory_id \in DOMAIN audit
                                            /\ audit[memories[i].memory_id] = memory_audit[memories[i].memory_id]
    PROVE  OthersOf(Without(id), id, clock, audit)
  <1> DEFINE t == Without(id)
             places == {i \in DOMAIN memories : memories[i].memory_id # id}
  <1>1. places \in SUBSET (DOMAIN memories) /\ t = Picked(memories, places)
    BY DEF Without
  <1>2. /\ Len(t) \in Nat /\ DOMAIN t = 1 .. Len(t) /\ t = [k \in 1 .. Len(t) |-> t[k]]
        /\ \A k \in DOMAIN t : \E i \in places : t[k] = memories[i]
        /\ Apart(t)
    <2> HIDE DEF t, places
    <2>1. PickedFrom(t, places)
      BY <1>1, PickedAreMemories
    <2> QED
      BY <2>1 DEF PickedFrom
  <1>3. ASSUME NEW m, IsMemory(m, memory_clock, memory_audit), m.memory_id # id,
               m.memory_id \in DOMAIN audit, audit[m.memory_id] = memory_audit[m.memory_id]
        PROVE  IsMemory(m, clock, audit) /\ m.created_at < memory_clock
    BY <1>3 DEF IsMemory, ListInv, ListOf
  <1>4. \A i \in places : IsMemory(memories[i], clock, audit) /\ memories[i].memory_id # id
                          /\ memories[i].created_at < memory_clock
    BY <1>3 DEF ListInv, ListOf
  <1> HIDE DEF t, places
  <1>5. \A k \in DOMAIN t : IsMemory(t[k], clock, audit) /\ t[k].memory_id # id
                            /\ t[k].created_at < memory_clock
    BY <1>2, <1>4
  <1>6. ListOf(t, clock, audit)
    BY <1>2, <1>5 DEF ListOf
  <1>7. OthersOf(t, id, clock, audit)
    BY <1>2, <1>5, <1>6 DEF OthersOf
  <1> QED
    BY <1>7 DEF t

\* Acceptance: the new memory takes the place of the one with its id.
LEMMA AcceptKeepsTheList ==
    ASSUME ListInv, NEW wp, NEW atTheFront, AcceptProposal(wp, atTheFront)
    PROVE  ListInv'
  <1> DEFINE m == Crystal(wp)
             id == MemoryId(wp)
             t == Without(id)
  <1>1. /\ memory_clock \in Nat /\ memory_clock' = memory_clock + 1
        /\ memories' = <<m>> \o t \/ memories' = Append(t, m)
        /\ memory_audit' = [i \in DOMAIN memory_audit \cup {id} |->
                               IF i = id THEN "Accepted" ELSE memory_audit[i]]
        /\ wp.consent_ref # None
    BY DEF ListInv, ListOf, AcceptProposal, Audit, CanAccept
  <1>2. /\ {"memory_id", "soft_deleted", "consent_ref", "created_at", "source"} \subseteq DOMAIN m
        /\ m.memory_id = id /\ m.soft_deleted = FALSE /\ m.consent_ref = wp.consent_ref
        /\ m.created_at = memory_clock
    BY DEF Crystal
  <1> HIDE DEF m, id
  <1>3. IsMemory(m, memory_clock', memory_audit')
    <2>1. id \in DOMAIN memory_audit' /\ memory_audit'[id] = "Accepted"
      BY <1>1
    <2>2. m.created_at \in Nat /\ m.created_at < memory_clock'
      BY <1>1, <1>2
    <2>3. LastDone(m) = "Accepted"
      BY <1>2 DEF LastDone
    <2> QED
      BY <1>1, <1>2, <2>1, <2>2, <2>3 DEF IsMemory
  <1>4. \A i \in DOMAIN memories :
           memories[i].memory_id # id => /\ memories[i].memory_id \in DOMAIN memory_audit'
                                         /\ memory_audit'[memories[i].memory_id] = memory_audit[memories[i].memory_id]
    BY <1>1 DEF ListInv, ListOf, IsMemory
  <1>5. /\ ListOf(t, memory_clock', memory_audit')
        /\ t = [k \in 1 .. Len(t) |-> t[k]]
        /\ \A k \in DOMAIN t : t[k].memory_id # id /\ t[k].created_at < memory_clock
    <2>1. memory_clock' \in Nat /\ memory_clock' >= memory_clock
      BY <1>1
    <2>2. OthersOf(t, id, memory_clock', memory_audit')
      BY <1>4, <2>1, OthersAreMemories
    <2> HIDE DEF t
    <2> QED
      BY <2>2 DEF OthersOf
  <1> HIDE DEF t
  <1>6. \A k \in DOMAIN t : t[k].memory_id # m.memory_id /\ t[k].created_at # m.created_at
    <2> SUFFICES ASSUME NEW k \in DOMAIN t
                 PROVE  t[k].memory_id # m.memory_id /\ t[k].created_at # m.created_at
      OBVIOUS
    <2>1. t[k].created_at \in Nat
      BY <1>5 DEF ListOf, IsMemory
    <2> QED
      BY <1>1, <1>2, <1>5, <2>1
  <1>7. ListOf(memories', memory_clock', memory_audit')
    BY <1>1, <1>3, <1>5, <1>6, JoinedToTheList
  <1> QED
    BY <1>7 DEF ListInv

\* What it is to mark one memory as deleted.
Mark(m, id) == [m EXCEPT !.soft_deleted = @ \/ m.memory_id = id]

LEMMA Marked ==
    ASSUME NEW m, NEW clock, NEW audit, NEW id, NEW after,
           IsMemory(m, clock, audit),
           id \in DOMAIN after /\ after[id] = "SoftDeleted",
           \A i \in DOMAIN audit : i # id => i \in DOMAIN after /\ after[i] = audit[i]
    PROVE  /\ IsMemory(Mark(m, id), clock, after)
           /\ Mark(m, id).memory_id = m.memory_id /\ Mark(m, id).created_at = m.created_at
  <1> DEFINE n == Mark(m, id)
  <1>1. m.soft_deleted \in BOOLEAN /\ "soft_deleted" \in DOMAIN m
    BY DEF IsMemory
  <1>2. /\ DOMAIN n = DOMAIN m
        /\ n.memory_id = m.memory_id /\ n.created_at = m.created_at /\ n.consent_ref = m.consent_ref
    BY DEF IsMemory, Mark
  <1>3. n.soft_deleted = (m.soft_deleted \/ m.memory_id = id)
    BY <1>1 DEF Mark
  <1> HIDE DEF n
  <1>4. n.soft_deleted \in BOOLEAN
    BY <1>3
  <1>5. m.memory_id = id => n.soft_deleted = TRUE
    BY <1>3
  <1>6. m.memory_id # id => n.soft_deleted = m.soft_deleted
    BY <1>1, <1>3
  <1>7. m.memory_id \in DOMAIN after /\ after[m.memory_id] = LastDone(n)
    BY <1>5, <1>6 DEF IsMemory, LastDone
  <1>8. IsMemory(n, clock, after)
    BY <1>2, <1>4, <1>7 DEF IsMemory
  <1> QED
    BY <1>2, <1>8 DEF n

\* Forgetting: the memory is marked, or its place is given up.
LEMMA ForgetKeepsTheList ==
    ASSUME ListInv, NEW id, NEW soft_delete \in BOOLEAN, Forget(id, soft_delete)
    PROVE  ListInv'
  <1> DEFINE after == memory_audit'
  <1>1. /\ memory_clock' = memory_clock /\ memory_clock \in Nat
        /\ DOMAIN after = DOMAIN memory_audit \cup {id}
        /\ \A i \in DOMAIN memory_audit \cup {id} : i # id => after[i] = memory_audit[i]
    BY DEF Forget, Audit, ListInv, ListOf
  <1>2. CASE soft_delete = FALSE
    <2>1. memories' = Without(id)
      BY <1>2 DEF Forget
    <2>2. \A i \in DOMAIN memories :
             memories[i].memory_id # id => /\ memories[i].memory_id \in DOMAIN after
                                           /\ after[memories[i].memory_id] = memory_audit[memories[i].memory_id]
      BY <1>1 DEF ListInv, ListOf, IsMemory
    <2>3. OthersOf(Without(id), id, memory_clock, after)
      <3>1. memory_clock >= memory_clock
        BY <1>1
      <3> HIDE DEF after
      <3> QED
        BY <1>1, <2>2, <3>1, OthersAreMemories
    <2> QED
      BY <1>1, <2>1, <2>3 DEF OthersOf, ListInv
  <1>3. CASE soft_delete = TRUE
    <2> DEFINE n == Len(memories)
      <2>1. /\ n \in Nat /\ DOMAIN memories = 1..n
          /\ memories' = [i \in 1..n |-> Mark(memories[i], id)]
          /\ id \in DOMAIN after /\ after[id] = "SoftDeleted"
          /\ \A i \in DOMAIN memory_audit : i # id => i \in DOMAIN after /\ after[i] = memory_audit[i]
      BY <1>3 DEF Forget, Audit, ListInv, ListOf, Mark
    <2>2. ASSUME NEW i \in 1..n
          PROVE  /\ IsMemory(Mark(memories[i], id), memory_clock, after)
                 /\ Mark(memories[i], id).memory_id = memories[i].memory_id
                 /\ Mark(memories[i], id).created_at = memories[i].created_at
      <3>1. IsMemory(memories[i], memory_clock, memory_audit)
        BY <2>1 DEF ListInv, ListOf
      <3> HIDE DEF after
      <3> QED
        BY <2>1, <3>1, Marked
    <2> HIDE DEF n, after
    <2>3. Len(memories') = n /\ DOMAIN memories' = 1..n /\ \A i \in 1..n : memories'[i] = Mark(memories[i], id)
      BY <2>1
    <2>4. Apart(memories)
      BY DEF ListInv, ListOf
    <2>5. Apart(memories')
      <3> SUFFICES ASSUME NEW i \in 1..n, NEW j \in 1..n, i # j
                   PROVE  /\ memories'[i].memory_id # memories'[j].memory_id
                          /\ memories'[i].created_at # memories'[j].created_at
        BY <2>3 DEF Apart
      <3>1. /\ memories[i].memory_id # memories[j].memory_id
            /\ memories[i].created_at # memories[j].created_at
        BY <2>1, <2>4 DEF Apart
      <3> QED
        BY <2>2, <2>3, <3>1
    <2>6. ListOf(memories', memory_clock, after)
      BY <1>1, <2>1, <2>2, <2>3, <2>5 DEF ListOf
    <2> QED
      BY <1>1, <2>6 DEF ListInv, after
  <1> QED
    BY <1>2, <1>3

\* What a recall answers.
LEMMA RecallAnswers ==
    ASSUME MemoryAssumption, ListInv, NEW query \in Queries, Recall(query)
    PROVE  RecallIsAccountable'
  <1> DEFINE answer == memory_answer'
             t == Recalled(query)
  <1>1. /\ answer.kind = "recall" /\ answer.memories = t /\ answer.query = query
        /\ answer.citations = Citations(t) /\ memory_audit' = memory_audit
    BY DEF Recall, RecallOf
  <1>2. RecalledFor(t, query)
    BY RecalledAreMemories
  <1>3. query.include_soft_deleted \in BOOLEAN
    BY DEF MemoryAssumption
  <1> HIDE DEF answer, t
  <1>4. /\ DOMAIN answer.citations = DOMAIN t
        /\ \A i \in DOMAIN t : answer.citations[i] = CitationFor(t[i])
    BY <1>1, CitationsAreAligned
  <1>5. ASSUME NEW i \in DOMAIN t
        PROVE  /\ t[i].consent_ref # None
               /\ memory_audit[t[i].memory_id] \in
                     {"Accepted"} \cup IF query.include_soft_deleted THEN {"SoftDeleted"} ELSE {}
    <2>1. PICK j \in DOMAIN memories : t[i] = memories[j] /\ RecallMatches(query, memories[j])
      BY <1>2 DEF RecalledFor
    <2>2. IsMemory(t[i], memory_clock, memory_audit) /\ (query.include_soft_deleted \/ ~t[i].soft_deleted)
      BY <2>1 DEF ListInv, ListOf, RecallMatches
    <2> QED
      BY <1>3, <2>2 DEF IsMemory, LastDone
  <1>6. \A i, j \in DOMAIN t : i < j => t[i].created_at < t[j].created_at
    BY <1>2 DEF RecalledFor
  <1> QED
    BY <1>1, <1>4, <1>5, <1>6 DEF RecallIsAccountable, answer

\* What a projection answers.
LEMMA ProjectionAnswers ==
    ASSUME ListInv, NEW scope, ProjectWorkingMemory(scope)
    PROVE  RecallIsAccountable'
  <1> DEFINE answer == memory_answer'
             places == {i \in DOMAIN memories : memories[i].scope = scope /\ ~memories[i].soft_deleted}
             t == Picked(memories, places)
  <1>1. /\ answer.kind = "projection" /\ answer.memory_ids = [i \in DOMAIN t |-> t[i].memory_id]
        /\ answer.citations = Citations(t) /\ memory_audit' = memory_audit
    BY DEF ProjectWorkingMemory, ProjectionOf
  <1>2. PickedFrom(t, places)
    <2>1. places \in SUBSET (DOMAIN memories)
      OBVIOUS
    <2> HIDE DEF places
    <2> QED
      BY <2>1, PickedAreMemories
  <1>3. \A i \in places : IsMemory(memories[i], memory_clock, memory_audit) /\ ~memories[i].soft_deleted
    BY DEF ListInv, ListOf
  <1> HIDE DEF answer, t, places
  <1>4. \A i \in DOMAIN t : answer.citations[i] = CitationFor(t[i])
    BY <1>1, CitationsAreAligned
  <1>5. \A i \in DOMAIN t : IsMemory(t[i], memory_clock, memory_audit) /\ ~t[i].soft_deleted
    BY <1>2, <1>3 DEF PickedFrom
  <1>6. \A i \in DOMAIN t : memory_audit[t[i].memory_id] = "Accepted" /\ answer.citations[i].memory_id = t[i].memory_id
    <2> SUFFICES ASSUME NEW i \in DOMAIN t
                 PROVE  /\ memory_audit[t[i].memory_id] = "Accepted"
                        /\ answer.citations[i].memory_id = t[i].memory_id
      OBVIOUS
    <2>1. memory_audit[t[i].memory_id] = LastDone(t[i]) /\ t[i].soft_deleted = FALSE
      BY <1>5 DEF IsMemory
    <2>2. answer.citations[i].memory_id = t[i].memory_id
      <3>1. CitationFor(t[i]).memory_id = t[i].memory_id
        BY DEF CitationFor
      <3> QED
        BY <1>4, <3>1
    <2> QED
      BY <2>1, <2>2 DEF LastDone
  <1>7. DOMAIN answer.memory_ids = DOMAIN t /\ \A i \in DOMAIN t : answer.memory_ids[i] = t[i].memory_id
    BY <1>1
  <1> QED
    BY <1>1, <1>6, <1>7 DEF RecallIsAccountable, answer

LEMMA MemoryStep ==
    ASSUME MemoryAssumption, MemoryInv, MemoryNext
    PROVE  MemoryInv'
  <1>1. ASSUME memory_answer' = NoAnswer PROVE RecallIsAccountable'
    BY <1>1 DEF NoAnswer, RecallIsAccountable, None
  <1>2. ASSUME NEW draft \in MemoryDrafts, ProposeWrite(draft) PROVE MemoryInv'
    <2>1. ListInv'
      BY <1>2 DEF MemoryInv, ListInv, ProposeWrite
    <2>2. ProposalInv'
      BY <1>2 DEF MemoryInv, ProposalInv, ProposeWrite, Proposed, MemoryAssumption
    <2> QED
      BY <1>1, <1>2, <2>1, <2>2 DEF MemoryInv, ProposeWrite
  <1>3. ASSUME NEW wp \in write_proposals, ExamineWrite(wp) PROVE MemoryInv'
    <2>1. ListInv' /\ ProposalInv'
      BY <1>3 DEF MemoryInv, ListInv, ProposalInv, ExamineWrite
    <2>2. memory_answer'.kind = "decision"
      BY <1>3 DEF ExamineWrite
    <2>3. RecallIsAccountable'
      BY <2>2 DEF RecallIsAccountable
    <2> QED
      BY <2>1, <2>3 DEF MemoryInv
  <1>4. ASSUME NEW wp \in write_proposals, NEW ref \in {"consent", "ledger"}, Endorse(wp, ref)
        PROVE MemoryInv'
    <2>1. ListInv'
      BY <1>4 DEF MemoryInv, ListInv, Endorse
    <2>2. PICK endorsed :
             /\ endorsed = [wp EXCEPT !.consent_ref = ref] \/ endorsed = [wp EXCEPT !.ledger_ref = ref]
             /\ write_proposals' = (write_proposals \ {wp}) \cup {endorsed}
      BY <1>4 DEF Endorse
    <2>3. "risk_level" \in DOMAIN wp /\ wp.risk_level \in Nat
      BY DEF MemoryInv, ProposalInv
    <2>4. "risk_level" \in DOMAIN endorsed /\ endorsed.risk_level \in Nat
      BY <2>2, <2>3
    <2>5. ProposalInv'
      BY <2>2, <2>4 DEF MemoryInv, ProposalInv
    <2> QED
      BY <1>1, <1>4, <2>1, <2>5 DEF MemoryInv, Endorse
  <1>5. ASSUME NEW wp \in write_proposals, NEW atTheFront \in BOOLEAN, AcceptProposal(wp, atTheFront)
        PROVE MemoryInv'
    <2>1. ListInv'
      BY <1>5, AcceptKeepsTheList DEF MemoryInv
    <2>2. ProposalInv' /\ memory_answer' = NoAnswer
      BY <1>5 DEF MemoryInv, ProposalInv, AcceptProposal
    <2> QED
      BY <1>1, <2>1, <2>2 DEF MemoryInv
  <1>6. ASSUME NEW query \in Queries, Recall(query) PROVE MemoryInv'
    <2>1. ListInv' /\ ProposalInv'
      BY <1>6 DEF MemoryInv, ListInv, ProposalInv, Recall
    <2> QED
      BY <1>6, <2>1, RecallAnswers DEF MemoryInv
  <1>7. ASSUME NEW scope, ProjectWorkingMemory(scope) PROVE MemoryInv'
    <2>1. ListInv' /\ ProposalInv'
      BY <1>7 DEF MemoryInv, ListInv, ProposalInv, ProjectWorkingMemory
    <2> QED
      BY <1>7, <2>1, ProjectionAnswers DEF MemoryInv
  <1>8. ASSUME NEW id, NEW soft_delete \in BOOLEAN, Forget(id, soft_delete) PROVE MemoryInv'
    <2>1. ListInv'
      BY <1>8, ForgetKeepsTheList DEF MemoryInv
    <2>2. ProposalInv' /\ memory_answer' = NoAnswer
      BY <1>8 DEF MemoryInv, ProposalInv, Forget
    <2> QED
      BY <1>1, <2>1, <2>2 DEF MemoryInv
  <1>9. ASSUME NEW manifest, ReplaceManifest(manifest) PROVE MemoryInv'
    <2>1. ListInv' /\ ProposalInv' /\ memory_answer' = NoAnswer
      BY <1>9 DEF MemoryInv, ListInv, ProposalInv, ReplaceManifest
    <2> QED
      BY <1>1, <2>1 DEF MemoryInv
  <1> QED
    BY <1>2, <1>3, <1>4, <1>5, <1>6, <1>7, <1>8, <1>9 DEF MemoryNext

\* A decision says ready of just what the controller accepts, but for a
\* contamination or a risk.
LEMMA DecisionsAgree ==
    ASSUME ProposalInv
    PROVE  DecisionAgrees
BY DEF ProposalInv, DecisionAgrees, DecideWrite, CanAccept, HighRisk

\* What a recall or a projection hands out has a consent, was accepted and not
\* forgotten since, comes oldest first and is cited at its place; and a write
\* that the decision calls ready is one the controller accepts (moxi-memory).
THEOREM MemoryIsAccounted == Spec => []MemoryIsAccountable
  <1>1. Init => MemoryInv
    <2> SUFFICES ASSUME MemoryInit PROVE MemoryInv
      BY DEF Init
    <2>1. ListInv
      BY DEF MemoryInit, ListInv, ListOf, Apart
    <2>2. ProposalInv /\ RecallIsAccountable
      BY DEF MemoryInit, ProposalInv, RecallIsAccountable, NoAnswer, None
    <2> QED
      BY <2>1, <2>2 DEF MemoryInv
  <1>2. MemoryInv /\ [Next]_controlVars => MemoryInv'
    <2> SUFFICES ASSUME MemoryInv, [Next]_controlVars PROVE MemoryInv'
      OBVIOUS
    <2>1. CASE MemoryNext
      BY <2>1, MemoryStep, MemoryAssumption
    <2>2. CASE UNCHANGED memoryVars
      BY <2>2 DEF memoryVars, MemoryInv, ListInv, ProposalInv, RecallIsAccountable
    <2> QED
      BY <2>1, <2>2 DEF Next, controlVars
  <1>3. MemoryInv => MemoryIsAccountable
    BY DecisionsAgree DEF MemoryInv, MemoryIsAccountable
  <1> QED
    BY <1>1, <1>2, <1>3, PTL DEF Spec

-----------------------------------------------------------------------------
(* The hot path.                                                            *)

\* The budget of a class is one of those there are.
LEMMA BudgetIsOne ==
    ASSUME HotPathAssumption, NEW class
    PROVE  BudgetFor(class) \in Range(HotBudgets)
  <1> DEFINE places == {i \in DOMAIN HotBudgets : HotBudgets[i].slo_class = class}
             own == Picked(HotBudgets, places)
             S == Range(HotBudgets)
  <1>1. HotBudgets \in Seq(S) /\ HotBudgets # << >>
    BY DEF HotPathAssumption
  <1>2. /\ Len(HotBudgets) \in Nat /\ DOMAIN HotBudgets = 1 .. Len(HotBudgets)
        /\ \A i \in DOMAIN HotBudgets : HotBudgets[i] \in S
    <2> HIDE DEF S
    <2> QED
      BY <1>1
  <1>3. /\ Len(own) \in Nat /\ DOMAIN own = 1 .. Len(own) /\ own = [k \in 1 .. Len(own) |-> own[k]]
        /\ \A k \in DOMAIN own : own[k] \in S
    <2> DEFINE at == Arranged(places, Rising(places))
    <2>1. places \in SUBSET (1 .. Len(HotBudgets)) /\ places \in SUBSET Nat
      BY <1>2
    <2>2. Orders(Rising(places), places)
      BY <2>1, RisingOrders
    <2>3. own = InOrder(HotBudgets, places, Rising(places))
      BY DEF Picked
    <2> HIDE DEF own, places, S
    <2>4. Taken(own, HotBudgets, places, Rising(places), at)
      BY <1>2, <2>1, <2>2, <2>3, TakenInOrder
    <2> HIDE DEF at
    <2> QED
      BY <1>2, <2>1, <2>4 DEF Taken
  <1> HIDE DEF own, S
  <1>4. own \in Seq(S)
    <2>1. own \in [1 .. Len(own) -> S]
      BY <1>3
    <2> QED
      BY <1>3, <2>1
  <1>5. own \o HotBudgets \in Seq(S) /\ Len(own \o HotBudgets) = Len(own) + Len(HotBudgets)
    BY <1>1, <1>4
  <1>6. Len(HotBudgets) # 0
    BY <1>1
  <1>7. Head(own \o HotBudgets) \in S
    BY <1>2, <1>3, <1>5, <1>6
  <1> QED
    BY <1>7 DEF BudgetFor, own, S

Classes == {"TrustedExecutionPath", "FiveMsAck", "TenMsRoute", "TaskPath", "FiftyMsCache"}

HotType ==
    /\ samples \in Seq([slo_class : Classes, first_packet : Nat])
    /\ hot_decision # Absent =>
          /\ hot_request \in HotRequests /\ hot_entry \in CacheEntries \cup {Absent}
          /\ CanDecide(hot_request, hot_entry)
          /\ hot_decision = Decided(hot_request, hot_entry)
          /\ degrade_plan \in {Absent, DegradePlan(hot_request, hot_decision)}
          /\ hot_fact \in {Absent, FactOf(hot_decision)}

HotInv == HotType /\ SnapshotIsMeasured

LEMMA DecidedIsBounded ==
    ASSUME HotPathAssumption, NEW asked \in HotRequests, NEW entry
    PROVE  /\ Decided(asked, entry).slo_class \in Classes
           /\ Decided(asked, entry).expected <= Decided(asked, entry).budget
  <1>1. ASSUME NEW kind, NEW verdict, NEW class \in Classes, NEW key, NEW refs
        PROVE  /\ HotDecision(asked, kind, verdict, class, key, refs).slo_class \in Classes
               /\ HotDecision(asked, kind, verdict, class, key, refs).expected
                     <= HotDecision(asked, kind, verdict, class, key, refs).budget
    <2> DEFINE budget == BudgetFor(class)
    <2>1. budget.first_packet \in Nat /\ budget.route \in Nat /\ budget.lookup \in Nat
      BY BudgetIsOne DEF HotPathAssumption
    <2> HIDE DEF budget
    <2>2. ExpectedFirstPacket(kind, budget) <= budget.first_packet
      BY <2>1 DEF ExpectedFirstPacket, Smaller
    <2> QED
      BY <2>2 DEF HotDecision, budget
  <1>2. \E kind, verdict, key, refs : \E class \in Classes :
           Decided(asked, entry) = HotDecision(asked, kind, verdict, class, key, refs)
    <2>1. CASE IsShortcut(asked)
      BY <2>1, Zenon DEF Decided, ShortcutAnswer, Answer, Classes
    <2>2. CASE ~IsShortcut(asked) /\ (entry = Absent \/ entry.safety = "SemanticNeedsReview")
      BY <2>2, Zenon DEF Decided, Uncached, Answer, Classes
    <2>3. CASE ~IsShortcut(asked) /\ ~(entry = Absent \/ entry.safety = "SemanticNeedsReview")
      BY <2>3, Zenon DEF Decided, Classes
    <2> QED
      BY <2>1, <2>2, <2>3
  <1> QED
    BY <1>1, <1>2

\* The answer to a request of high risk, to one that names an unsafe capability,
\* and the one that is a hit.
LEMMA RiskyIsDeferred ==
    ASSUME NEW asked, NEW entry, asked.risk_level >= 2
    PROVE  /\ Decided(asked, entry).kind = "DeferToTrustedExecution"
           /\ Decided(asked, entry).decision = "RequireApproval"
BY DEF Decided, IsShortcut, ShortcutAnswer, Answer, HotDecision

LEMMA UnsafeIsDenied ==
    ASSUME NEW asked, NEW entry, ~(asked.risk_level >= 2), asked.capabilities \cap Unsafe # {}
    PROVE  /\ Decided(asked, entry).kind = "EarlyDeny"
           /\ Decided(asked, entry).decision = "Deny"
  <1>1. IsShortcut(asked) /\ asked.capabilities # {}
    BY DEF IsShortcut
  <1> QED
    BY <1>1 DEF Decided, ShortcutAnswer, Answer, HotDecision

LEMMA HitIsServed ==
    ASSUME NEW asked, NEW entry, CanDecide(asked, entry), Decided(asked, entry).kind \in HitKinds
    PROVE  /\ entry # Absent /\ Decided(asked, entry).selected_cache_key = entry.key
           /\ entry.kind # "Semantic" /\ EntryFits(asked, entry)
  <1>1. CASE IsShortcut(asked)
    BY <1>1 DEF Decided, ShortcutAnswer, Answer, HotDecision, HitKinds
  <1>2. CASE ~IsShortcut(asked) /\ (entry = Absent \/ entry.safety = "SemanticNeedsReview")
    BY <1>2 DEF Decided, Uncached, Answer, HotDecision, HitKinds
  <1>3. CASE ~IsShortcut(asked) /\ entry # Absent /\ entry.safety # "SemanticNeedsReview"
    <2>1. Decided(asked, entry) =
             HotDecision(asked, KindOf(entry), "Allow", "FiftyMsCache", entry.key, entry.evidence_refs)
      BY <1>3 DEF Decided
    <2>2. Decided(asked, entry).kind = KindOf(entry) /\ Decided(asked, entry).selected_cache_key = entry.key
      BY <2>1 DEF HotDecision
    <2>3. entry.kind # "Semantic"
      BY <2>2 DEF KindOf, HitKinds
    <2> QED
      BY <1>3, <2>2, <2>3 DEF CanDecide
  <1> QED
    BY <1>1, <1>2, <1>3

LEMMA HotTypeIsSafe ==
    ASSUME HotPathAssumption, HotType
    PROVE  ShortcutsAreSafe
  <1> SUFFICES ASSUME hot_decision # Absent
               PROVE  /\ hot_decision.expected <= hot_decision.budget
                      /\ hot_request.risk_level >= 2 =>
                            /\ hot_decision.decision = "RequireApproval"
                            /\ degrade_plan # Absent => Last(degrade_plan.actions) = "SwitchToTrustedExecution"
                      /\ hot_request.risk_level < 2 /\ hot_request.capabilities \cap Unsafe # {} =>
                            /\ hot_decision.decision = "Deny"
                            /\ degrade_plan # Absent => degrade_plan.actions = <<"Deny">>
                      /\ hot_fact # Absent /\ hot_fact.cache_hit =>
                            /\ hot_entry # Absent /\ hot_decision.selected_cache_key = hot_entry.key
                            /\ hot_entry.kind # "Semantic" /\ hot_entry.scope = hot_request.scope
                            /\ hot_entry.risk_level <= hot_request.risk_level
    BY DEF ShortcutsAreSafe
  <1>1. /\ hot_request \in HotRequests /\ CanDecide(hot_request, hot_entry)
        /\ hot_decision = Decided(hot_request, hot_entry)
        /\ degrade_plan # Absent => degrade_plan.actions = ActionsFor(hot_decision.kind)
        /\ hot_fact # Absent => hot_fact.cache_hit = (hot_decision.kind \in HitKinds)
        /\ hot_request.risk_level \in Nat
    BY DEF HotType, DegradePlan, FactOf, HotPathAssumption
  <1>2. hot_decision.expected <= hot_decision.budget
    BY <1>1, DecidedIsBounded
  <1>3. ASSUME hot_request.risk_level >= 2
        PROVE  /\ hot_decision.decision = "RequireApproval"
               /\ degrade_plan # Absent => Last(degrade_plan.actions) = "SwitchToTrustedExecution"
    <2>1. hot_decision.kind = "DeferToTrustedExecution" /\ hot_decision.decision = "RequireApproval"
      BY <1>1, <1>3, RiskyIsDeferred
    <2>2. ActionsFor(hot_decision.kind) = <<"ReturnAck", "SwitchToTrustedExecution">>
      BY <2>1 DEF ActionsFor, HitKinds
    <2> DEFINE last == <<"ReturnAck", "SwitchToTrustedExecution">>
    <2>3. Last(last) = "SwitchToTrustedExecution"
      BY DEF Last
    <2>4. ActionsFor(hot_decision.kind) = last
      BY <2>2
    <2> HIDE DEF last
    <2> QED
      BY <1>1, <2>1, <2>3, <2>4
  <1>4. ASSUME hot_request.risk_level < 2, hot_request.capabilities \cap Unsafe # {}
        PROVE  /\ hot_decision.decision = "Deny"
               /\ degrade_plan # Absent => degrade_plan.actions = <<"Deny">>
    <2>1. hot_decision.kind = "EarlyDeny" /\ hot_decision.decision = "Deny"
      BY <1>1, <1>4, UnsafeIsDenied
    <2>2. ActionsFor(hot_decision.kind) = <<"Deny">>
      BY <2>1 DEF ActionsFor, HitKinds
    <2> QED
      BY <1>1, <2>1, <2>2
  <1>5. ASSUME hot_fact # Absent, hot_fact.cache_hit
        PROVE  /\ hot_entry # Absent /\ hot_decision.selected_cache_key = hot_entry.key
               /\ hot_entry.kind # "Semantic" /\ EntryFits(hot_request, hot_entry)
    <2>1. hot_decision.kind \in HitKinds
      BY <1>1, <1>5
    <2> QED
      BY <1>1, <2>1, HitIsServed
  <1> QED
    BY <1>2, <1>3, <1>4, <1>5 DEF EntryFits

\* A percentile of measured latencies in order: its rank times a hundred is at
\* least the share, and that of the rank before is not.
IsRank(rank, n, percent) ==
    /\ rank \in 1..n
    /\ rank * 100 >= percent * n
    /\ \A r \in Nat : r < rank => ~(r * 100 >= percent * n)

LEMMA RankIsLeast ==
    ASSUME NEW n \in Nat \ {0}, NEW percent \in {50, 95, 99}, NEW rank, rank = (n * percent + 99) \div 100
    PROVE  IsRank(rank, n, percent)
  <1>1. CASE percent = 50
    BY <1>1 DEF IsRank
  <1>2. CASE percent = 95
    BY <1>2 DEF IsRank
  <1>3. CASE percent = 99
    BY <1>3 DEF IsRank
  <1> QED
    BY <1>1, <1>2, <1>3

\* p is the least value that the share of the values does not exceed.
IsLeast(values, percent, p) ==
    LET within(v) == {i \in DOMAIN values : values[i] <= v}
        enough == {v \in ToSet(values) : Cardinality(within(v)) * 100 >= percent * Len(values)}
    IN  p \in enough /\ \A v \in enough : p <= v

LEMMA PercentileIsLeast ==
    ASSUME NEW n \in Nat \ {0}, NEW values, DOMAIN values = 1..n, Len(values) = n,
           \A i \in 1..n : values[i] \in Nat,
           \A i, j \in 1..n : i < j => values[i] <= values[j],
           NEW percent \in {50, 95, 99}
    PROVE  IsLeast(values, percent, Percentile(values, percent))
  <1> DEFINE within(v) == {i \in 1..n : values[i] <= v}
             rank == (n * percent + 99) \div 100
             p == values[rank]
  <1>1. /\ rank \in 1..n
        /\ rank * 100 >= percent * n
        /\ \A r \in Nat : r < rank => ~(r * 100 >= percent * n)
    <2>1. rank = (n * percent + 99) \div 100
      OBVIOUS
    <2> HIDE DEF rank
    <2>2. IsRank(rank, n, percent)
      BY <2>1, RankIsLeast
    <2> QED
      BY <2>2 DEF IsRank
  <1>2. Percentile(values, percent) = p
    BY <1>1 DEF Percentile
  <1> HIDE DEF rank
  <1>3. p \in Nat /\ p \in ToSet(values)
    BY <1>1 DEF ToSet
  <1>4. \A v : IsFiniteSet(within(v)) /\ Cardinality(within(v)) \in Nat
    <2> SUFFICES ASSUME NEW v PROVE IsFiniteSet(within(v)) /\ Cardinality(within(v)) \in Nat
      OBVIOUS
    <2>1. IsFiniteSet(1..n) /\ within(v) \in SUBSET (1..n)
      BY FS_Interval
    <2> QED
      BY <2>1, FS_Subset, FS_CardinalityType
  <1>5. Cardinality(within(p)) >= rank
    <2>1. 1..rank \in SUBSET within(p)
      <3> SUFFICES ASSUME NEW i \in 1..rank PROVE i \in within(p)
        OBVIOUS
      <3>1. i \in 1..n /\ (i < rank \/ i = rank)
        BY <1>1
      <3> QED
        BY <1>1, <1>3, <3>1
    <2>2. Cardinality(1..rank) = rank
      BY <1>1, FS_Interval
    <2>3. Cardinality(1..rank) <= Cardinality(within(p))
      <3> HIDE DEF within
      <3>1. IsFiniteSet(within(p))
        BY <1>4
      <3> QED
        BY <2>1, <3>1, FS_Subset
    <2> HIDE DEF within
    <2>4. Cardinality(within(p)) \in Nat
      BY <1>4
    <2> QED
      BY <1>1, <2>2, <2>3, <2>4
  <1>6. Cardinality(within(p)) * 100 >= percent * n
    <2> DEFINE c == Cardinality(within(p))
               need == percent * n
    <2> HIDE DEF within
    <2>1. c \in Nat /\ c >= rank
      BY <1>4, <1>5
    <2>3. rank \in Nat /\ need \in Nat /\ rank * 100 >= need
      <3>1. percent \in Nat
        OBVIOUS
      <3> QED
        BY <1>1, <3>1
    <2> HIDE DEF c, need
    <2>2. c * 100 >= need
      BY <2>1, <2>3
    <2> QED
      BY <2>2 DEF c, need
  <1>7. ASSUME NEW v \in ToSet(values), Cardinality(within(v)) * 100 >= percent * n
        PROVE  p <= v
    <2>1. v \in Nat
      BY DEF ToSet
    <2> SUFFICES ASSUME v < p PROVE FALSE
      BY <1>3, <2>1
    <2> DEFINE q == rank - 1
    <2>6. q \in Nat /\ q < rank
      BY <1>1
    <2>2. within(v) \in SUBSET (1 .. q)
      <3> SUFFICES ASSUME NEW i \in within(v) PROVE i \in 1 .. q
        OBVIOUS
      <3>1. i \in 1..n /\ values[i] <= v /\ values[i] \in Nat
        OBVIOUS
      <3>2. ~(rank < i) /\ i # rank
        BY <1>1, <1>3, <2>1, <3>1
      <3> QED
        BY <1>1, <3>1, <3>2
    <2> HIDE DEF within, q
    <2>3. IsFiniteSet(1 .. q) /\ Cardinality(1 .. q) = q
      BY <2>6, FS_Interval
    <2>4. Cardinality(within(v)) <= q
      <3>1. Cardinality(within(v)) <= Cardinality(1 .. q)
        BY <2>2, <2>3, FS_Subset
      <3> QED
        BY <2>3, <3>1
    <2>5. Cardinality(within(v)) \in Nat /\ Cardinality(within(v)) < rank
      BY <1>1, <1>4, <2>4, <2>6
    <2> QED
      BY <1>1, <1>7, <2>5
  <1>8. IsLeast(values, percent, p)
    BY <1>3, <1>6, <1>7 DEF IsLeast
  <1> HIDE DEF p
  <1> QED
    BY <1>2, <1>8

\* The latencies of a class: numbers in ascending order.
LEMMA MeasuredAscends ==
    ASSUME HotType, NEW class
    PROVE  LET t == Measured(class)
           IN  /\ Len(t) \in Nat /\ DOMAIN t = 1 .. Len(t) /\ t = [k \in 1 .. Len(t) |-> t[k]]
               /\ \A i \in 1 .. Len(t) : t[i] \in Nat
               /\ \A i, j \in 1 .. Len(t) : i < j => t[i] <= t[j]
  <1> DEFINE t == Measured(class)
             own == {i \in DOMAIN samples : samples[i].slo_class = class}
             times == [i \in DOMAIN samples |-> samples[i].first_packet]
             order == ByKey(own, times)
             at == Arranged(own, order)
  <1>1. Len(samples) \in Nat /\ DOMAIN samples = 1 .. Len(samples)
        /\ \A i \in DOMAIN samples : samples[i].first_packet \in Nat
    <2> DEFINE R == [slo_class : Classes, first_packet : Nat]
    <2>1. samples \in Seq(R) /\ \A r \in R : r.first_packet \in Nat
      BY DEF HotType
    <2> HIDE DEF R
    <2> QED
      BY <2>1
  <1>2. own \in SUBSET (1 .. Len(samples)) /\ own \in SUBSET Nat /\ \A i \in own : times[i] \in Nat
    BY <1>1
  <1>3. t = InOrder(times, own, order)
    BY DEF Measured
  <1>4. \A i, j \in own : <<i, j>> \in order => times[i] <= times[j]
    BY <1>2 DEF ByKey
  <1> HIDE DEF t, own, times
  <1>5. Orders(order, own)
    BY <1>2, KeyOrders
  <1> HIDE DEF order
  <1>6. Taken(t, times, own, order, at)
    BY <1>1, <1>2, <1>3, <1>5, TakenInOrder
  <1> HIDE DEF at
  <1>7. /\ Len(t) \in Nat /\ DOMAIN t = 1 .. Len(t) /\ t = [k \in 1 .. Len(t) |-> t[k]]
        /\ \A i \in DOMAIN t : at[i] \in own /\ t[i] = times[at[i]]
        /\ \A i, j \in DOMAIN t : i < j => <<at[i], at[j]>> \in order
    BY <1>6 DEF Taken
  <1>8. \A i, j \in DOMAIN t : i < j => t[i] <= t[j]
    BY <1>4, <1>7
  <1>9. \A i \in DOMAIN t : t[i] \in Nat
    BY <1>2, <1>7
  <1> QED
    BY <1>7, <1>8, <1>9 DEF t

LEMMA SnapshotStep ==
    ASSUME HotType, NEW class, TakeSnapshot(class)
    PROVE  SnapshotIsMeasured'
  <1> DEFINE t == Measured(class)
  <1>1. /\ Len(t) \in Nat /\ DOMAIN t = 1 .. Len(t) /\ t = [k \in 1 .. Len(t) |-> t[k]]
        /\ \A i \in 1 .. Len(t) : t[i] \in Nat
        /\ \A i, j \in 1 .. Len(t) : i < j => t[i] <= t[j]
    BY MeasuredAscends
  <1>2. /\ t # << >>
        /\ snapshot'.values = t /\ DOMAIN snapshot'.at = {50, 95, 99}
        /\ \A percent \in {50, 95, 99} : snapshot'.at[percent] = Percentile(t, percent)
    BY DEF TakeSnapshot, SnapshotOf
  <1> HIDE DEF t
  <1>3. Len(t) # 0
    <2>1. t \in Seq(Nat)
      BY <1>1
    <2> QED
      BY <1>2, <2>1
  <1>4. \A percent \in {50, 95, 99} : IsLeast(t, percent, Percentile(t, percent))
    <2>1. Len(t) \in Nat \ {0}
      BY <1>1, <1>3
    <2> QED
      BY <1>1, <2>1, PercentileIsLeast
  <1>5. \A percent \in DOMAIN snapshot'.at : IsLeast(snapshot'.values, percent, snapshot'.at[percent])
    BY <1>2, <1>4
  <1> QED
    BY <1>5 DEF SnapshotIsMeasured, IsLeast

LEMMA SnapshotStays ==
    ASSUME SnapshotIsMeasured, UNCHANGED snapshot
    PROVE  SnapshotIsMeasured'
  <1>1. snapshot # Absent => \A percent \in DOMAIN snapshot.at : IsLeast(snapshot.values, percent, snapshot.at[percent])
    BY DEF SnapshotIsMeasured, IsLeast
  <1>2. snapshot' # Absent =>
           \A percent \in DOMAIN snapshot'.at : IsLeast(snapshot'.values, percent, snapshot'.at[percent])
    BY <1>1
  <1> QED
    BY <1>2 DEF SnapshotIsMeasured, IsLeast

LEMMA HotPathStep ==
    ASSUME HotPathAssumption, HotInv, HotPathNext
    PROVE  HotInv'
  <1>1. ASSUME NEW asked \in HotRequests, NEW entry \in CacheEntries \cup {Absent}, DecideHot(asked, entry)
        PROVE  HotInv'
    <2>1. HotType'
      BY <1>1 DEF HotInv, HotType, DecideHot
    <2>2. SnapshotIsMeasured'
      BY <1>1, SnapshotStays DEF HotInv, DecideHot
    <2> QED
      BY <2>1, <2>2 DEF HotInv
  <1>2. CASE Degrade
    <2>1. HotType'
      BY <1>2 DEF HotInv, HotType, Degrade
    <2>2. SnapshotIsMeasured'
      BY <1>2, SnapshotStays DEF HotInv, Degrade
    <2> QED
      BY <2>1, <2>2 DEF HotInv
  <1>3. ASSUME NEW first_packet \in Latencies, Measure(first_packet) PROVE HotInv'
    <2> DEFINE R == [slo_class : Classes, first_packet : Nat]
               s == [slo_class |-> hot_decision.slo_class, first_packet |-> first_packet]
    <2>1. hot_decision.slo_class \in Classes /\ first_packet \in Nat
      BY <1>3, DecidedIsBounded DEF HotInv, HotType, Measure, HotPathAssumption
    <2>2. s \in R /\ samples \in Seq(R) /\ samples' = Append(samples, s)
      BY <1>3, <2>1 DEF HotInv, HotType, Measure
    <2> HIDE DEF R, s
    <2>3. samples' \in Seq(R)
      BY <2>2
    <2>4. HotType'
      BY <1>3, <2>3 DEF HotInv, HotType, Measure, R
    <2>5. SnapshotIsMeasured'
      BY <1>3, SnapshotStays DEF HotInv, Measure
    <2> QED
      BY <2>4, <2>5 DEF HotInv
  <1>4. ASSUME NEW class, TakeSnapshot(class) PROVE HotInv'
    <2>1. HotType'
      BY <1>4 DEF HotInv, HotType, TakeSnapshot
    <2>2. SnapshotIsMeasured'
      BY <1>4, SnapshotStep DEF HotInv
    <2> QED
      BY <2>1, <2>2 DEF HotInv
  <1> QED
    BY <1>1, <1>2, <1>3, <1>4 DEF HotPathNext

\* The first packet never decides what it should not, is promised within its
\* budget, and its percentiles are the least latencies that cover their share
\* (moxi-hotpath), for every set of budgets, requests and cache entries.
THEOREM HotPathHolds == Spec => []HotPathIsBounded
  <1>1. Init => HotInv
    BY DEF Init, HotPathInit, HotInv, HotType, SnapshotIsMeasured
  <1>2. HotInv /\ [Next]_controlVars => HotInv'
    <2> SUFFICES ASSUME HotInv, [Next]_controlVars PROVE HotInv'
      OBVIOUS
    <2>1. CASE HotPathNext
      BY <2>1, HotPathStep, HotPathAssumption
    <2>2. CASE UNCHANGED hotVars
      <3>1. HotType'
        BY <2>2 DEF hotVars, HotInv, HotType
      <3>2. SnapshotIsMeasured'
        BY <2>2, SnapshotStays DEF hotVars, HotInv
      <3> QED
        BY <3>1, <3>2 DEF HotInv
    <2> QED
      BY <2>1, <2>2 DEF Next, controlVars
  <1>3. HotInv => HotPathIsBounded
    BY HotTypeIsSafe, HotPathAssumption DEF HotInv, HotPathIsBounded
  <1> QED
    BY <1>1, <1>2, <1>3, PTL DEF Spec

-----------------------------------------------------------------------------
(* Numbers and lists.                                                       *)

HasPlace(S, order, k) == \E x \in S : Cardinality(Upto(S, order, x)) = k

LEMMA PlaceIsTaken ==
    ASSUME NEW S, IsFiniteSet(S), NEW order, Orders(order, S), NEW k \in 1 .. Cardinality(S)
    PROVE  HasPlace(S, order, k)
BY EveryPlaceIsTaken DEF HasPlace

\* A finite set of numbers has a least and a greatest one; Min and Max are they.
LEMMA HasLeast ==
    ASSUME NEW T \in SUBSET Nat, IsFiniteSet(T), T # {}
    PROVE  \E x \in T : \A y \in T : x <= y
  <1> DEFINE order == Rising(T)
  <1>1. Orders(order, T)
    BY RisingOrders
  <1>2. Cardinality(T) \in Nat /\ Cardinality(T) # 0
    BY FS_CardinalityType, FS_EmptySet
  <1>3. 1 \in 1 .. Cardinality(T)
    BY <1>2
  <1>4. \A x, y \in T : <<x, y>> \in order <=> x <= y
    BY DEF Rising
  <1> HIDE DEF order
  <1>5. PICK x \in T : Cardinality(Upto(T, order, x)) = 1
    BY <1>1, <1>3, PlaceIsTaken DEF HasPlace
  <1>6. ASSUME NEW y \in T, ~(x <= y) PROVE FALSE
    <2>1. <<y, x>> \in order /\ y # x
      BY <1>4, <1>6
    <2>2. Cardinality(Upto(T, order, y)) \in Nat /\ Cardinality(Upto(T, order, y)) < 1
      BY <1>1, <1>5, <2>1, LaterHasMore
    <2>3. Upto(T, order, y) \in SUBSET T /\ y \in Upto(T, order, y)
      BY <1>4 DEF Upto
    <2>4. IsFiniteSet(Upto(T, order, y))
      BY <2>3, FS_Subset
    <2>5. Cardinality(Upto(T, order, y)) # 0
      BY <2>3, <2>4, FS_EmptySet
    <2> QED
      BY <2>2, <2>5
  <1> QED
    BY <1>6

LEMMA HasGreatest ==
    ASSUME NEW T \in SUBSET Nat, IsFiniteSet(T), T # {}
    PROVE  \E x \in T : \A y \in T : y <= x
  <1> DEFINE order == Rising(T)
             n == Cardinality(T)
  <1>1. Orders(order, T)
    BY RisingOrders
  <1>2. n \in Nat /\ n # 0
    BY FS_CardinalityType, FS_EmptySet
  <1>3. n \in 1..n
    BY <1>2
  <1>4. \A x, y \in T : <<x, y>> \in order <=> x <= y
    BY DEF Rising
  <1> HIDE DEF order
  <1>5. PICK x \in T : Cardinality(Upto(T, order, x)) = n
    <2> HIDE DEF n
    <2>1. n \in 1 .. Cardinality(T)
      BY <1>3 DEF n
    <2>2. HasPlace(T, order, n)
      BY <1>1, <2>1, PlaceIsTaken
    <2> QED
      BY <2>2 DEF HasPlace
  <1>6. Upto(T, order, x) \in SUBSET T
    BY DEF Upto
  <1>7. Upto(T, order, x) = T
    BY <1>5, <1>6, FS_Subset
  <1> QED
    BY <1>4, <1>7 DEF Upto

\* The extremes the model takes of a set of places.
LEMMA MinIsLeast ==
    ASSUME NEW n \in Nat, NEW T \in SUBSET (1..n), T # {}
    PROVE  Min(T) \in T /\ \A y \in T : Min(T) <= y
  <1>1. IsFiniteSet(T)
    <2>1. IsFiniteSet(1..n)
      BY FS_Interval
    <2> QED
      BY <2>1, FS_Subset
  <1>2. \E x \in T : \A y \in T : x <= y
    BY <1>1, HasLeast
  <1> QED
    BY <1>2 DEF Min

LEMMA MaxIsGreatest ==
    ASSUME NEW n \in Nat, NEW T \in SUBSET (1..n), T # {}
    PROVE  Max(T) \in T /\ \A y \in T : Max(T) >= y
  <1>1. IsFiniteSet(T)
    <2>1. IsFiniteSet(1..n)
      BY FS_Interval
    <2> QED
      BY <2>1, FS_Subset
  <1>2. \E x \in T : \A y \in T : y <= x
    BY <1>1, HasGreatest
  <1>3. \E x \in T : \A y \in T : x >= y
    BY <1>2
  <1> QED
    BY <1>3 DEF Max

IsGreater(m, a, b) == (m = a \/ m = b) /\ m >= a /\ m >= b

LEMMA MaxOfTwo ==
    ASSUME NEW a \in Int, NEW b \in Int
    PROVE  IsGreater(Max({a, b}), a, b)
  <1>1. \E x \in {a, b} : \A y \in {a, b} : x >= y
    <2>1. CASE a >= b
      BY <2>1
    <2>2. CASE b >= a
      BY <2>2
    <2> QED
      BY <2>1, <2>2
  <1> QED
    BY <1>1 DEF Max, IsGreater

\* What holds of 0 and of the next number holds of all up to n.
LEMMA UpToN ==
    ASSUME NEW n \in Nat, NEW T, 0 \in T, \A k \in 0..n : k \in T /\ k < n => k + 1 \in T
    PROVE  \A k \in 0..n : k \in T
  <1> DEFINE bad == (0..n) \ T
  <1> SUFFICES ASSUME bad # {} PROVE FALSE
    OBVIOUS
  <1>1. bad \in SUBSET Nat /\ bad \in SUBSET (0..n)
    OBVIOUS
  <1>2. IsFiniteSet(bad)
    <2>1. IsFiniteSet(0..n)
      BY FS_Interval
    <2> QED
      BY <1>1, <2>1, FS_Subset
  <1>3. PICK x \in bad : \A y \in bad : x <= y
    <2> HIDE DEF bad
    <2> QED
      BY <1>1, <1>2, HasLeast
  <1>4. x \in Nat /\ x # 0 /\ x <= n
    BY <1>3
  <1>5. x - 1 \in 0..n /\ x - 1 < n /\ ~(x <= x - 1)
    BY <1>4
  <1>6. x - 1 \in T
    BY <1>3, <1>5
  <1>7. (x - 1) + 1 \in T
    BY <1>5, <1>6
  <1> QED
    BY <1>3, <1>4, <1>7

\* What is picked from a list.
LEMMA PickedIsList ==
    ASSUME NEW S, NEW s \in Seq(S), NEW places \in SUBSET (DOMAIN s)
    PROVE  /\ Picked(s, places) \in Seq({s[i] : i \in places})
           /\ \A i \in places : \E k \in DOMAIN Picked(s, places) : Picked(s, places)[k] = s[i]
  <1> DEFINE t == Picked(s, places)
             order == Rising(places)
             at == Arranged(places, order)
             R == {s[i] : i \in places}
  <1>1. places \in SUBSET (1 .. Len(s)) /\ places \in SUBSET Nat /\ Len(s) \in Nat
    OBVIOUS
  <1>2. Orders(order, places) /\ t = InOrder(s, places, order)
    BY <1>1, RisingOrders DEF Picked
  <1>3. \A i \in places : s[i] \in R
    OBVIOUS
  <1> HIDE DEF t, order, R
  <1>4. Taken(t, s, places, order, at)
    BY <1>1, <1>2, TakenInOrder
  <1>5. IsFiniteSet(places)
    BY <1>1, FS_Interval, FS_Subset
  <1>6. DOMAIN t = DOMAIN at
    BY <1>2 DEF InOrder
  <1>7. DOMAIN at = 1 .. Cardinality(places)
    BY DEF Arranged
  <1>8. ASSUME NEW i \in places PROVE \E k \in DOMAIN t : at[k] = i
    <2> DEFINE k == Cardinality(Upto(places, order, i))
    <2>1. Upto(places, order, i) \in SUBSET places /\ i \in Upto(places, order, i)
      BY <1>2 DEF Upto, Orders
    <2>2. IsFiniteSet(Upto(places, order, i)) /\ k <= Cardinality(places)
      BY <1>5, <2>1, FS_Subset
    <2>3. k \in Nat /\ k # 0 /\ Cardinality(places) \in Nat
      BY <1>5, <2>1, <2>2, FS_CardinalityType, FS_EmptySet
    <2>4. k \in 1 .. Cardinality(places)
      BY <2>2, <2>3
    <2>5. at[k] = CHOOSE x \in places : Cardinality(Upto(places, order, x)) = k
      BY <2>4 DEF Arranged
    <2> HIDE DEF k
    <2>6. \A x, y \in places : Cardinality(Upto(places, order, x)) = k /\ Cardinality(Upto(places, order, y)) = k => x = y
      BY <1>2, <1>5, <2>4, EveryPlaceIsTaken
    <2>7. at[k] = i
      BY <2>5, <2>6 DEF k
    <2> QED
      BY <1>6, <1>7, <2>4, <2>7
  <1> HIDE DEF at
  <1>9. t \in Seq(R)
    <2>1. \A k \in DOMAIN t : t[k] \in R
      BY <1>3, <1>4 DEF Taken
    <2>2. t \in [1 .. Len(t) -> R] /\ Len(t) \in Nat
      BY <1>4, <2>1 DEF Taken
    <2> QED
      BY <2>2
  <1>10. \A i \in places : \E k \in DOMAIN t : t[k] = s[i]
    BY <1>4, <1>8 DEF Taken
  <1> QED
    BY <1>9, <1>10 DEF t, R

-----------------------------------------------------------------------------
(* Planning: the order of a task graph.                                     *)

FreeIn(p) == {i \in DOMAIN p.left : p.left[i].depends_on \subseteq {t.id : t \in ToSet(p.done)}}

Place(p) ==
    IF FreeIn(p) = {} THEN p
    ELSE [done |-> Append(p.done, p.left[Min(FreeIn(p))]), left |-> RemoveAt(p.left, Min(FreeIn(p)))]

Unplaced(tasks) == [done |-> << >>, left |-> tasks]

Places(f, tasks, n) ==
    f = [k \in 0..n |-> IF k = 0 THEN Unplaced(tasks) ELSE Place(f[k - 1])]

LEMMA PlacesExist ==
    ASSUME NEW tasks, NEW n \in Nat
    PROVE  \E f : Places(f, tasks, n)
  <1> DEFINE T == {m \in 0..n : \E f : Places(f, tasks, m)}
  <1>1. 0 \in T
    <2> DEFINE f == [k \in 0..0 |-> Unplaced(tasks)]
    <2>1. Places(f, tasks, 0)
      BY DEF Places
    <2> QED
      BY <2>1
  <1>2. ASSUME NEW m \in 0..n, m \in T, m < n PROVE m + 1 \in T
    <2>1. PICK f : Places(f, tasks, m)
      BY <1>2
    <2> DEFINE g == [k \in 0..(m + 1) |-> IF k = m + 1 THEN Place(f[m]) ELSE f[k]]
    <2>2. \A k \in 0..m : f[k] = IF k = 0 THEN Unplaced(tasks) ELSE Place(f[k - 1])
      BY <2>1 DEF Places
    <2>3. ASSUME NEW k \in 0..(m + 1) PROVE g[k] = IF k = 0 THEN Unplaced(tasks) ELSE Place(g[k - 1])
      <3>1. CASE k = m + 1
        <4>1. k - 1 = m /\ m \in 0..(m + 1) /\ m # m + 1 /\ k # 0
          BY <3>1
        <4> QED
          BY <3>1, <4>1
      <3>2. CASE k = 0
        <4>1. 0 \in 0..m /\ 0 # m + 1
          OBVIOUS
        <4> QED
          BY <2>2, <3>2, <4>1
      <3>3. CASE k # m + 1 /\ k # 0
        <4>1. k \in 0..m /\ k - 1 \in 0..(m + 1) /\ k - 1 # m + 1
          BY <3>3
        <4> QED
          BY <2>2, <3>3, <4>1
      <3> QED
        BY <3>1, <3>2, <3>3
    <2>4. g = [k \in 0..(m + 1) |-> g[k]]
      OBVIOUS
    <2> HIDE DEF g
    <2>5. Places(g, tasks, m + 1)
      BY <2>3, <2>4 DEF Places
    <2>6. m + 1 \in 0..n
      BY <1>2
    <2> QED
      BY <2>5, <2>6
  <1> HIDE DEF T
  <1>3. n \in T
    BY <1>1, <1>2, UpToN
  <1> QED
    BY <1>3 DEF T

LEMMA OrderedPlaces ==
    ASSUME NEW tasks, Len(tasks) \in Nat
    PROVE  \E f : Places(f, tasks, Len(tasks)) /\ Ordered(tasks) = f[Len(tasks)]
  <1> DEFINE n == Len(tasks)
             place == CHOOSE f : Places(f, tasks, n)
  <1>1. Places(place, tasks, n)
    BY PlacesExist
  <1>2. Ordered(tasks) = place[n]
    BY DEF Ordered, Places, Place, FreeIn, Unplaced
  <1> QED
    BY <1>1, <1>2

\* What is placed and what is left are the tasks, and what is placed has its
\* dependencies before it.
Placed(p, S, n) ==
    /\ p.done \in Seq(S) /\ p.left \in Seq(S)
    /\ Len(p.done) + Len(p.left) = n
    /\ \A i \in DOMAIN p.done : p.done[i].depends_on \subseteq {p.done[j].id : j \in 1 .. i - 1}

LEMMA PlaceKeeps ==
    ASSUME NEW p, NEW S, NEW n \in Nat, Placed(p, S, n)
    PROVE  Placed(Place(p), S, n)
  <1>1. CASE FreeIn(p) = {}
    BY <1>1 DEF Place
  <1>2. CASE FreeIn(p) # {}
    <2> DEFINE m == Min(FreeIn(p))
               done == p.done
               left == p.left
               x == left[m]
               more == Append(done, x)
               rest == RemoveAt(left, m)
    <2>1. done \in Seq(S) /\ left \in Seq(S) /\ Len(done) + Len(left) = n
          /\ Len(done) \in Nat /\ Len(left) \in Nat
          /\ DOMAIN done = 1 .. Len(done) /\ DOMAIN left = 1 .. Len(left)
      <3>1. done \in Seq(S) /\ left \in Seq(S) /\ Len(done) + Len(left) = n
        BY DEF Placed
      <3> HIDE DEF done, left
      <3> QED
        BY <3>1
    <2>2. m \in FreeIn(p)
      <3>1. FreeIn(p) \in SUBSET (1 .. Len(left))
        BY <2>1 DEF FreeIn
      <3> QED
        BY <1>2, <2>1, <3>1, MinIsLeast
    <2>3. m \in 1 .. Len(left) /\ x.depends_on \subseteq {t.id : t \in ToSet(done)}
      BY <2>1, <2>2 DEF FreeIn
    <2>4. Place(p) = [done |-> more, left |-> rest]
      BY <1>2 DEF Place
    <2> HIDE DEF m, done, left
    <2>5. x \in S
      BY <2>1, <2>3
    <2>6. rest \in Seq(S) /\ Len(rest) = Len(left) - 1
      <3> DEFINE l == Len(left)
                 a == SubSeq(left, 1, m - 1)
                 b == SubSeq(left, m + 1, l)
      <3>1. a \in Seq(S) /\ Len(a) = m - 1
        BY <2>1, <2>3
      <3>2. b \in Seq(S) /\ Len(b) = l - m
        <4>1. l \in Nat /\ m \in 1 .. l /\ DOMAIN left = 1 .. l /\ left \in Seq(S)
          BY <2>1, <2>3
        <4> HIDE DEF l
        <4>2. \A i \in (m + 1) .. l : left[i] \in S
          BY <4>1
        <4> QED
          BY <4>1, <4>2
      <3>3. rest = a \o b
        BY DEF RemoveAt
      <3>4. l \in Nat /\ m \in 1 .. l
        BY <2>1, <2>3
      <3> HIDE DEF a, b, rest, l
      <3>5. rest \in Seq(S) /\ Len(rest) = Len(a) + Len(b)
        <4>1. a \in Seq(S) /\ b \in Seq(S)
          BY <3>1, <3>2
        <4>2. a \o b \in Seq(S) /\ Len(a \o b) = Len(a) + Len(b)
          BY <4>1
        <4> QED
          BY <3>3, <4>2
      <3>6. Len(rest) = l - 1
        BY <3>1, <3>2, <3>4, <3>5
      <3> QED
        BY <3>5, <3>6 DEF l
    <2> HIDE DEF rest, x
    <2>7. /\ more \in Seq(S) /\ Len(more) = Len(done) + 1 /\ DOMAIN more = 1 .. Len(done) + 1
          /\ more[Len(done) + 1] = x
          /\ \A i \in 1 .. Len(done) : more[i] = done[i]
      BY <2>1, <2>5
    <2> HIDE DEF more
    <2>8. ASSUME NEW i \in DOMAIN more PROVE more[i].depends_on \subseteq {more[j].id : j \in 1 .. i - 1}
      <3>1. CASE i = Len(done) + 1
        <4>1. ToSet(done) = {more[j] : j \in 1 .. i - 1}
          BY <2>1, <2>7, <3>1 DEF ToSet
        <4> QED
          BY <2>3, <2>7, <3>1, <4>1
      <3>2. CASE i \in 1 .. Len(done)
        <4>1. done[i].depends_on \subseteq {done[j].id : j \in 1 .. i - 1}
          BY <2>1, <3>2 DEF Placed, done
        <4>2. \A j \in 1 .. i - 1 : more[j] = done[j]
          BY <2>1, <2>7, <3>2
        <4> QED
          BY <2>7, <3>2, <4>1, <4>2
      <3> QED
        BY <2>1, <2>7, <3>1, <3>2
    <2>9. Len(more) + Len(rest) = n
      <3>1. Len(done) \in Nat /\ Len(left) \in Nat /\ Len(done) + Len(left) = n
        BY <2>1
      <3>2. Len(more) = Len(done) + 1 /\ Len(rest) = Len(left) - 1
        BY <2>6, <2>7
      <3> QED
        BY <3>1, <3>2
    <2>10. Place(p).done = more /\ Place(p).left = rest
      BY <2>4
    <2> DEFINE q == Place(p)
    <2> HIDE DEF q
    <2>11. q.done = more /\ q.left = rest
      BY <2>10 DEF q
    <2>12. \A i \in DOMAIN q.done : q.done[i].depends_on \subseteq {q.done[j].id : j \in 1 .. i - 1}
      BY <2>8, <2>11
    <2>13. q.done \in Seq(S) /\ q.left \in Seq(S) /\ Len(q.done) + Len(q.left) = n
      BY <2>6, <2>7, <2>9, <2>11
    <2>14. Placed(q, S, n)
      BY <2>12, <2>13 DEF Placed
    <2> QED
      BY <2>14 DEF q
  <1> QED
    BY <1>1, <1>2

\* Tasks in an order: the same tasks, and each after what it depends on.
LEMMA OrderedIsPlaced ==
    ASSUME NEW S, NEW tasks \in Seq(S)
    PROVE  Placed(Ordered(tasks), S, Len(tasks))
  <1> DEFINE n == Len(tasks)
  <1>1. n \in Nat
    OBVIOUS
  <1>2. PICK f : Places(f, tasks, n) /\ Ordered(tasks) = f[n]
    BY <1>1, OrderedPlaces
  <1> DEFINE T == {k \in 0..n : Placed(f[k], S, n)}
  <1>3. f[0] = Unplaced(tasks) /\ \A k \in 1..n : f[k] = Place(f[k - 1])
    BY <1>1, <1>2 DEF Places
  <1>4. 0 \in T
    <2>1. Placed(Unplaced(tasks), S, n)
      BY DEF Placed, Unplaced
    <2> QED
      BY <1>1, <1>3, <2>1
  <1>5. ASSUME NEW k \in 0..n, k \in T, k < n PROVE k + 1 \in T
    <2>1. k + 1 \in 1..n /\ (k + 1) - 1 = k /\ k + 1 \in 0..n
      BY <1>1, <1>5
    <2>2. f[k + 1] = Place(f[k])
      BY <1>3, <2>1
    <2>3. Placed(f[k], S, n)
      BY <1>5
    <2> QED
      BY <1>1, <2>1, <2>2, <2>3, PlaceKeeps
  <1> HIDE DEF T, n
  <1>6. \A k \in 0..n : k \in T /\ k < n => k + 1 \in T
    BY <1>5
  <1>7. \A k \in 0..n : k \in T
    BY <1>1, <1>4, <1>6, UpToN
  <1>8. n \in T
    BY <1>1, <1>7
  <1> QED
    BY <1>2, <1>8 DEF T, n

-----------------------------------------------------------------------------
(* Planning: texts.                                                         *)

\* A text without the blanks around it.
TrimmedFrom(t, text, S) ==
    /\ t \in Seq(S)
    /\ ToSet(t) \subseteq ToSet(text)
    /\ \A w \in ToSet(text) : w = Blank \/ w \in ToSet(t)
    /\ t # << >> => t[1] # Blank /\ t[Len(t)] # Blank

LEMMA TrimKeeps ==
    ASSUME NEW S, NEW text \in Seq(S)
    PROVE  TrimmedFrom(Trim(text), text, S)
  <1> DEFINE kept == {i \in DOMAIN text : text[i] # Blank}
             n == Len(text)
  <1>1. n \in Nat /\ DOMAIN text = 1..n /\ \A i \in 1..n : text[i] \in S
    OBVIOUS
  <1>2. CASE kept = {}
    <2>1. Trim(text) = << >>
      BY <1>2 DEF Trim
    <2>2. \A w \in ToSet(text) : w = Blank
      BY <1>2 DEF ToSet
    <2> QED
      BY <2>1, <2>2 DEF TrimmedFrom, ToSet
  <1>3. CASE kept # {}
    <2> DEFINE a == Min(kept)
               b == Max(kept)
               t == SubSeq(text, a, b)
    <2>1. Trim(text) = t
      BY <1>3 DEF Trim
    <2>2. kept \in SUBSET (1..n)
      BY <1>1
    <2>3. a \in kept /\ \A y \in kept : a <= y
      BY <1>1, <1>3, <2>2, MinIsLeast
    <2>4. b \in kept /\ \A y \in kept : b >= y
      BY <1>1, <1>3, <2>2, MaxIsGreatest
    <2>5. a \in 1..n /\ b \in 1..n /\ a <= b /\ text[a] # Blank /\ text[b] # Blank
      BY <1>1, <2>3, <2>4
    <2>6. \A i \in 1..n : text[i] # Blank => a <= i /\ i <= b
      BY <1>1, <2>3, <2>4
    <2> HIDE DEF a, b, n, kept
    <2>7. /\ t \in Seq(S) /\ Len(t) = b - a + 1 /\ DOMAIN t = 1 .. b - a + 1
          /\ \A i \in 1 .. b - a + 1 : t[i] = text[a + i - 1]
      BY <1>1, <2>5
    <2> HIDE DEF t
    <2>8. ToSet(t) \subseteq ToSet(text)
      <3>1. ASSUME NEW i \in 1 .. b - a + 1 PROVE a + i - 1 \in 1..n
        BY <1>1, <2>5
      <3> QED
        BY <1>1, <2>7, <3>1 DEF ToSet
    <2>9. ASSUME NEW i \in 1..n, text[i] # Blank PROVE text[i] \in ToSet(t)
      <3>1. i - a + 1 \in 1 .. b - a + 1 /\ a + (i - a + 1) - 1 = i
        BY <1>1, <2>5, <2>6, <2>9
      <3> QED
        BY <2>7, <3>1 DEF ToSet
    <2>10. t[1] # Blank /\ t[Len(t)] # Blank
      <3>1. 1 \in 1 .. b - a + 1 /\ a + 1 - 1 = a /\ b - a + 1 \in 1 .. b - a + 1 /\ a + (b - a + 1) - 1 = b
        BY <1>1, <2>5
      <3>2. t[1] = text[a] /\ t[b - a + 1] = text[b]
        BY <2>7, <3>1
      <3> QED
        BY <2>5, <2>7, <3>2
    <2>11. \A w \in ToSet(text) : w = Blank \/ w \in ToSet(t)
      BY <1>1, <2>9 DEF ToSet
    <2>12. TrimmedFrom(t, text, S)
      BY <2>7, <2>8, <2>10, <2>11 DEF TrimmedFrom
    <2> QED
      BY <2>1, <2>12
  <1> QED
    BY <1>2, <1>3

LEMMA TrimTwice ==
    ASSUME NEW S, NEW text \in Seq(S)
    PROVE  Trim(Trim(text)) = Trim(text)
  <1> DEFINE t == Trim(text)
             kept == {i \in DOMAIN t : t[i] # Blank}
             n == Len(t)
  <1>1. TrimmedFrom(t, text, S)
    BY TrimKeeps
  <1> HIDE DEF t
  <1>2. t \in Seq(S) /\ (t # << >> => t[1] # Blank /\ t[Len(t)] # Blank)
    BY <1>1 DEF TrimmedFrom
  <1>3. n \in Nat /\ DOMAIN t = 1..n
    BY <1>2
  <1>4. CASE t = << >>
    <2>1. kept = {}
      BY <1>4
    <2> QED
      BY <1>4, <2>1 DEF Trim, t
  <1>5. CASE t # << >>
    <2>1. n # 0
      BY <1>2, <1>5
    <2>2. 1 \in kept /\ n \in kept
      BY <1>2, <1>3, <1>5, <2>1
    <2>3. kept \in SUBSET (1..n) /\ kept # {}
      BY <1>3, <2>2
    <2>4. Min(kept) \in kept /\ \A y \in kept : Min(kept) <= y
      BY <1>3, <2>3, MinIsLeast
    <2>5. Max(kept) \in kept /\ \A y \in kept : Max(kept) >= y
      BY <1>3, <2>3, MaxIsGreatest
    <2>6. Min(kept) = 1 /\ Max(kept) = n
      <3> DEFINE a == Min(kept)
                 b == Max(kept)
      <3>1. a \in 1..n /\ a <= 1 /\ b \in 1..n /\ b >= n
        BY <2>2, <2>3, <2>4, <2>5
      <3> HIDE DEF a, b, n
      <3>2. a = 1 /\ b = n
        BY <1>3, <3>1
      <3> QED
        BY <3>2 DEF a, b
    <2>7. Trim(t) = SubSeq(t, 1, n)
      BY <2>3, <2>6 DEF Trim
    <2>8. SubSeq(t, 1, n) = t
      BY <1>2
    <2> QED
      BY <2>7, <2>8 DEF t
  <1> QED
    BY <1>4, <1>5

LEMMA DistinctKeeps ==
    ASSUME NEW S, NEW s \in Seq(S)
    PROVE  Distinct(s) \in Seq(S) /\ ToSet(Distinct(s)) = ToSet(s)
  <1> DEFINE places == {i \in DOMAIN s : \A j \in 1 .. i - 1 : s[j] # s[i]}
             d == Picked(s, places)
  <1>1. Len(s) \in Nat /\ DOMAIN s = 1 .. Len(s) /\ places \in SUBSET (DOMAIN s)
    OBVIOUS
  <1>2. Distinct(s) = d
    BY DEF Distinct
  <1>3. ASSUME NEW i \in DOMAIN s PROVE \E m \in places : s[m] = s[i]
    <2> DEFINE T == {j \in DOMAIN s : s[j] = s[i]}
    <2>1. T \in SUBSET Nat /\ T \in SUBSET (1 .. Len(s)) /\ T # {}
      BY <1>1
    <2>2. IsFiniteSet(1 .. Len(s))
      BY <1>1, FS_Interval
    <2>3. IsFiniteSet(T)
      BY <2>1, <2>2, FS_Subset
    <2> HIDE DEF T
    <2>4. PICK m \in T : \A y \in T : m <= y
      BY <2>1, <2>3, HasLeast
    <2>5. ASSUME NEW j \in 1 .. m - 1, s[j] = s[m] PROVE FALSE
      <3>1. j \in DOMAIN s /\ j < m
        BY <1>1, <2>1, <2>4
      <3>2. j \in T
        BY <2>4, <2>5, <3>1 DEF T
      <3> QED
        BY <1>1, <2>1, <2>4, <3>1, <3>2
    <2>6. m \in places /\ s[m] = s[i]
      BY <2>4, <2>5 DEF T
    <2> QED
      BY <2>6
  <1> HIDE DEF places, d
  <1>4. /\ d \in Seq({s[i] : i \in places})
        /\ \A i \in places : \E k \in DOMAIN d : d[k] = s[i]
    BY <1>1, PickedIsList DEF d
  <1>5. {s[i] : i \in places} \in SUBSET S /\ {s[i] : i \in places} \in SUBSET ToSet(s)
    BY <1>1 DEF ToSet
  <1>6. d \in Seq(S)
    BY <1>4, <1>5
  <1>7. ToSet(d) \subseteq ToSet(s)
    <2>1. \A k \in DOMAIN d : d[k] \in {s[i] : i \in places}
      BY <1>4
    <2> QED
      BY <1>5, <2>1 DEF ToSet
  <1>8. ToSet(s) \subseteq ToSet(d)
    BY <1>3, <1>4 DEF ToSet
  <1> QED
    BY <1>2, <1>6, <1>7, <1>8

LEMMA TrimmedKeeps ==
    ASSUME NEW texts \in Seq(Texts)
    PROVE  Trimmed(texts) \in Seq(Texts) /\ ToSet(Trimmed(texts)) = {Trim(texts[i]) : i \in DOMAIN texts}
  <1> DEFINE s == [i \in DOMAIN texts |-> Trim(texts[i])]
  <1>1. \A i \in DOMAIN texts : Trim(texts[i]) \in Texts
    <2>1. SUFFICES ASSUME NEW i \in DOMAIN texts PROVE Trim(texts[i]) \in Texts
      OBVIOUS
    <2>2. texts[i] \in Seq(STRING)
      BY DEF Texts
    <2> QED
      BY <2>2, TrimKeeps DEF TrimmedFrom, Texts
  <1>2. s \in Seq(Texts)
    <2>1. Len(texts) \in Nat /\ DOMAIN texts = 1 .. Len(texts)
      OBVIOUS
    <2>2. s \in [1 .. Len(texts) -> Texts]
      BY <1>1, <2>1
    <2> QED
      BY <2>1, <2>2
  <1>3. ToSet(s) = {Trim(texts[i]) : i \in DOMAIN texts}
    BY DEF ToSet
  <1> HIDE DEF s
  <1>4. Distinct(s) \in Seq(Texts) /\ ToSet(Distinct(s)) = ToSet(s)
    BY <1>2, DistinctKeeps
  <1> QED
    BY <1>3, <1>4 DEF Trimmed, s

LEMMA TrimmedTwice ==
    ASSUME NEW texts \in Seq(Texts)
    PROVE  ToSet(Trimmed(Trimmed(texts))) = ToSet(Trimmed(texts))
  <1> DEFINE s == Trimmed(texts)
  <1>1. s \in Seq(Texts) /\ ToSet(s) = {Trim(texts[i]) : i \in DOMAIN texts}
    BY TrimmedKeeps
  <1> HIDE DEF s
  <1>2. ToSet(Trimmed(s)) = {Trim(s[k]) : k \in DOMAIN s}
    BY <1>1, TrimmedKeeps
  <1>3. ASSUME NEW k \in DOMAIN s PROVE Trim(s[k]) = s[k]
    <2>1. s[k] \in {Trim(texts[i]) : i \in DOMAIN texts}
      BY <1>1 DEF ToSet
    <2>2. PICK i \in DOMAIN texts : s[k] = Trim(texts[i])
      BY <2>1
    <2>3. texts[i] \in Seq(STRING)
      BY DEF Texts
    <2>4. Trim(Trim(texts[i])) = Trim(texts[i])
      BY <2>3, TrimTwice
    <2> QED
      BY <2>2, <2>4
  <1>4. ToSet(Trimmed(s)) = ToSet(s)
    BY <1>2, <1>3 DEF ToSet
  <1> QED
    BY <1>4 DEF s

LEMMA NoneTrimmed ==
    ASSUME NEW texts \in Seq(Texts)
    PROVE  Trimmed(texts) = << >> <=> texts = << >>
  <1>1. Trimmed(texts) \in Seq(Texts) /\ ToSet(Trimmed(texts)) = {Trim(texts[i]) : i \in DOMAIN texts}
    BY TrimmedKeeps
  <1> DEFINE s == Trimmed(texts)
  <1> HIDE DEF s
  <1>2. s = << >> <=> ToSet(s) = {}
    BY <1>1 DEF ToSet, s
  <1>3. texts = << >> <=> {Trim(texts[i]) : i \in DOMAIN texts} = {}
    <2>1. Len(texts) \in Nat /\ DOMAIN texts = 1 .. Len(texts) /\ (texts = << >> <=> Len(texts) = 0)
      OBVIOUS
    <2>2. Len(texts) # 0 <=> 1 \in DOMAIN texts
      BY <2>1
    <2>3. Len(texts) = 0 <=> DOMAIN texts = {}
      BY <2>1
    <2> QED
      BY <2>1, <2>2, <2>3
  <1> QED
    BY <1>1, <1>2, <1>3 DEF s

\* Words that are no secrets.
Plain == STRING \ SecretWords

LEMMA JoinedAreWords ==
    ASSUME NEW S, NEW words \in Seq(S), Blank \in S
    PROVE  Join(words) \in Seq(S)
  <1> DEFINE n == Len(words)
             m == 2 * n - 1
             t == Join(words)
  <1>1. n \in Nat /\ \A i \in 1..n : words[i] \in S
    OBVIOUS
  <1> HIDE DEF n
  <1>2. ASSUME NEW i \in 1..m, i % 2 = 1 PROVE (i + 1) \div 2 \in 1..n
    BY <1>1, <1>2
  <1>3. t = [i \in 1..m |-> IF i % 2 = 1 THEN words[(i + 1) \div 2] ELSE Blank]
    BY DEF Join, n
  <1>4. t \in [1..m -> S]
    BY <1>1, <1>2, <1>3
  <1> HIDE DEF t
  <1>5. CASE n = 0
    <2>1. 1..m = 1..0
      BY <1>5
    <2>2. t \in [1..0 -> S]
      BY <1>4, <2>1
    <2> HIDE DEF m
    <2>3. t \in Seq(S)
      BY <2>2
    <2> QED
      BY <2>3 DEF t
  <1>6. CASE n # 0
    <2>1. m \in Nat
      BY <1>1, <1>6
    <2> QED
      BY <1>4, <2>1 DEF t
  <1> QED
    BY <1>5, <1>6

\* What the gateway hands on of a goal has no secret in it.
LEMMA RedactHides ==
    ASSUME NEW goal \in Texts
    PROVE  Redact(goal) \in Seq(Plain)
  <1> DEFINE places == {i \in DOMAIN goal : goal[i] # Blank}
             words == Picked(goal, places)
             t == [i \in DOMAIN words |-> IF words[i] \in SecretWords THEN Redacted ELSE words[i]]
  <1>1. goal \in Seq(STRING) /\ places \in SUBSET (DOMAIN goal)
    BY DEF Texts
  <1>2. Redact(goal) = Join(t)
    BY DEF Redact
  <1> HIDE DEF places, words
  <1>3. words \in Seq({goal[i] : i \in places})
    BY <1>1, PickedIsList DEF words
  <1>4. {goal[i] : i \in places} \in SUBSET STRING
    BY <1>1
  <1>5. Len(words) \in Nat /\ DOMAIN words = 1 .. Len(words) /\ \A i \in DOMAIN words : words[i] \in STRING
    BY <1>3, <1>4
  <1>6. Redacted \in Plain /\ Blank \in Plain
    BY IntakeAssumption DEF Plain
  <1>7. t \in [1 .. Len(words) -> Plain]
    BY <1>5, <1>6 DEF Plain
  <1>8. t \in Seq(Plain)
    BY <1>5, <1>7
  <1> HIDE DEF t
  <1> QED
    BY <1>2, <1>6, <1>8, JoinedAreWords

LEMMA PathIsOfText ==
    ASSUME NEW S, NEW text \in Seq(S), HasWord(PathWords, text)
    PROVE  PathIn(text) \in S
  <1> DEFINE T == {k \in DOMAIN text : text[k] \in PathWords}
  <1>1. Len(text) \in Nat /\ DOMAIN text = 1 .. Len(text) /\ T \in SUBSET (1 .. Len(text))
    OBVIOUS
  <1>2. T # {}
    BY DEF HasWord, ToSet
  <1>3. PathIn(text) = text[Min(T)]
    BY DEF PathIn
  <1> HIDE DEF T
  <1>4. Min(T) \in T
    BY <1>1, <1>2, MinIsLeast
  <1> DEFINE k == Min(T)
  <1> HIDE DEF k
  <1>5. k \in 1 .. Len(text)
    BY <1>1, <1>4 DEF k
  <1>6. text[k] \in S
    BY <1>5
  <1> QED
    BY <1>3, <1>6 DEF k

LEMMA TargetIsOfTexts ==
    ASSUME NEW W, Plain \subseteq W, NEW texts \in Seq(Seq(W))
    PROVE  Target(texts) \in W
  <1> DEFINE T == {i \in DOMAIN texts : HasWord(PathWords, texts[i])}
  <1>1. Len(texts) \in Nat /\ DOMAIN texts = 1 .. Len(texts) /\ T \in SUBSET (1 .. Len(texts))
    OBVIOUS
  <1>2. Target(texts) = IF T = {} THEN Readme ELSE PathIn(texts[Min(T)])
    BY DEF Target
  <1>3. Readme \in W
    BY PlannerAssumption DEF Plain
  <1>4. CASE T # {}
    <2> DEFINE i == Min(T)
    <2> HIDE DEF T
    <2>1. i \in T
      BY <1>1, <1>4, MinIsLeast
    <2> HIDE DEF i
    <2>2. texts[i] \in Seq(W) /\ HasWord(PathWords, texts[i])
      BY <1>1, <2>1 DEF T
    <2>3. PathIn(texts[i]) \in W
      BY <2>2, PathIsOfText
    <2> QED
      BY <1>2, <1>4, <2>3 DEF i
  <1> QED
    BY <1>2, <1>3, <1>4

-----------------------------------------------------------------------------
(* Planning: the intent and the plan.                                       *)

Asked(draft, c) ==
    IF draft.requested_capabilities = << >> THEN c = FileRead
    ELSE Contains(Trimmed(draft.requested_capabilities), c)

RiskKept(draft, r) ==
    /\ r \in Nat /\ r >= draft.risk_level
    /\ HasWord(SecretWords, draft.goal) => r >= Medium

IsDraft(draft) ==
    draft.goal \in Texts /\ draft.requested_capabilities \in Seq(Texts) /\ draft.risk_level \in RiskLevels

\* What the compiler makes of an admitted draft: the capabilities are those of
\* the draft, the risk is no less, and the secrets are gone.
IntentWithin(intent, draft) ==
    /\ intent.goal \in Seq(Plain)
    /\ RiskKept(draft, intent.risk_level)
    /\ \A c : Contains(intent.requested_capabilities, c) => Asked(draft, c)
    /\ intent.requested_capabilities # << >> =>
          Contains(intent.requested_capabilities, intent.requested_capabilities[1])
    /\ draft.requested_capabilities # << >> => intent.requested_capabilities # << >>

LEMMA ContainsToSet ==
    ASSUME NEW S, NEW s \in Seq(S), NEW c
    PROVE  Contains(s, c) <=> c \in ToSet(s)
BY DEF Contains, ToSet

LEMMA RiskGrows ==
    ASSUME NEW draft, draft.risk_level \in Nat, NEW r, NEW x \in Nat, RiskKept(draft, r)
    PROVE  RiskKept(draft, Max({r, x}))
  <1> DEFINE m == Max({r, x})
  <1>1. r \in Nat /\ (HasWord(SecretWords, draft.goal) => r >= Medium) /\ r >= draft.risk_level
    BY DEF RiskKept
  <1>2. IsGreater(m, r, x)
    BY <1>1, MaxOfTwo
  <1> HIDE DEF m
  <1>3. m \in Nat
    BY <1>1, <1>2 DEF IsGreater
  <1> QED
    BY <1>1, <1>2, <1>3 DEF RiskKept, Medium, IsGreater, m

LEMMA CapabilitiesWithin ==
    ASSUME NEW draft, IsDraft(draft), NEW entry,
           entry.requested_capabilities = Trimmed(draft.requested_capabilities)
    PROVE  LET capabilities == CompiledCapabilities(entry)
           IN  /\ \A c : Contains(capabilities, c) => Asked(draft, c)
               /\ capabilities # << >> => Contains(capabilities, capabilities[1])
               /\ draft.requested_capabilities # << >> => capabilities # << >>
  <1> DEFINE asked == draft.requested_capabilities
             named == Trimmed(asked)
             again == Trimmed(named)
             capabilities == CompiledCapabilities(entry)
  <1>1. asked \in Seq(Texts)
    BY DEF IsDraft
  <1>2. named \in Seq(Texts) /\ (named = << >> <=> asked = << >>)
    BY <1>1, TrimmedKeeps, NoneTrimmed
  <1>3. again \in Seq(Texts) /\ (again = << >> <=> named = << >>) /\ ToSet(again) = ToSet(named)
    <2>1. ToSet(again) = ToSet(named)
      BY <1>1, TrimmedTwice
    <2> HIDE DEF named
    <2> QED
      BY <1>2, <2>1, TrimmedKeeps, NoneTrimmed
  <1>4. (capabilities = <<FileRead>> /\ asked = << >>) \/ capabilities = again
    BY <1>2 DEF CompiledCapabilities
  <1>5. \A c : Asked(draft, c) <=> IF asked = << >> THEN c = FileRead ELSE Contains(named, c)
    BY DEF Asked
  <1> HIDE DEF asked, named, again, capabilities
  <1>6. CASE capabilities = <<FileRead>> /\ asked = << >>
    <2>1. Len(capabilities) = 1 /\ capabilities[1] = FileRead
      BY <1>6
    <2>2. \A c : Contains(capabilities, c) <=> c = FileRead
      BY <2>1 DEF Contains
    <2> QED
      BY <1>5, <1>6, <2>1, <2>2 DEF capabilities, asked
  <1>7. CASE capabilities = again
    <2>1. \A c : Contains(again, c) <=> Contains(named, c)
      BY <1>2, <1>3, ContainsToSet
    <2>2. again # << >> => Contains(again, again[1])
      BY <1>3 DEF Contains
    <2>3. again = << >> => ~\E c : Contains(again, c)
      BY DEF Contains
    <2>4. \A c : Contains(again, c) => Asked(draft, c)
      BY <1>2, <1>3, <1>5, <2>1, <2>3
    <2> QED
      BY <1>2, <1>3, <1>7, <2>2, <2>4 DEF capabilities, asked
  <1> QED
    BY <1>4, <1>6, <1>7

LEMMA IntentOfDraft ==
    ASSUME NEW draft, IsDraft(draft)
    PROVE  IntentWithin(Compiled(Trusted(Normalized(draft))), draft)
  <1> DEFINE plain == Normalized(draft)
             entry == Trusted(plain)
             intent == Compiled(entry)
  <1>1. /\ plain.goal = Trim(draft.goal) /\ plain.risk_level = draft.risk_level
        /\ plain.requested_capabilities = Trimmed(draft.requested_capabilities)
    BY DEF Normalized
  <1>2. /\ entry.goal = Redact(plain.goal)
        /\ entry.risk_level = IF HasWord(SecretWords, plain.goal) THEN Max({plain.risk_level, Medium})
                              ELSE plain.risk_level
        /\ entry.requested_capabilities = plain.requested_capabilities
    BY DEF Trusted, Normalized
  <1>3. /\ intent.goal = Trim(entry.goal)
        /\ intent.risk_level = Max({entry.risk_level, InferredRisk(entry.goal, CompiledCapabilities(entry))})
        /\ intent.requested_capabilities = CompiledCapabilities(entry)
    BY DEF Compiled
  <1> HIDE DEF plain, entry, intent
  <1>4. TrimmedFrom(plain.goal, draft.goal, STRING)
    BY <1>1, TrimKeeps DEF IsDraft, Texts
  <1>5. intent.goal \in Seq(Plain)
    <2>1. plain.goal \in Texts
      BY <1>4 DEF TrimmedFrom, Texts
    <2>2. entry.goal \in Seq(Plain)
      BY <1>2, <2>1, RedactHides
    <2> QED
      BY <1>3, <2>2, TrimKeeps DEF TrimmedFrom
  <1>6. HasWord(SecretWords, draft.goal) => HasWord(SecretWords, plain.goal)
    BY <1>4, IntakeAssumption DEF TrimmedFrom, HasWord
  <1>7. draft.risk_level \in Nat
    BY DEF IsDraft, RiskLevels
  <1>8. RiskKept(draft, entry.risk_level)
    <2>1. CASE HasWord(SecretWords, plain.goal)
      <3> DEFINE m == Max({plain.risk_level, Medium})
      <3>1. IsGreater(m, draft.risk_level, Medium)
        BY <1>1, <1>7, MaxOfTwo DEF Medium
      <3>2. entry.risk_level = m
        BY <1>2, <2>1
      <3> HIDE DEF m
      <3> QED
        BY <1>7, <3>1, <3>2 DEF RiskKept, Medium, IsGreater
    <2>2. CASE ~HasWord(SecretWords, plain.goal)
      BY <1>1, <1>2, <1>6, <1>7, <2>2 DEF RiskKept
    <2> QED
      BY <2>1, <2>2
  <1>9. RiskKept(draft, intent.risk_level)
    <2>1. InferredRisk(entry.goal, CompiledCapabilities(entry)) \in Nat
      BY DEF InferredRisk, Low, Medium, High
    <2> QED
      BY <1>3, <1>7, <1>8, <2>1, RiskGrows
  <1>10. /\ \A c : Contains(intent.requested_capabilities, c) => Asked(draft, c)
         /\ intent.requested_capabilities # << >> =>
               Contains(intent.requested_capabilities, intent.requested_capabilities[1])
         /\ draft.requested_capabilities # << >> => intent.requested_capabilities # << >>
    <2>1. entry.requested_capabilities = Trimmed(draft.requested_capabilities)
      BY <1>1, <1>2
    <2> QED
      BY <1>3, <2>1, CapabilitiesWithin
  <1>11. IntentWithin(intent, draft)
    BY <1>5, <1>9, <1>10 DEF IntentWithin
  <1> QED
    BY <1>11 DEF intent, entry, plain

\* A step for a capability that was asked for, with a target among the words W:
\* all words, or the plain ones when skills and models know no secrets.
StepWithin(W, step, draft) ==
    /\ Asked(draft, step.capability_id)
    /\ RiskKept(draft, step.risk_level)
    /\ step.target \in W

StepsWithin(W, steps, draft) ==
    steps \in Seq(ToSet(steps)) /\ \A i \in DOMAIN steps : StepWithin(W, steps[i], draft)

PlanWithin(W, plan, draft) == plan # NoPlan => StepsWithin(W, plan.steps, draft)

WordySkill(W, skill) == skill.entrypoint_ref \in Seq(W) /\ skill.risk_level \in Nat

LEMMA ListOfValues ==
    ASSUME NEW n \in Nat, NEW f, f = [i \in 1..n |-> f[i]]
    PROVE  f \in Seq(ToSet(f)) /\ DOMAIN f = 1..n /\ Len(f) = n
  <1>1. DOMAIN f = 1..n /\ \A i \in 1..n : f[i] \in ToSet(f)
    BY DEF ToSet
  <1>2. f \in [1..n -> ToSet(f)]
    BY <1>1
  <1>3. f \in Seq(ToSet(f))
    BY <1>2
  <1> QED
    BY <1>1, <1>3

LEMMA NewStepWithin ==
    ASSUME NEW W, Plain \subseteq W, NEW draft, NEW i, NEW skill, NEW c, Asked(draft, c), NEW r, RiskKept(draft, r),
           NEW texts \in Seq(Seq(W))
    PROVE  StepWithin(W, NewStep(i, skill, c, Target(texts), r), draft)
BY TargetIsOfTexts DEF StepWithin, NewStep

LEMMA FromTheIntent ==
    ASSUME NEW W, Plain \subseteq W, NEW draft, NEW intent, IntentWithin(intent, draft)
    PROVE  PlanWithin(W, DeterministicPlan(intent), draft)
  <1> DEFINE asked == intent.requested_capabilities
             c == IF asked = << >> THEN FileRead ELSE asked[1]
             step == NewStep(1, NoSkill, c, Target(<<intent.goal>>), intent.risk_level)
  <1>1. Asked(draft, c)
    BY DEF IntentWithin, Asked
  <1>2. <<intent.goal>> \in Seq(Seq(W)) /\ RiskKept(draft, intent.risk_level)
    BY DEF IntentWithin
  <1>3. DeterministicPlan(intent) = NoPlan \/ DeterministicPlan(intent).steps = <<step>>
    BY DEF DeterministicPlan, Plan
  <1> HIDE DEF c
  <1>4. StepWithin(W, step, draft)
    BY <1>1, <1>2, NewStepWithin
  <1> HIDE DEF step
  <1>5. <<step>> = [i \in 1..1 |-> <<step>>[i]]
    OBVIOUS
  <1>6. StepsWithin(W, <<step>>, draft)
    BY <1>4, <1>5, ListOfValues DEF StepsWithin
  <1> QED
    BY <1>3, <1>6 DEF PlanWithin

LEMMA FromSkills ==
    ASSUME NEW W, Plain \subseteq W, NEW draft, draft.risk_level \in Nat, NEW intent, IntentWithin(intent, draft),
           NEW S, \A skill \in S : WordySkill(W, skill), NEW skills \in Seq(S)
    PROVE  PlanWithin(W, PlannerPlan(intent, skills), draft)
  <1> DEFINE places == {i \in DOMAIN skills : Matches(skills[i], intent)}
             matching == Picked(skills, places)
             chosen == {skills[i] : i \in places}
             n == Len(matching)
             steps == SkillPlan(intent, matching).steps
  <1>1. PlannerPlan(intent, skills) = IF matching = << >> THEN DeterministicPlan(intent)
                                      ELSE SkillPlan(intent, matching)
    BY DEF PlannerPlan, MatchingSkills
  <1>2. matching \in Seq(chosen)
    BY PickedIsList
  <1>3. \A skill \in chosen : WordySkill(W, skill) /\ Contains(intent.requested_capabilities, skill.required_capabilities[1])
    BY DEF Matches
  <1> HIDE DEF places, matching, chosen
  <1>4. n \in Nat /\ DOMAIN matching = 1..n /\ \A i \in 1..n : matching[i] \in chosen
    BY <1>2
  <1>5. steps = [i \in 1..n |-> NewStep(i, matching[i].skill_id, matching[i].required_capabilities[1],
                                        Target(<<matching[i].entrypoint_ref, intent.goal>>),
                                        Max({intent.risk_level, matching[i].risk_level}))]
    BY <1>4 DEF SkillPlan, Plan
  <1> HIDE DEF steps
  <1>6. ASSUME NEW i \in 1..n PROVE StepWithin(W, steps[i], draft)
    <2> DEFINE skill == matching[i]
               texts == <<skill.entrypoint_ref, intent.goal>>
               r == Max({intent.risk_level, skill.risk_level})
    <2>1. WordySkill(W, skill) /\ Contains(intent.requested_capabilities, skill.required_capabilities[1])
      BY <1>3, <1>4
    <2>2. steps[i] = NewStep(i, skill.skill_id, skill.required_capabilities[1], Target(texts), r)
      BY <1>5
    <2> HIDE DEF skill
    <2>3. Asked(draft, skill.required_capabilities[1])
      BY <2>1 DEF IntentWithin
    <2>4. texts \in Seq(Seq(W))
      <3>1. skill.entrypoint_ref \in Seq(W) /\ intent.goal \in Seq(W)
        BY <2>1 DEF IntentWithin, WordySkill
      <3> QED
        BY <3>1
    <2>5. RiskKept(draft, r)
      BY <2>1, RiskGrows DEF IntentWithin, WordySkill
    <2> HIDE DEF r, texts
    <2> QED
      BY <2>2, <2>3, <2>4, <2>5, NewStepWithin
  <1>7. StepsWithin(W, steps, draft)
    <2>1. steps = [i \in 1..n |-> steps[i]]
      BY <1>5
    <2>2. steps \in Seq(ToSet(steps)) /\ DOMAIN steps = 1..n
      BY <1>4, <2>1, ListOfValues
    <2> QED
      BY <1>6, <2>2 DEF StepsWithin
  <1>8. PlanWithin(W, SkillPlan(intent, matching), draft)
    BY <1>7 DEF PlanWithin, steps
  <1> QED
    BY <1>1, <1>8, FromTheIntent

\* What the model proposed and the checks let through.
WordyProposal(W, p) ==
    p.proposed_steps \in Seq(Seq(W)) /\ p.risk_level = p.intent.risk_level

LEMMA FromAProposal ==
    ASSUME NEW W, Plain \subseteq W, NEW draft, draft.risk_level \in Nat, NEW intent, IntentWithin(intent, draft),
           NEW p, WordyProposal(W, p)
    PROVE  PlanWithin(W, ProposedPlan(intent, p), draft)
  <1> DEFINE n == Len(p.proposed_steps)
             steps == ProposedPlan(intent, p).steps
  <1>1. CASE ~ProposalIsValid(intent, p)
    BY <1>1 DEF ProposedPlan, PlanWithin
  <1>2. CASE ProposalIsValid(intent, p)
    <2>1. n \in Nat /\ DOMAIN p.proposed_steps = 1..n /\ \A i \in 1..n : p.proposed_steps[i] \in Seq(W)
      BY DEF WordyProposal
    <2>2. steps = [i \in 1..n |-> NewStep(i, NoSkill, Suggested(p, i),
                                          Target(<<p.proposed_steps[i], intent.goal>>),
                                          Max({intent.risk_level, p.risk_level}))]
      BY <1>2, <2>1 DEF ProposedPlan, Plan
    <2>3. p.intent = intent /\ \A i \in 1..n : Contains(intent.requested_capabilities, Suggested(p, i))
      BY <1>2, <2>1 DEF ProposalIsValid
    <2> HIDE DEF steps
    <2>4. ASSUME NEW i \in 1..n PROVE StepWithin(W, steps[i], draft)
      <3> DEFINE c == Suggested(p, i)
                 text == p.proposed_steps[i]
                 texts == <<text, intent.goal>>
                 r == Max({intent.risk_level, p.risk_level})
      <3>1. Asked(draft, c)
        BY <2>3 DEF IntentWithin
      <3>2. text \in Seq(W) /\ intent.goal \in Seq(W)
        BY <2>1 DEF IntentWithin
      <3>3. RiskKept(draft, r)
        BY <2>3, RiskGrows DEF IntentWithin, WordyProposal, RiskKept
      <3>4. steps[i] = NewStep(i, NoSkill, c, Target(texts), r)
        BY <2>2
      <3> HIDE DEF c, text, r
      <3>5. texts \in Seq(Seq(W))
        BY <3>2
      <3> HIDE DEF texts
      <3> QED
        BY <3>1, <3>3, <3>4, <3>5, NewStepWithin
    <2>5. StepsWithin(W, steps, draft)
      <3>1. steps = [i \in 1..n |-> steps[i]]
        BY <2>2
      <3>2. steps \in Seq(ToSet(steps)) /\ DOMAIN steps = 1..n
        BY <2>1, <3>1, ListOfValues
      <3> QED
        BY <2>4, <3>2 DEF StepsWithin
    <2> QED
      BY <2>5 DEF PlanWithin, steps
  <1> QED
    BY <1>1, <1>2

-----------------------------------------------------------------------------
(* Planning: the graph, the session and the invariants.                     *)

GraphWithin(W, tasks, draft, profile) ==
    /\ \A i \in DOMAIN tasks :
          /\ StepWithin(W, tasks[i], draft)
          /\ tasks[i].depends_on \subseteq {tasks[j].id : j \in 1 .. i - 1}
          /\ Allows(profile, tasks[i].capability_id)
          /\ tasks[i].risk_level >= High => profile.allow["allow_trusted_execution_path"]
    /\ Len(tasks) <= profile.max_tasks_per_graph

LEMMA CompiledGraph ==
    ASSUME NEW W, NEW draft, NEW plan, StepsWithin(W, plan.steps, draft),
           NEW profile, CanCompilePlan(plan, profile), CanOrder(GraphOf(plan))
    PROVE  GraphWithin(W, ReadyOrder(GraphOf(plan)).done, draft, profile)
  <1> DEFINE steps == plan.steps
             first == Ordered(steps)
             tasks == first.done \o first.left
             second == Ordered(tasks)
             n == Len(tasks)
  <1>1. GraphOf(plan).tasks = tasks /\ GraphOf(plan).path = PathOf(steps)
    BY DEF GraphOf
  <1>2. ReadyOrder(GraphOf(plan)) = second /\ second.left = << >>
    BY <1>1 DEF CanOrder, ReadyOrder
  <1>3. /\ Len(tasks) <= profile.max_tasks_per_graph
        /\ profile.allow[SwitchOf(PathOf(steps))]
        /\ \A i \in DOMAIN tasks : Allows(profile, tasks[i].capability_id)
    BY <1>1 DEF CanCompilePlan, AllowsGraph
  <1>4. steps \in Seq(ToSet(steps)) /\ \A x \in ToSet(steps) : StepWithin(W, x, draft)
    BY DEF StepsWithin, ToSet
  <1> HIDE DEF steps, second
  <1>5. tasks \in Seq(ToSet(steps))
    <2>1. Placed(first, ToSet(steps), Len(steps))
      BY <1>4, OrderedIsPlaced
    <2> HIDE DEF first
    <2>2. first.done \in Seq(ToSet(steps)) /\ first.left \in Seq(ToSet(steps))
      BY <2>1 DEF Placed
    <2> QED
      BY <2>2
  <1> HIDE DEF tasks
  <1>6. n \in Nat /\ DOMAIN tasks = 1..n /\ tasks \in Seq(ToSet(tasks)) /\ ToSet(tasks) \in SUBSET ToSet(steps)
    <2>1. n \in Nat /\ DOMAIN tasks = 1..n /\ \A i \in 1..n : tasks[i] \in ToSet(steps)
      BY <1>5
    <2>2. tasks = [i \in 1..n |-> tasks[i]]
      BY <1>5
    <2>3. tasks \in Seq(ToSet(tasks))
      BY <2>1, <2>2, ListOfValues
    <2> QED
      BY <2>1, <2>3 DEF ToSet
  <1>7. Placed(second, ToSet(tasks), n)
    BY <1>6, OrderedIsPlaced DEF second
  <1> DEFINE done == second.done
  <1>8. /\ done \in Seq(ToSet(tasks)) /\ Len(done) + Len(second.left) = n
        /\ \A i \in DOMAIN done : done[i].depends_on \subseteq {done[j].id : j \in 1 .. i - 1}
    BY <1>7 DEF Placed
  <1> HIDE DEF done
  <1>9. Len(done) = n
    <2>1. Len(second.left) = 0 /\ Len(done) \in Nat
      BY <1>2, <1>8
    <2> QED
      BY <1>6, <1>8, <2>1
  <1>10. ASSUME NEW i \in DOMAIN done
         PROVE  /\ StepWithin(W, done[i], draft)
                /\ Allows(profile, done[i].capability_id)
                /\ done[i].risk_level >= High => profile.allow["allow_trusted_execution_path"]
    <2>1. done[i] \in ToSet(tasks)
      BY <1>8
    <2>2. PICK k \in DOMAIN tasks : done[i] = tasks[k]
      BY <2>1 DEF ToSet
    <2>3. done[i] \in ToSet(steps)
      BY <1>6, <2>1
    <2>4. done[i].risk_level >= High => PathOf(steps) = "TrustedExecutionPath"
      BY <2>3 DEF PathOf
    <2>5. SwitchOf("TrustedExecutionPath") = "allow_trusted_execution_path"
      BY DEF SwitchOf
    <2> QED
      BY <1>3, <1>4, <2>2, <2>3, <2>4, <2>5
  <1>11. GraphWithin(W, done, draft, profile)
    BY <1>3, <1>8, <1>9, <1>10 DEF GraphWithin
  <1> QED
    BY <1>2, <1>11 DEF done

\* The request under way is its draft and what was made of it.
RequestInv ==
    /\ request.stage \in {"none", "normalized", "trusted", "compiled"}
    /\ request.stage # "none" => request.draft \in Drafts
    /\ request.stage = "normalized" =>
          request = [stage |-> "normalized", draft |-> request.draft, profile |-> request.profile,
                     entry |-> Normalized(request.draft)]
    /\ request.stage = "trusted" => request.entry = Trusted(Normalized(request.draft))
    /\ request.stage = "compiled" => request.intent = Compiled(Trusted(Normalized(request.draft)))

SkillsInv ==
    /\ manifests.skills \in Seq(SkillsOffered)
    /\ manifests = [modules |-> manifests.modules, skills |-> manifests.skills]
    /\ session.skills \in Seq(SkillsOffered)
    /\ session = [profile |-> session.profile, skills |-> session.skills,
                  running_task_policy |-> session.running_task_policy]

GraphInv(W) == graph # NoGraph => GraphWithin(W, graph.tasks, graph.draft, graph.profile)

RetryInv == session.running_task_policy = "RetryReady" => session.profile.allow["allow_running_task_retry"]

PlanInv(W) ==
    /\ RequestInv /\ SkillsInv /\ RetryInv /\ GraphInv(W)
    /\ proposal # NoProposal => WordyProposal(W, proposal)

\* Skills and answers use the words W.
Wordy(W) ==
    /\ \A skill \in SkillsOffered : WordySkill(W, skill)
    /\ \A answer \in Answers : answer.steps \in Seq(Seq(W))

IsManifests(m) == m.skills \in Seq(SkillsOffered) /\ m = [modules |-> m.modules, skills |-> m.skills]

LEMMA PickedAreOffered ==
    ASSUME NEW s, NEW S, S \subseteq SkillsOffered, s \in Seq(S), NEW places \in SUBSET (DOMAIN s)
    PROVE  Picked(s, places) \in Seq(SkillsOffered)
  <1>1. {s[i] : i \in places} \in SUBSET SkillsOffered
    OBVIOUS
  <1>2. Picked(s, places) \in Seq({s[i] : i \in places})
    BY PickedIsList
  <1> DEFINE t == Picked(s, places)
             T == {s[i] : i \in places}
  <1> HIDE DEF t, T
  <1>3. t \in Seq(T) /\ T \in SUBSET SkillsOffered
    BY <1>1, <1>2 DEF t, T
  <1>4. t \in Seq(SkillsOffered)
    BY <1>3
  <1> QED
    BY <1>4 DEF t

LEMMA ManifestsUpdate ==
    ASSUME NEW m, NEW a, NEW b, m = [modules |-> a, skills |-> b], NEW v
    PROVE  /\ [m EXCEPT !.modules = v] = [modules |-> v, skills |-> b]
           /\ [m EXCEPT !.skills = v] = [modules |-> a, skills |-> v]
OBVIOUS

LEMMA OneMoreModule ==
    ASSUME NEW m, IsManifests(m), NEW module
    PROVE  IsManifests(WithModule(m, module))
  <1> DEFINE v == Append(Picked(m.modules, {i \in DOMAIN m.modules : m.modules[i].module_id # module.module_id}),
                         module)
             a == m.modules
             b == m.skills
  <1>1. b \in Seq(SkillsOffered) /\ m = [modules |-> a, skills |-> b]
    BY DEF IsManifests
  <1>2. WithModule(m, module) = [m EXCEPT !.modules = v]
    BY DEF WithModule
  <1> HIDE DEF v, a, b
  <1>3. WithModule(m, module) = [modules |-> v, skills |-> b]
    BY <1>1, <1>2, ManifestsUpdate
  <1> QED
    BY <1>1, <1>3 DEF IsManifests

LEMMA OneMoreSkill ==
    ASSUME NEW m, IsManifests(m), NEW skill \in SkillsOffered
    PROVE  IsManifests(WithSkill(m, skill))
  <1> DEFINE s == m.skills
             places == {i \in DOMAIN s : s[i].skill_id # skill.skill_id}
             kept == Picked(s, places)
             v == Append(kept, skill)
             a == m.modules
  <1>1. s \in Seq(SkillsOffered) /\ m = [modules |-> a, skills |-> s]
    BY DEF IsManifests
  <1>2. WithSkill(m, skill) = [modules |-> a, skills |-> v]
    <2>1. WithSkill(m, skill) = [m EXCEPT !.skills = v]
      BY DEF WithSkill
    <2> HIDE DEF v, a, s
    <2> QED
      BY <1>1, <2>1, ManifestsUpdate
  <1> HIDE DEF s, a
  <1>3. kept \in Seq(SkillsOffered)
    BY <1>1, PickedAreOffered
  <1> HIDE DEF kept
  <1>4. Append(kept, skill) \in Seq(SkillsOffered)
    BY <1>3
  <1> QED
    BY <1>2, <1>4 DEF IsManifests

LEMMA PackageIsOffered ==
    ASSUME NEW package \in Packages
    PROVE  IsManifests(PackageManifests(package))
  <1> DEFINE s == package.skills
             places == {i \in DOMAIN s : \A j \in i + 1 .. Len(s) : s[j].skill_id # s[i].skill_id}
             m == PackageManifests(package)
  <1>1. ToSet(s) \subseteq SkillsOffered
    BY DEF SkillsOffered
  <1>2. s \in Seq(ToSet(s))
    BY PlanningAssumption
  <1>3. m = [modules |-> <<package.module>>, skills |-> Picked(s, places)]
    BY DEF PackageManifests
  <1>4. places \in SUBSET (DOMAIN s)
    OBVIOUS
  <1> HIDE DEF s, m, places
  <1>5. Picked(s, places) \in Seq(SkillsOffered)
    BY <1>1, <1>2, <1>4, PickedAreOffered
  <1> QED
    BY <1>3, <1>5 DEF IsManifests, m

\* The registries and the session.
LEMMA RegistryStep ==
    ASSUME NEW W, PlanInv(W),
           \/ \E entry \in ProfileEdits : InsertProfile(entry)
           \/ \E module \in Modules : RegisterModule(module)
           \/ \E skill \in Skills : RegisterSkill(skill)
           \/ \E package \in Packages : InstallPackage(package)
    PROVE  PlanInv(W)'
  <1>1. UNCHANGED <<request, proposal, session, graph>>
    BY DEF InsertProfile, RegisterModule, RegisterSkill, InstallPackage
  <1>2. IsManifests(manifests')
    <2>1. IsManifests(manifests)
      BY DEF PlanInv, SkillsInv, IsManifests
    <2>2. CASE \E entry \in ProfileEdits : InsertProfile(entry)
      BY <2>1, <2>2 DEF InsertProfile
    <2>3. CASE \E module \in Modules : RegisterModule(module)
      BY <2>1, <2>3, OneMoreModule DEF RegisterModule
    <2>4. CASE \E skill \in Skills : RegisterSkill(skill)
      BY <2>1, <2>4, OneMoreSkill DEF RegisterSkill, SkillsOffered
    <2>5. CASE \E package \in Packages : InstallPackage(package)
      BY <2>5, PackageIsOffered DEF InstallPackage
    <2> QED
      BY <2>2, <2>3, <2>4, <2>5
  <1>3. SkillsInv'
    BY <1>1, <1>2 DEF PlanInv, SkillsInv, IsManifests
  <1>4. RequestInv' /\ RetryInv' /\ GraphInv(W)' /\ (proposal' # NoProposal => WordyProposal(W, proposal'))
    BY <1>1 DEF PlanInv, RequestInv, RetryInv, GraphInv
  <1> QED
    BY <1>3, <1>4 DEF PlanInv

LEMMA SkillsForAreOffered ==
    ASSUME NEW m, IsManifests(m), NEW profile
    PROVE  SkillsFor(m, profile) \in Seq(SkillsOffered)
  <1> DEFINE s == m.skills
             places == {i \in DOMAIN s : AllowsSkill(profile, s[i])}
  <1>1. s \in Seq(SkillsOffered) /\ places \in SUBSET (DOMAIN s) /\ SkillsFor(m, profile) = Picked(s, places)
    BY DEF IsManifests, SkillsFor
  <1> HIDE DEF s, places
  <1> QED
    BY <1>1, PickedAreOffered

LEMMA SessionStep ==
    ASSUME NEW W, PlanInv(W),
           \/ OpenSession
           \/ \E profile : SetProfile(profile)
           \/ \E policy : SetRunningTaskPolicy(policy)
           \/ LoadManifests
    PROVE  PlanInv(W)'
  <1> DEFINE s == [profile |-> session'.profile, skills |-> session'.skills,
                   running_task_policy |-> session'.running_task_policy]
  <1>1. UNCHANGED <<manifests, request, proposal, graph>>
    BY DEF OpenSession, SetProfile, SetRunningTaskPolicy, LoadManifests, registries
  <1>2. session = [profile |-> session.profile, skills |-> session.skills,
                   running_task_policy |-> session.running_task_policy]
        /\ session.skills \in Seq(SkillsOffered) /\ IsManifests(manifests) /\ RetryInv
    BY DEF PlanInv, SkillsInv, IsManifests
  <1>3. session' = s /\ session'.skills \in Seq(SkillsOffered) /\ RetryInv'
    <2>1. CASE OpenSession
      BY <2>1 DEF OpenSession, NewSession, RetryInv
    <2>2. CASE \E profile : SetProfile(profile)
      <3>1. PICK profile : SetProfile(profile)
        BY <2>2
      <3>2. session' = [profile |-> profile, skills |-> session.skills,
                        running_task_policy |-> IF profile.allow["allow_running_task_retry"]
                                                THEN session.running_task_policy ELSE "RequireInspection"]
        BY <1>2, <3>1 DEF SetProfile
      <3> QED
        BY <1>2, <3>2 DEF RetryInv
    <2>3. CASE \E policy : SetRunningTaskPolicy(policy)
      <3>1. PICK policy : SetRunningTaskPolicy(policy)
        BY <2>3
      <3>2. session' = [profile |-> session.profile, skills |-> session.skills,
                        running_task_policy |->
                          IF policy = "RetryReady" /\ ~session.profile.allow["allow_running_task_retry"]
                          THEN "RequireInspection" ELSE policy]
        BY <1>2, <3>1 DEF SetRunningTaskPolicy
      <3> QED
        BY <1>2, <3>2 DEF RetryInv
    <2>4. CASE LoadManifests
      <3> DEFINE more == IF session.profile.allow["allow_skills"] THEN SkillsFor(manifests, session.profile)
                         ELSE << >>
      <3>1. more \in Seq(SkillsOffered)
        BY <1>2, SkillsForAreOffered
      <3>2. session' = [profile |-> session.profile, skills |-> session.skills \o more,
                        running_task_policy |-> session.running_task_policy]
        BY <1>2, <2>4 DEF LoadManifests
      <3> HIDE DEF more
      <3>3. session.skills \o more \in Seq(SkillsOffered)
        BY <1>2, <3>1
      <3> QED
        BY <1>2, <3>2, <3>3 DEF RetryInv
    <2> QED
      BY <2>1, <2>2, <2>3, <2>4
  <1>4. SkillsInv'
    BY <1>1, <1>2, <1>3 DEF SkillsInv, IsManifests
  <1>5. RequestInv' /\ GraphInv(W)' /\ (proposal' # NoProposal => WordyProposal(W, proposal'))
    BY <1>1 DEF PlanInv, RequestInv, GraphInv
  <1> QED
    BY <1>3, <1>4, <1>5 DEF PlanInv

LEMMA RequestUpdate ==
    ASSUME NEW r, NEW d, NEW p, NEW e, NEW v,
           r = [stage |-> "normalized", draft |-> d, profile |-> p, entry |-> e]
    PROVE  LET t == [r EXCEPT !.stage = "trusted", !.entry = v]
           IN  t.stage = "trusted" /\ t.draft = d /\ t.entry = v
  <1>1. {"stage", "draft", "profile", "entry"} = DOMAIN r /\ r.draft = d
    OBVIOUS
  <1> QED
    BY <1>1

\* The request.
LEMMA RequestStep ==
    ASSUME NEW W, Wordy(W), PlanInv(W),
           \/ \E draft \in Drafts : Submit(draft)
           \/ Admit \/ Compile \/ Withdraw
           \/ \E manifest \in Gateways, r \in RouteRequests, answer \in Answers : AskModel(manifest, r, answer)
    PROVE  PlanInv(W)'
  <1>1. UNCHANGED <<manifests, session, graph>>
    BY DEF Submit, Admit, Compile, Withdraw, AskModel, registries
  <1>2. SkillsInv' /\ RetryInv' /\ GraphInv(W)'
    BY <1>1 DEF PlanInv, SkillsInv, RetryInv, GraphInv
  <1>3. RequestInv /\ (proposal # NoProposal => WordyProposal(W, proposal))
    BY DEF PlanInv
  <1>4. RequestInv' /\ (proposal' # NoProposal => WordyProposal(W, proposal'))
    <2>1. CASE \E draft \in Drafts : Submit(draft)
      BY <1>3, <2>1 DEF Submit, RequestInv
    <2>2. CASE Admit
      <3>1. /\ request = [stage |-> "normalized", draft |-> request.draft, profile |-> request.profile,
                          entry |-> Normalized(request.draft)]
            /\ request.draft \in Drafts
        BY <1>3, <2>2 DEF Admit, RequestInv
      <3>2. proposal' = proposal
        BY <2>2 DEF Admit
      <3>3. request' = NoRequest \/ request' = [request EXCEPT !.stage = "trusted", !.entry = Trusted(request.entry)]
        BY <2>2 DEF Admit
      <3>4. CASE request' = NoRequest
        BY <1>3, <3>2, <3>4 DEF RequestInv, NoRequest
      <3>5. CASE request' = [request EXCEPT !.stage = "trusted", !.entry = Trusted(request.entry)]
        <4>1. request.entry = Normalized(request.draft)
          BY <3>1
        <4>2. /\ request'.stage = "trusted" /\ request'.draft = request.draft
              /\ request'.entry = Trusted(Normalized(request.draft))
          BY <3>1, <3>5, <4>1, RequestUpdate
        <4> QED
          BY <1>3, <3>1, <3>2, <4>2 DEF RequestInv
      <3> QED
        BY <3>3, <3>4, <3>5
    <2>3. CASE Compile
      <3>1. request.entry = Trusted(Normalized(request.draft)) /\ request.draft \in Drafts
        BY <1>3, <2>3 DEF Compile, RequestInv
      <3>2. proposal' = proposal
            /\ request' = [stage |-> "compiled", draft |-> request.draft, profile |-> request.profile,
                           intent |-> Compiled(Trusted(Normalized(request.draft)))]
        BY <2>3, <3>1 DEF Compile
      <3> QED
        BY <1>3, <3>1, <3>2 DEF RequestInv
    <2>4. CASE Withdraw
      BY <2>4 DEF Withdraw, RequestInv, NoRequest
    <2>5. CASE \E manifest \in Gateways, r \in RouteRequests, answer \in Answers : AskModel(manifest, r, answer)
      <3>1. PICK manifest \in Gateways, r \in RouteRequests, answer \in Answers : AskModel(manifest, r, answer)
        BY <2>5
      <3> DEFINE route == Route(manifest, Providers, r, request.intent.risk_level)
      <3>2. request' = request /\ proposal' = ProposalFrom(route, request.intent, answer.steps, answer.capabilities)
        BY <3>1 DEF AskModel
      <3> HIDE DEF route
      <3>3. answer.steps \in Seq(Seq(W))
        BY DEF Wordy
      <3>4. WordyProposal(W, proposal')
        BY <3>2, <3>3 DEF WordyProposal, ProposalFrom
      <3> QED
        BY <1>3, <3>2, <3>4 DEF RequestInv
    <2> QED
      BY <2>1, <2>2, <2>3, <2>4, <2>5
  <1> QED
    BY <1>2, <1>4 DEF PlanInv

LEMMA FinishStep ==
    ASSUME NEW W, PlanInv(W), NEW plan, PlanWithin(W, plan, request.draft), Finish(plan)
    PROVE  PlanInv(W)'
  <1> DEFINE tasks == ReadyOrder(GraphOf(plan)).done
             path == GraphOf(plan).path
  <1>1. /\ plan # NoPlan /\ CanCompilePlan(plan, session.profile) /\ CanOrder(GraphOf(plan))
        /\ graph' = [tasks |-> tasks, path |-> path, draft |-> request.draft, profile |-> session.profile]
        /\ request' = NoRequest /\ proposal' = NoProposal
        /\ UNCHANGED <<manifests, session>>
    BY DEF Finish, registries
  <1>2. StepsWithin(W, plan.steps, request.draft)
    BY <1>1 DEF PlanWithin
  <1>3. GraphWithin(W, tasks, request.draft, session.profile)
    BY <1>1, <1>2, CompiledGraph
  <1> HIDE DEF tasks, path
  <1>4. graph'.tasks = tasks /\ graph'.draft = request.draft /\ graph'.profile = session.profile
    BY <1>1
  <1>5. GraphInv(W)'
    BY <1>3, <1>4 DEF GraphInv
  <1>6. SkillsInv' /\ RetryInv'
    BY <1>1 DEF PlanInv, SkillsInv, RetryInv
  <1>7. RequestInv'
    BY <1>1 DEF RequestInv, NoRequest
  <1> QED
    BY <1>1, <1>5, <1>6, <1>7 DEF PlanInv

\* A plan from skills or from a proposal.
LEMMA PlanStep ==
    ASSUME NEW W, Plain \subseteq W, Wordy(W), PlanInv(W), MakePlan \/ MakeProposedPlan
    PROVE  PlanInv(W)'
  <1> DEFINE draft == request.draft
             intent == request.intent
  <1>1. /\ request.stage = "compiled" /\ draft \in Drafts
        /\ intent = Compiled(Trusted(Normalized(draft)))
    BY DEF MakePlan, MakeProposedPlan, PlanInv, RequestInv
  <1>2. IsDraft(draft)
    BY <1>1, PlanningAssumption DEF IsDraft
  <1>3. IntentWithin(intent, draft) /\ draft.risk_level \in Nat
    BY <1>1, <1>2, IntentOfDraft DEF IsDraft, RiskLevels
  <1>4. CASE MakePlan
    <2>1. Finish(PlannerPlan(intent, session.skills)) /\ session.skills \in Seq(SkillsOffered)
      BY <1>4 DEF MakePlan, PlanInv, SkillsInv
    <2>2. \A skill \in SkillsOffered : WordySkill(W, skill)
      BY DEF Wordy
    <2> HIDE DEF intent
    <2>3. PlanWithin(W, PlannerPlan(intent, session.skills), draft)
      BY <1>3, <2>1, <2>2, FromSkills
    <2> QED
      BY <2>1, <2>3, FinishStep
  <1>5. CASE MakeProposedPlan
    <2>1. Finish(ProposedPlan(intent, proposal)) /\ WordyProposal(W, proposal)
      BY <1>5 DEF MakeProposedPlan, PlanInv
    <2> HIDE DEF intent
    <2>2. PlanWithin(W, ProposedPlan(intent, proposal), draft)
      BY <1>3, <2>1, FromAProposal
    <2> QED
      BY <2>1, <2>2, FinishStep
  <1> QED
    BY <1>4, <1>5

LEMMA PlanningStep ==
    ASSUME NEW W, Plain \subseteq W, Wordy(W), PlanInv(W), [PlanningNext]_planningVars
    PROVE  PlanInv(W)'
  <1>1. CASE UNCHANGED planningVars
    BY <1>1 DEF planningVars, registries, PlanInv, RequestInv, SkillsInv, RetryInv, GraphInv
  <1>2. CASE \/ \E entry \in ProfileEdits : InsertProfile(entry)
             \/ \E module \in Modules : RegisterModule(module)
             \/ \E skill \in Skills : RegisterSkill(skill)
             \/ \E package \in Packages : InstallPackage(package)
    BY <1>2, RegistryStep
  <1>3. CASE \/ OpenSession
             \/ \E profile : SetProfile(profile)
             \/ \E policy : SetRunningTaskPolicy(policy)
             \/ LoadManifests
    BY <1>3, SessionStep
  <1>4. CASE \/ \E draft \in Drafts : Submit(draft)
             \/ Admit \/ Compile \/ Withdraw
             \/ \E manifest \in Gateways, r \in RouteRequests, answer \in Answers : AskModel(manifest, r, answer)
    BY <1>4, RequestStep
  <1>5. CASE MakePlan \/ MakeProposedPlan
    BY <1>5, PlanStep
  <1> QED
    BY <1>1, <1>2, <1>3, <1>4, <1>5 DEF PlanningNext

LEMMA PlanningStart ==
    ASSUME NEW W, PlanningInit
    PROVE  PlanInv(W)
  <1>1. << >> \in Seq(SkillsOffered)
    OBVIOUS
  <1> QED
    BY <1>1 DEF PlanningInit, PlanInv, RequestInv, SkillsInv, RetryInv, GraphInv, NoRequest, NoManifests, NewSession

\* Whatever the words of skills and answers.
LEMMA PlanInvHolds ==
    ASSUME NEW W, Plain \subseteq W, Wordy(W)
    PROVE  (Init => PlanInv(W)) /\ (PlanInv(W) /\ [Next]_controlVars => PlanInv(W)')
  <1>1. Init => PlanInv(W)
    BY PlanningStart DEF Init
  <1>2. PlanInv(W) /\ [Next]_controlVars => PlanInv(W)'
    <2> SUFFICES ASSUME PlanInv(W), [Next]_controlVars PROVE PlanInv(W)'
      OBVIOUS
    <2>1. [PlanningNext]_planningVars
      BY DEF Next, controlVars
    <2> QED
      BY <2>1, PlanningStep
  <1> QED
    BY <1>1, <1>2

\* In whatever order profile, policy and manifests are set, a session does not
\* retry running tasks its profile leaves to inspection, and compiles no graph
\* that its profile does not allow: ordering and taking the ready tasks of a
\* graph neither adds to it nor loses one.
THEOREM SessionIsBounded == Spec => []SessionKeepsToItsProfile
  <1>1. Plain \subseteq STRING
    BY DEF Plain
  <1>2. Wordy(STRING)
    BY PlanningAssumption DEF Wordy, WordySkill, Texts, RiskLevels
  <1>3. PlanInv(STRING) => SessionKeepsToItsProfile
    BY DEF PlanInv, RetryInv, GraphInv, GraphWithin, SessionKeepsToItsProfile
  <1>4. Init => PlanInv(STRING)
    BY <1>1, <1>2, PlanInvHolds
  <1>5. PlanInv(STRING) /\ [Next]_controlVars => PlanInv(STRING)'
    BY <1>1, <1>2, PlanInvHolds
  <1> QED
    BY <1>3, <1>4, <1>5, PTL DEF Spec

\* No skill and no answer of a model holds a secret: a model is given the goal
\* that the gateway handed on.
NoSecretsElsewhere ==
    /\ \A skill \in SkillsOffered : skill.entrypoint_ref \in Seq(Plain)
    /\ \A answer \in Answers : answer.steps \in Seq(Seq(Plain))

\* The capabilities of a task are among those of the draft, its risk is no less,
\* its target is no secret of the goal, and it follows what it depends on,
\* however the draft was trimmed, redacted, compiled, planned and ordered.
THEOREM PlanIsWithinTheRequest ==
    ASSUME NoSecretsElsewhere
    PROVE  Spec => []PlanKeepsToTheRequest
  <1>1. Wordy(Plain)
    BY NoSecretsElsewhere, PlanningAssumption DEF NoSecretsElsewhere, Wordy, WordySkill, RiskLevels
  <1>2. PlanInv(Plain) => PlanKeepsToTheRequest
    <2> SUFFICES ASSUME PlanInv(Plain), NEW i \in DOMAIN graph.tasks
                 PROVE  LET task == graph.tasks[i]  draft == graph.draft
                        IN  /\ IF draft.requested_capabilities = << >> THEN task.capability_id = FileRead
                               ELSE Contains(Trimmed(draft.requested_capabilities), task.capability_id)
                            /\ task.risk_level >= draft.risk_level
                            /\ HasWord(SecretWords, draft.goal) => task.risk_level >= Medium
                            /\ task.target \notin SecretWords \cap ToSet(draft.goal)
                            /\ task.depends_on \subseteq {graph.tasks[j].id : j \in 1 .. i - 1}
      BY DEF PlanKeepsToTheRequest
    <2>1. graph # NoGraph
      BY DEF NoGraph
    <2>2. GraphWithin(Plain, graph.tasks, graph.draft, graph.profile)
      BY <2>1 DEF PlanInv, GraphInv
    <2>3. /\ StepWithin(Plain, graph.tasks[i], graph.draft)
          /\ graph.tasks[i].depends_on \subseteq {graph.tasks[j].id : j \in 1 .. i - 1}
      BY <2>2 DEF GraphWithin
    <2> QED
      BY <2>3 DEF StepWithin, Asked, RiskKept, Plain
  <1>3. Init => PlanInv(Plain)
    BY <1>1, PlanInvHolds
  <1>4. PlanInv(Plain) /\ [Next]_controlVars => PlanInv(Plain)'
    BY <1>1, PlanInvHolds
  <1> QED
    BY <1>2, <1>3, <1>4, PTL DEF Spec
=============================================================================
