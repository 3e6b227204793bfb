---------------------------- MODULE KernelProofs ----------------------------
(***************************************************************************)
(* Proofs that the kernel keeps its types and its inductive invariant for  *)
(* every set of runs, identifiers and capabilities, and what follows; that *)
(* its budgets add up; and that it implements Authority.                   *)
(***************************************************************************)
EXTENDS Kernel, FiniteSetTheorems, TLAPS

\* PolicyEngine::evaluate returns a Decision, whatever it is given.
LEMMA EvaluateType ==
    ASSUME NEW config, NEW run, NEW id, NEW capability, NEW risk
    PROVE  Evaluate(config, run, id, capability, risk) \in Decision
BY DEF Evaluate, Decision

-----------------------------------------------------------------------------
(* The policy engine is monotone: what is stricter is never decided laxer.  *)

Strictness(decision) == IF decision = "Deny" THEN 2 ELSE IF decision = "RequireApproval" THEN 1 ELSE 0

Thresholds(config) ==
    config.deny_at_or_above \in Threshold /\ config.approval_required_at_or_above \in Threshold

\* The configuration denies and asks wherever the other one does.
Tightens(config, other) ==
    /\ other.require_declared_capabilities => config.require_declared_capabilities
    /\ other.denied_capabilities \subseteq config.denied_capabilities
    /\ other.denied_resources \subseteq config.denied_resources
    /\ other.approval_required_capabilities \subseteq config.approval_required_capabilities
    /\ other.approval_required_resources \subseteq config.approval_required_resources
    /\ config.deny_at_or_above <= other.deny_at_or_above
    /\ config.approval_required_at_or_above <= other.approval_required_at_or_above

\* The modes are not a chain: ReadOnly lets a resource named network.read pass,
\* which WorkspaceWrite refuses.
WithinMode(mode, other) ==
    \/ mode = other
    \/ other = "Privileged"
    \/ mode = "WorkspaceWrite" /\ other = "Networked"

WithinRun(run, other) ==
    /\ run.required_capabilities \subseteq other.required_capabilities
    /\ WithinMode(run.permission_mode, other.permission_mode)

\* The contract reaches all the other one does, at no lower risk.
Reaches(capability, other) ==
    /\ other.resources \subseteq capability.resources
    /\ capability.risk_level >= other.risk_level

\* permission_mode_allows_resource refuses in the narrower mode what the wider refuses.
LEMMA ModesNarrow ==
    ASSUME NEW mode, NEW other, WithinMode(mode, other), NEW resource, ModeAllows(mode, resource)
    PROVE  ModeAllows(other, resource)
BY DEF WithinMode, ModeAllows

\* max(delta.risk_level, capability.risk_level) grows with both.
LEMMA RisksAddUp ==
    ASSUME NEW capability, NEW other, capability.risk_level \in RiskLevel,
           other.risk_level \in RiskLevel, NEW risk \in RiskLevel, NEW low \in RiskLevel,
           capability.risk_level >= other.risk_level, risk >= low
    PROVE  /\ EffectiveRisk(other, low) \in RiskLevel
           /\ EffectiveRisk(capability, risk) \in RiskLevel
           /\ EffectiveRisk(capability, risk) >= EffectiveRisk(other, low)
BY DEF EffectiveRisk, RiskLevel

\* PolicyEngine::evaluate never decides a request more laxly because the configuration
\* was tightened, the run declares fewer capabilities or a narrower mode, the
\* capability reaches more or is riskier, or the delta is: for all policies,
\* patterns, contracts and risks.
THEOREM PolicyIsMonotone ==
    ASSUME NEW config, NEW laxer, Thresholds(config), Thresholds(laxer), Tightens(config, laxer),
           NEW run, NEW wider, WithinRun(run, wider), NEW id,
           NEW capability, NEW smaller, capability.risk_level \in RiskLevel,
           smaller.risk_level \in RiskLevel, Reaches(capability, smaller),
           NEW risk \in RiskLevel, NEW low \in RiskLevel, risk >= low
    PROVE  Strictness(Evaluate(config, run, id, capability, risk))
               >= Strictness(Evaluate(laxer, wider, id, smaller, low))
<1>1. /\ EffectiveRisk(smaller, low) \in RiskLevel /\ EffectiveRisk(capability, risk) \in RiskLevel
      /\ EffectiveRisk(capability, risk) >= EffectiveRisk(smaller, low)
  BY RisksAddUp DEF Reaches
<1>2. Denied(laxer, wider, id, smaller, low) => Denied(config, run, id, capability, risk)
  <2>1. AtOrAbove(EffectiveRisk(smaller, low), laxer.deny_at_or_above)
          => AtOrAbove(EffectiveRisk(capability, risk), config.deny_at_or_above)
    BY <1>1 DEF AtOrAbove, Tightens, Thresholds, RiskLevel, Threshold
  <2>2. \A resource : ModeAllows(run.permission_mode, resource)
            => ModeAllows(wider.permission_mode, resource)
    BY ModesNarrow DEF WithinRun
  <2> QED BY <2>1, <2>2 DEF Denied, Tightens, WithinRun, Reaches
<1>3. NeedsApproval(laxer, id, smaller, low) => NeedsApproval(config, id, capability, risk)
  <2>1. AtOrAbove(EffectiveRisk(smaller, low), laxer.approval_required_at_or_above)
          => AtOrAbove(EffectiveRisk(capability, risk), config.approval_required_at_or_above)
    BY <1>1 DEF AtOrAbove, Tightens, Thresholds, RiskLevel, Threshold
  <2> QED BY <2>1 DEF NeedsApproval, Tightens, Reaches
<1> QED BY <1>2, <1>3 DEF Evaluate, Strictness

-----------------------------------------------------------------------------
\* transition_run_status writes a run status.
LEMMA TransitionType ==
    ASSUME TypeOK, NEW r \in Runs, NEW to \in RunStatus, Transition(r, to)
    PROVE  status' \in [Runs -> RunStatus \cup {Nil}]
BY DEF TypeOK, Transition

\* increment_counter leaves counters.
LEMMA SpendType ==
    ASSUME TypeOK, NEW r \in Runs, NEW counter \in {"steps", "heartbeats", "tool_calls"},
           NEW max, Spend(r, counter, max)
    PROVE  usage' \in [Runs -> Usage]
<1>1. usage \in [Runs -> Usage]
  BY DEF TypeOK
<1> QED BY <1>1 DEF Spend, Usage

\* The ticket a method works on is in the table.
LEMMA OpTicket ==
    ASSUME TypeOK, UseInv, OpInv,
           op.pc \in {"consumed", "called", "executing", "returned", "stored", "verifying"}
    PROVE  op.ticket \in TicketIds /\ tickets[op.ticket] \in Ticket
<1>1. op.ticket \in TicketIds
  BY DEF TypeOK, Op, Idle
<1>2. tickets[op.ticket] # Nil
  BY <1>1 DEF UseInv, OpInv
<1> QED BY <1>1, <1>2 DEF TypeOK

\* The next-state relation keeps every variable in its type.
LEMMA TypeStep ==
    ASSUME TypeOK, UseInv, OpInv, [Next]_vars
    PROVE  TypeOK'
<1>1. CASE UNCHANGED vars
  BY <1>1 DEF TypeOK, vars
<1>2. ASSUME NEW r \in Runs, Admit(r) PROVE TypeOK'
  BY <1>2, TransitionType DEF TypeOK, Admit, RunStatus, authority, evidence, history
<1>3. ASSUME NEW r \in Runs, EnforceTimeout(r) PROVE TypeOK'
  BY <1>3, TransitionType DEF TypeOK, EnforceTimeout, RunStatus, memory, authority, evidence, history
<1>4. ASSUME NEW r \in Runs, StartHeartbeat(r) PROVE TypeOK'
  BY <1>4, TransitionType DEF TypeOK, StartHeartbeat, RunStatus, Op, memory, authority, evidence, history
<1>5. CASE RecordHeartbeat
  BY <1>5, SpendType DEF TypeOK, RecordHeartbeat, Op, Idle, memory, authority, evidence, history
<1>6. ASSUME NEW r \in Runs, NEW y \in DeltaIds, NEW c \in Caps, NEW risk \in DeltaRisks,
             NEW config \in Configs, ProposeDelta(r, y, c, risk, config)
      PROVE  TypeOK'
  <2>1. usage' \in [Runs -> Usage]
    BY <1>6, SpendType DEF ProposeDelta
  <2>2. op' \in Op
    BY <1>6, EvaluateType, CapabilityAssumption DEF TypeOK, ProposeDelta, Op, Idle, Policy
  <2> QED BY <1>6, <2>1, <2>2 DEF TypeOK, ProposeDelta, memory, authority, evidence, history
<1>7. CASE DecideDelta
  <2>1. op.policy \in Policy /\ op.policy.run \in Runs
    BY <1>7 DEF TypeOK, DecideDelta, Op, Idle, Policy
  <2>2. op' \in Op
    BY <1>7, <2>1 DEF TypeOK, DecideDelta, Op, Idle
  <2>3. status' \in [Runs -> RunStatus \cup {Nil}]
    BY <1>7, <2>1, TransitionType DEF TypeOK, DecideDelta, StatusFor, RunStatus
  <2> QED BY <1>7, <2>2, <2>3 DEF TypeOK, DecideDelta, memory, authority, evidence, history
<1>8. ASSUME NEW d \in PolicyIds, RecordPolicyDecision(d) PROVE TypeOK'
  <2>1. op.policy \in Policy
    BY <1>8 DEF TypeOK, RecordPolicyDecision, Op, Idle
  <2> QED BY <1>8, <2>1 DEF TypeOK, RecordPolicyDecision, Op, memory, evidence, history
<1>9. ASSUME NEW d \in PolicyIds, NEW g \in GrantIds, GrantApproval(d, g) PROVE TypeOK'
  <2>1. policies[d] \in Policy
    BY <1>9 DEF TypeOK, GrantApproval
  <2> QED BY <1>9, <2>1 DEF TypeOK, GrantApproval, Policy, Grant, Op, memory, evidence, history
<1>10. CASE ResumeRun
  <2>1. op.run \in Runs
    BY <1>10 DEF TypeOK, ResumeRun, Op, Idle
  <2>2. status' \in [Runs -> RunStatus \cup {Nil}]
    BY <1>10, <2>1, TransitionType DEF TypeOK, ResumeRun, RunStatus
  <2> QED BY <1>10, <2>2 DEF TypeOK, ResumeRun, Op, memory, authority, evidence, history
<1>11. ASSUME NEW d \in PolicyIds, NEW t \in TicketIds, IssueTicket(d, t) PROVE TypeOK'
  <2>1. policies[d] \in Policy
    BY <1>11 DEF TypeOK, IssueTicket
  <2> QED BY <1>11, <2>1 DEF TypeOK, IssueTicket, Policy, Ticket, memory, evidence, history
<1>12. ASSUME NEW t \in TicketIds, ConsumeTicket(t) PROVE TypeOK'
  BY <1>12 DEF TypeOK, ConsumeTicket, Op, memory, authority, evidence, history
<1>13. CASE RecordToolCall
  <2>1. op.ticket \in TicketIds /\ tickets[op.ticket] \in Ticket
    BY <1>13, OpTicket DEF RecordToolCall
  <2>2. usage' \in [Runs -> Usage]
    BY <1>13, <2>1, SpendType DEF TypeOK, RecordToolCall, Ticket
  <2>3. op' \in Op
    BY <1>13, <2>1 DEF RecordToolCall, Op, Idle
  <2> QED BY <1>13, <2>2, <2>3 DEF TypeOK, RecordToolCall, memory, authority, evidence, history
<1>14. CASE EnterExecuting
  <2>1. op.ticket \in TicketIds /\ tickets[op.ticket] \in Ticket
    BY <1>14, OpTicket DEF EnterExecuting
  <2>2. status' \in [Runs -> RunStatus \cup {Nil}]
    BY <1>14, <2>1, TransitionType DEF TypeOK, EnterExecuting, Ticket, RunStatus
  <2>3. op' \in Op
    BY <1>14, <2>1 DEF EnterExecuting, Op, Idle
  <2> QED BY <1>14, <2>2, <2>3 DEF TypeOK, EnterExecuting, memory, authority, evidence, history
<1>15. ASSUME NEW outcome \in Outcome, RunExecutor(outcome) PROVE TypeOK'
  <2>1. op.ticket \in TicketIds
    BY <1>15, OpTicket DEF RunExecutor
  <2>2. op' \in Op
    BY <1>15, <2>1 DEF RunExecutor, Op
  <2> QED BY <1>15, <2>1, <2>2 DEF TypeOK, RunExecutor, memory, authority, evidence, history
<1>16. CASE RecordResult
  <2>1. op.ticket \in TicketIds /\ tickets[op.ticket] \in Ticket
    BY <1>16, OpTicket DEF RecordResult
  <2>2. status' \in [Runs -> RunStatus \cup {Nil}]
    BY <1>16, <2>1, TransitionType DEF TypeOK, RecordResult, Ticket, RunStatus
  <2>3. op' \in Op
    BY <1>16, <2>1 DEF RecordResult, Op, Idle
  <2>4. [success |-> op.outcome = "success"] \in Result
    BY Zenon DEF Result
  <2>5. results' \in [TicketIds -> Result \cup {Nil}]
    BY <1>16, <2>1, <2>4 DEF TypeOK, RecordResult
  <2> QED BY <1>16, <2>2, <2>3, <2>5 DEF TypeOK, RecordResult, memory, authority, history
<1>17. CASE EnterObserving
  <2>1. tickets[op.ticket] \in Ticket
    BY <1>17, OpTicket DEF EnterObserving
  <2>2. status' \in [Runs -> RunStatus \cup {Nil}]
    BY <1>17, <2>1, TransitionType DEF EnterObserving, Ticket, RunStatus
  <2> QED BY <1>17, <2>2 DEF TypeOK, EnterObserving, Op, memory, authority, evidence, history
<1>18. ASSUME NEW t \in TicketIds, Verify(t) PROVE TypeOK'
  <2>1. tickets[t] \in Ticket
    BY <1>18 DEF TypeOK, Verify
  <2>2. status' \in [Runs -> RunStatus \cup {Nil}]
    BY <1>18, <2>1, TransitionType DEF Verify, Ticket, RunStatus
  <2> QED BY <1>18, <2>2 DEF TypeOK, Verify, Op, memory, authority, evidence, history
<1>19. ASSUME NEW p \in ProofIds, RecordProof(p) PROVE TypeOK'
  <2>1. op.ticket \in TicketIds /\ tickets[op.ticket] \in Ticket
    BY <1>19, OpTicket DEF RecordProof
  <2> QED BY <1>19, <2>1 DEF TypeOK, RecordProof, Op, Ticket, Proof, memory, authority, history
<1>20. ASSUME NEW d \in PolicyIds, NEW t \in TicketIds, NEW p \in ProofIds,
             NEW y \in DeltaIds \cup OtherDeltas, CommitSuccess(d, t, p, y)
       PROVE  TypeOK'
  <2>1. tickets[t] \in Ticket
    BY <1>20 DEF TypeOK, CommitSuccess
  <2>2. status' \in [Runs -> RunStatus \cup {Nil}]
    BY <1>20, <2>1, TransitionType DEF CommitSuccess, Ticket, RunStatus
  <2>3. op' \in Op
    BY <1>20, <2>1 DEF TypeOK, CommitSuccess, Op, Event, SuccessEvent, Ticket
  <2> QED BY <1>20, <2>2, <2>3 DEF TypeOK, CommitSuccess, memory, authority, evidence, history
<1>21. ASSUME NEW r \in Runs, NEW result \in {"Failed", "Blocked"}, CommitOther(r, result)
       PROVE  TypeOK'
  <2>1. status' \in [Runs -> RunStatus \cup {Nil}]
    BY <1>21, TransitionType DEF CommitOther, RunStatus
  <2>2. op' \in Op
    BY <1>21 DEF TypeOK, CommitOther, Op, Event, OtherEvent
  <2> QED BY <1>21, <2>1, <2>2 DEF TypeOK, CommitOther, memory, authority, evidence, history
<1>22. CASE AppendLedgerEvent
  <2>1. op.event \in Event
    BY <1>22 DEF TypeOK, AppendLedgerEvent, Op, Idle
  <2>2. op' \in Op
    BY <1>22, <2>1 DEF AppendLedgerEvent, Op, Idle
  <2> QED BY <1>22, <2>1, <2>2 DEF TypeOK, AppendLedgerEvent, memory, authority, evidence, history
<1>23. CASE CompleteRun
  <2>1. op.event \in Event /\ op.event.run \in Runs
    BY <1>23 DEF TypeOK, CompleteRun, Op, Idle, Event, SuccessEvent, OtherEvent
  <2>2. status' \in [Runs -> RunStatus \cup {Nil}]
    BY <1>23, <2>1, TransitionType DEF CompleteRun, RunStatus
  <2> QED BY <1>23, <2>2 DEF TypeOK, CompleteRun, Op, memory, authority, evidence, history
<1>24. CASE Tick
  BY <1>24 DEF TypeOK, Tick, memory, authority, evidence, history
<1>25. CASE Crash
  BY <1>25 DEF TypeOK, Crash, Op, authority, evidence, history
<1>26. CASE FailWrite
  <2>1. op.pc \in {"returned", "stored"} => op.ticket \in TicketIds
    BY OpTicket
  <2>2. op.pc = "appended" => op.event.run \in Runs
    BY DEF TypeOK, Op, Idle, Event, SuccessEvent, OtherEvent
  <2> QED BY <1>26, <2>1, <2>2 DEF TypeOK, FailWrite, Op, memory, authority, evidence
<1> QED
  BY <1>1, <1>2, <1>3, <1>4, <1>5, <1>6, <1>7, <1>8, <1>9, <1>10, <1>11, <1>12, <1>13, <1>14,
     <1>15, <1>16, <1>17, <1>18, <1>19, <1>20, <1>21, <1>22, <1>23, <1>24, <1>25, <1>26 DEF Next

-----------------------------------------------------------------------------
(* What a step does to the tables. *)

\* The status of a run changes only along is_allowed_transition.
LEMMA StatusStep ==
    ASSUME TypeOK, [Next]_vars, NEW r \in Runs
    PROVE  status'[r] = status[r] \/ AllowedTransition(status[r], status'[r])
<1>1. ASSUME NEW x, NEW to, Transition(x, to)
      PROVE  status'[r] = status[r] \/ AllowedTransition(status[r], status'[r])
  BY <1>1 DEF Transition, TypeOK
<1>2. CASE UNCHANGED status
  BY <1>2
<1> QED
  BY <1>1, <1>2 DEF vars, Next, Admit, EnforceTimeout, StartHeartbeat, RecordHeartbeat, ProposeDelta, DecideDelta,
     RecordPolicyDecision, GrantApproval, ResumeRun, IssueTicket, ConsumeTicket, RecordToolCall,
     EnterExecuting, RunExecutor, RecordResult, EnterObserving, Verify, RecordProof, CommitSuccess,
     CommitOther, AppendLedgerEvent, CompleteRun, FailWrite, Tick, Crash

\* Rows of the authority tables are never changed or removed.
LEMMA AuthorityGrows ==
    ASSUME TypeOK, [Next]_vars
    PROVE  /\ \A d \in PolicyIds : policies[d] # Nil => policies'[d] = policies[d]
           /\ \A g \in GrantIds : grants[g] # Nil => grants'[g] = grants[g]
           /\ \A t \in TicketIds : tickets[t] # Nil => tickets'[t] = tickets[t]
<1>1. CASE UNCHANGED authority
  BY <1>1 DEF authority
<1>2. ASSUME NEW d \in PolicyIds, RecordPolicyDecision(d)
      PROVE  \A e \in PolicyIds : policies[e] # Nil => policies'[e] = policies[e]
  BY <1>2 DEF RecordPolicyDecision, TypeOK
<1>3. ASSUME NEW d \in PolicyIds, NEW g \in GrantIds, GrantApproval(d, g)
      PROVE  \A h \in GrantIds : grants[h] # Nil => grants'[h] = grants[h]
  BY <1>3 DEF GrantApproval, TypeOK
<1>4. ASSUME NEW d \in PolicyIds, NEW t \in TicketIds, IssueTicket(d, t)
      PROVE  \A u \in TicketIds : tickets[u] # Nil => tickets'[u] = tickets[u]
  BY <1>4 DEF IssueTicket, TypeOK
<1> QED
  BY <1>1, <1>2, <1>3, <1>4 DEF vars, authority, Next, Admit, EnforceTimeout, StartHeartbeat, RecordHeartbeat, ProposeDelta, DecideDelta,
     RecordPolicyDecision, GrantApproval, ResumeRun, IssueTicket, ConsumeTicket, RecordToolCall,
     EnterExecuting, RunExecutor, RecordResult, EnterObserving, Verify, RecordProof, CommitSuccess,
     CommitOther, AppendLedgerEvent, CompleteRun, FailWrite, Tick, Crash

\* Rows of the evidence tables are never changed or removed.
LEMMA EvidenceGrows ==
    ASSUME TypeOK, [Next]_vars
    PROVE  /\ \A t \in TicketIds : results[t] # Nil => results'[t] = results[t]
           /\ \A p \in ProofIds : proofs[p] # Nil => proofs'[p] = proofs[p]
           /\ consumed \subseteq consumed'
<1>1. CASE UNCHANGED <<evidence, consumed>>
  BY <1>1 DEF evidence
<1>2. CASE RecordResult
  BY <1>2 DEF RecordResult, TypeOK
<1>3. ASSUME NEW p \in ProofIds, RecordProof(p)
      PROVE  \A q \in ProofIds : proofs[q] # Nil => proofs'[q] = proofs[q]
  BY <1>3 DEF RecordProof, TypeOK
<1> QED
  BY <1>1, <1>2, <1>3 DEF vars, evidence, history, Next, Admit, EnforceTimeout, StartHeartbeat, RecordHeartbeat, ProposeDelta, DecideDelta,
     RecordPolicyDecision, GrantApproval, ResumeRun, IssueTicket, ConsumeTicket, RecordToolCall,
     EnterExecuting, RunExecutor, RecordResult, EnterObserving, Verify, RecordProof, CommitSuccess,
     CommitOther, AppendLedgerEvent, CompleteRun, FailWrite, Tick, Crash

\* The ledger only grows at its end, and only by the event being committed.
LEMMA LedgerGrows ==
    ASSUME TypeOK, [Next]_vars
    PROVE  \/ UNCHANGED ledger
           \/ /\ AppendLedgerEvent
              /\ DOMAIN ledger' = DOMAIN ledger \cup {Len(ledger) + 1}
              /\ Len(ledger) + 1 \notin DOMAIN ledger
              /\ \A i \in DOMAIN ledger : ledger'[i] = ledger[i]
              /\ ledger'[Len(ledger) + 1] = op.event
<1>1. CASE AppendLedgerEvent
  <2>1. ledger \in Seq(Event) /\ op.event \in Event
    BY <1>1 DEF TypeOK, AppendLedgerEvent, Op, Idle
  <2> QED BY <1>1, <2>1 DEF AppendLedgerEvent
<1>2. CASE UNCHANGED ledger
  BY <1>2
<1> QED
  BY <1>1, <1>2 DEF vars, Next, Admit, EnforceTimeout, StartHeartbeat, RecordHeartbeat, ProposeDelta, DecideDelta,
     RecordPolicyDecision, GrantApproval, ResumeRun, IssueTicket, ConsumeTicket, RecordToolCall,
     EnterExecuting, RunExecutor, RecordResult, EnterObserving, Verify, RecordProof, CommitSuccess,
     CommitOther, AppendLedgerEvent, CompleteRun, FailWrite, Tick, Crash

\* The counted tool calls never go down.
LEMMA UsageGrows ==
    ASSUME TypeOK, UseInv, OpInv, [Next]_vars, NEW r \in Runs, usage[r].tool_calls > 0
    PROVE  usage'[r].tool_calls > 0
<1> DEFINE Counters == {"steps", "heartbeats", "tool_calls"}
<1>1. ASSUME NEW x, NEW counter \in Counters, NEW max, Spend(x, counter, max)
      PROVE  usage'[r].tool_calls > 0
  <2>1. usage[r] \in Usage
    BY DEF TypeOK
  <2>2. CASE x # r
    BY <1>1, <2>1, <2>2 DEF Spend, TypeOK
  <2>3. CASE x = r
    <3>1. usage'[r] = [usage[r] EXCEPT ![counter] = @ + 1]
      BY <1>1, <2>3 DEF Spend, TypeOK
    <3> QED BY <2>1, <3>1 DEF Usage
  <2> QED BY <2>2, <2>3
<1>2. CASE UNCHANGED usage
  BY <1>2
<1>3. CASE RecordHeartbeat
  BY <1>1, <1>2, <1>3 DEF RecordHeartbeat
<1>4. ASSUME NEW x \in Runs, NEW y \in DeltaIds, NEW c \in Caps, NEW risk \in DeltaRisks,
             NEW config \in Configs, ProposeDelta(x, y, c, risk, config)
      PROVE  usage'[r].tool_calls > 0
  BY <1>1, <1>4 DEF ProposeDelta
<1>5. CASE RecordToolCall
  BY <1>1, <1>2, <1>5 DEF RecordToolCall
<1> QED
  BY <1>2, <1>3, <1>4, <1>5 DEF vars, Next, Admit, EnforceTimeout, StartHeartbeat, RecordHeartbeat, ProposeDelta, DecideDelta,
     RecordPolicyDecision, GrantApproval, ResumeRun, IssueTicket, ConsumeTicket, RecordToolCall,
     EnterExecuting, RunExecutor, RecordResult, EnterObserving, Verify, RecordProof, CommitSuccess,
     CommitOther, AppendLedgerEvent, CompleteRun, FailWrite, Tick, Crash

\* Only the executor has effects.
LEMMA EffectStep ==
    ASSUME [Next]_vars
    PROVE  UNCHANGED effects \/ \E outcome \in Outcome : RunExecutor(outcome)
BY DEF vars, history, Next, Admit, EnforceTimeout, StartHeartbeat, RecordHeartbeat, ProposeDelta, DecideDelta,
     RecordPolicyDecision, GrantApproval, ResumeRun, IssueTicket, ConsumeTicket, RecordToolCall,
     EnterExecuting, RecordResult, EnterObserving, Verify, RecordProof, CommitSuccess,
     CommitOther, AppendLedgerEvent, CompleteRun, FailWrite, Tick, Crash

-----------------------------------------------------------------------------
(* The inductive invariant, one lemma per conjunct. *)

\* Tickets stay backed by a decision that allows them.
LEMMA TicketInvStep ==
    ASSUME TypeOK, TicketInv, [Next]_vars
    PROVE  TicketInv'
<1> SUFFICES ASSUME NEW t \in TicketIds, NEW d \in PolicyIds,
                    tickets'[t] # Nil, tickets'[t].policy = d
             PROVE  Backed(t, d)'
  BY DEF TicketInv
<1>1. policies[d] # Nil => policies'[d] = policies[d] /\ policies'[d] # Nil
  BY AuthorityGrows
<1>2. Granted(d) => Granted(d)'
  BY AuthorityGrows DEF Granted
<1>3. CASE tickets[t] # Nil
  <2>1. tickets'[t] = tickets[t] /\ Backed(t, d)
    BY <1>3, AuthorityGrows DEF TicketInv
  <2> QED BY <1>1, <1>2, <2>1 DEF Backed
<1>4. CASE tickets[t] = Nil
  <2>1. PICK e \in PolicyIds, u \in TicketIds : IssueTicket(e, u)
    BY <1>4 DEF vars, authority, Next, Admit, EnforceTimeout, StartHeartbeat, RecordHeartbeat, ProposeDelta, DecideDelta,
     RecordPolicyDecision, GrantApproval, ResumeRun, IssueTicket, ConsumeTicket, RecordToolCall,
     EnterExecuting, RunExecutor, RecordResult, EnterObserving, Verify, RecordProof, CommitSuccess,
     CommitOther, AppendLedgerEvent, CompleteRun, FailWrite, Tick, Crash
  <2>2. e = d /\ tickets'[t] = [run |-> policies[d].run, policy |-> d,
                                capability |-> policies[d].capability,
                                expires_at |-> policies[d].expires_at]
    BY <1>4, <2>1 DEF IssueTicket, TypeOK
  <2>3. policies[d] # Nil /\ policies[d].decision # "Deny"
        /\ (policies[d].decision = "RequireApproval" => Granted(d))
    BY <2>1, <2>2 DEF IssueTicket, LiveGrant, Granted
  <2> QED BY <1>1, <1>2, <2>2, <2>3 DEF Backed
<1> QED BY <1>3, <1>4

\* Consumption, effect and result of a ticket stay in order.
LEMMA UseInvStep ==
    ASSUME TypeOK, UseInv, OpInv, [Next]_vars
    PROVE  UseInv'
<1>1. ASSUME NEW t \in consumed' PROVE tickets'[t] # Nil
  <2>1. t \in TicketIds
    BY TypeStep DEF TypeOK
  <2>2. tickets[t] # Nil
    BY <1>1, <2>1 DEF UseInv, vars, Next, Admit, EnforceTimeout, StartHeartbeat, RecordHeartbeat, ProposeDelta, DecideDelta,
     RecordPolicyDecision, GrantApproval, ResumeRun, IssueTicket, ConsumeTicket, RecordToolCall,
     EnterExecuting, RunExecutor, RecordResult, EnterObserving, Verify, RecordProof, CommitSuccess,
     CommitOther, AppendLedgerEvent, CompleteRun, FailWrite, Tick, Crash
  <2> QED BY <2>1, <2>2, AuthorityGrows
<1>2. ASSUME NEW t \in TicketIds, effects'[t] > 0
      PROVE  effects'[t] = 1 /\ t \in consumed' /\ usage'[tickets'[t].run].tool_calls > 0
  <2>1. CASE effects[t] > 0 /\ effects'[t] = effects[t]
    <3>1. t \in consumed /\ tickets[t] \in Ticket /\ tickets'[t] = tickets[t]
      BY <2>1, AuthorityGrows DEF UseInv, TypeOK
    <3> QED BY <2>1, <3>1, UsageGrows, EvidenceGrows DEF UseInv, Ticket
  <2>2. CASE effects'[t] # effects[t]
    <3>1. PICK outcome \in Outcome : RunExecutor(outcome)
      BY <2>2 DEF vars, history, Next, Admit, EnforceTimeout, StartHeartbeat, RecordHeartbeat, ProposeDelta, DecideDelta,
     RecordPolicyDecision, GrantApproval, ResumeRun, IssueTicket, ConsumeTicket, RecordToolCall,
     EnterExecuting, RunExecutor, RecordResult, EnterObserving, Verify, RecordProof, CommitSuccess,
     CommitOther, AppendLedgerEvent, CompleteRun, FailWrite, Tick, Crash
    <3>2. op.ticket = t
      BY <2>2, <3>1 DEF RunExecutor, TypeOK
    <3>3. tickets[t] \in Ticket
      BY <3>1, <3>2, OpTicket DEF RunExecutor
    <3> QED BY <3>1, <3>2, <3>3 DEF RunExecutor, OpInv, TypeOK, authority
  <2> QED BY <1>2, <2>1, <2>2 DEF TypeOK
<1>3. ASSUME NEW t \in TicketIds, results'[t] # Nil PROVE effects'[t] = 1
  <2>1. CASE results[t] # Nil
    <3>1. effects[t] = 1
      BY <2>1 DEF UseInv
    <3>2. ASSUME NEW outcome \in Outcome, RunExecutor(outcome) PROVE effects'[t] > 0
      BY <3>1, <3>2 DEF TypeOK, RunExecutor
    <3>3. effects'[t] > 0
      BY <3>1, <3>2, EffectStep
    <3> QED BY <1>2, <3>3
  <2>2. CASE results[t] = Nil
    <3>1. RecordResult
      BY <1>3, <2>2 DEF vars, evidence, history, Next, Admit, EnforceTimeout, StartHeartbeat, RecordHeartbeat, ProposeDelta, DecideDelta,
     RecordPolicyDecision, GrantApproval, ResumeRun, IssueTicket, ConsumeTicket, RecordToolCall,
     EnterExecuting, RunExecutor, RecordResult, EnterObserving, Verify, RecordProof, CommitSuccess,
     CommitOther, AppendLedgerEvent, CompleteRun, FailWrite, Tick, Crash
    <3> QED BY <1>3, <2>2, <3>1 DEF RecordResult, OpInv, TypeOK, history
  <2> QED BY <2>1, <2>2
<1> QED BY <1>1, <1>2, <1>3 DEF UseInv

\* What was lost stays lost, and only a call that returned loses what it did.
LEMMA LostStep ==
    ASSUME [Next]_vars
    PROVE  /\ lost \subseteq lost'
           /\ UNCHANGED lost \/ (op.pc \in {"returned", "stored"} /\ lost' = lost \cup {op.ticket})
BY DEF vars, history, Next, Admit, EnforceTimeout, StartHeartbeat, RecordHeartbeat, ProposeDelta,
     DecideDelta, RecordPolicyDecision, GrantApproval, ResumeRun, IssueTicket, ConsumeTicket,
     RecordToolCall, EnterExecuting, RunExecutor, RecordResult, EnterObserving, Verify, RecordProof,
     CommitSuccess, CommitOther, AppendLedgerEvent, CompleteRun, FailWrite, Tick, Crash

\* Where the effect of a ticket leaves its run.
Outstanding(t) ==
    LET r == tickets[t].run
    IN /\ status[r] \in PastAuthority \cup {"Executing"}
       /\ status[r] = "Executing" /\ r \in runs =>
             t \in lost \/ (op.pc \in {"returned", "stored"} /\ op.ticket = t)
       /\ \A u \in TicketIds : effects[u] > 0 /\ tickets[u].run = r =>
             u = t \/ u \in lost \/ t \in lost

\* A run with an effect is executing that very call, has lost it, or is past it.
LEMMA EffectInvStep ==
    ASSUME TypeOK, UseInv, EffectInv, OpInv, [Next]_vars
    PROVE  EffectInv'
<1>0. TypeOK' /\ UseInv'
  BY TypeStep, UseInvStep
<1>1. ASSUME NEW u \in TicketIds, effects[u] > 0
      PROVE  tickets[u] \in Ticket /\ tickets[u].run \in Runs /\ tickets'[u] = tickets[u]
  BY <1>1, AuthorityGrows DEF UseInv, TypeOK, Ticket
<1>2. ASSUME NEW outcome \in Outcome, RunExecutor(outcome)
      PROVE  /\ tickets' = tickets /\ lost' = lost
             /\ op.ticket \in TicketIds
             /\ effects' = [effects EXCEPT ![op.ticket] = @ + 1]
             /\ status' = status /\ runs' = runs
             /\ op' = [pc |-> "returned", ticket |-> op.ticket, outcome |-> outcome]
             /\ op.pc = "executing"
  BY <1>2, OpTicket DEF RunExecutor, memory, authority
<1>3. ASSUME UNCHANGED effects, NEW t \in TicketIds, effects'[t] > 0 PROVE Outstanding(t)'
  <2> DEFINE r == tickets[t].run
  <2>1. r \in Runs /\ tickets'[t] = tickets[t] /\ effects[t] > 0 /\ Outstanding(t)
    BY <1>1, <1>3 DEF EffectInv, Outstanding
  <2>2. status[r] \in PastAuthority \cup {"Executing"}
    BY <2>1 DEF Outstanding
  <2>3. status'[r] = status[r] \/ AllowedTransition(status[r], status'[r])
    BY <2>1, StatusStep
  <2>4. status'[r] \in PastAuthority \cup {"Executing"}
        /\ (status'[r] = "Executing" => status[r] = "Executing")
    BY <2>2, <2>3, NilAssumption DEF AllowedTransition, TransitionTable, PastAuthority, Terminal, Closed, RunStatus
  <2>5. ASSUME status'[r] = "Executing", r \in runs', t \notin lost'
        PROVE  op'.pc \in {"returned", "stored"} /\ op'.ticket = t
    <3>1. status[r] = "Executing"
      BY <2>4, <2>5
    <3>2. r \in runs
      BY <2>5, <3>1, NilAssumption DEF RunStatus, vars, memory, Next, Admit, EnforceTimeout, StartHeartbeat,
       RecordHeartbeat, ProposeDelta, DecideDelta, RecordPolicyDecision, GrantApproval, ResumeRun,
       IssueTicket, ConsumeTicket, RecordToolCall, EnterExecuting, RunExecutor, RecordResult,
         EnterObserving, Verify, RecordProof, CommitSuccess, CommitOther, AppendLedgerEvent,
         CompleteRun, FailWrite, Tick, Crash
    <3>3. op.pc \in {"returned", "stored"} /\ op.ticket = t
      BY <2>1, <2>5, <3>1, <3>2, LostStep DEF Outstanding
    <3>0. op # Idle
      BY <3>3 DEF Idle
    <3>4. UNCHANGED op \/ RecordResult \/ EnterObserving \/ FailWrite \/ Crash
      BY <3>0, <3>3 DEF vars, Next, Admit, EnforceTimeout, StartHeartbeat,
       RecordHeartbeat, ProposeDelta, DecideDelta, RecordPolicyDecision, GrantApproval, ResumeRun,
       IssueTicket, ConsumeTicket, RecordToolCall, EnterExecuting, RunExecutor, Verify, RecordProof, CommitSuccess, CommitOther,
         AppendLedgerEvent, CompleteRun, Tick
    <3>5. CASE RecordResult
      BY <2>1, <2>5, <3>3, <3>5 DEF RecordResult, TypeOK, Transition, authority
    <3>6. CASE EnterObserving
      BY <2>1, <2>5, <3>3, <3>6 DEF EnterObserving, TypeOK, Transition, authority
    <3>7. CASE Crash
      BY <2>5, <3>7 DEF Crash
    <3>8. CASE FailWrite
      BY <2>5, <3>3, <3>8 DEF FailWrite
    <3> QED BY <3>3, <3>4, <3>5, <3>6, <3>7, <3>8
  <2>6. \A u \in TicketIds : effects'[u] > 0 /\ tickets'[u].run = tickets'[t].run =>
            u = t \/ u \in lost' \/ t \in lost'
    BY <1>1, <1>3, <2>1, LostStep DEF Outstanding
  <2> QED BY <2>1, <2>4, <2>5, <2>6 DEF Outstanding
<1>4. ASSUME NEW outcome \in Outcome, RunExecutor(outcome), NEW t \in TicketIds, effects'[t] > 0
      PROVE  Outstanding(t)'
  <2>1. /\ tickets' = tickets /\ op.ticket \in TicketIds /\ lost' = lost
        /\ status' = status /\ runs' = runs
        /\ op.pc = "executing" /\ op'.pc = "returned" /\ op'.ticket = op.ticket
        /\ \A u \in TicketIds : u # op.ticket => effects'[u] = effects[u]
    BY <1>2, <1>4 DEF TypeOK
  <2>2. status[tickets[op.ticket].run] = "Executing"
        /\ \A u \in TicketIds :
              effects[u] > 0 /\ tickets[u].run = tickets[op.ticket].run => u \in lost
    BY <2>1 DEF OpInv
  <2>3. CASE t = op.ticket
    BY <2>1, <2>2, <2>3 DEF Outstanding
  <2>4. CASE t # op.ticket
    <3>1. effects[t] > 0 /\ Outstanding(t)
      BY <1>4, <2>1, <2>4 DEF EffectInv, Outstanding
    <3> QED BY <2>1, <2>2, <2>4, <3>1 DEF Outstanding
  <2> QED BY <2>3, <2>4
<1>5. ASSUME NEW t \in lost' PROVE effects'[t] > 0
  <2>1. t \in TicketIds /\ effects[t] > 0
    <3>1. CASE t \in lost
      BY <3>1 DEF EffectInv, TypeOK
    <3>2. CASE t \notin lost
      <4>1. t = op.ticket /\ op.pc \in {"returned", "stored"}
        BY <1>5, <3>2, LostStep
      <4>2. effects[op.ticket] = 1 /\ op.ticket \in TicketIds
        BY <4>1, OpTicket DEF OpInv
      <4> QED BY <4>1, <4>2
    <3> QED BY <3>1, <3>2
  <2>2. ASSUME NEW outcome \in Outcome, RunExecutor(outcome) PROVE effects'[t] > 0
    <3>1. effects \in [TicketIds -> Nat]
      BY DEF TypeOK
    <3> QED BY <1>2, <2>1, <2>2, <3>1
  <2> QED BY <2>1, <2>2, EffectStep
<1>6. \A t \in TicketIds : effects'[t] > 0 => Outstanding(t)'
  BY <1>3, <1>4, EffectStep
<1> QED BY <1>5, <1>6 DEF EffectInv, Outstanding

\* A proof stays tied to a recorded successful result.
LEMMA ProofInvStep ==
    ASSUME TypeOK, UseInv, OpInv, ProofInv, [Next]_vars
    PROVE  ProofInv'
<1> SUFFICES ASSUME NEW p \in ProofIds, proofs'[p] # Nil
             PROVE  (LET t == proofs[p].ticket
                     IN /\ tickets[t] # Nil
                        /\ tickets[t].run = proofs[p].run
                        /\ tickets[t].policy = proofs[p].policy
                        /\ results[t] # Nil
                        /\ results[t].success)'
  BY DEF ProofInv
<1>1. CASE proofs[p] # Nil
  <2>1. proofs'[p] = proofs[p] /\ proofs[p].ticket \in TicketIds
    BY <1>1, EvidenceGrows DEF TypeOK, Proof
  <2> QED BY <1>1, <2>1, AuthorityGrows, EvidenceGrows DEF ProofInv
<1>2. CASE proofs[p] = Nil
  <2>1. PICK q \in ProofIds : RecordProof(q)
    BY <1>2 DEF vars, evidence, history, Next, Admit, EnforceTimeout, StartHeartbeat, RecordHeartbeat, ProposeDelta, DecideDelta,
     RecordPolicyDecision, GrantApproval, ResumeRun, IssueTicket, ConsumeTicket, RecordToolCall,
     EnterExecuting, RunExecutor, RecordResult, EnterObserving, Verify, RecordProof, CommitSuccess,
     CommitOther, AppendLedgerEvent, CompleteRun, FailWrite, Tick, Crash
  <2>2. op.ticket \in TicketIds /\ tickets[op.ticket] \in Ticket
    BY <2>1, OpTicket DEF RecordProof
  <2>3. proofs'[p] = [run |-> tickets[op.ticket].run, policy |-> tickets[op.ticket].policy,
                      ticket |-> op.ticket]
    BY <1>2, <2>1 DEF RecordProof, TypeOK
  <2> QED BY <2>1, <2>2, <2>3, NilAssumption DEF RecordProof, OpInv, authority
<1> QED BY <1>1, <1>2

\* A recorded denial keeps its run blocked.
LEMMA DenyInvStep ==
    ASSUME TypeOK, DenyInv, OpInv, [Next]_vars
    PROVE  DenyInv'
<1> SUFFICES ASSUME NEW d \in PolicyIds, policies'[d] # Nil, policies'[d].decision = "Deny"
             PROVE  status'[policies'[d].run] = "Blocked"
  BY DEF DenyInv
<1>1. CASE policies[d] # Nil
  <2>1. policies'[d] = policies[d] /\ policies[d].run \in Runs
    BY <1>1, AuthorityGrows DEF TypeOK, Policy
  <2>2. status[policies[d].run] = "Blocked"
    BY <1>1, <2>1 DEF DenyInv
  <2> QED BY <2>1, <2>2, StatusStep, NilAssumption DEF AllowedTransition, TransitionTable, RunStatus
<1>2. CASE policies[d] = Nil
  <2>1. PICK e \in PolicyIds : RecordPolicyDecision(e)
    BY <1>2 DEF vars, authority, Next, Admit, EnforceTimeout, StartHeartbeat, RecordHeartbeat, ProposeDelta, DecideDelta,
     RecordPolicyDecision, GrantApproval, ResumeRun, IssueTicket, ConsumeTicket, RecordToolCall,
     EnterExecuting, RunExecutor, RecordResult, EnterObserving, Verify, RecordProof, CommitSuccess,
     CommitOther, AppendLedgerEvent, CompleteRun, FailWrite, Tick, Crash
  <2>2. policies'[d] = op.policy
    BY <1>2, <2>1 DEF RecordPolicyDecision, TypeOK
  <2> QED BY <2>1, <2>2 DEF RecordPolicyDecision, OpInv
<1> QED BY <1>1, <1>2

\* A failed write stays failed.
LEMMA UnfinishedGrows ==
    ASSUME [Next]_vars
    PROVE  unfinished \subseteq unfinished'
BY DEF vars, history, Next, Admit, EnforceTimeout, StartHeartbeat, RecordHeartbeat, ProposeDelta,
     DecideDelta, RecordPolicyDecision, GrantApproval, ResumeRun, IssueTicket, ConsumeTicket,
     RecordToolCall, EnterExecuting, RunExecutor, RecordResult, EnterObserving, Verify, RecordProof,
     CommitSuccess, CommitOther, AppendLedgerEvent, CompleteRun, FailWrite, Tick, Crash

\* The ledger and the run table stay in agreement.
LEMMA LedgerInvStep ==
    ASSUME TypeOK, UseInv, LedgerInv, OpInv, [Next]_vars
    PROVE  LedgerInv'
<1> DEFINE Followed(i) ==
             /\ ProofMatches(ledger[i])
             /\ \/ status[ledger[i].run] \in {"Persisting", "Completed"}
                \/ status[ledger[i].run] = "TimedOut" /\ ledger[i].run \in unfinished
             /\ ledger[i].run \in runs =>
                   \/ status[ledger[i].run] = "Completed"
                   \/ ledger[i].run \in unfinished
                   \/ op.pc = "appended" /\ op.event.run = ledger[i].run
<1>1. ASSUME NEW i \in Successes
      PROVE  ledger[i] \in SuccessEvent /\ ledger[i].run \in Runs /\ ledger[i].proof \in ProofIds
  <2>1. ledger \in Seq(Event) /\ i \in DOMAIN ledger /\ ledger[i].result = "Success"
    BY <1>1 DEF Successes, TypeOK
  <2>2. ledger[i] \in Event
    BY <2>1
  <2>3. ledger[i] \in SuccessEvent
    BY <2>1, <2>2 DEF Event, OtherEvent
  <2> QED BY <2>3 DEF SuccessEvent
<1>2. \A i \in Successes : i \in Successes' /\ ledger'[i] = ledger[i]
  BY LedgerGrows DEF Successes
<1>3. ASSUME NEW i \in Successes PROVE Followed(i)'
  <2> DEFINE r == ledger[i].run
  <2>1. r \in Runs /\ ledger'[i] = ledger[i]
    BY <1>1, <1>2, <1>3
  <2>2. ProofMatches(ledger[i])'
    <3>1. ProofMatches(ledger[i])
      BY <1>3 DEF LedgerInv
    <3>2. proofs[ledger[i].proof] # Nil => proofs'[ledger[i].proof] = proofs[ledger[i].proof]
      BY <1>1, <1>3, EvidenceGrows
    <3> QED BY <2>1, <3>1, <3>2 DEF ProofMatches
  <2>3. /\ \/ status[r] \in {"Persisting", "Completed"}
           \/ status[r] = "TimedOut" /\ r \in unfinished
        /\ r \in runs => \/ status[r] = "Completed"
                         \/ r \in unfinished
                         \/ op.pc = "appended" /\ op.event.run = r
    BY <1>3 DEF LedgerInv
  <2>4. CASE status[r] = "Completed"
    BY <2>1, <2>2, <2>4, StatusStep, NilAssumption DEF AllowedTransition, TransitionTable, RunStatus
  <2>5. CASE status[r] = "TimedOut" /\ r \in unfinished
    BY <2>1, <2>2, <2>5, StatusStep, UnfinishedGrows, NilAssumption
       DEF AllowedTransition, TransitionTable, RunStatus
  <2>6. CASE status[r] = "Persisting" /\ (r \notin runs \/ r \in unfinished)
    <3>1. r \notin runs' \/ r \in unfinished'
      <4>1. r \notin runs => r \notin runs'
        BY <2>1, <2>6, NilAssumption DEF RunStatus, Admit, Crash, vars, memory, Next, EnforceTimeout,
         StartHeartbeat, RecordHeartbeat, ProposeDelta, DecideDelta, RecordPolicyDecision,
         GrantApproval, ResumeRun, IssueTicket, ConsumeTicket, RecordToolCall, EnterExecuting,
         RunExecutor, RecordResult, EnterObserving, Verify, RecordProof, CommitSuccess, CommitOther,
         AppendLedgerEvent, CompleteRun, FailWrite, Tick
      <4> QED BY <2>6, <4>1, UnfinishedGrows
    <3>2. status'[r] \in {"Persisting", "Completed"} \/ (status'[r] = "TimedOut" /\ r \in unfinished')
      <4>1. ASSUME NEW x, NEW to, Transition(x, to), to \in RunStatus \ {"Failed", "RolledBack", "TimedOut"}
            PROVE  status'[r] \in {"Persisting", "Completed"}
        BY <2>1, <2>6, <4>1, NilAssumption DEF Transition, TypeOK, AllowedTransition, TransitionTable, RunStatus
      <4>2. ASSUME NEW x \in Runs, EnforceTimeout(x)
            PROVE  status'[r] = status[r] \/ (status'[r] = "TimedOut" /\ r \in unfinished')
        BY <2>1, <2>6, <4>2, UnfinishedGrows DEF EnforceTimeout, Transition, TypeOK
      <4>3. CASE RecordResult
        BY <2>1, <2>6, <4>3 DEF RecordResult, Transition, TypeOK, OpInv
      <4> QED
        BY <2>6, <4>1, <4>2, <4>3 DEF RunStatus, StatusFor, vars, Next, Admit, Crash,
           StartHeartbeat, RecordHeartbeat, ProposeDelta, DecideDelta, RecordPolicyDecision,
           GrantApproval, ResumeRun, IssueTicket, ConsumeTicket, RecordToolCall, EnterExecuting,
           RunExecutor, EnterObserving, Verify, RecordProof, CommitSuccess, CommitOther,
           AppendLedgerEvent, CompleteRun, FailWrite, Tick
    <3> QED BY <2>1, <2>2, <3>1, <3>2
  <2>7. CASE op.pc = "appended" /\ op.event.run = r /\ status[r] = "Persisting"
    <3>1. op # Idle
      BY <2>7 DEF Idle
    <3>2. UNCHANGED <<op, status>> \/ CompleteRun \/ FailWrite \/ Crash
      BY <2>7, <3>1 DEF vars, Next, Admit, EnforceTimeout, StartHeartbeat, RecordHeartbeat,
         ProposeDelta, DecideDelta, RecordPolicyDecision, GrantApproval, ResumeRun, IssueTicket,
         ConsumeTicket, RecordToolCall, EnterExecuting, RunExecutor, RecordResult, EnterObserving,
         Verify, RecordProof, CommitSuccess, CommitOther, AppendLedgerEvent, Tick
    <3>3. CASE CompleteRun
      BY <2>1, <2>2, <2>7, <3>3 DEF CompleteRun, Transition, TypeOK
    <3>4. CASE Crash
      BY <2>1, <2>2, <2>7, <3>4 DEF Crash
    <3>5. CASE FailWrite
      BY <2>1, <2>2, <2>7, <3>5 DEF FailWrite
    <3> QED BY <2>1, <2>2, <2>7, <3>2, <3>3, <3>4, <3>5
  <2> QED BY <2>3, <2>4, <2>5, <2>6, <2>7
<1>4. ASSUME NEW i \in Successes', i \notin Successes PROVE Followed(i)'
  <2>1. AppendLedgerEvent /\ ledger'[i] = op.event
    BY <1>4, LedgerGrows DEF Successes
  <2>2. op.event \in SuccessEvent
    BY <1>4, <2>1 DEF AppendLedgerEvent, Successes, TypeOK, Op, Idle, Event, OtherEvent
  <2>3. ProofMatches(op.event) /\ status[op.event.run] = "Persisting"
    BY <2>1, <2>2 DEF AppendLedgerEvent, OpInv, SuccessEvent
  <2>4. op'.pc = "appended" /\ op'.event = op.event
    BY <2>1, <2>2 DEF AppendLedgerEvent, SuccessEvent
  <2> QED BY <2>1, <2>3, <2>4 DEF AppendLedgerEvent, ProofMatches, evidence, history
<1>5. ASSUME NEW r \in Runs, status'[r] = "Completed"
      PROVE  \E i \in Successes' : ledger'[i].run = r
  <2>1. CASE status[r] = "Completed"
    BY <1>2, <2>1 DEF LedgerInv
  <2>2. CASE status[r] # "Completed"
    <3>1. ASSUME NEW x, NEW to, Transition(x, to), to # "Completed" PROVE status'[r] # "Completed"
      BY <2>2, <3>1 DEF Transition, TypeOK
    <3>2. CompleteRun
      BY <1>5, <2>2, <3>1 DEF StatusFor, vars, Next, Admit, EnforceTimeout, Crash,
         StartHeartbeat, RecordHeartbeat, ProposeDelta, DecideDelta, RecordPolicyDecision,
         GrantApproval, ResumeRun, IssueTicket, ConsumeTicket, RecordToolCall, EnterExecuting,
         RunExecutor, RecordResult, EnterObserving, Verify, RecordProof, CommitSuccess, CommitOther,
         AppendLedgerEvent, FailWrite, Tick
    <3>3. op.event.run = r /\ op.pc = "appended"
      BY <1>5, <2>2, <3>2 DEF CompleteRun, Transition, TypeOK
    <3> QED BY <1>2, <3>3 DEF OpInv
  <2> QED BY <2>1, <2>2
<1> QED BY <1>3, <1>4, <1>5 DEF LedgerInv

\* What the running method has established so far stays established.
LEMMA OpInvStep ==
    ASSUME TypeOK, UseInv, EffectInv, OpInv, [Next]_vars
    PROVE  OpInv'
<1>1. ASSUME op'.pc = "idle" PROVE OpInv'
  BY <1>1 DEF OpInv
<1>2. CASE UNCHANGED vars
  BY <1>2 DEF vars, OpInv, Successes, ProofMatches
<1>3. CASE Tick
  BY <1>3 DEF Tick, memory, authority, evidence, history, OpInv, Successes, ProofMatches
<1>4. CASE DecideDelta
  <2>1. op.policy.run \in Runs
    BY <1>4 DEF TypeOK, DecideDelta, Op, Idle, Policy
  <2> QED BY <1>1, <1>4, <2>1 DEF DecideDelta, Transition, StatusFor, TypeOK, OpInv, Idle, memory
<1>5. ASSUME NEW t \in TicketIds, ConsumeTicket(t) PROVE OpInv'
  <2>1. effects[t] = 0
    BY <1>5 DEF ConsumeTicket, UseInv, TypeOK
  <2> QED BY <1>5, <2>1 DEF ConsumeTicket, memory, authority, history, OpInv
<1>6. CASE RecordToolCall
  <2>1. op.ticket \in TicketIds /\ tickets[op.ticket].run \in Runs
    BY <1>6, OpTicket DEF RecordToolCall, Ticket
  <2>2. CASE op' = Idle
    BY <1>1, <2>2 DEF Idle
  <2>3. CASE Spend(tickets[op.ticket].run, "tool_calls", Contract[tickets[op.ticket].run].max_tool_calls)
             /\ op' = [pc |-> "called", ticket |-> op.ticket]
    <3>1. usage[tickets[op.ticket].run] \in Usage
      BY <2>1 DEF TypeOK
    <3>2. usage'[tickets[op.ticket].run].tool_calls > 0
      BY <2>1, <2>3, <3>1 DEF Spend, TypeOK, Usage
    <3> QED BY <1>6, <2>1, <2>3, <3>2 DEF RecordToolCall, OpInv, memory, authority, history
  <2> QED BY <1>6, <2>2, <2>3 DEF RecordToolCall
<1>7. CASE EnterExecuting
  <2>1. op.ticket \in TicketIds /\ tickets[op.ticket].run \in Runs
    BY <1>7, OpTicket DEF EnterExecuting, Ticket
  <2>2. CASE op' = Idle
    BY <1>1, <2>2 DEF Idle
  <2>3. CASE Transition(tickets[op.ticket].run, "Executing")
             /\ op' = [pc |-> "executing", ticket |-> op.ticket]
    <3>1. status'[tickets[op.ticket].run] = "Executing"
      BY <2>1, <2>3 DEF Transition, TypeOK
    <3>2. ASSUME NEW t \in TicketIds, effects[t] > 0, tickets[t].run = tickets[op.ticket].run
          PROVE  t \in lost
      <4>1. status[tickets[t].run] \in PastAuthority \cup {"Executing"}
            /\ (status[tickets[t].run] # "Executing" \/ tickets[t].run \notin runs \/ t \in lost)
        BY <1>7, <3>2 DEF EffectInv, EnterExecuting
      <4>2. AllowedTransition(status[tickets[t].run], "Executing") /\ tickets[t].run \in runs
        BY <1>7, <2>3, <3>2 DEF Transition, EnterExecuting, OpInv
      <4> QED BY <4>1, <4>2, NilAssumption
              DEF AllowedTransition, TransitionTable, PastAuthority, Terminal, Closed, RunStatus
    <3> QED BY <1>7, <2>1, <2>3, <3>1, <3>2 DEF EnterExecuting, OpInv, memory, authority, history
  <2> QED BY <1>7, <2>2, <2>3 DEF EnterExecuting
<1>8. ASSUME NEW outcome \in Outcome, RunExecutor(outcome) PROVE OpInv'
  <2>1. op.ticket \in TicketIds
    BY <1>8, OpTicket DEF RunExecutor
  <2> QED BY <1>8, <2>1 DEF RunExecutor, OpInv, TypeOK, memory, authority
<1>9. CASE RecordResult
  <2>1. op.ticket \in TicketIds
    BY <1>9, OpTicket DEF RecordResult
  <2>2. CASE op' = Idle
    BY <1>1, <2>2 DEF Idle
  <2>3. CASE /\ results' = [results EXCEPT ![op.ticket] = [success |-> op.outcome = "success"]]
             /\ op' = [pc |-> "stored", ticket |-> op.ticket]
             /\ UNCHANGED status
    <3>1. [success |-> op.outcome = "success"] \in Result
      BY Zenon DEF Result
    <3>2. results'[op.ticket] # Nil
      BY <2>1, <2>3, <3>1, NilAssumption DEF TypeOK
    <3> QED BY <1>9, <2>1, <2>3, <3>2 DEF RecordResult, OpInv, memory, authority, history
  <2> QED BY <1>9, <2>2, <2>3 DEF RecordResult
<1>10. ASSUME NEW t \in TicketIds, Verify(t) PROVE OpInv'
  BY <1>10 DEF Verify, OpInv, authority, evidence, history
<1>11. ASSUME NEW d \in PolicyIds, NEW t \in TicketIds, NEW p \in ProofIds,
             NEW y \in DeltaIds \cup OtherDeltas, CommitSuccess(d, t, p, y)
       PROVE  OpInv'
  <2>1. tickets[t] \in Ticket /\ tickets[t].run \in Runs
    BY <1>11 DEF CommitSuccess, TypeOK, Ticket
  <2> QED BY <1>11, <2>1 DEF CommitSuccess, Transition, TypeOK, OpInv, ProofMatches, evidence, history
<1>12. ASSUME NEW r \in Runs, NEW result \in {"Failed", "Blocked"}, CommitOther(r, result) PROVE OpInv'
  BY <1>12 DEF CommitOther, Transition, TypeOK, OpInv
<1>13. ASSUME NEW r \in Runs, StartHeartbeat(r) PROVE OpInv'
  BY <1>13 DEF StartHeartbeat, memory, OpInv
<1>14. ASSUME NEW r \in Runs, NEW y \in DeltaIds, NEW c \in Caps, NEW risk \in DeltaRisks,
             NEW config \in Configs, ProposeDelta(r, y, c, risk, config)
       PROVE  OpInv'
  BY <1>1, <1>14 DEF ProposeDelta, Idle, memory, OpInv
<1>15. ASSUME NEW d \in PolicyIds, NEW g \in GrantIds, GrantApproval(d, g) PROVE OpInv'
  BY <1>15 DEF GrantApproval, memory, OpInv
<1>16. CASE AppendLedgerEvent
  <2>1. CASE op' = Idle
    BY <1>1, <2>1 DEF Idle
  <2>2. CASE op.event.result = "Success" /\ op' = [pc |-> "appended", event |-> op.event]
    <3>1. Len(ledger) + 1 \in Successes' /\ ledger'[Len(ledger) + 1] = op.event
      BY <1>16, <2>2, LedgerGrows DEF AppendLedgerEvent, Successes, TypeOK
    <3> QED BY <1>16, <2>2, <3>1 DEF AppendLedgerEvent, OpInv
  <2> QED BY <1>16, <2>1, <2>2 DEF AppendLedgerEvent
<1>17. CASE FailWrite
  BY <1>1, <1>17 DEF FailWrite, Idle
<1> QED
  BY <1>1, <1>2, <1>3, <1>4, <1>5, <1>6, <1>7, <1>8, <1>9, <1>10, <1>11, <1>12, <1>13, <1>14,
     <1>15, <1>16, <1>17
     DEF Next, Idle, Admit, EnforceTimeout, RecordHeartbeat, RecordPolicyDecision, ResumeRun, IssueTicket, EnterObserving, RecordProof,
         CompleteRun, Crash

-----------------------------------------------------------------------------
(* The theorems. *)

\* An empty store satisfies the inductive invariant.
LEMMA InitIInv == Init => IInv
<1> SUFFICES ASSUME Init PROVE IInv
  OBVIOUS
<1>1. TypeOK
  BY DEF Init, TypeOK, Op, Usage
<1>2. TicketInv /\ UseInv /\ EffectInv /\ ProofInv /\ DenyInv
  BY DEF Init, TicketInv, UseInv, EffectInv, ProofInv, DenyInv
<1>3. LedgerInv
  BY NilAssumption DEF Init, LedgerInv, Successes, RunStatus
<1>4. OpInv
  BY DEF Init, OpInv, Idle
<1> QED BY <1>1, <1>2, <1>3, <1>4 DEF IInv

\* The inductive invariant holds of every reachable state.
THEOREM Invariance == Spec => []IInv
<1>1. IInv /\ [Next]_vars => IInv'
  BY TypeStep, TicketInvStep, UseInvStep, EffectInvStep, ProofInvStep, LedgerInvStep, DenyInvStep,
     OpInvStep DEF IInv
<1> QED BY <1>1, InitIInv, PTL DEF Spec

\* Every variable of the kernel and every table of its store keeps its type.
THEOREM TypeCorrect == Spec => []TypeOK
<1>1. IInv => TypeOK
  BY DEF IInv
<1> QED BY <1>1, Invariance, PTL

\* A committed success event names a decision, a ticket and a proof of the tables.
LEMMA SuccessTypes ==
    ASSUME TypeOK, NEW i \in Successes
    PROVE  ledger[i] \in SuccessEvent
<1>1. ledger \in Seq(Event) /\ i \in DOMAIN ledger /\ ledger[i].result = "Success"
  BY DEF Successes, TypeOK
<1>2. ledger[i] \in Event
  BY <1>1
<1> QED BY <1>1, <1>2 DEF Event, OtherEvent

\* A committed success event agrees with its ticket.
LEMMA SuccessTicket ==
    ASSUME IInv, NEW i \in Successes
    PROVE  /\ ledger[i].ticket \in TicketIds
           /\ ledger[i].policy \in PolicyIds
           /\ tickets[ledger[i].ticket] # Nil
           /\ tickets[ledger[i].ticket].run = ledger[i].run
           /\ tickets[ledger[i].ticket].policy = ledger[i].policy
           /\ results[ledger[i].ticket] # Nil
           /\ results[ledger[i].ticket].success
           /\ effects[ledger[i].ticket] = 1
<1>1. ledger[i] \in SuccessEvent
  BY SuccessTypes DEF IInv
<1>2. ProofMatches(ledger[i])
  BY DEF IInv, LedgerInv
<1> QED BY <1>1, <1>2 DEF SuccessEvent, ProofMatches, IInv, ProofInv, UseInv

\* No success event reaches the ledger without proof, result, consumed ticket and a
\* decision, granted when it had to be, that allows it.
THEOREM SuccessAuthorised == Spec => []SuccessIsAuthorised
<1>1. ASSUME IInv, NEW i \in Successes
      PROVE  /\ Chained(ledger[i])
             /\ ledger[i].ticket \in consumed
             /\ effects[ledger[i].ticket] = 1
             /\ policies[ledger[i].policy].decision = "RequireApproval" => Granted(ledger[i].policy)
  <2> DEFINE e == ledger[i]
  <2>1. Backed(e.ticket, e.policy)
    BY <1>1, SuccessTicket DEF IInv, TicketInv
  <2>2. ProofMatches(e)
    BY <1>1 DEF IInv, LedgerInv
  <2>3. e.ticket \in consumed
    BY <1>1, SuccessTicket DEF IInv, UseInv
  <2> QED BY <1>1, <2>1, <2>2, <2>3, SuccessTicket DEF Chained, Backed
<1>2. IInv => SuccessIsAuthorised
  BY <1>1 DEF SuccessIsAuthorised
<1> QED BY <1>2, Invariance, PTL

\* Whatever tickets, decisions, crashes, failing writes and retries a run sees, each of
\* its tickets is executed once at most, and a second ticket only when a write after the
\* executor of another had returned has failed with the process alive.
THEOREM AgainOnlyWhenLost == Spec => []ExecutesAgainOnlyWhenLost
<1>1. IInv => ExecutesAgainOnlyWhenLost
  BY DEF IInv, TypeOK, UseInv, EffectInv, ExecutesAgainOnlyWhenLost
<1> QED BY <1>1, Invariance, PTL

\* An executor is invoked only under a decision of its run that allows it.
THEOREM EffectAuthorised == Spec => []EffectIsAuthorised
<1>1. ASSUME IInv, NEW t \in TicketIds, effects[t] > 0
      PROVE  /\ policies[tickets[t].policy].run = tickets[t].run
             /\ policies[tickets[t].policy].decision # "Deny"
             /\ policies[tickets[t].policy].decision = "RequireApproval" => Granted(tickets[t].policy)
             /\ usage[tickets[t].run].tool_calls > 0
  <2>1. tickets[t] \in Ticket /\ tickets[t] # Nil /\ usage[tickets[t].run].tool_calls > 0
    BY <1>1 DEF IInv, TypeOK, UseInv
  <2> QED BY <1>1, <2>1 DEF IInv, TicketInv, Backed, Ticket
<1>2. IInv => EffectIsAuthorised
  BY <1>1 DEF EffectIsAuthorised
<1> QED BY <1>2, Invariance, PTL

\* A run with a recorded denial is blocked and has no success in the ledger.
THEOREM DenialFinal == Spec => []DenialIsFinal
<1>1. IInv => DenialIsFinal
  BY DEF IInv, DenyInv, LedgerInv, DenialIsFinal
<1> QED BY <1>1, Invariance, PTL

\* The run table and the ledger agree on which runs completed, but for the runs whose
\* last write failed and that a late call timed out.
THEOREM CompletedMatches == Spec => []CompletedMatchesLedger
<1>1. IInv => CompletedMatchesLedger
  BY DEF IInv, LedgerInv, CompletedMatchesLedger
<1> QED BY <1>1, Invariance, PTL

\* A terminal status is never left.
THEOREM TerminalFinal == Spec => TerminalIsFinal
<1>1. ASSUME IInv, [Next]_vars, NEW r \in Runs, status[r] \in Terminal
      PROVE  status'[r] = status[r]
  BY <1>1, StatusStep, NilAssumption
     DEF IInv, AllowedTransition, TransitionTable, Terminal, Closed, RunStatus
<1>2. IInv /\ [Next]_vars => [\A r \in Runs : status[r] \in Terminal => status'[r] = status[r]]_vars
  BY <1>1
<1> QED BY <1>2, Invariance, PTL DEF Spec, TerminalIsFinal

\* A run abandoned by a crash before its result was observed never moves again.
THEOREM OrphanFrozen == Spec => OrphanIsFrozen
<1> DEFINE Early == {"Admitted", "RunningHeartbeat", "AwaitingApproval", "Executing"}
<1>1. ASSUME IInv, [Next]_vars, NEW r \in Runs \ runs, status[r] \in Early
      PROVE  status'[r] = status[r] /\ \A t \in TicketsOf(r) : effects'[t] = effects[t]
  <2>1. TypeOK /\ UseInv /\ OpInv
    BY <1>1 DEF IInv
  <2>2. ASSUME NEW x, NEW to, Transition(x, to), x \in runs \/ ~AllowedTransition(status[r], to)
        PROVE  status'[r] = status[r]
    BY <1>1, <2>1, <2>2 DEF Transition, TypeOK
  <2>3. \A to \in {"Admitted", "Verifying", "Persisting", "Completed"} :
            status[r] = to \/ ~AllowedTransition(status[r], to)
    BY <1>1, NilAssumption DEF AllowedTransition, TransitionTable, RunStatus
  <2>4. ASSUME NEW x, NEW to \in {"Admitted", "Verifying", "Persisting", "Completed"}, Transition(x, to)
        PROVE  status'[r] = status[r]
    BY <1>1, <2>1, <2>2, <2>3, <2>4 DEF Transition, TypeOK
  <2>5. status'[r] = status[r]
    <3>1. CASE UNCHANGED status
      BY <3>1
    <3>2. CASE DecideDelta
      BY <2>1, <2>2, <3>2 DEF DecideDelta, OpInv
    <3>3. CASE EnterExecuting
      BY <2>1, <2>2, <3>3 DEF EnterExecuting, OpInv
    <3>4. CASE RecordResult
      BY <2>1, <2>2, <3>4 DEF RecordResult, OpInv
    <3>5. CASE EnterObserving
      BY <2>1, <2>2, <3>5 DEF EnterObserving, OpInv
    <3>6. CASE ResumeRun
      BY <2>1, <2>2, <3>6 DEF ResumeRun, OpInv
    <3> QED
      BY <1>1, <2>2, <2>4, <3>1, <3>2, <3>3, <3>4, <3>5, <3>6
         DEF vars, Next, Admit, EnforceTimeout, StartHeartbeat, RecordHeartbeat, ProposeDelta,
             RecordPolicyDecision, GrantApproval, IssueTicket, ConsumeTicket, RecordToolCall,
             RunExecutor, Verify, RecordProof, CommitSuccess, CommitOther, AppendLedgerEvent,
             CompleteRun, FailWrite, Tick, Crash
  <2>6. ASSUME NEW t \in TicketsOf(r) PROVE effects'[t] = effects[t]
    <3>1. ASSUME NEW outcome \in Outcome, RunExecutor(outcome) PROVE effects'[t] = effects[t]
      BY <1>1, <2>1, <2>6, <3>1 DEF RunExecutor, OpInv, TypeOK, TicketsOf
    <3> QED BY <1>1, <3>1, EffectStep
  <2> QED BY <2>5, <2>6
<1>2. IInv /\ [Next]_vars =>
        [\A r \in Runs \ runs : status[r] \in Early =>
            /\ status'[r] = status[r]
            /\ \A t \in TicketsOf(r) : effects'[t] = effects[t]]_vars
  BY <1>1
<1> QED BY <1>2, Invariance, PTL DEF Spec, OrphanIsFrozen

\* Terminal runs and abandoned runs keep their status.
THEOREM StatusKept == Spec => StatusIsKept
BY TerminalFinal, OrphanFrozen, PTL DEF StatusIsKept

-----------------------------------------------------------------------------
(* Budgets: what was bought is counted, and what was counted was paid for.    *)

Paid(r) == TicketsOf(r) \cap consumed
Recorded(r) == {d \in PolicyIds : policies[d] # Nil /\ policies[d].run = r}

\* A ticket is consumed whose call is not counted yet; a step is counted whose
\* decision is not recorded yet.
Uncounted(r) == op.pc = "consumed" /\ tickets[op.ticket].run = r
Unrecorded(r) == op.pc \in {"stepped", "decided"} /\ op.policy.run = r

\* The executor of a counted call is still to be invoked.
Unused(r) == op.pc \in {"called", "executing"} /\ tickets[op.ticket].run = r

Used(r) == {t \in TicketsOf(r) : effects[t] > 0}

EffectsAreCalls(r) ==
    /\ IsFiniteSet(Used(r))
    /\ Cardinality(Used(r)) + (IF Unused(r) THEN 1 ELSE 0) <= usage[r].tool_calls
CallsArePaid(r) ==
    /\ IsFiniteSet(Paid(r))
    /\ usage[r].tool_calls + (IF Uncounted(r) THEN 1 ELSE 0) <= Cardinality(Paid(r))
StepsAreCounted(r) ==
    /\ IsFiniteSet(Recorded(r))
    /\ Cardinality(Recorded(r)) + (IF Unrecorded(r) THEN 1 ELSE 0) <= usage[r].steps
WithinContract(r) ==
    /\ usage[r].tool_calls <= Contract[r].max_tool_calls
    /\ usage[r].steps <= Contract[r].max_steps
    /\ usage[r].heartbeats <= Contract[r].max_heartbeats

BudgetInv ==
    \A r \in Runs : EffectsAreCalls(r) /\ CallsArePaid(r) /\ StepsAreCounted(r) /\ WithinContract(r)

\* increment_counter adds one to one counter of one run, below its maximum.
LEMMA SpendCounts ==
    ASSUME TypeOK, NEW x \in Runs, NEW counter \in {"steps", "heartbeats", "tool_calls"},
           NEW max \in Nat, Spend(x, counter, max), NEW r \in Runs
    PROVE  /\ usage[r] \in Usage /\ usage'[r] \in Usage
           /\ \A c \in {"steps", "heartbeats", "tool_calls"} :
                 usage'[r][c] = IF c = counter /\ r = x THEN usage[r][c] + 1 ELSE usage[r][c]
           /\ usage'[x][counter] <= max
<1>1. usage[x] \in Usage /\ usage[r] \in Usage
  BY DEF TypeOK
<1>2. usage'[x] = [usage[x] EXCEPT ![counter] = @ + 1] /\ (r # x => usage'[r] = usage[r])
  BY DEF Spend, TypeOK
<1>3. usage'[x] \in Usage
  BY <1>1, <1>2 DEF Usage
<1>4. usage[x][counter] < max /\ usage[x][counter] \in Nat
  BY <1>1 DEF Spend, Usage
<1>5. usage'[x][counter] = usage[x][counter] + 1
  BY <1>1, <1>2 DEF Usage
<1>6. \A c \in {"steps", "heartbeats", "tool_calls"} : c # counter => usage'[x][c] = usage[x][c]
  BY <1>1, <1>2 DEF Usage
<1>7. \A c \in {"steps", "heartbeats", "tool_calls"} :
         usage'[r][c] = IF c = counter /\ r = x THEN usage[r][c] + 1 ELSE usage[r][c]
  BY <1>2, <1>5, <1>6
<1>8. usage'[x][counter] <= max
  BY <1>4, <1>5
<1> QED
  BY <1>1, <1>2, <1>3, <1>7, <1>8

\* Only a step of the contract, of one run, is counted; the maxima are those of
\* the contracts.
LEMMA WithinContractStep ==
    ASSUME IInv, [Next]_vars, NEW r \in Runs, WithinContract(r)
    PROVE  WithinContract(r)'
<1> USE DEF IInv
<1>1. CASE UNCHANGED usage
  BY <1>1 DEF WithinContract
<1>2. ASSUME NEW x \in Runs, NEW counter \in {"steps", "heartbeats", "tool_calls"},
             NEW max, Spend(x, counter, max),
             \/ counter = "steps" /\ max = Contract[x].max_steps
             \/ counter = "heartbeats" /\ max = Contract[x].max_heartbeats
             \/ counter = "tool_calls" /\ max = Contract[x].max_tool_calls
      PROVE  WithinContract(r)'
  <2>1. max \in Nat
    BY <1>2, ContractAssumption
  <2>2. /\ \A c \in {"steps", "heartbeats", "tool_calls"} :
              usage'[r][c] = IF c = counter /\ r = x THEN usage[r][c] + 1 ELSE usage[r][c]
        /\ usage'[x][counter] <= max
    BY <1>2, <2>1, SpendCounts
  <2> QED BY <1>2, <2>2 DEF WithinContract
<1>3. CASE RecordHeartbeat
  <2>1. op.run \in Runs
    BY <1>3 DEF TypeOK, RecordHeartbeat, Op, Idle
  <2> QED BY <1>1, <1>2, <1>3, <2>1 DEF RecordHeartbeat
<1>4. ASSUME NEW x \in Runs, NEW y \in DeltaIds, NEW c \in Caps, NEW risk \in DeltaRisks,
             NEW config \in Configs, ProposeDelta(x, y, c, risk, config)
      PROVE  WithinContract(r)'
  BY <1>2, <1>4 DEF ProposeDelta
<1>5. CASE RecordToolCall
  <2>1. tickets[op.ticket].run \in Runs
    BY <1>5, OpTicket DEF RecordToolCall, Ticket
  <2> QED BY <1>1, <1>2, <1>5, <2>1 DEF RecordToolCall
<1> QED
  BY <1>1, <1>3, <1>4, <1>5 DEF vars, Next, Admit, EnforceTimeout, StartHeartbeat, DecideDelta,
     RecordPolicyDecision, GrantApproval, ResumeRun, IssueTicket, ConsumeTicket,
     EnterExecuting, RunExecutor, RecordResult, EnterObserving, Verify, RecordProof, CommitSuccess,
     CommitOther, AppendLedgerEvent, CompleteRun, FailWrite, Tick, Crash

\* Another counter, or the counter of another run, is no matter.
LEMMA SpendApart ==
    ASSUME TypeOK, NEW x \in Runs, NEW counter \in {"steps", "heartbeats", "tool_calls"},
           NEW max \in Nat, Spend(x, counter, max), NEW r \in Runs,
           NEW other \in {"steps", "heartbeats", "tool_calls"}, other # counter \/ x # r
    PROVE  usage'[r][other] = usage[r][other]
BY SpendCounts

\* Every other write leaves the counters, the tickets and the decisions alone,
\* and is not between a purchase and its record.
Quiet ==
    /\ UNCHANGED <<usage, policies, tickets, consumed>>
    /\ UNCHANGED op \/ op'.pc \notin {"consumed", "stepped", "decided"}

LEMMA QuietStep ==
    ASSUME [Next]_vars
    PROVE  \/ RecordHeartbeat
           \/ \E x \in Runs, y \in DeltaIds, c \in Caps, risk \in DeltaRisks, config \in Configs :
                 ProposeDelta(x, y, c, risk, config)
           \/ DecideDelta
           \/ \E d \in PolicyIds : RecordPolicyDecision(d)
           \/ \E d \in PolicyIds, t \in TicketIds : IssueTicket(d, t)
           \/ \E t \in TicketIds : ConsumeTicket(t)
           \/ RecordToolCall
           \/ Quiet
<1>1. ASSUME UNCHANGED vars PROVE Quiet
  BY <1>1 DEF vars, Quiet
<1>2. ASSUME NEW r \in Runs, Admit(r) \/ EnforceTimeout(r) \/ StartHeartbeat(r) PROVE Quiet
  BY <1>2 DEF Quiet, Admit, EnforceTimeout, StartHeartbeat, authority
<1>3. ASSUME NEW d \in PolicyIds, NEW g \in GrantIds, GrantApproval(d, g) PROVE Quiet
  BY <1>3 DEF Quiet, GrantApproval
<1>4. ASSUME ResumeRun \/ EnterExecuting PROVE Quiet
  BY <1>4 DEF Quiet, ResumeRun, EnterExecuting, authority, Idle
<1>5. ASSUME NEW outcome \in Outcome, RunExecutor(outcome) PROVE Quiet
  BY <1>5 DEF Quiet, RunExecutor, authority
<1>6. ASSUME RecordResult \/ EnterObserving PROVE Quiet
  BY <1>6 DEF Quiet, RecordResult, EnterObserving, authority, Idle
<1>7. ASSUME NEW t \in TicketIds, Verify(t) PROVE Quiet
  BY <1>7 DEF Quiet, Verify, authority
<1>8. ASSUME NEW p \in ProofIds, RecordProof(p) PROVE Quiet
  BY <1>8 DEF Quiet, RecordProof, authority, Idle
<1>9. ASSUME NEW d \in PolicyIds, NEW t \in TicketIds, NEW p \in ProofIds,
             NEW y \in DeltaIds \cup OtherDeltas, CommitSuccess(d, t, p, y)
      PROVE  Quiet
  BY <1>9 DEF Quiet, CommitSuccess, authority
<1>10. ASSUME NEW r \in Runs, NEW result \in {"Failed", "Blocked"}, CommitOther(r, result)
       PROVE  Quiet
  BY <1>10 DEF Quiet, CommitOther, authority
<1>11. ASSUME AppendLedgerEvent \/ CompleteRun \/ FailWrite \/ Tick \/ Crash PROVE Quiet
  BY <1>11 DEF Quiet, AppendLedgerEvent, CompleteRun, FailWrite, Tick, Crash, authority, Idle
<1> QED
  BY <1>1, <1>2, <1>3, <1>4, <1>5, <1>6, <1>7, <1>8, <1>9, <1>10, <1>11 DEF Next

\* A tool call is counted of a consumed ticket, once.
LEMMA CallsArePaidStep ==
    ASSUME IInv, [Next]_vars, NEW r \in Runs, CallsArePaid(r)
    PROVE  CallsArePaid(r)'
<1> USE DEF IInv
<1>0. usage[r].tool_calls \in Nat /\ Cardinality(Paid(r)) \in Nat
  BY FS_CardinalityType DEF TypeOK, Usage, CallsArePaid
<1>1. ASSUME Paid(r)' = Paid(r), usage'[r].tool_calls = usage[r].tool_calls,
             Uncounted(r)' => Uncounted(r)
      PROVE  CallsArePaid(r)'
  BY <1>0, <1>1 DEF CallsArePaid
<1>2. ASSUME UNCHANGED <<tickets, consumed>> PROVE Paid(r)' = Paid(r)
  BY <1>2 DEF Paid, TicketsOf
<1>3. ASSUME UNCHANGED <<tickets, consumed, usage>>, UNCHANGED op \/ op'.pc # "consumed"
      PROVE  CallsArePaid(r)'
  BY <1>1, <1>2, <1>3 DEF Uncounted
<1>4. CASE RecordHeartbeat
  <2>1. op.run \in Runs
    BY <1>4 DEF TypeOK, RecordHeartbeat, Op, Idle
  <2>2. usage'[r].tool_calls = usage[r].tool_calls
    BY <1>4, <2>1, SpendApart, ContractAssumption DEF RecordHeartbeat
  <2>3. ~Uncounted(r)' /\ UNCHANGED <<tickets, consumed>>
    BY <1>4 DEF RecordHeartbeat, Uncounted, Idle, authority
  <2> QED BY <1>1, <1>2, <2>2, <2>3
<1>5. ASSUME NEW x \in Runs, NEW y \in DeltaIds, NEW c \in Caps, NEW risk \in DeltaRisks,
             NEW config \in Configs, ProposeDelta(x, y, c, risk, config)
      PROVE  CallsArePaid(r)'
  <2>1. usage'[r].tool_calls = usage[r].tool_calls
    BY <1>5, SpendApart, ContractAssumption DEF ProposeDelta
  <2>2. ~Uncounted(r)' /\ UNCHANGED <<tickets, consumed>>
    BY <1>5 DEF ProposeDelta, Uncounted, Idle, authority
  <2> QED BY <1>1, <1>2, <2>1, <2>2
<1>6. ASSUME NEW d \in PolicyIds, NEW t \in TicketIds, IssueTicket(d, t) PROVE CallsArePaid(r)'
  <2>1. t \notin consumed
    BY <1>6 DEF UseInv, IssueTicket
  <2>2. \A u \in TicketIds : u # t => tickets'[u] = tickets[u]
    BY <1>6 DEF IssueTicket, TypeOK
  <2>3. UNCHANGED consumed
    BY <1>6 DEF IssueTicket
  <2>4. Paid(r)' = Paid(r)
    BY <2>1, <2>2, <2>3 DEF Paid, TicketsOf, TypeOK
  <2>5. Uncounted(r)' => Uncounted(r)
    BY <1>6 DEF IssueTicket, Uncounted, Idle
  <2>6. UNCHANGED usage
    BY <1>6 DEF IssueTicket
  <2> QED BY <1>1, <2>4, <2>5, <2>6
<1>7. ASSUME NEW t \in TicketIds, ConsumeTicket(t) PROVE CallsArePaid(r)'
  <2>1. UNCHANGED <<tickets, usage>> /\ consumed' = consumed \cup {t} /\ t \notin consumed
    BY <1>7 DEF ConsumeTicket, authority
  <2>2. ~Uncounted(r)
    BY <1>7 DEF ConsumeTicket, Uncounted, Idle
  <2>3. CASE tickets[t].run = r
    <3>1. Paid(r)' = Paid(r) \cup {t} /\ t \notin Paid(r)
      BY <1>7, <2>1, <2>3 DEF Paid, TicketsOf, ConsumeTicket
    <3>2. IsFiniteSet(Paid(r)') /\ Cardinality(Paid(r)') = Cardinality(Paid(r)) + 1
      BY <3>1, FS_AddElement DEF CallsArePaid
    <3> QED BY <1>0, <2>1, <2>2, <3>2 DEF CallsArePaid
  <2>4. CASE tickets[t].run # r
    <3>1. Paid(r)' = Paid(r)
      BY <2>1, <2>4 DEF Paid, TicketsOf
    <3>2. ~Uncounted(r)'
      BY <1>7, <2>1, <2>4 DEF ConsumeTicket, Uncounted
    <3> QED BY <1>1, <2>1, <3>1, <3>2
  <2> QED BY <2>3, <2>4
<1>8. CASE RecordToolCall
  <2> DEFINE x == tickets[op.ticket].run
  <2>1. x \in Runs
    BY <1>8, OpTicket DEF RecordToolCall, Ticket
  <2>2. UNCHANGED <<tickets, consumed>> /\ ~Uncounted(r)' /\ op.pc = "consumed"
    BY <1>8 DEF RecordToolCall, Uncounted, Idle, authority
  <2>3. CASE UNCHANGED usage
    BY <1>1, <1>2, <2>2, <2>3
  <2>4. CASE Spend(x, "tool_calls", Contract[x].max_tool_calls)
    <3>1. usage'[r].tool_calls = IF r = x THEN usage[r].tool_calls + 1 ELSE usage[r].tool_calls
      BY <2>1, <2>4, SpendCounts, ContractAssumption
    <3>2. CASE r = x
      BY <1>0, <1>2, <2>2, <3>1, <3>2 DEF CallsArePaid, Uncounted
    <3>3. CASE r # x
      BY <1>1, <1>2, <2>2, <3>1, <3>3
    <3> QED BY <3>2, <3>3
  <2> QED BY <1>8, <2>3, <2>4 DEF RecordToolCall
<1>9. ASSUME DecideDelta PROVE CallsArePaid(r)'
  BY <1>3, <1>9 DEF DecideDelta, authority, Idle
<1>10. ASSUME NEW d \in PolicyIds, RecordPolicyDecision(d) PROVE CallsArePaid(r)'
  BY <1>3, <1>10 DEF RecordPolicyDecision, Idle
<1>11. ASSUME Quiet PROVE CallsArePaid(r)'
  BY <1>3, <1>11 DEF Quiet
<1> QED
  BY <1>4, <1>5, <1>6, <1>7, <1>8, <1>9, <1>10, <1>11, QuietStep

\* A decision is recorded of a step that was counted, once.
LEMMA StepsAreCountedStep ==
    ASSUME IInv, [Next]_vars, NEW r \in Runs, StepsAreCounted(r)
    PROVE  StepsAreCounted(r)'
<1> USE DEF IInv
<1>0. usage[r].steps \in Nat /\ Cardinality(Recorded(r)) \in Nat
  BY FS_CardinalityType DEF TypeOK, Usage, StepsAreCounted
<1>1. ASSUME UNCHANGED policies, usage'[r].steps = usage[r].steps, Unrecorded(r)' => Unrecorded(r)
      PROVE  StepsAreCounted(r)'
  <2>1. Recorded(r)' = Recorded(r)
    BY <1>1 DEF Recorded
  <2> QED BY <1>0, <1>1, <2>1 DEF StepsAreCounted
<1>2. ASSUME UNCHANGED <<policies, usage>>, UNCHANGED op \/ op'.pc \notin {"stepped", "decided"}
      PROVE  StepsAreCounted(r)'
  BY <1>1, <1>2 DEF Unrecorded
<1>3. CASE RecordHeartbeat
  <2>1. op.run \in Runs
    BY <1>3 DEF TypeOK, RecordHeartbeat, Op, Idle
  <2>2. usage'[r].steps = usage[r].steps
    BY <1>3, <2>1, SpendApart, ContractAssumption DEF RecordHeartbeat
  <2>3. ~Unrecorded(r)' /\ UNCHANGED policies
    BY <1>3 DEF RecordHeartbeat, Unrecorded, Idle, authority
  <2> QED BY <1>1, <2>2, <2>3
<1>4. ASSUME NEW x \in Runs, NEW y \in DeltaIds, NEW c \in Caps, NEW risk \in DeltaRisks,
             NEW config \in Configs, ProposeDelta(x, y, c, risk, config)
      PROVE  StepsAreCounted(r)'
  <2>1. usage'[r].steps = IF r = x THEN usage[r].steps + 1 ELSE usage[r].steps
    BY <1>4, SpendCounts, ContractAssumption DEF ProposeDelta
  <2>2. ~Unrecorded(r) /\ UNCHANGED policies
    BY <1>4 DEF ProposeDelta, Unrecorded, Idle, authority
  <2>3. Unrecorded(r)' => r = x
    BY <1>4 DEF ProposeDelta, Unrecorded, Idle
  <2>4. CASE r = x
    <3>1. Recorded(r)' = Recorded(r)
      BY <2>2 DEF Recorded
    <3> QED BY <1>0, <2>1, <2>2, <2>4, <3>1 DEF StepsAreCounted
  <2>5. CASE r # x
    BY <1>1, <2>1, <2>2, <2>3, <2>5
  <2> QED BY <2>4, <2>5
<1>5. CASE DecideDelta
  <2>1. UNCHANGED <<policies, usage>>
    BY <1>5 DEF DecideDelta, authority
  <2>2. Unrecorded(r)' => Unrecorded(r)
    BY <1>5 DEF DecideDelta, Unrecorded, Idle
  <2> QED BY <1>1, <2>1, <2>2
<1>6. ASSUME NEW d \in PolicyIds, RecordPolicyDecision(d) PROVE StepsAreCounted(r)'
  <2>1. op.policy \in Policy /\ op.policy # Nil /\ policies[d] = Nil
    BY <1>6, NilAssumption DEF TypeOK, RecordPolicyDecision, Op, Idle
  <2>2. \A e \in PolicyIds : policies'[e] = IF e = d THEN op.policy ELSE policies[e]
    BY <1>6 DEF RecordPolicyDecision, TypeOK
  <2>3. ~Unrecorded(r)' /\ UNCHANGED usage /\ op.pc = "decided"
    BY <1>6 DEF RecordPolicyDecision, Unrecorded, Idle
  <2>4. CASE op.policy.run = r
    <3>1. Recorded(r)' = Recorded(r) \cup {d} /\ d \notin Recorded(r)
      BY <2>1, <2>2, <2>4 DEF Recorded
    <3>2. IsFiniteSet(Recorded(r)') /\ Cardinality(Recorded(r)') = Cardinality(Recorded(r)) + 1
      BY <3>1, FS_AddElement DEF StepsAreCounted
    <3> QED BY <1>0, <2>3, <2>4, <3>2 DEF StepsAreCounted, Unrecorded
  <2>5. CASE op.policy.run # r
    <3>1. Recorded(r)' = Recorded(r)
      BY <2>1, <2>2, <2>5 DEF Recorded
    <3> QED BY <1>0, <2>3, <3>1 DEF StepsAreCounted
  <2> QED BY <2>4, <2>5
<1>7. CASE RecordToolCall
  <2> DEFINE x == tickets[op.ticket].run
  <2>1. x \in Runs
    BY <1>7, OpTicket DEF RecordToolCall, Ticket
  <2>2. usage'[r].steps = usage[r].steps
    BY <1>7, <2>1, SpendApart, ContractAssumption DEF RecordToolCall
  <2>3. ~Unrecorded(r)' /\ UNCHANGED policies
    BY <1>7 DEF RecordToolCall, Unrecorded, Idle, authority
  <2> QED BY <1>1, <2>2, <2>3
<1>8. ASSUME NEW d \in PolicyIds, NEW t \in TicketIds, IssueTicket(d, t) PROVE StepsAreCounted(r)'
  BY <1>2, <1>8 DEF IssueTicket
<1>9. ASSUME NEW t \in TicketIds, ConsumeTicket(t) PROVE StepsAreCounted(r)'
  BY <1>2, <1>9 DEF ConsumeTicket, authority
<1>10. ASSUME Quiet PROVE StepsAreCounted(r)'
  BY <1>2, <1>10 DEF Quiet
<1> QED
  BY <1>3, <1>4, <1>5, <1>6, <1>7, <1>8, <1>9, <1>10, QuietStep

\* An executor is invoked once for a call that was counted.
LEMMA EffectsAreCallsStep ==
    ASSUME IInv, [Next]_vars, NEW r \in Runs, EffectsAreCalls(r)
    PROVE  EffectsAreCalls(r)'
<1> USE DEF IInv
<1>0. usage[r].tool_calls \in Nat /\ Cardinality(Used(r)) \in Nat
  BY FS_CardinalityType DEF TypeOK, Usage, EffectsAreCalls
<1>1. ASSUME Used(r)' = Used(r), usage'[r].tool_calls = usage[r].tool_calls, Unused(r)' => Unused(r)
      PROVE  EffectsAreCalls(r)'
  BY <1>0, <1>1 DEF EffectsAreCalls
<1>2. ASSUME UNCHANGED effects PROVE Used(r)' = Used(r)
  <2>1. \A t \in TicketIds : effects[t] > 0 => tickets'[t] = tickets[t] /\ tickets[t] # Nil
    BY AuthorityGrows DEF UseInv
  <2> QED BY <1>2, <2>1 DEF Used, TicketsOf
<1>3. CASE RecordHeartbeat
  <2>1. op.run \in Runs
    BY <1>3 DEF TypeOK, RecordHeartbeat, Op, Idle
  <2>2. usage'[r].tool_calls = usage[r].tool_calls
    BY <1>3, <2>1, SpendApart, ContractAssumption DEF RecordHeartbeat
  <2>3. ~Unused(r)' /\ UNCHANGED effects
    BY <1>3 DEF RecordHeartbeat, Unused, Idle, history
  <2> QED BY <1>1, <1>2, <2>2, <2>3
<1>4. ASSUME NEW x \in Runs, NEW y \in DeltaIds, NEW c \in Caps, NEW risk \in DeltaRisks,
             NEW config \in Configs, ProposeDelta(x, y, c, risk, config)
      PROVE  EffectsAreCalls(r)'
  <2>1. usage'[r].tool_calls = usage[r].tool_calls
    BY <1>4, SpendApart, ContractAssumption DEF ProposeDelta
  <2>2. ~Unused(r)' /\ UNCHANGED effects
    BY <1>4 DEF ProposeDelta, Unused, Idle, history
  <2> QED BY <1>1, <1>2, <2>1, <2>2
<1>5. CASE RecordToolCall
  <2> DEFINE x == tickets[op.ticket].run
  <2>1. x \in Runs
    BY <1>5, OpTicket DEF RecordToolCall, Ticket
  <2>2. UNCHANGED <<effects, tickets>> /\ ~Unused(r)
    BY <1>5 DEF RecordToolCall, Unused, authority, history
  <2>3. CASE Spend(x, "tool_calls", Contract[x].max_tool_calls)
             /\ op' = [pc |-> "called", ticket |-> op.ticket]
    <3>1. usage'[r].tool_calls = IF r = x THEN usage[r].tool_calls + 1 ELSE usage[r].tool_calls
      BY <2>1, <2>3, SpendCounts, ContractAssumption
    <3>2. Unused(r)' <=> r = x
      BY <2>2, <2>3 DEF Unused
    <3> QED BY <1>0, <1>2, <2>2, <3>1, <3>2 DEF EffectsAreCalls
  <2>4. CASE UNCHANGED usage /\ op' = Idle
    BY <1>1, <1>2, <2>2, <2>4 DEF Unused, Idle
  <2> QED BY <1>5, <2>3, <2>4 DEF RecordToolCall
<1>6. ASSUME NEW outcome \in Outcome, RunExecutor(outcome) PROVE EffectsAreCalls(r)'
  <2> DEFINE t == op.ticket
  <2>1. t \in TicketIds /\ tickets[t] # Nil /\ effects[t] = 0
    BY <1>6, OpTicket, NilAssumption DEF RunExecutor, OpInv, UseInv
  <2>2. /\ effects' = [effects EXCEPT ![t] = @ + 1] /\ UNCHANGED <<tickets, usage>>
        /\ op.pc = "executing" /\ op'.pc = "returned"
    BY <1>6 DEF RunExecutor, authority
  <2>3. effects'[t] = 1 /\ \A u \in TicketIds : u # t => effects'[u] = effects[u]
    BY <2>1, <2>2 DEF TypeOK
  <2>4. ~Unused(r)' /\ (Unused(r) <=> tickets[t].run = r)
    BY <2>2 DEF Unused
  <2>5. CASE tickets[t].run = r
    <3>1. Used(r)' = Used(r) \cup {t} /\ t \notin Used(r)
      BY <2>1, <2>2, <2>3, <2>5 DEF Used, TicketsOf
    <3>2. IsFiniteSet(Used(r)') /\ Cardinality(Used(r)') = Cardinality(Used(r)) + 1
      BY <3>1, FS_AddElement DEF EffectsAreCalls
    <3> QED BY <1>0, <2>2, <2>4, <2>5, <3>2 DEF EffectsAreCalls
  <2>6. CASE tickets[t].run # r
    <3>1. Used(r)' = Used(r)
      BY <2>1, <2>2, <2>3, <2>6 DEF Used, TicketsOf
    <3> QED BY <1>1, <2>2, <2>4, <3>1
  <2> QED BY <2>5, <2>6
<1>7. CASE EnterExecuting
  <2>1. UNCHANGED <<effects, usage, tickets>> /\ (Unused(r)' => Unused(r))
    BY <1>7 DEF EnterExecuting, Unused, Idle, authority, history
  <2> QED BY <1>1, <1>2, <2>1
<1>8. CASE UNCHANGED <<effects, usage>> /\ (UNCHANGED <<op, tickets>> \/ op'.pc \notin {"called", "executing"})
  BY <1>1, <1>2, <1>8 DEF Unused
<1>9. ASSUME NEW d \in PolicyIds, NEW t \in TicketIds, IssueTicket(d, t) PROVE EffectsAreCalls(r)'
  BY <1>1, <1>2, <1>9 DEF IssueTicket, Unused, Idle, history
<1>10. ASSUME NEW x \in Runs, Admit(x) \/ EnforceTimeout(x) \/ StartHeartbeat(x)
       PROVE  EffectsAreCalls(r)'
  BY <1>8, <1>10 DEF Admit, EnforceTimeout, StartHeartbeat, authority, history
<1>11. CASE DecideDelta
  BY <1>8, <1>11 DEF DecideDelta, Idle, history
<1>12. ASSUME NEW d \in PolicyIds, RecordPolicyDecision(d) PROVE EffectsAreCalls(r)'
  BY <1>8, <1>12 DEF RecordPolicyDecision, Idle, history
<1>13. ASSUME NEW d \in PolicyIds, NEW g \in GrantIds, GrantApproval(d, g) PROVE EffectsAreCalls(r)'
  BY <1>8, <1>13 DEF GrantApproval, history
<1>14. ASSUME NEW t \in TicketIds, ConsumeTicket(t) \/ Verify(t) PROVE EffectsAreCalls(r)'
  BY <1>8, <1>14 DEF ConsumeTicket, Verify, history
<1>15. CASE ResumeRun \/ RecordResult \/ EnterObserving \/ AppendLedgerEvent \/ CompleteRun
  BY <1>8, <1>15 DEF ResumeRun, RecordResult, EnterObserving, AppendLedgerEvent, CompleteRun, Idle,
     history
<1>16. ASSUME NEW q \in ProofIds, RecordProof(q) PROVE EffectsAreCalls(r)'
  BY <1>8, <1>16 DEF RecordProof, Idle, history
<1>17. ASSUME NEW d \in PolicyIds, NEW t \in TicketIds, NEW q \in ProofIds,
              NEW y \in DeltaIds \cup OtherDeltas, CommitSuccess(d, t, q, y)
       PROVE  EffectsAreCalls(r)'
  BY <1>8, <1>17 DEF CommitSuccess, history
<1>18. ASSUME NEW x \in Runs, NEW result \in {"Failed", "Blocked"}, CommitOther(x, result)
       PROVE  EffectsAreCalls(r)'
  BY <1>8, <1>18 DEF CommitOther, history
<1>19. CASE FailWrite \/ Tick \/ Crash
  BY <1>8, <1>19 DEF FailWrite, Tick, Crash, Idle, authority, history
<1>20. CASE UNCHANGED vars
  BY <1>8, <1>20 DEF vars
<1> QED
  BY <1>3, <1>4, <1>5, <1>6, <1>7, <1>9, <1>10, <1>11, <1>12, <1>13, <1>14, <1>15, <1>16, <1>17,
     <1>18, <1>19, <1>20 DEF Next

LEMMA BudgetInit == Init => BudgetInv
<1> SUFFICES ASSUME Init, NEW r \in Runs
             PROVE  EffectsAreCalls(r) /\ CallsArePaid(r) /\ StepsAreCounted(r) /\ WithinContract(r)
  BY DEF BudgetInv
<1>1. usage[r] = [steps |-> 0, heartbeats |-> 0, tool_calls |-> 0] /\ op.pc = "idle"
  BY DEF Init, Idle
<1>2. Used(r) = {} /\ Paid(r) = {} /\ Recorded(r) = {}
  BY DEF Init, Used, TicketsOf, Paid, Recorded
<1> QED BY <1>1, <1>2, FS_EmptySet, ContractAssumption
        DEF EffectsAreCalls, CallsArePaid, StepsAreCounted, WithinContract, Unused, Uncounted,
            Unrecorded

\* Executions are counted, counted calls were paid for with a ticket each, and
\* recorded decisions with a step each, within what the contract of the run
\* grants.
THEOREM BudgetsKept == Spec => []BudgetsAddUp
<1>1. IInv /\ BudgetInv /\ [Next]_vars => BudgetInv'
  BY EffectsAreCallsStep, CallsArePaidStep, StepsAreCountedStep, WithinContractStep DEF BudgetInv
<1>2. IInv /\ BudgetInv => BudgetsAddUp
  <2> SUFFICES ASSUME IInv, BudgetInv, NEW r \in Runs
               PROVE  /\ Cardinality({t \in TicketsOf(r) : effects[t] > 0}) <= usage[r].tool_calls
                      /\ usage[r].tool_calls <= Cardinality(TicketsOf(r) \cap consumed)
                      /\ usage[r].tool_calls <= Contract[r].max_tool_calls
                      /\ Cardinality({d \in PolicyIds : policies[d] # Nil /\ policies[d].run = r})
                            <= usage[r].steps
                      /\ usage[r].steps <= Contract[r].max_steps
                      /\ usage[r].heartbeats <= Contract[r].max_heartbeats
    BY DEF BudgetsAddUp
  <2>1. EffectsAreCalls(r) /\ CallsArePaid(r) /\ StepsAreCounted(r) /\ WithinContract(r)
    BY DEF BudgetInv
  <2>2. usage[r].tool_calls \in Nat /\ usage[r].steps \in Nat
    BY DEF IInv, TypeOK, Usage
  <2>3. Cardinality(Used(r)) \in Nat /\ Cardinality(Paid(r)) \in Nat /\ Cardinality(Recorded(r)) \in Nat
    BY <2>1, FS_CardinalityType DEF EffectsAreCalls, CallsArePaid, StepsAreCounted
  <2> QED
    BY <2>1, <2>2, <2>3
       DEF EffectsAreCalls, CallsArePaid, StepsAreCounted, WithinContract, Used, Paid, Recorded
<1> QED BY <1>1, <1>2, BudgetInit, Invariance, PTL DEF Spec

-----------------------------------------------------------------------------
(* The kernel implements Authority: its inductive invariant makes every      *)
(* write of a table a step of the promise or a stutter.                      *)

Kept == <<Permitted, Denials, [r \in Runs |-> Performed(r)], [r \in Runs |-> Lost(r)], Settled,
          [r \in Runs |-> Reported(r)]>>

\* The store is empty to begin with, and so is the promise.
LEMMA PromiseInit == Init => Promise!Init
<1> SUFFICES ASSUME Init PROVE Promise!Init
  OBVIOUS
<1>1. Permitted = {} /\ Denials = {}
  BY DEF Init, Permitted, Permits, Denials
<1>2. ASSUME NEW r \in Runs PROVE Performed(r) = {} /\ Lost(r) = {} /\ Reported(r) = {}
  BY DEF Init, Performed, Lost, Reported, Successes
<1>3. Settled = {}
  BY <1>2 DEF Settled
<1> QED BY <1>1, <1>2, <1>3 DEF Promise!Init

\* What is performed and reported depends on the effects, the tickets in use and the
\* ledger only, what of it is lost on the failures, what is settled on the status.
LEMMA EvidenceKept ==
    ASSUME TypeOK, UseInv, [Next]_vars, UNCHANGED <<effects, ledger>>, NEW r \in Runs
    PROVE  /\ Performed(r)' = Performed(r) /\ Reported(r)' = Reported(r)
           /\ UNCHANGED lost => Lost(r)' = Lost(r)
<1>1. ASSUME NEW t \in TicketIds, effects[t] > 0 PROVE tickets'[t] = tickets[t]
  BY <1>1, AuthorityGrows DEF UseInv
<1>2. Performed(r)' = Performed(r)
  BY <1>1 DEF Performed
<1>3. UNCHANGED lost => Lost(r)' = Lost(r)
  BY <1>2 DEF Lost
<1> QED BY <1>2, <1>3 DEF Reported, Successes

\* A run past executing has a settled promise as soon as it acted.
LEMMA SettledKept ==
    ASSUME UNCHANGED status, \A r \in Runs : Performed(r)' = Performed(r)
    PROVE  Settled' = Settled
BY DEF Settled

\* A decision enters its table: it permits or denies its run, or waits.
LEMMA DecisionStep ==
    ASSUME IInv, NEW d \in PolicyIds, RecordPolicyDecision(d)
    PROVE  [Promise!Next]_Kept
<1> DEFINE p == op.policy
<1> DEFINE r == op.policy.run
<1>1. p \in Policy /\ p # Nil /\ r \in Runs /\ p.decision \in Decision
  BY NilAssumption DEF IInv, TypeOK, RecordPolicyDecision, Op, Idle, Policy
<1>2. /\ policies[d] = Nil
      /\ policies'[d] = p
      /\ \A e \in PolicyIds : e # d => policies'[e] = policies[e]
      /\ UNCHANGED <<grants, tickets, effects, lost, status, ledger>>
  BY DEF IInv, TypeOK, RecordPolicyDecision, memory, evidence, history
<1>3. /\ \A x \in Runs : Performed(x)' = Performed(x) /\ Lost(x)' = Lost(x) /\ Reported(x)' = Reported(x)
      /\ Settled' = Settled
  BY <1>2 DEF Performed, Lost, Reported, Successes, Settled
<1>4. \A e \in PolicyIds : Granted(e)' = Granted(e)
  BY <1>2 DEF Granted
<1>5. \A e \in PolicyIds : e # d => Permits(e)' = Permits(e)
  BY <1>2, <1>4 DEF Permits
<1>6. ~Permits(d)
  BY <1>2 DEF Permits
<1>7. CASE p.decision = "Deny"
  <2>1. ~Permits(d)'
    BY <1>2, <1>7 DEF Permits
  <2>2. Permitted' = Permitted
    BY <1>2, <1>5, <1>6, <2>1 DEF Permitted
  <2>3. Denials' = Denials \cup {r}
    BY <1>1, <1>2, <1>7 DEF Denials
  <2>4. Reported(r) = {}
    BY <1>1, <1>7 DEF IInv, OpInv, LedgerInv, Reported, RecordPolicyDecision
  <2>5. Promise!Deny(r)
    BY <1>1, <1>3, <2>2, <2>3, <2>4 DEF Promise!Deny
  <2> QED BY <1>1, <2>5 DEF Promise!Next
<1>8. CASE p.decision # "Deny"
  <2>1. Denials' = Denials
    BY <1>1, <1>2, <1>8 DEF Denials
  <2>2. CASE Permits(d)'
    <3>1. Permitted' = Permitted \cup {r}
      BY <1>1, <1>2, <1>5, <1>6, <2>2 DEF Permitted
    <3>2. Promise!Permit(r)
      BY <1>1, <1>3, <2>1, <3>1 DEF Promise!Permit
    <3> QED BY <1>1, <3>2 DEF Promise!Next
  <2>3. CASE ~Permits(d)'
    <3>1. Permitted' = Permitted
      BY <1>2, <1>5, <1>6, <2>3 DEF Permitted
    <3> QED BY <1>3, <2>1, <3>1 DEF Kept
  <2> QED BY <2>2, <2>3
<1> QED BY <1>7, <1>8

\* A grant permits the run of its decision.
LEMMA GrantStep ==
    ASSUME IInv, NEW d \in PolicyIds, NEW g \in GrantIds, GrantApproval(d, g)
    PROVE  [Promise!Next]_Kept
<1> DEFINE r == policies[d].run
<1>1. /\ policies[d] # Nil
      /\ policies[d].decision = "RequireApproval"
      /\ grants[g] = Nil
      /\ grants' = [grants EXCEPT ![g] = [policy |-> d, expires_at |-> policies[d].expires_at]]
      /\ UNCHANGED <<policies, tickets, effects, lost, status, ledger>>
  BY DEF GrantApproval, memory, evidence, history
<1>2. policies[d] \in Policy /\ r \in Runs
  BY <1>1 DEF IInv, TypeOK, Policy
<1>3. [policy |-> d, expires_at |-> policies[d].expires_at] \in Grant
  BY <1>2 DEF Grant, Policy
<1>4. grants'[g] # Nil /\ grants'[g].policy = d /\ \A h \in GrantIds : h # g => grants'[h] = grants[h]
  BY <1>1, <1>3, NilAssumption DEF IInv, TypeOK
<1>5. Granted(d)' /\ \A e \in PolicyIds : e # d => (Granted(e)' <=> Granted(e))
  BY <1>1, <1>4 DEF Granted
<1>6. /\ \A x \in Runs : Performed(x)' = Performed(x) /\ Lost(x)' = Lost(x) /\ Reported(x)' = Reported(x)
      /\ Settled' = Settled
  BY <1>1 DEF Performed, Lost, Reported, Successes, Settled
<1>7. Denials' = Denials
  BY <1>1 DEF Denials
<1>8. Permits(d)' /\ \A e \in PolicyIds : e # d => (Permits(e)' <=> Permits(e))
  BY <1>1, <1>5 DEF Permits
<1>9. Permitted' = Permitted \cup {r}
  BY <1>1, <1>2, <1>8 DEF Permitted, Permits
<1>10. Promise!Permit(r)
  BY <1>6, <1>7, <1>9 DEF Promise!Permit
<1> QED BY <1>2, <1>10 DEF Promise!Next

\* An executor runs for a run that is permitted, not denied and has lost all it did.
LEMMA ExecutorStep ==
    ASSUME IInv, NEW outcome \in Outcome, RunExecutor(outcome)
    PROVE  [Promise!Next]_Kept
<1>0. PICK t, r, d : t = op.ticket /\ r = tickets[t].run /\ d = tickets[t].policy
  OBVIOUS
<1>1. t \in TicketIds /\ tickets[t] \in Ticket /\ tickets[t] # Nil /\ r \in Runs /\ d \in PolicyIds
  BY <1>0, OpTicket, NilAssumption DEF IInv, RunExecutor, Ticket
<1>2. /\ effects' = [effects EXCEPT ![t] = @ + 1]
      /\ UNCHANGED <<policies, grants, tickets, lost, status, ledger>>
  BY <1>0 DEF RunExecutor, authority, evidence
<1>3. /\ effects[t] = 0 /\ status[r] = "Executing"
      /\ \A u \in TicketIds : effects[u] > 0 /\ tickets[u].run = r => u \in lost
  BY <1>0 DEF IInv, OpInv, RunExecutor
<1>4. effects'[t] = 1 /\ \A u \in TicketIds : u # t => effects'[u] = effects[u]
  BY <1>1, <1>2, <1>3 DEF IInv, TypeOK
<1>5. r \in Permitted
  <2>1. Backed(t, d)
    BY <1>0, <1>1 DEF IInv, TicketInv
  <2>2. policies[d].decision \in Decision
    BY <2>1, <1>1 DEF Backed, IInv, TypeOK, Policy
  <2> QED BY <1>0, <1>1, <2>1, <2>2 DEF Backed, Permitted, Permits, Decision
<1>6. r \notin Denials
  BY <1>3 DEF IInv, DenyInv, Denials
<1>7. Performed(r) \subseteq Lost(r) /\ t \notin Performed(r) /\ Performed(r)' = Performed(r) \cup {t}
  BY <1>0, <1>1, <1>2, <1>3, <1>4 DEF Performed, Lost
<1>8. \A x \in Runs : x # r => Performed(x)' = Performed(x)
  BY <1>0, <1>1, <1>2, <1>4 DEF Performed
<1>9. Permitted' = Permitted /\ Denials' = Denials /\ \A x \in Runs : Reported(x)' = Reported(x)
  BY <1>2 DEF Permitted, Permits, Granted, Denials, Reported, Successes
<1>10. t \notin lost
  BY <1>3 DEF IInv, EffectInv
<1>11. \A x \in Runs : Lost(x)' = Lost(x)
  BY <1>2, <1>7, <1>8, <1>10 DEF Lost
<1>12. r \notin Settled /\ Settled' = Settled
  BY <1>2, <1>3, <1>8 DEF Settled, PastAuthority, Terminal, Closed
<1>13. Promise!Perform(r, t)
  <2>1. [x \in Runs |-> Performed(x)]' = [[x \in Runs |-> Performed(x)] EXCEPT ![r] = @ \cup {t}]
    BY <1>1, <1>7, <1>8
  <2> QED BY <1>1, <1>5, <1>6, <1>7, <1>9, <1>11, <1>12, <2>1 DEF Promise!Perform
<1> QED BY <1>1, <1>13 DEF Promise!Next

\* A success event reports a ticket its run was executed with.
LEMMA LedgerStep ==
    ASSUME IInv, [Next]_vars, AppendLedgerEvent
    PROVE  [Promise!Next]_Kept
<1> DEFINE e == op.event
<1>1. UNCHANGED <<policies, grants, tickets, effects, lost, status>>
  BY DEF AppendLedgerEvent, authority, history
<1>2. /\ Permitted' = Permitted /\ Denials' = Denials /\ Settled' = Settled
      /\ \A x \in Runs : Performed(x)' = Performed(x) /\ Lost(x)' = Lost(x)
  BY <1>1 DEF Permitted, Permits, Granted, Denials, Performed, Lost, Settled
<1>3. ledger \in Seq(Event) /\ e \in Event
  BY DEF IInv, TypeOK, AppendLedgerEvent, Op, Idle
<1>4. /\ DOMAIN ledger' = DOMAIN ledger \cup {Len(ledger) + 1}
      /\ \A i \in DOMAIN ledger : ledger'[i] = ledger[i]
      /\ ledger'[Len(ledger) + 1] = e
  BY <1>3 DEF AppendLedgerEvent
<1>5. CASE e.result # "Success"
  <2>1. Successes' = Successes /\ \A i \in Successes : ledger'[i] = ledger[i]
    BY <1>4, <1>5 DEF Successes
  <2>2. \A x \in Runs : Reported(x)' = Reported(x)
    BY <2>1 DEF Reported
  <2> QED BY <1>2, <2>2 DEF Kept
<1>6. CASE e.result = "Success"
  <2>0. PICK r, t : r = e.run /\ t = e.ticket
    OBVIOUS
  <2>1. e \in SuccessEvent /\ r \in Runs /\ t \in TicketIds
    BY <1>3, <1>6, <2>0 DEF Event, OtherEvent, SuccessEvent
  <2>2. ProofMatches(e) /\ status[r] = "Persisting"
    BY <1>6, <2>0 DEF IInv, OpInv, AppendLedgerEvent
  <2>3. tickets[t].run = r /\ effects[t] = 1
    BY <2>0, <2>1, <2>2 DEF ProofMatches, SuccessEvent, IInv, ProofInv, UseInv
  <2>4. r \notin Denials
    BY <2>2 DEF IInv, DenyInv, Denials
  <2>5. t \in Performed(r)
    BY <2>1, <2>3 DEF Performed
  <2>6. Successes' = Successes \cup {Len(ledger) + 1} /\ \A i \in Successes : ledger'[i] = ledger[i]
    BY <1>4, <1>6 DEF Successes
  <2>7. r \in Settled
    BY <2>1, <2>2, <2>5 DEF Settled, PastAuthority
  <2>8. Reported(r)' = Reported(r) \cup {t}
    BY <1>4, <2>0, <2>1, <2>6 DEF Reported
  <2>9. \A x \in Runs : x # r => Reported(x)' = Reported(x)
    BY <1>4, <2>0, <2>6 DEF Reported
  <2>10. [x \in Runs |-> Reported(x)]' = [[x \in Runs |-> Reported(x)] EXCEPT ![r] = @ \cup {t}]
    BY <2>1, <2>8, <2>9
  <2>11. Promise!Report(r, t)
    BY <1>2, <2>1, <2>4, <2>5, <2>7, <2>10 DEF Promise!Report
  <2> QED BY <2>1, <2>11 DEF Promise!Next
<1> QED BY <1>5, <1>6

\* A step moves one run at most.
LEMMA OneRunMoves ==
    ASSUME TypeOK, [Next]_vars
    PROVE  \E r : \A x \in Runs : x # r => status'[x] = status[x]
<1>1. ASSUME NEW r, NEW to, Transition(r, to) PROVE \E q : \A x \in Runs : x # q => status'[x] = status[x]
  BY <1>1 DEF Transition, TypeOK
<1>2. CASE UNCHANGED status
  BY <1>2
<1> QED
  BY <1>1, <1>2 DEF vars, Next, Admit, EnforceTimeout, StartHeartbeat, RecordHeartbeat,
     ProposeDelta, DecideDelta, RecordPolicyDecision, GrantApproval, ResumeRun, IssueTicket,
     ConsumeTicket, RecordToolCall, EnterExecuting, RunExecutor, RecordResult, EnterObserving, Verify,
     RecordProof, CommitSuccess, CommitOther, AppendLedgerEvent, CompleteRun, FailWrite, Tick, Crash

\* A run past executing stays past it.
LEMMA PastAuthorityStays ==
    ASSUME TypeOK, [Next]_vars, NEW r \in Runs, status[r] \in PastAuthority
    PROVE  status'[r] \in PastAuthority
BY StatusStep, NilAssumption
   DEF AllowedTransition, TransitionTable, PastAuthority, Terminal, Closed, RunStatus

\* The steps that touch neither decision, grant, effect, failure nor event settle a run
\* or leave the promise alone.
LEMMA OtherStep ==
    ASSUME IInv, [Next]_vars, UNCHANGED <<policies, grants, effects, lost, ledger>>
    PROVE  [Promise!Next]_Kept
<1>1. \A x \in Runs : Performed(x)' = Performed(x) /\ Lost(x)' = Lost(x) /\ Reported(x)' = Reported(x)
  BY EvidenceKept DEF IInv
<1>2. Permitted' = Permitted /\ Denials' = Denials
  BY DEF Permitted, Permits, Granted, Denials
<1>3. Settled \subseteq Settled'
  BY <1>1, PastAuthorityStays DEF Settled, IInv
<1>4. PICK r : \A x \in Runs : x # r => status'[x] = status[x]
  BY OneRunMoves DEF IInv
<1>5. CASE Settled' = Settled
  BY <1>1, <1>2, <1>5 DEF Kept
<1>6. CASE Settled' # Settled
  <2>1. r \in Runs /\ r \in Settled' /\ Settled' = Settled \cup {r}
    BY <1>1, <1>3, <1>4, <1>6 DEF Settled
  <2>2. Performed(r) # {}
    BY <1>1, <2>1 DEF Settled
  <2>3. Promise!Settle(r)
    BY <1>1, <1>2, <2>1, <2>2 DEF Promise!Settle
  <2> QED BY <2>1, <2>3 DEF Promise!Next
<1> QED BY <1>5, <1>6

\* A write that fails after the executor of a ticket returned loses what it did.
LEMMA LoseStep ==
    ASSUME IInv, FailWrite
    PROVE  [Promise!Next]_Kept
<1>0. PICK t, r : t = op.ticket /\ r = tickets[t].run
  OBVIOUS
<1>1. [Next]_vars /\ UNCHANGED <<policies, grants, tickets, effects, status, ledger>>
  BY DEF FailWrite, Next, authority
<1>2. CASE op.pc \notin {"returned", "stored"}
  BY <1>1, <1>2, OtherStep DEF FailWrite
<1>3. CASE op.pc \in {"returned", "stored"}
  <2>1. t \in TicketIds /\ r \in Runs /\ effects[t] = 1 /\ status[r] = "Executing" /\ lost' = lost \cup {t}
    BY <1>0, <1>3, OpTicket DEF FailWrite, IInv, OpInv, Ticket
  <2>2. \A x \in Runs : Performed(x)' = Performed(x) /\ Reported(x)' = Reported(x)
    BY <1>1 DEF Performed, Reported, Successes
  <2>3. Permitted' = Permitted /\ Denials' = Denials /\ Settled' = Settled
    BY <1>1, <2>2 DEF Permitted, Permits, Granted, Denials, Settled
  <2>4. r \notin Settled /\ t \in Performed(r)
    BY <1>0, <2>1 DEF Settled, Performed, PastAuthority, Terminal, Closed
  <2>5. Lost(r)' = Lost(r) \cup {t} /\ \A x \in Runs : x # r => Lost(x)' = Lost(x)
    BY <1>0, <2>1, <2>2, <2>4 DEF Lost, Performed
  <2>6. [x \in Runs |-> Lost(x)]' = [[x \in Runs |-> Lost(x)] EXCEPT ![r] = @ \cup {t}]
    BY <2>1, <2>5
  <2>7. Promise!Lose(r, t)
    BY <2>1, <2>2, <2>3, <2>4, <2>6 DEF Promise!Lose
  <2> QED BY <2>1, <2>7 DEF Promise!Next
<1> QED BY <1>2, <1>3

\* Every step of the kernel is a step of the promise or none of its business.
LEMMA PromiseStep ==
    ASSUME IInv, [Next]_vars
    PROVE  [Promise!Next]_Kept
<1>1. CASE UNCHANGED <<policies, grants, effects, lost, ledger>>
  BY <1>1, OtherStep
<1>2. ASSUME NEW d \in PolicyIds, RecordPolicyDecision(d) PROVE [Promise!Next]_Kept
  BY <1>2, DecisionStep
<1>3. ASSUME NEW d \in PolicyIds, NEW g \in GrantIds, GrantApproval(d, g) PROVE [Promise!Next]_Kept
  BY <1>3, GrantStep
<1>4. ASSUME NEW outcome \in Outcome, RunExecutor(outcome) PROVE [Promise!Next]_Kept
  BY <1>4, ExecutorStep
<1>5. CASE AppendLedgerEvent
  BY <1>5, LedgerStep
<1>6. CASE FailWrite
  BY <1>6, LoseStep
<1> QED
  BY <1>1, <1>2, <1>3, <1>4, <1>5, <1>6 DEF vars, authority, evidence, history, Next, Admit, EnforceTimeout,
     StartHeartbeat, RecordHeartbeat, ProposeDelta, DecideDelta, ResumeRun, IssueTicket,
     ConsumeTicket, RecordToolCall, EnterExecuting, RecordResult, EnterObserving, Verify,
     RecordProof, CommitSuccess, CommitOther, CompleteRun, FailWrite, Tick, Crash

\* The kernel implements its promise: for all sets of runs, tickets, decisions and
\* grants, and whatever crashes or fails, an executor runs only for a run that is
\* permitted, not denied, and of which a failing write lost all it did before; and the
\* ledger reports only what was done, of a run that acts no more and is not denied.
THEOREM KernelImplementsAuthority == Spec => ImplementsAuthority
<1>1. IInv /\ [Next]_vars => [Promise!Next]_Kept
  BY PromiseStep
<1> QED BY <1>1, PromiseInit, Invariance, PTL
        DEF Spec, ImplementsAuthority, Promise!Spec, Promise!promises, Kept
=============================================================================
