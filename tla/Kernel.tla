------------------------------- MODULE Kernel -------------------------------
(***************************************************************************)
(* The trusted kernel of moxi-core over the SQLite store of moxi-store:    *)
(* admission, policy, approval, tickets, execution, verification, commit.  *)
(*                                                                         *)
(* Every method of Kernel performs a few store writes, each committed by   *)
(* SQLite on its own, so a method is modelled write by write: op is the    *)
(* point the running method has reached.  At any of them the process may   *)
(* die (Crash), or the write may fail and the method return its error with *)
(* the process alive (FailWrite).  Methods take &mut self: no other method *)
(* starts while op is not idle.  The registry, the executors and the run   *)
(* contracts (runs) live in memory and do not survive a crash; the         *)
(* registry and the executors are registered again by the constructor, the *)
(* run contracts are not.                                                  *)
(*                                                                         *)
(* Identifiers are UUIDs in the code; here an identifier is taken from a   *)
(* finite set of unused ones.  A method that returns an error before its   *)
(* first write has no action: it changes nothing.                          *)
(*                                                                         *)
(* A definition X_Fault before the definition X is a plausible bug of X,   *)
(* used only to see that the properties can fail.                          *)
(***************************************************************************)
EXTENDS PolicyEngine, FiniteSets, Sequences

CONSTANTS
    Runs,            \* run ids
    Caps,            \* capability ids a delta may name
    DeltaIds,        \* ids of the deltas that are proposed
    OtherDeltas,     \* ids of other deltas, which a caller may put into an event
    PolicyIds, GrantIds, TicketIds, ProofIds,
    Nil,             \* an absent row
    Contract,        \* RunContract of each run
    Capability,      \* CapabilityContract of each registered capability
    Configs,         \* PolicyConfigs set_policy_config may put in force
    DeltaRisks,      \* risk levels proposed deltas carry
    MaxTime,         \* bound of the clock
    MaxEvents        \* bound of the ledger

\* Capabilities that have a contract and an executor in this kernel.
Registered == DOMAIN Capability

ASSUME ContractAssumption ==
    \A r \in Runs : /\ Contract[r].max_steps \in Nat
                    /\ Contract[r].max_heartbeats \in Nat
                    /\ Contract[r].max_tool_calls \in Nat
                    /\ Contract[r].timeout \in Nat

ASSUME CapabilityAssumption ==
    /\ Registered \subseteq Caps
    /\ \A c \in Registered : Capability[c].timeout \in Nat

ASSUME BoundAssumption == MaxTime \in Nat /\ MaxEvents \in Nat

VARIABLES
    now,         \* Utc::now()
    runs,        \* keys of Kernel.runs: the contracts this process holds
    createdAt,   \* RunContract.created_at of a held run
    op,          \* the point the running method has reached
    status,      \* table run_states
    usage,       \* table run_usage
    policies,    \* table policy_decisions
    grants,      \* table approval_grants
    tickets,     \* table execution_tickets, without consumed_at
    consumed,    \* tickets whose consumed_at is set
    effects,     \* history: how often a ticket's executor was invoked
    lost,        \* history: tickets of which a write failed after that
    unfinished,  \* history: runs of which the last write of a commit failed
    results,     \* table sandbox_results
    proofs,      \* table proofs
    ledger       \* table ledger_events in rowid order

memory == <<runs, createdAt>>
authority == <<policies, grants, tickets>>
evidence == <<results, proofs>>
history == <<effects, lost, unfinished>>
vars == <<now, runs, createdAt, op, status, usage, policies, grants, tickets,
          consumed, effects, lost, unfinished, results, proofs, ledger>>

-----------------------------------------------------------------------------
(* Types *)

RunStatus == {"Admitted", "RunningHeartbeat", "AwaitingApproval", "Executing", "Observing",
              "Verifying", "Persisting", "Completed", "Failed", "TimedOut", "Cancelled",
              "Blocked", "RolledBack"}

Policy == [run : Runs, delta : DeltaIds, capability : Registered, decision : Decision,
           expires_at : Nat]
Grant == [policy : PolicyIds, expires_at : Nat]
Ticket == [run : Runs, policy : PolicyIds, capability : Registered, expires_at : Nat]
Result == [success : BOOLEAN]
Proof == [run : Runs, policy : PolicyIds, ticket : TicketIds]
SuccessEvent == [result : {"Success"}, run : Runs, delta : DeltaIds \cup OtherDeltas,
                 policy : PolicyIds, ticket : TicketIds, proof : ProofIds, timestamp : Nat]
OtherEvent == [result : {"Failed", "Blocked"}, run : Runs, timestamp : Nat]
Event == SuccessEvent \cup OtherEvent
Usage == [steps : Nat, heartbeats : Nat, tool_calls : Nat]

\* How an executor call ends, as Kernel::execute tells the endings apart.
Outcome == {"success", "failure", "error", "wrong_binding", "bad_output"}

Idle == [pc |-> "idle"]
Op == {Idle}
      \cup [pc : {"beating", "granted"}, run : Runs]
      \cup [pc : {"stepped", "decided"}, policy : Policy]
      \cup [pc : {"consumed", "called", "executing", "stored", "verifying"}, ticket : TicketIds]
      \cup [pc : {"returned"}, ticket : TicketIds, outcome : Outcome]
      \cup [pc : {"persisting", "appended"}, event : Event]

ASSUME NilAssumption ==
    /\ Nil \notin RunStatus
    /\ Nil \notin Policy
    /\ Nil \notin Grant
    /\ Nil \notin Ticket
    /\ Nil \notin Result
    /\ Nil \notin Proof

TypeOK ==
    /\ now \in Nat
    /\ runs \subseteq Runs
    /\ createdAt \in [Runs -> Nat]
    /\ op \in Op
    /\ status \in [Runs -> RunStatus \cup {Nil}]
    /\ usage \in [Runs -> Usage]
    /\ policies \in [PolicyIds -> Policy \cup {Nil}]
    /\ grants \in [GrantIds -> Grant \cup {Nil}]
    /\ tickets \in [TicketIds -> Ticket \cup {Nil}]
    /\ consumed \subseteq TicketIds
    /\ effects \in [TicketIds -> Nat]
    /\ lost \subseteq TicketIds
    /\ unfinished \subseteq Runs
    /\ results \in [TicketIds -> Result \cup {Nil}]
    /\ proofs \in [ProofIds -> Proof \cup {Nil}]
    /\ ledger \in Seq(Event)

-----------------------------------------------------------------------------
(* The run state machine of moxi-store. *)

\* The rows of is_allowed_transition; from is Nil before the run has a status.
TransitionTable(from, to) ==
    \/ to = from
    \/ from = Nil /\ to = "Admitted"
    \/ /\ from = "Admitted"
       /\ to \in {"RunningHeartbeat", "AwaitingApproval", "Blocked", "Executing", "Cancelled", "TimedOut"}
    \/ /\ from = "RunningHeartbeat"
       /\ to \in {"AwaitingApproval", "Executing", "Blocked", "Cancelled", "Failed", "TimedOut"}
    \/ from = "AwaitingApproval" /\ to \in {"RunningHeartbeat", "Blocked", "Cancelled", "TimedOut"}
    \/ from = "Executing" /\ to \in {"Observing", "Failed", "Blocked", "TimedOut"}
    \/ from = "Observing" /\ to \in {"Verifying", "Failed", "Blocked", "TimedOut"}
    \/ from = "Verifying" /\ to \in {"Persisting", "Failed", "Blocked", "TimedOut"}
    \/ from = "Persisting" /\ to \in {"Completed", "Failed", "RolledBack", "TimedOut"}

AllowedTransition_ReopensBlocked(from, to) ==
    TransitionTable(from, to) \/ (from = "Blocked" /\ to = "RunningHeartbeat")

\* is_allowed_transition
AllowedTransition(from, to) == TransitionTable(from, to)

\* transition_run_status when it succeeds.
Transition(r, to) ==
    /\ AllowedTransition(status[r], to)
    /\ status' = [status EXCEPT ![r] = to]

Spend_OffByOne(r, counter, max) ==
    /\ usage[r][counter] <= max
    /\ usage' = [usage EXCEPT ![r][counter] = @ + 1]

\* increment_counter against its maximum, when it succeeds.
Spend(r, counter, max) ==
    /\ usage[r][counter] < max
    /\ usage' = [usage EXCEPT ![r][counter] = @ + 1]

-----------------------------------------------------------------------------
(* Admission and the run clock. *)

Init ==
    /\ now = 0
    /\ runs = {}
    /\ createdAt = [r \in Runs |-> 0]
    /\ op = Idle
    /\ status = [r \in Runs |-> Nil]
    /\ usage = [r \in Runs |-> [steps |-> 0, heartbeats |-> 0, tool_calls |-> 0]]
    /\ policies = [d \in PolicyIds |-> Nil]
    /\ grants = [g \in GrantIds |-> Nil]
    /\ tickets = [t \in TicketIds |-> Nil]
    /\ consumed = {}
    /\ effects = [t \in TicketIds |-> 0]
    /\ lost = {}
    /\ unfinished = {}
    /\ results = [t \in TicketIds |-> Nil]
    /\ proofs = [p \in ProofIds |-> Nil]
    /\ ledger = <<>>

\* admit_with_permission_mode: the run id is new, so its budget row is zero and
\* nothing can read the row before the status is written.
Admit(r) ==
    /\ op = Idle
    /\ status[r] = Nil
    /\ Transition(r, "Admitted")
    /\ runs' = runs \cup {r}
    /\ createdAt' = [createdAt EXCEPT ![r] = now]
    /\ UNCHANGED <<now, op, usage, authority, consumed, history, evidence, ledger>>

\* Statuses for which enforce_run_timeout looks no further.
Closed == {"Completed", "Failed", "Cancelled", "Blocked", "RolledBack"}

\* Statuses no transition leaves.
Terminal == Closed \cup {"TimedOut"}

Overdue(r) == now >= createdAt[r] + Contract[r].timeout

\* enforce_run_timeout returns Ok.
WithinTimeout(r) ==
    /\ status[r] # Nil
    /\ status[r] # "TimedOut"
    /\ status[r] \in Closed \/ ~Overdue(r)

\* enforce_run_timeout as propose_delta, issue_ticket and execute call it, when it
\* ends the call.
EnforceTimeout(r) ==
    /\ op = Idle
    /\ r \in runs
    /\ status[r] \notin Closed \cup {"TimedOut", Nil}
    /\ Overdue(r)
    /\ Transition(r, "TimedOut")
    /\ UNCHANGED <<now, memory, op, usage, authority, consumed, history, evidence, ledger>>

StartHeartbeat_UnknownRun(r) ==
    /\ op = Idle
    /\ Transition(r, "RunningHeartbeat")
    /\ op' = [pc |-> "beating", run |-> r]
    /\ UNCHANGED <<now, memory, usage, authority, consumed, history, evidence, ledger>>

\* start_heartbeat, first write.
StartHeartbeat(r) ==
    /\ op = Idle
    /\ r \in runs
    /\ Transition(r, "RunningHeartbeat")
    /\ op' = [pc |-> "beating", run |-> r]
    /\ UNCHANGED <<now, memory, usage, authority, consumed, history, evidence, ledger>>

\* start_heartbeat, second write: the budget is looked at after the status moved.
RecordHeartbeat ==
    /\ op.pc = "beating"
    /\ op' = Idle
    /\ \/ Spend(op.run, "heartbeats", Contract[op.run].max_heartbeats)
       \/ /\ usage[op.run].heartbeats >= Contract[op.run].max_heartbeats
          /\ UNCHANGED usage
    /\ UNCHANGED <<now, memory, status, authority, consumed, history, evidence, ledger>>

-----------------------------------------------------------------------------
(* propose_delta *)

\* The step is spent before the capability is looked up: a delta that names an
\* unregistered one costs a step and ends in CapabilityNotFound.  config is the one
\* the last set_policy_config left, which any call may be preceded by.
ProposeDelta(r, x, c, risk, config) ==
    /\ op = Idle
    /\ r \in runs
    /\ WithinTimeout(r)
    /\ Spend(r, "steps", Contract[r].max_steps)
    /\ op' = IF c \in Registered
             THEN [pc |-> "stepped",
                   policy |-> [run |-> r, delta |-> x, capability |-> c,
                               decision |-> Evaluate(config, Contract[r], c, Capability[c], risk),
                               expires_at |-> now + Capability[c].timeout]]
             ELSE Idle
    /\ UNCHANGED <<now, memory, status, authority, consumed, history, evidence, ledger>>

\* The status a decision moves the run to, before the decision is recorded.
StatusFor(decision) == IF decision = "Deny" THEN "Blocked" ELSE "AwaitingApproval"

DecideDelta_IgnoresRefusal ==
    /\ op.pc = "stepped"
    /\ LET to == StatusFor(op.policy.decision)
           moves == op.policy.decision # "Allow" /\ AllowedTransition(status[op.policy.run], to)
       IN status' = IF moves THEN [status EXCEPT ![op.policy.run] = to] ELSE status
    /\ op' = [pc |-> "decided", policy |-> op.policy]
    /\ UNCHANGED <<now, memory, usage, authority, consumed, history, evidence, ledger>>

\* A transition that is refused returns the error: the decision is never recorded.
DecideDelta ==
    /\ op.pc = "stepped"
    /\ LET r == op.policy.run
           decision == op.policy.decision
       IN \/ /\ decision = "Allow"
             /\ op' = [pc |-> "decided", policy |-> op.policy]
             /\ UNCHANGED status
          \/ /\ decision # "Allow"
             /\ Transition(r, StatusFor(decision))
             /\ op' = [pc |-> "decided", policy |-> op.policy]
          \/ /\ decision # "Allow"
             /\ ~AllowedTransition(status[r], StatusFor(decision))
             /\ op' = Idle
             /\ UNCHANGED status
    /\ UNCHANGED <<now, memory, usage, authority, consumed, history, evidence, ledger>>

RecordPolicyDecision(d) ==
    /\ op.pc = "decided"
    /\ policies[d] = Nil
    /\ policies' = [policies EXCEPT ![d] = op.policy]
    /\ op' = Idle
    /\ UNCHANGED <<now, memory, status, usage, grants, tickets, consumed, history, evidence, ledger>>

-----------------------------------------------------------------------------
(* grant_approval and issue_ticket *)

\* The grant is recorded first; nothing looks at the status of the run.
GrantApproval(d, g) ==
    /\ op = Idle
    /\ policies[d] # Nil
    /\ policies[d].run \in runs
    /\ policies[d].decision = "RequireApproval"
    /\ policies[d].expires_at >= now
    /\ grants[g] = Nil
    /\ grants' = [grants EXCEPT ![g] = [policy |-> d, expires_at |-> policies[d].expires_at]]
    /\ op' = [pc |-> "granted", run |-> policies[d].run]
    /\ UNCHANGED <<now, memory, status, usage, policies, tickets, consumed, history, evidence, ledger>>

\* Second write of grant_approval; refused when the run has left the states that
\* may resume, and the grant stays.
ResumeRun ==
    /\ op.pc = "granted"
    /\ op' = Idle
    /\ \/ Transition(op.run, "RunningHeartbeat")
       \/ /\ ~AllowedTransition(status[op.run], "RunningHeartbeat")
          /\ UNCHANGED status
    /\ UNCHANGED <<now, memory, usage, authority, consumed, history, evidence, ledger>>

LiveGrant_AnyDecision(d, g) ==
    /\ grants[g] # Nil
    /\ grants[g].expires_at >= now

\* validate_approval_grant: g is recorded, names decision d and is not expired.
LiveGrant(d, g) ==
    /\ grants[g] # Nil
    /\ grants[g].policy = d
    /\ grants[g].expires_at >= now

\* issue_ticket and issue_ticket_with_grant: any number of tickets per decision,
\* whatever the status of a run that has not timed out.
IssueTicket(d, t) ==
    /\ op = Idle
    /\ policies[d] # Nil
    /\ policies[d].run \in runs
    /\ WithinTimeout(policies[d].run)
    /\ \/ policies[d].decision = "Allow"
       \/ /\ policies[d].decision = "RequireApproval"
          /\ \E g \in GrantIds : LiveGrant(d, g)
    /\ tickets[t] = Nil
    /\ tickets' = [tickets EXCEPT ![t] = [run |-> policies[d].run, policy |-> d,
                                          capability |-> policies[d].capability,
                                          expires_at |-> policies[d].expires_at]]
    /\ UNCHANGED <<now, memory, op, status, usage, policies, grants, consumed, history, evidence, ledger>>

-----------------------------------------------------------------------------
(* execute *)

\* The checks of execute up to consume_ticket, its first write.
ConsumeTicket(t) ==
    /\ op = Idle
    /\ tickets[t] # Nil
    /\ tickets[t].run \in runs
    /\ WithinTimeout(tickets[t].run)
    /\ tickets[t].expires_at >= now
    /\ t \notin consumed
    /\ consumed' = consumed \cup {t}
    /\ op' = [pc |-> "consumed", ticket |-> t]
    /\ UNCHANGED <<now, memory, status, usage, authority, history, evidence, ledger>>

\* A spent budget ends the call: the ticket stays consumed.
RecordToolCall ==
    /\ op.pc = "consumed"
    /\ LET r == tickets[op.ticket].run
       IN \/ /\ Spend(r, "tool_calls", Contract[r].max_tool_calls)
             /\ op' = [pc |-> "called", ticket |-> op.ticket]
          \/ /\ usage[r].tool_calls >= Contract[r].max_tool_calls
             /\ op' = Idle
             /\ UNCHANGED usage
    /\ UNCHANGED <<now, memory, status, authority, consumed, history, evidence, ledger>>

\* A refused transition ends the call: ticket and tool call stay spent.
EnterExecuting ==
    /\ op.pc = "called"
    /\ LET r == tickets[op.ticket].run
       IN \/ /\ Transition(r, "Executing")
             /\ op' = [pc |-> "executing", ticket |-> op.ticket]
          \/ /\ ~AllowedTransition(status[r], "Executing")
             /\ op' = Idle
             /\ UNCHANGED status
    /\ UNCHANGED <<now, memory, usage, authority, consumed, history, evidence, ledger>>

\* The executor runs; its effect on the world is not undone by anything after it.
RunExecutor(outcome) ==
    /\ op.pc = "executing"
    /\ effects' = [effects EXCEPT ![op.ticket] = @ + 1]
    /\ op' = [pc |-> "returned", ticket |-> op.ticket, outcome |-> outcome]
    /\ UNCHANGED <<now, memory, status, usage, authority, consumed, lost, unfinished, evidence,
                   ledger>>

RecordResult_ForgetsFailed ==
    /\ op.pc = "returned"
    /\ \/ /\ op.outcome \in {"error", "wrong_binding", "bad_output"}
          /\ op' = Idle
          /\ UNCHANGED results
       \/ /\ op.outcome \in {"success", "failure"}
          /\ results[op.ticket] = Nil
          /\ results' = [results EXCEPT ![op.ticket] = [success |-> op.outcome = "success"]]
          /\ op' = [pc |-> "stored", ticket |-> op.ticket]
    /\ UNCHANGED <<now, memory, status, usage, authority, consumed, history, proofs, ledger>>

\* An executor error, a result bound to another ticket or an output that fails its
\* schema marks the run failed; any other result is recorded, successful or not.
RecordResult ==
    /\ op.pc = "returned"
    /\ \/ /\ op.outcome \in {"error", "wrong_binding", "bad_output"}
          /\ Transition(tickets[op.ticket].run, "Failed")
          /\ op' = Idle
          /\ UNCHANGED results
       \/ /\ op.outcome \in {"success", "failure"}
          /\ results[op.ticket] = Nil
          /\ results' = [results EXCEPT ![op.ticket] = [success |-> op.outcome = "success"]]
          /\ op' = [pc |-> "stored", ticket |-> op.ticket]
          /\ UNCHANGED status
    /\ UNCHANGED <<now, memory, usage, authority, consumed, history, proofs, ledger>>

EnterObserving ==
    /\ op.pc = "stored"
    /\ Transition(tickets[op.ticket].run, "Observing")
    /\ op' = Idle
    /\ UNCHANGED <<now, memory, usage, authority, consumed, history, evidence, ledger>>

-----------------------------------------------------------------------------
(* verify and commit: neither needs the run contract in memory. *)

\* verify accepts only the recorded, successful result of a ticket.
Verify(t) ==
    /\ op = Idle
    /\ results[t] # Nil
    /\ results[t].success
    /\ tickets[t] # Nil
    /\ Transition(tickets[t].run, "Verifying")
    /\ op' = [pc |-> "verifying", ticket |-> t]
    /\ UNCHANGED <<now, memory, usage, authority, consumed, history, evidence, ledger>>

RecordProof(p) ==
    /\ op.pc = "verifying"
    /\ proofs[p] = Nil
    /\ proofs' = [proofs EXCEPT ![p] = [run |-> tickets[op.ticket].run,
                                        policy |-> tickets[op.ticket].policy,
                                        ticket |-> op.ticket]]
    /\ op' = Idle
    /\ UNCHANGED <<now, memory, status, usage, authority, consumed, history, results, ledger>>

ProofMatches_AnyTicket(e) ==
    /\ proofs[e.proof] # Nil
    /\ proofs[e.proof].run = e.run
    /\ proofs[e.proof].policy = e.policy

\* validate_event_proof_binding
ProofMatches(e) ==
    /\ proofs[e.proof] # Nil
    /\ proofs[e.proof].run = e.run
    /\ proofs[e.proof].policy = e.policy
    /\ proofs[e.proof].ticket = e.ticket

\* commit of the event ledger_event_for_success builds from the result of ticket t,
\* proof p, and the decision d and the delta id x its caller passes; commit compares
\* the decision with the proof, and the delta id with nothing.
CommitSuccess(d, t, p, x) ==
    /\ op = Idle
    /\ Len(ledger) < MaxEvents
    /\ tickets[t] # Nil
    /\ LET e == [result |-> "Success", run |-> tickets[t].run, delta |-> x, policy |-> d,
                 ticket |-> t, proof |-> p, timestamp |-> now]
       IN /\ ProofMatches(e)
          /\ Transition(e.run, "Persisting")
          /\ op' = [pc |-> "persisting", event |-> e]
    /\ UNCHANGED <<now, memory, usage, authority, consumed, history, evidence, ledger>>

\* commit of a Failed or Blocked event needs no proof.
CommitOther(r, result) ==
    /\ op = Idle
    /\ Len(ledger) < MaxEvents
    /\ Transition(r, "Persisting")
    /\ op' = [pc |-> "persisting", event |-> [result |-> result, run |-> r, timestamp |-> now]]
    /\ UNCHANGED <<now, memory, usage, authority, consumed, history, evidence, ledger>>

AppendLedgerEvent_AlwaysCompletes ==
    /\ op.pc = "persisting"
    /\ ledger' = Append(ledger, op.event)
    /\ op' = [pc |-> "appended", event |-> op.event]
    /\ UNCHANGED <<now, memory, status, usage, authority, consumed, history, evidence>>

AppendLedgerEvent ==
    /\ op.pc = "persisting"
    /\ ledger' = Append(ledger, op.event)
    /\ op' = IF op.event.result = "Success" THEN [pc |-> "appended", event |-> op.event] ELSE Idle
    /\ UNCHANGED <<now, memory, status, usage, authority, consumed, history, evidence>>

CompleteRun ==
    /\ op.pc = "appended"
    /\ Transition(op.event.run, "Completed")
    /\ op' = Idle
    /\ UNCHANGED <<now, memory, usage, authority, consumed, history, evidence, ledger>>

-----------------------------------------------------------------------------
(* The environment *)

\* The write the running method has reached fails - the database is locked or full -
\* and the method returns the error; the process lives on with its run contracts.
\* At "executing" the next step is the executor, which has failures of its own.
FailWrite ==
    /\ op.pc \notin {"idle", "executing"}
    /\ op' = Idle
    /\ lost' = IF op.pc \in {"returned", "stored"} THEN lost \cup {op.ticket} ELSE lost
    /\ unfinished' = IF op.pc = "appended" THEN unfinished \cup {op.event.run} ELSE unfinished
    /\ UNCHANGED <<now, memory, status, usage, authority, consumed, effects, evidence, ledger>>

Tick ==
    /\ now < MaxTime
    /\ now' = now + 1
    /\ UNCHANGED <<memory, op, status, usage, authority, consumed, history, evidence, ledger>>

\* The process dies between two writes and with_store opens the database again.
Crash ==
    /\ runs # {} \/ op # Idle
    /\ runs' = {}
    /\ createdAt' = [r \in Runs |-> 0]
    /\ op' = Idle
    /\ UNCHANGED <<now, status, usage, authority, consumed, history, evidence, ledger>>

Next ==
    \/ \E r \in Runs : Admit(r) \/ EnforceTimeout(r) \/ StartHeartbeat(r)
    \/ RecordHeartbeat
    \/ \E r \in Runs, x \in DeltaIds, c \in Caps, risk \in DeltaRisks, config \in Configs :
          ProposeDelta(r, x, c, risk, config)
    \/ DecideDelta
    \/ \E d \in PolicyIds : RecordPolicyDecision(d)
    \/ \E d \in PolicyIds, g \in GrantIds : GrantApproval(d, g)
    \/ ResumeRun
    \/ \E d \in PolicyIds, t \in TicketIds : IssueTicket(d, t)
    \/ \E t \in TicketIds : ConsumeTicket(t)
    \/ RecordToolCall
    \/ EnterExecuting
    \/ \E outcome \in Outcome : RunExecutor(outcome)
    \/ RecordResult
    \/ EnterObserving
    \/ \E t \in TicketIds : Verify(t)
    \/ \E p \in ProofIds : RecordProof(p)
    \/ \E d \in PolicyIds, t \in TicketIds, p \in ProofIds, x \in DeltaIds \cup OtherDeltas :
          CommitSuccess(d, t, p, x)
    \/ \E r \in Runs, result \in {"Failed", "Blocked"} : CommitOther(r, result)
    \/ AppendLedgerEvent
    \/ CompleteRun
    \/ FailWrite
    \/ Tick
    \/ Crash

Spec == Init /\ [][Next]_vars

-----------------------------------------------------------------------------
(* Properties *)

Successes == {i \in DOMAIN ledger : ledger[i].result = "Success"}

\* The bindings verify_successful_ledger_event replays, approval and delta id apart:
\* the ticket, its policy decision, the recorded result and the proof exist and agree.
Chained(e) ==
    /\ tickets[e.ticket] # Nil
    /\ tickets[e.ticket].run = e.run
    /\ tickets[e.ticket].policy = e.policy
    /\ policies[e.policy] # Nil
    /\ policies[e.policy].run = e.run
    /\ policies[e.policy].capability = tickets[e.ticket].capability
    /\ policies[e.policy].decision # "Deny"
    /\ results[e.ticket] # Nil
    /\ results[e.ticket].success
    /\ ProofMatches(e)

\* All of them: the event also names the delta of its ticket, which is the delta of
\* the ticket's decision.
AuditBinding(e) == Chained(e) /\ e.delta = policies[e.policy].delta

\* Some grant of the decision an event was executed under; the audit also wants
\* it unexpired at the event's timestamp (approval_grant_matches_event).
Granted(d) == \E g \in GrantIds : grants[g] # Nil /\ grants[g].policy = d

AuditApproval(e) ==
    policies[e.policy].decision = "RequireApproval" =>
        \E g \in GrantIds : /\ grants[g] # Nil
                            /\ grants[g].policy = e.policy
                            /\ grants[g].expires_at >= e.timestamp

\* A success event in the ledger is backed by proof, recorded result, consumed ticket, an
\* executor that was invoked once for that ticket, a decision that is not a denial, and a
\* grant of that very decision when one was required, all of them of the event's run and
\* of one another.  The delta id of the event and the end of the grant are not part of
\* it: commit looks at neither, the audit at both (CommittedEventsReplay).
SuccessIsAuthorised ==
    \A i \in Successes :
        LET e == ledger[i]
        IN /\ Chained(e)
           /\ e.ticket \in consumed
           /\ effects[e.ticket] = 1
           /\ policies[e.policy].decision = "RequireApproval" => Granted(e.policy)

\* replay_ledger_audit accepts every success event commit appended.
CommittedEventsReplay ==
    \A i \in Successes : AuditBinding(ledger[i]) /\ AuditApproval(ledger[i])

\* A ticket's executor is invoked once at most, whatever crashes, failures and retries
\* the run sees (README.md:613), and a run is executed again only when a write failed,
\* with the process alive, after the executor of another of its tickets had returned:
\* the run is then still executing, and held.
ExecutesAgainOnlyWhenLost ==
    \A t, u \in TicketIds :
        /\ effects[t] <= 1
        /\ effects[t] > 0 /\ effects[u] > 0 /\ tickets[t].run = tickets[u].run =>
              t = u \/ t \in lost \/ u \in lost

\* An executor is only ever invoked on behalf of a decision that allows it: the
\* run's own, not a denial, granted when it had to be, and within the budget.
EffectIsAuthorised ==
    \A t \in TicketIds : effects[t] > 0 =>
        LET d == tickets[t].policy
        IN /\ policies[d].run = tickets[t].run
           /\ policies[d].decision # "Deny"
           /\ policies[d].decision = "RequireApproval" => Granted(d)
           /\ usage[tickets[t].run].tool_calls > 0

\* A recorded denial leaves its run blocked for good, however far another delta of
\* the run had already got, and the run never has a success in the ledger.
DenialIsFinal ==
    \A d \in PolicyIds : policies[d] # Nil /\ policies[d].decision = "Deny" =>
        /\ status[policies[d].run] = "Blocked"
        /\ \A i \in Successes : ledger[i].run # policies[d].run

\* The run table and the ledger agree: a completed run has a success event; a run with a
\* success event is completed, or its commit died or failed before that, and only after
\* such a failure may a late call have timed it out.
CompletedMatchesLedger ==
    \A r \in Runs :
        /\ status[r] = "Completed" => \E i \in Successes : ledger[i].run = r
        /\ (\E i \in Successes : ledger[i].run = r) =>
              \/ status[r] \in {"Persisting", "Completed"}
              \/ status[r] = "TimedOut" /\ r \in unfinished

\* Every invocation of an executor is paid for: the results of a run are no more
\* than its counted tool calls, those no more than its consumed tickets and its
\* budget, and the recorded decisions no more than the counted steps.
TicketsOf(r) == {t \in TicketIds : tickets[t] # Nil /\ tickets[t].run = r}
BudgetsAddUp ==
    \A r \in Runs :
        /\ Cardinality({t \in TicketsOf(r) : effects[t] > 0}) <= usage[r].tool_calls
        /\ usage[r].tool_calls <= Cardinality(TicketsOf(r) \cap consumed)
        /\ usage[r].tool_calls <= Contract[r].max_tool_calls
        /\ Cardinality({d \in PolicyIds : policies[d] # Nil /\ policies[d].run = r}) <= usage[r].steps
        /\ usage[r].steps <= Contract[r].max_steps
        /\ usage[r].heartbeats <= Contract[r].max_heartbeats

\* The inductive invariant behind the properties above.

\* A ticket was issued under a recorded decision that allows it.
Backed(t, d) ==
    /\ policies[d] # Nil
    /\ policies[d].run = tickets[t].run
    /\ policies[d].capability = tickets[t].capability
    /\ policies[d].decision # "Deny"
    /\ policies[d].decision = "RequireApproval" => Granted(d)

TicketInv ==
    \A t \in TicketIds, d \in PolicyIds :
        tickets[t] # Nil /\ tickets[t].policy = d => Backed(t, d)

\* Consumption, effect and result of a ticket come in this order.
UseInv ==
    /\ \A t \in consumed : tickets[t] # Nil
    /\ \A t \in TicketIds : effects[t] > 0 =>
          /\ effects[t] = 1
          /\ t \in consumed
          /\ usage[tickets[t].run].tool_calls > 0
    /\ \A t \in TicketIds : results[t] # Nil => effects[t] = 1

\* An effect leaves its run executing or beyond; while the process that holds the run
\* lives, executing means that the very call has not returned yet, or that it returned
\* the error of a failed write.
PastAuthority == {"Observing", "Verifying", "Persisting"} \cup Terminal
EffectInv ==
    /\ \A t \in lost : effects[t] > 0
    /\ \A t \in TicketIds : effects[t] > 0 =>
          LET r == tickets[t].run
          IN /\ status[r] \in PastAuthority \cup {"Executing"}
             /\ status[r] = "Executing" /\ r \in runs =>
                   t \in lost \/ (op.pc \in {"returned", "stored"} /\ op.ticket = t)
             /\ \A u \in TicketIds : effects[u] > 0 /\ tickets[u].run = r =>
                   u = t \/ u \in lost \/ t \in lost

ProofInv ==
    \A p \in ProofIds : proofs[p] # Nil =>
        LET t == proofs[p].ticket
        IN /\ tickets[t] # Nil
           /\ tickets[t].run = proofs[p].run
           /\ tickets[t].policy = proofs[p].policy
           /\ results[t] # Nil
           /\ results[t].success

\* A success event of a held run is followed by the completion of the run, unless that
\* write fails.
LedgerInv ==
    /\ \A i \in Successes :
          /\ ProofMatches(ledger[i])
          /\ \/ status[ledger[i].run] \in {"Persisting", "Completed"}
             \/ status[ledger[i].run] = "TimedOut" /\ ledger[i].run \in unfinished
          /\ ledger[i].run \in runs =>
                \/ status[ledger[i].run] = "Completed"
                \/ ledger[i].run \in unfinished
                \/ op.pc = "appended" /\ op.event.run = ledger[i].run
    /\ \A r \in Runs : status[r] = "Completed" => \E i \in Successes : ledger[i].run = r

DenyInv ==
    \A d \in PolicyIds :
        policies[d] # Nil /\ policies[d].decision = "Deny" => status[policies[d].run] = "Blocked"

\* What the running method has established so far.
OpInv ==
    /\ op.pc \in {"beating", "granted"} => op.run \in runs
    /\ op.pc \in {"stepped", "decided"} => op.policy.run \in runs
    /\ op.pc \in {"returned", "stored"} => tickets[op.ticket].run \in runs
    /\ op.pc = "decided" /\ op.policy.decision = "Deny" => status[op.policy.run] = "Blocked"
    /\ op.pc \in {"consumed", "called", "executing"} =>
          /\ op.ticket \in consumed
          /\ effects[op.ticket] = 0
          /\ tickets[op.ticket].run \in runs
    /\ op.pc \in {"called", "executing"} => usage[tickets[op.ticket].run].tool_calls > 0
    /\ op.pc = "executing" =>
          \A t \in TicketIds :
              effects[t] > 0 /\ tickets[t].run = tickets[op.ticket].run => t \in lost
    /\ op.pc \in {"returned", "stored"} => op.ticket \in consumed /\ effects[op.ticket] = 1
    /\ op.pc \in {"executing", "returned", "stored"} => status[tickets[op.ticket].run] = "Executing"
    /\ op.pc = "stored" => results[op.ticket] # Nil
    /\ op.pc = "verifying" =>
          tickets[op.ticket] # Nil /\ results[op.ticket] # Nil /\ results[op.ticket].success
    /\ op.pc \in {"persisting", "appended"} => status[op.event.run] = "Persisting"
    /\ op.pc = "persisting" /\ op.event.result = "Success" => ProofMatches(op.event)
    /\ op.pc = "appended" => \E i \in Successes : ledger[i].run = op.event.run

IInv == TypeOK /\ TicketInv /\ UseInv /\ EffectInv /\ ProofInv /\ LedgerInv /\ DenyInv /\ OpInv

\* A run that reached a terminal status keeps it, whatever calls still arrive.
TerminalIsFinal == [][\A r \in Runs : status[r] \in Terminal => status'[r] = status[r]]_vars

\* A run whose process died before its result was observed never moves again: no
\* later process executes, resumes or times it out.
OrphanIsFrozen ==
    [][\A r \in Runs \ runs :
          status[r] \in {"Admitted", "RunningHeartbeat", "AwaitingApproval", "Executing"} =>
             /\ status'[r] = status[r]
             /\ \A t \in TicketsOf(r) : effects'[t] = effects[t]]_vars

\* A run is moved by the process that holds it and by nobody once it is terminal.
StatusIsKept == TerminalIsFinal /\ OrphanIsFrozen

-----------------------------------------------------------------------------
\* What the kernel promises (Authority), read off the tables of the store.

\* A recorded decision lets its run act: allowed, or to be approved and approved.
Permits(d) ==
    /\ policies[d] # Nil
    /\ \/ policies[d].decision = "Allow"
       \/ policies[d].decision = "RequireApproval" /\ Granted(d)

Permitted == {r \in Runs : \E d \in PolicyIds : Permits(d) /\ policies[d].run = r}

Denials ==
    {r \in Runs : \E d \in PolicyIds :
        policies[d] # Nil /\ policies[d].run = r /\ policies[d].decision = "Deny"}

\* The tickets of a run whose executor was invoked, those of which the ending was lost,
\* and those the ledger reports; a run that got past executing after it is settled.
Performed(r) == {t \in TicketIds : effects[t] > 0 /\ tickets[t].run = r}

Lost(r) == Performed(r) \cap lost

Settled == {r \in Runs : Performed(r) # {} /\ status[r] \in PastAuthority}

Reported(r) == {t \in TicketIds : \E i \in Successes : ledger[i].run = r /\ ledger[i].ticket = t}

Promise == INSTANCE Authority WITH
    Actions <- TicketIds,
    permitted <- Permitted,
    denied <- Denials,
    performed <- [r \in Runs |-> Performed(r)],
    lost <- [r \in Runs |-> Lost(r)],
    settled <- Settled,
    reported <- [r \in Runs |-> Reported(r)]

\* Every behaviour of the kernel is one of Authority: whatever tickets, grants,
\* denials, retries, timeouts, failing writes and crashes a run sees, each of its
\* writes is a step the promise allows at that point, or none of its business.
ImplementsAuthority == Promise!Spec
=============================================================================
