-------------------------------- MODULE Swarm --------------------------------
(***************************************************************************)
(* The swarm controller (moxi-swarm): tasks planned for subagents, handed  *)
(* over within the bounds of their manifests, answered by messages sealed  *)
(* into a sidechain, reviewed, and merged into the parent run.  Every      *)
(* function is pure and takes any of the records made so far: what a merge *)
(* rests on is only what the identifiers bind.                             *)
(***************************************************************************)
EXTENDS Integers, Sequences, FiniteSets, SequencesExt, Functions

CONSTANTS
    Subagents,        \* sequence of [agent_id, allowed_capabilities, memory_scopes]
    TaskLists,        \* sequences of [task_id, agent, required_capabilities, memory_scopes]
    MessageBodies,    \* [kind, content, evidence_refs]
    FaultyContents,   \* contents that ask to go around policy or review
    Reviewers,
    MaxMessages, MaxSidechains, MaxGates, MaxEvidence   \* bounds

VARIABLES
    swarm_plan, handoffs, messages, sidechains, gates, evidence,
    merge,            \* the last parent merge, with its evidence
    swarm_report      \* the last metric and safety findings

swarmVars ==
    <<swarm_plan, handoffs, messages, sidechains, gates, evidence, merge, swarm_report>>

NoTasks == << >>
NoGate == << >>
NoMerge == [evidence |-> {}]
NoReport == [findings |-> {}]

SwarmInit ==
    /\ swarm_plan = NoTasks
    /\ handoffs = {} /\ messages = {} /\ sidechains = {} /\ gates = {} /\ evidence = {}
    /\ merge = NoMerge
    /\ swarm_report = NoReport

-----------------------------------------------------------------------------
WithinBounds(agent, task) ==
    /\ task.required_capabilities \subseteq agent.allowed_capabilities
    /\ task.memory_scopes \subseteq agent.memory_scopes

AgentIds == {agent.agent_id : agent \in ToSet(Subagents)}

\* agent_map keeps the last agent of an id; a search finds the first.
LastAgent(id) == Subagents[Max({i \in DOMAIN Subagents : Subagents[i].agent_id = id})]
FirstAgent(id) == Subagents[Min({i \in DOMAIN Subagents : Subagents[i].agent_id = id})]

CanPlan(tasks) ==
    /\ Subagents # << >>
    /\ \A task \in ToSet(tasks) : task.agent \in AgentIds /\ WithinBounds(LastAgent(task.agent), task)

Handoff(task, from) ==
    [handoff_id |-> <<"handoff", from, task.agent, task.task_id>>, from |-> from, to |-> task.agent,
     allowed_capabilities |-> task.required_capabilities, memory_scopes |-> task.memory_scopes]

DataKinds == {"Claim", "Evidence", "RiskNotice"}

AgentMessage(handoff, from, body) ==
    [message_id |-> <<"agent_message", handoff.handoff_id, from, body.kind, body.content>>,
     handoff_id |-> handoff.handoff_id, from |-> from, kind |-> body.kind, content |-> body.content,
     evidence_refs |-> body.evidence_refs, data_only |-> body.kind \in DataKinds]

\* Any messages, of whatever handoff.
Sidechain(agent, handoff, chosen) ==
    LET message_ids == [i \in DOMAIN chosen |-> chosen[i].message_id]
    IN  [sidechain_id |-> <<"sidechain", agent, handoff.handoff_id, message_ids>>,
         message_ids |-> message_ids,
         tool_proposal_count |-> Cardinality({i \in DOMAIN chosen : chosen[i].kind = "ToolProposal"}),
         evidence_refs |-> UNION {m.evidence_refs : m \in ToSet(chosen)}]

GateId_Undecided(reviewer, sidechain, decision) == <<"review_gate", reviewer, sidechain.sidechain_id>>
GateId(reviewer, sidechain, decision) == <<"review_gate", reviewer, sidechain.sidechain_id, decision>>

ReviewGate(reviewer, sidechain, decision) ==
    [gate_id |-> GateId(reviewer, sidechain, decision), decision |-> decision,
     target_sidechain_id |-> sidechain.sidechain_id]

\* The gate need not be one of this sidechain.
EvidenceWith(sidechain, gate) ==
    [evidence_id |-> <<"merge_evidence", sidechain.sidechain_id, gate.gate_id>>,
     sidechain_id |-> sidechain.sidechain_id, review_gate_id |-> gate.gate_id,
     accepted |-> gate.decision = "Approved"]

EvidenceWithoutReview(sidechain) ==
    [evidence_id |-> <<"merge_evidence", sidechain.sidechain_id, NoGate>>,
     sidechain_id |-> sidechain.sidechain_id, review_gate_id |-> NoGate, accepted |-> FALSE]

CanMerge(items) == items # {} /\ \A item \in items : item.accepted

\* Sums of 32 bits in the code.
SwarmMetric(tasks, chains) ==
    [tasks |-> Len(tasks), agents |-> Len(Subagents),
     messages |-> FoldSet(LAMBDA c, n : n + Len(c.message_ids), 0, chains),
     tool_proposals |-> FoldSet(LAMBDA c, n : n + c.tool_proposal_count, 0, chains)]

\* The second kind of finding cannot occur: an instruction is never data only.
SafetyFindings(chosen) ==
    {<<m.message_id, n>> : m \in chosen, n \in 1 .. 3} \cap
    UNION {   {<<m.message_id, 1>> : m \in {x \in chosen : x.from \notin AgentIds}},
              {<<m.message_id, 2>> : m \in {x \in chosen : x.kind = "Instruction" /\ x.data_only}},
              {<<m.message_id, 3>> : m \in {x \in chosen : x.content \in FaultyContents}}}

-----------------------------------------------------------------------------
PlanTasks(tasks) ==
    /\ CanPlan(tasks)
    /\ swarm_plan' = tasks
    /\ UNCHANGED <<handoffs, messages, sidechains, gates, evidence, merge, swarm_report>>

\* The first task of the id, and the first agent of its id.
HandOver(task_id, from) ==
    LET task == swarm_plan[Min({i \in DOMAIN swarm_plan : swarm_plan[i].task_id = task_id})]
    IN  /\ WithinBounds(FirstAgent(task.agent), task)
        /\ handoffs' = handoffs \cup {Handoff(task, from)}
        /\ UNCHANGED <<swarm_plan, messages, sidechains, gates, evidence, merge, swarm_report>>

Say(handoff, from, body) ==
    /\ Cardinality(messages) < MaxMessages
    /\ messages' = messages \cup {AgentMessage(handoff, from, body)}
    /\ UNCHANGED <<swarm_plan, handoffs, sidechains, gates, evidence, merge, swarm_report>>

Seal(agent, handoff, chosen) ==
    /\ Cardinality(sidechains) < MaxSidechains
    /\ sidechains' = sidechains \cup {Sidechain(agent, handoff, chosen)}
    /\ UNCHANGED <<swarm_plan, handoffs, messages, gates, evidence, merge, swarm_report>>

Review(reviewer, sidechain, decision) ==
    /\ Cardinality(gates) < MaxGates
    /\ gates' = gates \cup {ReviewGate(reviewer, sidechain, decision)}
    /\ UNCHANGED <<swarm_plan, handoffs, messages, sidechains, evidence, merge, swarm_report>>

Present(item) ==
    /\ Cardinality(evidence) < MaxEvidence
    /\ evidence' = evidence \cup {item}
    /\ UNCHANGED <<swarm_plan, handoffs, messages, sidechains, gates, merge, swarm_report>>

Merge(items) ==
    /\ CanMerge(items)
    /\ merge' = [evidence |-> items]
    /\ UNCHANGED <<swarm_plan, handoffs, messages, sidechains, gates, evidence, swarm_report>>

Inspect ==
    /\ swarm_plan # NoTasks
    /\ swarm_report' = [metric |-> SwarmMetric(swarm_plan, sidechains),
                        findings |-> SafetyFindings(messages)]
    /\ UNCHANGED <<swarm_plan, handoffs, messages, sidechains, gates, evidence, merge>>

SwarmNext ==
    \/ \E tasks \in TaskLists : PlanTasks(tasks)
    \/ \E task \in ToSet(swarm_plan) : HandOver(task.task_id, "parent")
    \/ \E handoff \in handoffs, body \in MessageBodies : Say(handoff, handoff.to, body)
    \/ \E handoff \in handoffs, chosen \in SetToSeqs(messages) : Seal(handoff.to, handoff, chosen)
    \/ \E reviewer \in Reviewers, sidechain \in sidechains,
          decision \in {"Approved", "Rejected", "NeedsRevision"} : Review(reviewer, sidechain, decision)
    \/ \E sidechain \in sidechains, gate \in gates : Present(EvidenceWith(sidechain, gate))
    \/ \E sidechain \in sidechains : Present(EvidenceWithoutReview(sidechain))
    \/ \E items \in SUBSET evidence : Merge(items)
    \/ Inspect

-----------------------------------------------------------------------------
\* Nothing is merged into the parent run without an approval: every piece of
\* evidence is of a sealed sidechain and cites a gate, and of all the gates with
\* the identifier it cites, whoever made them and in whatever order, each one
\* approves of one and the same sealed sidechain.  It need not be the sidechain
\* of the evidence: merge_evidence (lib.rs:364-388) does not compare the two,
\* so that an approval of one sidechain backs another that nobody reviewed,
\* though docs/status.md:835-836 asks for "review-backed merge evidence".
MergeRestsOnApprovals ==
    \A item \in merge.evidence :
        LET cited == {gate \in gates : gate.gate_id = item.review_gate_id}
            sealed_ids == {s.sidechain_id : s \in sidechains}
        IN  /\ item.sidechain_id \in sealed_ids
            /\ \E approved \in sealed_ids :
                  \A gate \in cited : gate.decision = "Approved" /\ gate.target_sidechain_id = approved
            /\ cited # {}
=============================================================================
