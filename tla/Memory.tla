------------------------------- MODULE Memory -------------------------------
(***************************************************************************)
(* The memory controller (moxi-memory): a model's draft becomes a          *)
(* proposal, which is examined for contamination and decided on, endorsed  *)
(* by the host, accepted as a memory, recalled with citations, projected   *)
(* and forgotten.  The controller keeps nothing: the host holds proposals  *)
(* and memories, calls it in any order, and may give it another manifest   *)
(* in between.                                                             *)
(***************************************************************************)
EXTENDS Lists, SequencesExt

CONSTANTS
    MemoryManifests,  \* [provider_id, access_modes, scopes, source_tracking_required, ledger_binding_required]
    MemoryDrafts,     \* [kind, scope, content, source, risk_level]; content is a set of words
    TaintedWords,     \* words that stand for instruction-like content
    Queries,          \* [scopes, kinds, text, include_soft_deleted, limit]
    MaxProposals,     \* bound: proposals held
    MaxMemories       \* bound: memories accepted

ASSUME MemoryAssumption ==
    /\ \A draft \in MemoryDrafts : draft.risk_level \in Nat
    /\ \A query \in Queries : query.include_soft_deleted \in BOOLEAN

VARIABLES
    memory_manifest,  \* of the controller
    write_proposals,  \* proposals the host holds
    memories,         \* the host's list of memories
    memory_clock,     \* ticks at every acceptance
    memory_audit,     \* what was done to each memory last
    memory_answer     \* what the last call returned, when it only returns something

memoryVars ==
    <<memory_manifest, write_proposals, memories, memory_clock, memory_audit, memory_answer>>

None == "none"
NullContent == {}
NoSource == ""
HighRisk == 2

NoAnswer == [kind |-> None]

MemoryInit ==
    /\ memory_manifest \in MemoryManifests
    /\ write_proposals = {}
    /\ memories = << >>
    /\ memory_clock = 0
    /\ memory_audit = << >>
    /\ memory_answer = NoAnswer

-----------------------------------------------------------------------------
EnsureScope(scope) == scope \in memory_manifest.scopes

CanPropose(draft) ==
    /\ "Write" \in memory_manifest.access_modes
    /\ EnsureScope(draft.scope)
    /\ draft.content # NullContent
    /\ memory_manifest.source_tracking_required => draft.source # NoSource

Proposed(draft) ==
    [provider_id |-> memory_manifest.provider_id, kind |-> draft.kind, scope |-> draft.scope,
     content |-> draft.content, source |-> draft.source, risk_level |-> draft.risk_level,
     consent_ref |-> None, ledger_ref |-> None]

\* The id says neither where the content came from nor what was endorsed.
ProposalId(proposal) == <<"memory_proposal", proposal.provider_id, proposal.scope, proposal.content>>

\* contamination_findings: all of them block.
Contaminated(proposal) ==
    proposal.content \cap TaintedWords # {} \/ proposal.source = NoSource

DecideWrite(proposal, blocked) ==
    IF blocked THEN "Blocked"
    ELSE IF proposal.risk_level >= HighRisk \/ proposal.consent_ref = None THEN "RequiresConsent"
    ELSE IF memory_manifest.ledger_binding_required /\ proposal.ledger_ref = None THEN "PendingReview"
    ELSE "ReadyToStore"

CanAccept(proposal) ==
    /\ "Write" \in memory_manifest.access_modes
    /\ EnsureScope(proposal.scope)
    /\ proposal.consent_ref # None
    /\ memory_manifest.ledger_binding_required => proposal.ledger_ref # None

MemoryId(proposal) == <<"memory", proposal.provider_id, proposal.scope, proposal.content, proposal.source>>

Crystal(proposal) ==
    [memory_id |-> MemoryId(proposal), kind |-> proposal.kind, scope |-> proposal.scope,
     content |-> proposal.content, source |-> proposal.source,
     consent_ref |-> proposal.consent_ref, ledger_ref |-> proposal.ledger_ref,
     created_at |-> memory_clock, soft_deleted |-> FALSE]

CitationFor(memory) == [memory_id |-> memory.memory_id, source |-> memory.source]

Citations(selected) == [i \in DOMAIN selected |-> CitationFor(selected[i])]

RecallMatches(query, memory) ==
    /\ query.include_soft_deleted \/ ~memory.soft_deleted
    /\ query.scopes = {} \/ memory.scope \in query.scopes
    /\ query.kinds = {} \/ memory.kind \in query.kinds
    /\ query.text = None \/ query.text \in memory.content

\* The first ones of the list, and only then in the order of their age.
Found(query) ==
    FirstOf({i \in DOMAIN memories : RecallMatches(query, memories[i])}, query.limit)

Recalled(query) ==
    InOrder(memories, Found(query),
            ByKey(Found(query), [i \in DOMAIN memories |-> memories[i].created_at]))

RecallOf_CitedFirst(query) ==
    [kind |-> "recall", query |-> query, memories |-> Recalled(query),
     citations |-> Citations(Picked(memories, Found(query)))]
RecallOf(query) ==
    [kind |-> "recall", query |-> query, memories |-> Recalled(query),
     citations |-> Citations(Recalled(query))]

CanRecall(query) ==
    /\ memory_manifest.access_modes \cap {"Read", "Search"} # {}
    /\ \A scope \in query.scopes : EnsureScope(scope)

ProjectionOf(scope) ==
    LET selected == Picked(memories, {i \in DOMAIN memories :
                                      memories[i].scope = scope /\ ~memories[i].soft_deleted})
    IN  [kind |-> "projection", scope |-> scope, memory_ids |-> [i \in DOMAIN selected |-> selected[i].memory_id],
         citations |-> Citations(selected)]

-----------------------------------------------------------------------------
\* Proposals. A call that changes something returns nothing else of interest.

ProposeWrite(draft) ==
    /\ Cardinality(write_proposals) < MaxProposals
    /\ CanPropose(draft)
    /\ write_proposals' = write_proposals \cup {Proposed(draft)}
    /\ memory_answer' = NoAnswer
    /\ UNCHANGED <<memory_manifest, memories, memory_clock, memory_audit>>

ExamineWrite(proposal) ==
    /\ memory_answer' = [kind |-> "decision", proposal |-> proposal,
                         decision |-> DecideWrite(proposal, Contaminated(proposal))]
    /\ UNCHANGED <<memory_manifest, write_proposals, memories, memory_clock, memory_audit>>

\* The host adds a consent or the reference to a ledger entry.
Endorse(proposal, ref) ==
    LET endorsed == IF ref = "consent" THEN [proposal EXCEPT !.consent_ref = ref]
                    ELSE [proposal EXCEPT !.ledger_ref = ref]
    IN  /\ endorsed # proposal
        /\ write_proposals' = (write_proposals \ {proposal}) \cup {endorsed}
        /\ memory_answer' = NoAnswer
        /\ UNCHANGED <<memory_manifest, memories, memory_clock, memory_audit>>

-----------------------------------------------------------------------------
\* Memories.

Audit(memory_id, action) ==
    memory_audit' = [id \in DOMAIN memory_audit \cup {memory_id} |->
                        IF id = memory_id THEN action ELSE memory_audit[id]]

Without(memory_id) == Picked(memories, {i \in DOMAIN memories : memories[i].memory_id # memory_id})

\* accept_proposal, and the host puts the memory in the place of the one with
\* its id, at either end of its list.
AcceptProposal(proposal, atTheFront) ==
    LET others == Without(MemoryId(proposal))
    IN  /\ memory_clock < MaxMemories
        /\ CanAccept(proposal)
        /\ memories' = IF atTheFront THEN <<Crystal(proposal)>> \o others
                       ELSE Append(others, Crystal(proposal))
        /\ memory_clock' = memory_clock + 1
        /\ Audit(MemoryId(proposal), "Accepted")
        /\ memory_answer' = NoAnswer
        /\ UNCHANGED <<memory_manifest, write_proposals>>

Recall(query) ==
    /\ CanRecall(query)
    /\ memory_answer' = RecallOf(query)
    /\ UNCHANGED <<memory_manifest, write_proposals, memories, memory_clock, memory_audit>>

ProjectWorkingMemory(scope) ==
    /\ memory_answer' = ProjectionOf(scope)
    /\ UNCHANGED <<memory_manifest, write_proposals, memories, memory_clock, memory_audit>>

\* forget_event, and the host does what it says.
Forget(memory_id, soft_delete) ==
    /\ Audit(memory_id, IF soft_delete THEN "SoftDeleted" ELSE "Forgotten")
    /\ memories' = IF soft_delete
                   THEN [i \in DOMAIN memories |->
                            [memories[i] EXCEPT !.soft_deleted = @ \/ memories[i].memory_id = memory_id]]
                   ELSE Without(memory_id)
    /\ memories' # memories
    /\ memory_answer' = NoAnswer
    /\ UNCHANGED <<memory_manifest, write_proposals, memory_clock>>

ReplaceManifest(manifest) ==
    /\ manifest # memory_manifest
    /\ memory_manifest' = manifest
    /\ memory_answer' = NoAnswer
    /\ UNCHANGED <<write_proposals, memories, memory_clock, memory_audit>>

MemoryNext ==
    \/ \E draft \in MemoryDrafts : ProposeWrite(draft)
    \/ \E proposal \in write_proposals : ExamineWrite(proposal)
    \/ \E proposal \in write_proposals, ref \in {"consent", "ledger"} : Endorse(proposal, ref)
    \/ \E proposal \in write_proposals, atTheFront \in BOOLEAN : AcceptProposal(proposal, atTheFront)
    \/ \E query \in Queries : Recall(query)
    \/ \E scope \in memory_manifest.scopes : ProjectWorkingMemory(scope)
    \/ \E id \in {m.memory_id : m \in ToSet(memories)}, soft_delete \in BOOLEAN : Forget(id, soft_delete)
    \/ \E manifest \in MemoryManifests : ReplaceManifest(manifest)

-----------------------------------------------------------------------------
\* What a recall or a projection hands to a model can be accounted for: every
\* memory has a consent; by the audit trail it was accepted and not forgotten
\* since, nor soft-deleted unless the query asks for those; memories come
\* oldest first; and the citation at each place is the one of the memory
\* there.
RecallIsAccountable ==
    LET answer == memory_answer  recalled == answer.memories  projected == answer.memory_ids
    IN  /\ answer.kind = "recall" =>
              /\ DOMAIN answer.citations = DOMAIN recalled
              /\ \A i \in DOMAIN recalled :
                    /\ recalled[i].consent_ref # None
                    /\ answer.citations[i] = CitationFor(recalled[i])
                    /\ memory_audit[recalled[i].memory_id] \in
                          {"Accepted"} \cup IF answer.query.include_soft_deleted THEN {"SoftDeleted"} ELSE {}
              /\ \A i, j \in DOMAIN recalled : i < j => recalled[i].created_at < recalled[j].created_at
        /\ answer.kind = "projection" =>
              \A i \in DOMAIN projected :
                  /\ memory_audit[projected[i]] = "Accepted"
                  /\ answer.citations[i].memory_id = projected[i]

\* The decision on a write (decide_write) and its acceptance (accept_proposal)
\* ask for a consent and a ledger entry in two places.  A write the decision
\* calls ready is one the controller accepts; one that it does not call ready
\* is refused, unless it is contaminated or of a high risk: accept_proposal
\* looks at neither.  A contaminated proposal with a consent does become a
\* memory, though lib.rs:377 says that it "cannot become durable memory" and
\* docs/status.md:831 speaks of "contamination blocking".
DecisionAgrees ==
    \A proposal \in write_proposals :
        LET decision == DecideWrite(proposal, Contaminated(proposal))
        IN  "Write" \in memory_manifest.access_modes /\ EnsureScope(proposal.scope)
            => /\ decision = "ReadyToStore" => CanAccept(proposal)
               /\ decision # "ReadyToStore" /\ CanAccept(proposal)
                     => Contaminated(proposal) \/ proposal.risk_level >= HighRisk

\* What comes out of the memory can be accounted for, and what goes in differs
\* from what the decision said only by a contamination or a risk.
MemoryIsAccountable == RecallIsAccountable /\ DecisionAgrees
=============================================================================
