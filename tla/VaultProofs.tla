----------------------------- MODULE VaultProofs -----------------------------
(***************************************************************************)
(* What the decisions and records of the vault rest on, whatever the       *)
(* contents of the policies, requests, approvals, profiles and decisions   *)
(* and however often the policy is edited, time passes and another         *)
(* readiness decision is issued between any two calls.  The vault keeps    *)
(* nothing; the arguments are about what an id or a hash binds.            *)
(***************************************************************************)
EXTENDS VaultControls, FiniteSetTheorems, TLAPS

-----------------------------------------------------------------------------
LEMMA Triple ==
    ASSUME NEW a, NEW b, NEW c, NEW d, NEW e, <<a, b, c>> = <<a, d, e>>
    PROVE  b = d /\ c = e
  <1>1. <<a, b, c>>[2] = <<a, d, e>>[2] /\ <<a, b, c>>[3] = <<a, d, e>>[3]
    OBVIOUS
  <1>2. QED
    BY <1>1

-----------------------------------------------------------------------------
(* Readiness decisions.                                                     *)

\* What every readiness decision is: none, or one with an id that binds its
\* verdict, its gates and its evidence.
IsReadiness(d) ==
    \/ d = NoReadiness
    \/ /\ DOMAIN d = {"decision_id", "tenant_id", "missing_gates", "decision", "evidence_refs"}
       /\ d = [f \in DOMAIN d |-> d[f]]
       /\ \E pack : d.decision_id = ExpectedReadinessId(pack, d)

LEMMA ReadinessIsOne ==
    ASSUME NEW tenant, NEW pack, NEW gates, NEW evidence
    PROVE  IsReadiness(Readiness(tenant, pack, gates, evidence))
  <1> DEFINE d == Readiness(tenant, pack, gates, evidence)
  <1> DEFINE r == [tenant_id |-> tenant, missing_gates |-> gates,
                   decision |-> IF gates = {} THEN "Ready" ELSE "Blocked",
                   evidence_refs |-> evidence]
  <1>a. DOMAIN r = {"tenant_id", "missing_gates", "decision", "evidence_refs"}
    OBVIOUS
  <1> DEFINE v == ExpectedReadinessId(pack, r)
  <1>b. d = [decision_id |-> v] ++ r
    BY DEF Readiness
  <1> HIDE DEF r, d, v
  <1>1. /\ DOMAIN d = {"decision_id", "tenant_id", "missing_gates", "decision", "evidence_refs"}
        /\ d = [f \in DOMAIN d |-> d[f]]
    BY <1>a, <1>b DEF ++
  <1>2. d.decision_id = v /\ \A f \in DOMAIN r : d[f] = r[f]
    BY <1>a, <1>b DEF ++
  <1>c. Bound(d, {"decision", "missing_gates", "evidence_refs"})
            = Bound(r, {"decision", "missing_gates", "evidence_refs"})
    BY <1>a, <1>2 DEF Bound
  <1>d. d.decision_id = ExpectedReadinessId(pack, d)
    BY <1>2, <1>c DEF ExpectedReadinessId, v
  <1>3. IsReadiness(d)
    BY <1>1, <1>d, Zenon DEF IsReadiness
  <1>4. QED
    BY <1>3 DEF d

\* Two decisions of one tenant with the same id are the same decision.
LEMMA SameReadiness ==
    ASSUME NEW d, NEW e, IsReadiness(d), IsReadiness(e),
           d # NoReadiness, e # NoReadiness,
           d.tenant_id = e.tenant_id, d.decision_id = e.decision_id
    PROVE  d = e
  <1>1. PICK pack : d.decision_id = ExpectedReadinessId(pack, d)
    BY DEF IsReadiness
  <1>2. PICK other : e.decision_id = ExpectedReadinessId(other, e)
    BY DEF IsReadiness
  <1> DEFINE fields == {"decision", "missing_gates", "evidence_refs"}
  <1>3. Bound(d, fields) = Bound(e, fields)
    <2> DEFINE bd == Bound(d, fields)
               be == Bound(e, fields)
    <2>1. d.decision_id = <<"production_readiness", pack, bd>>
      BY <1>1 DEF ExpectedReadinessId
    <2>2. e.decision_id = <<"production_readiness", other, be>>
      BY <1>2 DEF ExpectedReadinessId
    <2> HIDE DEF bd, be
    <2>3. QED
      <3>1. <<"production_readiness", pack, bd>> = <<"production_readiness", other, be>>
        BY <2>1, <2>2
      <3>2. bd = be
        BY <3>1, Triple
      <3>3. QED
        BY <3>2 DEF bd, be
  <1>4. \A f \in fields : d[f] = e[f]
    BY <1>3 DEF Bound
  <1>5. \A f \in DOMAIN d : d[f] = e[f]
    BY <1>4 DEF IsReadiness
  <1>6. QED
    BY <1>5 DEF IsReadiness

LEMMA ReadinessPrefix ==
    ASSUME NEW d, IsReadiness(d), d # NoReadiness
    PROVE  d.decision_id[1] = "production_readiness" /\ d.decision_id # NoRef
  BY DEF IsReadiness, ExpectedReadinessId, NoRef

-----------------------------------------------------------------------------
(* Access: secret use and break-glass.                                      *)

LEMMA UseFields ==
    ASSUME NEW c, NEW r, NEW a, NEW at, NEW use_made, use_made = SecretUse(c, r, a, at)
    PROVE  /\ use_made.decision = SecretUseKind(c, r, a)
           /\ use_made.risk_level = r.risk_level
           /\ use_made.decided_at = at
  BY DEF SecretUse, ++

GlassFields == {"decision", "approval_ref", "audit_required", "evidence_refs", "decided_at", "expires_at"}

LEMMA GlassIs ==
    ASSUME NEW p, NEW r, NEW a, NEW at \in Nat, NEW made, made = BreakGlass(p, r, a, at)
    PROVE  /\ made.decision = BreakGlassKind(p, r, a)
           /\ made.decided_at = at /\ made.expires_at = at + 2
           /\ made.decision_id = ExpectedGlassId(p, r, made)
  <1> DEFINE d == [request_id |-> r.request_id,
                   decision |-> BreakGlassKind(p, r, a),
                   approval_ref |-> a.approval_id, audit_required |-> TRUE,
                   evidence_refs |->
                       r.evidence_refs \union ({a.approval_id} \ {NoRef}),
                   decided_at |-> at, expires_at |-> at + 2]
             id == ExpectedGlassId(p, r, d)
  <1>1. made = [decision_id |-> id] ++ d
    BY DEF BreakGlass, BreakGlassWindow
  <1>2. /\ DOMAIN d = GlassFields \union {"request_id"}
        /\ d.decision = BreakGlassKind(p, r, a) /\ d.decided_at = at /\ d.expires_at = at + 2
    BY DEF GlassFields
  <1>3. id = ExpectedGlassId(p, r, d)
    OBVIOUS
  <1> HIDE DEF d, id
  <1>4. made.decision_id = id /\ \A f \in DOMAIN d : made[f] = d[f]
    BY <1>1, <1>2 DEF ++, GlassFields
  <1>5. Bound(made, GlassFields) = Bound(d, GlassFields)
    BY <1>2, <1>4 DEF Bound
  <1>6. made.decision_id = ExpectedGlassId(p, r, made)
    BY <1>3, <1>4, <1>5 DEF ExpectedGlassId, GlassFields
  <1>7. made.decision = d.decision /\ made.decided_at = d.decided_at /\ made.expires_at = d.expires_at
    BY <1>2, <1>4 DEF GlassFields
  <1>8. QED
    BY <1>2, <1>6, <1>7

\* An approval that a decision accepted.
LEMMA AcceptedIsApproved ==
    ASSUME NEW a \in Approvals \union {NoApproval}, a # NoApproval, NEW r, NEW minimum \in Nat,
           NEW at \in Nat, ValidQuorum(a, r.request_id, r.tenant_id, minimum, at)
    PROVE  Approved(a, r, minimum, at)
  <1>1. a \in Approvals /\ IsFiniteSet(Approvers(a)) /\ a.required_approvers \in Nat /\ a.expires_at \in Nat
    BY ApprovalsAssumption
  <1>2. Cardinality(Approvers(a)) \in Nat
    BY <1>1, FS_CardinalityType
  <1>3. Cardinality(Approvers(a)) >= minimum
    BY <1>1, <1>2 DEF ValidQuorum
  <1>4. at < a.expires_at
    BY <1>1 DEF ValidQuorum, Expired
  <1>5. QED
    BY <1>3, <1>4 DEF ValidQuorum, Approved

GlassInv ==
    glass # Nothing =>
        /\ glass.decision_id = ExpectedGlassId(glass_basis.policy, glass_basis.request, glass)
        /\ glass.decided_at \in Nat /\ glass.expires_at \in Nat

AccessInv == now \in Nat /\ policy \in Policies /\ AllowedHasQuorum /\ GlassInv

\* The policy that is sealed again after an edit is one of the policies.
LEMMA PolicyIs ==
    ASSUME NEW p \in Policies, NEW refs
    PROVE  SealedPolicyPack(p, refs).policy = p
  BY DEF SealedPolicyPack

LEMMA AccessInit == Init => AccessInv
  BY PolicyIs DEF Init, ReviewInit, ReadinessInit, AccessInv, AllowedHasQuorum, GlassInv, policy

\* Steps that leave the decisions about access alone.
LEMMA AccessKept ==
    ASSUME AccessInv, now' \in Nat, policy' \in Policies, UNCHANGED access
    PROVE  AccessInv'
  BY DEF AccessInv, AllowedHasQuorum, GlassInv, access

LEMMA SecretUseStep ==
    ASSUME AccessInv, NEW r \in UseRequests, NEW a \in Approvals \union {NoApproval},
           DecideSecretUse(r, a)
    PROVE  AccessInv'
  <1>1. /\ SecretUseDecidable(Credential, r, a, now)
        /\ use' = SecretUse(Credential, r, a, now)
        /\ use_basis' = [request |-> r, approval |-> a]
        /\ UNCHANGED <<now, policy_record, glass, glass_basis>>
    BY DEF DecideSecretUse
  <1>2. /\ use'.decision = SecretUseKind(Credential, r, a)
        /\ use'.risk_level = r.risk_level
        /\ use'.decided_at = now
    BY <1>1, UseFields
  <1>3. ASSUME use'.decision = "Allowed", ApprovalRequired(Credential, use'.risk_level)
        PROVE  Approved(a, r, 2, now)
    <2>1. InScope(Credential, r) /\ ApprovalRequired(Credential, r.risk_level) /\ a # NoApproval
      BY <1>2, <1>3 DEF SecretUseKind
    <2>2. ValidQuorum(a, r.request_id, r.tenant_id, 2, now)
      BY <1>1, <2>1 DEF SecretUseDecidable
    <2>3. QED
      BY <2>1, <2>2, AcceptedIsApproved DEF AccessInv
  <1>4. AllowedHasQuorum'
    BY <1>1, <1>2, <1>3 DEF AccessInv, AllowedHasQuorum
  <1>5. QED
    BY <1>1, <1>4 DEF AccessInv, GlassInv, policy

LEMMA GlassStep ==
    ASSUME AccessInv, NEW r \in GlassRequests, NEW a \in Approvals \union {NoApproval},
           DecideBreakGlass(r, a)
    PROVE  AccessInv'
  <1>1. /\ BreakGlassDecidable(policy, r, a, now)
        /\ glass' = BreakGlass(policy, r, a, now)
        /\ glass_basis' = [policy |-> policy, request |-> r, approval |-> a]
        /\ UNCHANGED <<now, policy_record, use, use_basis>>
    BY DEF DecideBreakGlass
  <1>2. now \in Nat /\ policy \in Policies /\ policy.quorum_approvers \in Nat
    BY ApprovalsAssumption DEF AccessInv
  <1>3. /\ glass'.decision = BreakGlassKind(policy, r, a)
        /\ glass'.decided_at = now /\ glass'.expires_at = now + 2
        /\ glass'.decision_id = ExpectedGlassId(policy, r, glass')
    BY <1>1, <1>2, GlassIs
  <1>4. ASSUME glass'.decision = "Allowed", NeedsQuorum(policy, r)
        PROVE  Approved(a, r, policy.quorum_approvers, now)
    <2>1. GlassInScope(policy, r) /\ a # NoApproval
      BY <1>3, <1>4 DEF BreakGlassKind
    <2>2. ValidQuorum(a, r.request_id, r.tenant_id, policy.quorum_approvers, now)
      BY <1>1, <1>4, <2>1 DEF BreakGlassDecidable
    <2>3. QED
      BY <1>2, <2>1, <2>2, AcceptedIsApproved
  <1>5. AllowedHasQuorum'
    BY <1>1, <1>3, <1>4 DEF AccessInv, AllowedHasQuorum
  <1>6. GlassInv'
    BY <1>1, <1>2, <1>3 DEF GlassInv
  <1>7. QED
    BY <1>1, <1>2, <1>5, <1>6 DEF AccessInv, policy

\* What the operator does at the hardening decisions: the clock does not go back
\* and readiness is forgotten, issued or left alone.
Issues == IsReadiness(readiness) => IsReadiness(readiness')

LEMMA ReadinessClock == ReadinessNext => (now' = now \/ now' = now + 1) /\ Issues
  <1> DEFINE Frame == now' = now /\ Issues
  <1>0. \A tenant, pack, gates, evidence : readiness' = Readiness(tenant, pack, gates, evidence) => Issues
    BY ReadinessIsOne, Zenon DEF Issues
  <1>a. /\ Forget => Issues
        /\ UNCHANGED readiness => Issues
    BY Zenon DEF Forget, Issues, IsReadiness
  <1>1. \A component, d : Put(component, d) => Frame
    BY <1>a, Zenon DEF Put
  <1> USE Zenon
  <1>2. ReverifyAuth => Frame
    BY <1>1 DEF ReverifyAuth
  <1>3. ReverifySecretManager => Frame
    BY <1>1 DEF ReverifySecretManager
  <1>4. ReverifyVerifier => Frame
    BY <1>1 DEF ReverifyVerifier
  <1>5. ReverifySandbox => Frame
    BY <1>1 DEF ReverifySandbox
  <1>6. ReverifyRotation => Frame
    BY <1>1 DEF ReverifyRotation
  <1>7. ReverifyInjection => Frame
    BY <1>1 DEF ReverifyInjection
  <1>8. ReverifyDelivery => Frame
    BY <1>1 DEF ReverifyDelivery
  <1>9. ReverifyStorage => Frame
    BY <1>1 DEF ReverifyStorage
  <1>10. ASSUME NEW i, ReverifyAdapter(i) PROVE Frame
    BY <1>10, <1>a DEF ReverifyAdapter
  <1>11. ASSUME NEW s, NEW records, NEW risk, ResignExecutor(s, records, risk) PROVE Frame
    BY <1>11, <1>a DEF ResignExecutor
  <1>12. ASSUME NEW component, Misplace(component) \/ EditVerdict(component) PROVE Frame
    BY <1>12, <1>a DEF Misplace, EditVerdict
  <1>13. EvaluateSet => Frame
    BY <1>0 DEF EvaluateSet, EvaluateStrictly
  <1>14. ASSUME NEW with_sandbox, EvaluateBasic(with_sandbox) PROVE Frame
    BY <1>14, <1>0 DEF EvaluateBasic, Evaluate
  <1>15. DecisionsAge => now' = now + 1 /\ Issues
    BY <1>a DEF DecisionsAge
  <1>16. ListAgain => Frame
    BY <1>a DEF ListAgain
  <1>17. QED
    BY <1>2, <1>3, <1>4, <1>5, <1>6, <1>7, <1>8, <1>9, <1>10, <1>11, <1>12, <1>13, <1>14, <1>15, <1>16
    DEF ReadinessNext

LEMMA AccessStep ==
    ASSUME AccessInv, [Next]_vars
    PROVE  AccessInv'
  <1> USE DEF policy
  <1>1. CASE UNCHANGED vars
    BY <1>1, AccessKept DEF AccessInv, vars, requestVars, access
  <1>2. CASE ReadinessNext /\ UNCHANGED requestVars
    <2>1. now' \in Nat
      BY <1>2, ReadinessClock DEF AccessInv
    <2>2. QED
      BY <1>2, <2>1, AccessKept DEF AccessInv, requestVars, access
  <1>3. ASSUME NEW r \in UseRequests, NEW a \in Approvals \union {NoApproval}, DecideSecretUse(r, a)
        PROVE  AccessInv'
    BY <1>3, SecretUseStep
  <1>4. ASSUME NEW r \in GlassRequests, NEW a \in Approvals \union {NoApproval}, DecideBreakGlass(r, a)
        PROVE  AccessInv'
    BY <1>4, GlassStep
  <1>5. ASSUME UNCHANGED <<now, policy_record, access>> PROVE AccessInv'
    BY <1>5, AccessKept DEF AccessInv
  <1>6. ASSUME EditPolicy PROVE AccessInv'
    <2>1. now' \in Nat /\ policy' \in Policies /\ UNCHANGED access
      BY <1>6, PolicyIs DEF EditPolicy, AccessInv
    <2>2. QED
      BY <2>1, AccessKept
  <1>7. ASSUME TimePasses PROVE AccessInv'
    <2>1. now' \in Nat /\ policy' \in Policies /\ UNCHANGED access
      BY <1>7 DEF TimePasses, AccessInv
    <2>2. QED
      BY <2>1, AccessKept
  <1>8. ASSUME ReviewNext PROVE AccessInv'
    BY <1>3, <1>4, <1>5, <1>6, <1>7, <1>8
    DEF ReviewNext, AuditBreakGlass, IssueReadiness, SealProfile, EvaluateP1, AuditP1, BundleP1,
        ExportCompliance
  <1>9. QED
    BY <1>1, <1>2, <1>8 DEF Next

\* A secret use or a break-glass access that needs a quorum is only allowed with
\* a live approval of that many distinct people for that very request, whatever
\* approvals are presented and whatever the policy asks for.
THEOREM QuorumIsKept == Spec => []AllowedHasQuorum
  <1>1. AccessInv => AllowedHasQuorum
    BY DEF AccessInv
  <1>2. QED
    BY AccessInit, AccessStep, <1>1, PTL DEF Spec

\* A break-glass decision enters the audit trail only inside its window, for the
\* request and under the very policy content it was made with, however often the
\* policy was edited in between.
THEOREM GlassAuditIsFaithful == Spec => GlassAuditIsOfTheDecision
  <1> DEFINE Faithful ==
        \A x \in exports' \ exports :
           x.kind = "BreakGlass" =>
               /\ glass_basis.policy = policy
               /\ glass_basis.request.request_id \in x.event_refs
               /\ glass.decided_at <= now /\ now < glass.expires_at
  <1>1. ASSUME AccessInv, NEW r, NEW redaction, AuditBreakGlass(r, redaction) PROVE Faithful
    <2> DEFINE x == BreakGlassAudit(policy, r, glass, redaction)
    <2>1. /\ glass # Nothing /\ ValidBreakGlass(policy, r, glass, now)
          /\ exports' = exports \union {x}
      BY <1>1 DEF AuditBreakGlass
    <2>2. /\ now \in Nat /\ glass.decided_at \in Nat /\ glass.expires_at \in Nat
          /\ glass.decision_id = ExpectedGlassId(glass_basis.policy, glass_basis.request, glass)
      BY <1>1, <2>1 DEF AccessInv, GlassInv
    <2>3. ExpectedGlassId(policy, r, glass) = ExpectedGlassId(glass_basis.policy, glass_basis.request, glass)
      BY <2>1, <2>2 DEF ValidBreakGlass
    <2>4. HashOf("tenant_policy_hash", policy) = HashOf("tenant_policy_hash", glass_basis.policy)
          /\ r = glass_basis.request
      BY <2>3 DEF ExpectedGlassId
    <2>5. policy = glass_basis.policy
      BY <2>4 DEF HashOf
    <2>6. r.request_id \in x.event_refs
      BY DEF BreakGlassAudit, AuditExport, ++
    <2>7. glass.decided_at <= now /\ now < glass.expires_at
      BY <2>1, <2>2 DEF ValidBreakGlass, Expired
    <2>8. QED
      BY <2>1, <2>4, <2>5, <2>6, <2>7
  <1>2. ASSUME NEW redaction, AuditP1(redaction) PROVE Faithful
    <2>1. exports' = exports \union {P1Audit(p1, record, redaction)}
      BY <1>2 DEF AuditP1
    <2>2. P1Audit(p1, record, redaction).kind = "P1ExecutionReadiness"
      BY DEF P1Audit, AuditExport, ++
    <2>3. QED
      BY <2>1, <2>2
  <1>3. ASSUME UNCHANGED exports PROVE Faithful
    BY <1>3
  <1>4. ASSUME AccessInv, ReviewNext PROVE Faithful
    BY <1>1, <1>2, <1>3, <1>4
    DEF ReviewNext, DecideSecretUse, DecideBreakGlass, IssueReadiness, SealProfile, EvaluateP1,
        BundleP1, ExportCompliance, EditPolicy, TimePasses, review
  <1>5. ASSUME AccessInv, [Next]_vars PROVE [Faithful]_reviewVars
    BY <1>3, <1>4, <1>5 DEF Next, vars, requestVars, review
  <1>6. QED
    BY AccessInit, AccessStep, <1>5, PTL DEF Spec, GlassAuditIsOfTheDecision

-----------------------------------------------------------------------------
(* P1 execution: what a profile record and a decision rest on.              *)

ReadinessInv == IsReadiness(readiness)

\* The record keeps of its policy and of its readiness decision what it was
\* sealed with.
RecordInv ==
    record # Nothing =>
        /\ DOMAIN sealed = {"policy", "readiness"} /\ sealed = [f \in DOMAIN sealed |-> sealed[f]]
        /\ record.tenant_policy_hash = PolicyHash(sealed.policy)
        /\ IsReadiness(sealed.readiness)
        /\ record.production_readiness_ref = sealed.readiness.decision_id
        /\ IF NeedsReadiness(record.profile)
           THEN sealed.readiness # NoReadiness
           ELSE sealed.readiness = NoReadiness
        /\ sealed.readiness # NoReadiness => sealed.readiness.tenant_id = record.tenant_id

\* Every reference of a P1 decision that has the prefix of a readiness decision
\* is the readiness decision it was made with.
P1Inv ==
    p1 # Nothing =>
        /\ IsReadiness(p1_basis.readiness)
        /\ p1_basis.readiness # NoReadiness => p1_basis.readiness.tenant_id = p1.tenant_id
        /\ \A ref \in p1.evidence_refs :
              ref[1] = "production_readiness" => ref = p1_basis.readiness.decision_id

LEMMA SealedFields ==
    ASSUME NEW pr, NEW p, NEW with, NEW made, made = SealedProfile(pr, p, with)
    PROVE  /\ made.tenant_id = p.tenant_id
           /\ made.tenant_policy_hash = pr.policy_hash
           /\ made.profile = p
           /\ made.production_readiness_ref = with.decision_id
  BY DEF SealedProfile, ReadinessRefs, NoReadiness, ++

LEMMA NewReadiness ==
    ASSUME ReadinessInv, [Next]_vars
    PROVE  ReadinessInv'
  <1>1. ASSUME UNCHANGED readiness PROVE ReadinessInv'
    BY <1>1 DEF ReadinessInv
  <1>2. ASSUME ReadinessNext PROVE ReadinessInv'
    BY <1>2, ReadinessClock DEF ReadinessInv, Issues
  <1>3. ASSUME NEW gates, NEW evidence, IssueReadiness(gates, evidence) PROVE ReadinessInv'
    BY <1>3, ReadinessIsOne DEF ReadinessInv, IssueReadiness
  <1>4. ASSUME ReviewNext PROVE ReadinessInv'
    BY <1>1, <1>3, <1>4
    DEF ReviewNext, DecideSecretUse, DecideBreakGlass, AuditBreakGlass, SealProfile, EvaluateP1,
        AuditP1, BundleP1, ExportCompliance, EditPolicy, TimePasses
  <1>5. QED
    BY <1>1, <1>2, <1>4 DEF Next, vars

LEMMA RecordKept ==
    ASSUME RecordInv, UNCHANGED profile
    PROVE  RecordInv'
  BY DEF RecordInv, profile

LEMMA SealStep ==
    ASSUME ReadinessInv, NEW p \in Profiles, NEW with \in Passed, SealProfile(p, with)
    PROVE  RecordInv'
  <1>1. /\ ProfileSealable(policy_record, p, with)
        /\ record' = SealedProfile(policy_record, p, with)
        /\ sealed' = [policy |-> policy, readiness |-> with]
    BY DEF SealProfile
  <1>2. /\ record'.tenant_id = p.tenant_id
        /\ record'.tenant_policy_hash = policy_record.policy_hash
        /\ record'.profile = p
        /\ record'.production_readiness_ref = with.decision_id
    BY <1>1, SealedFields
  <1>3. IsReadiness(with)
    BY DEF Passed, ReadinessInv, IsReadiness
  <1>4. /\ policy_record.policy_hash = PolicyHash(policy)
        /\ p.tenant_id = policy.tenant_id
        /\ IF NeedsReadiness(p)
           THEN with # NoReadiness /\ with.tenant_id = policy.tenant_id
           ELSE with = NoReadiness
    BY <1>1 DEF ProfileSealable, PolicyPackLoads, ReadyFor, policy
  <1>5. /\ DOMAIN sealed' = {"policy", "readiness"}
        /\ sealed' = [f \in DOMAIN sealed' |-> sealed'[f]]
        /\ sealed'.policy = policy /\ sealed'.readiness = with
    BY <1>1
  <1>6. QED
    BY <1>2, <1>3, <1>4, <1>5, Zenon DEF RecordInv

LEMMA RecordStep ==
    ASSUME ReadinessInv, RecordInv, [Next]_vars
    PROVE  RecordInv'
  <1>1. ASSUME UNCHANGED profile PROVE RecordInv'
    BY <1>1, RecordKept
  <1>2. ASSUME NEW p \in Profiles, NEW with \in Passed, SealProfile(p, with) PROVE RecordInv'
    BY <1>2, SealStep
  <1>3. ASSUME ReviewNext PROVE RecordInv'
    BY <1>1, <1>2, <1>3
    DEF ReviewNext, DecideSecretUse, DecideBreakGlass, AuditBreakGlass, IssueReadiness, EvaluateP1,
        AuditP1, BundleP1, ExportCompliance, EditPolicy, TimePasses
  <1>4. QED
    BY <1>1, <1>3 DEF Next, vars, requestVars

\* A record whose readiness decision it compares loads with that one only.
LEMMA LoadedIsSealed ==
    ASSUME ReadinessInv, RecordInv
    PROVE  LoadsAsSealed
  <1> SUFFICES ASSUME record # Nothing, ProfileLoadsWithReadiness(record, policy_record, readiness)
               PROVE  sealed = [policy |-> policy, readiness |-> readiness]
    BY DEF LoadsAsSealed
  <1>1. /\ DOMAIN sealed = {"policy", "readiness"} /\ sealed = [f \in DOMAIN sealed |-> sealed[f]]
        /\ record.tenant_policy_hash = PolicyHash(sealed.policy)
        /\ IsReadiness(sealed.readiness) /\ IsReadiness(readiness)
        /\ record.production_readiness_ref = sealed.readiness.decision_id
        /\ IF NeedsReadiness(record.profile)
           THEN sealed.readiness # NoReadiness
           ELSE sealed.readiness = NoReadiness
        /\ sealed.readiness # NoReadiness => sealed.readiness.tenant_id = record.tenant_id
    BY DEF RecordInv, ReadinessInv
  <1>2. PolicyHash(sealed.policy) = PolicyHash(policy)
    BY <1>1 DEF ProfileLoadsWithReadiness, ProfileLoads, PolicyPackLoads, policy
  <1>3. sealed.policy = policy
    BY <1>2 DEF PolicyHash, HashOf
  <1>4. sealed.readiness = readiness
    <2>1. CASE ~NeedsReadiness(record.profile)
      BY <1>1, <2>1 DEF ProfileLoadsWithReadiness, ReadinessMatches
    <2>2. CASE NeedsReadiness(record.profile)
      <3>1. /\ readiness # NoReadiness /\ readiness.tenant_id = record.tenant_id
            /\ ReadinessRefs(readiness) = Bound(record, {"production_readiness_ref",
                                                         "production_readiness_evidence_hash"})
        BY <2>2 DEF ProfileLoadsWithReadiness, ReadinessMatches, ReadyFor
      <3>2. ReadinessRefs(readiness).production_readiness_ref = readiness.decision_id
        BY <3>1 DEF ReadinessRefs
      <3>3. readiness.decision_id = record.production_readiness_ref
        BY <3>1, <3>2 DEF Bound
      <3>4. QED
        BY <1>1, <2>2, <3>1, <3>3, SameReadiness
    <2>3. QED
      BY <2>1, <2>2
  <1>5. QED
    BY <1>1, <1>3, <1>4

\* A profile record loads under no other policy content and with no other
\* readiness decision than it was sealed with, whatever was edited or issued in
\* between.
THEOREM SealHolds == Spec => []LoadsAsSealed
  <1>1. Init => ReadinessInv /\ RecordInv
    BY DEF Init, ReadinessInit, ReviewInit, ReadinessInv, IsReadiness, RecordInv
  <1>2. QED
    BY <1>1, NewReadiness, RecordStep, LoadedIsSealed, PTL DEF Spec

\* Profiles and requests do not name a readiness decision as evidence of their
\* own: the check of the bundle looks for the sealed decision among all the
\* references of the P1 decision and cannot tell who put it there.
EvidenceIsItsOwn ==
    \A x \in Profiles \union P1Requests : \A ref \in x.evidence_refs :
        ref[1] # "production_readiness"

RecordedProfile == record # Nothing => record.profile \in Profiles

BundleInv == P1Inv /\ RecordedProfile /\ BundleRestsOnTheSeal

LEMMA P1Tenant ==
    ASSUME NEW p, NEW r, NEW with, NEW made, made = P1Decision(p, r, with)
    PROVE  made.tenant_id = r.tenant_id
  BY DEF P1Decision, ++

LEMMA P1Refs ==
    ASSUME NEW p, NEW r, NEW with, NEW made, made = P1Decision(p, r, with)
    PROVE  made.evidence_refs = p.evidence_refs \union r.evidence_refs
                                   \union Given({with.decision_id})
  BY DEF P1Decision, ++

LEMMA BundleFields ==
    ASSUME NEW r, NEW d, NEW rec, NEW x, NEW with, NEW made, made = P1Bundle(r, d, rec, x, with)
    PROVE  made.production_readiness_ref = rec.production_readiness_ref
  BY DEF P1Bundle, ++

LEMMA BundleKept ==
    ASSUME BundleInv, UNCHANGED <<profile, decided, bundle, bundled>>
    PROVE  BundleInv'
  BY DEF BundleInv, P1Inv, RecordedProfile, BundleRestsOnTheSeal, profile, decided

LEMMA P1Step ==
    ASSUME EvidenceIsItsOwn, ReadinessInv, BundleInv, NEW r \in P1Requests, NEW with \in Passed,
           EvaluateP1(r, with)
    PROVE  BundleInv'
  <1>1. /\ record # Nothing /\ P1Decidable(record.profile, r, with)
        /\ p1' = P1Decision(record.profile, r, with)
        /\ p1_basis' = [request |-> r, readiness |-> with]
        /\ UNCHANGED <<profile, bundle, bundled>>
    BY DEF EvaluateP1, review
  <1>2. IsReadiness(with)
    BY DEF Passed, ReadinessInv, IsReadiness
  <1>3. p1_basis'.readiness = with
    BY <1>1
  <1>4. with # NoReadiness => with.tenant_id = p1'.tenant_id
    <2>1. p1'.tenant_id = r.tenant_id
      BY <1>1, P1Tenant
    <2>2. QED
      BY <1>1, <2>1 DEF P1Decidable
  <1>5. ASSUME NEW ref \in p1'.evidence_refs, ref[1] = "production_readiness"
        PROVE  ref = with.decision_id
    <2>1. ref \in record.profile.evidence_refs \union r.evidence_refs \union Given({with.decision_id})
      BY <1>1, <1>5, P1Refs
    <2>2. record.profile \in Profiles
      BY <1>1 DEF BundleInv, RecordedProfile
    <2>3. QED
      BY <1>5, <2>1, <2>2 DEF EvidenceIsItsOwn, Given
  <1>6. P1Inv'
    BY <1>2, <1>3, <1>4, <1>5 DEF P1Inv
  <1>7. QED
    BY <1>1, <1>6 DEF BundleInv, RecordedProfile, BundleRestsOnTheSeal, profile

LEMMA BundleStep ==
    ASSUME RecordInv, BundleInv, NEW r, NEW x, NEW with, BundleP1(r, x, with)
    PROVE  BundleInv'
  <1>1. /\ record # Nothing /\ p1 # Nothing /\ P1Bundlable(r, p1, record, x, with)
        /\ bundle' = P1Bundle(r, p1, record, x, with)
        /\ bundled' = [decided |-> p1_basis, sealed |-> sealed]
        /\ UNCHANGED <<profile, decided>>
    BY DEF BundleP1
  <1>2. bundle'.production_readiness_ref = record.production_readiness_ref
    BY <1>1, BundleFields
  <1>3. ASSUME record.production_readiness_ref # NoRef
        PROVE  p1_basis.readiness = sealed.readiness
    <2> DEFINE ref == record.production_readiness_ref
    <2>1. /\ IsReadiness(sealed.readiness) /\ ref = sealed.readiness.decision_id
          /\ sealed.readiness # NoReadiness => sealed.readiness.tenant_id = record.tenant_id
      BY <1>1 DEF RecordInv
    <2>2. /\ IsReadiness(p1_basis.readiness)
          /\ p1_basis.readiness # NoReadiness => p1_basis.readiness.tenant_id = p1.tenant_id
          /\ \A e \in p1.evidence_refs :
                e[1] = "production_readiness" => e = p1_basis.readiness.decision_id
      BY <1>1 DEF BundleInv, P1Inv
    <2>3. p1.tenant_id = record.tenant_id /\ Given({ref}) \subseteq p1.evidence_refs
      BY <1>1 DEF P1Bundlable, P1DecisionAnswers, P1DecisionFits
    <2>4. sealed.readiness # NoReadiness
      BY <1>3, <2>1 DEF NoReadiness
    <2>5. ref[1] = "production_readiness"
      BY <2>1, <2>4, ReadinessPrefix
    <2>6. ref \in p1.evidence_refs
      BY <1>3, <2>3 DEF Given
    <2>7. ref = p1_basis.readiness.decision_id
      BY <2>2, <2>5, <2>6
    <2>8. p1_basis.readiness # NoReadiness
      BY <1>3, <2>7 DEF NoReadiness
    <2>9. QED
      BY <2>1, <2>2, <2>3, <2>4, <2>7, <2>8, SameReadiness
  <1>4. BundleRestsOnTheSeal'
    BY <1>1, <1>2, <1>3 DEF BundleRestsOnTheSeal
  <1>5. QED
    BY <1>1, <1>4 DEF BundleInv, P1Inv, RecordedProfile, profile, decided

LEMMA BundleInvariance ==
    ASSUME EvidenceIsItsOwn, ReadinessInv, RecordInv, BundleInv, [Next]_vars
    PROVE  BundleInv'
  <1>1. ASSUME UNCHANGED <<profile, decided, bundle, bundled>> PROVE BundleInv'
    BY <1>1, BundleKept
  <1>2. ASSUME NEW p \in Profiles, NEW with, SealProfile(p, with) PROVE BundleInv'
    <2>1. record' = SealedProfile(policy_record, p, with) /\ UNCHANGED <<decided, review>>
      BY <1>2 DEF SealProfile
    <2>2. record'.profile = p
      BY <2>1, SealedFields
    <2>3. QED
      BY <2>1, <2>2 DEF BundleInv, P1Inv, RecordedProfile, BundleRestsOnTheSeal, decided, review
  <1>3. ASSUME NEW r \in P1Requests, NEW with \in Passed, EvaluateP1(r, with) PROVE BundleInv'
    BY <1>3, P1Step
  <1>4. ASSUME NEW r, NEW x, NEW with, BundleP1(r, x, with) PROVE BundleInv'
    BY <1>4, BundleStep
  <1>5. ASSUME ReviewNext PROVE BundleInv'
    BY <1>1, <1>2, <1>3, <1>4, <1>5
    DEF ReviewNext, DecideSecretUse, DecideBreakGlass, AuditBreakGlass, IssueReadiness, AuditP1,
        ExportCompliance, EditPolicy, TimePasses, review
  <1>6. QED
    BY <1>1, <1>5 DEF Next, vars, requestVars, review

\* A P1 bundle of a profile that needs production readiness was decided with the
\* very readiness decision its profile was sealed with, provided that no profile
\* and no request cites a readiness decision of its own.
THEOREM BundlesRestOnTheSeal == EvidenceIsItsOwn => (Spec => []BundleRestsOnTheSeal)
  <1> SUFFICES ASSUME EvidenceIsItsOwn PROVE Spec => []BundleRestsOnTheSeal
    OBVIOUS
  <1>1. Init => ReadinessInv /\ RecordInv /\ BundleInv
    BY DEF Init, ReadinessInit, ReviewInit, ReadinessInv, IsReadiness, RecordInv, BundleInv, P1Inv,
           RecordedProfile, BundleRestsOnTheSeal
  <1>2. BundleInv => BundleRestsOnTheSeal
    BY DEF BundleInv
  <1>3. ReadinessInv /\ RecordInv /\ BundleInv /\ [Next]_vars => BundleInv'
    BY BundleInvariance
  <1>4. QED
    BY <1>1, NewReadiness, RecordStep, <1>2, <1>3, PTL DEF Spec

-----------------------------------------------------------------------------
(* Hardening: what every operation of the vault issues.                     *)

LEMMA AuthIssued ==
    ASSUME NEW h, NEW ad, NEW e, NEW config, NEW contract, NEW at
    PROVE  Issued(VerifyAuth(h, ad, e, config, contract, at))
  BY DEF Issued, VerifyAuth, ExpectedAuthId, StableId, Bound, ++

LEMMA SecretManagerIssued ==
    ASSUME NEW c, NEW h, NEW ad, NEW e, NEW config, NEW contract, NEW at
    PROVE  Issued(VerifySecretManager(c, h, ad, e, config, contract, at))
  BY DEF Issued, VerifySecretManager, ExpectedSecretManagerId, StableId, Bound, ++

LEMMA VerifierIssued ==
    ASSUME NEW h, NEW sd, NEW root, NEW ad, NEW e, NEW config, NEW contract, NEW at
    PROVE  Issued(VerifyVerifier(h, sd, root, ad, e, config, contract, at))
  BY DEF Issued, VerifyVerifier, ExpectedVerifierId, StableId, Bound, ++

LEMMA SandboxIssued ==
    ASSUME NEW h, NEW ad, NEW e, NEW config, NEW contract, NEW at
    PROVE  Issued(VerifySandbox(h, ad, e, config, contract, at))
  BY DEF Issued, VerifySandbox, ExpectedSandboxId, StableId, Bound, ++

LEMMA RotationIssued ==
    ASSUME NEW c, NEW h, NEW ad, NEW verdict, NEW at
    PROVE  Issued(RotationDecision(c, h, ad, verdict, at))
  BY DEF Issued, RotationDecision, ExpectedRotationId, StableId, Bound, ++

LEMMA InjectionIssued ==
    ASSUME NEW c, NEW su, NEW h, NEW ad, NEW e, NEW config, NEW contract, NEW at
    PROVE  Issued(VerifyInjection(c, su, h, ad, e, config, contract, at))
  BY DEF Issued, VerifyInjection, ExpectedInjectionId, StableId, Bound, ++

LEMMA DeliveryIssued ==
    ASSUME NEW b, NEW e, NEW ad, NEW verdict, NEW at
    PROVE  Issued(DeliveryDecision(b, e, ad, verdict, at))
  BY DEF Issued, DeliveryDecision, ExpectedDeliveryId, StableId, Bound, ++

LEMMA StorageIssued ==
    ASSUME NEW root, NEW e, NEW backing, NEW verdict, NEW at
    PROVE  Issued(StorageDecision(root, e, backing, verdict, at))
  BY DEF Issued, StorageDecision, ExpectedStorageId, StableId, Bound, ++

\* A rotation decision keeps the references of the adapter decision it is made
\* with, and the id of that one binds them.
LEMMA RotationKeeps ==
    ASSUME NEW c, NEW h, NEW ad, NEW verdict, NEW at,
           ad = NoAdapter \/ ad.decision_id = ExpectedAdapterId(ad)
    PROVE  KeepsItsAdapter(RotationDecision(c, h, ad, verdict, at))
  <1> DEFINE d == RotationDecision(c, h, ad, verdict, at)
  <1>1. /\ {"adapter_decision_ref", "evidence_refs"} \subseteq DOMAIN d
        /\ d.adapter_decision_ref = ad.decision_id
        /\ ad # NoAdapter => ad.evidence_refs \subseteq d.evidence_refs
    BY DEF RotationDecision, ++
  <1>2. CASE ad = NoAdapter
    BY <1>1, <1>2 DEF NoAdapter, KeepsItsAdapter
  <1>3. CASE ad # NoAdapter
    <2>1. ad.decision_id[2].evidence_refs = ad.evidence_refs
      BY <1>3 DEF ExpectedAdapterId, StableId, Bound
    <2>2. QED
      BY <1>1, <1>3, <2>1 DEF KeepsItsAdapter
  <1>4. QED
    BY <1>2, <1>3

\* An adapter decision as the vault makes it has the id its fields give.
LEMMA AdapterIssued ==
    ASSUME NEW e, NEW verdict, NEW at, NEW made, made = AdapterDecision(e, verdict, at)
    PROVE  made.decision_id = ExpectedAdapterId(made)
  <1> DEFINE fields == AdapterBinding \union {"decision", "evidence_refs"}
             d == [tenant_id |-> e.tenant_id,
                   decision |-> verdict,
                   evidence_refs |-> AdapterRefs(e) \union {e.attestation_ref, e.healthcheck_ref}
                                        \union ({e.sandbox_profile_ref} \ {NoRef}),
                   verified_at |-> at, expires_at |-> e.expires_at]
                      ++ Bound(e, AdapterBinding)
             id == ExpectedAdapterId(d)
  <1>1. made = [decision_id |-> id] ++ d
    BY DEF AdapterDecision, WithAdapterId
  <1>2. fields \subseteq DOMAIN d /\ "decision_id" \notin fields
    BY DEF ++, Bound, AdapterBinding
  <1>3. id = StableId("production_adapter_verification", d, fields)
    BY DEF ExpectedAdapterId
  <1> HIDE DEF fields, d, id
  <1>4. made.decision_id = id /\ \A f \in fields : made[f] = d[f]
    BY <1>1, <1>2 DEF ++
  <1>5. Bound(made, fields) = Bound(d, fields)
    BY <1>4 DEF Bound
  <1>6. QED
    BY <1>3, <1>4, <1>5 DEF ExpectedAdapterId, StableId, fields

-----------------------------------------------------------------------------
(* The decision set: what is in it was issued, or its verdict was edited.   *)

\* The first decision of an edited component has an id that still says what the
\* vault decided.
Betrays(d) ==
    /\ {"decision_id", "decision"} \subseteq DOMAIN d
    /\ d.decision_id[2].decision = "Rejected"

LEMMA AppendedLists ==
    ASSUME NEW s, NEW t, s \in Seq(Members(s)), t \in Seq(Members(t))
    PROVE  /\ s \o t \in Seq(Members(s \o t))
           /\ Members(s \o t) = Members(s) \union Members(t)
           /\ s # << >> => s \o t # << >> /\ (s \o t)[1] = s[1]
  <1>1. /\ Len(s) \in Nat /\ Len(t) \in Nat
        /\ DOMAIN s = 1 .. Len(s) /\ DOMAIN t = 1 .. Len(t)
    OBVIOUS
  <1>2. s \in Seq(Members(s) \union Members(t)) /\ t \in Seq(Members(s) \union Members(t))
    <2>1. \A i \in 1 .. Len(s) : s[i] \in Members(s)
      BY <1>1 DEF Members
    <2>2. \A i \in 1 .. Len(t) : t[i] \in Members(t)
      BY <1>1 DEF Members
    <2>3. s \in [1 .. Len(s) -> Members(s) \union Members(t)]
      BY <2>1
    <2>4. t \in [1 .. Len(t) -> Members(s) \union Members(t)]
      BY <2>2
    <2>5. QED
      BY <1>1, <2>3, <2>4
  <1> DEFINE u == s \o t
  <1>3. /\ u \in Seq(Members(s) \union Members(t)) /\ Len(u) = Len(s) + Len(t)
        /\ \A i \in 1 .. Len(u) : u[i] = IF i <= Len(s) THEN s[i] ELSE t[i - Len(s)]
    BY <1>2
  <1> HIDE DEF u
  <1>4. DOMAIN u = 1 .. Len(u)
    BY <1>3
  <1>5. Members(u) \subseteq Members(s) \union Members(t)
    BY <1>3, <1>4 DEF Members
  <1>6. ASSUME NEW i \in DOMAIN s PROVE s[i] \in Members(u)
    <2>1. i \in 1 .. Len(u) /\ u[i] = s[i]
      BY <1>1, <1>3
    <2>2. QED
      BY <1>4, <2>1 DEF Members
  <1>7. ASSUME NEW i \in DOMAIN t PROVE t[i] \in Members(u)
    <2>1. i + Len(s) \in 1 .. Len(u) /\ u[i + Len(s)] = t[i]
      BY <1>1, <1>3
    <2>2. QED
      BY <1>4, <2>1 DEF Members
  <1>8. Members(u) = Members(s) \union Members(t)
    BY <1>5, <1>6, <1>7 DEF Members
  <1>9. u \in Seq(Members(u))
    BY <1>3, <1>8
  <1>10. ASSUME s # << >> PROVE u # << >> /\ u[1] = s[1]
    <2>1. Len(s) >= 1
      BY <1>1, <1>10
    <2>2. QED
      BY <1>1, <1>3, <2>1
  <1>11. QED
    BY <1>8, <1>9, <1>10 DEF u

\* The decisions of one component.
Kept(component, ds, is_edited) ==
    /\ ds \in Seq(Members(ds))
    /\ IF is_edited THEN ds # << >> /\ Betrays(ds[1])
                    ELSE \A d \in Members(ds) : Issued(d)
    /\ component = "rotations" => \A d \in Members(ds) : KeepsItsAdapter(d)

Grounded(ads) == \A ad \in Members(ads) : ad.decision_id = ExpectedAdapterId(ad)

WellKept(s, e) ==
    /\ DOMAIN s = DOMAIN Start
    /\ Grounded(s.adapters)
    /\ \A component \in Components : Kept(component, s[component], component \in e)

BasisInv ==
    basis.strict =>
        StrictlyEvaluable(set, basis.at) /\ WellKept(set, edited) /\ edited \subseteq Components

HardeningInv ==
    /\ focus = "hardening" => WellKept(set, edited) /\ edited \subseteq Components
    /\ BasisInv

LEMMA OneKept ==
    ASSUME NEW component, NEW d, Issued(d), component = "rotations" => KeepsItsAdapter(d)
    PROVE  Kept(component, <<d>>, FALSE)
  <1>1. Members(<<d>>) = {d}
    BY DEF Members
  <1>2. QED
    BY <1>1 DEF Kept

\* A component gets another list of decisions, which none of the others notices.
LEMMA Replaced ==
    ASSUME WellKept(set, edited), edited \subseteq Components, NEW component \in Components, NEW ds,
           set' = [set EXCEPT ![component] = ds],
           edited' \in {edited \union {component}, edited \ {component}},
           Kept(component, ds, component \in edited')
    PROVE  WellKept(set', edited') /\ edited' \subseteq Components
  <1>1. Components \union {"credentials", "evidence", "adapters"} \subseteq DOMAIN set
    BY DecisionsAssumption DEF WellKept
  <1>2. "credentials" \notin Components /\ "adapters" \notin Components
    BY DEF Components
  <1>3. /\ DOMAIN set' = DOMAIN set /\ set'.adapters = set.adapters
        /\ set'[component] = ds
        /\ \A other \in Components : other # component => set'[other] = set[other]
    BY <1>1, <1>2
  <1>4. ASSUME NEW other \in Components PROVE Kept(other, set'[other], other \in edited')
    <2>1. CASE other = component
      BY <1>3, <2>1
    <2>2. CASE other # component
      <3>1. (other \in edited') = (other \in edited)
        BY <2>2
      <3>2. QED
        BY <1>3, <2>2, <3>1 DEF WellKept
    <2>3. QED
      BY <2>1, <2>2
  <1>5. QED
    BY <1>3, <1>4 DEF WellKept

LEMMA PutKeeps ==
    ASSUME WellKept(set, edited), edited \subseteq Components, NEW component \in Components, NEW d, Issued(d),
           component = "rotations" => KeepsItsAdapter(d), Put(component, d)
    PROVE  WellKept(set', edited') /\ edited' \subseteq Components
  <1>1. set' = [set EXCEPT ![component] = <<d>>] /\ edited' = edited \ {component}
    BY DEF Put
  <1>2. Kept(component, <<d>>, component \in edited')
    <2>1. (component \in edited') = FALSE
      BY <1>1
    <2>2. QED
      BY <2>1, OneKept
  <1>3. QED
    BY <1>1, <1>2, Replaced

LEMMA MisplaceKeeps ==
    ASSUME WellKept(set, edited), edited \subseteq Components, NEW component \in Components, Misplace(component)
    PROVE  WellKept(set', edited') /\ edited' \subseteq Components
  <1>1. PICK ds \in {<< >>, Foreign[component]} : set' = [set EXCEPT ![component] = ds]
    BY DEF Misplace
  <1>2. edited' = edited \ {component}
    BY DEF Misplace
  <1>3. Kept(component, << >>, FALSE)
    BY DEF Kept, Members
  <1>4. Kept(component, Foreign[component], FALSE)
    BY DecisionsAssumption DEF Kept
  <1>5. (component \in edited') = FALSE
    BY <1>2
  <1>6. QED
    BY <1>1, <1>2, <1>3, <1>4, <1>5, Replaced

\* Only the verdict changes.
LEMMA VerdictEdited ==
    ASSUME NEW d, NEW made, made = [d EXCEPT !.decision = "Verified"]
    PROVE  /\ DOMAIN made = DOMAIN d
           /\ \A f \in DOMAIN d : f # "decision" => made[f] = d[f]
  OBVIOUS

LEMMA EditKeeps ==
    ASSUME WellKept(set, edited), edited \subseteq Components, NEW component \in Components, EditVerdict(component)
    PROVE  WellKept(set', edited') /\ edited' \subseteq Components
  <1> DEFINE ds == set[component]
             made == [ds[1] EXCEPT !.decision = "Verified"]
             after == [ds EXCEPT ![1] = made]
  <1>1. /\ ds # << >> /\ ds[1].decision = "Rejected"
        /\ edited' = edited \union {component}
        /\ set' = [set EXCEPT ![component] = after]
    BY DEF EditVerdict
  <1>2. Kept(component, ds, component \in edited)
    BY DEF WellKept
  <1>3. ds \in Seq(Members(ds)) /\ 1 \in DOMAIN ds
    BY <1>1, <1>2 DEF Kept
  <1>4. Betrays(ds[1])
    <2>1. CASE component \in edited
      BY <1>2, <2>1 DEF Kept
    <2>2. CASE component \notin edited
      <3>1. Issued(ds[1])
        BY <1>2, <1>3, <2>2 DEF Kept, Members
      <3>2. QED
        BY <1>1, <3>1 DEF Issued, Betrays
    <2>3. QED
      BY <2>1, <2>2
  <1>5. /\ DOMAIN made = DOMAIN ds[1]
        /\ \A f \in DOMAIN ds[1] : f # "decision" => made[f] = ds[1][f]
    BY VerdictEdited
  <1> HIDE DEF made
  <1>6. Betrays(made)
    BY <1>4, <1>5 DEF Betrays
  <1>7. after \in Seq(Members(after)) /\ after # << >> /\ after[1] = made
    <2> HIDE DEF ds
    <2>1. Len(ds) \in Nat /\ DOMAIN ds = 1 .. Len(ds)
      BY <1>3
    <2>2. DOMAIN after = 1 .. Len(ds) /\ after = [i \in 1 .. Len(ds) |-> after[i]] /\ after[1] = made
      BY <1>3, <2>1
    <2> HIDE DEF after
    <2>3. \A i \in 1 .. Len(ds) : after[i] \in Members(after)
      BY <2>2 DEF Members
    <2>4. after \in [1 .. Len(ds) -> Members(after)]
      BY <2>2, <2>3
    <2>5. after \in Seq(Members(after)) /\ Len(after) = Len(ds)
      BY <2>1, <2>4
    <2>6. Len(ds) # 0
      BY <1>3, <2>1
    <2>7. QED
      BY <2>2, <2>5, <2>6
  <1>8. ASSUME component = "rotations", NEW d \in Members(after) PROVE KeepsItsAdapter(d)
    <2>1. \A o \in Members(ds) : KeepsItsAdapter(o)
      BY <1>2, <1>8 DEF Kept
    <2>2. d = made \/ d \in Members(ds)
      BY <1>3 DEF Members
    <2>3. KeepsItsAdapter(ds[1])
      BY <1>3, <2>1 DEF Members
    <2>4. KeepsItsAdapter(made)
      BY <1>5, <2>3 DEF KeepsItsAdapter
    <2>5. QED
      BY <2>1, <2>2, <2>4
  <1>9. Kept(component, after, TRUE)
    BY <1>6, <1>7, <1>8 DEF Kept
  <1> HIDE DEF after, ds
  <1>10. (component \in edited') = TRUE
    BY <1>1
  <1>11. QED
    BY <1>1, <1>9, <1>10, Replaced

LEMMA AdapterKeeps ==
    ASSUME WellKept(set, edited), edited \subseteq Components, NEW i \in DOMAIN set.adapters, ReverifyAdapter(i)
    PROVE  WellKept(set', edited') /\ edited' \subseteq Components
  <1>1. PICK e \in Attestations :
           set' = [set EXCEPT !.evidence[i] = e,
                              !.adapters[i] = VerifyAdapterWithContract(
                                  e, Config[e.kind], Contract[e.kind], now)]
    BY DEF ReverifyAdapter
  <1> DEFINE made == VerifyAdapterWithContract(e, Config[e.kind], Contract[e.kind], now)
             after == [set.adapters EXCEPT ![i] = made]
  <1>2. edited' = edited
    BY DEF ReverifyAdapter
  <1>3. Components \union {"credentials", "evidence", "adapters"} \subseteq DOMAIN set
    BY DecisionsAssumption DEF WellKept
  <1>4. made.decision_id = ExpectedAdapterId(made)
    BY AdapterIssued DEF VerifyAdapterWithContract
  <1> HIDE DEF made
  <1>5. Grounded(after)
    BY <1>4 DEF WellKept, Grounded, Members
  <1>6. /\ DOMAIN set' = DOMAIN set /\ set'.adapters = after
        /\ \A component \in Components : set'[component] = set[component]
    BY <1>1, <1>3 DEF Components, made
  <1>7. QED
    BY <1>2, <1>5, <1>6 DEF WellKept

\* What decisions there are, those about another credential join them.
LEMMA JoinedKept ==
    ASSUME WellKept(set, edited), NEW component \in ByCredential
    PROVE  Kept(component, Joined(component), component \in edited)
  <1> DEFINE ds == set[component]
             strays == Strays[component]
  <1>1. component \in Components /\ Kept(component, ds, component \in edited)
    BY DEF WellKept, ByCredential, Components
  <1>2. /\ strays \in Seq(Members(strays))
        /\ \A d \in Members(strays) : Issued(d) /\ (component = "rotations" => KeepsItsAdapter(d))
    BY DecisionsAssumption
  <1>3. ds \in Seq(Members(ds))
    BY <1>1 DEF Kept
  <1> HIDE DEF ds, strays
  <1>4. ASSUME NEW s, NEW t, s \in Seq(Members(s)), t \in Seq(Members(t))
        PROVE  s \o t \in Seq(Members(s \o t)) /\ Members(s \o t) = Members(s) \union Members(t)
               /\ (s # << >> => s \o t # << >> /\ (s \o t)[1] = s[1])
    BY <1>4, AppendedLists
  <1>5. CASE component \in edited
    <2>1. Joined(component) = ds \o strays
      BY <1>5 DEF Joined, ds, strays
    <2>2. ds # << >> /\ Betrays(ds[1])
      BY <1>1, <1>5 DEF Kept
    <2>3. /\ ds \o strays \in Seq(Members(ds \o strays))
          /\ Members(ds \o strays) = Members(ds) \union Members(strays)
          /\ ds \o strays # << >> /\ (ds \o strays)[1] = ds[1]
      BY <1>2, <1>3, <1>4, <2>2
    <2>4. component = "rotations" => \A d \in Members(ds \o strays) : KeepsItsAdapter(d)
      BY <1>1, <1>2, <2>3 DEF Kept
    <2>5. QED
      BY <1>5, <2>1, <2>2, <2>3, <2>4 DEF Kept
  <1>6. CASE component \notin edited
    <2>1. Joined(component) = strays \o ds
      BY <1>6 DEF Joined, ds, strays
    <2>2. /\ strays \o ds \in Seq(Members(strays \o ds))
          /\ Members(strays \o ds) = Members(strays) \union Members(ds)
      BY <1>2, <1>3, <1>4
    <2>3. \A d \in Members(strays \o ds) : Issued(d)
      BY <1>1, <1>2, <1>6, <2>2 DEF Kept
    <2>4. component = "rotations" => \A d \in Members(strays \o ds) : KeepsItsAdapter(d)
      BY <1>1, <1>2, <2>2 DEF Kept
    <2>5. QED
      BY <1>6, <2>1, <2>2, <2>3, <2>4 DEF Kept
  <1>7. QED
    BY <1>5, <1>6

LEMMA ListAgainKeeps ==
    ASSUME WellKept(set, edited), edited \subseteq Components, ListAgain
    PROVE  WellKept(set', edited') /\ edited' \subseteq Components
  <1>1. PICK i \in DOMAIN set.credentials :
           set' = [set EXCEPT !.credentials = Append(@, @[i]),
                              !.managers = Joined("managers"),
                              !.rotations = Joined("rotations"),
                              !.injections = Joined("injections")]
    BY DEF ListAgain
  <1>2. edited' = edited
    BY DEF ListAgain
  <1>3. Components \union {"credentials", "adapters"} \subseteq DOMAIN set
    BY DecisionsAssumption DEF WellKept
  <1>4. /\ DOMAIN set' = DOMAIN set /\ set'.adapters = set.adapters
        /\ \A component \in ByCredential : set'[component] = Joined(component)
        /\ \A component \in Components \ ByCredential : set'[component] = set[component]
    BY <1>1, <1>3 DEF Components, ByCredential
  <1>5. ASSUME NEW component \in Components
        PROVE  Kept(component, set'[component], component \in edited)
    <2>1. CASE component \in ByCredential
      BY <1>4, <2>1, JoinedKept
    <2>2. CASE component \notin ByCredential
      BY <1>4, <2>2 DEF WellKept
    <2>3. QED
      BY <2>1, <2>2
  <1>6. QED
    BY <1>2, <1>4, <1>5 DEF WellKept

\* The set is left as it was.
LEMMA SetKept ==
    ASSUME HardeningInv, UNCHANGED <<focus, set, edited, basis>>
    PROVE  HardeningInv'
  BY DEF HardeningInv, BasisInv, WellKept

LEMMA ForgetKeeps ==
    ASSUME Forget, WellKept(set', edited') /\ edited' \subseteq Components
    PROVE  HardeningInv'
  BY DEF Forget, NoBasis, HardeningInv, BasisInv

LEMMA ReadinessStep ==
    ASSUME HardeningInv, focus = "hardening", ReadinessNext, UNCHANGED focus
    PROVE  HardeningInv'
  <1> DEFINE Well == WellKept(set', edited') /\ edited' \subseteq Components
  <1>1. WellKept(set, edited) /\ edited \subseteq Components
    BY DEF HardeningInv
  <1>2. ASSUME NEW component \in Components, NEW d, Issued(d),
               component = "rotations" => KeepsItsAdapter(d), Put(component, d)
        PROVE  HardeningInv'
    <2>1. Well
      BY <1>1, <1>2, PutKeeps
    <2>2. QED
      BY <1>2, <2>1, ForgetKeeps DEF Put
  <1> DEFINE Puts == \E component \in Components : \E d :
                        Issued(d) /\ (component = "rotations" => KeepsItsAdapter(d)) /\ Put(component, d)
  <1>3. Puts => HardeningInv'
    BY <1>2, Zenon
  <1>c. /\ "auth" \in Components /\ "managers" \in Components /\ "verifiers" \in Components
        /\ "sandboxes" \in Components /\ "rotations" \in Components /\ "injections" \in Components
        /\ "deliveries" \in Components /\ "storages" \in Components
        /\ "auth" # "rotations" /\ "managers" # "rotations" /\ "verifiers" # "rotations"
        /\ "sandboxes" # "rotations" /\ "injections" # "rotations" /\ "deliveries" # "rotations"
        /\ "storages" # "rotations"
    BY DEF Components
  <1>4. ReverifyAuth => Puts
    BY <1>c, AuthIssued, Zenon DEF ReverifyAuth
  <1>5. ReverifySecretManager => Puts
    BY <1>c, SecretManagerIssued, Zenon DEF ReverifySecretManager
  <1>6. ReverifyVerifier => Puts
    BY <1>c, VerifierIssued, Zenon DEF ReverifyVerifier
  <1>7. ReverifySandbox => Puts
    BY <1>c, SandboxIssued, Zenon DEF ReverifySandbox
  <1>8. ReverifyRotation => Puts
    <2>1. ASSUME NEW ad \in Adapters
          PROVE  ad.decision_id = ExpectedAdapterId(ad)
      BY <1>1, <2>1 DEF Adapters, WellKept, Grounded
    <2>2. \A ad \in Adapters : \A c, h, config, contract, at :
             LET d == VerifyRotationWithContract(c, h, ad, config, contract, at)
             IN  Issued(d) /\ KeepsItsAdapter(d)
      BY <2>1, RotationIssued, RotationKeeps, Zenon DEF VerifyRotationWithContract
    <2>3. \A c, h, at : LET d == VerifyRotation(c, h, NoAdapter, at)
                        IN  Issued(d) /\ KeepsItsAdapter(d)
      BY RotationIssued, RotationKeeps, Zenon DEF VerifyRotation
    <2>4. QED
      BY <1>c, <2>2, <2>3, Zenon DEF ReverifyRotation
  <1>9. ReverifyInjection => Puts
    BY <1>c, InjectionIssued, Zenon DEF ReverifyInjection
  <1>10. ReverifyDelivery => Puts
    BY <1>c, DeliveryIssued, Zenon DEF ReverifyDelivery, VerifyDelivery, VerifyDeliveryWithContract
  <1>11. ReverifyStorage => Puts
    BY <1>c, StorageIssued, Zenon DEF ReverifyStorage, VerifyTrustRootStorage, VerifyTrustRootStorageWithContract
  <1> HIDE DEF Puts
  <1>12. ASSUME NEW i \in DOMAIN set.adapters, ReverifyAdapter(i) PROVE HardeningInv'
    <2>1. Well
      BY <1>1, <1>12, AdapterKeeps
    <2>2. QED
      BY <1>12, <2>1, ForgetKeeps DEF ReverifyAdapter
  <1>13. ASSUME NEW s, NEW records, NEW risk, ResignExecutor(s, records, risk) PROVE HardeningInv'
    <2>1. /\ set' = [set EXCEPT !.signatures = <<VerifySignatureWithRecords(s, records, risk)>>]
          /\ edited' = edited /\ Forget
      BY <1>13 DEF ResignExecutor
    <2>2. /\ DOMAIN set' = DOMAIN set /\ set'.adapters = set.adapters
          /\ \A component \in Components : set'[component] = set[component]
      <3>1. Components \union {"credentials", "evidence", "adapters"} \subseteq DOMAIN set
        BY <1>1, DecisionsAssumption DEF WellKept
      <3>2. QED
        BY <2>1, <3>1 DEF Components
    <2>3. Well
      BY <1>1, <2>1, <2>2 DEF WellKept
    <2>4. QED
      BY <2>1, <2>3, ForgetKeeps
  <1>14. ASSUME NEW component \in Components, Misplace(component) PROVE HardeningInv'
    <2>1. Well
      BY <1>1, <1>14, MisplaceKeeps
    <2>2. QED
      BY <1>14, <2>1, ForgetKeeps DEF Misplace
  <1>15. ASSUME NEW component \in Components, EditVerdict(component) PROVE HardeningInv'
    <2>1. Well
      BY <1>1, <1>15, EditKeeps
    <2>2. QED
      BY <1>15, <2>1, ForgetKeeps DEF EditVerdict
  <1>16. ASSUME EvaluateSet PROVE HardeningInv'
    BY <1>1, <1>16 DEF EvaluateSet, HardeningInv, BasisInv
  <1>17. ASSUME NEW with_sandbox, EvaluateBasic(with_sandbox) PROVE HardeningInv'
    BY <1>1, <1>17 DEF EvaluateBasic, HardeningInv, BasisInv
  <1>18. ASSUME DecisionsAge PROVE HardeningInv'
    BY <1>18, SetKept DEF DecisionsAge
  <1>19. ASSUME ListAgain PROVE HardeningInv'
    <2>1. Well
      BY <1>1, <1>19, ListAgainKeeps
    <2>2. QED
      BY <1>19, <2>1, ForgetKeeps DEF ListAgain
  <1>20. QED
    BY <1>3, <1>4, <1>5, <1>6, <1>7, <1>8, <1>9, <1>10, <1>11, <1>12, <1>13, <1>14, <1>15, <1>16, <1>17, <1>18, <1>19
    DEF ReadinessNext

LEMMA HardeningStep ==
    ASSUME HardeningInv, [Next]_vars
    PROVE  HardeningInv'
  BY ReadinessStep, SetKept DEF Next, vars, hardeningVars

LEMMA HardeningInit == Init => HardeningInv
  <1> SUFFICES ASSUME Init PROVE HardeningInv
    OBVIOUS
  <1>1. basis.strict = FALSE /\ edited = {}
    BY DEF Init, ReadinessInit, NoBasis
  <1>2. ASSUME focus = "hardening" PROVE WellKept(set, edited)
    <2>1. set = Start
      BY <1>2 DEF Init, ReadinessInit
    <2>2. Grounded(Start.adapters)
      BY DecisionsAssumption DEF Grounded
    <2>3. ASSUME NEW component \in Components PROVE Kept(component, Start[component], component \in edited)
      <3>1. (component \in edited) = FALSE
        BY <1>1
      <3>2. Kept(component, Start[component], FALSE)
        BY DecisionsAssumption DEF Kept
      <3>3. QED
        BY <3>1, <3>2
    <2>4. QED
      BY <2>1, <2>2, <2>3 DEF WellKept
  <1>3. QED
    BY <1>1, <1>2 DEF HardeningInv, BasisInv

-----------------------------------------------------------------------------
(* What the strict evaluation has looked at.                                *)

\* A list without repetition in a field names each value once.
LEMMA DistinctValues ==
    ASSUME NEW ds, ds \in Seq(Members(ds)), NEW field, Distinct(ds, field)
    PROVE  /\ IsFiniteSet(Field(ds, field)) /\ Cardinality(Field(ds, field)) = Len(ds)
           /\ \A d, e \in Members(ds) : d[field] = e[field] => d = e
  <1> DEFINE dom == 1 .. Len(ds)
             values == Field(ds, field)
             g == [i \in dom |-> ds[i][field]]
  <1>1. Len(ds) \in Nat /\ DOMAIN ds = dom
    OBVIOUS
  <1>2. IsFiniteSet(dom) /\ Cardinality(dom) = Len(ds)
    BY <1>1, FS_Interval
  <1>3. g \in Surjection(dom, values)
    BY <1>1 DEF Surjection, Field, Members
  <1>4. Cardinality(values) = Len(ds)
    BY DEF Distinct
  <1> HIDE DEF dom, values
  <1>5. IsFiniteSet(values) /\ g \in Injection(dom, values)
    BY <1>2, <1>3, <1>4, FS_Surjection
  <1>6. \A i, j \in dom : g[i] = g[j] => i = j
    <2> HIDE DEF g
    <2>1. QED
      BY <1>5 DEF Injection, IsInjective
  <1>7. \A i, j \in dom : ds[i][field] = ds[j][field] => ds[i] = ds[j]
    BY <1>6
  <1>8. QED
    BY <1>1, <1>4, <1>5, <1>7 DEF Members, values

\* A decision about a listed credential is the one that is looked up for it, and
\* every listed credential has one.
LEMMA Coverage ==
    ASSUME NEW credentials, NEW ds, ds \in Seq(Members(ds)), OnePerCredential(credentials, ds)
    PROVE  /\ Field(credentials, "credential_id") \subseteq Field(ds, "credential_id")
           /\ \A d \in Members(ds) : d["credential_id"] \in Field(credentials, "credential_id")
                 => \E c \in Members(credentials) : d = ForCredential(ds, c)
  <1>1. /\ Distinct(ds, "credential_id")
        /\ Field(credentials, "credential_id") \subseteq Field(ds, "credential_id")
    BY DEF OnePerCredential
  <1>2. \A x, y \in Members(ds) : x["credential_id"] = y["credential_id"] => x = y
    BY <1>1, DistinctValues
  <1>3. ASSUME NEW d \in Members(ds), d["credential_id"] \in Field(credentials, "credential_id")
        PROVE  \E c \in Members(credentials) : d = ForCredential(ds, c)
    <2>1. PICK c \in Members(credentials) : c["credential_id"] = d["credential_id"]
      BY <1>3, Zenon DEF Field
    <2>2. d = ForCredential(ds, c)
      BY <1>2, <2>1 DEF ForCredential
    <2>3. QED
      BY <2>2
  <1>4. QED
    BY <1>1, <1>3

\* Looked at: verified, live, and with an id that says so.
Accepted(d, at) ==
    /\ d.decision = "Verified" /\ ~Expired(d.expires_at, at)
    /\ d.decision_id[2].decision = d.decision

LEMMA StillAccepted ==
    ASSUME NEW d, NEW prefix, NEW fields, "decision" \in fields, NEW required, NEW at,
           StillVerified(d, StableId(prefix, d, fields), required, at)
    PROVE  Accepted(d, at)
  BY DEF StillVerified, StableId, Bound, Accepted

LEMMA StrictlyAccepted ==
    ASSUME NEW s, NEW e, NEW at, WellKept(s, e), StrictlyEvaluable(s, at)
    PROVE  \A d \in Counted(s) : Accepted(d, at)
  <1> DEFINE Listed(d) == d.credential_id \in Field(s.credentials, "credential_id")
  <1>2. \A component \in Components : s[component] \in Seq(Members(s[component]))
    BY DEF WellKept, Kept
  <1>3. /\ AuthAccepted(s, at) /\ SecretManagersAccepted(s, at) /\ VerifiersAccepted(s, at)
        /\ SandboxAccepted(s) /\ RotationsAccepted(s, at) /\ InjectionsAccepted(s, at)
        /\ DeliveriesAccepted(s, at) /\ StoragesAccepted(s, at)
        /\ \A d \in Members(s.sandboxes) : ValidSandbox(d, at)
    BY DEF StrictlyEvaluable, Evaluable
  <1>4. ASSUME NEW d \in Members(s.auth) PROVE Accepted(d, at)
    <2>1. Len(s.auth) = 1 /\ StillVerified(s.auth[1], ExpectedAuthId(s.auth[1]),
                                           {s.auth[1].evidence_ref, s.auth[1].provider_ref}, at)
      BY <1>3 DEF AuthAccepted
    <2>2. d = s.auth[1]
      BY <1>2, <2>1 DEF Members, Components
    <2>3. QED
      BY <2>1, <2>2, StillAccepted DEF ExpectedAuthId
  <1>5. ASSUME NEW d \in Members(s.managers), Listed(d) PROVE Accepted(d, at)
    <2>1. OnePerCredential(s.credentials, s.managers)
      BY <1>3 DEF SecretManagersAccepted
    <2>2. s.managers \in Seq(Members(s.managers))
      BY <1>2 DEF Components
    <2>3. PICK c \in Members(s.credentials) : d = ForCredential(s.managers, c)
      BY <1>5, <2>1, <2>2, Coverage
    <2>4. StillVerified(d, ExpectedSecretManagerId(d),
                        {d.evidence_ref, c.credential_id, c.external_secret_ref}, at)
      BY <1>3, <2>3 DEF SecretManagersAccepted
    <2>5. QED
      BY <2>4, StillAccepted DEF ExpectedSecretManagerId
  <1>6. ASSUME NEW d \in Members(s.verifiers) PROVE Accepted(d, at)
    <2>1. StillVerified(d, ExpectedVerifierId(d), {d.evidence_ref, d.signature_decision_ref,
                                                   d.trust_root_record_ref}, at)
      BY <1>3 DEF VerifiersAccepted
    <2>2. QED
      BY <2>1, StillAccepted DEF ExpectedVerifierId
  <1>7. ASSUME NEW d \in Members(s.sandboxes) PROVE Accepted(d, at)
    <2>1. Len(s.sandboxes) = 1 /\ s.sandboxes[1].decision_id = ExpectedSandboxId(s.sandboxes[1])
      BY <1>3 DEF SandboxAccepted
    <2>2. d = s.sandboxes[1]
      BY <1>2, <2>1 DEF Members, Components
    <2>3. ValidSandbox(d, at)
      BY <1>3
    <2>4. d.decision_id[2].decision = d.decision
      BY <2>1, <2>2 DEF ExpectedSandboxId, StableId, Bound
    <2>5. QED
      BY <2>3, <2>4 DEF ValidSandbox, Accepted
  <1>8. ASSUME NEW d \in Members(s.rotations) PROVE Accepted(d, at)
    <2>1. StillVerified(d, ExpectedRotationId(d), {d.hardening_evidence_ref}, at)
      BY <1>3 DEF RotationsAccepted, ValidRotation
    <2>2. QED
      BY <2>1, StillAccepted DEF ExpectedRotationId
  <1>9. ASSUME NEW d \in Members(s.injections), Listed(d) PROVE Accepted(d, at)
    <2>1. OnePerCredential(s.credentials, s.injections)
      BY <1>3 DEF InjectionsAccepted
    <2>2. s.injections \in Seq(Members(s.injections))
      BY <1>2 DEF Components
    <2>3. PICK c \in Members(s.credentials) : d = ForCredential(s.injections, c)
      BY <1>9, <2>1, <2>2, Coverage
    <2>4. StillVerified(d, ExpectedInjectionId(d),
                        {d.evidence_ref, d.adapter_decision_ref, d.injection_receipt_ref,
                         d.secret_use_decision_id, d.provider_ref, d.sandbox_profile_ref,
                         c.credential_id}, at)
      BY <1>3, <2>3 DEF InjectionsAccepted
    <2>5. QED
      BY <2>4, StillAccepted DEF ExpectedInjectionId
  <1>10. ASSUME NEW d \in Members(s.deliveries) PROVE Accepted(d, at)
    <2>1. ValidDelivery(d) /\ d.decision = "Verified" /\ ~Expired(d.expires_at, at)
      BY <1>3 DEF DeliveriesAccepted
    <2>2. d.decision_id[2].decision = d.decision
      BY <2>1 DEF ValidDelivery, ExpectedDeliveryId, StableId, Bound
    <2>3. QED
      BY <2>1, <2>2 DEF Accepted
  <1>11. ASSUME NEW d \in Members(s.storages) PROVE Accepted(d, at)
    <2>1. StillVerified(d, ExpectedStorageId(d),
                        {d.record_id, d.trust_root_hash, d.storage_evidence_ref,
                         d.storage_provider_ref}, at)
      BY <1>3 DEF StoragesAccepted
    <2>2. QED
      BY <2>1, StillAccepted DEF ExpectedStorageId
  <1>12. QED
    BY <1>4, <1>5, <1>6, <1>7, <1>8, <1>9, <1>10, <1>11 DEF Counted, Components

LEMMA RefersTo ==
    ASSUME NEW d, NEW ads, NEW kind, NEW provider, RefsAdapter(d.evidence_refs, ads, kind, provider)
    PROVE  Cites(d, ads)
  <1>1. PICK i \in DOMAIN ads :
           /\ {j \in DOMAIN ads : ads[j].decision_id \in d.evidence_refs} = {i}
           /\ ads[i].evidence_refs \subseteq d.evidence_refs
    BY DEF RefsAdapter
  <1>2. ads[i].decision_id \in d.evidence_refs /\ ads[i] \in Members(ads)
    BY <1>1 DEF Members
  <1>3. QED
    BY <1>1, <1>2 DEF Cites

LEMMA StrictlyCited ==
    ASSUME NEW s, NEW e, NEW at, WellKept(s, e), StrictlyEvaluable(s, at)
    PROVE  \A d \in Counted(s) :
               \/ Cites(d, s.adapters)
               \/ d \in Members(s.rotations) /\ d.adapter_decision_ref = NoRef
  <1> DEFINE Listed(d) == d.credential_id \in Field(s.credentials, "credential_id")
  <1>2. \A component \in Components : s[component] \in Seq(Members(s[component]))
    BY DEF WellKept, Kept
  <1>3. /\ AuthAccepted(s, at) /\ SecretManagersAccepted(s, at) /\ VerifiersAccepted(s, at)
        /\ SandboxAccepted(s) /\ RotationsAccepted(s, at) /\ InjectionsAccepted(s, at)
        /\ DeliveriesAccepted(s, at) /\ StoragesAccepted(s, at)
    BY DEF StrictlyEvaluable
  <1>4. ASSUME NEW d \in Members(s.auth) PROVE Cites(d, s.adapters)
    <2>1. d = s.auth[1]
      BY <1>2, <1>3 DEF Members, Components, AuthAccepted
    <2>2. QED
      BY <1>3, <2>1, RefersTo DEF AuthAccepted
  <1>5. ASSUME NEW d \in Members(s.managers), Listed(d) PROVE Cites(d, s.adapters)
    <2>1. OnePerCredential(s.credentials, s.managers)
      BY <1>3 DEF SecretManagersAccepted
    <2>2. s.managers \in Seq(Members(s.managers))
      BY <1>2 DEF Components
    <2>3. PICK c \in Members(s.credentials) : d = ForCredential(s.managers, c)
      BY <1>5, <2>1, <2>2, Coverage
    <2>4. RefsAdapter(d.evidence_refs, s.adapters, "ExternalSecretManager", d.provider_ref)
      BY <1>3, <2>3 DEF SecretManagersAccepted
    <2>5. QED
      BY <2>4, RefersTo
  <1>6. ASSUME NEW d \in Members(s.verifiers) PROVE Cites(d, s.adapters)
    BY <1>3, RefersTo DEF VerifiersAccepted
  <1>7. ASSUME NEW d \in Members(s.sandboxes) PROVE Cites(d, s.adapters)
    <2>1. d = s.sandboxes[1]
      BY <1>2, <1>3 DEF Members, Components, SandboxAccepted
    <2>2. QED
      BY <1>3, <2>1, RefersTo DEF SandboxAccepted
  <1>8. ASSUME NEW d \in Members(s.rotations), d.adapter_decision_ref # NoRef PROVE Cites(d, s.adapters)
    <2>1. PICK ad \in Members(s.adapters) :
             ad.decision_id = d.adapter_decision_ref /\ ad.decision_id \in d.evidence_refs
      BY <1>3, <1>8 DEF RotationsAccepted, ValidRotation
    <2>2. ad.decision_id[2].evidence_refs = ad.evidence_refs
      <3>1. ad.decision_id = ExpectedAdapterId(ad)
        BY DEF WellKept, Grounded
      <3>2. QED
        BY <3>1 DEF ExpectedAdapterId, StableId, Bound
    <2>3. KeepsItsAdapter(d)
      BY DEF WellKept, Kept, Components
    <2>4. ad.evidence_refs \subseteq d.evidence_refs
      BY <1>8, <2>1, <2>2, <2>3 DEF KeepsItsAdapter
    <2>5. QED
      BY <2>1, <2>4 DEF Cites
  <1>9. ASSUME NEW d \in Members(s.injections), Listed(d) PROVE Cites(d, s.adapters)
    <2>1. OnePerCredential(s.credentials, s.injections)
      BY <1>3 DEF InjectionsAccepted
    <2>2. s.injections \in Seq(Members(s.injections))
      BY <1>2 DEF Components
    <2>3. PICK c \in Members(s.credentials) : d = ForCredential(s.injections, c)
      BY <1>9, <2>1, <2>2, Coverage
    <2>4. RefsAdapter(d.evidence_refs, s.adapters, "SecretInjection", d.provider_ref)
      BY <1>3, <2>3 DEF InjectionsAccepted
    <2>5. QED
      BY <2>4, RefersTo
  <1>10. ASSUME NEW d \in Members(s.deliveries) PROVE Cites(d, s.adapters)
    BY <1>3, RefersTo DEF DeliveriesAccepted
  <1>11. ASSUME NEW d \in Members(s.storages) PROVE Cites(d, s.adapters)
    BY <1>3, RefersTo DEF StoragesAccepted
  <1>12. QED
    BY <1>4, <1>5, <1>6, <1>7, <1>8, <1>9, <1>10, <1>11 DEF Counted, Components

-----------------------------------------------------------------------------
LEMMA ReadyIsChecked ==
    ASSUME HardeningInv
    PROVE  ReadyIsFresh /\ ReadyTrustsNothingEdited /\ ReadyCitesItsAdapters
  <1> SUFFICES ASSUME basis.strict
               PROVE  /\ \A d \in Counted(set) \union Members(set.adapters) :
                            d.decision = "Verified" /\ ~Expired(d.expires_at, basis.at)
                      /\ \A component \in ByCredential :
                            Field(set.credentials, "credential_id")
                                \subseteq Field(set[component], "credential_id")
                      /\ \A component \in edited : set[component][1] \notin Counted(set)
                      /\ \A d \in Counted(set) :
                            \/ Cites(d, set.adapters)
                            \/ d \in Members(set.rotations) /\ d.adapter_decision_ref = NoRef
    BY DEF FoundReady, ReadyIsFresh, ReadyTrustsNothingEdited, ReadyCitesItsAdapters
  <1>1. StrictlyEvaluable(set, basis.at) /\ WellKept(set, edited) /\ edited \subseteq Components
    BY DEF HardeningInv, BasisInv
  <1>2. \A d \in Counted(set) : Accepted(d, basis.at)
    BY <1>1, StrictlyAccepted
  <1>3. \A d \in Counted(set) :
            \/ Cites(d, set.adapters)
            \/ d \in Members(set.rotations) /\ d.adapter_decision_ref = NoRef
    BY <1>1, StrictlyCited
  <1>4. \A d \in Members(set.adapters) : d.decision = "Verified" /\ ~Expired(d.expires_at, basis.at)
    BY <1>1 DEF StrictlyEvaluable, Evaluable, AdaptersAccepted, ValidAdapterDecision
  <1>5. ASSUME NEW component \in ByCredential
        PROVE  Field(set.credentials, "credential_id") \subseteq Field(set[component], "credential_id")
    <2>1. OnePerCredential(set.credentials, set[component])
      BY <1>1 DEF StrictlyEvaluable, SecretManagersAccepted, RotationsAccepted, InjectionsAccepted,
                  ByCredential
    <2>2. QED
      BY <2>1 DEF OnePerCredential
  <1>6. ASSUME NEW component \in edited, set[component][1] \in Counted(set) PROVE FALSE
    <2>1. component \in Components /\ Kept(component, set[component], component \in edited)
      BY <1>1 DEF WellKept
    <2>2. Betrays(set[component][1])
      BY <2>1 DEF Kept
    <2>3. Accepted(set[component][1], basis.at)
      BY <1>2, <1>6
    <2>4. QED
      BY <2>2, <2>3 DEF Betrays, Accepted
  <1>7. QED
    BY <1>2, <1>3, <1>4, <1>5, <1>6 DEF Accepted

LEMMA Hardened == Spec => []HardeningInv
  BY HardeningInit, HardeningStep, PTL DEF Spec

\* A strict evaluation that finds a set ready leaves no decision that counts and
\* no adapter decision in it that is not verified or has expired, and no
\* credential without its decisions, however large the set is, however often a
\* credential is listed and whatever the operator did to it before.
THEOREM ReadySetsAreFresh == Spec => []ReadyIsFresh
  <1>1. HardeningInv => ReadyIsFresh
    BY ReadyIsChecked
  <1>2. QED
    BY Hardened, <1>1, PTL

\* A verdict that was edited by hand never counts in a set that is found ready.
THEOREM EditedSetsAreRefused == Spec => []ReadyTrustsNothingEdited
  <1>1. HardeningInv => ReadyTrustsNothingEdited
    BY ReadyIsChecked
  <1>2. QED
    BY Hardened, <1>1, PTL

\* In a set that was found ready every decision that counts names an adapter
\* decision of the set and keeps the references that one rests on.
THEOREM ReadySetsCite == Spec => []ReadyCitesItsAdapters
  <1>1. HardeningInv => ReadyCitesItsAdapters
    BY ReadyIsChecked
  <1>2. QED
    BY Hardened, <1>1, PTL

-----------------------------------------------------------------------------
(* What a verified decision says: the record of each component, field by    *)
(* field, and what held of the records it was made of.                      *)

LEMMA MadeWithId ==
    ASSUME NEW d, NEW fields, fields \subseteq DOMAIN d, "decision_id" \notin DOMAIN d,
           NEW prefix, NEW made, made = [decision_id |-> StableId(prefix, d, fields)] ++ d
    PROVE  /\ made.decision_id = StableId(prefix, made, fields)
           /\ \A f \in DOMAIN d : made[f] = d[f]
  <1> DEFINE id == StableId(prefix, d, fields)
  <1>1. made = [decision_id |-> id] ++ d
    OBVIOUS
  <1> HIDE DEF id
  <1>2. made.decision_id = id /\ \A f \in DOMAIN d : made[f] = d[f]
    BY <1>1 DEF ++
  <1>3. Bound(made, fields) = Bound(d, fields)
    BY <1>2 DEF Bound
  <1>4. QED
    BY <1>2, <1>3 DEF StableId, id

\* Five records of one tenant have the same tenant.
LEMMA AllOfOneTenant ==
    ASSUME NEW a, NEW b, NEW c, NEW d, NEW e, SameTenant({a, b, c, d, e})
    PROVE  a.tenant_id = b.tenant_id
  <1> DEFINE tenants == {r.tenant_id : r \in {a, b, c, d, e}}
  <1>1. tenants = {} \union {a.tenant_id} \union {b.tenant_id} \union {c.tenant_id}
                     \union {d.tenant_id} \union {e.tenant_id}
    OBVIOUS
  <1>2. IsFiniteSet(tenants)
    <2>1. \A S, x : IsFiniteSet(S) => IsFiniteSet(S \union {x})
      BY FS_AddElement
    <2>2. IsFiniteSet({})
      BY FS_EmptySet
    <2>3. \A u, v, w, x, y : IsFiniteSet({} \union {u} \union {v} \union {w} \union {x} \union {y})
      BY <2>1, <2>2, Zenon
    <2> HIDE DEF tenants
    <2>4. QED
      BY <1>1, <2>3, Zenon
  <1>3. Cardinality(tenants) = 1
    BY DEF SameTenant
  <1>4. PICK x : tenants = {x}
    <2> HIDE DEF tenants
    <2>1. QED
      BY <1>2, <1>3, FS_Singleton
  <1>5. a.tenant_id \in tenants /\ b.tenant_id \in tenants
    OBVIOUS
  <1>6. QED
    BY <1>4, <1>5

LEMMA AuthSays ==
    ASSUME NEW h, NEW ad, NEW e, NEW config, NEW contract, NEW at,
           NEW d, d = VerifyAuth(h, ad, e, config, contract, at), d.decision = "Verified"
    PROVE  /\ d.decision_id = ExpectedAuthId(d)
           /\ d.tenant_id = h.tenant_id /\ d.provider_ref = e.provider_ref
           /\ d.evidence_ref = e.evidence_id /\ d.evidence_refs = ComponentRefs(h, ad, e)
           /\ ComponentVerifies(e, ad, "AuthProvider", h.auth_provider_ref, at)
           /\ SatisfiesContract(ad, config, contract, "AuthProvider", e.provider_ref, at)
  <1> DEFINE ok == /\ SameTenant({h, ad, e})
                   /\ ComponentVerifies(e, ad, "AuthProvider", h.auth_provider_ref, at)
             verdict == Backed(Verdict(ok), ad, config, contract, "AuthProvider", e.provider_ref, at)
             r == [tenant_id |-> h.tenant_id, provider_ref |-> e.provider_ref,
                   evidence_ref |-> e.evidence_id, decision |-> verdict,
                   evidence_refs |-> ComponentRefs(h, ad, e), expires_at |-> e.expires_at]
             fields == {"tenant_id", "provider_ref", "evidence_ref", "decision", "evidence_refs"}
  <1>1. d = [decision_id |-> StableId("production_auth", r, fields)] ++ r
    BY DEF VerifyAuth, ExpectedAuthId
  <1>2. /\ DOMAIN r = {"tenant_id", "provider_ref", "evidence_ref", "decision", "evidence_refs", "expires_at"}
        /\ r.tenant_id = h.tenant_id /\ r.provider_ref = e.provider_ref
        /\ r.evidence_ref = e.evidence_id /\ r.evidence_refs = ComponentRefs(h, ad, e)
        /\ r.decision = verdict
    OBVIOUS
  <1> HIDE DEF r
  <1>3. /\ d.decision_id = StableId("production_auth", d, fields)
        /\ \A f \in DOMAIN r : d[f] = r[f]
    BY <1>1, <1>2, MadeWithId
  <1>4. verdict = "Verified"
    BY <1>2, <1>3
  <1>5. ok /\ SatisfiesContract(ad, config, contract, "AuthProvider", e.provider_ref, at)
    BY <1>4 DEF Backed, Verdict
  <1>6. QED
    BY <1>2, <1>3, <1>5 DEF ExpectedAuthId

LEMMA SandboxSays ==
    ASSUME NEW h, NEW ad, NEW e, NEW config, NEW contract, NEW at,
           NEW d, d = VerifySandbox(h, ad, e, config, contract, at), d.decision = "Verified"
    PROVE  /\ d.decision_id = ExpectedSandboxId(d)
           /\ d.tenant_id = h.tenant_id /\ d.provider_ref = e.provider_ref
           /\ d.evidence_ref = e.evidence_id /\ d.evidence_refs = ComponentRefs(h, ad, e)
           /\ ComponentVerifies(e, ad, "HardenedSandbox", h.hardened_sandbox_profile_ref, at)
           /\ SatisfiesContract(ad, config, contract, "HardenedSandbox", e.provider_ref, at)
  <1> DEFINE ok == /\ SameTenant({h, ad, e})
                   /\ ComponentVerifies(e, ad, "HardenedSandbox", h.hardened_sandbox_profile_ref, at)
             verdict == Backed(Verdict(ok), ad, config, contract, "HardenedSandbox", e.provider_ref, at)
             r == [tenant_id |-> h.tenant_id, provider_ref |-> e.provider_ref,
                   evidence_ref |-> e.evidence_id, decision |-> verdict,
                   evidence_refs |-> ComponentRefs(h, ad, e), expires_at |-> e.expires_at]
             fields == {"tenant_id", "provider_ref", "evidence_ref", "decision", "evidence_refs"}
  <1>1. d = [decision_id |-> StableId("hardened_sandbox", r, fields)] ++ r
    BY DEF VerifySandbox, ExpectedSandboxId
  <1>2. /\ DOMAIN r = fields \union {"expires_at"}
        /\ r.tenant_id = h.tenant_id /\ r.provider_ref = e.provider_ref
        /\ r.evidence_ref = e.evidence_id /\ r.evidence_refs = ComponentRefs(h, ad, e)
        /\ r.decision = verdict
    OBVIOUS
  <1> HIDE DEF r
  <1>3. /\ d.decision_id = StableId("hardened_sandbox", d, fields)
        /\ \A f \in DOMAIN r : d[f] = r[f]
    BY <1>1, <1>2, MadeWithId
  <1>4. verdict = "Verified"
    BY <1>2, <1>3
  <1>5. ok /\ SatisfiesContract(ad, config, contract, "HardenedSandbox", e.provider_ref, at)
    BY <1>4 DEF Backed, Verdict
  <1>6. QED
    BY <1>2, <1>3, <1>5 DEF ExpectedSandboxId

LEMMA ManagerSays ==
    ASSUME NEW c, NEW h, NEW ad, NEW e, NEW config, NEW contract, NEW at,
           NEW d, d = VerifySecretManager(c, h, ad, e, config, contract, at),
           d.decision = "Verified"
    PROVE  /\ d.decision_id = ExpectedSecretManagerId(d)
           /\ d.tenant_id = c.tenant_id /\ d.credential_id = c.credential_id
           /\ d.external_secret_ref = c.external_secret_ref
           /\ d.provider_ref = e.provider_ref /\ d.evidence_ref = e.evidence_id
           /\ d.evidence_refs = ComponentRefs(h, ad, e)
                                  \union {c.credential_id, c.external_secret_ref,
                                          e.external_secret_ref, e.rotation_policy_ref}
           /\ e.external_secret_ref = c.external_secret_ref
           /\ c.material_policy = "ExecutorInjected"
           /\ ~IsPlaceholder(e.rotation_policy_ref)
           /\ ComponentVerifies(e, ad, "ExternalSecretManager", h.secret_manager_ref, at)
           /\ SatisfiesContract(ad, config, contract, "ExternalSecretManager", e.provider_ref, at)
  <1> DEFINE ok == /\ SameTenant({c, h, ad, e})
                   /\ e.credential_id = c.credential_id
                   /\ e.external_secret_ref = c.external_secret_ref
                   /\ c.material_policy = "ExecutorInjected"
                   /\ Configured(c.rotation_ref)
                   /\ e.rotation_policy_ref \in {c.rotation_ref, h.rotation_policy_ref}
                   /\ ~AnyPlaceholder({e.external_secret_ref, e.rotation_policy_ref})
                   /\ ~\E ref \in e.refs \union {e.external_secret_ref, e.rotation_policy_ref} :
                         LooksLikeRawSecret(ref)
                   /\ ComponentVerifies(e, ad, "ExternalSecretManager", h.secret_manager_ref, at)
             verdict == Backed(Verdict(ok), ad, config, contract, "ExternalSecretManager",
                               e.provider_ref, at)
             refs == ComponentRefs(h, ad, e) \union {c.credential_id, c.external_secret_ref,
                                                    e.external_secret_ref, e.rotation_policy_ref}
             r == [tenant_id |-> c.tenant_id, credential_id |-> c.credential_id,
                   external_secret_ref |-> c.external_secret_ref,
                   provider_ref |-> e.provider_ref, evidence_ref |-> e.evidence_id,
                   decision |-> verdict, evidence_refs |-> refs, expires_at |-> e.expires_at]
             fields == {"tenant_id", "credential_id", "external_secret_ref", "provider_ref",
                        "decision", "evidence_refs"}
  <1>1. d = [decision_id |-> StableId("external_secret_manager", r, fields)] ++ r
    BY DEF VerifySecretManager, ExpectedSecretManagerId
  <1>2. /\ DOMAIN r = fields \union {"evidence_ref", "expires_at"}
        /\ r.tenant_id = c.tenant_id /\ r.credential_id = c.credential_id
        /\ r.external_secret_ref = c.external_secret_ref
        /\ r.provider_ref = e.provider_ref
        /\ r.evidence_ref = e.evidence_id /\ r.evidence_refs = refs
        /\ r.decision = verdict
    OBVIOUS
  <1> HIDE DEF r
  <1>3. /\ d.decision_id = StableId("external_secret_manager", d, fields)
        /\ \A f \in DOMAIN r : d[f] = r[f]
    BY <1>1, <1>2, MadeWithId
  <1>4. verdict = "Verified"
    BY <1>2, <1>3
  <1>5. ok /\ SatisfiesContract(ad, config, contract, "ExternalSecretManager", e.provider_ref, at)
    BY <1>4 DEF Backed, Verdict
  <1>6. ~IsPlaceholder(e.rotation_policy_ref)
    BY <1>5 DEF AnyPlaceholder
  <1>7. QED
    BY <1>2, <1>3, <1>5, <1>6 DEF ExpectedSecretManagerId

LEMMA VerifierSays ==
    ASSUME NEW h, NEW sd, NEW root, NEW ad, NEW e, NEW config, NEW contract, NEW at,
           NEW d, d = VerifyVerifier(h, sd, root, ad, e, config, contract, at),
           d.decision = "Verified"
    PROVE  /\ d.decision_id = ExpectedVerifierId(d)
           /\ d.tenant_id = h.tenant_id /\ d.signature_decision_ref = sd.decision_id
           /\ d.trust_root_record_ref = root.record_id
           /\ d.provider_ref = e.provider_ref /\ d.evidence_ref = e.evidence_id
           /\ d.evidence_refs =
                 UNION {ComponentRefs(h, ad, e), sd.evidence_refs, root.evidence_refs,
                        {sd.decision_id, root.record_id, root.trust_root_hash}}
           /\ sd.tenant_id = h.tenant_id
           /\ ValidSignatureDecision(sd) /\ TrustRootLoads(root)
           /\ sd.decision = "Verified" /\ sd.can_issue_high_risk_ticket
           /\ ComponentVerifies(e, ad, "CryptographicVerifier", h.cryptographic_verifier_ref, at)
           /\ SatisfiesContract(ad, config, contract, "CryptographicVerifier", e.provider_ref, at)
  <1> DEFINE ok == /\ SameTenant({h, sd, root, ad, e})
                   /\ TrustRootLoads(root)
                   /\ ValidSignatureDecision(sd)
                   /\ e.signature_decision_ref = sd.decision_id
                   /\ e.trust_root_record_ref = root.record_id
                   /\ e.trust_root_hash = root.trust_root_hash
                   /\ sd.decision = "Verified" /\ sd.can_issue_high_risk_ticket
                   /\ sd.trust_root_ref = root.root_id
                   /\ ComponentVerifies(e, ad, "CryptographicVerifier",
                                        h.cryptographic_verifier_ref, at)
             verdict == Backed(Verdict(ok), ad, config, contract, "CryptographicVerifier",
                               e.provider_ref, at)
             refs == UNION {ComponentRefs(h, ad, e), sd.evidence_refs, root.evidence_refs,
                            {sd.decision_id, root.record_id, root.trust_root_hash,
                             e.signature_decision_ref, e.trust_root_record_ref,
                             e.trust_root_hash}}
             r == [tenant_id |-> h.tenant_id, signature_decision_ref |-> sd.decision_id,
                   trust_root_record_ref |-> root.record_id,
                   provider_ref |-> e.provider_ref, evidence_ref |-> e.evidence_id,
                   decision |-> verdict, evidence_refs |-> refs, expires_at |-> e.expires_at]
             fields == {"tenant_id", "signature_decision_ref", "trust_root_record_ref",
                        "provider_ref", "decision", "evidence_refs"}
  <1>1. d = [decision_id |-> StableId("cryptographic_verifier", r, fields)] ++ r
    BY DEF VerifyVerifier, ExpectedVerifierId
  <1>2. /\ DOMAIN r = fields \union {"evidence_ref", "expires_at"}
        /\ r.tenant_id = h.tenant_id /\ r.signature_decision_ref = sd.decision_id
        /\ r.trust_root_record_ref = root.record_id
        /\ r.provider_ref = e.provider_ref
        /\ r.evidence_ref = e.evidence_id /\ r.evidence_refs = refs
        /\ r.decision = verdict
    OBVIOUS
  <1> HIDE DEF r
  <1>3. /\ d.decision_id = StableId("cryptographic_verifier", d, fields)
        /\ \A f \in DOMAIN r : d[f] = r[f]
    BY <1>1, <1>2, MadeWithId
  <1>4. verdict = "Verified"
    BY <1>2, <1>3
  <1>5. ok /\ SatisfiesContract(ad, config, contract, "CryptographicVerifier", e.provider_ref, at)
    BY <1>4 DEF Backed, Verdict
  <1>6. sd.tenant_id = h.tenant_id
    BY <1>5, AllOfOneTenant
  <1>7. refs = UNION {ComponentRefs(h, ad, e), sd.evidence_refs, root.evidence_refs,
                      {sd.decision_id, root.record_id, root.trust_root_hash}}
    BY <1>5
  <1>8. QED
    BY <1>2, <1>3, <1>5, <1>6, <1>7 DEF ExpectedVerifierId

RotationIs(c, h, ad, verdict, at, d) ==
    /\ d.decision_id = ExpectedRotationId(d) /\ d.decision = verdict
    /\ d.tenant_id = c.tenant_id /\ d.credential_id = c.credential_id
    /\ d.hardening_evidence_ref = HardeningHash(h)
    /\ d.rotation_ref = c.rotation_ref /\ d.rotation_policy_ref = h.rotation_policy_ref
    /\ d.adapter_decision_ref = ad.decision_id
    /\ d.evidence_refs =
          UNION {{c.credential_id, HardeningHash(h)}, h.evidence_refs,
                 Given({c.rotation_ref, h.rotation_policy_ref, ad.decision_id}),
                 IF ad = NoAdapter THEN {} ELSE ad.evidence_refs}
    /\ d.expires_at = IF c.expires_at = Never THEN at + RotationWindow ELSE c.expires_at

LEMMA RotationSays ==
    ASSUME NEW c, NEW h, NEW ad, NEW verdict, NEW at,
           NEW d, d = RotationDecision(c, h, ad, verdict, at)
    PROVE  RotationIs(c, h, ad, verdict, at, d)
  <1> DEFINE refs == UNION {{c.credential_id, HardeningHash(h)}, h.evidence_refs,
                            Given({c.rotation_ref, h.rotation_policy_ref, ad.decision_id}),
                            IF ad = NoAdapter THEN {} ELSE ad.evidence_refs}
             until == IF c.expires_at = Never THEN at + RotationWindow ELSE c.expires_at
             r == [tenant_id |-> c.tenant_id, credential_id |-> c.credential_id,
                   hardening_evidence_ref |-> HardeningHash(h),
                   rotation_ref |-> c.rotation_ref,
                   rotation_policy_ref |-> h.rotation_policy_ref,
                   adapter_decision_ref |-> ad.decision_id, decision |-> verdict,
                   evidence_refs |-> refs, expires_at |-> until]
             fields == {"tenant_id", "credential_id", "hardening_evidence_ref", "rotation_ref",
                        "rotation_policy_ref", "adapter_decision_ref", "decision",
                        "evidence_refs"}
  <1>1. d = [decision_id |-> StableId("rotation_enforcement", r, fields)] ++ r
    BY DEF RotationDecision, ExpectedRotationId
  <1> HIDE DEF refs, until
  <1>2. /\ DOMAIN r = fields \union {"expires_at"}
        /\ r.tenant_id = c.tenant_id /\ r.credential_id = c.credential_id
        /\ r.hardening_evidence_ref = HardeningHash(h)
        /\ r.rotation_ref = c.rotation_ref /\ r.rotation_policy_ref = h.rotation_policy_ref
        /\ r.adapter_decision_ref = ad.decision_id /\ r.decision = verdict
        /\ r.evidence_refs = refs /\ r.expires_at = until
    OBVIOUS
  <1> HIDE DEF r
  <1>3. /\ d.decision_id = StableId("rotation_enforcement", d, fields)
        /\ \A f \in DOMAIN r : d[f] = r[f]
    BY <1>1, <1>2, MadeWithId
  <1>4. d.evidence_refs = refs /\ d.expires_at = until
    BY <1>2, <1>3
  <1>5. QED
    BY <1>2, <1>3, <1>4 DEF ExpectedRotationId, refs, until, RotationIs

StorageIs(root, e, backing, verdict, at, d) ==
    /\ d.decision_id = ExpectedStorageId(d) /\ d.decision = verdict
    /\ d.tenant_id = root.tenant_id /\ d.record_id = root.record_id
    /\ d.root_id = root.root_id /\ d.trust_root_hash = root.trust_root_hash
    /\ d.storage_evidence_ref = e.evidence_id
    /\ d.storage_provider_ref = e.storage_provider_ref
    /\ d.verified_at = at /\ d.expires_at = e.expires_at
    /\ d.evidence_refs =
          UNION {root.evidence_refs, e.refs, backing,
                 {root.record_id, root.trust_root_hash, e.evidence_id,
                  e.storage_provider_ref}}

LEMMA StorageSays ==
    ASSUME NEW root, NEW e, NEW backing, NEW verdict, NEW at,
           NEW d, d = StorageDecision(root, e, backing, verdict, at)
    PROVE  StorageIs(root, e, backing, verdict, at, d)
  <1> DEFINE refs == UNION {root.evidence_refs, e.refs, backing,
                            {root.record_id, root.trust_root_hash, e.evidence_id,
                             e.storage_provider_ref}}
             r == [tenant_id |-> root.tenant_id, record_id |-> root.record_id,
                   root_id |-> root.root_id, trust_root_hash |-> root.trust_root_hash,
                   storage_evidence_ref |-> e.evidence_id,
                   storage_provider_ref |-> e.storage_provider_ref,
                   decision |-> verdict, verified_at |-> at, expires_at |-> e.expires_at,
                   evidence_refs |-> refs]
             fields == {"tenant_id", "record_id", "trust_root_hash", "storage_evidence_ref",
                        "storage_provider_ref", "decision", "evidence_refs"}
  <1>1. d = [decision_id |-> StableId("trust_root_storage", r, fields)] ++ r
    BY DEF StorageDecision, ExpectedStorageId
  <1> HIDE DEF refs
  <1>2. /\ DOMAIN r = fields \union {"root_id", "verified_at", "expires_at"}
        /\ r.tenant_id = root.tenant_id /\ r.record_id = root.record_id
        /\ r.root_id = root.root_id /\ r.trust_root_hash = root.trust_root_hash
        /\ r.storage_evidence_ref = e.evidence_id
        /\ r.storage_provider_ref = e.storage_provider_ref
        /\ r.decision = verdict /\ r.verified_at = at /\ r.expires_at = e.expires_at
        /\ r.evidence_refs = refs
    OBVIOUS
  <1> HIDE DEF r
  <1>3. /\ d.decision_id = StableId("trust_root_storage", d, fields)
        /\ \A f \in DOMAIN r : d[f] = r[f]
    BY <1>1, <1>2, MadeWithId
  <1>4. d.evidence_refs = refs
    BY <1>2, <1>3
  <1>5. QED
    BY <1>2, <1>3, <1>4 DEF ExpectedStorageId, refs, StorageIs

DeliveryIs(b, e, ad, verdict, at, d) ==
    /\ d.decision_id = ExpectedDeliveryId(d) /\ d.decision = verdict
    /\ d.tenant_id = b.tenant_id /\ d.bundle_id = b.bundle_id
    /\ d.bundle_hash = b.bundle_hash /\ d.tenant_policy_hash = b.tenant_policy_hash
    /\ d.production_readiness_evidence_hash = b.production_readiness_evidence_hash
    /\ d.delivery_evidence_ref = e.evidence_id /\ d.delivery_ref = e.delivery_ref
    /\ d.storage_provider_ref = e.storage_provider_ref
    /\ d.adapter_decision_ref = e.adapter_decision_ref
    /\ d.verified_at = at /\ d.expires_at = e.expires_at
    /\ d.evidence_refs =
          {b.bundle_id, b.bundle_hash, b.tenant_policy_record_ref,
           b.tenant_policy_hash, e.evidence_id, e.delivery_ref,
           e.storage_provider_ref}
            \union e.refs \union Given({e.adapter_decision_ref}) \union KeptRefs(b)
            \union (IF ad = NoAdapter THEN {}
                    ELSE {ad.decision_id} \union ad.evidence_refs)

LEMMA DeliverySays ==
    ASSUME NEW b, NEW e, NEW ad, NEW verdict, NEW at,
           NEW d, d = DeliveryDecision(b, e, ad, verdict, at)
    PROVE  DeliveryIs(b, e, ad, verdict, at, d)
  <1> DEFINE refs == {b.bundle_id, b.bundle_hash, b.tenant_policy_record_ref,
                      b.tenant_policy_hash, e.evidence_id, e.delivery_ref,
                      e.storage_provider_ref}
                       \union e.refs \union Given({e.adapter_decision_ref}) \union KeptRefs(b)
                       \union (IF ad = NoAdapter THEN {}
                               ELSE {ad.decision_id} \union ad.evidence_refs)
             r == [tenant_id |-> b.tenant_id, bundle_id |-> b.bundle_id,
                   bundle_hash |-> b.bundle_hash, tenant_policy_hash |-> b.tenant_policy_hash,
                   production_readiness_evidence_hash |-> b.production_readiness_evidence_hash,
                   delivery_evidence_ref |-> e.evidence_id, delivery_ref |-> e.delivery_ref,
                   storage_provider_ref |-> e.storage_provider_ref,
                   adapter_decision_ref |-> e.adapter_decision_ref,
                   decision |-> verdict, verified_at |-> at, expires_at |-> e.expires_at,
                   evidence_refs |-> refs]
             fields == {"tenant_id", "bundle_id", "bundle_hash", "tenant_policy_hash",
                        "production_readiness_evidence_hash", "delivery_evidence_ref",
                        "delivery_ref", "adapter_decision_ref", "decision", "evidence_refs"}
  <1>1. d = [decision_id |-> StableId("compliance_export_delivery", r, fields)] ++ r
    BY DEF DeliveryDecision, ExpectedDeliveryId
  <1> HIDE DEF refs
  <1>2. /\ DOMAIN r = fields \union {"storage_provider_ref", "verified_at", "expires_at"}
        /\ r.tenant_id = b.tenant_id /\ r.bundle_id = b.bundle_id
        /\ r.bundle_hash = b.bundle_hash /\ r.tenant_policy_hash = b.tenant_policy_hash
        /\ r.production_readiness_evidence_hash = b.production_readiness_evidence_hash
        /\ r.delivery_evidence_ref = e.evidence_id /\ r.delivery_ref = e.delivery_ref
        /\ r.storage_provider_ref = e.storage_provider_ref
        /\ r.adapter_decision_ref = e.adapter_decision_ref
        /\ r.decision = verdict /\ r.verified_at = at /\ r.expires_at = e.expires_at
        /\ r.evidence_refs = refs
    OBVIOUS
  <1> HIDE DEF r
  <1>3. /\ d.decision_id = StableId("compliance_export_delivery", d, fields)
        /\ \A f \in DOMAIN r : d[f] = r[f]
    BY <1>1, <1>2, MadeWithId
  <1>4. d.evidence_refs = refs
    BY <1>2, <1>3
  <1>5. QED
    BY <1>2, <1>3, <1>4 DEF ExpectedDeliveryId, refs, DeliveryIs

InjectionIs(c, used, h, ad, e, config, contract, at, d) ==
    /\ d.decision_id = ExpectedInjectionId(d)
    /\ d.tenant_id = c.tenant_id /\ d.credential_id = c.credential_id
    /\ d.secret_use_decision_id = used.decision_id
    /\ d.evidence_ref = e.evidence_id
    /\ d.adapter_decision_ref = e.adapter_decision_ref
    /\ d.injection_receipt_ref = e.injection_receipt_ref
    /\ d.provider_ref = e.provider_ref /\ d.sandbox_profile_ref = e.sandbox_profile_ref
    /\ d.evidence_refs =
          UNION {ComponentRefs(h, ad, e), used.evidence_refs,
                 {c.credential_id, used.decision_id, e.injection_receipt_ref,
                  e.run_id, e.sandbox_profile_ref}}
    /\ used.decision_id = ExpectedSecretUseId(used)
    /\ e.sandbox_profile_ref = h.hardened_sandbox_profile_ref
    /\ ~AnyPlaceholder({e.injection_receipt_ref, e.run_id, e.sandbox_profile_ref})
    /\ ComponentVerifies(e, ad, "SecretInjection", h.secret_injection_profile_ref, at)
    /\ SatisfiesContract(ad, config, contract, "SecretInjection", e.provider_ref, at)

LEMMA InjectionSays ==
    ASSUME NEW c, NEW used, NEW h, NEW ad, NEW e, NEW config, NEW contract, NEW at,
           NEW d, d = VerifyInjection(c, used, h, ad, e, config, contract, at),
           d.decision = "Verified"
    PROVE  InjectionIs(c, used, h, ad, e, config, contract, at, d)
  <1> DEFINE ok == /\ SameTenant({c, e, h, ad, used})
                   /\ used.credential_id = c.credential_id /\ e.credential_id = c.credential_id
                   /\ used.run_id = e.run_id
                   /\ InScope(c, used)
                   /\ e.secret_use_decision_id = used.decision_id
                   /\ used.decision_id = ExpectedSecretUseId(used)
                   /\ used.decided_at <= at
                   /\ ~BadWindow(used.decided_at, used.expires_at, at)
                   /\ used.decision = "Allowed"
                   /\ ~used.raw_secret_exposed
                   /\ c.material_policy = "ExecutorInjected"
                   /\ Configured(h.hardened_sandbox_profile_ref)
                   /\ e.sandbox_profile_ref = h.hardened_sandbox_profile_ref
                   /\ ~AnyPlaceholder({e.injection_receipt_ref, e.run_id, e.sandbox_profile_ref})
                   /\ ComponentVerifies(e, ad, "SecretInjection",
                                        h.secret_injection_profile_ref, at)
             verdict == Backed(Verdict(ok), ad, config, contract, "SecretInjection",
                               e.provider_ref, at)
             refs == UNION {ComponentRefs(h, ad, e), used.evidence_refs,
                            {c.credential_id, used.decision_id, e.injection_receipt_ref,
                             e.run_id, e.sandbox_profile_ref}}
             r == [tenant_id |-> c.tenant_id, credential_id |-> c.credential_id,
                   secret_use_decision_id |-> used.decision_id,
                   evidence_ref |-> e.evidence_id,
                   adapter_decision_ref |-> e.adapter_decision_ref,
                   injection_receipt_ref |-> e.injection_receipt_ref,
                   provider_ref |-> e.provider_ref,
                   sandbox_profile_ref |-> e.sandbox_profile_ref,
                   decision |-> verdict, evidence_refs |-> refs, expires_at |-> e.expires_at]
             fields == {"tenant_id", "credential_id", "secret_use_decision_id", "evidence_ref",
                        "adapter_decision_ref", "injection_receipt_ref", "decision",
                        "evidence_refs"}
  <1>1. d = [decision_id |-> StableId("secret_injection", r, fields)] ++ r
    BY DEF VerifyInjection, ExpectedInjectionId
  <1> HIDE DEF refs, verdict
  <1>2. /\ DOMAIN r = fields \union {"provider_ref", "sandbox_profile_ref", "expires_at"}
        /\ r.tenant_id = c.tenant_id /\ r.credential_id = c.credential_id
        /\ r.secret_use_decision_id = used.decision_id /\ r.evidence_ref = e.evidence_id
        /\ r.adapter_decision_ref = e.adapter_decision_ref
        /\ r.injection_receipt_ref = e.injection_receipt_ref
        /\ r.provider_ref = e.provider_ref /\ r.sandbox_profile_ref = e.sandbox_profile_ref
        /\ r.decision = verdict /\ r.evidence_refs = refs
    OBVIOUS
  <1> HIDE DEF r
  <1>3. /\ d.decision_id = StableId("secret_injection", d, fields)
        /\ \A f \in DOMAIN r : d[f] = r[f]
    BY <1>1, <1>2, MadeWithId
  <1>4. verdict = "Verified" /\ d.evidence_refs = refs
    BY <1>2, <1>3
  <1>5. ok /\ SatisfiesContract(ad, config, contract, "SecretInjection", e.provider_ref, at)
    BY <1>4 DEF verdict, Backed, Verdict
  <1>6. QED
    BY <1>2, <1>3, <1>4, <1>5 DEF ExpectedInjectionId, refs, InjectionIs

LEMMA AdapterSays ==
    ASSUME NEW e, NEW verdict, NEW at, NEW d, d = AdapterDecision(e, verdict, at)
    PROVE  /\ d.decision_id = ExpectedAdapterId(d) /\ d.decision = verdict
           /\ d.tenant_id = e.tenant_id /\ d.expires_at = e.expires_at
           /\ d.evidence_refs = AdapterRefs(e) \union {e.attestation_ref, e.healthcheck_ref}
                                   \union ({e.sandbox_profile_ref} \ {NoRef})
           /\ \A f \in AdapterBinding : d[f] = e[f]
  <1> DEFINE refs == AdapterRefs(e) \union {e.attestation_ref, e.healthcheck_ref}
                        \union ({e.sandbox_profile_ref} \ {NoRef})
             own == [tenant_id |-> e.tenant_id, decision |-> verdict, evidence_refs |-> refs,
                     verified_at |-> at, expires_at |-> e.expires_at]
             bound == Bound(e, AdapterBinding)
             r == own ++ bound
  <1>1. d = [decision_id |-> StableId("production_adapter_verification", r,
                                      AdapterBinding \union {"decision", "evidence_refs"})] ++ r
    BY DEF AdapterDecision, WithAdapterId, ExpectedAdapterId
  <1>2. /\ DOMAIN own = {"tenant_id", "decision", "evidence_refs", "verified_at", "expires_at"}
        /\ own.tenant_id = e.tenant_id /\ own.decision = verdict /\ own.evidence_refs = refs
        /\ own.expires_at = e.expires_at
    OBVIOUS
  <1>3. DOMAIN bound = AdapterBinding /\ \A f \in AdapterBinding : bound[f] = e[f]
    BY DEF Bound
  <1>4. \A f \in DOMAIN own : f \notin AdapterBinding
    BY <1>2 DEF AdapterBinding
  <1>5. "decision_id" \notin DOMAIN own \union AdapterBinding
    BY <1>2 DEF AdapterBinding
  <1> HIDE DEF own, bound
  <1>6. /\ DOMAIN r = DOMAIN own \union AdapterBinding
        /\ \A f \in DOMAIN own : r[f] = own[f]
        /\ \A f \in AdapterBinding : r[f] = e[f]
    BY <1>3, <1>4 DEF ++
  <1> HIDE DEF r
  <1>7. /\ d.decision_id = StableId("production_adapter_verification", d,
                                    AdapterBinding \union {"decision", "evidence_refs"})
        /\ \A f \in DOMAIN r : d[f] = r[f]
    <2>1. AdapterBinding \union {"decision", "evidence_refs"} \subseteq DOMAIN r
      BY <1>2, <1>6
    <2>2. "decision_id" \notin DOMAIN r
      BY <1>5, <1>6
    <2>3. QED
      BY <1>1, <2>1, <2>2, MadeWithId
  <1>8. QED
    BY <1>2, <1>6, <1>7 DEF ExpectedAdapterId

-----------------------------------------------------------------------------
(* The references a decision rests on.                                      *)

\* Real, no secret, and of no adapter decision but this one.
Clean(ref, ad) ==
    /\ ref[1] = AdapterPrefix => ref = ad.decision_id
    /\ ~IsPlaceholder(ref) /\ ~LooksLikeRawSecret(ref)

RestsCleanly(d, ad) == \A ref \in d.evidence_refs : Clean(ref, ad)

\* A verified adapter decision of the vault for the provider of a component.
Verifies(ad, kind, provider) ==
    /\ ad.decision = "Verified" /\ ad.kind = kind /\ ad.provider_ref = provider
    /\ ad.decision_id = ExpectedAdapterId(ad)

\* An id is neither a placeholder nor a secret, and has the prefix it was given.
LEMMA PairsAreReal ==
    ASSUME NEW prefix, NEW content, NEW ref, ref = <<prefix, content>>
    PROVE  ref[1] = prefix /\ ~IsPlaceholder(ref) /\ ~LooksLikeRawSecret(ref)
  BY DEF IsPlaceholder, NoRef, Placeholder, LooksLikeRawSecret, RawSecret

LEMMA OwnIsClean ==
    ASSUME NEW ref, OwnName(ref), ~IsPlaceholder(ref), NEW ad
    PROVE  Clean(ref, ad)
  BY DEF OwnName, Clean

LEMMA HashIsClean ==
    ASSUME NEW prefix, prefix # AdapterPrefix, NEW content, NEW ref, ref = <<prefix, content>>,
           NEW ad
    PROVE  Clean(ref, ad)
  BY PairsAreReal DEF Clean

LEMMA AdapterIdIsClean ==
    ASSUME NEW ad, ad.decision_id = ExpectedAdapterId(ad)
    PROVE  Clean(ad.decision_id, ad)
  <1> DEFINE content == Bound(ad, AdapterBinding \union {"decision", "evidence_refs"})
  <1>1. ad.decision_id = <<"production_adapter_verification", content>>
    BY DEF ExpectedAdapterId, StableId
  <1> HIDE DEF content
  <1>2. ~IsPlaceholder(ad.decision_id) /\ ~LooksLikeRawSecret(ad.decision_id)
    BY <1>1, PairsAreReal
  <1>3. QED
    BY <1>2 DEF Clean

LEMMA AdapterIdPrefix ==
    ASSUME NEW ad, ad.decision_id = ExpectedAdapterId(ad)
    PROVE  ad.decision_id[1] = AdapterPrefix /\ ad.decision_id # NoRef
  BY DEF ExpectedAdapterId, StableId, AdapterPrefix, NoRef

\* What is known of an adapter decision of the vault and of its evidence.
LEMMA AdapterOrigin ==
    ASSUME NEW e, NEW ad \in AdapterIssues(e)
    PROVE  /\ ad.decision_id = ExpectedAdapterId(ad)
           /\ ad.tenant_id = e.tenant_id /\ ad.expires_at = e.expires_at
           /\ ad.evidence_refs = AdapterRefs(e) \union {e.attestation_ref, e.healthcheck_ref}
                                    \union ({e.sandbox_profile_ref} \ {NoRef})
           /\ \A f \in AdapterBinding : ad[f] = e[f]
           /\ ad.decision = "Verified" =>
                 \E at \in Times : /\ AdapterEvidenceVerifies(e, at)
                                   /\ MatchesConfig(e, Config[e.kind])
                                   /\ MatchesContract(e, Config[e.kind], Contract[e.kind], at)
  <1>1. PICK at \in Times :
           ad = VerifyAdapterWithContract(e, Config[e.kind], Contract[e.kind], at)
    BY DEF AdapterIssues
  <1> DEFINE ok == /\ AdapterEvidenceVerifies(e, at)
                   /\ MatchesConfig(e, Config[e.kind])
                   /\ MatchesContract(e, Config[e.kind], Contract[e.kind], at)
             verdict == IF ok THEN "Verified" ELSE "Rejected"
  <1>2. ad = AdapterDecision(e, verdict, at)
    BY <1>1 DEF VerifyAdapterWithContract
  <1> HIDE DEF verdict
  <1>3. /\ ad.decision_id = ExpectedAdapterId(ad) /\ ad.decision = verdict
        /\ ad.tenant_id = e.tenant_id /\ ad.expires_at = e.expires_at
        /\ ad.evidence_refs = AdapterRefs(e) \union {e.attestation_ref, e.healthcheck_ref}
                                 \union ({e.sandbox_profile_ref} \ {NoRef})
        /\ \A f \in AdapterBinding : ad[f] = e[f]
    BY <1>2, AdapterSays
  <1>4. ad.decision = "Verified" => ok
    BY <1>3 DEF verdict
  <1> HIDE DEF ok
  <1>5. ad.decision = "Verified" =>
           \E t \in Times : /\ AdapterEvidenceVerifies(e, t)
                            /\ MatchesConfig(e, Config[e.kind])
                            /\ MatchesContract(e, Config[e.kind], Contract[e.kind], t)
    BY <1>4, Zenon DEF ok
  <1>6. QED
    BY <1>3, <1>5

LEMMA AdapterIsSound ==
    ASSUME ReferencesAreReal, NEW ad \in AdapterDecisions,
           NEW config, NEW contract, NEW kind, NEW provider, NEW at,
           SatisfiesContract(ad, config, contract, kind, provider, at)
    PROVE  Verifies(ad, kind, provider) /\ RestsCleanly(ad, ad) /\ Clean(ad.decision_id, ad)
  <1>1. ValidAdapterDecision(ad, at) /\ ad.kind = kind /\ ad.provider_ref = provider
    BY DEF SatisfiesContract
  <1>2. Verifies(ad, kind, provider) /\ Clean(ad.decision_id, ad)
    BY <1>1, AdapterIdIsClean DEF ValidAdapterDecision, Verifies
  <1>3. \A ref \in ad.evidence_refs : ~IsPlaceholder(ref)
    BY <1>1 DEF ValidAdapterDecision, AnyPlaceholder
  <1>4. PICK e \in Attested : ad \in AdapterIssues(e)
    BY DEF AdapterDecisions
  <1>5. ad.evidence_refs \subseteq AdapterRefs(e) \union {e.attestation_ref, e.healthcheck_ref,
                                                          e.sandbox_profile_ref}
    BY <1>4, AdapterOrigin
  <1>6. \A ref \in ad.evidence_refs : ref[1] # AdapterPrefix /\ ~LooksLikeRawSecret(ref)
    BY <1>5 DEF ReferencesAreReal
  <1>7. RestsCleanly(ad, ad)
    BY <1>3, <1>6 DEF RestsCleanly, Clean
  <1>8. QED
    BY <1>2, <1>7

LEMMA FoundationsAre ==
    /\ Start.hardening.evidence_refs \subseteq Foundations
    /\ {Start.credentials[1].credential_id, Start.credentials[1].external_secret_ref}
          \subseteq Foundations
    /\ \A sd \in SignatureDecisions : sd.evidence_refs \subseteq Foundations
    /\ \A root \in Members(Records) :
          root.evidence_refs \union {root.record_id} \subseteq Foundations
    /\ \A used \in SecretUses : used.evidence_refs \subseteq Foundations
    /\ \A b \in Exports :
          {b.tenant_policy_record_ref, b.tenant_policy_hash} \union KeptRefs(b)
             \subseteq Foundations
  <1>1. Start.hardening.evidence_refs \subseteq Foundations
    BY DEF Foundations
  <1>2. {Start.credentials[1].credential_id, Start.credentials[1].external_secret_ref}
          \subseteq Foundations
    BY DEF Foundations
  <1>3. \A sd \in SignatureDecisions : sd.evidence_refs \subseteq Foundations
    BY DEF Foundations
  <1>4. \A root \in Members(Records) :
          root.evidence_refs \union {root.record_id} \subseteq Foundations
    BY DEF Foundations
  <1>5. \A used \in SecretUses : used.evidence_refs \subseteq Foundations
    BY DEF Foundations
  <1>6. \A b \in Exports :
          {b.tenant_policy_record_ref, b.tenant_policy_hash} \union KeptRefs(b)
             \subseteq Foundations
    BY DEF Foundations
  <1>7. QED
    BY <1>1, <1>2, <1>3, <1>4, <1>5, <1>6

LEMMA FoundationsAreClean ==
    ASSUME ReferencesAreReal, NEW ref \in Foundations, NEW ad
    PROVE  Clean(ref, ad)
  BY OwnIsClean DEF ReferencesAreReal

\* The receipts of a component name nothing of the vault.
LEMMA ReceiptNames ==
    ASSUME ReferencesAreReal, NEW kind \in DOMAIN NameFields, NEW ad \in AdapterDecisions,
           NEW e \in Receipts(kind, ad)
    PROVE  /\ \A ref \in e.refs : OwnName(ref)
           /\ \A f \in NameFields[kind] : OwnName(e[f])
           /\ e.expires_at \in Nat
  BY DEF ReferencesAreReal

\* What a component verified, its adapter backs and its references are real.
LEMMA ComponentIsSound ==
    ASSUME ReferencesAreReal, NEW kind \in DOMAIN NameFields, NEW ad \in AdapterDecisions,
           NEW e \in Receipts(kind, ad), {"evidence_id", "provider_ref"} \subseteq NameFields[kind],
           NEW config, NEW contract, NEW provider, NEW at,
           ComponentVerifies(e, ad, kind, provider, at),
           SatisfiesContract(ad, config, contract, kind, e.provider_ref, at)
    PROVE  /\ Verifies(ad, kind, provider) /\ e.provider_ref = provider
           /\ ~IsPlaceholder(provider) /\ ~IsPlaceholder(e.evidence_id)
           /\ e.adapter_decision_ref = ad.decision_id
           /\ \A ref \in ComponentRefs(Start.hardening, ad, e) : Clean(ref, ad)
  <1>1. /\ e.provider_ref = provider /\ ~IsPlaceholder(provider)
        /\ e.adapter_decision_ref = ad.decision_id
        /\ \A ref \in {e.evidence_id, e.provider_ref, e.adapter_decision_ref} \union e.refs :
              ~IsPlaceholder(ref)
    BY DEF ComponentVerifies, Configured, BoundToAdapter, AnyPlaceholder
  <1>2. Verifies(ad, kind, provider) /\ RestsCleanly(ad, ad) /\ Clean(ad.decision_id, ad)
    BY <1>1, AdapterIsSound
  <1>3. \A ref \in e.refs \union {e.evidence_id, e.provider_ref} : OwnName(ref)
    BY ReceiptNames
  <1>4. \A ref \in e.refs \union {e.evidence_id, e.provider_ref} : Clean(ref, ad)
    BY <1>1, <1>3, OwnIsClean
  <1>5. \A ref \in Start.hardening.evidence_refs : Clean(ref, ad)
    BY FoundationsAre, FoundationsAreClean
  <1>6. \A ref \in ComponentRefs(Start.hardening, ad, e) : Clean(ref, ad)
    BY <1>1, <1>2, <1>4, <1>5 DEF ComponentRefs, RestsCleanly
  <1>7. QED
    BY <1>1, <1>2, <1>6

-----------------------------------------------------------------------------
(* What the vault has seen to when it issued a verified decision.           *)

\* Some verified adapter decision backs it and no other is among its references.
Backing(d, kind, provider) ==
    \E ad \in AdapterDecisions : Verifies(ad, kind, provider) /\ RestsCleanly(d, ad)

\* At most one of its references is of an adapter or of a configuration.
Unbacked(d) ==
    \E own : \A ref \in d.evidence_refs :
        ref[1] \in {AdapterPrefix, ConfigPrefix} => ref = own

AuthSound(d) ==
    /\ d.decision_id = ExpectedAuthId(d) /\ d.tenant_id = Start.hardening.tenant_id
    /\ d.provider_ref = Start.hardening.auth_provider_ref /\ ~IsPlaceholder(d.provider_ref)
    /\ {d.evidence_ref, d.provider_ref} \subseteq d.evidence_refs
    /\ Backing(d, "AuthProvider", d.provider_ref)

SandboxSound(d) ==
    /\ d.decision_id = ExpectedSandboxId(d)
    /\ d.provider_ref = Start.hardening.hardened_sandbox_profile_ref
    /\ ~IsPlaceholder(d.provider_ref) /\ ~IsPlaceholder(d.evidence_ref)
    /\ {d.evidence_ref, d.provider_ref} \subseteq d.evidence_refs
    /\ Backing(d, "HardenedSandbox", d.provider_ref)

ManagerSound(d) ==
    LET c == Start.credentials[1]
    IN  /\ d.decision_id = ExpectedSecretManagerId(d)
        /\ d.tenant_id = c.tenant_id /\ d.credential_id = c.credential_id
        /\ d.external_secret_ref = c.external_secret_ref
        /\ c.material_policy = "ExecutorInjected"
        /\ d.provider_ref = Start.hardening.secret_manager_ref
        /\ ~IsPlaceholder(d.provider_ref)
        /\ {d.evidence_ref, c.credential_id, c.external_secret_ref} \subseteq d.evidence_refs
        /\ Backing(d, "ExternalSecretManager", d.provider_ref)

VerifierSound(d) ==
    /\ d.decision_id = ExpectedVerifierId(d)
    /\ d.provider_ref = Start.hardening.cryptographic_verifier_ref
    /\ ~IsPlaceholder(d.provider_ref)
    /\ {d.evidence_ref, d.signature_decision_ref, d.trust_root_record_ref} \subseteq d.evidence_refs
    /\ Backing(d, "CryptographicVerifier", d.provider_ref)
    /\ \E sd \in SignatureDecisions :
          /\ d.signature_decision_ref = sd.decision_id
          /\ sd.tenant_id = Start.hardening.tenant_id
          /\ ValidSignatureDecision(sd)
          /\ sd.decision = "Verified" /\ sd.can_issue_high_risk_ticket

RotationSound(d) ==
    LET c == Start.credentials[1]
        h == Start.hardening
    IN  /\ d.decision_id = ExpectedRotationId(d)
        /\ d.credential_id = c.credential_id
        /\ d.hardening_evidence_ref = HardeningHash(h)
        /\ d.rotation_ref = c.rotation_ref /\ d.rotation_policy_ref = h.rotation_policy_ref
        /\ Configured(c.rotation_ref) /\ Configured(h.rotation_policy_ref)
        /\ h.evidence_refs # {}
        /\ {HardeningHash(h), c.credential_id} \subseteq d.evidence_refs
        /\ \A ref \in d.evidence_refs : ~IsPlaceholder(ref)
        /\ c.expires_at # Never => d.expires_at = c.expires_at
        /\ d.adapter_decision_ref # NoRef =>
              /\ d.adapter_decision_ref \in d.evidence_refs
              /\ \E ad : /\ d.adapter_decision_ref = ad.decision_id
                         /\ Verifies(ad, "RotationEnforcement", h.rotation_policy_ref)

InjectionSound(d) ==
    LET c == Start.credentials[1]
    IN  /\ d.decision_id = ExpectedInjectionId(d) /\ d.credential_id = c.credential_id
        /\ d.provider_ref = Start.hardening.secret_injection_profile_ref
        /\ ~IsPlaceholder(d.provider_ref)
        /\ d.sandbox_profile_ref = Start.hardening.hardened_sandbox_profile_ref
        /\ {d.evidence_ref, d.adapter_decision_ref, d.injection_receipt_ref,
            d.secret_use_decision_id, d.provider_ref, d.sandbox_profile_ref,
            c.credential_id} \subseteq d.evidence_refs
        /\ Backing(d, "SecretInjection", d.provider_ref)

DeliverySound(d) ==
    \/ ValidDelivery(d) /\ Backing(d, "ComplianceAuditExport", d.storage_provider_ref)
    \/ Unbacked(d)

StorageSound(d) ==
    \/ /\ d.decision_id = ExpectedStorageId(d)
       /\ d.verified_at < d.expires_at
       /\ {d.record_id, d.trust_root_hash, d.storage_evidence_ref, d.storage_provider_ref}
             \subseteq d.evidence_refs
       /\ Backing(d, "ExecutorTrustRoots", d.storage_provider_ref)
    \/ Unbacked(d)

Sound(component, d) ==
    /\ component = "auth" => AuthSound(d)
    /\ component = "managers" => ManagerSound(d)
    /\ component = "verifiers" => VerifierSound(d)
    /\ component = "sandboxes" => SandboxSound(d)
    /\ component = "rotations" => RotationSound(d)
    /\ component = "injections" => InjectionSound(d)
    /\ component = "deliveries" => DeliverySound(d)
    /\ component = "storages" => StorageSound(d)

LEMMA AuthIsSound ==
    ASSUME ReferencesAreReal, NEW ad \in AdapterDecisions, NEW e \in Receipts("AuthProvider", ad),
           NEW config, NEW contract, NEW at,
           NEW d, d = VerifyAuth(Start.hardening, ad, e, config, contract, at),
           d.decision = "Verified"
    PROVE  AuthSound(d)
  <1> DEFINE h == Start.hardening
  <1>1. /\ d.decision_id = ExpectedAuthId(d)
        /\ d.tenant_id = h.tenant_id /\ d.provider_ref = e.provider_ref
        /\ d.evidence_ref = e.evidence_id /\ d.evidence_refs = ComponentRefs(h, ad, e)
        /\ ComponentVerifies(e, ad, "AuthProvider", h.auth_provider_ref, at)
        /\ SatisfiesContract(ad, config, contract, "AuthProvider", e.provider_ref, at)
    BY AuthSays
  <1>2. "AuthProvider" \in DOMAIN NameFields
        /\ {"evidence_id", "provider_ref"} \subseteq NameFields["AuthProvider"]
    BY DEF NameFields
  <1>3. /\ Verifies(ad, "AuthProvider", h.auth_provider_ref) /\ e.provider_ref = h.auth_provider_ref
        /\ ~IsPlaceholder(h.auth_provider_ref)
        /\ \A ref \in ComponentRefs(h, ad, e) : Clean(ref, ad)
    BY <1>1, <1>2, ComponentIsSound
  <1>4. Backing(d, "AuthProvider", d.provider_ref)
    BY <1>1, <1>3 DEF Backing, RestsCleanly
  <1>5. {e.evidence_id, e.provider_ref} \subseteq ComponentRefs(h, ad, e)
    BY DEF ComponentRefs
  <1>6. QED
    BY <1>1, <1>3, <1>4, <1>5 DEF AuthSound

LEMMA SandboxIsSound ==
    ASSUME ReferencesAreReal, NEW ad \in AdapterDecisions, NEW e \in Receipts("HardenedSandbox", ad),
           NEW config, NEW contract, NEW at,
           NEW d, d = VerifySandbox(Start.hardening, ad, e, config, contract, at),
           d.decision = "Verified"
    PROVE  SandboxSound(d)
  <1> DEFINE h == Start.hardening
             provider == h.hardened_sandbox_profile_ref
  <1>1. /\ d.decision_id = ExpectedSandboxId(d)
        /\ d.provider_ref = e.provider_ref
        /\ d.evidence_ref = e.evidence_id /\ d.evidence_refs = ComponentRefs(h, ad, e)
        /\ ComponentVerifies(e, ad, "HardenedSandbox", provider, at)
        /\ SatisfiesContract(ad, config, contract, "HardenedSandbox", e.provider_ref, at)
    BY SandboxSays
  <1>2. "HardenedSandbox" \in DOMAIN NameFields
        /\ {"evidence_id", "provider_ref"} \subseteq NameFields["HardenedSandbox"]
    BY DEF NameFields
  <1>3. /\ Verifies(ad, "HardenedSandbox", provider) /\ e.provider_ref = provider
        /\ ~IsPlaceholder(provider) /\ ~IsPlaceholder(e.evidence_id)
        /\ \A ref \in ComponentRefs(h, ad, e) : Clean(ref, ad)
    BY <1>1, <1>2, ComponentIsSound
  <1>4. Backing(d, "HardenedSandbox", d.provider_ref)
    BY <1>1, <1>3 DEF Backing, RestsCleanly
  <1>5. {e.evidence_id, e.provider_ref} \subseteq ComponentRefs(h, ad, e)
    BY DEF ComponentRefs
  <1>6. QED
    BY <1>1, <1>3, <1>4, <1>5 DEF SandboxSound

LEMMA ManagerIsSound ==
    ASSUME ReferencesAreReal, NEW ad \in AdapterDecisions,
           NEW e \in Receipts("ExternalSecretManager", ad), NEW config, NEW contract, NEW at,
           NEW d, d = VerifySecretManager(Start.credentials[1], Start.hardening, ad, e,
                                          config, contract, at),
           d.decision = "Verified"
    PROVE  ManagerSound(d)
  <1> DEFINE h == Start.hardening
             c == Start.credentials[1]
             more == {c.credential_id, c.external_secret_ref, e.external_secret_ref,
                      e.rotation_policy_ref}
  <1>1. /\ d.decision_id = ExpectedSecretManagerId(d)
        /\ d.tenant_id = c.tenant_id /\ d.credential_id = c.credential_id
        /\ d.external_secret_ref = c.external_secret_ref
        /\ d.provider_ref = e.provider_ref /\ d.evidence_ref = e.evidence_id
        /\ d.evidence_refs = ComponentRefs(h, ad, e) \union more
        /\ e.external_secret_ref = c.external_secret_ref
        /\ c.material_policy = "ExecutorInjected"
        /\ ~IsPlaceholder(e.rotation_policy_ref)
        /\ ComponentVerifies(e, ad, "ExternalSecretManager", h.secret_manager_ref, at)
        /\ SatisfiesContract(ad, config, contract, "ExternalSecretManager", e.provider_ref, at)
    BY ManagerSays
  <1>2. /\ "ExternalSecretManager" \in DOMAIN NameFields
        /\ {"evidence_id", "provider_ref"} \subseteq NameFields["ExternalSecretManager"]
        /\ "rotation_policy_ref" \in NameFields["ExternalSecretManager"]
    BY DEF NameFields
  <1>3. /\ Verifies(ad, "ExternalSecretManager", h.secret_manager_ref)
        /\ e.provider_ref = h.secret_manager_ref /\ ~IsPlaceholder(h.secret_manager_ref)
        /\ \A ref \in ComponentRefs(h, ad, e) : Clean(ref, ad)
    BY <1>1, <1>2, ComponentIsSound
  <1>4. Clean(e.rotation_policy_ref, ad)
    BY <1>1, <1>2, ReceiptNames, OwnIsClean
  <1>5. Clean(c.credential_id, ad) /\ Clean(c.external_secret_ref, ad)
    BY FoundationsAre, FoundationsAreClean
  <1>6. RestsCleanly(d, ad)
    BY <1>1, <1>3, <1>4, <1>5 DEF RestsCleanly
  <1>7. Backing(d, "ExternalSecretManager", d.provider_ref)
    BY <1>1, <1>3, <1>6 DEF Backing
  <1>8. e.evidence_id \in ComponentRefs(h, ad, e)
    BY DEF ComponentRefs
  <1>9. QED
    BY <1>1, <1>3, <1>7, <1>8 DEF ManagerSound

LEMMA VerifierIsSound ==
    ASSUME ReferencesAreReal, NEW ad \in AdapterDecisions,
           NEW e \in Receipts("CryptographicVerifier", ad), NEW sd \in SignatureDecisions,
           NEW root \in Members(Records), NEW config, NEW contract, NEW at,
           NEW d, d = VerifyVerifier(Start.hardening, sd, root, ad, e, config, contract, at),
           d.decision = "Verified"
    PROVE  VerifierSound(d)
  <1> DEFINE h == Start.hardening
             provider == h.cryptographic_verifier_ref
             more == {sd.decision_id, root.record_id, root.trust_root_hash}
  <1>1. /\ d.decision_id = ExpectedVerifierId(d)
        /\ d.signature_decision_ref = sd.decision_id
        /\ d.trust_root_record_ref = root.record_id
        /\ d.provider_ref = e.provider_ref /\ d.evidence_ref = e.evidence_id
        /\ d.evidence_refs = UNION {ComponentRefs(h, ad, e), sd.evidence_refs,
                                    root.evidence_refs, more}
        /\ sd.tenant_id = h.tenant_id
        /\ ValidSignatureDecision(sd) /\ TrustRootLoads(root)
        /\ sd.decision = "Verified" /\ sd.can_issue_high_risk_ticket
        /\ ComponentVerifies(e, ad, "CryptographicVerifier", provider, at)
        /\ SatisfiesContract(ad, config, contract, "CryptographicVerifier", e.provider_ref, at)
    BY VerifierSays
  <1>2. /\ "CryptographicVerifier" \in DOMAIN NameFields
        /\ {"evidence_id", "provider_ref"} \subseteq NameFields["CryptographicVerifier"]
    BY DEF NameFields
  <1>3. /\ Verifies(ad, "CryptographicVerifier", provider) /\ e.provider_ref = provider
        /\ ~IsPlaceholder(provider)
        /\ \A ref \in ComponentRefs(h, ad, e) : Clean(ref, ad)
    BY <1>1, <1>2, ComponentIsSound
  <1>4. Clean(sd.decision_id, ad)
    <2>1. sd.decision_id = ExpectedSignatureId(sd)
      BY <1>1 DEF ValidSignatureDecision
    <2>2. QED
      BY <2>1, HashIsClean DEF ExpectedSignatureId, StableId, AdapterPrefix
  <1>5. Clean(root.trust_root_hash, ad)
    <2>1. root.trust_root_hash = TrustRootHash(root.trust_root)
      BY <1>1 DEF TrustRootLoads
    <2>2. QED
      BY <2>1, HashIsClean DEF TrustRootHash, HashOf, AdapterPrefix
  <1>6. \A ref \in sd.evidence_refs \union root.evidence_refs \union {root.record_id} :
           Clean(ref, ad)
    BY FoundationsAre, FoundationsAreClean
  <1>7. RestsCleanly(d, ad)
    BY <1>1, <1>3, <1>4, <1>5, <1>6 DEF RestsCleanly
  <1>8. Backing(d, "CryptographicVerifier", d.provider_ref)
    BY <1>1, <1>3, <1>7 DEF Backing
  <1>9. {d.evidence_ref, d.signature_decision_ref, d.trust_root_record_ref} \subseteq d.evidence_refs
    BY <1>1 DEF ComponentRefs
  <1>10. QED
    BY <1>1, <1>3, <1>8, <1>9 DEF VerifierSound

LEMMA InjectionIsSound ==
    ASSUME ReferencesAreReal, NEW ad \in AdapterDecisions,
           NEW e \in Receipts("SecretInjection", ad), NEW used \in SecretUses,
           NEW config, NEW contract, NEW at,
           NEW d, d = VerifyInjection(Start.credentials[1], used, Start.hardening, ad, e,
                                      config, contract, at),
           d.decision = "Verified"
    PROVE  InjectionSound(d)
  <1> DEFINE h == Start.hardening
             c == Start.credentials[1]
             provider == h.secret_injection_profile_ref
             more == {c.credential_id, used.decision_id, e.injection_receipt_ref,
                      e.run_id, e.sandbox_profile_ref}
  <1>1. /\ d.decision_id = ExpectedInjectionId(d)
        /\ d.credential_id = c.credential_id
        /\ d.secret_use_decision_id = used.decision_id
        /\ d.evidence_ref = e.evidence_id
        /\ d.adapter_decision_ref = e.adapter_decision_ref
        /\ d.injection_receipt_ref = e.injection_receipt_ref
        /\ d.provider_ref = e.provider_ref /\ d.sandbox_profile_ref = e.sandbox_profile_ref
        /\ d.evidence_refs = UNION {ComponentRefs(h, ad, e), used.evidence_refs, more}
        /\ used.decision_id = ExpectedSecretUseId(used)
        /\ e.sandbox_profile_ref = h.hardened_sandbox_profile_ref
        /\ ~AnyPlaceholder({e.injection_receipt_ref, e.run_id, e.sandbox_profile_ref})
        /\ ComponentVerifies(e, ad, "SecretInjection", provider, at)
        /\ SatisfiesContract(ad, config, contract, "SecretInjection", e.provider_ref, at)
    <2>1. InjectionIs(c, used, h, ad, e, config, contract, at, d)
      BY InjectionSays
    <2>2. QED
      BY <2>1 DEF InjectionIs
  <1>2. /\ "SecretInjection" \in DOMAIN NameFields
        /\ {"evidence_id", "provider_ref"} \subseteq NameFields["SecretInjection"]
        /\ {"injection_receipt_ref", "run_id", "sandbox_profile_ref"}
              \subseteq NameFields["SecretInjection"]
    BY DEF NameFields
  <1>3. /\ Verifies(ad, "SecretInjection", provider) /\ e.provider_ref = provider
        /\ ~IsPlaceholder(provider)
        /\ \A ref \in ComponentRefs(h, ad, e) : Clean(ref, ad)
    BY <1>1, <1>2, ComponentIsSound
  <1>4. \A ref \in {e.injection_receipt_ref, e.run_id, e.sandbox_profile_ref} :
           OwnName(ref) /\ ~IsPlaceholder(ref)
    BY <1>1, <1>2, ReceiptNames DEF AnyPlaceholder
  <1>5. Clean(used.decision_id, ad)
    BY <1>1, HashIsClean DEF ExpectedSecretUseId, StableId, AdapterPrefix
  <1>6. \A ref \in used.evidence_refs \union {c.credential_id} : Clean(ref, ad)
    BY FoundationsAre, FoundationsAreClean
  <1>7. \A ref \in more : Clean(ref, ad)
    BY <1>4, <1>5, <1>6, OwnIsClean
  <1>8. RestsCleanly(d, ad)
    BY <1>1, <1>3, <1>6, <1>7 DEF RestsCleanly
  <1>9. Backing(d, "SecretInjection", d.provider_ref)
    BY <1>1, <1>3, <1>8 DEF Backing
  <1>10. {d.evidence_ref, d.adapter_decision_ref, d.injection_receipt_ref,
          d.secret_use_decision_id, d.provider_ref, d.sandbox_profile_ref,
          c.credential_id} \subseteq d.evidence_refs
    BY <1>1 DEF ComponentRefs
  <1>11. QED
    BY <1>1, <1>3, <1>9, <1>10 DEF InjectionSound

\* With the adapter decision the rotation was given.
LEMMA BackedRotationIsSound ==
    ASSUME ReferencesAreReal, NEW ad \in AdapterDecisions, NEW config, NEW contract, NEW at,
           NEW d, d = VerifyRotationWithContract(Start.credentials[1], Start.hardening, ad,
                                                 config, contract, at),
           d.decision = "Verified"
    PROVE  RotationSound(d)
  <1> DEFINE h == Start.hardening
             c == Start.credentials[1]
             verdict == Backed(Verdict(RotationVerifies(c, h, ad)), ad, config, contract,
                               "RotationEnforcement", h.rotation_policy_ref, at)
  <1>1. d = RotationDecision(c, h, ad, verdict, at)
    BY DEF VerifyRotationWithContract
  <1> HIDE DEF verdict
  <1>2. /\ d.decision_id = ExpectedRotationId(d) /\ d.decision = verdict
        /\ d.credential_id = c.credential_id
        /\ d.hardening_evidence_ref = HardeningHash(h)
        /\ d.rotation_ref = c.rotation_ref /\ d.rotation_policy_ref = h.rotation_policy_ref
        /\ d.adapter_decision_ref = ad.decision_id
        /\ d.evidence_refs =
              UNION {{c.credential_id, HardeningHash(h)}, h.evidence_refs,
                     Given({c.rotation_ref, h.rotation_policy_ref, ad.decision_id}),
                     IF ad = NoAdapter THEN {} ELSE ad.evidence_refs}
        /\ d.expires_at = IF c.expires_at = Never THEN at + RotationWindow ELSE c.expires_at
    <2>1. RotationIs(c, h, ad, verdict, at, d)
      BY <1>1, RotationSays
    <2>2. QED
      BY <2>1 DEF RotationIs
  <1>3. /\ RotationVerifies(c, h, ad)
        /\ SatisfiesContract(ad, config, contract, "RotationEnforcement",
                             h.rotation_policy_ref, at)
    BY <1>2 DEF verdict, Backed, Verdict
  <1>4. /\ Verifies(ad, "RotationEnforcement", h.rotation_policy_ref)
        /\ RestsCleanly(ad, ad) /\ Clean(ad.decision_id, ad)
    BY <1>3, AdapterIsSound
  <1>5. ad.decision_id # NoRef
    BY <1>4, AdapterIdPrefix DEF Verifies
  <1>6. Clean(HardeningHash(h), ad)
    BY HashIsClean DEF HardeningHash, HashOf, AdapterPrefix
  <1>7. \A ref \in h.evidence_refs \union {c.credential_id} : Clean(ref, ad)
    BY FoundationsAre, FoundationsAreClean
  <1>8. /\ Configured(c.rotation_ref) /\ Configured(h.rotation_policy_ref)
        /\ h.evidence_refs # {}
    BY <1>3 DEF RotationVerifies
  <1>9. \A ref \in d.evidence_refs : ~IsPlaceholder(ref)
    BY <1>2, <1>4, <1>6, <1>7, <1>8 DEF Clean, RestsCleanly, Configured, Given
  <1>10. {HardeningHash(h), c.credential_id, ad.decision_id} \subseteq d.evidence_refs
    BY <1>2, <1>5 DEF Given
  <1>11. QED
    BY <1>2, <1>4, <1>8, <1>9, <1>10 DEF RotationSound

LEMMA BareRotationIsSound ==
    ASSUME ReferencesAreReal, NEW at,
           NEW d, d = VerifyRotation(Start.credentials[1], Start.hardening, NoAdapter, at),
           d.decision = "Verified"
    PROVE  RotationSound(d)
  <1> DEFINE h == Start.hardening
             c == Start.credentials[1]
             verdict == Verdict(RotationVerifies(c, h, NoAdapter))
  <1>1. d = RotationDecision(c, h, NoAdapter, verdict, at)
    BY DEF VerifyRotation
  <1> HIDE DEF verdict
  <1>2. /\ d.decision_id = ExpectedRotationId(d) /\ d.decision = verdict
        /\ d.credential_id = c.credential_id
        /\ d.hardening_evidence_ref = HardeningHash(h)
        /\ d.rotation_ref = c.rotation_ref /\ d.rotation_policy_ref = h.rotation_policy_ref
        /\ d.adapter_decision_ref = NoAdapter.decision_id
        /\ d.evidence_refs =
              UNION {{c.credential_id, HardeningHash(h)}, h.evidence_refs,
                     Given({c.rotation_ref, h.rotation_policy_ref, NoAdapter.decision_id}),
                     IF NoAdapter = NoAdapter THEN {} ELSE NoAdapter.evidence_refs}
        /\ d.expires_at = IF c.expires_at = Never THEN at + RotationWindow ELSE c.expires_at
    <2>1. RotationIs(c, h, NoAdapter, verdict, at, d)
      BY <1>1, RotationSays
    <2>2. QED
      BY <2>1 DEF RotationIs
  <1>3. RotationVerifies(c, h, NoAdapter)
    BY <1>2 DEF verdict, Verdict
  <1>4. /\ Configured(c.rotation_ref) /\ Configured(h.rotation_policy_ref)
        /\ h.evidence_refs # {}
    BY <1>3 DEF RotationVerifies
  <1>5. d.adapter_decision_ref = NoRef
    BY <1>2 DEF NoAdapter
  <1>6. ~IsPlaceholder(HardeningHash(h))
    BY PairsAreReal DEF HardeningHash, HashOf
  <1>7. \A ref \in h.evidence_refs \union {c.credential_id} : ~IsPlaceholder(ref)
    BY FoundationsAre DEF ReferencesAreReal
  <1>8. \A ref \in d.evidence_refs : ~IsPlaceholder(ref)
    BY <1>2, <1>4, <1>5, <1>6, <1>7 DEF Configured, Given
  <1>9. QED
    BY <1>2, <1>4, <1>5, <1>8 DEF RotationSound

\* A receipt is not refused before its time, and holds for a while.
LEMMA WindowIsOpen ==
    ASSUME NEW from, NEW until \in Nat, NEW at \in Nat, ~BadWindow(from, until, at)
    PROVE  at < until
  BY DEF BadWindow, Expired

LEMMA TimesAre ==
    ASSUME NEW at \in Times
    PROVE  at \in Nat /\ at <= MaxAge
  BY ClockAssumption DEF Times

\* The references of a delivery other than those of the adapter.
LEMMA DeliveryNames ==
    ASSUME ReferencesAreReal, NEW ad \in AdapterDecisions,
           NEW e \in Receipts("ComplianceAuditExport", ad), NEW b \in Exports, NEW at,
           NEW other, DeliveryVerifies(b, e, other, at),
           NEW ref \in {b.bundle_id, b.bundle_hash, b.tenant_policy_record_ref,
                        b.tenant_policy_hash, e.evidence_id, e.delivery_ref,
                        e.storage_provider_ref} \union e.refs \union KeptRefs(b)
    PROVE  ref[1] \notin {AdapterPrefix, ConfigPrefix} /\ Clean(ref, ad)
  <1>1. /\ "ComplianceAuditExport" \in DOMAIN NameFields
        /\ {"evidence_id", "storage_provider_ref", "delivery_ref"}
              \subseteq NameFields["ComplianceAuditExport"]
    BY DEF NameFields
  <1>2. \A r \in e.refs \union {e.evidence_id, e.storage_provider_ref, e.delivery_ref} : OwnName(r)
    BY <1>1, ReceiptNames
  <1>3. \A r \in e.refs \union {e.evidence_id, e.storage_provider_ref, e.delivery_ref} :
           ~IsPlaceholder(r)
    BY DEF DeliveryVerifies, AnyPlaceholder
  <1>4. \A r \in {b.tenant_policy_record_ref, b.tenant_policy_hash} \union KeptRefs(b) :
           OwnName(r) /\ ~IsPlaceholder(r)
    BY FoundationsAre DEF ReferencesAreReal
  <1>5. CASE ref \in {b.bundle_id, b.bundle_hash}
    <2>1. b.bundle_hash = ComplianceHash(b) /\ b.bundle_id = ComplianceId(b)
      BY DEF DeliveryVerifies, ValidComplianceBundle
    <2>2. \E content : ref = <<"compliance_export_bundle_hash", content>>
                       \/ ref = <<"compliance_export_bundle", content>>
      BY <1>5, <2>1, Zenon DEF ComplianceHash, ComplianceId, StableId
    <2>3. QED
      BY <2>2, PairsAreReal, HashIsClean DEF AdapterPrefix, ConfigPrefix
  <1>6. QED
    BY <1>2, <1>3, <1>4, <1>5, OwnIsClean DEF OwnName

LEMMA DeliveryIsSound ==
    ASSUME ReferencesAreReal, NEW ad \in AdapterDecisions,
           NEW e \in Receipts("ComplianceAuditExport", ad), NEW b \in Exports,
           NEW config, NEW contract, NEW at \in Times,
           NEW d, d.decision = "Verified",
           \/ d = VerifyDeliveryWithContract(b, e, ad, config, contract, at)
           \/ d = VerifyDelivery(b, e, NoAdapter, at)
    PROVE  DeliverySound(d)
  <1> DEFINE own == {b.bundle_id, b.bundle_hash, b.tenant_policy_record_ref,
                     b.tenant_policy_hash, e.evidence_id, e.delivery_ref,
                     e.storage_provider_ref} \union e.refs \union KeptRefs(b)
  <1>1. ASSUME d = VerifyDelivery(b, e, NoAdapter, at) PROVE Unbacked(d)
    <2> DEFINE verdict == IF DeliveryVerifies(b, e, NoAdapter, at) THEN "Verified" ELSE "Rejected"
    <2>1. d = DeliveryDecision(b, e, NoAdapter, verdict, at)
      BY <1>1 DEF VerifyDelivery
    <2> HIDE DEF verdict
    <2>2. DeliveryIs(b, e, NoAdapter, verdict, at, d)
      BY <2>1, DeliverySays
    <2>3. DeliveryVerifies(b, e, NoAdapter, at)
      BY <2>2 DEF DeliveryIs, verdict
    <2>4. d.evidence_refs \subseteq own \union {e.adapter_decision_ref}
      BY <2>2 DEF DeliveryIs, Given
    <2>5. \A ref \in own : ref[1] \notin {AdapterPrefix, ConfigPrefix}
      BY <2>3, DeliveryNames
    <2> HIDE DEF own
    <2>6. \A ref \in d.evidence_refs :
             ref[1] \in {AdapterPrefix, ConfigPrefix} => ref = e.adapter_decision_ref
      BY <2>4, <2>5
    <2>7. QED
      BY <2>6, Zenon DEF Unbacked
  <1>2. ASSUME d = VerifyDeliveryWithContract(b, e, ad, config, contract, at)
        PROVE  ValidDelivery(d) /\ Backing(d, "ComplianceAuditExport", d.storage_provider_ref)
    <2> DEFINE ok == /\ DeliveryVerifies(b, e, ad, at)
                     /\ SatisfiesContract(ad, config, contract, "ComplianceAuditExport",
                                          e.storage_provider_ref, at)
               verdict == IF ok THEN "Verified" ELSE "Rejected"
    <2>1. d = DeliveryDecision(b, e, ad, verdict, at)
      BY <1>2 DEF VerifyDeliveryWithContract
    <2> HIDE DEF verdict
    <2>2. DeliveryIs(b, e, ad, verdict, at, d)
      BY <2>1, DeliverySays
    <2>3. ok
      BY <2>2 DEF DeliveryIs, verdict
    <2>4. /\ Verifies(ad, "ComplianceAuditExport", e.storage_provider_ref)
          /\ RestsCleanly(ad, ad) /\ Clean(ad.decision_id, ad)
      BY <2>3, AdapterIsSound
    <2>5. ad.decision_id # NoRef /\ ad # NoAdapter
      BY <2>4, AdapterIdPrefix DEF Verifies, NoAdapter
    <2>6. /\ e.adapter_decision_ref = ad.decision_id
          /\ ~BadWindow(e.delivered_at, e.expires_at, at)
      BY <2>3, <2>5 DEF DeliveryVerifies
    <2>7. \A ref \in own : Clean(ref, ad)
      BY <2>3, DeliveryNames
    <2>8. d.evidence_refs = own \union {ad.decision_id} \union ad.evidence_refs
      BY <2>2, <2>5, <2>6 DEF DeliveryIs, Given
    <2>9. RestsCleanly(d, ad)
      <3> HIDE DEF own
      <3>1. QED
        BY <2>4, <2>7, <2>8 DEF RestsCleanly
    <2>10. d.storage_provider_ref = e.storage_provider_ref
      BY <2>2 DEF DeliveryIs
    <2>11. Backing(d, "ComplianceAuditExport", d.storage_provider_ref)
      BY <2>4, <2>9, <2>10 DEF Backing
    <2>12. d.verified_at < d.expires_at
      <3>1. e.expires_at \in Nat
        BY ReceiptNames DEF NameFields
      <3>2. at < e.expires_at
        BY <2>6, <3>1, TimesAre, WindowIsOpen
      <3>3. QED
        BY <2>2, <3>2 DEF DeliveryIs
    <2>13. /\ d.adapter_decision_ref # NoRef
           /\ {d.bundle_id, d.bundle_hash, d.tenant_policy_hash, d.delivery_evidence_ref,
               d.delivery_ref, d.storage_provider_ref, d.adapter_decision_ref}
                 \subseteq d.evidence_refs
           /\ d.decision_id = ExpectedDeliveryId(d)
      BY <2>2, <2>5, <2>6, <2>8 DEF DeliveryIs
    <2>14. Given({d.production_readiness_evidence_hash}) \subseteq d.evidence_refs
      BY <2>2, <2>8 DEF DeliveryIs, KeptRefs, Given
    <2>15. ~AnyPlaceholder(d.evidence_refs)
      BY <2>9 DEF RestsCleanly, Clean, AnyPlaceholder
    <2>16. ValidDelivery(d)
      BY <2>12, <2>13, <2>14, <2>15 DEF ValidDelivery
    <2>17. QED
      BY <2>11, <2>16
  <1>3. QED
    BY <1>1, <1>2 DEF DeliverySound

LEMMA StorageNames ==
    ASSUME ReferencesAreReal, NEW ad \in AdapterDecisions,
           NEW e \in Receipts("ExecutorTrustRoots", ad), NEW root \in Members(Records), NEW at,
           StorageVerifies(root, e, at),
           NEW ref \in UNION {root.evidence_refs, e.refs,
                              {root.record_id, root.trust_root_hash, e.evidence_id,
                               e.storage_provider_ref}}
    PROVE  ref[1] \notin {AdapterPrefix, ConfigPrefix} /\ Clean(ref, ad)
  <1>1. /\ "ExecutorTrustRoots" \in DOMAIN NameFields
        /\ {"evidence_id", "storage_provider_ref"} \subseteq NameFields["ExecutorTrustRoots"]
    BY DEF NameFields
  <1>2. \A r \in e.refs \union {e.evidence_id, e.storage_provider_ref} : OwnName(r)
    BY <1>1, ReceiptNames
  <1>3. \A r \in e.refs \union {e.evidence_id, e.storage_provider_ref} : ~IsPlaceholder(r)
    BY DEF StorageVerifies, AnyPlaceholder
  <1>4. \A r \in root.evidence_refs \union {root.record_id} : OwnName(r) /\ ~IsPlaceholder(r)
    BY FoundationsAre DEF ReferencesAreReal
  <1>5. CASE ref = root.trust_root_hash
    <2>1. ref = <<"trust_root_hash", root.trust_root>>
      BY <1>5 DEF StorageVerifies, TrustRootLoads, TrustRootHash, HashOf
    <2>2. QED
      BY <2>1, PairsAreReal, HashIsClean DEF AdapterPrefix, ConfigPrefix
  <1>6. QED
    BY <1>2, <1>3, <1>4, <1>5, OwnIsClean DEF OwnName

LEMMA StorageIsSound ==
    ASSUME ReferencesAreReal, NEW ad \in AdapterDecisions,
           NEW e \in Receipts("ExecutorTrustRoots", ad), NEW root \in Members(Records),
           NEW config, NEW contract, NEW at \in Times,
           NEW d, d.decision = "Verified",
           \/ d = VerifyTrustRootStorageWithContract(root, e, ad, config, contract, at)
           \/ d = VerifyTrustRootStorage(root, e, at)
    PROVE  StorageSound(d)
  <1> DEFINE own == UNION {root.evidence_refs, e.refs,
                           {root.record_id, root.trust_root_hash, e.evidence_id,
                            e.storage_provider_ref}}
  <1>1. ASSUME d = VerifyTrustRootStorage(root, e, at) PROVE Unbacked(d)
    <2> DEFINE verdict == IF StorageVerifies(root, e, at) THEN "Verified" ELSE "Rejected"
    <2>1. d = StorageDecision(root, e, {}, verdict, at)
      BY <1>1 DEF VerifyTrustRootStorage
    <2> HIDE DEF verdict
    <2>2. StorageIs(root, e, {}, verdict, at, d)
      BY <2>1, StorageSays
    <2>3. StorageVerifies(root, e, at)
      BY <2>2 DEF StorageIs, verdict
    <2>4. d.evidence_refs = own
      BY <2>2 DEF StorageIs
    <2>5. \A ref \in own : ref[1] \notin {AdapterPrefix, ConfigPrefix}
      BY <2>3, StorageNames
    <2>6. QED
      BY <2>4, <2>5, Zenon DEF Unbacked
  <1>2. ASSUME d = VerifyTrustRootStorageWithContract(root, e, ad, config, contract, at)
        PROVE  /\ d.decision_id = ExpectedStorageId(d)
               /\ d.verified_at < d.expires_at
               /\ {d.record_id, d.trust_root_hash, d.storage_evidence_ref, d.storage_provider_ref}
                     \subseteq d.evidence_refs
               /\ Backing(d, "ExecutorTrustRoots", d.storage_provider_ref)
    <2> DEFINE backing == {ad.decision_id} \union ad.evidence_refs
               ok == /\ StorageVerifies(root, e, at)
                     /\ SatisfiesContract(ad, config, contract, "ExecutorTrustRoots",
                                          e.storage_provider_ref, at)
               verdict == IF ok THEN "Verified" ELSE "Rejected"
    <2>1. d = StorageDecision(root, e, backing, verdict, at)
      BY <1>2 DEF VerifyTrustRootStorageWithContract
    <2> HIDE DEF verdict, backing
    <2>2. StorageIs(root, e, backing, verdict, at, d)
      BY <2>1, StorageSays
    <2>3. ok
      BY <2>2 DEF StorageIs, verdict
    <2>4. /\ Verifies(ad, "ExecutorTrustRoots", e.storage_provider_ref)
          /\ RestsCleanly(ad, ad) /\ Clean(ad.decision_id, ad)
      BY <2>3, AdapterIsSound
    <2>5. ~BadWindow(e.stored_at, e.expires_at, at)
      BY <2>3 DEF StorageVerifies
    <2>6. \A ref \in own : Clean(ref, ad)
      BY <2>3, StorageNames
    <2>7. d.evidence_refs = own \union backing
      BY <2>2 DEF StorageIs
    <2>8. RestsCleanly(d, ad)
      <3> HIDE DEF own
      <3>1. QED
        BY <2>4, <2>6, <2>7 DEF RestsCleanly, backing
    <2>9. d.storage_provider_ref = e.storage_provider_ref /\ d.decision_id = ExpectedStorageId(d)
      BY <2>2 DEF StorageIs
    <2>10. Backing(d, "ExecutorTrustRoots", d.storage_provider_ref)
      BY <2>4, <2>8, <2>9 DEF Backing
    <2>11. d.verified_at < d.expires_at
      <3>1. e.expires_at \in Nat
        BY ReceiptNames DEF NameFields
      <3>2. at < e.expires_at
        BY <2>5, <3>1, TimesAre, WindowIsOpen
      <3>3. QED
        BY <2>2, <3>2 DEF StorageIs
    <2>12. {d.record_id, d.trust_root_hash, d.storage_evidence_ref, d.storage_provider_ref}
              \subseteq d.evidence_refs
      BY <2>2, <2>7 DEF StorageIs
    <2>13. QED
      BY <2>9, <2>10, <2>11, <2>12
  <1>3. QED
    BY <1>1, <1>2 DEF StorageSound

\* Every verified decision of the vault.
LEMMA IssuedIsSound ==
    ASSUME ReferencesAreReal, NEW component \in Components, NEW d,
           FromTheVault(component, d), d.decision = "Verified"
    PROVE  Sound(component, d)
  <1>a. CASE component = "rotations" /\ \E at \in Times :
                d = VerifyRotation(Start.credentials[1], Start.hardening, NoAdapter, at)
    BY <1>a, BareRotationIsSound DEF Sound
  <1>b. CASE \E ad \in AdapterDecisions, at \in Times : IssuedFor(component, d, ad, at)
    <2>1. PICK ad \in AdapterDecisions, at \in Times : IssuedFor(component, d, ad, at)
      BY <1>b
    <2>2. CASE component = "auth"
      BY <2>1, <2>2, AuthIsSound DEF IssuedFor, Sound
    <2>3. CASE component = "managers"
      BY <2>1, <2>3, ManagerIsSound DEF IssuedFor, Sound
    <2>4. CASE component = "verifiers"
      BY <2>1, <2>4, VerifierIsSound DEF IssuedFor, Sound
    <2>5. CASE component = "sandboxes"
      BY <2>1, <2>5, SandboxIsSound DEF IssuedFor, Sound
    <2>6. CASE component = "rotations"
      BY <2>1, <2>6, BackedRotationIsSound DEF IssuedFor, Sound
    <2>7. CASE component = "injections"
      BY <2>1, <2>7, InjectionIsSound DEF IssuedFor, Sound
    <2>8. CASE component = "deliveries"
      BY <2>1, <2>8, DeliveryIsSound DEF IssuedFor, Sound
    <2>9. CASE component = "storages"
      BY <2>1, <2>9, StorageIsSound DEF IssuedFor, Sound
    <2>10. QED
      BY <2>2, <2>3, <2>4, <2>5, <2>6, <2>7, <2>8, <2>9 DEF Components
  <1>c. QED
    BY <1>a, <1>b DEF FromTheVault

-----------------------------------------------------------------------------
(* The set while the operator works on it: everything that was not edited   *)
(* comes from the vault or from another tenant.                             *)

\* One adapter decision for each piece of evidence, of the kinds there were.
AdaptersKept(evidence, ads) ==
    /\ evidence \in Seq(Attested) /\ Len(evidence) = Len(Start.evidence)
    /\ ads \in Seq(AdapterDecisions) /\ Len(ads) = Len(Start.evidence)
    /\ \A i \in DOMAIN ads : /\ ads[i] \in AdapterIssues(evidence[i])
                             /\ evidence[i].kind = Start.evidence[i].kind

NotForged(component, ds) ==
    \A d \in Members(ds) : FromTheVault(component, d) \/ d.tenant_id # Start.policy.tenant_id

OfTheTenant(s, e) ==
    /\ DOMAIN s = DOMAIN Start
    /\ s.policy = Start.policy /\ s.credentials = Start.credentials
    /\ s.hardening = Start.hardening
    /\ AdaptersKept(s.evidence, s.adapters)
    /\ \E sd \in SignatureDecisions : s.signatures = <<sd>>
    /\ \A component \in Components \ e : NotForged(component, s[component])

\* Where the set under review comes from: the tenant is the one it was issued
\* to, its adapters are made of its evidence, and what was not edited is a
\* decision of the vault or belongs to another tenant.  Of a set that lists a
\* credential twice nothing is said: it is not whole.
SetInv ==
    /\ focus \in {"hardening", "review"}
    /\ focus = "review" => set = NoDecisions
    /\ focus = "hardening" =>
          /\ now \in Times
          /\ DOMAIN set = DOMAIN Start
          /\ set.credentials = Start.credentials => OfTheTenant(set, edited)

LEMMA AdaptersStart == StartIsIssued => AdaptersKept(Start.evidence, Start.adapters)
  <1> SUFFICES ASSUME StartIsIssued PROVE AdaptersKept(Start.evidence, Start.adapters)
    OBVIOUS
  <1>1. /\ Start.evidence \in Seq(Members(Start.evidence))
        /\ Start.adapters \in Seq(Members(Start.adapters))
        /\ Len(Start.evidence) = Len(Start.adapters)
        /\ \A i \in DOMAIN Start.adapters : Start.adapters[i] \in AdapterIssues(Start.evidence[i])
    BY DEF StartIsIssued
  <1>2. \A i \in DOMAIN Start.evidence : Start.evidence[i] \in Attested
    BY DEF Attested, Members
  <1>3. Start.evidence \in Seq(Attested)
    BY <1>1, <1>2
  <1>4. \A i \in DOMAIN Start.adapters : Start.adapters[i] \in AdapterDecisions
    BY <1>1, <1>2 DEF AdapterDecisions
  <1>5. Start.adapters \in Seq(AdapterDecisions)
    BY <1>1, <1>4
  <1>6. QED
    BY <1>1, <1>3, <1>5 DEF AdaptersKept

LEMMA SetInit == StartIsIssued /\ Init => SetInv
  <1> SUFFICES ASSUME StartIsIssued, Init PROVE SetInv
    OBVIOUS
  <1>1. /\ focus \in {"hardening", "review"} /\ now = 0
        /\ focus = "hardening" => set = Start
        /\ focus = "review" => set = NoDecisions
    BY DEF Init, ReadinessInit
  <1>2. 0 \in Times
    BY ClockAssumption DEF Times
  <1>3. OfTheTenant(Start, edited)
    <2>1. AdaptersKept(Start.evidence, Start.adapters)
      BY AdaptersStart
    <2>2. Start.signatures = <<Start.signatures[1]>> /\ Start.signatures[1] \in SignatureDecisions
      BY DEF StartIsIssued, SignatureDecisions, Members
    <2>3. \A component \in Components : NotForged(component, Start[component])
      BY DEF StartIsIssued, NotForged
    <2>4. QED
      BY <2>1, <2>2, <2>3, Zenon DEF OfTheTenant
  <1>4. QED
    BY <1>1, <1>2, <1>3 DEF SetInv

\* A component gets another list of decisions.
LEMMA ComponentReplaced ==
    ASSUME OfTheTenant(set, edited), NEW component \in Components, NEW ds,
           set' = [set EXCEPT ![component] = ds],
           \/ edited' = edited \ {component} /\ NotForged(component, ds)
           \/ edited' = edited \union {component}
    PROVE  OfTheTenant(set', edited')
  <1>1. {"policy", "credentials", "hardening", "evidence", "adapters", "signatures"}
           \intersect Components = {}
    BY DEF Components
  <1>2. /\ DOMAIN set' = DOMAIN set /\ set'.policy = set.policy
        /\ set'.credentials = set.credentials /\ set'.hardening = set.hardening
        /\ set'.evidence = set.evidence /\ set'.adapters = set.adapters
        /\ set'.signatures = set.signatures
        /\ component \in DOMAIN set => set'[component] = ds
        /\ \A other \in Components : other # component => set'[other] = set[other]
    BY <1>1
  <1>3. component \in DOMAIN set
    BY DecisionsAssumption DEF OfTheTenant
  <1>4. ASSUME NEW other \in Components \ edited' PROVE NotForged(other, set'[other])
    BY <1>2, <1>3 DEF OfTheTenant
  <1>5. QED
    BY <1>2, <1>4 DEF OfTheTenant

LEMMA PutIsIssued ==
    ASSUME OfTheTenant(set, edited), NEW component \in Components, NEW d,
           FromTheVault(component, d), Put(component, d)
    PROVE  OfTheTenant(set', edited')
  <1>1. set' = [set EXCEPT ![component] = <<d>>] /\ edited' = edited \ {component}
    BY DEF Put
  <1>2. NotForged(component, <<d>>)
    <2>1. Members(<<d>>) = {d}
      BY DEF Members
    <2>2. QED
      BY <2>1 DEF NotForged
  <1>3. QED
    BY <1>1, <1>2, ComponentReplaced

LEMMA MisplacedIsForeign ==
    ASSUME StartIsIssued, OfTheTenant(set, edited), NEW component \in Components,
           Misplace(component)
    PROVE  OfTheTenant(set', edited')
  <1>1. PICK ds \in {<< >>, Foreign[component]} : set' = [set EXCEPT ![component] = ds]
    BY DEF Misplace
  <1>2. edited' = edited \ {component}
    BY DEF Misplace
  <1>3. NotForged(component, ds)
    BY DEF NotForged, Members, StartIsIssued
  <1>4. QED
    BY <1>1, <1>2, <1>3, ComponentReplaced

LEMMA EditIsMarked ==
    ASSUME OfTheTenant(set, edited), NEW component \in Components, EditVerdict(component)
    PROVE  OfTheTenant(set', edited')
  <1> DEFINE after == [set[component] EXCEPT ![1].decision = "Verified"]
  <1>1. set' = [set EXCEPT ![component] = after] /\ edited' = edited \union {component}
    BY DEF EditVerdict
  <1> HIDE DEF after
  <1>2. QED
    BY <1>1, ComponentReplaced

LEMMA AdapterReverified ==
    ASSUME OfTheTenant(set, edited), now \in Times, NEW i \in DOMAIN set.adapters,
           ReverifyAdapter(i)
    PROVE  OfTheTenant(set', edited')
  <1>1. PICK e \in Attestations :
           /\ e.kind = set.adapters[i].kind
           /\ set' = [set EXCEPT !.evidence[i] = e,
                                 !.adapters[i] = VerifyAdapterWithContract(
                                     e, Config[e.kind], Contract[e.kind], now)]
           /\ edited' = edited
    BY DEF ReverifyAdapter
  <1> DEFINE made == VerifyAdapterWithContract(e, Config[e.kind], Contract[e.kind], now)
             evidence == [set.evidence EXCEPT ![i] = e]
             ads == [set.adapters EXCEPT ![i] = made]
  <1>2. e \in Attested /\ made \in AdapterIssues(e)
    BY DEF Attested, AdapterIssues
  <1>3. made \in AdapterDecisions
    BY <1>2 DEF AdapterDecisions
  <1> HIDE DEF made
  <1>4. AdaptersKept(set.evidence, set.adapters)
    BY DEF OfTheTenant
  <1>5. e.kind = Start.evidence[i].kind
    <2>1. set.adapters[i] \in AdapterIssues(set.evidence[i]) /\ set.evidence[i].kind = Start.evidence[i].kind
      BY <1>4 DEF AdaptersKept
    <2>2. set.adapters[i]["kind"] = set.evidence[i]["kind"]
      BY <2>1, AdapterOrigin DEF AdapterBinding
    <2>3. QED
      BY <1>1, <2>1, <2>2
  <1>6. AdaptersKept(evidence, ads)
    BY <1>2, <1>3, <1>4, <1>5 DEF AdaptersKept
  <1>7. Components \union {"credentials", "evidence", "adapters", "signatures"} \subseteq DOMAIN set
    BY DecisionsAssumption DEF OfTheTenant
  <1>8. /\ DOMAIN set' = DOMAIN set /\ set'.policy = set.policy
        /\ set'.credentials = set.credentials /\ set'.hardening = set.hardening
        /\ set'.evidence = evidence /\ set'.adapters = ads
        /\ set'.signatures = set.signatures
        /\ \A component \in Components : set'[component] = set[component]
    BY <1>1, <1>7 DEF Components, made
  <1>9. QED
    BY <1>1, <1>6, <1>8 DEF OfTheTenant

LEMMA SignatureRenewed ==
    ASSUME OfTheTenant(set, edited), NEW s \in Signatures,
           NEW records \in RootLists, NEW risk \in TicketRisks,
           ResignExecutor(s, records, risk)
    PROVE  OfTheTenant(set', edited')
  <1> DEFINE sd == VerifySignatureWithRecords(s, records, risk)
  <1>1. set' = [set EXCEPT !.signatures = <<sd>>] /\ edited' = edited
    BY DEF ResignExecutor
  <1>2. sd \in SignatureDecisions
    BY DEF SignatureDecisions
  <1> HIDE DEF sd
  <1>3. Components \union {"credentials", "evidence", "adapters", "signatures"} \subseteq DOMAIN set
    BY DecisionsAssumption DEF OfTheTenant
  <1>4. /\ DOMAIN set' = DOMAIN set /\ set'.policy = set.policy
        /\ set'.credentials = set.credentials /\ set'.hardening = set.hardening
        /\ set'.evidence = set.evidence /\ set'.adapters = set.adapters
        /\ set'.signatures = <<sd>>
        /\ \A component \in Components : set'[component] = set[component]
    BY <1>1, <1>3 DEF Components
  <1>5. QED
    BY <1>1, <1>2, <1>4 DEF OfTheTenant

\* The vault issues what the operator asks it to verify again.
LEMMA ReverifiedIsIssued ==
    ASSUME OfTheTenant(set, edited), now \in Times,
           \/ ReverifyAuth \/ ReverifySecretManager \/ ReverifyVerifier \/ ReverifySandbox
           \/ ReverifyRotation \/ ReverifyInjection \/ ReverifyDelivery \/ ReverifyStorage
    PROVE  \E component \in Components : \E d : FromTheVault(component, d) /\ Put(component, d)
  <1> DEFINE Puts == \E component \in Components : \E d :
                        FromTheVault(component, d) /\ Put(component, d)
  <1>1. /\ Adapters \subseteq AdapterDecisions
        /\ set.hardening = Start.hardening /\ set.credentials[1] = Start.credentials[1]
        /\ set.signatures[1] \in SignatureDecisions
    BY DEF OfTheTenant, AdaptersKept, Adapters, Members
  <1>2. \A ad \in AdapterDecisions : \A component \in Components : \A d :
           IssuedFor(component, d, ad, now) /\ Put(component, d) => Puts
    BY Zenon DEF FromTheVault
  <1>a. \A d : /\ d = VerifyRotation(Start.credentials[1], Start.hardening, NoAdapter, now)
               /\ "rotations" \in Components /\ Put("rotations", d)
               => Puts
    BY Zenon DEF FromTheVault
  <1>c. /\ "auth" \in Components /\ "managers" \in Components /\ "verifiers" \in Components
        /\ "sandboxes" \in Components /\ "rotations" \in Components /\ "injections" \in Components
        /\ "deliveries" \in Components /\ "storages" \in Components
    BY DEF Components
  <1> HIDE DEF Puts
  <1>3. ReverifyAuth => Puts
    BY <1>1, <1>2, <1>c, Zenon DEF ReverifyAuth, IssuedFor
  <1>4. ReverifySecretManager => Puts
    BY <1>1, <1>2, <1>c, Zenon DEF ReverifySecretManager, IssuedFor
  <1>5. ReverifyVerifier => Puts
    BY <1>1, <1>2, <1>c, Zenon DEF ReverifyVerifier, IssuedFor
  <1>6. ReverifySandbox => Puts
    BY <1>1, <1>2, <1>c, Zenon DEF ReverifySandbox, IssuedFor
  <1>7. ReverifyRotation => Puts
    <2>1. CASE \E ad \in Adapters :
                 /\ ad.kind = "RotationEnforcement"
                 /\ Put("rotations", VerifyRotationWithContract(set.credentials[1], set.hardening, ad,
                                         Config[ad.kind], Contract[ad.kind], now))
      BY <1>1, <1>2, <1>c, <2>1, Zenon DEF IssuedFor
    <2>2. CASE Put("rotations", VerifyRotation(set.credentials[1], set.hardening, NoAdapter, now))
      BY <1>1, <1>a, <1>c, <2>2, Zenon
    <2>3. QED
      BY <2>1, <2>2, Zenon DEF ReverifyRotation
  <1>8. ReverifyInjection => Puts
    BY <1>1, <1>2, <1>c, Zenon DEF ReverifyInjection, IssuedFor
  <1>9. ReverifyDelivery => Puts
    BY <1>1, <1>2, <1>c, Zenon DEF ReverifyDelivery, IssuedFor
  <1>10. ReverifyStorage => Puts
    BY <1>1, <1>2, <1>c, Zenon DEF ReverifyStorage, IssuedFor
  <1>11. QED
    BY <1>3, <1>4, <1>5, <1>6, <1>7, <1>8, <1>9, <1>10 DEF Puts

LEMMA SetWorkedOn ==
    ASSUME StartIsIssued, OfTheTenant(set, edited), now \in Times, ReadinessNext, ~ListAgain
    PROVE  OfTheTenant(set', edited') /\ now' \in Times
  <1> DEFINE Well == OfTheTenant(set', edited') /\ now' \in Times
  <1>1. ASSUME \/ ReverifyAuth \/ ReverifySecretManager \/ ReverifyVerifier \/ ReverifySandbox
               \/ ReverifyRotation \/ ReverifyInjection \/ ReverifyDelivery \/ ReverifyStorage
        PROVE  Well
    <2>1. PICK component \in Components : \E d : FromTheVault(component, d) /\ Put(component, d)
      BY <1>1, ReverifiedIsIssued
    <2>2. PICK d : FromTheVault(component, d) /\ Put(component, d)
      BY <2>1
    <2>3. now' = now
      BY <2>2 DEF Put
    <2>4. QED
      BY <2>2, <2>3, PutIsIssued
  <1>2. ASSUME NEW i \in DOMAIN set.adapters, ReverifyAdapter(i) PROVE Well
    <2>1. now' = now
      BY <1>2 DEF ReverifyAdapter
    <2>2. QED
      BY <1>2, <2>1, AdapterReverified
  <1>3. ASSUME NEW s \in Signatures, NEW records \in RootLists, NEW risk \in TicketRisks,
               ResignExecutor(s, records, risk)
        PROVE  Well
    <2>1. now' = now
      BY <1>3 DEF ResignExecutor
    <2>2. QED
      BY <1>3, <2>1, SignatureRenewed
  <1>4. ASSUME NEW component \in Components, Misplace(component) PROVE Well
    <2>1. now' = now
      BY <1>4 DEF Misplace
    <2>2. QED
      BY <1>4, <2>1, MisplacedIsForeign
  <1>5. ASSUME NEW component \in Components, EditVerdict(component) PROVE Well
    <2>1. now' = now
      BY <1>5 DEF EditVerdict
    <2>2. QED
      BY <1>5, <2>1, EditIsMarked
  <1>6. ASSUME UNCHANGED <<now, set, edited>> PROVE Well
    BY <1>6
  <1>7. ASSUME DecisionsAge PROVE Well
    <2>1. now < MaxAge /\ now' = now + 1 /\ UNCHANGED <<set, edited>>
      BY <1>7 DEF DecisionsAge
    <2>2. now' \in Times
      BY <2>1, ClockAssumption DEF Times
    <2>3. QED
      BY <2>1, <2>2
  <1>8. EvaluateSet => UNCHANGED <<now, set, edited>>
    BY DEF EvaluateSet
  <1>9. \A with_sandbox : EvaluateBasic(with_sandbox) => UNCHANGED <<now, set, edited>>
    BY DEF EvaluateBasic
  <1> HIDE DEF Well
  <1>10. Well
    BY <1>1, <1>2, <1>3, <1>4, <1>5, <1>6, <1>7, <1>8, <1>9, Zenon DEF ReadinessNext
  <1>11. QED
    BY <1>10 DEF Well

\* No other action touches the list of the credentials, and the clock goes on.
LEMMA CredentialsKept ==
    ASSUME DOMAIN set = DOMAIN Start, now \in Times, ReadinessNext, ~ListAgain
    PROVE  DOMAIN set' = DOMAIN set /\ set'.credentials = set.credentials /\ now' \in Times
  <1> DEFINE Same == DOMAIN set' = DOMAIN set /\ set'.credentials = set.credentials /\ now' \in Times
  <1>1. "credentials" \in DOMAIN set /\ "credentials" \notin Components
    BY DecisionsAssumption DEF Components
  <1>2. ASSUME NEW component \in Components, NEW ds, set' = [set EXCEPT ![component] = ds], now' = now
        PROVE  Same
    BY <1>1, <1>2
  <1>3. \A component \in Components : \A d : Put(component, d) => Same
    BY <1>2, Zenon DEF Put
  <1>4. ASSUME NEW component \in Components, Misplace(component) PROVE Same
    BY <1>2, <1>4 DEF Misplace
  <1>5. ASSUME NEW component \in Components, EditVerdict(component) PROVE Same
    BY <1>2, <1>5 DEF EditVerdict
  <1>6. ASSUME NEW i \in DOMAIN set.adapters, ReverifyAdapter(i) PROVE Same
    BY <1>1, <1>6 DEF ReverifyAdapter
  <1>7. ASSUME NEW s, NEW records, NEW risk, ResignExecutor(s, records, risk) PROVE Same
    BY <1>1, <1>7 DEF ResignExecutor
  <1>8. ASSUME UNCHANGED <<now, set>> PROVE Same
    BY <1>8
  <1>9. ASSUME DecisionsAge PROVE Same
    BY <1>9, ClockAssumption DEF DecisionsAge, Times
  <1>c. /\ "auth" \in Components /\ "managers" \in Components /\ "verifiers" \in Components
        /\ "sandboxes" \in Components /\ "rotations" \in Components /\ "injections" \in Components
        /\ "deliveries" \in Components /\ "storages" \in Components
    BY DEF Components
  <1> HIDE DEF Same
  <1>10. (ReverifyAuth \/ ReverifySecretManager \/ ReverifyVerifier \/ ReverifySandbox) => Same
    BY <1>3, <1>c, Zenon
    DEF ReverifyAuth, ReverifySecretManager, ReverifyVerifier, ReverifySandbox
  <1>11. (ReverifyRotation \/ ReverifyInjection \/ ReverifyDelivery \/ ReverifyStorage) => Same
    BY <1>3, <1>c, Zenon
    DEF ReverifyRotation, ReverifyInjection, ReverifyDelivery, ReverifyStorage
  <1>12. (EvaluateSet => Same) /\ \A with_sandbox : EvaluateBasic(with_sandbox) => Same
    BY <1>8 DEF EvaluateSet, EvaluateBasic
  <1>13. Same
    BY <1>4, <1>5, <1>6, <1>7, <1>9, <1>10, <1>11, <1>12, Zenon DEF ReadinessNext
  <1>14. QED
    BY <1>13 DEF Same

\* A credential more is another list.
LEMMA ListedAgain ==
    ASSUME DOMAIN set = DOMAIN Start, ListAgain
    PROVE  DOMAIN set' = DOMAIN set /\ set'.credentials # Start.credentials /\ now' = now
  <1>1. PICK i \in DOMAIN set.credentials :
           set' = [set EXCEPT !.credentials = Append(@, @[i]),
                              !.managers = Joined("managers"),
                              !.rotations = Joined("rotations"),
                              !.injections = Joined("injections")]
    BY DEF ListAgain
  <1> DEFINE cs == Start.credentials
  <1>2. set.credentials = cs /\ now' = now /\ "credentials" \in DOMAIN set
    BY DecisionsAssumption DEF ListAgain
  <1>3. DOMAIN set' = DOMAIN set /\ set'.credentials = Append(cs, cs[i])
    BY <1>1, <1>2
  <1>4. cs \in Seq(Members(cs)) /\ i \in DOMAIN cs
    BY <1>2, DecisionsAssumption
  <1>5. cs[i] \in Members(cs)
    BY <1>4 DEF Members
  <1> HIDE DEF cs
  <1>6. Len(Append(cs, cs[i])) = Len(cs) + 1 /\ Len(cs) \in Nat
    BY <1>4, <1>5
  <1>7. Append(cs, cs[i]) # cs
    BY <1>6
  <1>8. QED
    BY <1>2, <1>3, <1>7 DEF cs

LEMMA SetStep ==
    ASSUME StartIsIssued, SetInv, [Next]_vars
    PROVE  SetInv'
  <1>1. CASE focus = "hardening" /\ ReadinessNext /\ UNCHANGED <<focus, requestVars>>
    <2>1. /\ now \in Times /\ DOMAIN set = DOMAIN Start
          /\ set.credentials = Start.credentials => OfTheTenant(set, edited)
      BY <1>1 DEF SetInv
    <2>2. CASE ListAgain
      <3>1. DOMAIN set' = DOMAIN Start /\ set'.credentials # Start.credentials /\ now' \in Times
        BY <2>1, <2>2, ListedAgain
      <3>2. QED
        BY <1>1, <3>1 DEF SetInv
    <2>3. CASE ~ListAgain
      <3>1. DOMAIN set' = DOMAIN Start /\ set'.credentials = set.credentials /\ now' \in Times
        BY <1>1, <2>1, <2>3, CredentialsKept
      <3>2. ASSUME set'.credentials = Start.credentials PROVE OfTheTenant(set', edited')
        BY <1>1, <2>1, <2>3, <3>1, <3>2, SetWorkedOn
      <3>3. QED
        BY <1>1, <3>1, <3>2 DEF SetInv
    <2>4. QED
      BY <2>2, <2>3
  <1>2. CASE focus = "review" /\ UNCHANGED <<focus, hardeningVars>>
    BY <1>2 DEF SetInv, hardeningVars
  <1>3. CASE UNCHANGED vars
    BY <1>3 DEF SetInv, vars, hardeningVars
  <1>4. QED
    BY <1>1, <1>2, <1>3 DEF Next

-----------------------------------------------------------------------------
(* A typed decision uses the one adapter decision it cites.                 *)

AdaptersAreApart(ads) ==
    /\ \A i \in DOMAIN ads : ads[i].decision_id = ExpectedAdapterId(ads[i])
    /\ \A i, j \in DOMAIN ads : ads[i].kind = ads[j].kind => i = j

\* The id of an adapter decision binds what it copies, its verdict and its
\* references.
LEMMA AdapterIdBinds ==
    ASSUME NEW a, NEW b, a.decision_id = ExpectedAdapterId(a),
           b.decision_id = ExpectedAdapterId(b), a.decision_id = b.decision_id,
           NEW f \in AdapterBinding \union {"decision", "evidence_refs"}
    PROVE  a[f] = b[f]
  <1> DEFINE fields == AdapterBinding \union {"decision", "evidence_refs"}
             ba == Bound(a, fields)
             bb == Bound(b, fields)
  <1>1. a.decision_id = <<AdapterPrefix, ba>> /\ b.decision_id = <<AdapterPrefix, bb>>
    BY DEF ExpectedAdapterId, StableId, AdapterPrefix
  <1>2. ba = bb
    <2> HIDE DEF ba, bb
    <2>1. <<AdapterPrefix, ba>>[2] = ba /\ <<AdapterPrefix, bb>>[2] = bb
      OBVIOUS
    <2>2. QED
      BY <1>1, <2>1
  <1>3. ba[f] = a[f] /\ bb[f] = b[f]
    BY DEF Bound
  <1> HIDE DEF ba, bb
  <1>4. QED
    BY <1>2, <1>3

LEMMA CitedIsUsed ==
    ASSUME NEW ads, AdaptersAreApart(ads), NEW d, Cites(d, ads), NEW kind, NEW provider,
           Backing(d, kind, provider)
    PROVE  RefsAdapter(d.evidence_refs, ads, kind, provider)
  <1>1. PICK ad : Verifies(ad, kind, provider) /\ RestsCleanly(d, ad)
    BY DEF Backing
  <1>2. PICK i \in DOMAIN ads : {ads[i].decision_id} \union ads[i].evidence_refs \subseteq d.evidence_refs
    BY DEF Cites, Members
  <1>3. ASSUME NEW j \in DOMAIN ads, ads[j].decision_id \in d.evidence_refs
        PROVE  /\ ads[j].decision_id = ExpectedAdapterId(ads[j])
               /\ ads[j].kind = kind /\ ads[j].provider_ref = provider
               /\ ads[j].decision = "Verified"
    <2>1. ads[j].decision_id = ExpectedAdapterId(ads[j]) /\ ads[j].decision_id[1] = AdapterPrefix
      BY AdapterIdPrefix DEF AdaptersAreApart
    <2>2. ads[j].decision_id = ad.decision_id
      BY <1>1, <1>3, <2>1 DEF RestsCleanly, Clean
    <2>3. \A f \in AdapterBinding \union {"decision", "evidence_refs"} : ads[j][f] = ad[f]
      BY <1>1, <2>1, <2>2, AdapterIdBinds DEF Verifies
    <2>4. ads[j]["kind"] = ad["kind"] /\ ads[j]["provider_ref"] = ad["provider_ref"]
          /\ ads[j]["decision"] = ad["decision"]
      BY <2>3 DEF AdapterBinding
    <2>5. QED
      BY <1>1, <2>1, <2>4 DEF Verifies
  <1>4. {j \in DOMAIN ads : ads[j].decision_id \in d.evidence_refs} = {i}
    BY <1>2, <1>3 DEF AdaptersAreApart
  <1>5. QED
    BY <1>2, <1>3, <1>4 DEF RefsAdapter

LEMMA UnbackedIsNotCited ==
    ASSUME NEW ads, NEW d, Unbacked(d), Cites(d, ads),
           \A ad \in Members(ads) :
              /\ ad.decision_id[1] = AdapterPrefix
              /\ \E ref \in ad.evidence_refs : ref[1] = ConfigPrefix
    PROVE  FALSE
  <1>1. PICK own : \A ref \in d.evidence_refs :
                      ref[1] \in {AdapterPrefix, ConfigPrefix} => ref = own
    BY DEF Unbacked
  <1>2. PICK ad \in Members(ads) : {ad.decision_id} \union ad.evidence_refs \subseteq d.evidence_refs
    BY DEF Cites
  <1>3. PICK ref \in ad.evidence_refs : ref[1] = ConfigPrefix
    BY <1>2
  <1>4. ad.decision_id = own /\ ref = own
    BY <1>1, <1>2, <1>3
  <1>5. QED
    BY <1>2, <1>3, <1>4 DEF AdapterPrefix, ConfigPrefix

-----------------------------------------------------------------------------
(* A whole set, record by record.                                           *)

Live(component, d) ==
    /\ d.tenant_id = Start.policy.tenant_id
    /\ d.decision = "Verified" /\ ~Expired(d.expires_at, now)
    /\ Sound(component, d)

LEMMA OneOf ==
    ASSUME NEW ds, ds \in Seq(Members(ds)), Len(ds) = 1
    PROVE  ds = <<ds[1]>> /\ ds[1] \in Members(ds)
  BY DEF Members

LEMMA MembersOfOne ==
    ASSUME NEW d
    PROVE  Members(<<d>>) = {d} /\ Len(<<d>>) = 1 /\ <<d>>[1] = d /\ <<d>> # << >>
  BY DEF Members

\* A set with nothing in it is not whole.
LEMMA WholeIsUnderWork ==
    ASSUME SetInv, Whole
    PROVE  focus = "hardening" /\ edited = {} /\ now \in Times /\ OfTheTenant(set, {})
  <1>1. focus # "review"
    <2>1. SUFFICES ASSUME set = NoDecisions PROVE FALSE
      BY DEF SetInv
    <2>2. set["auth"] = << >> /\ "auth" \in Components
      BY <2>1 DEF NoDecisions, Components
    <2>3. Len(set["auth"]) = 1
      BY <2>2 DEF Whole
    <2>4. QED
      BY <2>2, <2>3
  <1>2. focus = "hardening" /\ edited = {}
    BY <1>1 DEF SetInv, Whole
  <1>3. set.credentials = Start.credentials
    BY DEF Whole
  <1>4. QED
    BY <1>2, <1>3 DEF SetInv

LEMMA OneOfEach ==
    ASSUME SetIsInOrder, SetInv, HardeningInv, Whole
    PROVE  \A component \in Components : \E d : set[component] = <<d>> /\ Live(component, d)
  <1> SUFFICES ASSUME NEW component \in Components
               PROVE  \E d : set[component] = <<d>> /\ Live(component, d)
    OBVIOUS
  <1>1. /\ focus = "hardening" /\ edited = {} /\ now \in Times /\ OfTheTenant(set, {})
    BY WholeIsUnderWork
  <1>2. set[component] \in Seq(Members(set[component]))
    BY <1>1 DEF HardeningInv, WellKept, Kept
  <1> DEFINE d == set[component][1]
  <1>3. set[component] = <<d>> /\ d \in Members(set[component])
    BY <1>2, OneOf DEF Whole
  <1>4. d \in Typed(set)
    BY <1>3 DEF Typed
  <1>5. /\ d.tenant_id = Start.policy.tenant_id
        /\ d.decision = "Verified" /\ ~Expired(d.expires_at, now)
    BY <1>1, <1>4 DEF Whole, OfTheTenant
  <1>6. FromTheVault(component, d)
    BY <1>1, <1>3, <1>5 DEF OfTheTenant, NotForged
  <1>7. Sound(component, d)
    BY <1>5, <1>6, IssuedIsSound DEF SetIsInOrder
  <1> HIDE DEF d
  <1>8. Live(component, d)
    BY <1>5, <1>7 DEF Live
  <1>9. QED
    BY <1>3, <1>8

-----------------------------------------------------------------------------
(* The adapters of a whole set.                                             *)

\* What the evaluation asks of an adapter decision and its evidence.
AdapterReady(e, a) ==
    /\ ValidAdapterEvidence(e, now) /\ ValidAdapterDecision(a, now)
    /\ Bound(a, AdapterBinding) = Bound(e, AdapterBinding)
    /\ a.expires_at = e.expires_at /\ a.tenant_id = e.tenant_id
    /\ a.kind = e.kind /\ a.provider_ref = e.provider_ref /\ a.evidence_id = e.evidence_id
    /\ AdapterRefs(e) \subseteq a.evidence_refs
    /\ MatchesConfig(e, Config[a.kind])
    /\ Contract[a.kind].tenant_id = a.tenant_id
    /\ SatisfiesContract(a, Config[a.kind], Contract[a.kind], a.kind, a.provider_ref, now)

LEMMA EvidenceStillValid ==
    ASSUME NEW e, NEW at, AdapterEvidenceVerifies(e, at), ~Expired(e.expires_at, now)
    PROVE  ValidAdapterEvidence(e, now)
  BY DEF AdapterEvidenceVerifies, ValidAdapterEvidence

LEMMA ContractStillLoads ==
    ASSUME NEW root, NEW config, NEW at, ContractLoads(root, config, at),
           ~Expired(root.contract.expires_at, now)
    PROVE  ContractLoads(root, config, now)
  BY DEF ContractLoads, ValidContract, BadWindow

LEMMA AdapterIsReady ==
    ASSUME ReferencesAreReal, NEW e \in Attested, NEW a \in AdapterIssues(e),
           a.decision = "Verified", ~Expired(a.expires_at, now),
           ~Expired(Contract[a.kind].contract.expires_at, now)
    PROVE  AdapterReady(e, a)
  <1>1. /\ a.decision_id = ExpectedAdapterId(a)
        /\ a.tenant_id = e.tenant_id /\ a.expires_at = e.expires_at
        /\ a.evidence_refs = AdapterRefs(e) \union {e.attestation_ref, e.healthcheck_ref}
                                 \union ({e.sandbox_profile_ref} \ {NoRef})
        /\ \A f \in AdapterBinding : a[f] = e[f]
    BY AdapterOrigin
  <1>2. PICK at \in Times : /\ AdapterEvidenceVerifies(e, at)
                            /\ MatchesConfig(e, Config[e.kind])
                            /\ MatchesContract(e, Config[e.kind], Contract[e.kind], at)
    BY AdapterOrigin
  <1>3. /\ a.kind = e.kind /\ a.provider_ref = e.provider_ref /\ a.runtime_mode = e.runtime_mode
        /\ a.evidence_id = e.evidence_id
        /\ a.provider_config_record_ref = e.provider_config_record_ref
        /\ a.provider_config_hash = e.provider_config_hash
        /\ a.readiness_contract_ref = e.readiness_contract_ref
        /\ a.readiness_contract_hash = e.readiness_contract_hash
    BY <1>1 DEF AdapterBinding
  <1>4. ValidAdapterEvidence(e, now)
    BY <1>1, <1>2, EvidenceStillValid
  <1>5. Bound(a, AdapterBinding) = Bound(e, AdapterBinding)
    BY <1>1 DEF Bound
  <1>6. ~IsPlaceholder(e.evidence_id) /\ e.sandbox_profile_ref # Placeholder
    BY DEF ReferencesAreReal
  <1>7. /\ \A f \in AdapterBinding \ {"evidence_id", "kind", "runtime_mode"} : ~IsPlaceholder(e[f])
        /\ ~IsPlaceholder(e.attestation_ref) /\ ~IsPlaceholder(e.healthcheck_ref)
    BY <1>4 DEF ValidAdapterEvidence, AnyPlaceholder
  <1>8. \A ref \in AdapterRefs(e) : ~IsPlaceholder(ref)
    BY <1>6, <1>7 DEF AdapterRefs, AdapterBinding
  <1>9. \A ref \in a.evidence_refs : ~IsPlaceholder(ref)
    BY <1>1, <1>6, <1>7, <1>8 DEF IsPlaceholder
  <1>10. \A f \in AdapterBinding \ {"evidence_id", "kind", "runtime_mode"} : ~IsPlaceholder(a[f])
    BY <1>1, <1>7
  <1>11. AdapterRefs(e) \subseteq a.evidence_refs
    BY <1>1
  <1>12. {a.provider_config_record_ref, a.provider_config_hash,
          a.readiness_contract_ref, a.readiness_contract_hash} \subseteq a.evidence_refs
    BY <1>3, <1>11 DEF AdapterRefs
  <1>13. a.runtime_mode = ExternalVerified
    BY <1>3, <1>4 DEF ValidAdapterEvidence
  <1>14. ValidAdapterDecision(a, now)
    BY <1>1, <1>9, <1>10, <1>12, <1>13 DEF ValidAdapterDecision, AnyPlaceholder
  <1>15. ContractLoads(Contract[a.kind], Config[a.kind], now)
    BY <1>2, <1>3, ContractStillLoads DEF MatchesContract
  <1>16. SatisfiesContract(a, Config[a.kind], Contract[a.kind], a.kind, a.provider_ref, now)
    BY <1>2, <1>3, <1>14, <1>15 DEF SatisfiesContract, MatchesConfig, MatchesContract
  <1>17. Contract[a.kind].tenant_id = a.tenant_id
    BY <1>1, <1>2, <1>3 DEF MatchesContract
  <1>18. QED
    BY <1>1, <1>2, <1>3, <1>4, <1>5, <1>11, <1>14, <1>16, <1>17 DEF AdapterReady

\* No two of the list share the value of the field.
LEMMA ApartIsDistinct ==
    ASSUME NEW ds, Len(ds) \in Nat, DOMAIN ds = 1 .. Len(ds), NEW field,
           \A i, j \in DOMAIN ds : ds[i][field] = ds[j][field] => i = j
    PROVE  Distinct(ds, field)
  <1> DEFINE dom == 1 .. Len(ds)
             values == Field(ds, field)
             g == [i \in dom |-> ds[i][field]]
  <1>1. IsFiniteSet(dom) /\ Cardinality(dom) = Len(ds)
    BY FS_Interval
  <1>2. g \in Bijection(dom, values)
    <2>1. g \in Surjection(dom, values)
      BY DEF Surjection, Field, Members
    <2>2. g \in Injection(dom, values)
      BY <2>1 DEF Injection, IsInjective, Surjection
    <2>3. QED
      BY <2>1, <2>2 DEF Bijection
  <1> HIDE DEF dom, values, g
  <1>3. Cardinality(values) = Len(ds)
    <2>1. ExistsBijection(dom, values)
      BY <1>2, Zenon DEF ExistsBijection
    <2>2. QED
      BY <1>1, <2>1, FS_Bijection
  <1>4. QED
    BY <1>3 DEF Distinct, values

AdaptersReady ==
    /\ set.evidence \in Seq(Attested) /\ set.adapters \in Seq(AdapterDecisions)
    /\ Len(set.evidence) = Len(set.adapters)
    /\ \A i \in DOMAIN set.adapters :
          /\ set.evidence[i] \in Attested /\ set.evidence[i].kind = Start.evidence[i].kind
          /\ set.adapters[i] \in AdapterIssues(set.evidence[i])
          /\ AdapterReady(set.evidence[i], set.adapters[i])
          /\ set.adapters[i].tenant_id = Start.policy.tenant_id
    /\ AdaptersAreApart(set.adapters)
    /\ \E i \in DOMAIN set.adapters : set.adapters[i].kind = "RotationEnforcement"

LEMMA SetHasReadyAdapters ==
    ASSUME SetIsInOrder, SetInv, Whole
    PROVE  AdaptersReady
  <1>1. /\ now \in Times
        /\ AdaptersKept(set.evidence, set.adapters) /\ set.policy = Start.policy
    BY WholeIsUnderWork DEF OfTheTenant
  <1>2. /\ set.evidence \in Seq(Attested) /\ Len(set.evidence) = Len(Start.evidence)
        /\ set.adapters \in Seq(AdapterDecisions) /\ Len(set.adapters) = Len(Start.evidence)
        /\ \A i \in DOMAIN set.adapters :
              set.adapters[i] \in AdapterIssues(set.evidence[i])
                /\ set.evidence[i].kind = Start.evidence[i].kind
    BY <1>1 DEF AdaptersKept
  <1>3. DOMAIN set.evidence = DOMAIN set.adapters /\ DOMAIN set.adapters = DOMAIN Start.evidence
    BY <1>2 DEF StartIsIssued, SetIsInOrder
  <1>4. ASSUME NEW i \in DOMAIN set.adapters
        PROVE  /\ set.evidence[i] \in Attested
               /\ AdapterReady(set.evidence[i], set.adapters[i])
               /\ set.adapters[i].tenant_id = Start.policy.tenant_id
               /\ set.adapters[i].decision_id = ExpectedAdapterId(set.adapters[i])
               /\ set.adapters[i].kind = Start.evidence[i].kind
    <2>1. set.evidence[i] \in Attested
      BY <1>2, <1>3
    <2>2. set.adapters[i] \in Members(set.adapters)
      BY DEF Members
    <2>3. /\ set.adapters[i].tenant_id = Start.policy.tenant_id
          /\ set.adapters[i].decision = "Verified" /\ ~Expired(set.adapters[i].expires_at, now)
          /\ ~Expired(Contract[set.adapters[i].kind].contract.expires_at, now)
      BY <1>1, <2>2 DEF Whole
    <2>4. AdapterReady(set.evidence[i], set.adapters[i])
      BY <1>2, <2>1, <2>3, AdapterIsReady DEF SetIsInOrder
    <2>5. set.adapters[i].decision_id = ExpectedAdapterId(set.adapters[i])
      BY <2>4 DEF AdapterReady, ValidAdapterDecision
    <2>6. QED
      BY <1>2, <2>1, <2>3, <2>4, <2>5 DEF AdapterReady
  <1>5. AdaptersAreApart(set.adapters)
    <2>1. \A i, j \in DOMAIN set.adapters : set.adapters[i].kind = set.adapters[j].kind => i = j
      <3>1. SUFFICES ASSUME NEW i \in DOMAIN set.adapters, NEW j \in DOMAIN set.adapters,
                            set.adapters[i].kind = set.adapters[j].kind
                     PROVE  i = j
        OBVIOUS
      <3>2. Start.evidence[i].kind = Start.evidence[j].kind
        BY <1>4, <3>1
      <3>3. i \in DOMAIN Start.adapters /\ j \in DOMAIN Start.adapters
        BY <1>3 DEF StartIsIssued, SetIsInOrder
      <3>4. QED
        BY <3>2, <3>3 DEF StartIsIssued, SetIsInOrder
    <2>2. QED
      BY <1>4, <2>1 DEF AdaptersAreApart
  <1>6. \E i \in DOMAIN set.adapters : set.adapters[i].kind = "RotationEnforcement"
    <2>1. PICK i \in DOMAIN Start.evidence : Start.evidence[i].kind = "RotationEnforcement"
      BY DEF TenantIsStrict, SetIsInOrder
    <2>2. QED
      BY <1>3, <1>4, <2>1
  <1>7. QED
    BY <1>2, <1>4, <1>5, <1>6 DEF AdaptersReady

LEMMA AdaptersAreAccepted ==
    ASSUME ReferencesAreReal, AdaptersReady
    PROVE  AdaptersAccepted(set, now)
  <1>1. /\ set.evidence \in Seq(Attested) /\ set.adapters \in Seq(AdapterDecisions)
        /\ Len(set.evidence) = Len(set.adapters)
        /\ \A i \in DOMAIN set.adapters :
              set.evidence[i] \in Attested /\ AdapterReady(set.evidence[i], set.adapters[i])
    BY DEF AdaptersReady
  <1>2. DOMAIN set.evidence = DOMAIN set.adapters
    BY <1>1
  <1>3. \A e \in Members(set.evidence) : ValidAdapterEvidence(e, now)
    BY <1>1, <1>2 DEF Members, AdapterReady
  <1>4. \A d \in Members(set.adapters) : ValidAdapterDecision(d, now)
    BY <1>1 DEF Members, AdapterReady
  <1>5. \A e \in Members(set.evidence) : \E d \in Members(set.adapters) :
           /\ Bound(d, AdapterBinding) = Bound(e, AdapterBinding)
           /\ d.expires_at = e.expires_at
           /\ AdapterRefs(e) \subseteq d.evidence_refs
    BY <1>1, <1>2 DEF Members, AdapterReady
  <1>6. \A i, j \in DOMAIN set.adapters :
           set.adapters[i]["evidence_id"] = set.adapters[j]["evidence_id"] => i = j
    <2>1. SUFFICES ASSUME NEW i \in DOMAIN set.adapters, NEW j \in DOMAIN set.adapters,
                          set.adapters[i].evidence_id = set.adapters[j].evidence_id
                   PROVE  i = j
      OBVIOUS
    <2>2. set.evidence[i].kind = set.evidence[j].kind
      BY <1>1, <2>1 DEF AdapterReady, ReferencesAreReal
    <2>3. set.adapters[i].kind = set.adapters[j].kind
      BY <1>1, <2>2 DEF AdapterReady
    <2>4. QED
      BY <2>3 DEF AdaptersReady, AdaptersAreApart
  <1>7. Len(set.adapters) \in Nat /\ DOMAIN set.adapters = 1 .. Len(set.adapters)
    BY <1>1
  <1>8. Distinct(set.adapters, "evidence_id")
    BY <1>6, <1>7, ApartIsDistinct
  <1>9. QED
    BY <1>1, <1>3, <1>4, <1>5, <1>8 DEF AdaptersAccepted

\* What the references of a typed decision are compared with.
LEMMA AdaptersAreNamed ==
    ASSUME DocumentsAreSealed, AdaptersReady
    PROVE  \A ad \in Members(set.adapters) :
              /\ ad.decision_id[1] = AdapterPrefix
              /\ \E ref \in ad.evidence_refs : ref[1] = ConfigPrefix
  <1> SUFFICES ASSUME NEW i \in DOMAIN set.adapters
               PROVE  /\ set.adapters[i].decision_id[1] = AdapterPrefix
                      /\ \E ref \in set.adapters[i].evidence_refs : ref[1] = ConfigPrefix
    BY DEF Members
  <1> DEFINE a == set.adapters[i]
             e == set.evidence[i]
  <1>1. e \in Attested /\ AdapterReady(e, a) /\ a.decision_id = ExpectedAdapterId(a)
    BY DEF AdaptersReady, AdaptersAreApart
  <1>2. a.decision_id[1] = AdapterPrefix
    BY <1>1, AdapterIdPrefix
  <1>3. /\ Config[a.kind].record_id = e.provider_config_record_ref /\ a.kind = e.kind
        /\ e.provider_config_record_ref \in a.evidence_refs
    BY <1>1 DEF AdapterReady, MatchesConfig, AdapterRefs
  <1>4. Config[e.kind].record_id =
           <<"production_adapter_provider_config_record", Bound(Config[e.kind], ConfigHeader),
             Config[e.kind].config_hash, Config[e.kind].evidence_refs>>
    BY <1>1 DEF DocumentsAreSealed
  <1>5. Config[e.kind].record_id[1] = ConfigPrefix
    BY <1>4 DEF ConfigPrefix
  <1>6. QED
    BY <1>2, <1>3, <1>5

-----------------------------------------------------------------------------
(* The signature of a whole set.                                            *)

LEMMA SignatureIds ==
    ASSUME StartIsIssued, NEW sd \in SignatureDecisions
    PROVE  sd.decision_id = ExpectedSignatureId(sd)
  <1>1. CASE sd \in Members(Start.signatures)
    <2>1. Start.signatures = <<Start.signatures[1]>>
      BY DEF StartIsIssued
    <2>2. Members(Start.signatures) = {Start.signatures[1]}
      BY <2>1, MembersOfOne
    <2>3. QED
      BY <1>1, <2>2 DEF StartIsIssued
  <1>2. ASSUME NEW s, NEW roots, NEW risk, sd = VerifySignature(s, roots, risk)
        PROVE  sd.decision_id = ExpectedSignatureId(sd)
    <2> DEFINE matches == SelectSeq(roots, LAMBDA root : Matching(root, s))
               verified == matches # << >> /\ ~matches[1].revoked /\ s.complete
               verdict == IF verified THEN "Verified" ELSE "Rejected"
               named == IF matches = << >> THEN NoRef ELSE matches[1].root_id
               may == verified /\ risk >= High
               refs == s.evidence_refs \union
                          (IF matches = << >> \/ matches[1].revoked THEN {}
                           ELSE matches[1].evidence_refs)
    <2>1. sd = [decision_id |->
                  ExpectedSignatureId([signature_id |-> s.signature_id, tenant_id |-> s.tenant_id,
                     executor_ref |-> s.executor_ref, decision |-> verdict,
                     trust_root_ref |-> named, can_issue_high_risk_ticket |-> may,
                     evidence_refs |-> refs])]
                 ++ [signature_id |-> s.signature_id, tenant_id |-> s.tenant_id,
                     executor_ref |-> s.executor_ref, decision |-> verdict,
                     trust_root_ref |-> named, can_issue_high_risk_ticket |-> may,
                     evidence_refs |-> refs]
      BY <1>2 DEF VerifySignature
    <2> HIDE DEF matches, verified, verdict, named, may, refs
    <2> DEFINE r == [signature_id |-> s.signature_id, tenant_id |-> s.tenant_id,
                     executor_ref |-> s.executor_ref, decision |-> verdict,
                     trust_root_ref |-> named, can_issue_high_risk_ticket |-> may,
                     evidence_refs |-> refs]
               fields == {"signature_id", "tenant_id", "executor_ref", "decision",
                          "trust_root_ref", "can_issue_high_risk_ticket", "evidence_refs"}
    <2>2. DOMAIN r = fields
      OBVIOUS
    <2>3. sd = [decision_id |-> StableId("signature_verification", r, fields)] ++ r
      BY <2>1 DEF ExpectedSignatureId
    <2> HIDE DEF r
    <2>4. sd.decision_id = StableId("signature_verification", sd, fields)
      BY <2>2, <2>3, MadeWithId
    <2>5. QED
      BY <2>4 DEF ExpectedSignatureId
  <1>3. CASE \E s \in Signatures, records \in RootLists, risk \in TicketRisks :
                sd = VerifySignatureWithRecords(s, records, risk)
    <2>1. \E s, roots, risk : sd = VerifySignature(s, roots, risk)
      BY <1>3, Zenon DEF VerifySignatureWithRecords
    <2>2. QED
      BY <1>2, <2>1
  <1>4. QED
    BY <1>1, <1>3 DEF SignatureDecisions

\* The id of a signature decision binds its verdict.
LEMMA SignatureIdBinds ==
    ASSUME NEW a, NEW b, a.decision_id = ExpectedSignatureId(a),
           b.decision_id = ExpectedSignatureId(b), a.decision_id = b.decision_id
    PROVE  /\ a.tenant_id = b.tenant_id /\ a.decision = b.decision
           /\ a.trust_root_ref = b.trust_root_ref
           /\ a.can_issue_high_risk_ticket = b.can_issue_high_risk_ticket
           /\ a.evidence_refs = b.evidence_refs
  <1> DEFINE fields == {"signature_id", "tenant_id", "executor_ref", "decision",
                        "trust_root_ref", "can_issue_high_risk_ticket", "evidence_refs"}
             ba == Bound(a, fields)
             bb == Bound(b, fields)
  <1>1. a.decision_id = <<"signature_verification", ba>>
        /\ b.decision_id = <<"signature_verification", bb>>
    BY DEF ExpectedSignatureId, StableId
  <1>2. ba = bb
    <2> HIDE DEF ba, bb
    <2>1. <<"signature_verification", ba>>[2] = ba /\ <<"signature_verification", bb>>[2] = bb
      OBVIOUS
    <2>2. QED
      BY <1>1, <2>1
  <1>3. \A f \in fields : ba[f] = a[f] /\ bb[f] = b[f]
    BY DEF Bound
  <1> HIDE DEF ba, bb
  <1>4. \A f \in fields : a[f] = b[f]
    BY <1>2, <1>3
  <1>5. QED
    BY <1>4

\* The one signature decision of a whole set can carry a high-risk ticket.
SignatureReady(sd) ==
    /\ ValidSignatureDecision(sd) /\ sd.decision = "Verified"
    /\ sd.can_issue_high_risk_ticket /\ sd.trust_root_ref # NoRef
    /\ sd.tenant_id = Start.hardening.tenant_id

LEMMA SignatureIsReady ==
    ASSUME StartIsIssued, NEW d, VerifierSound(d), NEW sd \in SignatureDecisions,
           d.signature_decision_ref = sd.decision_id
    PROVE  SignatureReady(sd)
  <1>1. PICK used \in SignatureDecisions :
           /\ d.signature_decision_ref = used.decision_id
           /\ used.tenant_id = Start.hardening.tenant_id
           /\ ValidSignatureDecision(used)
           /\ used.decision = "Verified" /\ used.can_issue_high_risk_ticket
    BY DEF VerifierSound
  <1>2. sd.decision_id = ExpectedSignatureId(sd) /\ used.decision_id = ExpectedSignatureId(used)
    BY SignatureIds
  <1>3. /\ sd.tenant_id = used.tenant_id /\ sd.decision = used.decision
        /\ sd.trust_root_ref = used.trust_root_ref
        /\ sd.can_issue_high_risk_ticket = used.can_issue_high_risk_ticket
        /\ sd.evidence_refs = used.evidence_refs
    BY <1>1, <1>2, SignatureIdBinds
  <1>4. used.evidence_refs # {} /\ used.trust_root_ref # NoRef
    BY <1>1 DEF ValidSignatureDecision
  <1>5. sd.can_issue_high_risk_ticket
    BY <1>1, <1>3, Zenon
  <1>6. ValidSignatureDecision(sd)
    BY <1>1, <1>2, <1>3, <1>4 DEF ValidSignatureDecision
  <1>7. QED
    BY <1>1, <1>3, <1>4, <1>5, <1>6, Zenon DEF SignatureReady

-----------------------------------------------------------------------------
(* Each component of a whole set is accepted.                               *)

LEMMA StaysVerified ==
    ASSUME NEW d, d.decision = "Verified", ~Expired(d.expires_at, now),
           NEW required, required \subseteq d.evidence_refs,
           \A ref \in d.evidence_refs : ~IsPlaceholder(ref)
    PROVE  StillVerified(d, d.decision_id, required, now)
  BY DEF StillVerified, AnyPlaceholder

LEMMA BackedIsReal ==
    ASSUME NEW d, NEW kind, NEW provider, Backing(d, kind, provider)
    PROVE  \A ref \in d.evidence_refs : ~IsPlaceholder(ref) /\ ~LooksLikeRawSecret(ref)
  BY DEF Backing, RestsCleanly, Clean

LEMMA DistinctOne ==
    ASSUME NEW d, NEW field
    PROVE  Field(<<d>>, field) = {d[field]} /\ Distinct(<<d>>, field)
  <1>1. Field(<<d>>, field) = {d[field]}
    BY MembersOfOne DEF Field
  <1>2. Cardinality({d[field]}) = 1
    BY FS_Singleton
  <1>3. QED
    BY <1>1, <1>2, MembersOfOne DEF Distinct

LEMMA OneForOne ==
    ASSUME NEW c, NEW d, d.credential_id = c.credential_id
    PROVE  OnePerCredential(<<c>>, <<d>>) /\ ForCredential(<<d>>, c) = d
  <1>1. /\ Field(<<c>>, "credential_id") = {c.credential_id}
        /\ Field(<<d>>, "credential_id") = {d.credential_id}
        /\ Distinct(<<d>>, "credential_id")
    BY DistinctOne
  <1>2. OnePerCredential(<<c>>, <<d>>)
    BY <1>1, MembersOfOne DEF OnePerCredential
  <1>3. ForCredential(<<d>>, c) = d
    BY MembersOfOne DEF ForCredential
  <1>4. QED
    BY <1>2, <1>3

LEMMA AuthIsAccepted ==
    ASSUME AdaptersReady, NEW d, set.auth = <<d>>, Live("auth", d), Cites(d, set.adapters),
           set.hardening = Start.hardening
    PROVE  AuthAccepted(set, now)
  <1>1. AuthSound(d) /\ d.decision = "Verified" /\ ~Expired(d.expires_at, now)
    BY DEF Live, Sound
  <1>2. \A ref \in d.evidence_refs : ~IsPlaceholder(ref)
    BY <1>1, BackedIsReal DEF AuthSound
  <1>3. StillVerified(d, ExpectedAuthId(d), {d.evidence_ref, d.provider_ref}, now)
    BY <1>1, <1>2, StaysVerified DEF AuthSound
  <1>4. RefsAdapter(d.evidence_refs, set.adapters, "AuthProvider", d.provider_ref)
    BY <1>1, CitedIsUsed DEF AuthSound, AdaptersReady
  <1>5. set.auth[1] = d /\ Len(set.auth) = 1
    BY MembersOfOne
  <1>6. QED
    BY <1>1, <1>3, <1>4, <1>5 DEF AuthAccepted, AuthSound

LEMMA SandboxIsAccepted ==
    ASSUME AdaptersReady, NEW d, set.sandboxes = <<d>>, Live("sandboxes", d),
           Cites(d, set.adapters), set.hardening = Start.hardening
    PROVE  SandboxAccepted(set) /\ ValidSandbox(d, now)
  <1>1. SandboxSound(d) /\ d.decision = "Verified" /\ ~Expired(d.expires_at, now)
    BY DEF Live, Sound
  <1>2. \A ref \in d.evidence_refs : ~IsPlaceholder(ref)
    BY <1>1, BackedIsReal DEF SandboxSound
  <1>3. RefsAdapter(d.evidence_refs, set.adapters, "HardenedSandbox", d.provider_ref)
    BY <1>1, CitedIsUsed DEF SandboxSound, AdaptersReady
  <1>4. set.sandboxes[1] = d /\ Len(set.sandboxes) = 1
    BY MembersOfOne
  <1>5. d.provider_ref # NoRef
    BY <1>1 DEF SandboxSound, IsPlaceholder
  <1>6. SandboxAccepted(set)
    BY <1>1, <1>3, <1>4, <1>5 DEF SandboxAccepted, SandboxSound
  <1>7. ValidSandbox(d, now)
    BY <1>1, <1>2 DEF ValidSandbox, SandboxSound, AnyPlaceholder
  <1>8. QED
    BY <1>6, <1>7

LEMMA ManagerIsAccepted ==
    ASSUME AdaptersReady, NEW d, set.managers = <<d>>, Live("managers", d),
           Cites(d, set.adapters), set.hardening = Start.hardening,
           set.credentials = <<Start.credentials[1]>>
    PROVE  SecretManagersAccepted(set, now)
  <1> DEFINE c == Start.credentials[1]
  <1>1. ManagerSound(d) /\ d.decision = "Verified" /\ ~Expired(d.expires_at, now)
    BY DEF Live, Sound
  <1>2. \A ref \in d.evidence_refs : ~IsPlaceholder(ref) /\ ~LooksLikeRawSecret(ref)
    BY <1>1, BackedIsReal DEF ManagerSound
  <1>3. StillVerified(d, ExpectedSecretManagerId(d),
                      {d.evidence_ref, c.credential_id, c.external_secret_ref}, now)
    BY <1>1, <1>2, StaysVerified DEF ManagerSound
  <1>4. RefsAdapter(d.evidence_refs, set.adapters, "ExternalSecretManager", d.provider_ref)
    BY <1>1, CitedIsUsed DEF ManagerSound, AdaptersReady
  <1>5. OnePerCredential(set.credentials, set.managers) /\ ForCredential(set.managers, c) = d
    BY <1>1, OneForOne DEF ManagerSound
  <1>6. Members(set.credentials) = {c}
    BY MembersOfOne
  <1>7. QED
    BY <1>1, <1>2, <1>3, <1>4, <1>5, <1>6 DEF SecretManagersAccepted, ManagerSound

LEMMA InjectionIsAccepted ==
    ASSUME AdaptersReady, NEW d, set.injections = <<d>>, Live("injections", d),
           Cites(d, set.adapters), set.hardening = Start.hardening,
           set.credentials = <<Start.credentials[1]>>
    PROVE  InjectionsAccepted(set, now)
  <1> DEFINE c == Start.credentials[1]
             required == {d.evidence_ref, d.adapter_decision_ref, d.injection_receipt_ref,
                          d.secret_use_decision_id, d.provider_ref, d.sandbox_profile_ref,
                          c.credential_id}
  <1>1. InjectionSound(d) /\ d.decision = "Verified" /\ ~Expired(d.expires_at, now)
    BY DEF Live, Sound
  <1>2. \A ref \in d.evidence_refs : ~IsPlaceholder(ref)
    BY <1>1, BackedIsReal DEF InjectionSound
  <1>3. StillVerified(d, ExpectedInjectionId(d), required, now)
    BY <1>1, <1>2, StaysVerified DEF InjectionSound
  <1>4. RefsAdapter(d.evidence_refs, set.adapters, "SecretInjection", d.provider_ref)
    BY <1>1, CitedIsUsed DEF InjectionSound, AdaptersReady
  <1>5. OnePerCredential(set.credentials, set.injections) /\ ForCredential(set.injections, c) = d
    BY <1>1, OneForOne DEF InjectionSound
  <1>6. Members(set.credentials) = {c}
    BY MembersOfOne
  <1>7. QED
    BY <1>1, <1>3, <1>4, <1>5, <1>6 DEF InjectionsAccepted, InjectionSound

LEMMA HighRiskIsOne ==
    ASSUME NEW sd, set.signatures = <<sd>>, SignatureReady(sd)
    PROVE  HighRisk(set) = {sd}
  <1>1. Members(set.signatures) = {sd}
    BY MembersOfOne
  <1>2. sd.decision = "Verified" /\ sd.can_issue_high_risk_ticket
    BY DEF SignatureReady
  <1>3. QED
    BY <1>1, <1>2 DEF HighRisk

LEMMA VerifierIsAccepted ==
    ASSUME AdaptersReady, NEW d, set.verifiers = <<d>>, Live("verifiers", d),
           Cites(d, set.adapters), set.hardening = Start.hardening,
           NEW sd, set.signatures = <<sd>>, SignatureReady(sd),
           d.signature_decision_ref = sd.decision_id
    PROVE  VerifiersAccepted(set, now)
  <1> DEFINE needed == {x.decision_id : x \in HighRisk(set)}
  <1>1. VerifierSound(d) /\ d.decision = "Verified" /\ ~Expired(d.expires_at, now)
    BY DEF Live, Sound
  <1>2. \A ref \in d.evidence_refs : ~IsPlaceholder(ref) /\ ~LooksLikeRawSecret(ref)
    BY <1>1, BackedIsReal DEF VerifierSound
  <1>3. StillVerified(d, ExpectedVerifierId(d),
                      {d.evidence_ref, d.signature_decision_ref, d.trust_root_record_ref}, now)
    BY <1>1, <1>2, StaysVerified DEF VerifierSound
  <1>4. RefsAdapter(d.evidence_refs, set.adapters, "CryptographicVerifier", d.provider_ref)
    BY <1>1, CitedIsUsed DEF VerifierSound, AdaptersReady
  <1>5. needed = {sd.decision_id}
    BY HighRiskIsOne
  <1>6. needed # {} /\ Len(set.verifiers) = Cardinality(needed)
    BY <1>5, FS_Singleton, MembersOfOne
  <1>7. Members(set.verifiers) = {d} /\ Distinct(set.verifiers, "signature_decision_ref")
    BY MembersOfOne, DistinctOne
  <1>8. d.signature_decision_ref \in needed
    BY <1>5
  <1>9. set.hardening.cryptographic_verifier_ref = d.provider_ref
    BY <1>1 DEF VerifierSound
  <1> HIDE DEF needed
  <1>10. QED
    BY <1>3, <1>4, <1>6, <1>7, <1>8, <1>9 DEF VerifiersAccepted, needed

\* A rotation decision uses the adapter decision it names, if it names one.
LEMMA RotationIsAccepted ==
    ASSUME AdaptersReady, NEW d, set.rotations = <<d>>, Live("rotations", d),
           set.hardening = Start.hardening, set.credentials = <<Start.credentials[1]>>,
           \A ref \in Given(Field(set.rotations, "adapter_decision_ref")) :
              ref \in Field(set.adapters, "decision_id")
    PROVE  RotationsAccepted(set, now)
  <1> DEFINE c == Start.credentials[1]
             h == Start.hardening
  <1>1. RotationSound(d) /\ d.decision = "Verified" /\ ~Expired(d.expires_at, now)
    BY DEF Live, Sound
  <1>2. StillVerified(d, ExpectedRotationId(d), {d.hardening_evidence_ref}, now)
    BY <1>1, StaysVerified DEF RotationSound
  <1>3. ASSUME d.adapter_decision_ref # NoRef
        PROVE  \E ad \in Members(set.adapters) :
                  /\ ad.decision_id = d.adapter_decision_ref
                  /\ ad.kind = "RotationEnforcement"
                  /\ ad.decision = "Verified"
                  /\ ad.provider_ref = d.rotation_policy_ref
                  /\ ad.decision_id \in d.evidence_refs
    <2>1. Field(set.rotations, "adapter_decision_ref") = {d.adapter_decision_ref}
      BY DistinctOne
    <2>2. d.adapter_decision_ref \in Field(set.adapters, "decision_id")
      BY <1>3, <2>1 DEF Given
    <2>3. PICK ad \in Members(set.adapters) : ad.decision_id = d.adapter_decision_ref
      BY <2>2 DEF Field
    <2>4. PICK given : /\ d.adapter_decision_ref = given.decision_id
                       /\ Verifies(given, "RotationEnforcement", h.rotation_policy_ref)
      BY <1>1, <1>3 DEF RotationSound
    <2>5. ad.decision_id = ExpectedAdapterId(ad)
      BY DEF AdaptersReady, AdaptersAreApart, Members
    <2>6. \A f \in AdapterBinding \union {"decision", "evidence_refs"} : ad[f] = given[f]
      BY <2>3, <2>4, <2>5, AdapterIdBinds DEF Verifies
    <2>7. ad["kind"] = given["kind"] /\ ad["provider_ref"] = given["provider_ref"]
          /\ ad["decision"] = given["decision"]
      BY <2>6 DEF AdapterBinding
    <2>8. d.adapter_decision_ref \in d.evidence_refs /\ d.rotation_policy_ref = h.rotation_policy_ref
      BY <1>1, <1>3 DEF RotationSound
    <2>9. QED
      BY <2>3, <2>4, <2>7, <2>8 DEF Verifies
  <1>4. ValidRotation(d, set.adapters, now)
    BY <1>1, <1>2, <1>3 DEF ValidRotation, RotationSound
  <1>5. OnePerCredential(set.credentials, set.rotations) /\ ForCredential(set.rotations, c) = d
    BY <1>1, OneForOne DEF RotationSound
  <1>6. Members(set.credentials) = {c} /\ Members(set.rotations) = {d}
    BY MembersOfOne
  <1>7. QED
    BY <1>1, <1>4, <1>5, <1>6 DEF RotationsAccepted, RotationSound

\* The adapter of an accepted export is of the provider the tenant configured.
LEMMA ExportIsConfigured ==
    ASSUME TenantIsStrict, NEW d, NEW provider, Backing(d, "ComplianceAuditExport", provider)
    PROVE  provider = Start.hardening.compliance_export_profile_ref
  <1>1. PICK ad \in AdapterDecisions : Verifies(ad, "ComplianceAuditExport", provider)
    BY DEF Backing
  <1>2. PICK e \in Attested : ad \in AdapterIssues(e)
    BY DEF AdapterDecisions
  <1>3. MatchesConfig(e, Config[e.kind]) /\ ad["kind"] = e["kind"] /\ ad["provider_ref"] = e["provider_ref"]
    BY <1>1, <1>2, AdapterOrigin DEF Verifies, AdapterBinding
  <1>4. provider = Config["ComplianceAuditExport"].provider_ref
    BY <1>1, <1>3 DEF Verifies, MatchesConfig
  <1>5. Config["ComplianceAuditExport"].provider_ref
           = HardenedBy(Start.hardening)["ComplianceAuditExport"]
    BY DEF TenantIsStrict
  <1>6. QED
    BY <1>4, <1>5 DEF HardenedBy

LEMMA DeliveryIsAccepted ==
    ASSUME TenantIsStrict, DocumentsAreSealed, AdaptersReady,
           NEW d, set.deliveries = <<d>>, Live("deliveries", d),
           Cites(d, set.adapters), set.hardening = Start.hardening
    PROVE  /\ DeliveriesAccepted(set, now) /\ ~IsPlaceholder(d.storage_provider_ref)
           /\ d.storage_provider_ref = Start.hardening.compliance_export_profile_ref
  <1>1. DeliverySound(d) /\ d.decision = "Verified" /\ ~Expired(d.expires_at, now)
    BY DEF Live, Sound
  <1>2. ~Unbacked(d)
    BY AdaptersAreNamed, UnbackedIsNotCited
  <1>3. ValidDelivery(d) /\ Backing(d, "ComplianceAuditExport", d.storage_provider_ref)
    BY <1>1, <1>2 DEF DeliverySound
  <1>4. d.storage_provider_ref = Start.hardening.compliance_export_profile_ref
    BY <1>3, ExportIsConfigured
  <1>5. RefsAdapter(d.evidence_refs, set.adapters, "ComplianceAuditExport", d.storage_provider_ref)
    BY <1>3, CitedIsUsed DEF AdaptersReady
  <1>6. Members(set.deliveries) = {d} /\ set.deliveries # << >>
    BY MembersOfOne
  <1>7. DeliveriesAccepted(set, now)
    BY <1>1, <1>3, <1>4, <1>5, <1>6 DEF DeliveriesAccepted
  <1>8. ~IsPlaceholder(d.storage_provider_ref)
    BY <1>3 DEF ValidDelivery, AnyPlaceholder
  <1>9. QED
    BY <1>4, <1>7, <1>8

LEMMA StorageIsAccepted ==
    ASSUME DocumentsAreSealed, AdaptersReady, NEW d, set.storages = <<d>>, Live("storages", d),
           Cites(d, set.adapters), NEW sd, set.signatures = <<sd>>, SignatureReady(sd),
           d.root_id = sd.trust_root_ref
    PROVE  StoragesAccepted(set, now)
  <1> DEFINE needed == Given({x.trust_root_ref : x \in HighRisk(set)})
  <1>1. StorageSound(d) /\ d.decision = "Verified" /\ ~Expired(d.expires_at, now)
    BY DEF Live, Sound
  <1>2. ~Unbacked(d)
    BY AdaptersAreNamed, UnbackedIsNotCited
  <1>3. /\ d.decision_id = ExpectedStorageId(d)
        /\ d.verified_at < d.expires_at
        /\ {d.record_id, d.trust_root_hash, d.storage_evidence_ref, d.storage_provider_ref}
              \subseteq d.evidence_refs
        /\ Backing(d, "ExecutorTrustRoots", d.storage_provider_ref)
    BY <1>1, <1>2 DEF StorageSound
  <1>4. \A ref \in d.evidence_refs : ~IsPlaceholder(ref)
    BY <1>3, BackedIsReal
  <1>5. StillVerified(d, ExpectedStorageId(d),
                      {d.record_id, d.trust_root_hash, d.storage_evidence_ref,
                       d.storage_provider_ref}, now)
    BY <1>1, <1>3, <1>4, StaysVerified
  <1>6. RefsAdapter(d.evidence_refs, set.adapters, "ExecutorTrustRoots", d.storage_provider_ref)
    BY <1>3, CitedIsUsed DEF AdaptersReady
  <1>7. needed = {sd.trust_root_ref}
    BY HighRiskIsOne DEF SignatureReady, Given
  <1>8. needed # {} /\ Len(set.storages) = Cardinality(needed)
    BY <1>7, FS_Singleton, MembersOfOne
  <1>9. Members(set.storages) = {d} /\ Distinct(set.storages, "root_id")
    BY MembersOfOne, DistinctOne
  <1>10. d.root_id \in needed
    BY <1>7
  <1> HIDE DEF needed
  <1>11. QED
    BY <1>3, <1>5, <1>6, <1>8, <1>9, <1>10 DEF StoragesAccepted, needed

-----------------------------------------------------------------------------
(* No gate of a whole set is left open.                                     *)

Serves(kind, provider) ==
    /\ Configured(provider)
    /\ \E e \in Members(set.evidence) : e.kind = kind /\ e.provider_ref = provider

LEMMA UsedServes ==
    ASSUME AdaptersReady, NEW refs, NEW kind, NEW provider,
           RefsAdapter(refs, set.adapters, kind, provider), ~IsPlaceholder(provider)
    PROVE  Serves(kind, provider)
  <1>1. PICK i \in DOMAIN set.adapters :
           set.adapters[i].kind = kind /\ set.adapters[i].provider_ref = provider
    BY DEF RefsAdapter
  <1>2. set.evidence[i].kind = kind /\ set.evidence[i].provider_ref = provider
    BY <1>1 DEF AdaptersReady, AdapterReady
  <1>3. set.evidence[i] \in Members(set.evidence)
    BY DEF AdaptersReady, Members
  <1>4. QED
    BY <1>2, <1>3 DEF Serves, Configured

\* A rotation policy is served by the adapter of its kind, whether or not the
\* rotation decision names it.
LEMMA RotationIsServed ==
    ASSUME TenantIsStrict, AdaptersReady, ~IsPlaceholder(Start.hardening.rotation_policy_ref)
    PROVE  Serves("RotationEnforcement", Start.hardening.rotation_policy_ref)
  <1>1. PICK i \in DOMAIN set.adapters : set.adapters[i].kind = "RotationEnforcement"
    BY DEF AdaptersReady
  <1> DEFINE e == set.evidence[i]
  <1>2. AdapterReady(e, set.adapters[i]) /\ e \in Members(set.evidence)
    BY DEF AdaptersReady, Members
  <1>3. e.kind = "RotationEnforcement"
        /\ Config["RotationEnforcement"].provider_ref = e.provider_ref
    BY <1>1, <1>2 DEF AdapterReady, MatchesConfig
  <1>4. Config["RotationEnforcement"].provider_ref
           = HardenedBy(Start.hardening)["RotationEnforcement"]
    BY DEF TenantIsStrict
  <1>5. e.provider_ref = Start.hardening.rotation_policy_ref
    BY <1>3, <1>4 DEF HardenedBy
  <1>6. QED
    BY <1>2, <1>3, <1>5 DEF Serves, Configured

LEMMA AllAreServed ==
    ASSUME set.hardening = Start.hardening,
           Serves("AuthProvider", Start.hardening.auth_provider_ref),
           Serves("ExternalSecretManager", Start.hardening.secret_manager_ref),
           Serves("CryptographicVerifier", Start.hardening.cryptographic_verifier_ref),
           Serves("HardenedSandbox", Start.hardening.hardened_sandbox_profile_ref),
           Serves("SecretInjection", Start.hardening.secret_injection_profile_ref),
           Serves("RotationEnforcement", Start.hardening.rotation_policy_ref),
           Serves("ComplianceAuditExport", Start.hardening.compliance_export_profile_ref)
    PROVE  UnbackedKinds(set) = {}
  <1>1. \A kind \in DOMAIN HardenedBy(Start.hardening) :
           Serves(kind, HardenedBy(Start.hardening)[kind])
    BY DEF HardenedBy
  <1>2. UnbackedKinds(set) = {kind \in DOMAIN HardenedBy(Start.hardening) :
                                 ~Serves(kind, HardenedBy(Start.hardening)[kind])}
    BY DEF UnbackedKinds, Serves
  <1>3. QED
    BY <1>1, <1>2

\* A credential without an expiry never expires, the clock does not get there.
LEMMA CredentialIsOpen ==
    ASSUME NEW c, now \in Times, Configured(c.rotation_ref),
           c.material_policy = "ExecutorInjected",
           NEW d, ~Expired(d.expires_at, now), c.expires_at # Never => d.expires_at = c.expires_at
    PROVE  CredentialGates(c, now) = {}
  <1>1. ~Expired(c.expires_at, now)
    <2>1. CASE c.expires_at = Never
      BY <2>1, TimesAre, ClockAssumption DEF Never, Expired
    <2>2. CASE c.expires_at # Never
      BY <2>2
    <2>3. QED
      BY <2>1, <2>2
  <1>2. QED
    BY <1>1 DEF CredentialGates

LEMMA SignatureIsOpen ==
    ASSUME NEW sd, set.signatures = <<sd>>, SignatureReady(sd)
    PROVE  SignatureGates(set.signatures) = {}
  <1>1. Members(set.signatures) = {sd}
    BY MembersOfOne
  <1>2. sd.decision = "Verified" /\ ValidSignatureDecision(sd) /\ sd.can_issue_high_risk_ticket
    BY DEF SignatureReady
  <1>3. ~\E d \in {sd} : d.decision # "Verified" \/ ~ValidSignatureDecision(d)
    BY <1>2
  <1>4. \E d \in {sd} : d.can_issue_high_risk_ticket
    BY <1>2
  <1>5. QED
    BY <1>1, <1>3, <1>4 DEF SignatureGates

LEMMA WholeIsEvaluable ==
    ASSUME SetIsInOrder, SetInv, HardeningInv, Whole
    PROVE  StrictlyEvaluable(set, now) /\ MissingGates(set, now) = {}
  <1> DEFINE h == Start.hardening
             c == Start.credentials[1]
             tenant == Start.policy.tenant_id
  <1>1. StartIsIssued /\ TenantIsStrict /\ DocumentsAreSealed /\ ReferencesAreReal
    BY DEF SetIsInOrder
  <1>2. /\ now \in Times /\ set.policy = Start.policy /\ set.hardening = h
        /\ set.credentials = Start.credentials
        /\ \E sd \in SignatureDecisions : set.signatures = <<sd>>
    BY WholeIsUnderWork DEF OfTheTenant
  <1>3. set.credentials = <<c>>
    BY <1>1, <1>2 DEF StartIsIssued
  <1>4. AdaptersReady
    BY SetHasReadyAdapters
  <1>5. AdaptersAccepted(set, now)
    BY <1>1, <1>4, AdaptersAreAccepted
  <1>6. PICK au : set.auth = <<au>> /\ Live("auth", au)
    BY OneOfEach DEF Components
  <1>7. PICK ma : set.managers = <<ma>> /\ Live("managers", ma)
    BY OneOfEach DEF Components
  <1>8. PICK ve : set.verifiers = <<ve>> /\ Live("verifiers", ve)
    BY OneOfEach DEF Components
  <1>9. PICK sa : set.sandboxes = <<sa>> /\ Live("sandboxes", sa)
    BY OneOfEach DEF Components
  <1>10. PICK ro : set.rotations = <<ro>> /\ Live("rotations", ro)
    BY OneOfEach DEF Components
  <1>11. PICK in : set.injections = <<in>> /\ Live("injections", in)
    BY OneOfEach DEF Components
  <1>12. PICK de : set.deliveries = <<de>> /\ Live("deliveries", de)
    BY OneOfEach DEF Components
  <1>13. PICK st : set.storages = <<st>> /\ Live("storages", st)
    BY OneOfEach DEF Components
  <1>14. /\ Members(set.auth) = {au} /\ Members(set.managers) = {ma}
         /\ Members(set.verifiers) = {ve} /\ Members(set.sandboxes) = {sa}
         /\ Members(set.rotations) = {ro} /\ Members(set.injections) = {in}
         /\ Members(set.deliveries) = {de} /\ Members(set.storages) = {st}
         /\ Members(set.credentials) = {c}
    BY <1>3, <1>6, <1>7, <1>8, <1>9, <1>10, <1>11, <1>12, <1>13, MembersOfOne
  <1>15. \A d \in {au, ma, ve, sa, in, de, st} : Cites(d, set.adapters)
    <2>1. \A component \in {"auth", "managers", "verifiers", "sandboxes", "injections",
                             "deliveries", "storages"} :
             \A d \in Members(set[component]) : Cites(d, set.adapters)
      BY DEF Whole, Components
    <2>2. QED
      BY <1>14, <2>1
  <1>16. PICK sd \in SignatureDecisions : set.signatures = <<sd>>
    BY <1>2
  <1>17. /\ ve.signature_decision_ref = sd.decision_id /\ st.root_id = sd.trust_root_ref
    BY <1>8, <1>13, <1>16, MembersOfOne DEF Whole
  <1>18. SignatureReady(sd) /\ Members(set.signatures) = {sd}
    BY <1>1, <1>8, <1>16, <1>17, SignatureIsReady, MembersOfOne DEF Live, Sound
  <1>19. AuthAccepted(set, now)
    BY <1>2, <1>4, <1>6, <1>15, AuthIsAccepted
  <1>20. SecretManagersAccepted(set, now)
    BY <1>2, <1>3, <1>4, <1>7, <1>15, ManagerIsAccepted
  <1>21. VerifiersAccepted(set, now)
    BY <1>2, <1>4, <1>8, <1>15, <1>16, <1>17, <1>18, VerifierIsAccepted
  <1>22. SandboxAccepted(set) /\ ValidSandbox(sa, now)
    BY <1>2, <1>4, <1>9, <1>15, SandboxIsAccepted
  <1>23. RotationsAccepted(set, now)
    BY <1>2, <1>3, <1>4, <1>10, RotationIsAccepted DEF Whole
  <1>24. InjectionsAccepted(set, now)
    BY <1>2, <1>3, <1>4, <1>11, <1>15, InjectionIsAccepted
  <1>25. /\ DeliveriesAccepted(set, now) /\ ~IsPlaceholder(de.storage_provider_ref)
         /\ de.storage_provider_ref = h.compliance_export_profile_ref
    BY <1>1, <1>2, <1>4, <1>12, <1>15, DeliveryIsAccepted
  <1>26. StoragesAccepted(set, now)
    BY <1>1, <1>4, <1>13, <1>15, <1>16, <1>17, <1>18, StorageIsAccepted
  <1>27. /\ AuthSound(au) /\ ManagerSound(ma) /\ VerifierSound(ve) /\ SandboxSound(sa)
         /\ RotationSound(ro) /\ InjectionSound(in)
    BY <1>6, <1>7, <1>8, <1>9, <1>10, <1>11 DEF Live, Sound
  <1>28. \A d \in {au, ma, ve, sa, ro, in, de, st} : d.tenant_id = tenant
    BY <1>6, <1>7, <1>8, <1>9, <1>10, <1>11, <1>12, <1>13 DEF Live
  <1>29. h.tenant_id = tenant /\ c.tenant_id = tenant /\ sd.tenant_id = tenant
    BY <1>18, <1>27, <1>28 DEF AuthSound, ManagerSound, SignatureReady
  <1>30. StrictTenant(set)
    BY <1>2, <1>14, <1>28 DEF StrictTenant
  <1>31. \A x \in Members(set.evidence) \union Members(set.adapters) : x.tenant_id = tenant
    <2>1. DOMAIN set.evidence = DOMAIN set.adapters
      BY <1>4 DEF AdaptersReady
    <2>2. \A i \in DOMAIN set.adapters : set.evidence[i].tenant_id = tenant
                                           /\ set.adapters[i].tenant_id = tenant
      BY <1>4 DEF AdaptersReady, AdapterReady
    <2>3. QED
      BY <2>1, <2>2 DEF Members
  <1>32. OneTenant(set, TRUE)
    BY <1>2, <1>14, <1>18, <1>28, <1>29, <1>31 DEF OneTenant
  <1>33. h.evidence_refs # {} /\ ValidCredential(c)
    BY <1>1, <1>27 DEF RotationSound, TenantIsStrict
  <1>34. Evaluable(set, TRUE, now)
    BY <1>2, <1>5, <1>14, <1>22, <1>23, <1>32, <1>33 DEF Evaluable
  <1>35. StrictlyEvaluable(set, now)
    BY <1>19, <1>20, <1>21, <1>22, <1>23, <1>24, <1>25, <1>26, <1>30, <1>34 DEF StrictlyEvaluable
  <1>36. UnbackedKinds(set) = {}
    <2>1. Serves("AuthProvider", h.auth_provider_ref)
      BY <1>4, <1>6, <1>15, <1>27, CitedIsUsed, UsedServes DEF AuthSound, AdaptersReady
    <2>2. Serves("ExternalSecretManager", h.secret_manager_ref)
      BY <1>4, <1>15, <1>27, CitedIsUsed, UsedServes DEF ManagerSound, AdaptersReady
    <2>3. Serves("CryptographicVerifier", h.cryptographic_verifier_ref)
      BY <1>4, <1>15, <1>27, CitedIsUsed, UsedServes DEF VerifierSound, AdaptersReady
    <2>4. Serves("HardenedSandbox", h.hardened_sandbox_profile_ref)
      BY <1>4, <1>15, <1>27, CitedIsUsed, UsedServes DEF SandboxSound, AdaptersReady
    <2>5. Serves("SecretInjection", h.secret_injection_profile_ref)
      BY <1>4, <1>15, <1>27, CitedIsUsed, UsedServes DEF InjectionSound, AdaptersReady
    <2>6. Serves("RotationEnforcement", h.rotation_policy_ref)
      BY <1>1, <1>4, <1>27, RotationIsServed DEF RotationSound, Configured
    <2>7. Serves("ComplianceAuditExport", h.compliance_export_profile_ref)
      <3>1. RefsAdapter(de.evidence_refs, set.adapters, "ComplianceAuditExport",
                        de.storage_provider_ref)
        BY <1>14, <1>25 DEF DeliveriesAccepted
      <3>2. QED
        BY <1>4, <1>25, <3>1, UsedServes
    <2>8. QED
      BY <1>2, <2>1, <2>2, <2>3, <2>4, <2>5, <2>6, <2>7, AllAreServed
  <1>37. CredentialGates(c, now) = {}
    <2>1. ~Expired(ro.expires_at, now)
      BY <1>10 DEF Live
    <2>2. /\ Configured(c.rotation_ref) /\ c.material_policy = "ExecutorInjected"
          /\ c.expires_at # Never => ro.expires_at = c.expires_at
      BY <1>27 DEF RotationSound, ManagerSound
    <2>3. now \in Times
      BY <1>2
    <2> HIDE DEF c
    <2>4. QED
      BY <2>1, <2>2, <2>3, CredentialIsOpen
  <1>38. SignatureGates(set.signatures) = {} /\ PolicyGates(set.policy) = {}
    BY <1>1, <1>2, <1>16, <1>18, SignatureIsOpen DEF TenantIsStrict
  <1>39. set.credentials # << >>
    BY <1>3, MembersOfOne
  <1>40. MissingGates(set, now) = {}
    BY <1>14, <1>36, <1>37, <1>38, <1>39 DEF MissingGates
  <1>41. QED
    BY <1>35, <1>40

-----------------------------------------------------------------------------
(* The adapters of a whole set package into a bundle that loads.            *)

\* An adapter decision of the tenant, its sealed configuration and its contract.
PackedWith(a, config, contract) ==
    /\ Backs(a, config, contract, now)
    /\ a.decision_id = ExpectedAdapterId(a)
    /\ config.kind = a.kind /\ contract.kind = a.kind
    /\ a.tenant_id = Start.policy.tenant_id
    /\ config.tenant_id = a.tenant_id /\ contract.tenant_id = a.tenant_id
    /\ config.record_id =
          <<"production_adapter_provider_config_record", Bound(config, ConfigHeader),
            config.config_hash, config.evidence_refs>>
    /\ contract.record_id =
          <<"production_adapter_readiness_contract_record", Bound(contract, ContractHeader),
            contract.contract_hash, contract.evidence_refs>>
    /\ \A ref \in a.evidence_refs \union {a.decision_id} : ~IsPlaceholder(ref)
    /\ \A ref \in {config.record_id, config.config_hash} \union config.evidence_refs :
          ~IsPlaceholder(ref)
    /\ \A ref \in {contract.record_id, contract.contract_hash} \union contract.evidence_refs :
          ~IsPlaceholder(ref)

LEMMA AdapterIsPacked ==
    ASSUME DocumentsAreSealed, NEW e \in Attested, NEW a, AdapterReady(e, a),
           a.tenant_id = Start.policy.tenant_id
    PROVE  PackedWith(a, Config[a.kind], Contract[a.kind])
  <1> DEFINE config == Config[a.kind]
             contract == Contract[a.kind]
  <1>1. /\ MatchesConfig(e, config) /\ a.kind = e.kind /\ a.tenant_id = e.tenant_id
        /\ SatisfiesContract(a, config, contract, a.kind, a.provider_ref, now)
        /\ ValidAdapterDecision(a, now) /\ contract.tenant_id = a.tenant_id
    BY DEF AdapterReady
  <1>2. Backs(a, config, contract, now)
    BY <1>1 DEF Backs, SatisfiesContract
  <1>3. config.kind = a.kind /\ contract.kind = a.kind /\ config.tenant_id = a.tenant_id
    BY <1>1 DEF MatchesConfig, SatisfiesContract
  <1>4. /\ a.decision_id = ExpectedAdapterId(a)
        /\ \A ref \in a.evidence_refs : ~IsPlaceholder(ref)
        /\ config.record_id \in a.evidence_refs /\ config.config_hash \in a.evidence_refs
        /\ contract.record_id \in a.evidence_refs /\ contract.contract_hash \in a.evidence_refs
    BY <1>1 DEF ValidAdapterDecision, SatisfiesContract, AnyPlaceholder
  <1>5. a.kind \in {x.kind : x \in Attested}
    BY <1>1
  <1>6. /\ config.record_id =
              <<"production_adapter_provider_config_record", Bound(config, ConfigHeader),
                config.config_hash, config.evidence_refs>>
        /\ contract.record_id =
              <<"production_adapter_readiness_contract_record",
                Bound(contract, ContractHeader), contract.contract_hash,
                contract.evidence_refs>>
        /\ ~AnyPlaceholder(config.evidence_refs \union contract.evidence_refs)
    BY <1>5 DEF DocumentsAreSealed
  <1>7. ~IsPlaceholder(a.decision_id)
    BY <1>4, AdapterIdIsClean DEF Clean
  <1> HIDE DEF config, contract
  <1>8. /\ \A ref \in {config.record_id, config.config_hash} \union config.evidence_refs :
              ~IsPlaceholder(ref)
        /\ \A ref \in {contract.record_id, contract.contract_hash} \union contract.evidence_refs :
              ~IsPlaceholder(ref)
    BY <1>4, <1>6 DEF AnyPlaceholder
  <1>9. PackedWith(a, config, contract)
    BY <1>1, <1>2, <1>3, <1>4, <1>6, <1>7, <1>8 DEF PackedWith
  <1>10. QED
    BY <1>9 DEF config, contract

\* The id of a sealed document binds the kind in its header.
LEMMA HeaderIsBound ==
    ASSUME NEW r, NEW t, NEW prefix, NEW header, "kind" \in header, NEW a, NEW b, NEW c, NEW d,
           r.record_id = <<prefix, Bound(r, header), a, b>>,
           t.record_id = <<prefix, Bound(t, header), c, d>>,
           r.record_id = t.record_id
    PROVE  r.kind = t.kind
  <1> DEFINE br == Bound(r, header)
             bt == Bound(t, header)
  <1>1. br["kind"] = r["kind"] /\ bt["kind"] = t["kind"]
    BY DEF Bound
  <1>2. r.record_id = <<prefix, br, a, b>> /\ t.record_id = <<prefix, bt, c, d>>
    OBVIOUS
  <1> HIDE DEF br, bt
  <1>3. <<prefix, br, a, b>>[2] = br /\ <<prefix, bt, c, d>>[2] = bt
    OBVIOUS
  <1>4. br = bt
    BY <1>2, <1>3
  <1>5. QED
    BY <1>1, <1>4

\* The documents of the adapters, in their order.
LEMMA PackagedIs ==
    ASSUME NEW f, Len(set.adapters) \in Nat, DOMAIN set.adapters = 1 .. Len(set.adapters)
    PROVE  /\ DOMAIN Packaged(f) = DOMAIN set.adapters
           /\ Len(Packaged(f)) = Len(set.adapters)
           /\ \A i \in DOMAIN set.adapters : Packaged(f)[i] = f[set.adapters[i].kind]
  <1> DEFINE p == Packaged(f)
  <1>1. DOMAIN p = DOMAIN set.adapters /\ \A i \in DOMAIN set.adapters : p[i] = f[set.adapters[i].kind]
    BY DEF Packaged
  <1>2. p = [i \in 1 .. Len(set.adapters) |-> f[set.adapters[i].kind]]
    BY DEF Packaged
  <1>3. Len(p) = Len(set.adapters)
    BY <1>2
  <1>4. QED
    BY <1>1, <1>3

\* What a bundle gathers from the adapters and their documents.
BundleRefs(ds, configs, contracts) ==
    UNION {UNION Field(ds, "evidence_refs"), Field(ds, "decision_id"),
           UNION {{r.record_id, r.config_hash} \union r.evidence_refs : r \in Members(configs)},
           UNION {{r.record_id, r.contract_hash} \union r.evidence_refs : r \in Members(contracts)}}

BundleIs(scope, ds, configs, contracts, b) ==
    /\ b.scope_ref = scope /\ b.claims_authority = FALSE
    /\ b.adapter_decision_refs = Field(ds, "decision_id")
    /\ b.provider_config_record_refs = Field(configs, "record_id")
    /\ b.provider_config_hashes = Field(configs, "config_hash")
    /\ b.readiness_contract_refs = Field(contracts, "record_id")
    /\ b.readiness_contract_hashes = Field(contracts, "contract_hash")
    /\ b.evidence_refs = BundleRefs(ds, configs, contracts)
    /\ b.bundle_hash = BundleHash(b) /\ b.bundle_id = BundleId(b)

LEMMA BundleSays ==
    ASSUME NEW scope, NEW ds, NEW configs, NEW contracts,
           NEW b, b = ReadinessBundle(scope, ds, configs, contracts)
    PROVE  BundleIs(scope, ds, configs, contracts, b)
  <1> DEFINE refs == BundleRefs(ds, configs, contracts)
             r == [tenant_id |-> ds[1].tenant_id, scope_ref |-> scope,
                   adapter_decision_refs |-> Field(ds, "decision_id"),
                   provider_config_record_refs |-> Field(configs, "record_id"),
                   provider_config_hashes |-> Field(configs, "config_hash"),
                   readiness_contract_refs |-> Field(contracts, "record_id"),
                   readiness_contract_hashes |-> Field(contracts, "contract_hash"),
                   evidence_refs |-> refs]
             hash == BundleHash(r)
             h == [bundle_hash |-> hash] ++ r
             id == BundleId(h)
             hashed == {"tenant_id", "scope_ref", "adapter_decision_refs",
                        "provider_config_record_refs", "provider_config_hashes",
                        "readiness_contract_refs", "readiness_contract_hashes",
                        "evidence_refs"}
             named == {"tenant_id", "scope_ref", "bundle_hash"}
  <1>1. b = [bundle_id |-> id, claims_authority |-> FALSE] ++ h
    BY DEF ReadinessBundle, BundleRefs
  <1> HIDE DEF refs
  <1>2. /\ DOMAIN r = hashed
        /\ r.scope_ref = scope
        /\ r.adapter_decision_refs = Field(ds, "decision_id")
        /\ r.provider_config_record_refs = Field(configs, "record_id")
        /\ r.provider_config_hashes = Field(configs, "config_hash")
        /\ r.readiness_contract_refs = Field(contracts, "record_id")
        /\ r.readiness_contract_hashes = Field(contracts, "contract_hash")
        /\ r.evidence_refs = refs
    OBVIOUS
  <1> HIDE DEF r, hash
  <1>3. /\ DOMAIN h = hashed \union {"bundle_hash"} /\ h.bundle_hash = hash
        /\ \A f \in hashed : h[f] = r[f]
    BY <1>2 DEF ++
  <1> HIDE DEF h, id
  <1>4. /\ b.bundle_id = id /\ b.claims_authority = FALSE
        /\ \A f \in hashed \union {"bundle_hash"} : b[f] = h[f]
    BY <1>1, <1>3 DEF ++
  <1>5. b.bundle_hash = hash /\ \A f \in hashed : b[f] = r[f]
    BY <1>3, <1>4
  <1>6. Bound(b, hashed) = Bound(r, hashed)
    BY <1>5 DEF Bound
  <1>7. b.bundle_hash = BundleHash(b)
    BY <1>5, <1>6 DEF BundleHash, StableId, hash
  <1>8. Bound(b, named) = Bound(h, named)
    BY <1>4 DEF Bound
  <1>9. b.bundle_id = BundleId(b)
    BY <1>4, <1>8 DEF BundleId, StableId, id
  <1>10. QED
    BY <1>2, <1>4, <1>5, <1>7, <1>9 DEF BundleIs, refs

LEMMA PackedSays ==
    ASSUME NEW a, NEW config, NEW contract, PackedWith(a, config, contract)
    PROVE  /\ a.tenant_id = Start.policy.tenant_id /\ config.tenant_id = Start.policy.tenant_id
           /\ contract.tenant_id = Start.policy.tenant_id
           /\ config.kind = a.kind /\ contract.kind = a.kind
           /\ config.record_id = a.provider_config_record_ref
           /\ contract.record_id = a.readiness_contract_ref
  BY DEF PackedWith, Backs

LEMMA PackedIsReal ==
    ASSUME NEW a, NEW config, NEW contract, PackedWith(a, config, contract)
    PROVE  /\ \A ref \in a.evidence_refs \union {a.decision_id} : ~IsPlaceholder(ref)
           /\ \A ref \in {config.record_id, config.config_hash} \union config.evidence_refs :
                 ~IsPlaceholder(ref)
           /\ \A ref \in {contract.record_id, contract.contract_hash} \union contract.evidence_refs :
                 ~IsPlaceholder(ref)
  BY DEF PackedWith

\* Two records of different kinds have different ids.
LEMMA PackedApart ==
    ASSUME NEW a, NEW config, NEW contract, PackedWith(a, config, contract),
           NEW b, NEW other, NEW another, PackedWith(b, other, another), a.kind # b.kind
    PROVE  /\ a.decision_id # b.decision_id
           /\ config.record_id # other.record_id /\ contract.record_id # another.record_id
  <1>1. config.kind # other.kind /\ contract.kind # another.kind
    BY PackedSays
  <1>2. config.record_id # other.record_id
    <2>1. "kind" \in ConfigHeader
      BY DEF ConfigHeader
    <2>2. /\ config.record_id =
                <<"production_adapter_provider_config_record", Bound(config, ConfigHeader),
                  config.config_hash, config.evidence_refs>>
          /\ other.record_id =
                <<"production_adapter_provider_config_record", Bound(other, ConfigHeader),
                  other.config_hash, other.evidence_refs>>
      BY DEF PackedWith
    <2>3. QED
      BY <1>1, <2>1, <2>2, HeaderIsBound
  <1>3. contract.record_id # another.record_id
    <2>1. "kind" \in ContractHeader
      BY DEF ContractHeader
    <2>2. /\ contract.record_id =
                <<"production_adapter_readiness_contract_record", Bound(contract, ContractHeader),
                  contract.contract_hash, contract.evidence_refs>>
          /\ another.record_id =
                <<"production_adapter_readiness_contract_record", Bound(another, ContractHeader),
                  another.contract_hash, another.evidence_refs>>
      BY DEF PackedWith
    <2>3. QED
      BY <1>1, <2>1, <2>2, HeaderIsBound
  <1>4. a.decision_id # b.decision_id
    <2>1. a.decision_id = ExpectedAdapterId(a) /\ b.decision_id = ExpectedAdapterId(b)
      BY DEF PackedWith
    <2>2. "kind" \in AdapterBinding \union {"decision", "evidence_refs"}
      BY DEF AdapterBinding
    <2>3. a["kind"] # b["kind"]
      OBVIOUS
    <2>4. QED
      BY <2>1, <2>2, <2>3, AdapterIdBinds
  <1>5. QED
    BY <1>2, <1>3, <1>4

LEMMA SameFields ==
    ASSUME NEW ds, NEW rs, DOMAIN rs = DOMAIN ds, NEW f, NEW g,
           \A i \in DOMAIN ds : ds[i][f] = rs[i][g]
    PROVE  Field(ds, f) = Field(rs, g)
  BY DEF Field, Members

LEMMA OneValue ==
    ASSUME NEW ds, NEW f, NEW x, NEW i \in DOMAIN ds, \A j \in DOMAIN ds : ds[j][f] = x
    PROVE  Field(ds, f) = {x}
  BY DEF Field, Members

\* Adapters of one tenant and of different kinds, each with its documents.
LEMMA PackageLoads ==
    ASSUME NEW ds, NEW configs, NEW contracts,
           Len(ds) \in Nat, DOMAIN ds = 1 .. Len(ds), NEW first \in DOMAIN ds,
           Len(configs) = Len(ds), DOMAIN configs = DOMAIN ds,
           Len(contracts) = Len(ds), DOMAIN contracts = DOMAIN ds,
           \A i \in DOMAIN ds : PackedWith(ds[i], configs[i], contracts[i]),
           \A i, j \in DOMAIN ds : ds[i].kind = ds[j].kind => i = j
    PROVE  /\ BundleBuildable(<<"review">>, ds, configs, contracts, now)
           /\ BundleLoads(ReadinessBundle(<<"review">>, ds, configs, contracts))
  <1> DEFINE tenant == Start.policy.tenant_id
             scope == <<"review">>
             b == ReadinessBundle(scope, ds, configs, contracts)
             refs == BundleRefs(ds, configs, contracts)
  <1> HIDE DEF b, refs
  <1>1. \A i \in DOMAIN ds :
           /\ ds[i]["tenant_id"] = tenant /\ configs[i]["tenant_id"] = tenant
           /\ contracts[i]["tenant_id"] = tenant
           /\ ds[i]["provider_config_record_ref"] = configs[i]["record_id"]
           /\ ds[i]["readiness_contract_ref"] = contracts[i]["record_id"]
    BY PackedSays
  <1>2. Field(ds, "tenant_id") \union Field(configs, "tenant_id")
            \union Field(contracts, "tenant_id") = {tenant}
    <2>a. /\ \A j \in DOMAIN ds : ds[j]["tenant_id"] = tenant
          /\ \A j \in DOMAIN configs : configs[j]["tenant_id"] = tenant
          /\ \A j \in DOMAIN contracts : contracts[j]["tenant_id"] = tenant
          /\ first \in DOMAIN configs /\ first \in DOMAIN contracts
      BY <1>1
    <2> HIDE DEF tenant
    <2>1. Field(ds, "tenant_id") = {tenant}
      BY <2>a, OneValue
    <2>2. Field(configs, "tenant_id") = {tenant}
      BY <2>a, OneValue
    <2>3. Field(contracts, "tenant_id") = {tenant}
      BY <2>a, OneValue
    <2>4. QED
      BY <2>1, <2>2, <2>3
  <1>3. /\ Field(ds, "provider_config_record_ref") = Field(configs, "record_id")
        /\ Field(ds, "readiness_contract_ref") = Field(contracts, "record_id")
    BY <1>1, SameFields
  <1>4. \A i, j \in DOMAIN ds : i # j =>
           /\ ds[i]["decision_id"] # ds[j]["decision_id"]
           /\ configs[i]["record_id"] # configs[j]["record_id"]
           /\ contracts[i]["record_id"] # contracts[j]["record_id"]
    BY PackedApart
  <1>5. Distinct(ds, "decision_id")
    BY <1>4, ApartIsDistinct
  <1>6. Distinct(configs, "record_id")
    BY <1>4, ApartIsDistinct
  <1>7. Distinct(contracts, "record_id")
    BY <1>4, ApartIsDistinct
  <1>8. \A d \in Members(ds) : \E config \in Members(configs), contract \in Members(contracts) :
           Backs(d, config, contract, now)
    <2>1. \A i \in DOMAIN ds : Backs(ds[i], configs[i], contracts[i], now)
      BY DEF PackedWith
    <2>2. QED
      BY <2>1 DEF Members
  <1>9. BundleIs(scope, ds, configs, contracts, b)
    BY BundleSays DEF b
  <1>10. \A ref \in refs : ~IsPlaceholder(ref)
    <2>1. \A r \in Members(ds) : \A ref \in r.evidence_refs \union {r.decision_id} : ~IsPlaceholder(ref)
      BY PackedIsReal DEF Members
    <2>2. \A r \in Members(configs) : \A ref \in {r.record_id, r.config_hash} \union r.evidence_refs :
             ~IsPlaceholder(ref)
      BY PackedIsReal DEF Members
    <2>3. \A r \in Members(contracts) :
             \A ref \in {r.record_id, r.contract_hash} \union r.evidence_refs : ~IsPlaceholder(ref)
      BY PackedIsReal DEF Members
    <2>4. /\ \A ref \in UNION Field(ds, "evidence_refs") : ~IsPlaceholder(ref)
          /\ \A ref \in Field(ds, "decision_id") : ~IsPlaceholder(ref)
      BY <2>1 DEF Field
    <2>5. QED
      BY <2>2, <2>3, <2>4 DEF refs, BundleRefs
  <1>11. ~AnyPlaceholder(b.evidence_refs \union {scope})
    <2>1. ~IsPlaceholder(scope)
      BY DEF IsPlaceholder, NoRef, Placeholder
    <2>2. b.evidence_refs = refs
      BY <1>9 DEF BundleIs, refs
    <2> HIDE DEF scope
    <2>3. QED
      BY <1>10, <2>1, <2>2 DEF AnyPlaceholder
  <1>12. BundleBuildable(scope, ds, configs, contracts, now)
    <2>1. Cardinality({tenant}) = 1
      BY FS_Singleton
    <2>2. ds # << >>
      OBVIOUS
    <2>3. QED
      BY <1>2, <1>3, <1>5, <1>6, <1>7, <1>8, <1>11, <2>1, <2>2 DEF BundleBuildable, b
  <1>13. BundleLoads(b)
    <2> DEFINE lists == {b.adapter_decision_refs, b.provider_config_record_refs,
                         b.provider_config_hashes, b.readiness_contract_refs,
                         b.readiness_contract_hashes}
    <2>0. /\ ds[first] \in Members(ds) /\ configs[first] \in Members(configs)
          /\ contracts[first] \in Members(contracts)
      BY DEF Members
    <2>1. /\ Field(ds, "decision_id") # {} /\ Field(configs, "record_id") # {}
          /\ Field(configs, "config_hash") # {} /\ Field(contracts, "record_id") # {}
          /\ Field(contracts, "contract_hash") # {}
      BY <2>0 DEF Field
    <2>2. Field(ds, "decision_id") \subseteq refs
      BY DEF refs, BundleRefs
    <2>3. Field(configs, "record_id") \subseteq refs /\ Field(configs, "config_hash") \subseteq refs
      <3>1. UNION {{r.record_id, r.config_hash} \union r.evidence_refs : r \in Members(configs)}
               \subseteq refs
        BY DEF refs, BundleRefs
      <3>2. QED
        BY <3>1 DEF Field
    <2>4. Field(contracts, "record_id") \subseteq refs
          /\ Field(contracts, "contract_hash") \subseteq refs
      <3>1. UNION {{r.record_id, r.contract_hash} \union r.evidence_refs : r \in Members(contracts)}
               \subseteq refs
        BY DEF refs, BundleRefs
      <3>2. QED
        BY <3>1 DEF Field
    <2>5. b.evidence_refs = refs
      BY <1>9 DEF BundleIs, refs
    <2>6. {} \notin lists
      BY <1>9, <2>1 DEF BundleIs
    <2>7. UNION lists \subseteq b.evidence_refs
      BY <1>9, <2>2, <2>3, <2>4, <2>5 DEF BundleIs
    <2>8. /\ ~b.claims_authority /\ b.scope_ref = scope
          /\ b.bundle_hash = BundleHash(b) /\ b.bundle_id = BundleId(b)
      BY <1>9 DEF BundleIs
    <2>9. QED
      BY <1>11, <2>6, <2>7, <2>8 DEF BundleLoads
  <1>14. QED
    BY <1>12, <1>13 DEF b

LEMMA WholeIsPackaged ==
    ASSUME DocumentsAreSealed, AdaptersReady
    PROVE  /\ BundleBuildable(<<"review">>, set.adapters, Packaged(Config), Packaged(Contract), now)
           /\ BundleLoads(ReadinessBundle(<<"review">>, set.adapters, Packaged(Config),
                                          Packaged(Contract)))
  <1> DEFINE ds == set.adapters
             configs == Packaged(Config)
             contracts == Packaged(Contract)
  <1>1. Len(ds) \in Nat /\ DOMAIN ds = 1 .. Len(ds)
    BY DEF AdaptersReady
  <1>2. PICK first : first \in DOMAIN ds
    BY DEF AdaptersReady
  <1>3. /\ DOMAIN configs = DOMAIN ds /\ Len(configs) = Len(ds)
        /\ \A i \in DOMAIN ds : configs[i] = Config[ds[i].kind]
    BY <1>1, PackagedIs
  <1>4. /\ DOMAIN contracts = DOMAIN ds /\ Len(contracts) = Len(ds)
        /\ \A i \in DOMAIN ds : contracts[i] = Contract[ds[i].kind]
    BY <1>1, PackagedIs
  <1>5. \A i \in DOMAIN ds : PackedWith(ds[i], Config[ds[i].kind], Contract[ds[i].kind])
    BY AdapterIsPacked DEF AdaptersReady
  <1>6. \A i \in DOMAIN ds : PackedWith(ds[i], configs[i], contracts[i])
    BY <1>3, <1>4, <1>5
  <1>7. \A i, j \in DOMAIN ds : ds[i].kind = ds[j].kind => i = j
    BY DEF AdaptersReady, AdaptersAreApart
  <1> HIDE DEF ds, configs, contracts
  <1>8. /\ BundleBuildable(<<"review">>, ds, configs, contracts, now)
        /\ BundleLoads(ReadinessBundle(<<"review">>, ds, configs, contracts))
    BY <1>1, <1>2, <1>3, <1>4, <1>6, <1>7, PackageLoads
  <1>9. QED
    BY <1>8 DEF ds, configs, contracts

-----------------------------------------------------------------------------
\* The invariant of the set and that of the verified records imply it.
LEMMA WholeSetIsReady ==
    ASSUME SetIsInOrder, SetInv, HardeningInv
    PROVE  WholeIsReady
  <1> SUFFICES ASSUME Whole
               PROVE  /\ StrictlyEvaluable(set, now) /\ MissingGates(set, now) = {}
                      /\ BundleBuildable(<<"review">>, set.adapters, Packaged(Config),
                                         Packaged(Contract), now)
                      /\ BundleLoads(ReadinessBundle(<<"review">>, set.adapters, Packaged(Config),
                                                     Packaged(Contract)))
    BY DEF WholeIsReady
  <1>1. StrictlyEvaluable(set, now) /\ MissingGates(set, now) = {}
    BY WholeIsEvaluable
  <1>2. AdaptersReady /\ DocumentsAreSealed
    BY SetHasReadyAdapters DEF SetIsInOrder
  <1>3. QED
    BY <1>1, <1>2, WholeIsPackaged

\* A whole set of tenant controls - one current, verified decision of each
\* kind, every one citing an adapter of the set - is never refused: neither
\* by the checks of the readiness decision nor by the packaging of its
\* adapters (WholeIsReady), whichever parts were verified again or exchanged
\* since it was issued, provided that it is in order (SetIsInOrder).
THEOREM WholeSetsAreReady == SetIsInOrder => (Spec => []WholeIsReady)
  <1> SUFFICES ASSUME SetIsInOrder PROVE Spec => []WholeIsReady
    OBVIOUS
  <1>1. Init => SetInv
    BY SetInit DEF SetIsInOrder
  <1>2. SetInv /\ [Next]_vars => SetInv'
    BY SetStep DEF SetIsInOrder
  <1>3. SetInv /\ HardeningInv => WholeIsReady
    BY WholeSetIsReady
  <1>4. QED
    BY Hardened, <1>1, <1>2, <1>3, PTL DEF Spec
=============================================================================
