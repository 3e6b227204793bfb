----------------------------- MODULE VaultReview -----------------------------
(***************************************************************************)
(* The vault's decisions about the requests of one tenant and the records  *)
(* that leave it for review: secret use and break-glass access with their  *)
(* quorum approvals, the P1 profile that is sealed against a readiness     *)
(* decision, the P1 decision about a request, and the audit, P1 and        *)
(* compliance bundles made of them.  Between any two of these calls the    *)
(* tenant policy can be edited, another readiness decision be issued, or   *)
(* time pass.  The caller keeps the records and passes whichever it likes. *)
(***************************************************************************)
EXTENDS VaultProfiles, VaultTenant

CONSTANTS
    Policies,        \* the contents the tenant policy takes
    Credential,
    UseRequests, GlassRequests, P1Requests,
    Approvals,       \* the quorum approvals that are presented
    Profiles,
    Evidence,        \* the evidence sets a readiness decision can rest on
    Redactions,
    MaxTime,         \* bound: the clock stops here
    MaxCalls         \* bound: calls of the vault

\* Times and numbers of approvers are numbers, lists are finite.
ASSUME ApprovalsAssumption ==
    /\ \A a \in Approvals :
          /\ IsFiniteSet(Approvers(a))
          /\ a.required_approvers \in Nat /\ a.expires_at \in Nat
    /\ \A p \in Policies : p.quorum_approvers \in Nat

VARIABLES
    policy_record,   \* the tenant policy pack, sealed again after every edit
    use, glass,      \* the last secret-use and break-glass decisions
    use_basis, glass_basis,  \* ghosts: what those decisions were made from
    record, sealed,  \* the P1 profile record; ghost: what it was sealed with
    p1, p1_basis,    \* the last P1 decision; ghost: what it was made from
    exports,         \* the audit export records
    bundle, bundled, \* the P1 audit bundle; ghost: the decision and the seal behind it
    compliance,      \* the compliance export
    calls

access == <<use, glass, use_basis, glass_basis>>
profile == <<record, sealed>>
decided == <<p1, p1_basis>>
review == <<exports, bundle, bundled, compliance>>
reviewVars == <<now, policy_record, access, readiness, profile, decided, review, calls>>

Nothing == << >>

policy == policy_record.policy

ReviewInit ==
    /\ now = 0
    /\ policy_record \in {SealedPolicyPack(p, {<<"seal">>}) : p \in Policies}
    /\ use = Nothing /\ use_basis = Nothing
    /\ glass = Nothing /\ glass_basis = Nothing
    /\ readiness = NoReadiness
    /\ record = Nothing /\ sealed = Nothing
    /\ p1 = Nothing /\ p1_basis = Nothing
    /\ exports = {}
    /\ bundle = Nothing /\ bundled = Nothing
    /\ compliance = Nothing
    /\ calls = 0

Call == calls < MaxCalls /\ calls' = calls + 1

-----------------------------------------------------------------------------
\* Access.

\* decide_secret_use
DecideSecretUse(r, a) ==
    /\ Call
    /\ SecretUseDecidable(Credential, r, a, now)
    /\ use' = SecretUse(Credential, r, a, now)
    /\ use_basis' = [request |-> r, approval |-> a]
    /\ UNCHANGED <<now, policy_record, glass, glass_basis, readiness, profile, decided,
                   review>>

\* decide_break_glass
DecideBreakGlass(r, a) ==
    /\ Call
    /\ BreakGlassDecidable(policy, r, a, now)
    /\ glass' = BreakGlass(policy, r, a, now)
    /\ glass_basis' = [policy |-> policy, request |-> r, approval |-> a]
    /\ UNCHANGED <<now, policy_record, use, use_basis, readiness, profile, decided, review>>

\* audit_break_glass_decision
AuditBreakGlass(r, redaction) ==
    /\ Call
    /\ glass # Nothing /\ ValidBreakGlass(policy, r, glass, now)
    /\ exports' = exports \union {BreakGlassAudit(policy, r, glass, redaction)}
    /\ UNCHANGED <<now, policy_record, access, readiness, profile, decided, bundle,
                   bundled, compliance>>

-----------------------------------------------------------------------------
\* P1 execution.

\* The outcome of some evaluation of the production readiness of the tenant.
IssueReadiness(gates, evidence) ==
    /\ Call
    /\ readiness' = Readiness(policy.tenant_id, policy.pack_id, gates, evidence)
    /\ UNCHANGED <<now, policy_record, access, profile, decided, review>>

\* seal_p1_execution_profile and its form with a readiness decision
SealProfile(p, with) ==
    /\ Call
    /\ ProfileSealable(policy_record, p, with)
    /\ record' = SealedProfile(policy_record, p, with)
    /\ sealed' = [policy |-> policy, readiness |-> with]
    /\ UNCHANGED <<now, policy_record, access, readiness, decided, review>>

\* evaluate_p1_execution_readiness
EvaluateP1(r, with) ==
    /\ Call
    /\ record # Nothing /\ P1Decidable(record.profile, r, with)
    /\ p1' = P1Decision(record.profile, r, with)
    /\ p1_basis' = [request |-> r, readiness |-> with]
    /\ UNCHANGED <<now, policy_record, access, readiness, profile, review>>

\* audit_p1_execution_readiness
AuditP1(redaction) ==
    /\ Call
    /\ record # Nothing /\ p1 # Nothing /\ P1DecisionFits(p1, record)
    /\ exports' = exports \union {P1Audit(p1, record, redaction)}
    /\ UNCHANGED <<now, policy_record, access, readiness, profile, decided, bundle,
                   bundled, compliance>>

\* p1_execution_audit_bundle and its form with a readiness decision
BundleP1(r, x, with) ==
    /\ Call
    /\ record # Nothing /\ p1 # Nothing /\ P1Bundlable(r, p1, record, x, with)
    /\ bundle' = P1Bundle(r, p1, record, x, with)
    /\ bundled' = [decided |-> p1_basis, sealed |-> sealed]
    /\ UNCHANGED <<now, policy_record, access, readiness, profile, decided, exports,
                   compliance>>

\* compliance_export_bundle
ExportCompliance(xs, bs, with) ==
    /\ Call
    /\ ComplianceExportable(policy_record, xs, bs, with)
    /\ compliance' = ComplianceBundle(<<"scope">>, policy_record, xs, bs, with)
    /\ UNCHANGED <<now, policy_record, access, readiness, profile, decided, exports,
                   bundle, bundled>>

-----------------------------------------------------------------------------
EditPolicy ==
    /\ Call
    /\ \E p \in Policies \ {policy} : policy_record' = SealedPolicyPack(p, {<<"seal">>})
    /\ UNCHANGED <<now, access, readiness, profile, decided, review>>

TimePasses ==
    /\ now < MaxTime
    /\ now' = now + 1
    /\ UNCHANGED <<policy_record, access, readiness, profile, decided, review, calls>>

\* The readiness decision a caller passes, if any.
Passed == {readiness, NoReadiness}

Bundles == {bundle} \ {Nothing}

ReviewNext ==
    \/ \E r \in UseRequests, a \in Approvals \union {NoApproval} : DecideSecretUse(r, a)
    \/ \E r \in GlassRequests, a \in Approvals \union {NoApproval} : DecideBreakGlass(r, a)
    \/ \E r \in GlassRequests, redaction \in Redactions : AuditBreakGlass(r, redaction)
    \/ \E gates \in {{}, {"TenantPolicy"}}, e \in Evidence : IssueReadiness(gates, e)
    \/ \E p \in Profiles, with \in Passed : SealProfile(p, with)
    \/ \E r \in P1Requests, with \in Passed : EvaluateP1(r, with)
    \/ \E redaction \in Redactions : AuditP1(redaction)
    \/ \E r \in P1Requests, x \in exports, with \in Passed : BundleP1(r, x, with)
    \/ \E xs \in SUBSET exports, bs \in SUBSET Bundles, with \in Passed :
          ExportCompliance(xs, bs, with)
    \/ EditPolicy
    \/ TimePasses

-----------------------------------------------------------------------------
\* Two distinct approvers, or as many as are asked for, granted this request.
Approved(a, request, minimum, at) ==
    /\ a # NoApproval
    /\ a.request_ref = request.request_id /\ a.tenant_id = request.tenant_id
    /\ Cardinality(Approvers(a)) >= 2 /\ Cardinality(Approvers(a)) >= minimum
    /\ a.granted_at <= at /\ at < a.expires_at

\* A secret use or a break-glass access that needs a quorum is only allowed with
\* the approval of that many distinct people, for that request, and live when the
\* decision was made; approvals name their approvers in a list that may repeat.
AllowedHasQuorum ==
    /\ (use # Nothing /\ use.decision = "Allowed"
            /\ ApprovalRequired(Credential, use.risk_level))
        => Approved(use_basis.approval, use_basis.request, 2, use.decided_at)
    /\ (glass # Nothing /\ glass.decision = "Allowed"
            /\ NeedsQuorum(glass_basis.policy, glass_basis.request))
        => Approved(glass_basis.approval, glass_basis.request,
                    glass_basis.policy.quorum_approvers, glass.decided_at)

\* A break-glass decision enters the audit trail only inside its window, for the
\* request and under the policy content it was made with: an edit of the policy
\* between the decision and its audit is noticed.
GlassAuditIsOfTheDecision ==
    [][\A x \in exports' \ exports :
           x.kind = "BreakGlass" =>
               /\ glass_basis.policy = policy
               /\ glass_basis.request.request_id \in x.event_refs
               /\ glass.decided_at <= now /\ now < glass.expires_at]_reviewVars

\* A profile record loads only under the policy content, and only with the
\* readiness decision, that it was sealed with.
LoadsAsSealed ==
    (record # Nothing /\ ProfileLoadsWithReadiness(record, policy_record, readiness))
        => sealed = [policy |-> policy, readiness |-> readiness]

\* A P1 bundle of a profile that needs production readiness was decided with the
\* very readiness decision the profile was sealed with.  The evaluation takes any
\* ready decision of the tenant; only the audit compares it with the seal.
BundleRestsOnTheSeal ==
    (bundle # Nothing /\ bundle.production_readiness_ref # NoRef)
        => bundled.decided.readiness = bundled.sealed.readiness

=============================================================================
