----------------------------- MODULE VaultTrust -----------------------------
(***************************************************************************)
(* The decisions of the vault about one request: the use of a secret, the  *)
(* quorum approval behind it, break-glass access and its audit record, and *)
(* the executor signatures and trust roots that high-risk tickets need.    *)
(* An operation that returns an error yields no record; its conditions are *)
(* the predicate named after it, the record it returns is a function.      *)
(***************************************************************************)
EXTENDS VaultRecords

-----------------------------------------------------------------------------
\* Quorum approvals.

\* The list of approvers may name one of them twice.
Approvers(a) == {a.approver_ids[i] : i \in DOMAIN a.approver_ids}

ExpectedApprovalId(a) ==
    <<"quorum_approval", Approvers(a),
      Bound(a, {"request_ref", "tenant_id", "required_approvers",
                "evidence_refs", "granted_at", "expires_at"})>>

\* Mutant: the length of the list of approvers counts.
ValidQuorum_Fault(a, request, tenant, minimum, now) ==
    /\ a.request_ref = request
    /\ a.tenant_id = tenant
    /\ a.approval_id = ExpectedApprovalId(a)
    /\ a.evidence_refs # {}
    /\ a.required_approvers >= 2
    /\ a.required_approvers >= minimum
    /\ Cardinality(DOMAIN a.approver_ids) >= a.required_approvers
    /\ a.granted_at <= now
    /\ a.granted_at < a.expires_at
    /\ ~Expired(a.expires_at, now)

ValidQuorum(a, request, tenant, minimum, now) ==
    /\ a.request_ref = request
    /\ a.tenant_id = tenant
    /\ a.approval_id = ExpectedApprovalId(a)
    /\ a.evidence_refs # {}
    /\ a.required_approvers >= 2
    /\ a.required_approvers >= minimum
    /\ Cardinality(Approvers(a)) >= 2
    /\ Cardinality(Approvers(a)) >= a.required_approvers
    /\ a.granted_at <= now
    /\ a.granted_at < a.expires_at
    /\ ~Expired(a.expires_at, now)

\* No approval was passed.
NoApproval == [approval_id |-> NoRef]

-----------------------------------------------------------------------------
\* Secret use.

ValidCredential(c) ==
    \A ref \in {c.external_secret_ref, c.vault_provider_ref, c.fingerprint} :
        ~LooksLikeRawSecret(ref)

InScope(c, use) ==
    /\ MatchesAny(c.allowed_capabilities, use.capability_id)
    /\ MatchesAny(c.allowed_resource_patterns, use.resource_ref)
    /\ use.risk_level <= c.risk_ceiling

ApprovalRequired(c, risk) == risk >= c.approval_required_at_or_above

ExpectedSecretUseId(d) ==
    StableId("secret_use_decision", d,
             {"request_id", "run_id", "tenant_id", "actor_id", "capability_id",
              "resource_ref", "credential_id", "purpose", "risk_level",
              "decision", "approval_policy", "approval_ref", "evidence_refs",
              "raw_secret_exposed", "decided_at", "expires_at"})

\* decide_secret_use fails on a raw, foreign or expired credential, on a
\* request without evidence, and on an approval it needs and cannot accept.
SecretUseDecidable(c, r, a, now) ==
    /\ ValidCredential(c)
    /\ r.evidence_refs # {}
    /\ c.tenant_id = r.tenant_id
    /\ ~Expired(c.expires_at, now)
    /\ (InScope(c, r) /\ ApprovalRequired(c, r.risk_level) /\ a # NoApproval)
          => ValidQuorum(a, r.request_id, r.tenant_id, 2, now)

SecretUseKind(c, r, a) ==
    IF ~InScope(c, r) THEN "Denied"
    ELSE IF ApprovalRequired(c, r.risk_level) /\ a = NoApproval
         THEN "RequiresApproval"
         ELSE "Allowed"

\* Fifteen minutes when the credential has no expiry of its own.
SecretUseWindow == 2

SecretUse(c, r, a, now) ==
    LET kind == SecretUseKind(c, r, a)
        d == [request_id |-> r.request_id, run_id |-> r.run_id,
              tenant_id |-> r.tenant_id, actor_id |-> r.actor_id,
              capability_id |-> r.capability_id, resource_ref |-> r.resource_ref,
              credential_id |-> c.credential_id, purpose |-> r.purpose,
              risk_level |-> r.risk_level, decision |-> kind,
              approval_policy |->
                  IF a # NoApproval \/ kind = "RequiresApproval" THEN "Quorum"
                  ELSE "None",
              approval_ref |-> a.approval_id,
              evidence_refs |->
                  r.evidence_refs \union ({a.approval_id} \ {NoRef}),
              raw_secret_exposed |-> FALSE,
              decided_at |-> now,
              expires_at |-> IF c.expires_at = Never THEN now + SecretUseWindow
                             ELSE c.expires_at]
    IN  [decision_id |-> ExpectedSecretUseId(d)] ++ d

-----------------------------------------------------------------------------
\* Break-glass access.

NeedsQuorum(policy, r) == policy.high_risk_requires_quorum \/ r.risk_level >= High

GlassInScope(policy, r) ==
    /\ policy.break_glass_enabled
    /\ r.actor_roles \intersect policy.break_glass_allowed_roles # {}
    /\ \A capability \in r.requested_capabilities :
          MatchesAny(policy.break_glass_allowed_capabilities, capability)

ExpectedGlassId(policy, r, d) ==
    <<"break_glass_decision", HashOf("tenant_policy_hash", policy), r,
      Bound(d, {"decision", "approval_ref", "audit_required", "evidence_refs",
                "decided_at", "expires_at"})>>

BreakGlassDecidable(policy, r, a, now) ==
    /\ r.evidence_refs # {}
    /\ policy.tenant_id = r.tenant_id
    /\ (GlassInScope(policy, r) /\ NeedsQuorum(policy, r) /\ a # NoApproval)
          => ValidQuorum(a, r.request_id, r.tenant_id, policy.quorum_approvers, now)

BreakGlassKind(policy, r, a) ==
    IF ~GlassInScope(policy, r) THEN "Denied"
    ELSE IF NeedsQuorum(policy, r) /\ a = NoApproval THEN "RequiresApproval"
    ELSE "Allowed"

\* Ten minutes.
BreakGlassWindow == 2

BreakGlass(policy, r, a, now) ==
    LET d == [request_id |-> r.request_id,
              decision |-> BreakGlassKind(policy, r, a),
              approval_ref |-> a.approval_id, audit_required |-> TRUE,
              evidence_refs |->
                  r.evidence_refs \union ({a.approval_id} \ {NoRef}),
              decided_at |-> now, expires_at |-> now + BreakGlassWindow]
    IN  [decision_id |-> ExpectedGlassId(policy, r, d)] ++ d

\* Mutant: the id of the decision is not computed again.
ValidBreakGlass_Fault(policy, r, d, now) ==
    /\ policy.tenant_id = r.tenant_id
    /\ d.request_id = r.request_id
    /\ d.audit_required
    /\ r.evidence_refs \subseteq d.evidence_refs
    /\ d.decided_at <= now
    /\ ~Expired(d.expires_at, now)
    /\ ~(d.decision = "Allowed" /\ d.approval_ref = NoRef /\ NeedsQuorum(policy, r))

ValidBreakGlass(policy, r, d, now) ==
    /\ policy.tenant_id = r.tenant_id
    /\ d.request_id = r.request_id
    /\ d.audit_required
    /\ d.evidence_refs # {}
    /\ r.evidence_refs \subseteq d.evidence_refs
    /\ d.decision_id = ExpectedGlassId(policy, r, d)
    /\ d.decided_at <= now
    /\ d.decided_at < d.expires_at
    /\ ~Expired(d.expires_at, now)
    /\ ~(d.decision = "Allowed" /\ d.approval_ref = NoRef /\ NeedsQuorum(policy, r))
    /\ ~(d.decision = "RequiresApproval" /\ d.approval_ref # NoRef)

-----------------------------------------------------------------------------
\* Audit records.

ExportHash(x) ==
    StableId("audit_export_hash", x,
             {"tenant_id", "scope_ref", "kind", "redaction_profile_ref", "event_refs"})

ExportId(x) == StableId("audit_export", x, {"scope_ref", "event_refs"})

\* audit_export_record; it fails on an empty list of events.
AuditExport(tenant, scope, kind, redaction, events) ==
    LET x == [tenant_id |-> tenant, scope_ref |-> scope, kind |-> kind,
              redaction_profile_ref |-> redaction, event_refs |-> events,
              contains_secret_material |-> FALSE]
    IN  [export_id |-> ExportId(x), export_hash |-> ExportHash(x)] ++ x

ValidAuditExport(x) ==
    /\ x.event_refs # {}
    /\ ~x.contains_secret_material
    /\ x.export_hash = ExportHash(x)
    /\ x.export_id = ExportId(x)

\* audit_break_glass_decision, for a decision that ValidBreakGlass accepts.
BreakGlassAudit(policy, r, d, redaction) ==
    AuditExport(policy.tenant_id, r.run_id, "BreakGlass", redaction,
                {policy.pack_id, r.request_id, d.decision_id})
=============================================================================
