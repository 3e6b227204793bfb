---------------------------- MODULE VaultProfiles ---------------------------
(***************************************************************************)
(* P1 execution readiness: profiles sealed against a tenant policy and,    *)
(* when they can reach production, against one production readiness        *)
(* decision; the decision whether a request may enter the P0 chain; and    *)
(* the audit and compliance bundles that export it.                        *)
(***************************************************************************)
EXTENDS VaultTrust, VaultAdapters

-----------------------------------------------------------------------------
\* Production readiness decisions, as the later steps accept them.

\* The id binds the policy pack and not the tenant.
ExpectedReadinessId(pack, d) ==
    <<"production_readiness", pack,
      Bound(d, {"decision", "missing_gates", "evidence_refs"})>>

ReadinessHash(d) ==
    StableId("production_readiness_evidence_hash", d,
             {"decision_id", "decision", "missing_gates", "evidence_refs"})

Readiness(tenant, pack, gates, evidence) ==
    LET d == [tenant_id |-> tenant, missing_gates |-> gates,
              decision |-> IF gates = {} THEN "Ready" ELSE "Blocked",
              evidence_refs |-> evidence]
    IN  [decision_id |-> ExpectedReadinessId(pack, d)] ++ d

NoReadiness == [decision_id |-> NoRef]

\* The references a record or a bundle keeps of the readiness decision.
ReadinessRefs(d) ==
    IF d = NoReadiness
    THEN [production_readiness_ref |-> NoRef,
          production_readiness_evidence_hash |-> NoRef]
    ELSE [production_readiness_ref |-> d.decision_id,
          production_readiness_evidence_hash |-> ReadinessHash(d)]

Given(refs) == refs \ {NoRef}

KeptRefs(r) == Given({r.production_readiness_ref, r.production_readiness_evidence_hash})

ReadyFor(d, tenant, pack) ==
    /\ d.tenant_id = tenant
    /\ d.decision = "Ready"
    /\ d.missing_gates = {}
    /\ d.evidence_refs # {}
    /\ d.decision_id = ExpectedReadinessId(pack, d)

-----------------------------------------------------------------------------
\* Profiles.

NeedsReadiness(profile) == profile.mode = "Production" \/ profile.allow_credential_use

ProfileHash(profile) == HashOf("p1_execution_profile_hash", profile)

ProfileSealable(policy_record, profile, readiness) ==
    LET policy == policy_record.policy
    IN  /\ PolicyPackLoads(policy_record)
        /\ profile.evidence_refs # {}
        /\ profile.tenant_id = policy.tenant_id
        /\ IF NeedsReadiness(profile)
           THEN /\ readiness # NoReadiness
                /\ ReadyFor(readiness, policy.tenant_id, policy.pack_id)
           ELSE readiness = NoReadiness

\* What a profile record rests on besides its readiness decision.
ProfileRefs(policy_record, profile) ==
    profile.evidence_refs
        \union {policy_record.policy.pack_id, policy_record.record_id,
                policy_record.policy_hash}
        \union policy_record.policy.credential_scope_refs
        \union policy_record.evidence_refs

SealedProfile(policy_record, profile, readiness) ==
    LET kept == ReadinessRefs(readiness)
        refs == ProfileRefs(policy_record, profile) \union KeptRefs(kept)
    IN  [record_id |->
             <<"p1_execution_profile_record", policy_record.policy.pack_id,
               policy_record.record_id, policy_record.policy_hash,
               profile.profile_id, ProfileHash(profile), kept, refs>>,
         tenant_id |-> profile.tenant_id, profile_id |-> profile.profile_id,
         tenant_policy_pack_ref |-> policy_record.policy.pack_id,
         tenant_policy_record_ref |-> policy_record.record_id,
         tenant_policy_hash |-> policy_record.policy_hash,
         profile_hash |-> ProfileHash(profile), profile |-> profile,
         evidence_refs |-> refs] ++ kept

ProfileLoads(record, policy_record) ==
    LET policy == policy_record.policy
    IN  /\ PolicyPackLoads(policy_record)
        /\ record.tenant_id = policy.tenant_id
        /\ record.profile.tenant_id = policy.tenant_id
        /\ record.tenant_policy_pack_ref = policy.pack_id
        /\ record.tenant_policy_record_ref = policy_record.record_id
        /\ record.tenant_policy_hash = policy_record.policy_hash
        /\ ProfileRefs(policy_record, record.profile) \subseteq record.evidence_refs
        /\ record.profile_hash = ProfileHash(record.profile)
        /\ record.profile_id = record.profile.profile_id
        /\ IF NeedsReadiness(record.profile)
           THEN /\ Cardinality(KeptRefs(record)) = 2
                /\ KeptRefs(record) \subseteq record.evidence_refs
           ELSE KeptRefs(record) = {}

\* Mutant: any ready decision of the tenant and pack will do.
ReadinessMatches_Fault(record, readiness) ==
    IF NeedsReadiness(record.profile)
    THEN /\ readiness # NoReadiness
         /\ ReadyFor(readiness, record.tenant_id, record.tenant_policy_pack_ref)
    ELSE readiness = NoReadiness

\* A record is loaded, or audited, with the readiness decision it was sealed
\* with, and without one when it needs none.
ReadinessMatches(record, readiness) ==
    IF NeedsReadiness(record.profile)
    THEN /\ readiness # NoReadiness
         /\ ReadyFor(readiness, record.tenant_id, record.tenant_policy_pack_ref)
         /\ ReadinessRefs(readiness) =
               Bound(record, {"production_readiness_ref",
                              "production_readiness_evidence_hash"})
    ELSE readiness = NoReadiness

ProfileLoadsWithReadiness(record, policy_record, readiness) ==
    ProfileLoads(record, policy_record) /\ ReadinessMatches(record, readiness)

-----------------------------------------------------------------------------
\* May a request enter the P0 chain?

P1Decidable(profile, r, readiness) ==
    /\ profile.evidence_refs # {} /\ r.evidence_refs # {}
    /\ profile.tenant_id = r.tenant_id
    /\ readiness # NoReadiness => readiness.tenant_id = r.tenant_id

\* Any ready decision of the tenant will do here: its id, its policy pack and
\* its age are not looked at.
LooksReady(readiness) == readiness # NoReadiness /\ readiness.decision = "Ready"

RequestNeedsReadiness(profile, r) ==
    \/ profile.mode = "Production"
    \/ profile.require_production_readiness_for_high_risk /\ r.risk_level >= High
    \/ r.requires_credential

BlockedGates(profile, r, readiness) ==
    {g \in {"CapabilityScope", "PermissionMode", "RiskCeiling", "CredentialUse",
            "ProductionReadiness"} :
        \/ g = "CapabilityScope"
              /\ ~MatchesAny(profile.allowed_capabilities, r.capability_id)
        \/ g = "PermissionMode" /\ r.permission_mode \notin profile.allowed_permission_modes
        \/ g = "RiskCeiling" /\ r.risk_level > profile.max_risk_level
        \/ g = "CredentialUse" /\ r.requires_credential /\ ~profile.allow_credential_use
        \/ g = "ProductionReadiness"
              /\ RequestNeedsReadiness(profile, r) /\ ~LooksReady(readiness)}

ExpectedP1Id(profile_id, d) ==
    <<"p1_execution_readiness", profile_id,
      Bound(d, {"request_id", "decision", "blocked_gates", "evidence_refs"})>>

P1Decision(profile, r, readiness) ==
    LET gates == BlockedGates(profile, r, readiness)
        d == [request_id |-> r.request_id, tenant_id |-> r.tenant_id,
              mode |-> profile.mode, blocked_gates |-> gates,
              decision |-> IF gates = {} THEN "Ready" ELSE "Blocked",
              evidence_refs |-> profile.evidence_refs \union r.evidence_refs
                                   \union Given({readiness.decision_id}),
              can_enter_p0_execution_chain |-> gates = {},
              claims_authority |-> FALSE]
    IN  [decision_id |-> ExpectedP1Id(profile.profile_id, d)] ++ d

\* Mutant: the readiness decision behind the P1 decision is not compared.
P1DecisionFits_Fault(d, record) ==
    /\ d.tenant_id = record.tenant_id
    /\ d.mode = record.profile.mode
    /\ d.evidence_refs # {}
    /\ record.profile.evidence_refs \subseteq d.evidence_refs
    /\ d.decision_id = ExpectedP1Id(record.profile.profile_id, d)
    /\ ~d.claims_authority
    /\ d.can_enter_p0_execution_chain = (d.decision = "Ready")
    /\ (d.decision = "Ready") = (d.blocked_gates = {})

\* A decision is checked against the profile record before it is exported.
P1DecisionFits(d, record) ==
    /\ d.tenant_id = record.tenant_id
    /\ d.mode = record.profile.mode
    /\ d.evidence_refs # {}
    /\ record.profile.evidence_refs \subseteq d.evidence_refs
    /\ d.decision_id = ExpectedP1Id(record.profile.profile_id, d)
    /\ ~d.claims_authority
    /\ d.can_enter_p0_execution_chain = (d.decision = "Ready")
    /\ (d.decision = "Ready") = (d.blocked_gates = {})
    /\ Given({record.production_readiness_ref}) \subseteq d.evidence_refs

P1DecisionAnswers(d, record, r) ==
    /\ P1DecisionFits(d, record)
    /\ r.tenant_id = d.tenant_id
    /\ d.request_id = r.request_id
    /\ r.evidence_refs \subseteq d.evidence_refs

\* audit_p1_execution_readiness, for a decision that fits the record.
P1Audit(d, record, redaction) ==
    AuditExport(d.tenant_id, d.request_id, "P1ExecutionReadiness", redaction,
                {record.record_id, d.decision_id, d.request_id})

-----------------------------------------------------------------------------
\* The audit bundle of one P1 execution.

P1BundleHash(b) ==
    StableId("p1_execution_audit_bundle_hash", b,
             {"request_id", "profile_record_ref", "readiness_decision_ref",
              "audit_export_hash", "production_readiness_ref",
              "production_readiness_evidence_hash", "evidence_refs"})

P1BundleId(b) ==
    StableId("p1_execution_audit_bundle", b,
             {"request_id", "profile_record_ref", "readiness_decision_ref",
              "audit_export_ref", "bundle_hash"})

P1Bundlable(r, d, record, x, readiness) ==
    /\ \A t \in {d.tenant_id, record.tenant_id, x.tenant_id} : t = r.tenant_id
    /\ readiness # NoReadiness => readiness.tenant_id = r.tenant_id
    /\ {} \notin {r.evidence_refs, d.evidence_refs, record.evidence_refs, x.event_refs}
    /\ ValidAuditExport(x)
    /\ P1DecisionAnswers(d, record, r)
    /\ x.kind = "P1ExecutionReadiness"
    /\ {record.record_id, d.decision_id, r.request_id} \subseteq x.event_refs
    /\ ReadinessMatches(record, readiness)

P1Bundle(r, d, record, x, readiness) ==
    LET b == [tenant_id |-> r.tenant_id, run_id |-> r.run_id,
              request_id |-> r.request_id, profile_record_ref |-> record.record_id,
              tenant_policy_hash |-> record.tenant_policy_hash,
              production_readiness_ref |-> record.production_readiness_ref,
              production_readiness_evidence_hash |->
                  record.production_readiness_evidence_hash,
              readiness_decision_ref |-> d.decision_id,
              audit_export_ref |-> x.export_id, audit_export_hash |-> x.export_hash,
              redaction_profile_ref |-> x.redaction_profile_ref,
              can_enter_p0_execution_chain |-> d.can_enter_p0_execution_chain,
              claims_authority |-> FALSE, contains_secret_material |-> FALSE,
              evidence_refs |->
                  UNION {r.evidence_refs, d.evidence_refs, record.evidence_refs,
                         x.event_refs,
                         {record.record_id, record.tenant_policy_pack_ref,
                          record.tenant_policy_record_ref,
                          record.tenant_policy_hash, d.decision_id,
                          x.export_id, x.export_hash},
                         KeptRefs(ReadinessRefs(readiness)),
                         IF readiness = NoReadiness THEN {} ELSE readiness.evidence_refs}]
        h == [bundle_hash |-> P1BundleHash(b)] ++ b
    IN  [bundle_id |-> P1BundleId(h)] ++ h

ValidP1Bundle(b) ==
    /\ ~b.contains_secret_material /\ ~b.claims_authority
    /\ {b.audit_export_hash, b.audit_export_ref, b.readiness_decision_ref,
        b.profile_record_ref, b.tenant_policy_hash} \subseteq b.evidence_refs
    /\ KeptRefs(b) \subseteq b.evidence_refs
    /\ b.bundle_hash = P1BundleHash(b)
    /\ b.bundle_id = P1BundleId(b)

-----------------------------------------------------------------------------
\* The compliance export of a tenant: audit records and P1 bundles that share
\* the tenant, the redaction profile and the readiness decision.

ComplianceHash(b) ==
    StableId("compliance_export_bundle_hash", b,
             {"tenant_policy_record_ref", "tenant_policy_hash", "scope_ref",
              "redaction_profile_ref", "audit_export_refs",
              "p1_execution_bundle_refs", "production_readiness_ref",
              "production_readiness_evidence_hash", "evidence_refs"})

ComplianceId(b) ==
    StableId("compliance_export_bundle", b, {"tenant_id", "scope_ref", "bundle_hash"})

RedactionProfiles(exports, bundles) ==
    {x.redaction_profile_ref : x \in exports \union bundles}

ComplianceExportable(policy_record, exports, bundles, readiness) ==
    LET policy == policy_record.policy
    IN  /\ PolicyPackLoads(policy_record)
        /\ exports \union bundles # {}
        /\ policy.audit_export_required
        /\ \A x \in exports \union bundles : x.tenant_id = policy.tenant_id
        /\ \A x \in exports : ValidAuditExport(x)
        /\ \A b \in bundles : ValidP1Bundle(b)
        /\ readiness # NoReadiness => ReadyFor(readiness, policy.tenant_id, policy.pack_id)
        /\ \A b \in bundles :
              ReadinessRefs(readiness) = Bound(b, {"production_readiness_ref",
                                                   "production_readiness_evidence_hash"})
        /\ Cardinality(RedactionProfiles(exports, bundles)) = 1

ComplianceBundle(scope, policy_record, exports, bundles, readiness) ==
    LET events == (UNION {x.event_refs \union {x.export_hash} : x \in exports})
                    \union (UNION {b.evidence_refs : b \in bundles})
        b == [tenant_id |-> policy_record.policy.tenant_id, scope_ref |-> scope,
              tenant_policy_record_ref |-> policy_record.record_id,
              tenant_policy_hash |-> policy_record.policy_hash,
              redaction_profile_ref |->
                  CHOOSE p \in RedactionProfiles(exports, bundles) : TRUE,
              audit_export_refs |-> {x.export_id : x \in exports},
              p1_execution_bundle_refs |-> {x.bundle_id : x \in bundles},
              event_refs |-> events, contains_secret_material |-> FALSE,
              evidence_refs |->
                  UNION {policy_record.evidence_refs, events,
                         {policy_record.record_id, policy_record.policy_hash},
                         {x.export_id : x \in exports}, {x.bundle_id : x \in bundles},
                         KeptRefs(ReadinessRefs(readiness)),
                         IF readiness = NoReadiness THEN {} ELSE readiness.evidence_refs}]
               ++ ReadinessRefs(readiness)
        h == [bundle_hash |-> ComplianceHash(b)] ++ b
    IN  [bundle_id |-> ComplianceId(h)] ++ h

ValidComplianceBundle(b) ==
    /\ b.audit_export_refs \union b.p1_execution_bundle_refs # {}
    /\ b.event_refs # {}
    /\ ~b.contains_secret_material
    /\ {b.tenant_policy_record_ref, b.tenant_policy_hash} \subseteq b.evidence_refs
    /\ UNION {b.audit_export_refs, b.p1_execution_bundle_refs, b.event_refs}
          \subseteq b.evidence_refs
    /\ KeptRefs(b) \subseteq b.evidence_refs
    /\ (b.production_readiness_ref = NoRef) = (b.production_readiness_evidence_hash = NoRef)
    /\ b.bundle_hash = ComplianceHash(b)
    /\ b.bundle_id = ComplianceId(b)

-----------------------------------------------------------------------------
\* The delivery of a compliance export to external storage.

ExpectedDeliveryId(d) ==
    StableId("compliance_export_delivery", d,
             {"tenant_id", "bundle_id", "bundle_hash", "tenant_policy_hash",
              "production_readiness_evidence_hash", "delivery_evidence_ref",
              "delivery_ref", "adapter_decision_ref", "decision", "evidence_refs"})

\* ad is the adapter decision the caller passes, or NoAdapter.
NoAdapter == [decision_id |-> NoRef]

DeliveryVerifies(b, e, ad, now) ==
    /\ ValidComplianceBundle(b)
    /\ b.tenant_id = e.tenant_id
    /\ b.bundle_id = e.bundle_id /\ b.bundle_hash = e.bundle_hash
    /\ ad # NoAdapter =>
          /\ ad.tenant_id = b.tenant_id
          /\ ad.decision = "Verified"
          /\ ad.kind = "ComplianceAuditExport"
          /\ ad.provider_ref = e.storage_provider_ref
          /\ e.adapter_decision_ref = ad.decision_id
    /\ ~BadWindow(e.delivered_at, e.expires_at, now)
    /\ ~AnyPlaceholder({e.evidence_id, e.delivery_ref, e.storage_provider_ref} \union e.refs)
    /\ e.adapter_decision_ref # Placeholder

DeliveryDecision(b, e, ad, verdict, now) ==
    LET d == [tenant_id |-> b.tenant_id, bundle_id |-> b.bundle_id,
              bundle_hash |-> b.bundle_hash, tenant_policy_hash |-> b.tenant_policy_hash,
              production_readiness_evidence_hash |-> b.production_readiness_evidence_hash,
              delivery_evidence_ref |-> e.evidence_id, delivery_ref |-> e.delivery_ref,
              storage_provider_ref |-> e.storage_provider_ref,
              adapter_decision_ref |-> e.adapter_decision_ref,
              decision |-> verdict, verified_at |-> now, expires_at |-> e.expires_at,
              evidence_refs |->
                  {b.bundle_id, b.bundle_hash, b.tenant_policy_record_ref,
                   b.tenant_policy_hash, e.evidence_id, e.delivery_ref,
                   e.storage_provider_ref}
                    \union e.refs \union Given({e.adapter_decision_ref}) \union KeptRefs(b)
                    \union (IF ad = NoAdapter THEN {}
                            ELSE {ad.decision_id} \union ad.evidence_refs)]
    IN  [decision_id |-> ExpectedDeliveryId(d)] ++ d

VerifyDelivery(b, e, ad, now) ==
    DeliveryDecision(b, e, ad,
        IF DeliveryVerifies(b, e, ad, now) THEN "Verified" ELSE "Rejected", now)

VerifyDeliveryWithContract(b, e, ad, config_record, contract_record, now) ==
    DeliveryDecision(b, e, ad,
        IF /\ DeliveryVerifies(b, e, ad, now)
           /\ SatisfiesContract(ad, config_record, contract_record,
                                "ComplianceAuditExport", e.storage_provider_ref, now)
        THEN "Verified" ELSE "Rejected", now)
=============================================================================
