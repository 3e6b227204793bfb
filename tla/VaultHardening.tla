--------------------------- MODULE VaultHardening ---------------------------
(***************************************************************************)
(* Production hardening: trust roots and executor signatures, the typed    *)
(* decisions about each hardening component, and the evaluation of the     *)
(* whole decision set into one production readiness decision.              *)
(*                                                                         *)
(* The evidence a component returns is a record with the provider it names,*)
(* the adapter decision it is bound to, its time window and, in refs, the  *)
(* policy and attestation references that only have to be real ones.       *)
(***************************************************************************)
EXTENDS VaultProfiles

-----------------------------------------------------------------------------
\* Trust roots and executor signatures.

ValidTrustRoot(root) ==
    /\ root.evidence_refs # {}
    /\ root.valid_from < root.valid_until
    /\ ~AnyPlaceholder({root.root_id, root.signing_key_ref, root.fingerprint})

TrustRootHash(root) == HashOf("trust_root_hash", root)

TrustRootHeader == {"tenant_id", "root_id", "signing_key_ref"}

TrustRootSealable(root, evidence) == ValidTrustRoot(root) /\ evidence # {}

SealedTrustRoot(root, evidence) ==
    LET refs == evidence \union {root.root_id} \union root.evidence_refs
    IN  [record_id |-> <<"trust_root_record", Bound(root, TrustRootHeader),
                         TrustRootHash(root), refs>>,
         trust_root_hash |-> TrustRootHash(root), trust_root |-> root,
         evidence_refs |-> refs] ++ Bound(root, TrustRootHeader)

TrustRootLoads(record) ==
    /\ ValidTrustRoot(record.trust_root)
    /\ record.evidence_refs # {}
    /\ Bound(record, TrustRootHeader) = Bound(record.trust_root, TrustRootHeader)
    /\ record.trust_root_hash = TrustRootHash(record.trust_root)

Matching(root, s) ==
    /\ root.tenant_id = s.tenant_id
    /\ root.signing_key_ref = s.signing_key_ref
    /\ root.valid_from <= s.signed_at /\ s.signed_at <= root.valid_until

ExpectedSignatureId(d) ==
    StableId("signature_verification", d,
             {"signature_id", "tenant_id", "executor_ref", "decision",
              "trust_root_ref", "can_issue_high_risk_ticket", "evidence_refs"})

\* The first matching root decides, whatever roots follow it.
VerifySignature(s, roots, risk) ==
    LET matches == SelectSeq(roots, LAMBDA root : Matching(root, s))
        verified == matches # << >> /\ ~matches[1].revoked /\ s.complete
        d == [signature_id |-> s.signature_id, tenant_id |-> s.tenant_id,
              executor_ref |-> s.executor_ref,
              decision |-> IF verified THEN "Verified" ELSE "Rejected",
              trust_root_ref |->
                  IF matches = << >> THEN NoRef ELSE matches[1].root_id,
              can_issue_high_risk_ticket |-> verified /\ risk >= High,
              evidence_refs |->
                  s.evidence_refs \union
                  (IF matches = << >> \/ matches[1].revoked THEN {}
                   ELSE matches[1].evidence_refs)]
    IN  [decision_id |-> ExpectedSignatureId(d)] ++ d

\* With sealed records every one must load and belong to the tenant.
SignatureDecidable(s, records) ==
    \A r \in Members(records) : TrustRootLoads(r) /\ r.trust_root.tenant_id = s.tenant_id

VerifySignatureWithRecords(s, records, risk) ==
    VerifySignature(s, [i \in DOMAIN records |-> records[i].trust_root], risk)

ValidSignatureDecision(d) ==
    /\ d.evidence_refs # {}
    /\ d.decision_id = ExpectedSignatureId(d)
    /\ d.can_issue_high_risk_ticket =>
          d.decision = "Verified" /\ d.trust_root_ref # NoRef

ExpectedStorageId(d) ==
    StableId("trust_root_storage", d,
             {"tenant_id", "record_id", "trust_root_hash", "storage_evidence_ref",
              "storage_provider_ref", "decision", "evidence_refs"})

StorageVerifies(record, e, now) ==
    /\ TrustRootLoads(record)
    /\ record.tenant_id = e.tenant_id
    /\ record.record_id = e.record_id /\ record.trust_root_hash = e.trust_root_hash
    /\ ~BadWindow(e.stored_at, e.expires_at, now)
    /\ ~AnyPlaceholder({e.evidence_id, e.storage_provider_ref} \union e.refs)

\* backing holds what the adapter decision adds to the evidence.
StorageDecision(record, e, backing, verdict, now) ==
    LET d == [tenant_id |-> record.tenant_id, record_id |-> record.record_id,
              root_id |-> record.root_id, trust_root_hash |-> record.trust_root_hash,
              storage_evidence_ref |-> e.evidence_id,
              storage_provider_ref |-> e.storage_provider_ref,
              decision |-> verdict, verified_at |-> now, expires_at |-> e.expires_at,
              evidence_refs |->
                  UNION {record.evidence_refs, e.refs, backing,
                         {record.record_id, record.trust_root_hash, e.evidence_id,
                          e.storage_provider_ref}}]
    IN  [decision_id |-> ExpectedStorageId(d)] ++ d

VerifyTrustRootStorage(record, e, now) ==
    StorageDecision(record, e, {},
        IF StorageVerifies(record, e, now) THEN "Verified" ELSE "Rejected", now)

VerifyTrustRootStorageWithContract(record, e, ad, config_record, contract_record, now) ==
    StorageDecision(record, e, {ad.decision_id} \union ad.evidence_refs,
        IF /\ StorageVerifies(record, e, now)
           /\ SatisfiesContract(ad, config_record, contract_record,
                                "ExecutorTrustRoots", e.storage_provider_ref, now)
        THEN "Verified" ELSE "Rejected", now)

-----------------------------------------------------------------------------
\* What the components share: hardening evidence names the provider of each
\* component, the component's evidence names it again and is bound to one
\* verified adapter decision for it.

HardeningHash(h) == HashOf("production_hardening_evidence_hash", h)

Configured(ref) == ~IsPlaceholder(ref)

SameTenant(records) == Cardinality({r.tenant_id : r \in records}) = 1

\* Of a component of this kind, with the provider the hardening names.
BoundToAdapter(e, ad, kind) ==
    /\ ad.decision = "Verified"
    /\ ad.kind = kind
    /\ ad.provider_ref = e.provider_ref
    /\ e.adapter_decision_ref = ad.decision_id

\* Evidence of the provider the hardening names, fresh and of real references.
ComponentVerifies(e, ad, kind, provider, now) ==
    /\ Configured(provider)
    /\ e.provider_ref = provider
    /\ BoundToAdapter(e, ad, kind)
    /\ ~BadWindow(e.checked_at, e.expires_at, now)
    /\ ~AnyPlaceholder({e.evidence_id, e.provider_ref, e.adapter_decision_ref} \union e.refs)

\* Mutant: the receipt itself is not among the references of the decision.
ComponentRefs_Fault(h, ad, e) ==
    UNION {h.evidence_refs, ad.evidence_refs, e.refs,
           {ad.decision_id, e.provider_ref, e.adapter_decision_ref}}

ComponentRefs(h, ad, e) ==
    UNION {h.evidence_refs, ad.evidence_refs, e.refs,
           {ad.decision_id, e.evidence_id, e.provider_ref, e.adapter_decision_ref}}

Backed(verdict, ad, config_record, contract_record, kind, provider, now) ==
    IF SatisfiesContract(ad, config_record, contract_record, kind, provider, now)
    THEN verdict ELSE "Rejected"

Verdict(verified) == IF verified THEN "Verified" ELSE "Rejected"

-----------------------------------------------------------------------------
\* The typed decisions, each with the sealed documents that back its adapter.

ExpectedAuthId(d) ==
    StableId("production_auth", d,
             {"tenant_id", "provider_ref", "evidence_ref", "decision", "evidence_refs"})

VerifyAuth(h, ad, e, config, contract, now) ==
    LET ok == /\ SameTenant({h, ad, e})
              /\ ComponentVerifies(e, ad, "AuthProvider", h.auth_provider_ref, now)
        d == [tenant_id |-> h.tenant_id, provider_ref |-> e.provider_ref,
              evidence_ref |-> e.evidence_id,
              decision |-> Backed(Verdict(ok), ad, config, contract, "AuthProvider",
                                  e.provider_ref, now),
              evidence_refs |-> ComponentRefs(h, ad, e), expires_at |-> e.expires_at]
    IN  [decision_id |-> ExpectedAuthId(d)] ++ d

ExpectedSecretManagerId(d) ==
    StableId("external_secret_manager", d,
             {"tenant_id", "credential_id", "external_secret_ref", "provider_ref",
              "decision", "evidence_refs"})

VerifySecretManager(c, h, ad, e, config, contract, now) ==
    LET ok == /\ SameTenant({c, h, ad, e})
              /\ e.credential_id = c.credential_id
              /\ e.external_secret_ref = c.external_secret_ref
              /\ c.material_policy = "ExecutorInjected"
              /\ Configured(c.rotation_ref)
              /\ e.rotation_policy_ref \in {c.rotation_ref, h.rotation_policy_ref}
              /\ ~AnyPlaceholder({e.external_secret_ref, e.rotation_policy_ref})
              /\ ~\E ref \in e.refs \union {e.external_secret_ref, e.rotation_policy_ref} :
                    LooksLikeRawSecret(ref)
              /\ ComponentVerifies(e, ad, "ExternalSecretManager", h.secret_manager_ref, now)
        d == [tenant_id |-> c.tenant_id, credential_id |-> c.credential_id,
              external_secret_ref |-> c.external_secret_ref,
              provider_ref |-> e.provider_ref, evidence_ref |-> e.evidence_id,
              decision |-> Backed(Verdict(ok), ad, config, contract,
                                  "ExternalSecretManager", e.provider_ref, now),
              evidence_refs |->
                  ComponentRefs(h, ad, e)
                    \union {c.credential_id, c.external_secret_ref,
                            e.external_secret_ref, e.rotation_policy_ref},
              expires_at |-> e.expires_at]
    IN  [decision_id |-> ExpectedSecretManagerId(d)] ++ d

ExpectedVerifierId(d) ==
    StableId("cryptographic_verifier", d,
             {"tenant_id", "signature_decision_ref", "trust_root_record_ref",
              "provider_ref", "decision", "evidence_refs"})

VerifyVerifier(h, sd, record, ad, e, config, contract, now) ==
    LET ok == /\ SameTenant({h, sd, record, ad, e})
              /\ TrustRootLoads(record)
              /\ ValidSignatureDecision(sd)
              /\ e.signature_decision_ref = sd.decision_id
              /\ e.trust_root_record_ref = record.record_id
              /\ e.trust_root_hash = record.trust_root_hash
              /\ sd.decision = "Verified" /\ sd.can_issue_high_risk_ticket
              /\ sd.trust_root_ref = record.root_id
              /\ ComponentVerifies(e, ad, "CryptographicVerifier",
                                   h.cryptographic_verifier_ref, now)
        d == [tenant_id |-> h.tenant_id, signature_decision_ref |-> sd.decision_id,
              trust_root_record_ref |-> record.record_id,
              provider_ref |-> e.provider_ref, evidence_ref |-> e.evidence_id,
              decision |-> Backed(Verdict(ok), ad, config, contract,
                                  "CryptographicVerifier", e.provider_ref, now),
              evidence_refs |->
                  UNION {ComponentRefs(h, ad, e), sd.evidence_refs, record.evidence_refs,
                         {sd.decision_id, record.record_id, record.trust_root_hash,
                          e.signature_decision_ref, e.trust_root_record_ref,
                          e.trust_root_hash}},
              expires_at |-> e.expires_at]
    IN  [decision_id |-> ExpectedVerifierId(d)] ++ d

ExpectedSandboxId(d) ==
    StableId("hardened_sandbox", d,
             {"tenant_id", "provider_ref", "evidence_ref", "decision", "evidence_refs"})

VerifySandbox(h, ad, e, config, contract, now) ==
    LET ok == /\ SameTenant({h, ad, e})
              /\ ComponentVerifies(e, ad, "HardenedSandbox",
                                   h.hardened_sandbox_profile_ref, now)
        d == [tenant_id |-> h.tenant_id, provider_ref |-> e.provider_ref,
              evidence_ref |-> e.evidence_id,
              decision |-> Backed(Verdict(ok), ad, config, contract, "HardenedSandbox",
                                  e.provider_ref, now),
              evidence_refs |-> ComponentRefs(h, ad, e), expires_at |-> e.expires_at]
    IN  [decision_id |-> ExpectedSandboxId(d)] ++ d

ExpectedRotationId(d) ==
    StableId("rotation_enforcement", d,
             {"tenant_id", "credential_id", "hardening_evidence_ref", "rotation_ref",
              "rotation_policy_ref", "adapter_decision_ref", "decision",
              "evidence_refs"})

\* One hour, for a credential without an expiry of its own.
RotationWindow == 4

RotationVerifies(c, h, ad) ==
    /\ c.tenant_id = h.tenant_id
    /\ Configured(c.rotation_ref) /\ Configured(h.rotation_policy_ref)
    /\ h.evidence_refs # {}
    /\ ad # NoAdapter =>
          /\ ad.tenant_id = c.tenant_id
          /\ ad.decision = "Verified"
          /\ ad.kind = "RotationEnforcement"
          /\ ad.provider_ref = h.rotation_policy_ref

RotationDecision(c, h, ad, verdict, now) ==
    LET d == [tenant_id |-> c.tenant_id, credential_id |-> c.credential_id,
              hardening_evidence_ref |-> HardeningHash(h),
              rotation_ref |-> c.rotation_ref,
              rotation_policy_ref |-> h.rotation_policy_ref,
              adapter_decision_ref |-> ad.decision_id, decision |-> verdict,
              evidence_refs |->
                  UNION {{c.credential_id, HardeningHash(h)}, h.evidence_refs,
                         Given({c.rotation_ref, h.rotation_policy_ref, ad.decision_id}),
                         IF ad = NoAdapter THEN {} ELSE ad.evidence_refs},
              expires_at |-> IF c.expires_at = Never THEN now + RotationWindow
                             ELSE c.expires_at]
    IN  [decision_id |-> ExpectedRotationId(d)] ++ d

VerifyRotation(c, h, ad, now) ==
    RotationDecision(c, h, ad, Verdict(RotationVerifies(c, h, ad)), now)

VerifyRotationWithContract(c, h, ad, config, contract, now) ==
    RotationDecision(c, h, ad,
        Backed(Verdict(RotationVerifies(c, h, ad)), ad, config, contract,
               "RotationEnforcement", h.rotation_policy_ref, now), now)

ExpectedInjectionId(d) ==
    StableId("secret_injection", d,
             {"tenant_id", "credential_id", "secret_use_decision_id", "evidence_ref",
              "adapter_decision_ref", "injection_receipt_ref", "decision",
              "evidence_refs"})

VerifyInjection(c, use, h, ad, e, config, contract, now) ==
    LET ok == /\ SameTenant({c, e, h, ad, use})
              /\ use.credential_id = c.credential_id /\ e.credential_id = c.credential_id
              /\ use.run_id = e.run_id
              /\ InScope(c, use)
              /\ e.secret_use_decision_id = use.decision_id
              /\ use.decision_id = ExpectedSecretUseId(use)
              /\ use.decided_at <= now
              /\ ~BadWindow(use.decided_at, use.expires_at, now)
              /\ use.decision = "Allowed"
              /\ ~use.raw_secret_exposed
              /\ c.material_policy = "ExecutorInjected"
              /\ Configured(h.hardened_sandbox_profile_ref)
              /\ e.sandbox_profile_ref = h.hardened_sandbox_profile_ref
              /\ ~AnyPlaceholder({e.injection_receipt_ref, e.run_id, e.sandbox_profile_ref})
              /\ ComponentVerifies(e, ad, "SecretInjection",
                                   h.secret_injection_profile_ref, now)
        d == [tenant_id |-> c.tenant_id, credential_id |-> c.credential_id,
              secret_use_decision_id |-> use.decision_id,
              evidence_ref |-> e.evidence_id,
              adapter_decision_ref |-> e.adapter_decision_ref,
              injection_receipt_ref |-> e.injection_receipt_ref,
              provider_ref |-> e.provider_ref,
              sandbox_profile_ref |-> e.sandbox_profile_ref,
              decision |-> Backed(Verdict(ok), ad, config, contract, "SecretInjection",
                                  e.provider_ref, now),
              evidence_refs |->
                  UNION {ComponentRefs(h, ad, e), use.evidence_refs,
                         {c.credential_id, use.decision_id, e.injection_receipt_ref,
                          e.run_id, e.sandbox_profile_ref}},
              expires_at |-> e.expires_at]
    IN  [decision_id |-> ExpectedInjectionId(d)] ++ d

-----------------------------------------------------------------------------
\* What the evaluation requires of each typed decision.  A set s holds what the
\* caller passes: the policy, the credentials, the signature decisions, the
\* hardening evidence, the adapter evidence and decisions, and the typed
\* decisions of each component; sequences, because their lengths are compared.

\* Mutant: the adapter decision's id is enough.
RefsAdapter_Fault(refs, ads, kind, provider) ==
    \E i \in DOMAIN ads :
        /\ {j \in DOMAIN ads : ads[j].decision_id \in refs} = {i}
        /\ ads[i].decision = "Verified"
        /\ ads[i].kind = kind
        /\ ads[i].provider_ref = provider
        /\ ads[i].decision_id = ExpectedAdapterId(ads[i])

\* Exactly one of the adapter decisions is among the references of the decision
\* and it is a verified one, of this kind, for this provider.
RefsAdapter(refs, ads, kind, provider) ==
    \E i \in DOMAIN ads :
        /\ {j \in DOMAIN ads : ads[j].decision_id \in refs} = {i}
        /\ ads[i].decision = "Verified"
        /\ ads[i].kind = kind
        /\ ads[i].provider_ref = provider
        /\ ads[i].decision_id = ExpectedAdapterId(ads[i])
        /\ ads[i].evidence_refs \subseteq refs

\* Mutant: the id is not computed again.
StillVerified_Fault(d, expected_id, required, now) ==
    /\ d.decision = "Verified"
    /\ ~Expired(d.expires_at, now)
    /\ required \subseteq d.evidence_refs
    /\ ~AnyPlaceholder(d.evidence_refs \union required)

\* The checks every typed decision gets again when it is consumed.
StillVerified(d, expected_id, required, now) ==
    /\ d.decision = "Verified"
    /\ ~Expired(d.expires_at, now)
    /\ d.decision_id = expected_id
    /\ required \subseteq d.evidence_refs
    /\ ~AnyPlaceholder(d.evidence_refs \union required)

AuthAccepted(s, now) ==
    LET d == s.auth[1]
    IN  /\ Len(s.auth) = 1
        /\ StillVerified(d, ExpectedAuthId(d), {d.evidence_ref, d.provider_ref}, now)
        /\ s.hardening.auth_provider_ref = d.provider_ref
        /\ RefsAdapter(d.evidence_refs, s.adapters, "AuthProvider", d.provider_ref)

\* One decision for each credential and none more.
OnePerCredential(credentials, ds) ==
    /\ Len(credentials) = Len(ds)
    /\ Distinct(ds, "credential_id")
    /\ Field(credentials, "credential_id") \subseteq Field(ds, "credential_id")

ForCredential(ds, c) == CHOOSE d \in Members(ds) : d.credential_id = c.credential_id

SecretManagersAccepted(s, now) ==
    /\ OnePerCredential(s.credentials, s.managers)
    /\ \A c \in Members(s.credentials) :
          LET d == ForCredential(s.managers, c)
          IN  /\ StillVerified(d, ExpectedSecretManagerId(d),
                               {d.evidence_ref, c.credential_id, c.external_secret_ref}, now)
              /\ ~\E ref \in d.evidence_refs : LooksLikeRawSecret(ref)
              /\ d.external_secret_ref = c.external_secret_ref
              /\ s.hardening.secret_manager_ref = d.provider_ref
              /\ RefsAdapter(d.evidence_refs, s.adapters, "ExternalSecretManager",
                             d.provider_ref)

\* The signatures that can carry a high-risk ticket.
HighRisk(s) == {d \in Members(s.signatures) :
                    d.decision = "Verified" /\ d.can_issue_high_risk_ticket}

VerifiersAccepted(s, now) ==
    LET needed == {d.decision_id : d \in HighRisk(s)}
    IN  /\ needed # {} /\ Len(s.verifiers) = Cardinality(needed)
        /\ Distinct(s.verifiers, "signature_decision_ref")
        /\ \A d \in Members(s.verifiers) :
              /\ StillVerified(d, ExpectedVerifierId(d),
                               {d.evidence_ref, d.signature_decision_ref,
                                d.trust_root_record_ref}, now)
              /\ s.hardening.cryptographic_verifier_ref = d.provider_ref
              /\ d.signature_decision_ref \in needed
              /\ RefsAdapter(d.evidence_refs, s.adapters, "CryptographicVerifier",
                             d.provider_ref)

\* The strict path asks for the sandbox decision before it looks at its verdict;
\* the evaluation that follows it checks the verdict and the expiry.
SandboxAccepted(s) ==
    LET d == s.sandboxes[1]
        profile == s.hardening.hardened_sandbox_profile_ref
    IN  /\ Len(s.sandboxes) = 1
        /\ profile # NoRef /\ d.provider_ref = profile
        /\ ~IsPlaceholder(d.evidence_ref)
        /\ d.decision_id = ExpectedSandboxId(d)
        /\ {d.evidence_ref, profile} \subseteq d.evidence_refs
        /\ RefsAdapter(d.evidence_refs, s.adapters, "HardenedSandbox", profile)

\* Mutant: the expiry of the sandbox decision is not looked at.
ValidSandbox_Fault(d, now) ==
    /\ d.decision = "Verified"
    /\ ~AnyPlaceholder({d.provider_ref} \union d.evidence_refs)

ValidSandbox(d, now) ==
    /\ d.decision = "Verified"
    /\ ~Expired(d.expires_at, now)
    /\ ~AnyPlaceholder({d.provider_ref} \union d.evidence_refs)

ValidRotation(d, ads, now) ==
    /\ StillVerified(d, ExpectedRotationId(d), {d.hardening_evidence_ref}, now)
    /\ Configured(d.rotation_ref) /\ Configured(d.rotation_policy_ref)
    /\ d.adapter_decision_ref # NoRef =>
          \E ad \in Members(ads) :
              /\ ad.decision_id = d.adapter_decision_ref
              /\ ad.kind = "RotationEnforcement"
              /\ ad.decision = "Verified"
              /\ ad.provider_ref = d.rotation_policy_ref
              /\ ad.decision_id \in d.evidence_refs

RotationsAccepted(s, now) ==
    /\ \A d \in Members(s.rotations) : ValidRotation(d, s.adapters, now)
    /\ OnePerCredential(s.credentials, s.rotations)
    /\ \A c \in Members(s.credentials) :
          LET d == ForCredential(s.rotations, c)
          IN  /\ d.rotation_ref = c.rotation_ref
              /\ d.rotation_policy_ref = s.hardening.rotation_policy_ref
              /\ d.hardening_evidence_ref = HardeningHash(s.hardening)
              /\ c.credential_id \in d.evidence_refs

InjectionsAccepted(s, now) ==
    /\ OnePerCredential(s.credentials, s.injections)
    /\ \A c \in Members(s.credentials) :
          LET d == ForCredential(s.injections, c)
          IN  /\ StillVerified(d, ExpectedInjectionId(d),
                               {d.evidence_ref, d.adapter_decision_ref,
                                d.injection_receipt_ref, d.secret_use_decision_id,
                                d.provider_ref, d.sandbox_profile_ref,
                                c.credential_id}, now)
              /\ RefsAdapter(d.evidence_refs, s.adapters, "SecretInjection", d.provider_ref)
              /\ s.hardening.secret_injection_profile_ref = d.provider_ref
              /\ s.hardening.hardened_sandbox_profile_ref = d.sandbox_profile_ref

ValidDelivery(d) ==
    /\ d.verified_at < d.expires_at
    /\ d.adapter_decision_ref # NoRef
    /\ {d.bundle_id, d.bundle_hash, d.tenant_policy_hash, d.delivery_evidence_ref,
        d.delivery_ref, d.storage_provider_ref, d.adapter_decision_ref}
          \union Given({d.production_readiness_evidence_hash}) \subseteq d.evidence_refs
    /\ ~AnyPlaceholder(d.evidence_refs)
    /\ d.decision_id = ExpectedDeliveryId(d)

DeliveriesAccepted(s, now) ==
    /\ s.deliveries # << >>
    /\ \A d \in Members(s.deliveries) :
          /\ ValidDelivery(d)
          /\ d.decision = "Verified"
          /\ ~Expired(d.expires_at, now)
          /\ s.hardening.compliance_export_profile_ref = d.storage_provider_ref
          /\ RefsAdapter(d.evidence_refs, s.adapters, "ComplianceAuditExport",
                         d.storage_provider_ref)

StoragesAccepted(s, now) ==
    LET needed == Given({d.trust_root_ref : d \in HighRisk(s)})
    IN  /\ needed # {} /\ Len(s.storages) = Cardinality(needed)
        /\ Distinct(s.storages, "root_id")
        /\ \A d \in Members(s.storages) :
              /\ d.verified_at < d.expires_at
              /\ StillVerified(d, ExpectedStorageId(d),
                               {d.record_id, d.trust_root_hash, d.storage_evidence_ref,
                                d.storage_provider_ref}, now)
              /\ d.root_id \in needed
              /\ RefsAdapter(d.evidence_refs, s.adapters, "ExecutorTrustRoots",
                             d.storage_provider_ref)

\* One decision for each piece of evidence, equal in everything it copies.
AdaptersAccepted(s, now) ==
    /\ \A e \in Members(s.evidence) : ValidAdapterEvidence(e, now)
    /\ \A d \in Members(s.adapters) : ValidAdapterDecision(d, now)
    /\ Len(s.evidence) = Len(s.adapters)
    /\ Distinct(s.adapters, "evidence_id")
    /\ \A e \in Members(s.evidence) : \E d \in Members(s.adapters) :
          /\ Bound(d, AdapterBinding) = Bound(e, AdapterBinding)
          /\ d.expires_at = e.expires_at
          /\ AdapterRefs(e) \subseteq d.evidence_refs

-----------------------------------------------------------------------------
\* The evaluation.

\* The components hardening evidence configures, and the gate of each.
HardenedBy(h) ==
    [AuthProvider |-> h.auth_provider_ref,
     ExternalSecretManager |-> h.secret_manager_ref,
     CryptographicVerifier |-> h.cryptographic_verifier_ref,
     HardenedSandbox |-> h.hardened_sandbox_profile_ref,
     SecretInjection |-> h.secret_injection_profile_ref,
     RotationEnforcement |-> h.rotation_policy_ref,
     ComplianceAuditExport |-> h.compliance_export_profile_ref]

UnbackedKinds(s) ==
    {kind \in DOMAIN HardenedBy(s.hardening) :
        ~(/\ Configured(HardenedBy(s.hardening)[kind])
          /\ \E e \in Members(s.evidence) :
                e.kind = kind /\ e.provider_ref = HardenedBy(s.hardening)[kind])}

GateOf(kind) == IF kind = "AuthProvider" THEN "ProductionAuth" ELSE kind

CredentialGates(c, now) ==
    {g \in {"ExternalSecretManager", "RotationEnforcement", "SecretInjection"} :
        \/ g = "ExternalSecretManager" /\ Expired(c.expires_at, now)
        \/ g = "RotationEnforcement" /\ ~Configured(c.rotation_ref)
        \/ g = "SecretInjection" /\ c.material_policy # "ExecutorInjected"}

PolicyGates(policy) ==
    {g \in {"TenantPolicy", "ComplianceAuditExport"} :
        \/ g = "TenantPolicy"
              /\ (~policy.high_risk_requires_quorum \/ policy.quorum_approvers < 2)
        \/ g = "ComplianceAuditExport" /\ ~policy.audit_export_required}

SignatureGates(signatures) ==
    LET ds == Members(signatures)
    IN  {g \in {"ExecutorTrustRoots", "CryptographicVerifier"} :
            \/ g = "ExecutorTrustRoots"
                  /\ \/ ds = {}
                     \/ \E d \in ds : d.decision # "Verified" \/ ~ValidSignatureDecision(d)
            \/ g = "CryptographicVerifier"
                  /\ ~\E d \in ds : d.can_issue_high_risk_ticket}

MissingGates(s, now) ==
    UNION {{GateOf(kind) : kind \in UnbackedKinds(s)},
           PolicyGates(s.policy), SignatureGates(s.signatures),
           IF s.credentials = << >> THEN {"ExternalSecretManager"} ELSE {},
           UNION {CredentialGates(c, now) : c \in Members(s.credentials)}}

\* Everything the basic evaluation is given belongs to the tenant of the policy.
OneTenant(s, with_sandbox) ==
    \A r \in UNION {Members(s.credentials), Members(s.signatures), Members(s.evidence),
                    Members(s.adapters), Members(s.rotations), {s.hardening},
                    IF with_sandbox THEN Members(s.sandboxes) ELSE {}} :
        r.tenant_id = s.policy.tenant_id

\* Rotation and sandbox decisions are only checked once they are configured.
RotationConfigured(s) ==
    /\ Configured(s.hardening.rotation_policy_ref)
    /\ \A c \in Members(s.credentials) : Configured(c.rotation_ref)

\* evaluate_production_readiness_inner without an error.  s.sandboxes is
\* ignored on the paths that pass no sandbox decisions.
Evaluable(s, with_sandbox, now) ==
    /\ s.hardening.evidence_refs # {}
    /\ OneTenant(s, with_sandbox)
    /\ \A c \in Members(s.credentials) : ValidCredential(c)
    /\ AdaptersAccepted(s, now)
    /\ RotationConfigured(s) => RotationsAccepted(s, now)
    /\ with_sandbox =>
          /\ \A d \in Members(s.sandboxes) : ValidSandbox(d, now)
          /\ Configured(s.hardening.hardened_sandbox_profile_ref) => SandboxAccepted(s)

EvaluationRefs(s, with_sandbox) ==
    UNION {s.hardening.evidence_refs, Field(s.credentials, "credential_id"),
           Field(s.signatures, "decision_id"), Field(s.evidence, "evidence_id"),
           Field(s.adapters, "decision_id"), Field(s.rotations, "decision_id"),
           IF with_sandbox THEN Field(s.sandboxes, "decision_id") ELSE {}}

Evaluate(s, with_sandbox, now) ==
    Readiness(s.policy.tenant_id, s.policy.pack_id, MissingGates(s, now),
              EvaluationRefs(s, with_sandbox))

\* The strict path: the whole decision set of the tenant, every one accepted.
StrictTenant(s) ==
    \A r \in UNION {Members(s.auth), Members(s.managers), Members(s.verifiers),
                    Members(s.injections), Members(s.deliveries), Members(s.storages)} :
        r.tenant_id = s.policy.tenant_id

StrictlyEvaluable(s, now) ==
    /\ StrictTenant(s)
    /\ AuthAccepted(s, now)
    /\ SecretManagersAccepted(s, now)
    /\ VerifiersAccepted(s, now)
    /\ SandboxAccepted(s)
    /\ RotationsAccepted(s, now)
    /\ InjectionsAccepted(s, now)
    /\ DeliveriesAccepted(s, now)
    /\ StoragesAccepted(s, now)
    /\ Evaluable(s, TRUE, now)

StrictRefs(s) ==
    EvaluationRefs(s, TRUE)
        \union UNION {Field(ds, "decision_id") :
                          ds \in {s.auth, s.managers, s.verifiers, s.sandboxes,
                                  s.injections, s.deliveries, s.storages}}

EvaluateStrictly(s, now) ==
    Readiness(s.policy.tenant_id, s.policy.pack_id, MissingGates(s, now), StrictRefs(s))
=============================================================================
