--------------------------- MODULE MCVaultControls ---------------------------
(***************************************************************************)
(* Hardening: two tenants with one credential, one executor signature, one *)
(* trust root and the eight production adapters each.  Every adapter       *)
(* attestation comes short-lived and long-lived, the provider of the       *)
(* authentication adapter also answers with evidence of another provider,  *)
(* and the sandbox adapter answers for authentication.                     *)
(*                                                                         *)
(* Review: one tenant whose policy is edited between two contents, a       *)
(* credential that needs approval for high-risk use, a break-glass         *)
(* request, approvals of which one names a single person twice and one has *)
(* run out, and two P1 profiles: one for production and one that needs no  *)
(* readiness.                                                              *)
(***************************************************************************)
EXTENDS VaultControls

Acme == <<"acme">>
Globex == <<"globex">>

Kinds == {"AuthProvider", "ExternalSecretManager", "CryptographicVerifier",
          "HardenedSandbox", "SecretInjection", "RotationEnforcement",
          "ExecutorTrustRoots", "ComplianceAuditExport"}

Short == 1
Long == 9

TenantPolicy(t) ==
    [tenant_id |-> t, pack_id |-> <<"pack">>, policy_version |-> <<"v1">>,
     credential_scope_refs |-> {<<"scope">>}, high_risk_requires_quorum |-> TRUE,
     quorum_approvers |-> 2, audit_export_required |-> TRUE]

CredentialOf(t) ==
    [tenant_id |-> t, credential_id |-> <<"credential">>,
     external_secret_ref |-> <<"secret">>, vault_provider_ref |-> <<"vault">>,
     fingerprint |-> <<"print">>, material_policy |-> "ExecutorInjected",
     rotation_ref |-> <<"rotation">>, expires_at |-> Never,
     allowed_capabilities |-> {{"deploy"}}, allowed_resource_patterns |-> {{"site"}},
     risk_ceiling |-> 3, approval_required_at_or_above |-> 3]

Hardening(t) ==
    [tenant_id |-> t, evidence_refs |-> {<<"hardening">>},
     auth_provider_ref |-> <<"AuthProvider">>,
     secret_manager_ref |-> <<"ExternalSecretManager">>,
     cryptographic_verifier_ref |-> <<"CryptographicVerifier">>,
     hardened_sandbox_profile_ref |-> <<"HardenedSandbox">>,
     secret_injection_profile_ref |-> <<"SecretInjection">>,
     rotation_policy_ref |-> <<"RotationEnforcement">>,
     compliance_export_profile_ref |-> <<"ComplianceAuditExport">>]

ConfigOf(t, kind) ==
    SealedConfig(
        [tenant_id |-> t, config_id |-> <<"config">>, kind |-> kind,
         provider_ref |-> <<kind>>, provider_policy_ref |-> <<"policy">>,
         adapter_ref |-> <<"adapter">>, adapter_deployment_ref |-> <<"deployment">>,
         adapter_config_ref |-> <<"settings">>,
         allowed_runtime_mode |-> ExternalVerified, evidence_refs |-> {<<"config">>}],
        {<<"config">>})

ContractOf(t, kind) ==
    SealedContract(
        [tenant_id |-> t, contract_id |-> <<"contract">>, kind |-> kind,
         provider_ref |-> <<kind>>,
         provider_config_record_ref |-> ConfigOf(t, kind).record_id,
         provider_config_hash |-> ConfigOf(t, kind).config_hash,
         required_attestation_ref |-> <<"attestation">>,
         required_healthcheck_ref |-> <<"healthcheck">>,
         required_policy_refs |-> {<<"policy">>},
         required_runtime_mode |-> ExternalVerified,
         created_at |-> 0, expires_at |-> Long, evidence_refs |-> {<<"contract">>}],
        {<<"contract">>})

MCConfig == [kind \in Kinds |-> ConfigOf(Acme, kind)]
MCContract == [kind \in Kinds |-> ContractOf(Acme, kind)]

AdapterEvidence(t, config, contract, until) ==
    [tenant_id |-> t, kind |-> config.kind, evidence_id |-> <<config.kind>>,
     runtime_mode |-> ExternalVerified,
     provider_config_record_ref |-> config.record_id,
     provider_config_hash |-> config.config_hash,
     readiness_contract_ref |-> contract.record_id,
     readiness_contract_hash |-> contract.contract_hash,
     adapter_ref |-> <<"adapter">>, adapter_deployment_ref |-> <<"deployment">>,
     adapter_config_ref |-> <<"settings">>, adapter_config_hash |-> <<"settings_hash">>,
     provider_ref |-> <<config.kind>>, provider_policy_ref |-> <<"policy">>,
     attestation_ref |-> <<"attestation">>, healthcheck_ref |-> <<"healthcheck">>,
     sandbox_profile_ref |-> <<"profile">>, generated_at |-> 0, expires_at |-> until]

MCAttestations ==
    {AdapterEvidence(Acme, MCConfig[kind], MCContract[kind], until) :
        kind \in {"AuthProvider", "HardenedSandbox"}, until \in {Short, Long}}

Root(t) ==
    SealedTrustRoot(
        [tenant_id |-> t, root_id |-> <<"root">>, signing_key_ref |-> <<"key">>,
         fingerprint |-> <<"root_print">>, valid_from |-> 0, valid_until |-> Long,
         revoked |-> FALSE, evidence_refs |-> {<<"root">>}], {<<"root">>})

Revoked(t) ==
    SealedTrustRoot(
        [Root(t).trust_root EXCEPT !.root_id = <<"old_root">>, !.revoked = TRUE],
        {<<"root">>})

MCRecords == <<Root(Acme), Revoked(Acme)>>

Signature(t) ==
    [tenant_id |-> t, signature_id |-> <<"signature">>, executor_ref |-> <<"executor">>,
     signing_key_ref |-> <<"key">>, signed_at |-> 0, complete |-> TRUE,
     evidence_refs |-> {<<"signature">>}]

MCSignatures == {Signature(Acme)}

SecretUseOf(t) ==
    SecretUse(CredentialOf(t),
        [tenant_id |-> t, request_id |-> <<"request">>, run_id |-> <<"run">>,
         actor_id |-> <<"actor">>, capability_id |-> "deploy", resource_ref |-> "site",
         purpose |-> "release", risk_level |-> 2, evidence_refs |-> {<<"use">>}],
        NoApproval, 0)

Export(t) ==
    ComplianceBundle(<<"month">>, SealedPolicyPack(TenantPolicy(t), {<<"seal">>}),
        {AuditExport(t, <<"run">>, "BreakGlass", <<"redaction">>, {<<"event">>})}, {},
        NoReadiness)

\* What the provider of a component returns: everything any component asks for.
Receipt(t, kind, ad, until) ==
    [tenant_id |-> t, evidence_id |-> <<kind, "receipt">>, provider_ref |-> <<kind>>,
     storage_provider_ref |-> <<kind>>, adapter_decision_ref |-> ad.decision_id,
     checked_at |-> 0, stored_at |-> 0, delivered_at |-> 0, expires_at |-> until,
     refs |-> {<<kind>>}, credential_id |-> <<"credential">>,
     external_secret_ref |-> <<"secret">>, rotation_policy_ref |-> <<"rotation">>,
     signature_decision_ref |->
         VerifySignatureWithRecords(Signature(t), <<Root(t)>>, High).decision_id,
     trust_root_record_ref |-> Root(t).record_id,
     trust_root_hash |-> Root(t).trust_root_hash, record_id |-> Root(t).record_id,
     run_id |-> <<"run">>, secret_use_decision_id |-> SecretUseOf(t).decision_id,
     sandbox_profile_ref |-> <<"HardenedSandbox">>,
     injection_receipt_ref |-> <<"injection">>, bundle_id |-> Export(t).bundle_id,
     bundle_hash |-> Export(t).bundle_hash, delivery_ref |-> <<"delivery">>]

MCReceipts(kind, ad) ==
    IF ad.kind = kind THEN {Receipt(Acme, kind, ad, until) : until \in {Short, Long}}
    ELSE IF kind = "AuthProvider" /\ ad.kind = "HardenedSandbox"
         THEN {Receipt(Acme, kind, ad, Long)}
         ELSE {}

MCSecretUses == {SecretUseOf(Acme)}
MCExports == {Export(Acme)}

KindOrder == <<"AuthProvider", "ExternalSecretManager", "CryptographicVerifier",
               "HardenedSandbox", "SecretInjection", "RotationEnforcement",
               "ExecutorTrustRoots", "ComplianceAuditExport">>

\* The decision set of a tenant: everything verified at time 0; the decisions
\* about the sandbox and the trust-root storage have to be renewed at time 1.
SetOf(t) ==
    LET config == [k \in Kinds |-> ConfigOf(t, k)]
        contract == [k \in Kinds |-> ContractOf(t, k)]
        evidence == [i \in 1 .. Len(KindOrder) |->
                        AdapterEvidence(t, config[KindOrder[i]], contract[KindOrder[i]],
                                        Long)]
        ads == [i \in 1 .. Len(KindOrder) |->
                   VerifyAdapterWithContract(evidence[i], config[KindOrder[i]],
                                             contract[KindOrder[i]], 0)]
        ad == [k \in Kinds |-> (CHOOSE i \in 1 .. Len(KindOrder) : KindOrder[i] = k)]
        A(k) == ads[ad[k]]
        E(k) == Receipt(t, k, A(k), IF k \in {"HardenedSandbox", "ExecutorTrustRoots"}
                                    THEN Short ELSE Long)
        h == Hardening(t)
        c == CredentialOf(t)
        sd == VerifySignatureWithRecords(Signature(t), <<Root(t)>>, High)
    IN  [policy |-> TenantPolicy(t), credentials |-> <<c>>, signatures |-> <<sd>>,
         hardening |-> h, evidence |-> evidence, adapters |-> ads,
         auth |-> <<VerifyAuth(h, A("AuthProvider"), E("AuthProvider"),
                               config["AuthProvider"], contract["AuthProvider"], 0)>>,
         managers |-> <<VerifySecretManager(c, h, A("ExternalSecretManager"),
             E("ExternalSecretManager"), config["ExternalSecretManager"],
             contract["ExternalSecretManager"], 0)>>,
         verifiers |-> <<VerifyVerifier(h, sd, Root(t), A("CryptographicVerifier"),
             E("CryptographicVerifier"), config["CryptographicVerifier"],
             contract["CryptographicVerifier"], 0)>>,
         sandboxes |-> <<VerifySandbox(h, A("HardenedSandbox"), E("HardenedSandbox"),
             config["HardenedSandbox"], contract["HardenedSandbox"], 0)>>,
         rotations |-> <<VerifyRotationWithContract(c, h, A("RotationEnforcement"),
             config["RotationEnforcement"], contract["RotationEnforcement"], 0)>>,
         injections |-> <<VerifyInjection(c, SecretUseOf(t), h, A("SecretInjection"),
             E("SecretInjection"), config["SecretInjection"],
             contract["SecretInjection"], 0)>>,
         deliveries |-> <<VerifyDeliveryWithContract(Export(t),
             E("ComplianceAuditExport"), A("ComplianceAuditExport"),
             config["ComplianceAuditExport"], contract["ComplianceAuditExport"], 0)>>,
         storages |-> <<VerifyTrustRootStorageWithContract(Root(t),
             E("ExecutorTrustRoots"), A("ExecutorTrustRoots"),
             config["ExecutorTrustRoots"], contract["ExecutorTrustRoots"], 0)>>]

MCStart == SetOf(Acme)
MCForeign == SetOf(Globex)

\* Decisions of the vault about another credential of the tenant: the secret
\* manager's runs out at once, the injection was refused.
MCStrays ==
    LET c == [CredentialOf(Acme) EXCEPT !.credential_id = <<"other credential">>]
        h == Hardening(Acme)
        A(kind) == MCStart.adapters[CHOOSE i \in 1 .. Len(KindOrder) : KindOrder[i] = kind]
        E(kind, until) == [Receipt(Acme, kind, A(kind), until)
                              EXCEPT !.credential_id = c.credential_id]
    IN  [managers |-> <<VerifySecretManager(c, h, A("ExternalSecretManager"),
             E("ExternalSecretManager", Short), MCConfig["ExternalSecretManager"],
             MCContract["ExternalSecretManager"], 0)>>,
         rotations |-> <<VerifyRotation(c, h, NoAdapter, 0)>>,
         injections |-> <<VerifyInjection(c, SecretUseOf(Acme), h, A("SecretInjection"),
             E("SecretInjection", Short), MCConfig["SecretInjection"],
             MCContract["SecretInjection"], 0)>>]

\* The set of the model is one of those that a theorem says are never refused.
ASSUME OrderAssumption == SetIsInOrder

-----------------------------------------------------------------------------
\* Review.

PolicyOf(quorum) ==
    [tenant_id |-> Acme, pack_id |-> <<"pack">>, policy_version |-> <<"v1">>,
     credential_scope_refs |-> {<<"scope">>}, high_risk_requires_quorum |-> TRUE,
     quorum_approvers |-> quorum, audit_export_required |-> TRUE,
     break_glass_enabled |-> TRUE, break_glass_allowed_roles |-> {"oncall"},
     break_glass_allowed_capabilities |-> {{"deploy"}}]

MCPolicies == {PolicyOf(2), PolicyOf(3)}

MCCredential ==
    [tenant_id |-> Acme, credential_id |-> <<"credential">>,
     external_secret_ref |-> <<"secret">>, vault_provider_ref |-> <<"vault">>,
     fingerprint |-> <<"print">>, expires_at |-> Never,
     allowed_capabilities |-> {{"deploy"}}, allowed_resource_patterns |-> {{"site"}},
     risk_ceiling |-> 3, approval_required_at_or_above |-> High]

Request == <<"request">>

MCUseRequests ==
    {[tenant_id |-> Acme, request_id |-> Request, run_id |-> <<"run">>,
      actor_id |-> <<"actor">>, capability_id |-> "deploy", resource_ref |-> "site",
      purpose |-> "release", risk_level |-> High, evidence_refs |-> {<<"use">>}]}

MCGlassRequests ==
    {[tenant_id |-> Acme, request_id |-> Request, run_id |-> <<"run">>,
      actor_roles |-> {"oncall"}, requested_capabilities |-> {"deploy"},
      risk_level |-> 1, evidence_refs |-> {<<"incident">>}]}

Approval(approvers, required, request, until) ==
    LET a == [approver_ids |-> approvers, request_ref |-> request, tenant_id |-> Acme,
              required_approvers |-> required, evidence_refs |-> {<<"approval">>},
              granted_at |-> 0, expires_at |-> until]
    IN  [approval_id |-> ExpectedApprovalId(a)] ++ a

MCApprovals ==
    {Approval(<<"ann", "bob">>, 2, Request, 1),
     Approval(<<"ann", "bob", "cid">>, 3, Request, 2),
     Approval(<<"ann", "ann">>, 2, Request, 2),
     Approval(<<"ann", "bob">>, 2, <<"other request">>, 2)}

Profile(mode) ==
    [tenant_id |-> Acme, profile_id |-> <<mode>>, mode |-> mode,
     allow_credential_use |-> FALSE, allowed_capabilities |-> {{"deploy"}},
     allowed_permission_modes |-> {"default"}, max_risk_level |-> 2,
     require_production_readiness_for_high_risk |-> FALSE,
     evidence_refs |-> {<<"profile">>}]

MCProfiles == {Profile("Production"), Profile("Sandbox")}

MCP1Requests ==
    {[tenant_id |-> Acme, request_id |-> <<"p1">>, run_id |-> <<"run">>,
      capability_id |-> "deploy", permission_mode |-> "default", risk_level |-> 1,
      requires_credential |-> FALSE, evidence_refs |-> {<<"task">>}]}

MCEvidence == {{<<"audit 1">>}, {<<"audit 2">>}}
=============================================================================
