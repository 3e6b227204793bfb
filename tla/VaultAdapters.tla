---------------------------- MODULE VaultAdapters ---------------------------
(***************************************************************************)
(* The sealed documents behind a production adapter and the decision about *)
(* its evidence: tenant policy packs, provider configurations, readiness   *)
(* contracts, adapter evidence, and the readiness bundle that gathers them.*)
(* A sealed record holds a copy of its document, the hash of that copy, an *)
(* id over the fields it was sealed with, and the references it rests on.  *)
(***************************************************************************)
EXTENDS Sequences, VaultRecords

ExternalVerified == "ExternalVerified"

-----------------------------------------------------------------------------
\* Tenant policy packs.

PolicyHash(policy) == HashOf("tenant_policy_hash", policy)

PolicyPackSealable(policy, evidence) ==
    policy.credential_scope_refs # {} /\ evidence # {}

SealedPolicyPack(policy, evidence) ==
    LET refs == evidence \union {policy.pack_id} \union policy.credential_scope_refs
    IN  [record_id |->
             <<"tenant_policy_record", policy.tenant_id, policy.pack_id,
               policy.policy_version, PolicyHash(policy), refs>>,
         tenant_id |-> policy.tenant_id, pack_id |-> policy.pack_id,
         policy_version |-> policy.policy_version,
         policy_hash |-> PolicyHash(policy), policy |-> policy,
         evidence_refs |-> refs]

PolicyPackLoads(record) ==
    /\ record.evidence_refs # {}
    /\ record.policy.credential_scope_refs # {}
    /\ record.tenant_id = record.policy.tenant_id
    /\ record.pack_id = record.policy.pack_id
    /\ record.policy_version = record.policy.policy_version
    /\ record.policy_hash = PolicyHash(record.policy)

-----------------------------------------------------------------------------
\* Provider configurations.

ValidProviderConfig(config) ==
    /\ config.evidence_refs # {}
    /\ config.allowed_runtime_mode = ExternalVerified
    /\ ~AnyPlaceholder({config.config_id, config.tenant_id, config.provider_ref,
                        config.provider_policy_ref, config.adapter_ref,
                        config.adapter_deployment_ref, config.adapter_config_ref})

ConfigRefs(config) ==
    {config.config_id, config.provider_ref, config.provider_policy_ref,
     config.adapter_deployment_ref, config.adapter_config_ref}
        \union config.evidence_refs

ConfigHash(config) == HashOf("production_adapter_provider_config_hash", config)

\* The fields of the record that repeat a field of the document.
ConfigHeader == {"tenant_id", "config_id", "kind", "provider_ref",
                 "provider_policy_ref", "adapter_deployment_ref"}

SealedConfig(config, evidence) ==
    LET refs == evidence \union ConfigRefs(config)
    IN  [record_id |-> <<"production_adapter_provider_config_record",
                         Bound(config, ConfigHeader), ConfigHash(config), refs>>,
         config_hash |-> ConfigHash(config), config |-> config,
         evidence_refs |-> refs] ++ Bound(config, ConfigHeader)

ConfigSealable(config, evidence) == ValidProviderConfig(config) /\ evidence # {}

ConfigLoads(record) ==
    /\ ValidProviderConfig(record.config)
    /\ record.evidence_refs # {}
    /\ Bound(record, ConfigHeader) = Bound(record.config, ConfigHeader)
    /\ record.config_hash = ConfigHash(record.config)
    /\ ConfigRefs(record.config) \subseteq record.evidence_refs

-----------------------------------------------------------------------------
\* Readiness contracts.

ValidContract(contract, now) ==
    /\ contract.evidence_refs # {}
    /\ contract.required_policy_refs # {}
    /\ contract.required_runtime_mode = ExternalVerified
    /\ ~BadWindow(contract.created_at, contract.expires_at, now)
    /\ ~AnyPlaceholder({contract.contract_id, contract.tenant_id,
                        contract.provider_ref, contract.provider_config_record_ref,
                        contract.provider_config_hash,
                        contract.required_attestation_ref,
                        contract.required_healthcheck_ref}
                          \union contract.required_policy_refs)

ContractRefs(contract) ==
    {contract.contract_id, contract.provider_ref,
     contract.provider_config_record_ref, contract.provider_config_hash,
     contract.required_attestation_ref, contract.required_healthcheck_ref}
        \union contract.required_policy_refs \union contract.evidence_refs

ContractHash(contract) ==
    HashOf("production_adapter_readiness_contract_hash", contract)

ContractHeader == {"tenant_id", "contract_id", "kind", "provider_ref",
                   "provider_config_record_ref", "provider_config_hash"}

\* The document, or the sealed record of a contract, names this sealed
\* configuration.
NamesConfig(doc, config_record) ==
    /\ doc.tenant_id = config_record.tenant_id
    /\ doc.kind = config_record.kind
    /\ doc.provider_ref = config_record.provider_ref
    /\ doc.provider_config_record_ref = config_record.record_id
    /\ doc.provider_config_hash = config_record.config_hash

ContractSealable(contract, config_record, evidence, now) ==
    /\ ValidContract(contract, now)
    /\ ConfigLoads(config_record)
    /\ evidence # {}
    /\ NamesConfig(contract, config_record)

SealedContract(contract, evidence) ==
    LET refs == evidence \union ContractRefs(contract)
    IN  [record_id |-> <<"production_adapter_readiness_contract_record",
                         Bound(contract, ContractHeader), ContractHash(contract),
                         refs>>,
         contract_hash |-> ContractHash(contract), contract |-> contract,
         evidence_refs |-> refs] ++ Bound(contract, ContractHeader)

ContractLoads(record, config_record, now) ==
    /\ ValidContract(record.contract, now)
    /\ ConfigLoads(config_record)
    /\ record.evidence_refs # {}
    /\ Bound(record, ContractHeader) = Bound(record.contract, ContractHeader)
    /\ NamesConfig(record, config_record)
    /\ record.contract_hash = ContractHash(record.contract)
    /\ ContractRefs(record.contract) \subseteq record.evidence_refs

-----------------------------------------------------------------------------
\* Adapter evidence and the decision about it; adapter_ref stands for the adapter
\* and its version.

\* The fields a decision copies from the evidence and its id binds.
AdapterBinding ==
    {"evidence_id", "kind", "runtime_mode", "provider_config_record_ref",
     "provider_config_hash", "readiness_contract_ref", "readiness_contract_hash",
     "adapter_ref", "adapter_deployment_ref", "adapter_config_ref",
     "adapter_config_hash", "provider_ref", "provider_policy_ref"}

ExpectedAdapterId(d) ==
    StableId("production_adapter_verification", d,
             AdapterBinding \union {"decision", "evidence_refs"})

NeedsProfile == {"HardenedSandbox", "SecretInjection"}

ValidAdapterEvidence(e, now) ==
    /\ e.runtime_mode = ExternalVerified
    /\ ~AnyPlaceholder({e[f] : f \in AdapterBinding \ {"evidence_id", "kind", "runtime_mode"}}
                         \union {e.attestation_ref, e.healthcheck_ref})
    /\ ~Expired(e.expires_at, now)
    /\ e.kind \in NeedsProfile => ~IsPlaceholder(e.sandbox_profile_ref)

\* The copies of the evidence that the decision rests on.
AdapterRefs(e) ==
    {e.evidence_id, e.provider_config_record_ref, e.provider_config_hash,
     e.readiness_contract_ref, e.readiness_contract_hash,
     e.adapter_deployment_ref, e.adapter_config_ref, e.adapter_config_hash,
     e.provider_policy_ref}

WithAdapterId(d) == [decision_id |-> ExpectedAdapterId(d)] ++ d

\* A refused decision keeps its evidence and gets a new id.
AdapterDecision(e, verdict, now) ==
    WithAdapterId(
        [tenant_id |-> e.tenant_id,
         decision |-> verdict,
         evidence_refs |-> AdapterRefs(e) \union {e.attestation_ref, e.healthcheck_ref}
                              \union ({e.sandbox_profile_ref} \ {NoRef}),
         verified_at |-> now, expires_at |-> e.expires_at]
            ++ Bound(e, AdapterBinding))

AdapterEvidenceVerifies(e, now) ==
    ValidAdapterEvidence(e, now) /\ e.generated_at < e.expires_at

MatchesConfig(e, config_record) ==
    /\ ConfigLoads(config_record)
    /\ config_record.tenant_id = e.tenant_id
    /\ config_record.kind = e.kind
    /\ config_record.record_id = e.provider_config_record_ref
    /\ config_record.config_hash = e.provider_config_hash
    /\ config_record.provider_ref = e.provider_ref
    /\ config_record.provider_policy_ref = e.provider_policy_ref
    /\ config_record.config.adapter_ref = e.adapter_ref
    /\ config_record.adapter_deployment_ref = e.adapter_deployment_ref
    /\ config_record.config.adapter_config_ref = e.adapter_config_ref
    /\ config_record.config.allowed_runtime_mode = e.runtime_mode

MatchesContract(e, config_record, contract_record, now) ==
    /\ ContractLoads(contract_record, config_record, now)
    /\ contract_record.tenant_id = e.tenant_id
    /\ contract_record.kind = e.kind
    /\ contract_record.record_id = e.readiness_contract_ref
    /\ contract_record.contract_hash = e.readiness_contract_hash
    /\ contract_record.provider_ref = e.provider_ref
    /\ contract_record.provider_config_record_ref = e.provider_config_record_ref
    /\ contract_record.provider_config_hash = e.provider_config_hash
    /\ contract_record.contract.required_runtime_mode = e.runtime_mode
    /\ contract_record.contract.required_attestation_ref = e.attestation_ref
    /\ contract_record.contract.required_healthcheck_ref = e.healthcheck_ref
    /\ e.provider_policy_ref \in contract_record.contract.required_policy_refs

\* verify_production_adapter_evidence and its contract-backed form.
VerifyAdapter(e, now) ==
    AdapterDecision(e, IF AdapterEvidenceVerifies(e, now) THEN "Verified"
                       ELSE "Rejected", now)

VerifyAdapterWithContract(e, config_record, contract_record, now) ==
    AdapterDecision(e, IF /\ AdapterEvidenceVerifies(e, now)
                          /\ MatchesConfig(e, config_record)
                          /\ MatchesContract(e, config_record, contract_record, now)
                       THEN "Verified" ELSE "Rejected", now)

\* An adapter decision is checked again wherever it is consumed.
ValidAdapterDecision(d, now) ==
    /\ d.decision = "Verified"
    /\ d.runtime_mode = ExternalVerified
    /\ ~Expired(d.expires_at, now)
    /\ d.decision_id = ExpectedAdapterId(d)
    /\ {d.provider_config_record_ref, d.provider_config_hash,
        d.readiness_contract_ref, d.readiness_contract_hash} \subseteq d.evidence_refs
    /\ ~AnyPlaceholder(d.evidence_refs
          \union {d[f] : f \in AdapterBinding \ {"evidence_id", "kind", "runtime_mode"}})

SatisfiesContract(d, config_record, contract_record, kind, provider_ref, now) ==
    /\ ValidAdapterDecision(d, now)
    /\ ContractLoads(contract_record, config_record, now)
    /\ d.kind = kind /\ contract_record.kind = kind
    /\ d.provider_ref = provider_ref /\ contract_record.provider_ref = provider_ref
    /\ d.provider_ref = config_record.provider_ref
    /\ d.provider_config_record_ref = config_record.record_id
    /\ d.provider_config_hash = config_record.config_hash
    /\ d.readiness_contract_ref = contract_record.record_id
    /\ d.readiness_contract_hash = contract_record.contract_hash

-----------------------------------------------------------------------------
\* The readiness bundle: every decision with its own configuration and its own
\* contract, and none of the three left over.  The arguments are sequences.

Members(seq) == {seq[i] : i \in DOMAIN seq}

Field(seq, f) == {r[f] : r \in Members(seq)}

\* No two records of the sequence share the value of the field.
Distinct(seq, f) == Cardinality(Field(seq, f)) = Len(seq)

Backs(d, config_record, contract_record, now) ==
    /\ config_record.record_id = d.provider_config_record_ref
    /\ contract_record.record_id = d.readiness_contract_ref
    /\ SatisfiesContract(d, config_record, contract_record, d.kind, d.provider_ref, now)

BundleHash(b) ==
    StableId("production_adapter_readiness_bundle_hash", b,
             {"tenant_id", "scope_ref", "adapter_decision_refs",
              "provider_config_record_refs", "provider_config_hashes",
              "readiness_contract_refs", "readiness_contract_hashes",
              "evidence_refs"})

BundleId(b) ==
    StableId("production_adapter_readiness_bundle", b,
             {"tenant_id", "scope_ref", "bundle_hash"})

ReadinessBundle(scope, ds, configs, contracts) ==
    LET b == [tenant_id |-> ds[1].tenant_id, scope_ref |-> scope,
              adapter_decision_refs |-> Field(ds, "decision_id"),
              provider_config_record_refs |-> Field(configs, "record_id"),
              provider_config_hashes |-> Field(configs, "config_hash"),
              readiness_contract_refs |-> Field(contracts, "record_id"),
              readiness_contract_hashes |-> Field(contracts, "contract_hash"),
              evidence_refs |->
                  UNION {UNION Field(ds, "evidence_refs"), Field(ds, "decision_id"),
                         UNION {{r.record_id, r.config_hash} \union r.evidence_refs
                                    : r \in Members(configs)},
                         UNION {{r.record_id, r.contract_hash} \union r.evidence_refs
                                    : r \in Members(contracts)}}]
        h == [bundle_hash |-> BundleHash(b)] ++ b
    IN  [bundle_id |-> BundleId(h), claims_authority |-> FALSE] ++ h

BundleBuildable(scope, ds, configs, contracts, now) ==
    /\ ds # << >>
    /\ Len(ds) = Len(configs) /\ Len(ds) = Len(contracts)
    /\ Cardinality(Field(ds, "tenant_id") \union Field(configs, "tenant_id")
                      \union Field(contracts, "tenant_id")) = 1
    /\ Distinct(configs, "record_id") /\ Distinct(contracts, "record_id")
    /\ Distinct(ds, "decision_id")
    /\ \A d \in Members(ds) :
          \E config \in Members(configs), contract \in Members(contracts) :
              Backs(d, config, contract, now)
    \* Every decision has a configuration of its own, and a contract.
    /\ Field(ds, "provider_config_record_ref") = Field(configs, "record_id")
    /\ Field(ds, "readiness_contract_ref") = Field(contracts, "record_id")
    /\ ~AnyPlaceholder(ReadinessBundle(scope, ds, configs, contracts).evidence_refs
                         \union {scope})

\* The refs of the five lists are covered by the evidence and the ids are the
\* expected ones: what load_production_adapter_readiness_bundle checks.
BundleLoads(b) ==
    LET lists == {b.adapter_decision_refs, b.provider_config_record_refs,
                  b.provider_config_hashes, b.readiness_contract_refs,
                  b.readiness_contract_hashes}
    IN  /\ {} \notin lists
        /\ UNION lists \subseteq b.evidence_refs
        /\ ~b.claims_authority
        /\ ~AnyPlaceholder(b.evidence_refs \union {b.scope_ref})
        /\ b.bundle_hash = BundleHash(b)
        /\ b.bundle_id = BundleId(b)
=============================================================================
