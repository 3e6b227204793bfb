--------------------------- MODULE VaultReadiness ---------------------------
(***************************************************************************)
(* One tenant on its way to production.  The operator keeps the typed      *)
(* hardening decisions of the tenant, verifies some of them again as time  *)
(* passes, loses or edits one, gets one of another tenant by mistake, and  *)
(* asks for the strict production readiness of what there is.  The vault   *)
(* keeps none of this: each action is one of its functions, applied to the *)
(* records the operator has.                                               *)
(***************************************************************************)
EXTENDS VaultHardening, VaultTenant

CONSTANTS
    Start,          \* the decision set the tenant starts from
    Foreign,        \* the decision set of another tenant
    Strays,         \* decisions about a credential that the set does not list
    Config,         \* the sealed provider configuration of each adapter kind
    Contract,       \* the sealed readiness contract of each adapter kind
    Receipts(_, _), \* the evidence a component of the kind returns for a decision
    Attestations,   \* the evidence the production adapters may return
    Signatures,     \* the executor signatures presented
    Records,        \* the sealed trust-root records, a sequence
    SecretUses,     \* the secret-use decisions an injection may cite
    Exports,        \* the compliance bundles a delivery may be about
    MaxAge,         \* bound: the clock stops here
    MaxChanges      \* bound: changes made to the starting set

VARIABLES
    set,            \* the decision set as the operator has it
    edited,         \* ghost: the components with a hand-edited verdict
    basis,          \* ghost: how and when the set as it is was evaluated last
    changes

readinessVars == <<now, set, edited, readiness, basis, changes>>

\* The components whose decisions are in the set, by field.
Components == {"auth", "managers", "verifiers", "sandboxes", "rotations",
               "injections", "deliveries", "storages"}

\* Those of which the set has one decision for each credential.
ByCredential == {"managers", "rotations", "injections"}

\* A decision as the vault issues it: its id binds its verdict.
Issued(d) ==
    /\ {"decision_id", "decision"} \subseteq DOMAIN d
    /\ d.decision_id[2].decision = d.decision

\* A rotation decision that names an adapter decision keeps the references its
\* id binds.
KeepsItsAdapter(d) ==
    /\ {"adapter_decision_ref", "evidence_refs"} \subseteq DOMAIN d
    /\ \/ d.adapter_decision_ref = NoRef
       \/ d.adapter_decision_ref[2].evidence_refs \subseteq d.evidence_refs

\* The clock of the model does not reach the number of an absent expiry.
ASSUME ClockAssumption == MaxAge \in Nat /\ MaxAge < Never

\* The operator starts from decisions of the vault.
ASSUME DecisionsAssumption ==
    /\ Components \union {"credentials", "evidence", "adapters", "signatures"}
          \subseteq DOMAIN Start
    /\ Start.credentials \in Seq(Members(Start.credentials))
    /\ \A ad \in Members(Start.adapters) : ad.decision_id = ExpectedAdapterId(ad)
    /\ \A s \in {Start, Foreign} :
          /\ \A component \in Components :
                /\ s[component] \in Seq(Members(s[component]))
                /\ \A d \in Members(s[component]) : Issued(d)
          /\ \A d \in Members(s.rotations) : KeepsItsAdapter(d)
    /\ \A component \in ByCredential :
          /\ Strays[component] \in Seq(Members(Strays[component]))
          /\ \A d \in Members(Strays[component]) :
                Issued(d) /\ (component = "rotations" => KeepsItsAdapter(d))

NoBasis == [strict |-> FALSE, at |-> 0]

\* No decisions: what a tenant starts from that is not asked about.
NoDecisions == [component \in Components |-> << >>]

ReadinessInit(decisions) ==
    /\ now = 0
    /\ set = decisions
    /\ edited = {}
    /\ readiness = NoReadiness
    /\ basis = NoBasis
    /\ changes = 0

-----------------------------------------------------------------------------
\* A decision about the set as it was is of no more interest.
Forget == readiness' = NoReadiness /\ basis' = NoBasis

\* A fresh decision takes the place of the last one of its component.
Put(component, d) ==
    /\ changes < MaxChanges
    /\ set' = [set EXCEPT ![component] = <<d>>]
    /\ edited' = edited \ {component}
    /\ changes' = changes + 1
    /\ Forget
    /\ UNCHANGED now

\* An adapter decision of the set and evidence that was made for it.
Adapters == Members(set.adapters)

ReverifyAuth ==
    \E ad \in Adapters : \E e \in Receipts("AuthProvider", ad) :
        Put("auth", VerifyAuth(set.hardening, ad, e, Config[ad.kind], Contract[ad.kind], now))

ReverifySecretManager ==
    \E ad \in Adapters : \E e \in Receipts("ExternalSecretManager", ad) :
        Put("managers", VerifySecretManager(set.credentials[1], set.hardening, ad, e,
                                            Config[ad.kind], Contract[ad.kind], now))

ReverifyVerifier ==
    \E ad \in Adapters, record \in Members(Records) :
        \E e \in Receipts("CryptographicVerifier", ad) :
            Put("verifiers", VerifyVerifier(set.hardening, set.signatures[1], record, ad, e,
                                            Config[ad.kind], Contract[ad.kind], now))

ReverifySandbox ==
    \E ad \in Adapters : \E e \in Receipts("HardenedSandbox", ad) :
        Put("sandboxes", VerifySandbox(set.hardening, ad, e, Config[ad.kind],
                                       Contract[ad.kind], now))

ReverifyRotation ==
    \/ \E ad \in Adapters :
          /\ ad.kind = "RotationEnforcement"
          /\ Put("rotations", VerifyRotationWithContract(set.credentials[1], set.hardening, ad,
                                  Config[ad.kind], Contract[ad.kind], now))
    \/ Put("rotations", VerifyRotation(set.credentials[1], set.hardening, NoAdapter, now))

ReverifyInjection ==
    \E ad \in Adapters, use \in SecretUses :
        \E e \in Receipts("SecretInjection", ad) :
            Put("injections", VerifyInjection(set.credentials[1], use, set.hardening, ad, e,
                                              Config[ad.kind], Contract[ad.kind], now))

ReverifyDelivery ==
    \E ad \in Adapters, b \in Exports :
        \E e \in Receipts("ComplianceAuditExport", ad) :
            \/ Put("deliveries", VerifyDeliveryWithContract(b, e, ad, Config[ad.kind],
                                                            Contract[ad.kind], now))
            \/ Put("deliveries", VerifyDelivery(b, e, NoAdapter, now))

ReverifyStorage ==
    \E ad \in Adapters, record \in Members(Records) :
        \E e \in Receipts("ExecutorTrustRoots", ad) :
            \/ Put("storages", VerifyTrustRootStorageWithContract(record, e, ad,
                                   Config[ad.kind], Contract[ad.kind], now))
            \/ Put("storages", VerifyTrustRootStorage(record, e, now))

\* The adapter itself is verified again: its decision changes with its evidence.
ReverifyAdapter(i) ==
    \E e \in Attestations :
        /\ e.kind = set.adapters[i].kind
        /\ changes < MaxChanges
        /\ set' = [set EXCEPT !.evidence[i] = e,
                              !.adapters[i] = VerifyAdapterWithContract(
                                  e, Config[e.kind], Contract[e.kind], now)]
        /\ changes' = changes + 1
        /\ Forget
        /\ UNCHANGED <<now, edited>>

\* The sealed roots, and the same roots listed twice: the first match counts.
RootLists == {Records, Records \o Records}

\* A ticket below and one at high risk.
TicketRisks == {1, High}

\* The signature is checked again, against sealed roots.
ResignExecutor(s, records, risk) ==
    /\ changes < MaxChanges
    /\ SignatureDecidable(s, records)
    /\ set' = [set EXCEPT !.signatures = <<VerifySignatureWithRecords(s, records, risk)>>]
    /\ changes' = changes + 1
    /\ Forget
    /\ UNCHANGED <<now, edited>>

\* A decision of the set is lost, or one of another tenant takes its place.
Misplace(component) ==
    /\ changes < MaxChanges
    /\ \E ds \in {<< >>, Foreign[component]} : set' = [set EXCEPT ![component] = ds]
    /\ edited' = edited \ {component}
    /\ changes' = changes + 1
    /\ Forget
    /\ UNCHANGED now

\* A credential is listed a second time, and decisions about one that is not
\* listed make up the numbers: what the evaluation counts is not what it looks
\* at.  They come first, but an edited decision stays the first of its component.
Joined(component) ==
    IF component \in edited THEN set[component] \o Strays[component]
                           ELSE Strays[component] \o set[component]

ListAgain ==
    /\ changes < MaxChanges
    /\ set.credentials = Start.credentials
    /\ \E i \in DOMAIN set.credentials :
          set' = [set EXCEPT !.credentials = Append(@, @[i]),
                             !.managers = Joined("managers"),
                             !.rotations = Joined("rotations"),
                             !.injections = Joined("injections")]
    /\ changes' = changes + 1
    /\ Forget
    /\ UNCHANGED <<now, edited>>

\* Someone edits the verdict of a stored decision.
EditVerdict(component) ==
    /\ changes < MaxChanges
    /\ set[component] # << >> /\ set[component][1].decision = "Rejected"
    /\ set' = [set EXCEPT ![component][1].decision = "Verified"]
    /\ edited' = edited \union {component}
    /\ changes' = changes + 1
    /\ Forget
    /\ UNCHANGED now

\* evaluate_production_readiness_with_hardening_decision_set
EvaluateSet ==
    /\ StrictlyEvaluable(set, now)
    /\ readiness' = EvaluateStrictly(set, now)
    /\ basis' = [strict |-> TRUE, at |-> now]
    /\ UNCHANGED <<now, set, edited, changes>>

\* evaluate_production_readiness_with_decisions, and its form with the sandbox
\* decisions: the typed decisions of the other components are not asked for.
EvaluateBasic(with_sandbox) ==
    /\ Evaluable(set, with_sandbox, now)
    /\ readiness' = Evaluate(set, with_sandbox, now)
    /\ basis' = [strict |-> FALSE, at |-> now]
    /\ UNCHANGED <<now, set, edited, changes>>

DecisionsAge ==
    /\ now < MaxAge
    /\ now' = now + 1
    /\ UNCHANGED <<set, edited, readiness, basis, changes>>

ReadinessNext ==
    \/ ReverifyAuth \/ ReverifySecretManager \/ ReverifyVerifier \/ ReverifySandbox
    \/ ReverifyRotation \/ ReverifyInjection \/ ReverifyDelivery \/ ReverifyStorage
    \/ \E i \in DOMAIN set.adapters : ReverifyAdapter(i)
    \/ \E s \in Signatures, records \in RootLists, risk \in TicketRisks :
          ResignExecutor(s, records, risk)
    \/ \E component \in Components : Misplace(component) \/ EditVerdict(component)
    \/ ListAgain
    \/ EvaluateSet
    \/ \E with_sandbox \in BOOLEAN : EvaluateBasic(with_sandbox)
    \/ DecisionsAge

-----------------------------------------------------------------------------
\* The last evaluation was a strict one and found its set ready.
FoundReady == basis.strict /\ readiness.decision = "Ready"

Typed(s) == UNION {Members(s[component]) : component \in Components}

\* The decision names one of the adapters with all the references it rests on.
Cites(d, adapters) ==
    \E ad \in Members(adapters) :
        {ad.decision_id} \union ad.evidence_refs \subseteq d.evidence_refs

\* The decisions a strict evaluation looks at: of the secret managers and of
\* the injections it looks up the one of each credential, of the others every
\* one.  Where a credential is listed twice there is a decision about another
\* that it only counts: such a decision may be expired, rejected or edited.
Counted(s) ==
    UNION {{d \in Members(s[component]) :
               component \in {"managers", "injections"}
                   => d.credential_id \in Field(s.credentials, "credential_id")} :
           component \in Components}

\* A set is only found ready while every typed decision that counts and every
\* adapter decision in it is verified and has not expired, and every credential
\* has its decisions: the strict path looks at eight components that each keep
\* their own expiry, in eight places.
ReadyIsFresh ==
    FoundReady =>
        /\ \A d \in Counted(set) \union Members(set.adapters) :
              d.decision = "Verified" /\ ~Expired(d.expires_at, basis.at)
        /\ \A component \in ByCredential :
              Field(set.credentials, "credential_id")
                  \subseteq Field(set[component], "credential_id")

\* A rejection cannot be edited into a verdict that counts: the id of the
\* decision binds it and is computed again when the decision is looked at.
ReadyTrustsNothingEdited ==
    FoundReady =>
        \A component \in edited : set[component][1] \notin Counted(set)

\* Every typed decision that counts in a ready set names an adapter decision of
\* that set and keeps the sealed references it rests on, so that an adapter
\* that was verified again takes its old dependants with it.  Only a rotation
\* decision may do without an adapter.
ReadyCitesItsAdapters ==
    FoundReady =>
        \A d \in Counted(set) :
            \/ Cites(d, set.adapters)
            \/ d \in Members(set.rotations) /\ d.adapter_decision_ref = NoRef

\* A set of one live, verified, unedited decision for each component, all made
\* for the adapters, the signature and the trust root of the set, and contracts
\* that have not run out.
Whole ==
    /\ edited = {}
    /\ \A component \in Components : Len(set[component]) = 1
    /\ set.credentials = Start.credentials
    /\ \A d \in Typed(set) \union Members(set.adapters) :
          /\ d.tenant_id = set.policy.tenant_id
          /\ d.decision = "Verified" /\ ~Expired(d.expires_at, now)
    /\ \A component \in Components \ {"rotations"} :
          \A d \in Members(set[component]) : Cites(d, set.adapters)
    /\ \A ref \in Given(Field(set.rotations, "adapter_decision_ref")) :
          ref \in Field(set.adapters, "decision_id")
    /\ set.verifiers[1].signature_decision_ref = set.signatures[1].decision_id
    /\ set.storages[1].root_id = set.signatures[1].trust_root_ref
    /\ \A ad \in Members(set.adapters) : ~Expired(Contract[ad.kind].contract.expires_at, now)

\* Its adapters with the sealed documents of each, packaged for review.
Packaged(f) == [i \in DOMAIN set.adapters |-> f[set.adapters[i].kind]]

\* A whole set is never refused, and its adapters package into a bundle that
\* loads: nothing a check wants was left out by the operation that produced the
\* record.
WholeIsReady ==
    Whole =>
        /\ StrictlyEvaluable(set, now) /\ MissingGates(set, now) = {}
        /\ BundleBuildable(<<"review">>, set.adapters, Packaged(Config),
                           Packaged(Contract), now)
        /\ BundleLoads(ReadinessBundle(<<"review">>, set.adapters, Packaged(Config),
                                       Packaged(Contract)))
-----------------------------------------------------------------------------
\* When a whole set is never refused: what the operator has comes from the
\* vault, and what the vault does not check when it makes a decision, and checks
\* when it uses it, is in order.

\* The decisions the vault can have issued to the tenant.
Times == 0 .. MaxAge

Attested == Attestations \union Members(Start.evidence)

AdapterIssues(e) ==
    {VerifyAdapterWithContract(e, Config[e.kind], Contract[e.kind], at) : at \in Times}

AdapterDecisions == UNION {AdapterIssues(e) : e \in Attested}

SignatureDecisions ==
    Members(Start.signatures) \union
        {VerifySignatureWithRecords(s, records, risk) :
            s \in Signatures, records \in RootLists, risk \in TicketRisks}

\* The decision of the component is one the vault issued with this adapter
\* decision at this time.
IssuedFor(component, d, ad, at) ==
    LET h == Start.hardening
        c == Start.credentials[1]
        config == Config[ad.kind]
        contract == Contract[ad.kind]
        Receipt(kind) == Receipts(kind, ad)
    IN  \/ component = "auth" /\ \E e \in Receipt("AuthProvider") :
              d = VerifyAuth(h, ad, e, config, contract, at)
        \/ component = "managers" /\ \E e \in Receipt("ExternalSecretManager") :
              d = VerifySecretManager(c, h, ad, e, config, contract, at)
        \/ component = "verifiers" /\ \E e \in Receipt("CryptographicVerifier") :
              \E sd \in SignatureDecisions, record \in Members(Records) :
                  d = VerifyVerifier(h, sd, record, ad, e, config, contract, at)
        \/ component = "sandboxes" /\ \E e \in Receipt("HardenedSandbox") :
              d = VerifySandbox(h, ad, e, config, contract, at)
        \/ component = "rotations" /\ ad.kind = "RotationEnforcement"
              /\ d = VerifyRotationWithContract(c, h, ad, config, contract, at)
        \/ component = "injections" /\ \E e \in Receipt("SecretInjection") :
              \E use \in SecretUses :
                  d = VerifyInjection(c, use, h, ad, e, config, contract, at)
        \/ component = "deliveries" /\ \E e \in Receipt("ComplianceAuditExport") :
              \E b \in Exports :
                  \/ d = VerifyDeliveryWithContract(b, e, ad, config, contract, at)
                  \/ d = VerifyDelivery(b, e, NoAdapter, at)
        \/ component = "storages" /\ \E e \in Receipt("ExecutorTrustRoots") :
              \E record \in Members(Records) :
                  \/ d = VerifyTrustRootStorageWithContract(record, e, ad, config, contract, at)
                  \/ d = VerifyTrustRootStorage(record, e, at)

FromTheVault(component, d) ==
    \/ \E ad \in AdapterDecisions, at \in Times : IssuedFor(component, d, ad, at)
    \/ component = "rotations"
          /\ \E at \in Times :
                d = VerifyRotation(Start.credentials[1], Start.hardening, NoAdapter, at)

\* The tenant starts from decisions of the vault, with one credential, one
\* signature and one adapter of a kind; the other set is of another tenant.
StartIsIssued ==
    /\ Start.credentials = <<Start.credentials[1]>>
    /\ Start.signatures = <<Start.signatures[1]>>
    /\ Start.signatures[1].decision_id = ExpectedSignatureId(Start.signatures[1])
    /\ Start.evidence \in Seq(Members(Start.evidence))
    /\ Start.adapters \in Seq(Members(Start.adapters))
    /\ Len(Start.evidence) = Len(Start.adapters)
    /\ \A i \in DOMAIN Start.adapters : Start.adapters[i] \in AdapterIssues(Start.evidence[i])
    /\ \A i, j \in DOMAIN Start.adapters : Start.evidence[i].kind = Start.evidence[j].kind => i = j
    /\ \A component \in Components :
          /\ \A d \in Members(Start[component]) : FromTheVault(component, d)
          /\ \A d \in Members(Foreign[component]) : d.tenant_id # Start.policy.tenant_id

\* The tenant's policy leaves no gate open, an adapter backs the rotation policy
\* also when no rotation decision names it, and the sealed configurations name
\* the two providers no decision compares with the hardening evidence.
TenantIsStrict ==
    /\ PolicyGates(Start.policy) = {}
    /\ ValidCredential(Start.credentials[1])
    /\ \E i \in DOMAIN Start.evidence : Start.evidence[i].kind = "RotationEnforcement"
    /\ \A kind \in {"RotationEnforcement", "ComplianceAuditExport"} :
          Config[kind].provider_ref = HardenedBy(Start.hardening)[kind]

\* An id or a hash of a sealed document binds its header.
DocumentsAreSealed ==
    \A kind \in {e.kind : e \in Attested} :
        /\ Config[kind].record_id =
              <<"production_adapter_provider_config_record", Bound(Config[kind], ConfigHeader),
                Config[kind].config_hash, Config[kind].evidence_refs>>
        /\ Contract[kind].record_id =
              <<"production_adapter_readiness_contract_record",
                Bound(Contract[kind], ContractHeader), Contract[kind].contract_hash,
                Contract[kind].evidence_refs>>
        /\ ~AnyPlaceholder(Config[kind].evidence_refs \union Contract[kind].evidence_refs)

AdapterPrefix == "production_adapter_verification"
ConfigPrefix == "production_adapter_provider_config_record"

\* A reference that is neither an adapter decision nor a configuration.
OwnName(ref) == ref[1] \notin {AdapterPrefix, ConfigPrefix} /\ ~LooksLikeRawSecret(ref)

\* The fields of a receipt whose values its decision rests on.
NameFields ==
    [AuthProvider |-> {"evidence_id", "provider_ref"},
     ExternalSecretManager |-> {"evidence_id", "provider_ref", "rotation_policy_ref"},
     CryptographicVerifier |-> {"evidence_id", "provider_ref"},
     HardenedSandbox |-> {"evidence_id", "provider_ref"},
     SecretInjection |-> {"evidence_id", "provider_ref", "injection_receipt_ref", "run_id",
                          "sandbox_profile_ref"},
     ComplianceAuditExport |-> {"evidence_id", "storage_provider_ref", "delivery_ref"},
     ExecutorTrustRoots |-> {"evidence_id", "storage_provider_ref"}]

\* What the records given to the vault rest on.
Foundations ==
    UNION {Start.hardening.evidence_refs,
           {Start.credentials[1].credential_id, Start.credentials[1].external_secret_ref},
           UNION {sd.evidence_refs : sd \in SignatureDecisions},
           UNION {record.evidence_refs \union {record.record_id} : record \in Members(Records)},
           UNION {use.evidence_refs : use \in SecretUses},
           UNION {{b.tenant_policy_record_ref, b.tenant_policy_hash} \union KeptRefs(b) :
                      b \in Exports}}

\* No receipt and no record passes a secret or the id of an adapter decision or
\* of a configuration off as a reference of its own, and what the records rest
\* on is real: a placeholder among it is only noticed when a decision is used.
ReferencesAreReal ==
    /\ \A ref \in Foundations : OwnName(ref) /\ ~IsPlaceholder(ref)
    /\ \A ref \in {Start.credentials[1].rotation_ref, Start.hardening.rotation_policy_ref} :
          OwnName(ref)
    /\ \A kind \in DOMAIN NameFields, ad \in AdapterDecisions :
          \A e \in Receipts(kind, ad) :
              /\ \A ref \in e.refs \union {e[f] : f \in NameFields[kind]} : OwnName(ref)
              /\ e.expires_at \in Nat
    /\ \A e \in Attested :
          /\ ~IsPlaceholder(e.evidence_id) /\ e.sandbox_profile_ref # Placeholder
          /\ \A ref \in AdapterRefs(e) \union {e.attestation_ref, e.healthcheck_ref,
                                               e.sandbox_profile_ref} :
                ref[1] # AdapterPrefix /\ ~LooksLikeRawSecret(ref)
    /\ \A e, f \in Attested : e.evidence_id = f.evidence_id => e.kind = f.kind

SetIsInOrder == StartIsIssued /\ TenantIsStrict /\ DocumentsAreSealed /\ ReferencesAreReal
=============================================================================
