CONSTANTS
    Start <- MCStart
    Foreign <- MCForeign
    Strays <- MCStrays
    Config <- MCConfig
    Contract <- MCContract
    Receipts <- MCReceipts
    Attestations <- MCAttestations
    Signatures <- MCSignatures
    Records <- MCRecords
    SecretUses <- MCSecretUses
    Exports <- MCExports
    MaxAge = 1
    MaxChanges = 2
    Policies <- MCPolicies
    Credential <- MCCredential
    UseRequests <- MCUseRequests
    GlassRequests <- MCGlassRequests
    P1Requests <- MCP1Requests
    Approvals <- MCApprovals
    Profiles <- MCProfiles
    Evidence <- MCEvidence
    Redactions = {"redaction"}
    MaxTime = 2
    MaxCalls = 6
SPECIFICATION Spec
CHECK_DEADLOCK FALSE
INVARIANTS
    ReadyIsFresh
    ReadyTrustsNothingEdited
    ReadyCitesItsAdapters
    WholeIsReady
    AllowedHasQuorum
    LoadsAsSealed
    BundleRestsOnTheSeal
PROPERTIES
    GlassAuditIsOfTheDecision
