\* Two processes that open, register, commit and audit at any time.
CONSTANTS
    Processes = {p1, p2}
    Releases = {0, 1, 2, 3, 6}
    Bodies = {b1, b2}
    Contracts <- MCContracts
    Manifests <- MCManifests
    Flaws <- MCFlaws
    MaxRuns = 2
    MaxAudits = 1
SPECIFICATION Spec
SYMMETRY Symmetry
CHECK_DEADLOCK FALSE
INVARIANTS
    OpenIsComplete
    RegistryIsRecorded
    AuditAccusesTheFaulty
PROPERTIES
    ImplementsTrail
