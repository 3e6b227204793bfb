SPECIFICATION Spec
CONSTANTS
    Runs = {r1}
    Caps <- MCCaps
    DeltaIds = {x1}
    OtherDeltas = {}
    PolicyIds = {d1, d2}
    GrantIds = {g1}
    TicketIds = {t1, t2}
    ProofIds = {p1, p2}
    Nil = Nil
    Contract <- MCContract
    Capability <- MCCapability
    Configs <- MCConfigs
    DeltaRisks = {0}
    MaxTime = 2
    MaxEvents = 2
SYMMETRY MCSymmetry
CHECK_DEADLOCK FALSE
INVARIANTS
    CommittedEventsReplay
