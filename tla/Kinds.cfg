\* Every kind, from every manifest, on every server.
SPECIFICATION FairSpec
CONSTANTS
    host = host
    cpu = cpu
    Unset = Unset
    Empty = Empty
    Values = {host, cpu, "ME", "DIMENSION"}
    KindsOfRun = {"Group", "Policy", "PolicyBoundary", "ServiceUser", "ZoneV2"}
    Texts = {a}
    Queries = {Empty, a, b}
    ZoneRuleSets <- MCZoneRuleSets
    NoObject = NoObject
    MaxFaults = 1
    MaxEdits = 2
INVARIANTS TypeOK OneObject
PROPERTIES DriftCorrected Settles StatusIsFaithful Teardown
CHECK_DEADLOCK FALSE
