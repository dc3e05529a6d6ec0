\* Two cost centers are deleted at once; nobody else touches the account and no
\* call fails.
SPECIFICATION Spec
CONSTANTS
    c1 = c1
    k0 = k0
    k1 = k1
    k2 = k2
    k3 = k3
    CRs = {c1, c2}
    Keys = {k0, k1, k2, k3}
    Order <- MCOrder
    PageSize = 1
    Kinds = {"CostCenter"}
    NoRecord = NoRecord
    Foreign = Foreign
    Unnamed = Unnamed
    Gone = Gone
    InitialKey <- MCOwnKeys
    EditableTo <- MCNoEdits
    Existing = {k0}
    ExistsAs <- MCExistsAs
    MaxFaults = 0
    MaxEdits = 0
INVARIANT NoOrphans
CHECK_DEADLOCK FALSE
