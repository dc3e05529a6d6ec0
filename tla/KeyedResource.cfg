\* Two users or two cost centers with keys of their own and one more in the
\* account; one record a page.
SPECIFICATION FairSpec
CONSTANTS
    c1 = c1
    k0 = k0
    k1 = k1
    k2 = k2
    k3 = k3
    CRs = {c1, c2}
    Keys = {k0, k1, k2, k3}
    Order <- MCOrder
    PageSize = 1
    Kinds = {"User", "CostCenter"}
    NoRecord = NoRecord
    Foreign = Foreign
    Unnamed = Unnamed
    Gone = Gone
    InitialKey <- MCOwnKeys
    EditableTo <- MCEdits
    Existing = {k0}
    ExistsAs <- MCExistsAs
    MaxFaults = 1
    MaxEdits = 1
INVARIANTS TypeOK CleanTeardown
PROPERTIES DeletesOnlyNamed OwnershipKept Teardown DriftCorrected
CHECK_DEADLOCK FALSE
