\* Two replicas race on one resource whose name or body is edited, or whose object
\* is changed or deleted in the console; one call fails or one replica crashes.
SPECIFICATION FairSpec
CONSTANTS
    c1 = c1
    n1 = n1
    n2 = n2
    b1 = b1
    b2 = b2
    CRs = {c1}
    Replicas = {r1, r2}
    Ids = {i1, i2}
    Names = {n1, n2}
    Bodies = {b1, b2}
    Empty = Empty
    Gone = Gone
    Unnamed = Unnamed
    NoObject = NoObject
    Foreign = Foreign
    InitialSpec <- MCOwnNames
    EditableTo <- MCAnyEdits
    InitialAccounts <- MCEmptyAccount
    LostReplies = FALSE
    UniqueNames = FALSE
    ConsoleDeletes = TRUE
    MaxFaults = 1
    MaxEdits = 1
INVARIANTS TypeOK CreateExclusive OwnInv NoOrphans
PROPERTY DriftCorrected
CHECK_DEADLOCK FALSE
