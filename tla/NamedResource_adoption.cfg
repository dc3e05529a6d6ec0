\* Replies to a POST get lost, object names are unique and stay as applied,
\* bodies change or vanish in the console.
SPECIFICATION FairSpec
CONSTANTS
    c1 = c1
    n1 = n1
    n2 = n2
    b1 = b1
    b2 = b2
    CRs = {c1}
    Replicas = {r1}
    Ids = {i1, i2, i3, i4}
    Names = {n1}
    Bodies = {b1, b2, Empty}
    Empty = Empty
    Gone = Gone
    Unnamed = Unnamed
    NoObject = NoObject
    Foreign = Foreign
    InitialSpec <- MCOwnNames
    EditableTo <- MCBodyEdits
    InitialAccounts <- MCAnyAccount
    LostReplies = TRUE
    UniqueNames = TRUE
    ConsoleDeletes = FALSE
    MaxFaults = 2
    MaxEdits = 2
PROPERTIES OwnershipKept Teardown DriftCorrected
CHECK_DEADLOCK FALSE
