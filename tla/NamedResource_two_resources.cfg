\* One replica, two resources with names of their own: lost and repeated
\* creations, edits, console changes.
SPECIFICATION Spec
CONSTANTS
    c1 = c1
    n1 = n1
    n2 = n2
    b1 = b1
    b2 = b2
    CRs = {c1, c2}
    Replicas = {r1}
    Ids = {i1, i2, i3, i4}
    Names = {n1, n2}
    Bodies = {b1, b2}
    Empty = Empty
    Gone = Gone
    Unnamed = Unnamed
    NoObject = NoObject
    Foreign = Foreign
    InitialSpec <- MCOwnNames
    EditableTo <- MCBodyEdits
    InitialAccounts <- MCEmptyAccount
    LostReplies = TRUE
    UniqueNames = FALSE
    ConsoleDeletes = TRUE
    MaxFaults = 1
    MaxEdits = 1
SYMMETRY MCSymmetry
PROPERTIES NameStable DeletesOnlyOwn
CHECK_DEADLOCK FALSE
