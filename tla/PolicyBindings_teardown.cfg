\* No call fails and nobody else touches the group: a policy is added to the
\* list and the resource is deleted before the next reconcile.
SPECIFICATION Spec
CONSTANTS
    p1 = p1
    p2 = p2
    p3 = p3
    b1 = b1
    Policies = {p1, p2, p3}
    Groups = {g1, g2}
    NoGroup = NoGroup
    Unready = Unready
    Bounds = {none, b1}
    NoBounds = none
    Unbound = Unbound
    Gone = Gone
    InitialSpec <- MCBoth
    EditableTo <- MCMore
    MissingAs = {"404", "empty"}
    MaxFaults = 0
    MaxConsole = 0
    MaxEdits = 1
INVARIANT NothingBound
CHECK_DEADLOCK FALSE
