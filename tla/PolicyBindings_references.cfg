\* The user deletes the Group resource and the bindings of that group.
SPECIFICATION FairSpec
CONSTANTS
    p1 = p1
    p2 = p2
    p3 = p3
    b1 = b1
    Policies = {p1, p2, p3}
    Groups = {g1, g2}
    NoGroup = NoGroup
    Unready = Unready
    Bounds = {none, b1}
    NoBounds = none
    Unbound = Unbound
    Gone = Gone
    InitialSpec <- MCBoth
    EditableTo <- MCOther
    MissingAs = {"404", "empty"}
    MaxFaults = 0
    MaxConsole = 0
    MaxEdits = 1
PROPERTY TeardownInAnyOrder
CHECK_DEADLOCK FALSE
