\* Two policies listed, a third that is not; edits change boundaries and order,
\* or take one from the list.
SPECIFICATION FairSpec
CONSTANTS
    p1 = p1
    p2 = p2
    p3 = p3
    b1 = b1
    Policies = {p1, p2, p3}
    Groups = {g1, g2}
    NoGroup = NoGroup
    Unready = Unready
    Bounds = {none, b1}
    NoBounds = none
    Unbound = Unbound
    Gone = Gone
    InitialSpec <- MCBoth
    EditableTo <- MCOther
    MissingAs = {"404", "empty"}
    MaxFaults = 2
    MaxConsole = 1
    MaxEdits = 2
INVARIANTS TypeOK CleanTeardown
PROPERTIES UnbindsOnlyListed Teardown DriftCorrected
CHECK_DEADLOCK FALSE
