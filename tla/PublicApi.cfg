SPECIFICATION Spec
CONSTANTS
    t1 = t1
    t2 = t2
    Row = {"ann", "bob", "ecosystem", "repo", "profile", "commit", "build"}
    Kind <- MCKind
    Refs <- MCRefs
    Demo = {"repo", "profile"}
    InitialUser = "ann"
    InitialEcosystem = "ecosystem"
    NoRow = "none"
    Thread = {t1, t2}
    MaxFaults = 2
SYMMETRY Symmetry
INVARIANTS TypeOK ReferencesValid SomeUserLeft
PROPERTIES AcknowledgedDeleteDone
CHECK_DEADLOCK FALSE
