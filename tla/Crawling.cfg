SPECIFICATION Spec
CONSTANTS
    Ref = {"main", "tag"}
    Tag = {"tag"}
    Sha = {1, 2, 3}
    Ancestry <- MCAncestry
    Content <- MCContent
    Channel = {"stable", "all"}
    Matching <- MCMatching
    NoSha = 0
    MaxRewinds = 1
    MaxWaiting = 1
    MaxFaults = 1
INVARIANTS TypeOK StoredWasHead HeadCurrent
PROPERTIES Converges
CHECK_DEADLOCK FALSE
