SPECIFICATION Spec
CONSTANTS
    l1 = l1
    l2 = l2
    c1 = c1
    c2 = c2
    p1 = p1
    Line = {l1, l2}
    Sha = {c1, c2}
    Profile = {p1}
    Platform = {"linux"}
    WindowsProfile = {}
    Excluded = {l2}
    ProfilesOf <- MCProfilesOf
    PlatformOf <- MCPlatformOf
    NoCommit = NoCommit
    MaxFaults = 1
SYMMETRY Symmetry
INVARIANTS TypeOK NewestIsCurrent BuildsMatchStatus CommitNotForgotten
