SPECIFICATION Spec
CONSTANTS
    l1 = l1
    c1 = c1
    c2 = c2
    p1 = p1
    Line = {l1}
    Sha = {c1, c2}
    Profile = {p1}
    Platform = {"linux"}
    WindowsProfile = {}
    Excluded = {}
    ProfilesOf <- MCProfilesOf
    PlatformOf <- MCPlatformOf
    NoCommit = NoCommit
    MaxFaults = 0
INVARIANTS OneCurrentCommit
