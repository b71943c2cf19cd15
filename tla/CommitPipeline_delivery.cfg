SPECIFICATION Spec
CONSTANTS
    l1 = l1
    c1 = c1
    c2 = c2
    p1 = p1
    p2 = p2
    Line = {l1}
    Sha = {c1, c2}
    Profile = {p1, p2}
    Platform = {"linux", "windows"}
    WindowsProfile = {p2}
    Excluded = {}
    ProfilesOf <- MCProfilesOf
    PlatformOf <- MCPlatformOf
    NoCommit = NoCommit
    MaxFaults = 0
INVARIANTS BuildNotForgotten
PROPERTIES CommitsScheduled BuildsClaimed
