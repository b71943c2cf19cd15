SPECIFICATION Spec
CONSTANTS
    a1 = a1
    a2 = a2
    b1 = b1
    r1 = r1
    r2 = r2
    r3 = r3
    Agent = {a1, a2}
    Build = {b1}
    Run = {r1, r2, r3}
    NoRun = NoRun
    NoBuild = NoBuild
    Timely = TRUE
    MaxFaults = 0
    Foreign = {}
    PlatformOf <- MCPlatformOf
SYMMETRY Symmetry
INVARIANTS RescueOnlyOrphans
