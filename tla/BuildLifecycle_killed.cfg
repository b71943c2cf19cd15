SPECIFICATION Spec
CONSTANTS
    a1 = a1
    b1 = b1
    r1 = r1
    r2 = r2
    Agent = {a1}
    Build = {b1}
    Run = {r1, r2}
    NoRun = NoRun
    NoBuild = NoBuild
    Timely = TRUE
    MaxFaults = 1
    Foreign = {}
    PlatformOf <- MCPlatformOf
SYMMETRY Symmetry
PROPERTIES KilledIsNoSuccess
