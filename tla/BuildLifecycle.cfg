SPECIFICATION FairSpec
CONSTANTS
    a1 = a1
    a2 = a2
    b1 = b1
    b2 = b2
    r1 = r1
    r2 = r2
    Agent = {a1, a2}
    Build = {b1, b2}
    Run = {r1, r2}
    NoRun = NoRun
    NoBuild = NoBuild
    Timely = TRUE
    MaxFaults = 1
    Foreign = {}
    PlatformOf <- MCPlatformOf
INVARIANTS TypeOK ExclusiveClaim OutcomeHasRun RescueNeedsOlderRun
PROPERTIES RestsUntilRestart OnlyOwnerEnds StopTakesEffect OrphanRecovered
