SPECIFICATION Spec
CONSTANTS
    a1 = a1
    a2 = a2
    old = old
    debug = debug
    new = new
    app = app
    Agent = {a1, a2}
    Build = {old, debug, new, app}
    RecipeOf <- MCRecipeOf
    RevisionOf <- MCRevisionOf
    ProfileOf <- MCProfileOf
    Needs <- MCNeeds
    Outdated = {app}
    MaxFaults = 1
    NoBuild = NoBuild
    NoView = NoView
    NoRevision = NoRevision
SYMMETRY Symmetry
INVARIANTS TypeOK RowsUnique NoneForgotten
PROPERTIES RetriggeredForReason
CHECK_DEADLOCK FALSE
