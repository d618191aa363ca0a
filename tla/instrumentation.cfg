SPECIFICATION Spec
CONSTANTS
    t1 = t1
    t2 = t2
    p1 = p1
    p2 = p2
    f1 = f1
    f2 = f2
    Tools = {t1, t2}
    Providers = {p1, p2}
    Filters = {f1, f2}
    GroupNames = {g}
    NoGroup = none
    Accepts <- AllButOne
    MaxConns = 2
    MaxGroups = 2
    Deleting = TRUE
SYMMETRY ToolSymmetry
INVARIANTS
    TypeOK
    RegisteredWhole
    FiltersAgree
    NothingLeft
    FiltersForget
