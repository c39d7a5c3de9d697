SPECIFICATION Spec
CONSTANTS
    a = a
    b = b
    c = c
    r1 = r1
    r2 = r2
    Nil = Nil
    Resource <- ThreeResources
    Resolver <- OneResolver
    ColumnLimit = 1
    MaxKeys <- LongLists
    Usage = "any"
    Waits = {TRUE}
    MayFail = FALSE
CHECK_DEADLOCK FALSE
INVARIANTS
    ResolvedRight
