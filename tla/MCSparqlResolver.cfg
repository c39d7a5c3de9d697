SPECIFICATION Spec
CONSTANTS
    a = a
    b = b
    c = c
    r1 = r1
    r2 = r2
    Nil = Nil
    Resource <- TwoResources
    Resolver <- TwoResolvers
    ColumnLimit = 2
    MaxKeys <- LongAndShortLists
    Usage = "fits"
    Waits = {TRUE, FALSE}
    MayFail = TRUE
CHECK_DEADLOCK FALSE
SYMMETRY ResourceSymmetry
INVARIANTS
    CacheSound
    ResolvedRight
    DeletedNotReported
