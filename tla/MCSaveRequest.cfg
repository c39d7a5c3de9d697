SPECIFICATION Spec
CONSTANTS
    a = a
    b = b
    n1 = n1
    n2 = n2
    n3 = n3
    Nil = Nil
    Resource <- Resources
    Fresh <- FreshIri
    Inputs <- Lists
    Masks = {{}, {"thumbnail"}}
    ColumnLimit = 3
    MayFail = TRUE
CHECK_DEADLOCK FALSE
INVARIANTS
    IdsAreExact
    ErrorsAreExact
