SPECIFICATION Spec
CONSTANTS
    a = a
    b = b
    n1 = n1
    n2 = n2
    n3 = n3
    Nil = Nil
    Resource <- Resources
    Fresh <- FreshIri
    Inputs <- PictureLists
    Masks = {{"thumbnail"}}
    ColumnLimit = 3
    MayFail = FALSE
CHECK_DEADLOCK FALSE
INVARIANTS
    OnlyMaskedDetails
