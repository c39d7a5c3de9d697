SPECIFICATION FairSpec
CONSTANTS
    G = G
    c1 = c1
    Contact <- OneContact
    Group = G
    FilterMode = {"all", "ignore", "only"}
    MayFail = TRUE
CHECK_DEADLOCK FALSE
INVARIANTS
    PendingIsTimed
    ViewCatchesUp
    NothingForgotten
    NoSpuriousChange
PROPERTIES
    EveryChangeSignalled
