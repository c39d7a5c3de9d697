SPECIFICATION FairSpec
CONSTANTS
    e1 = e1
    e2 = e2
    nobody = nobody
    Engine = {e1, e2}
    Nobody = nobody
PROPERTIES
    LockSuffices
    EveryGuidTaskEnds
CHECK_DEADLOCK FALSE
