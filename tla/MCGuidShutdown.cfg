SPECIFICATION FairSpec
CONSTANTS
    e1 = e1
    e2 = e2
    nobody = nobody
    Engine = {e1}
    Nobody = nobody
PROPERTY ShutdownReturns
CHECK_DEADLOCK FALSE
