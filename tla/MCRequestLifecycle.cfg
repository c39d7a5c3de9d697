SPECIFICATION MCSpec
CONSTANTS
    save = save
    fetch = fetch
    call = call
    cache = cache
    guid = guid
    None = None
    w1 = w1
    w2 = w2
    w3 = w3
    Request = {save, fetch, call}
    SyncRequest = {call}
    WriteRequest = {save}
    ResourceCache = cache
    GuidAlgorithm = guid
    Needs <- MCNeeds
    Worker = {w1, w2, w3}
    MayTimeOut = TRUE
CHECK_DEADLOCK FALSE
INVARIANTS TablesMirror CanceledNeverWrites DependenciesServedFirst
PROPERTIES SyncOkMeansReported EveryRequestEnds EveryWorkerEnds
