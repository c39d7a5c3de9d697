SPECIFICATION FairSpec
CONSTANTS
    guid = guid
    save = save
    fetch = fetch
    prefill = prefill
    none = none
    Task = {prefill, guid, save, fetch}
    AsyncTask = {guid}
    RequestTask = {save, fetch}
    NoTask = none
CHECK_DEADLOCK FALSE
INVARIANTS OneAtATime RunsOnce HeadIsServed OnlyLastSurvives
PROPERTIES ImplementsExecutor ShutdownEnds EveryTaskEnds
