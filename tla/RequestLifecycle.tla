--------------------------- MODULE RequestLifecycle ---------------------------
(***************************************************************************)
(* How QContactTrackerEngine runs client requests (src/engine/engine.cpp,  *)
(* tasks.cpp, abstractrequest.cpp): startRequestImpl() makes a worker and  *)
(* a task for a request and puts the task into one of two queues; the      *)
(* queue's thread executes the worker, which reports into the request;     *)
(* clients cancel, reuse and destroy requests at any time; the synchronous *)
(* API blocks on a QctTaskWaiter.                                          *)
(*                                                                         *)
(* m_requestLifeGuard, a recursive mutex, is held by startRequestImpl(),   *)
(* cancelRequest(), requestDestroyed() and for as long as a worker reports *)
(* into a request, signal handlers included: each of them is one step.  A  *)
(* client's slot of stateChanged() that is connected before start() runs   *)
(* ahead of the task's, and it may start the request again.                *)
(* The queues are the serial executors that module TaskQueue implements.   *)
(***************************************************************************)
EXTENDS QueueOps

CONSTANTS
    Request,        \* the request objects of the clients
    SyncRequest,    \* those the synchronous API keeps on its stack
    WriteRequest,   \* save, remove, merge, unmerge, relationship changes
    ResourceCache,  \* QTrackerAbstractRequest::Dependency
    GuidAlgorithm,
    Needs,          \* dependencies() of the worker made for a request
    Worker,         \* the addresses at which workers and their tasks are made
    MayTimeOut,     \* requestTimeout() is not 0, which means for ever
    None

Dependency == {ResourceCache, GuidAlgorithm}

ASSUME RequestAssumption ==
    /\ SyncRequest \subseteq Request
    /\ WriteRequest \subseteq Request
    /\ Needs \in [Request -> SUBSET Dependency]
    /\ MayTimeOut \in BOOLEAN
    /\ ResourceCache # GuidAlgorithm
    /\ Dependency \cap Worker = {}
    /\ None \notin Request \cup Worker

VARIABLES
    trusted,    \* the process has the mandatory security tokens
    state,      \* QContactAbstractRequest::state(), and the object's end
    links,      \* the tasks that destroyed() of the request is connected to
    workerOf,   \* m_workersByRequest
    requestOf,  \* m_requestsByWorker
    phase,      \* where exec() of the worker is, "free" where there is none
    writes,     \* the worker changes the store
    needs,      \* the worker's dependencies()
    canceled,   \* m_canceled
    cancelable, \* m_cancelable
    wrote,      \* the worker sent its updates
    finished,   \* its task emitted finished()
    queue,      \* the tasks in m_asyncQueue and m_syncQueue
    satisfied,  \* m_satisfiedDependencies
    ready,      \* the dependencies whose task has run
    promised,   \* cancelRequest() returned true for this start
    caller,     \* where runSyncRequest() is
    handle,     \* the task that startRequestImpl() returned to it
    saw         \* which signal the QctTaskWaiter got

tables == <<links, workerOf, requestOf>>
workers == <<phase, writes, needs, canceled, cancelable, wrote, finished>>
deps == <<satisfied, ready>>
waiter == <<caller, handle, saw>>
vars == <<trusted, state, tables, workers, queue, deps, promised, waiter>>

-----------------------------------------------------------------------------

Queue == {"async", "sync"}
QueueOf(r) == IF r \in SyncRequest THEN "sync" ELSE "async"

\* Some requests are never made, and some addresses are taken for good by
\* something that is no worker.
Init ==
    /\ trusted \in BOOLEAN
    /\ state \in [Request -> {"inactive", "gone"}]
    /\ links = [r \in Request |-> {}]
    /\ workerOf = [r \in Request |-> None]
    /\ requestOf = [w \in Worker |-> None]
    /\ phase \in [Worker -> {"free", "taken"}]
    /\ writes = [w \in Worker |-> FALSE]
    /\ needs = [w \in Worker |-> {}]
    /\ canceled = [w \in Worker |-> FALSE]
    /\ cancelable = [w \in Worker |-> TRUE]
    /\ wrote = [w \in Worker |-> FALSE]
    /\ finished = [w \in Worker |-> FALSE]
    /\ queue = [q \in Queue |-> << >>]
    /\ satisfied = {}
    /\ ready = {}
    /\ promised = [r \in Request |-> FALSE]
    /\ caller = [r \in Request |-> "idle"]
    /\ handle = [r \in Request |-> None]
    /\ saw = [r \in Request |-> "nothing"]

-----------------------------------------------------------------------------
(* The engine's tables. *)

\* dropRequest() clears one of the two tables only.
KeptRequests(r) == requestOf

\* dropRequest(): forget the worker of a request, in both directions.
DroppedWorkers(r) == [workerOf EXCEPT ![r] = None]
DroppedRequests(r) ==
    [w \in Worker |-> IF w = workerOf[r] THEN None ELSE requestOf[w]]

\* Only the first request that starts at all gets tasks for its dependencies.
FirstMissingTask(r, d) == IF d \in Needs[r] /\ satisfied = {} THEN <<d>> ELSE << >>

\* enqueueTask() of a QctResourceCacheTask or QctGuidAlgorithmTask for each
\* dependency that no earlier request asked for.  It counts as satisfied
\* from then on.
MissingTask(r, d) == IF d \in Needs[r] \ satisfied THEN <<d>> ELSE << >>

EnqueueDependencies(r) ==
    queue[QueueOf(r)] \o MissingTask(r, ResourceCache) \o MissingTask(r, GuidAlgorithm)

-----------------------------------------------------------------------------
(* The clients. *)

\* QtContacts starts a request that is not active; the synchronous API
\* starts its own once.
Startable(r) ==
    /\ state[r] \in {"inactive", "finished", "canceled"}
    /\ r \in SyncRequest => caller[r] = "idle"

\* createRequestWorker() and the QctRequestTask: a former worker of the request
\* is forgotten, the new one registered and its task connected; missing
\* dependencies are queued ahead of it.
Employ(r, w) ==
    /\ phase[w] = "free"
    /\ workerOf' = [workerOf EXCEPT ![r] = w]
    /\ requestOf' = [DroppedRequests(r) EXCEPT ![w] = r]
    /\ links' = [links EXCEPT ![r] = @ \cup {w}]
    /\ writes' = [writes EXCEPT ![w] = r \in WriteRequest]
    /\ needs' = [needs EXCEPT ![w] = Needs[r]]
    /\ queue' = [queue EXCEPT ![QueueOf(r)] = Append(EnqueueDependencies(r), w)]
    /\ satisfied' = satisfied \cup Needs[r]
    /\ promised' = [promised EXCEPT ![r] = FALSE]

\* startRequestImpl(): the request is active before its task is queued.
Start(r) ==
    /\ trusted /\ Startable(r)
    /\ \E w \in Worker :
          /\ Employ(r, w)
          /\ phase' = [phase EXCEPT ![w] = "queued"]
          /\ handle' = [handle EXCEPT ![r] = IF r \in SyncRequest THEN w ELSE None]
    /\ state' = [state EXCEPT ![r] = "active"]
    /\ caller' = [caller EXCEPT ![r] = IF r \in SyncRequest THEN "started" ELSE @]
    /\ UNCHANGED <<trusted, canceled, cancelable, wrote, finished, ready, saw>>

\* The request is deleted by a slot of stateChanged(ActiveState): the task
\* is dropped before it is queued, the dependencies stay queued, and a former
\* task that is still connected emits finished().
StartOfDeleted(r) ==
    /\ trusted /\ Startable(r)
    /\ r \notin SyncRequest
    /\ \E w \in Worker : phase[w] = "free"
    /\ workerOf' = DroppedWorkers(r)
    /\ requestOf' = DroppedRequests(r)
    /\ links' = [links EXCEPT ![r] = {}]
    /\ finished' = [w \in Worker |-> finished[w] \/ w \in links[r]]
    /\ queue' = [queue EXCEPT ![QueueOf(r)] = EnqueueDependencies(r)]
    /\ satisfied' = satisfied \cup Needs[r]
    /\ state' = [state EXCEPT ![r] = "gone"]
    /\ UNCHANGED <<trusted, phase, writes, needs, canceled, cancelable, wrote, ready, promised,
                   waiter>>

\* checkSecurityTokens() fails, so there is no worker and no task; a
\* synchronous call passes on the error of the untouched request, NoError.
StartRejected(r) ==
    /\ ~trusted /\ Startable(r)
    /\ caller' = [caller EXCEPT ![r] = IF r \in SyncRequest THEN "ok" ELSE @]
    /\ UNCHANGED <<trusted, state, tables, workers, queue, deps, promised, handle, saw>>

\* QTrackerAbstractRequest::cancel(): m_canceled, which it returns.
CancelResult(w) == canceled[w] \/ cancelable[w]

\* cancelRequest().
Cancel(r) ==
    /\ r \notin SyncRequest
    /\ state[r] = "active"
    /\ LET w == workerOf[r]
       IN  /\ w # None
           /\ canceled' = [canceled EXCEPT ![w] = CancelResult(w)]
           /\ promised' = [promised EXCEPT ![r] = CancelResult(w)]
    /\ UNCHANGED <<trusted, state, tables, phase, writes, needs, cancelable, wrote, finished,
                   queue, deps, waiter>>

\* ~QContactAbstractRequest() calls requestDestroyed() ...
BeginDestroy(r) ==
    /\ state[r] \notin {"dying", "gone"}
    /\ r \in SyncRequest => caller[r] \in {"ok", "error"}
    /\ state' = [state EXCEPT ![r] = "dying"]
    /\ workerOf' = DroppedWorkers(r)
    /\ requestOf' = DroppedRequests(r)
    /\ UNCHANGED <<trusted, links, workers, queue, deps, promised, waiter>>

\* What a QctTaskWaiter notes of the signals of its task, when some tasks send
\* them: it disconnects from destroyed() when it gets finished().
Noted(senders, signal) ==
    [r \in Request |-> IF /\ handle[r] \in senders /\ caller[r] \in {"attached", "waiting"}
                          /\ saw[r] = "nothing"
                         THEN signal ELSE saw[r]]

\* The task does not listen to destroyed().
EndDestroySilently(r) ==
    /\ state[r] = "dying"
    /\ state' = [state EXCEPT ![r] = "gone"]
    /\ links' = [links EXCEPT ![r] = {}]
    /\ UNCHANGED <<trusted, workerOf, requestOf, workers, queue, deps, promised, waiter>>

\* ... and ~QObject() emits destroyed(), on which the tasks that are still
\* connected emit finished() (QctRequestTask::onRequestDestroyed).
EndDestroy(r) ==
    /\ state[r] = "dying"
    /\ state' = [state EXCEPT ![r] = "gone"]
    /\ links' = [links EXCEPT ![r] = {}]
    /\ finished' = [w \in Worker |-> finished[w] \/ w \in links[r]]
    /\ saw' = Noted(links[r], "finished")
    /\ UNCHANGED <<trusted, workerOf, requestOf, phase, writes, needs, canceled, cancelable, wrote,
                   queue, deps, promised, caller, handle>>

-----------------------------------------------------------------------------
(* The threads of the queues. *)

AtHead(w) == \E q \in Queue : queue[q] # << >> /\ Head(queue[q]) = w

\* A dependency task runs, emits finished() and is removed.
RunDependency(q, d) ==
    /\ queue[q] # << >> /\ Head(queue[q]) = d
    /\ ready' = ready \cup {d}
    /\ queue' = [queue EXCEPT ![q] = Tail(@)]
    /\ UNCHANGED <<trusted, state, tables, workers, satisfied, promised, waiter>>

\* QctRequestTask::run() calls exec().
Exec(w) ==
    /\ AtHead(w)
    /\ phase[w] = "queued"
    /\ phase' = [phase EXCEPT ![w] = "running"]
    /\ UNCHANGED <<trusted, state, tables, writes, needs, canceled, cancelable, wrote, finished,
                   queue, deps, promised, waiter>>

\* run() of a fetch request: it stops early when it is canceled.
RunFetch(w) ==
    /\ phase[w] = "running" /\ ~writes[w]
    /\ phase' = [phase EXCEPT ![w] = "ran"]
    /\ UNCHANGED <<trusted, state, tables, writes, needs, canceled, cancelable, wrote, finished,
                   queue, deps, promised, waiter>>

\* turnIrreversible() does not look at m_canceled.
TurnIrreversibleAnyway(w) ==
    /\ phase[w] = "running" /\ writes[w]
    /\ phase' = [phase EXCEPT ![w] = "writing"]
    /\ cancelable' = [cancelable EXCEPT ![w] = FALSE]
    /\ UNCHANGED <<trusted, state, tables, writes, needs, canceled, wrote, finished,
                   queue, deps, promised, waiter>>

\* run() of a request that changes the store first asks turnIrreversible().
TurnIrreversible(w) ==
    /\ phase[w] = "running" /\ writes[w]
    /\ IF canceled[w]
         THEN /\ phase' = [phase EXCEPT ![w] = "ran"]
              /\ UNCHANGED cancelable
         ELSE /\ phase' = [phase EXCEPT ![w] = "writing"]
              /\ cancelable' = [cancelable EXCEPT ![w] = FALSE]
    /\ UNCHANGED <<trusted, state, tables, writes, needs, canceled, wrote, finished,
                   queue, deps, promised, waiter>>

RunWrite(w) ==
    /\ phase[w] = "writing"
    /\ phase' = [phase EXCEPT ![w] = "ran"]
    /\ wrote' = [wrote EXCEPT ![w] = TRUE]
    /\ UNCHANGED <<trusted, state, tables, writes, needs, canceled, cancelable, finished,
                   queue, deps, promised, waiter>>

\* exec() looks at isCanceled() after run(), without any lock.
Decide(w) ==
    /\ phase[w] = "ran"
    /\ phase' = [phase EXCEPT ![w] = IF canceled[w] THEN "canceled" ELSE "completed"]
    /\ UNCHANGED <<trusted, state, tables, writes, needs, canceled, cancelable, wrote, finished,
                   queue, deps, promised, waiter>>

\* exec() updates the request, if the tables still know it; the task's
\* onStateChanged() drops it from the tables and emits finished().
Report(w) ==
    LET r == requestOf[w]
    IN  /\ phase[w] \in {"canceled", "completed"}
        /\ phase' = [phase EXCEPT ![w] = "reported"]
        /\ IF r = None
             THEN UNCHANGED <<state, tables, finished, saw>>
             ELSE /\ state' = [state EXCEPT ![r] =
                                  IF phase[w] = "canceled" THEN "canceled" ELSE "finished"]
                  /\ workerOf' = DroppedWorkers(r)
                  /\ requestOf' = DroppedRequests(r)
                  /\ links' = [links EXCEPT ![r] = @ \ {w}]
                  /\ finished' = [finished EXCEPT ![w] = TRUE]
                  /\ saw' = Noted({w}, "finished")
        /\ UNCHANGED <<trusted, writes, needs, canceled, cancelable, wrote, queue, deps, promised,
                       caller, handle>>

\* A client's slot that runs before the task's own starts the request again:
\* the tables know its new worker by then, so that onStateChanged() returns
\* without finished().  The task stays connected to destroyed().  The
\* synchronous API keeps its requests to itself.
Restart(w) ==
    LET r == requestOf[w]
    IN  /\ phase[w] \in {"canceled", "completed"}
        /\ r # None /\ r \notin SyncRequest
        /\ \E v \in Worker :
              /\ Employ(r, v)
              /\ phase' = [phase EXCEPT ![w] = "reported", ![v] = "queued"]
        /\ UNCHANGED <<trusted, state, canceled, cancelable, wrote, finished, ready, waiter>>

\* The queue deletes a task that emitted finished() and with it the worker,
\* unless the worker's exec() is on the stack; the address may be used again.
\* A synchronous caller that holds the pointer but did not connect yet is
\* left dangling: what it does to the deleted task is undefined.
DeleteTask(w) ==
    /\ finished[w] /\ phase[w] \in {"queued", "reported"}
    /\ phase' = [phase EXCEPT ![w] = "free"]
    /\ writes' = [writes EXCEPT ![w] = FALSE]
    /\ needs' = [needs EXCEPT ![w] = {}]
    /\ canceled' = [canceled EXCEPT ![w] = FALSE]
    /\ cancelable' = [cancelable EXCEPT ![w] = TRUE]
    /\ wrote' = [wrote EXCEPT ![w] = FALSE]
    /\ finished' = [finished EXCEPT ![w] = FALSE]
    /\ queue' = [q \in Queue |-> IF Contains(queue[q], w)
                                   THEN RemoveOne(queue[q], w) ELSE queue[q]]
    /\ saw' = Noted({w}, "destroyed")
    /\ caller' = [r \in Request |-> IF caller[r] = "started" /\ handle[r] = w
                                      THEN "dangling" ELSE caller[r]]
    /\ UNCHANGED <<trusted, state, tables, deps, promised, handle>>

-----------------------------------------------------------------------------
(* runSyncRequest(), in the calling thread. *)

\* QctTaskWaiter(task) connects to a task that still exists.
Attach(r) ==
    /\ caller[r] = "started"
    /\ caller' = [caller EXCEPT ![r] = "attached"]
    /\ UNCHANGED <<trusted, state, tables, workers, queue, deps, promised, handle, saw>>

\* runSyncRequest() returns, and the QctTaskWaiter on its stack is gone.
Return(r, result) ==
    /\ caller' = [caller EXCEPT ![r] = result]
    /\ handle' = [handle EXCEPT ![r] = None]
    /\ saw' = [saw EXCEPT ![r] = "nothing"]
    /\ UNCHANGED <<trusted, state, tables, workers, queue, deps, promised>>

\* QctTaskWaiter::wait(): the early return, or the start of the wait.
Wait(r) ==
    /\ caller[r] = "attached"
    /\ \/ saw[r] = "finished" /\ Return(r, "ok")
       \/ saw[r] = "destroyed" /\ Return(r, "error")
       \/ /\ saw[r] = "nothing"
          /\ caller' = [caller EXCEPT ![r] = "waiting"]
          /\ UNCHANGED <<trusted, state, tables, workers, queue, deps, promised, handle, saw>>

\* wakeAll(): whichever signal came, QWaitCondition::wait() returns true.
Wake(r) ==
    /\ caller[r] = "waiting" /\ saw[r] # "nothing"
    /\ Return(r, "ok")

\* wait() ignores what QWaitCondition::wait() returns.
TimeOutUnnoticed(r) ==
    /\ MayTimeOut
    /\ caller[r] = "waiting" /\ saw[r] = "nothing"
    /\ Return(r, "ok")

\* QWaitCondition::wait() gives up after requestTimeout() milliseconds.
TimeOut(r) ==
    /\ MayTimeOut
    /\ caller[r] = "waiting" /\ saw[r] = "nothing"
    /\ Return(r, "error")

-----------------------------------------------------------------------------

ClientStep(r) ==
    \/ Start(r) \/ StartOfDeleted(r) \/ StartRejected(r)
    \/ Cancel(r)
    \/ BeginDestroy(r)

CallerStep(r) == Attach(r) \/ Wait(r) \/ Wake(r)

WorkerStep(w) ==
    \/ Exec(w)
    \/ RunFetch(w) \/ TurnIrreversible(w) \/ RunWrite(w)
    \/ Decide(w) \/ Report(w) \/ Restart(w)
    \/ DeleteTask(w)

Next ==
    \/ \E r \in Request : ClientStep(r) \/ EndDestroy(r) \/ CallerStep(r) \/ TimeOut(r)
    \/ \E w \in Worker : WorkerStep(w)
    \/ \E q \in Queue : \E d \in Dependency : RunDependency(q, d)

Spec == Init /\ [][Next]_vars

\* The queues' threads run, a destructor or a synchronous call that was
\* entered goes on.  No client has to start, cancel or destroy anything.
Fairness ==
    /\ \A w \in Worker : WF_vars(WorkerStep(w))
    /\ \A q \in Queue : \A d \in Dependency : WF_vars(RunDependency(q, d))
    /\ \A r \in Request : WF_vars(EndDestroy(r)) /\ WF_vars(CallerStep(r))

FairSpec == Spec /\ Fairness

-----------------------------------------------------------------------------
(* Properties. *)

Live(w) == phase[w] \notin {"free", "taken"}

State == {"inactive", "active", "finished", "canceled", "dying", "gone"}
Phase == {"free", "taken", "queued", "running", "writing", "ran", "canceled", "completed", "reported"}
Caller == {"idle", "started", "attached", "waiting", "ok", "error", "dangling"}

\* The types of the engine's tables, the workers, the queues and the callers.
TypeOK ==
    /\ trusted \in BOOLEAN
    /\ state \in [Request -> State]
    /\ links \in [Request -> SUBSET Worker]
    /\ workerOf \in [Request -> Worker \cup {None}]
    /\ requestOf \in [Worker -> Request \cup {None}]
    /\ phase \in [Worker -> Phase]
    /\ writes \in [Worker -> BOOLEAN]
    /\ needs \in [Worker -> SUBSET Dependency]
    /\ canceled \in [Worker -> BOOLEAN] /\ cancelable \in [Worker -> BOOLEAN]
    /\ wrote \in [Worker -> BOOLEAN] /\ finished \in [Worker -> BOOLEAN]
    /\ queue \in [Queue -> Seq(Worker \cup Dependency)]
    /\ satisfied \subseteq Dependency /\ ready \subseteq Dependency
    /\ promised \in [Request -> BOOLEAN]
    /\ caller \in [Request -> Caller]
    /\ handle \in [Request -> Worker \cup {None}]
    /\ saw \in [Request -> {"nothing", "finished", "destroyed"}]

\* The two tables mirror each other and never name a deleted worker, also
\* when the address of a deleted worker is used again (tasks.cpp:154).  A request
\* is active exactly as long as some live worker will report into it.
TablesMirror ==
    /\ \A r \in Request, w \in Worker : workerOf[r] = w <=> requestOf[w] = r
    /\ \A w \in Worker : requestOf[w] # None => Live(w) /\ state[requestOf[w]] = "active"
    /\ \A r \in Request : state[r] = "active" <=> workerOf[r] # None

\* A worker that was canceled never sends an update to the store, however
\* cancel() and turnIrreversible() interleave, and if cancelRequest() said yes to
\* a request that changes the store, then the request is never reported as finished.
CanceledNeverWrites ==
    /\ \A w \in Worker : canceled[w] /\ Live(w) => ~wrote[w] /\ phase[w] # "writing"
    /\ \A r \in WriteRequest : promised[r] => state[r] # "finished"

\* A synchronous call of a process with the necessary tokens that returns
\* true has a request whose worker reported (engine.cpp:2050).
SyncOkMeansReported ==
    [][\A r \in Request : trusted /\ caller[r] # "ok" /\ caller'[r] = "ok" =>
          state[r] \in {"finished", "canceled"}]_vars

\* A dependency is served before the workers that need it, also when another
\* request asked for it and was destroyed since, unless it waits in the other
\* queue.
DependenciesServedFirst ==
    \A q \in Queue, w \in Worker :
        Contains(queue[q], w) /\ phase[w] # "queued" =>
            \A d \in needs[w] \ ready : \E p \in Queue \ {q} : Contains(queue[p], d)

\* The task of a worker that has reported waits for its request to be destroyed,
\* because a client's slot started that request again (tasks.cpp:140).
Abandoned(w) ==
    /\ phase[w] = "reported"
    /\ \E r \in Request : w \in links[r] /\ state[r] \notin {"dying", "gone"}

\* Nothing behind such a task runs before the client destroys the request.
Stalled(q) == \E w \in Worker : Contains(queue[q], w) /\ Abandoned(w)

\* Every request that became active leaves that state: it is reported, unless
\* its client destroys it.  It waits only where a client started a request of
\* the same queue again from a slot that runs before the task's (tasks.cpp:140),
\* and once that request is destroyed it goes on.  The queue of the synchronous
\* API, whose requests have no such slots, never waits for a client.
EveryRequestEnds ==
    \A r \in Request : state[r] = "active" ~> \/ state[r] # "active"
                                              \/ r \notin SyncRequest /\ Stalled("async")

\* No worker lives for ever: its task leaves the queue, whoever is faster, the
\* worker that reports or the client that destroys the request; again but for
\* the workers of the asynchronous queue while a restarted request stalls it.
EveryWorkerEnds ==
    \A w \in Worker : Live(w) ~> \/ ~Live(w)
                                 \/ Contains(queue["async"], w) /\ Stalled("async")

=============================================================================
