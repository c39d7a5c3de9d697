------------------------------ MODULE TaskQueue ------------------------------
(***************************************************************************)
(* QctQueue and QctTask (src/lib/queue.cpp): client threads enqueue task   *)
(* objects, which a background thread with an event loop runs one after    *)
(* the other and deletes; the queue's destructor closes the queue, has the *)
(* tasks that still wait deleted, and blocks until the thread has ended.   *)
(*                                                                         *)
(* m_queueMutex guards every access to m_queue, so a critical section is   *)
(* one step.  What happens between two critical sections is not: a task    *)
(* that is being destroyed waits for the mutex in dequeue() while a client *)
(* closes the queue.                                                       *)
(***************************************************************************)
EXTENDS QueueOps

CONSTANTS
    Task,         \* the task objects that clients may create
    AsyncTask,    \* run() returns before finished() is emitted (QctGuidAlgorithmTask)
    RequestTask,  \* finished() is emitted too when the client drops the request (QctRequestTask)
    NoTask

ASSUME TaskAssumption ==
    /\ AsyncTask \subseteq Task
    /\ RequestTask \subseteq Task
    /\ AsyncTask \cap RequestTask = {}
    /\ NoTask \notin Task

VARIABLES
    queue,    \* m_queue; << >> once the queue is closed
    open,     \* m_queue # 0
    last,     \* the task ~QctQueue took "out of the shooting line"
    events,   \* the events posted to objects of the background thread, in order
    status,   \* the life of each task object
    started,  \* run() of the task was called
    emitted,  \* the task emitted finished()
    busy,     \* the task whose run() or destructor occupies the background thread
    loop,     \* the background thread's run(): event loop, clean-up, over
    exit,     \* what QThread::quit() asked of the event loop
    dtor      \* ~QctQueue: not called, waiting for the thread, returned

vars == <<queue, open, last, events, status, started, emitted, busy, loop, exit, dtor>>

-----------------------------------------------------------------------------

\* "owned": connected to the queue; "detached": disconnected by ~QctQueue;
\* "destroying": ~QObject emits destroyed(), which calls dequeue().
Status == {"new", "owned", "detached", "destroying", "deleted"}

\* "run": the queued call of run(); "finish": the queued deleteLater() that
\* finished() is connected to; "delete": the DeferredDelete event it posts.
Event == [kind : {"run", "finish", "delete"}, task : Task]

Alive(t) == status[t] \in {"owned", "detached"}
Running(t) == started[t] /\ status[t] # "deleted"

RunEvent(t) == [kind |-> "run", task |-> t]
FinishEvent(t) == [kind |-> "finish", task |-> t]
DeleteEvent(t) == [kind |-> "delete", task |-> t]

InQueue(t) == Contains(queue, t)

TypeOK ==
    /\ queue \in Seq(Task)
    /\ open \in BOOLEAN
    /\ last \in Task \cup {NoTask}
    /\ events \in Seq(Event)
    /\ status \in [Task -> Status]
    /\ started \in [Task -> BOOLEAN]
    /\ emitted \in [Task -> BOOLEAN]
    /\ busy \in Task \cup {NoTask}
    /\ loop \in {"exec", "cleanup", "over"}
    /\ exit \in {"no", "pass", "now"}
    /\ dtor \in {"none", "waiting", "done"}

Init ==
    /\ queue = << >>
    /\ open = TRUE
    /\ last = NoTask
    /\ events = << >>
    /\ status = [t \in Task |-> "new"]
    /\ started = [t \in Task |-> FALSE]
    /\ emitted = [t \in Task |-> FALSE]
    /\ busy = NoTask
    /\ loop = "exec"
    /\ exit = "no"
    /\ dtor = "none"

-----------------------------------------------------------------------------
(* The client threads. *)

\* Slips of processQueue() that the properties must notice: it forgets a
\* backlog, calls every task, or serves the newest one.
ProcessSingle(q) == IF Len(q) = 1 THEN <<RunEvent(Head(q))>> ELSE << >>
ProcessAll(q) == [i \in 1..Len(q) |-> RunEvent(q[i])]
ProcessNewest(q) == IF q = << >> THEN << >> ELSE <<RunEvent(q[Len(q)])>>

\* processQueue(): always a queued call, never a direct one, "to prevent a
\* dead locking, when run() terminates instantly".
ProcessQueue(q) == IF q = << >> THEN << >> ELSE <<RunEvent(Head(q))>>

\* QctQueue::enqueue() for a task of the calling thread, queue open.
Enqueue(t) ==
    /\ status[t] = "new"
    /\ dtor # "done"
    /\ open
    /\ queue' = Append(queue, t)
    /\ status' = [status EXCEPT ![t] = "owned"]
    /\ events' = IF t = Head(queue') THEN events \o ProcessQueue(queue') ELSE events
    /\ UNCHANGED <<open, last, started, emitted, busy, loop, exit, dtor>>

\* The early returns of enqueue().  The task is not connected yet, so its
\* destroyed() reaches nobody.
Refuse(t) ==
    /\ status[t] = "new"
    /\ dtor # "done"
    /\ status' = [status EXCEPT ![t] = "deleted"]
    /\ UNCHANGED <<queue, open, last, events, started, emitted, busy, loop, exit, dtor>>

RefuseForeign(t) == Refuse(t)  \* the task lives in another thread
RefuseClosed(t) == ~open /\ Refuse(t)

\* QctRequestTask::onRequestDestroyed(): the client deletes the request of a
\* task at any moment, and the task emits finished() in the client's thread.
Abandon(t) ==
    /\ t \in RequestTask
    /\ Alive(t)
    /\ ~emitted[t]
    /\ emitted' = [emitted EXCEPT ![t] = TRUE]
    /\ events' = Append(events, FinishEvent(t))
    /\ UNCHANGED <<queue, open, last, status, started, busy, loop, exit, dtor>>

\* ~QctQueue forgets the first of the waiting tasks.
DeletionsButFirst(q) == [i \in 1..(Len(q) - 2) |-> DeleteEvent(q[i + 2])]

\* deleteLater() of every task behind the head, posted to its thread.
Deletions(q) == [i \in 1..(Len(q) - 1) |-> DeleteEvent(q[i + 1])]

\* The critical section of ~QctQueue: the head is left to finish by itself,
\* the other tasks are disconnected and deleted later.
Shutdown ==
    /\ dtor = "none"
    /\ dtor' = "waiting"
    /\ open' = FALSE
    /\ queue' = << >>
    /\ last' = IF queue = << >> THEN NoTask ELSE Head(queue)
    /\ events' = events \o Deletions(queue)
    /\ status' = [t \in Task |->
                     IF InQueue(t) /\ t # Head(queue) /\ status[t] = "owned"
                       THEN "detached" ELSE status[t]]
    /\ \E closingDown \in BOOLEAN :
          exit' = IF queue = << >> \/ closingDown THEN "now" ELSE exit
    /\ UNCHANGED <<started, emitted, busy, loop>>

\* QThread::wait() returns once the thread's run() is over.
ShutdownReturn ==
    /\ dtor = "waiting"
    /\ loop = "over"
    /\ dtor' = "done"
    /\ UNCHANGED <<queue, open, last, events, status, started, emitted, busy, loop, exit>>

-----------------------------------------------------------------------------
(* The background thread. *)

\* The event loop takes an event of this kind whose receiver still exists.
\* While the thread ends only DeferredDelete events are delivered.
Deliver(kind, t) ==
    /\ busy = NoTask
    /\ loop = "exec" \/ (loop = "cleanup" /\ kind = "delete")
    /\ events # << >>
    /\ Head(events) = [kind |-> kind, task |-> t]
    /\ Alive(t)

\* QctTask::run() is called.  An asynchronous one returns at once.
Run(t) ==
    /\ Deliver("run", t)
    /\ started' = [started EXCEPT ![t] = TRUE]
    /\ busy' = IF t \in AsyncTask THEN NoTask ELSE t
    /\ events' = Tail(events)
    /\ UNCHANGED <<queue, open, last, status, emitted, loop, exit, dtor>>

\* A synchronous run() returns; it has emitted finished(), unless the task
\* did so before, when its request was destroyed.
RunReturns(t) ==
    /\ busy = t
    /\ Alive(t)
    /\ busy' = NoTask
    /\ emitted' = [emitted EXCEPT ![t] = TRUE]
    /\ events' = IF emitted[t] THEN events ELSE Append(events, FinishEvent(t))
    /\ UNCHANGED <<queue, open, last, status, started, loop, exit, dtor>>

\* QctGuidAlgorithmTask::resolverReady(), called by a timer of the thread.
AsyncFinished(t) ==
    /\ t \in AsyncTask
    /\ Alive(t)
    /\ started[t] /\ ~emitted[t]
    /\ busy = NoTask /\ loop = "exec"
    /\ emitted' = [emitted EXCEPT ![t] = TRUE]
    /\ events' = Append(events, FinishEvent(t))
    /\ UNCHANGED <<queue, open, last, status, started, busy, loop, exit, dtor>>

\* QObject::deleteLater() called through the queued connection of finished().
DeleteLater(t) ==
    /\ Deliver("finish", t)
    /\ events' = Append(Tail(events), DeleteEvent(t))
    /\ UNCHANGED <<queue, open, last, status, started, emitted, busy, loop, exit, dtor>>

\* The task's destructor starts: if the queue is still connected to
\* destroyed(), its slot is on the way to the mutex from here on.
Destroy(t) ==
    /\ Deliver("delete", t)
    /\ events' = Tail(events)
    /\ IF status[t] = "owned"
         THEN /\ status' = [status EXCEPT ![t] = "destroying"]
              /\ busy' = t
         ELSE /\ status' = [status EXCEPT ![t] = "deleted"]
              /\ UNCHANGED busy
    /\ UNCHANGED <<queue, open, last, started, emitted, loop, exit, dtor>>

\* dequeue() returns without quit() when the queue is closed.
NoQuit == exit

\* QThread::quit() by the thread itself.
Quit == IF exit = "no" THEN "pass" ELSE exit

\* QctQueue::dequeue(), called by destroyed().
Dequeue(t) ==
    /\ busy = t
    /\ status[t] = "destroying"
    /\ IF ~open
         THEN /\ exit' = Quit
              /\ UNCHANGED <<queue, events>>
         ELSE /\ queue' = IF InQueue(t) THEN RemoveOne(queue, t) ELSE queue
              /\ events' = IF InQueue(t) /\ t = Head(queue)
                             THEN events \o ProcessQueue(queue') ELSE events
              /\ UNCHANGED exit
    /\ status' = [status EXCEPT ![t] = "deleted"]
    /\ busy' = NoTask
    /\ UNCHANGED <<open, last, started, emitted, loop, dtor>>

\* Qt drops the events of an object that is gone, and a thread that ends
\* does not deliver queued calls any more.
Discard ==
    /\ busy = NoTask /\ loop # "over"
    /\ events # << >>
    /\ ~Alive(Head(events).task) \/ (loop = "cleanup" /\ Head(events).kind # "delete")
    /\ events' = Tail(events)
    /\ UNCHANGED <<queue, open, last, status, started, emitted, busy, loop, exit, dtor>>

\* A quit() from within the event loop takes effect after the events posted
\* so far, one from another thread at the loop's next look at the flag.
PassDone ==
    /\ busy = NoTask /\ loop = "exec"
    /\ exit = "pass" /\ events = << >>
    /\ exit' = "now"
    /\ UNCHANGED <<queue, open, last, events, status, started, emitted, busy, loop, dtor>>

LeaveLoop ==
    /\ busy = NoTask /\ loop = "exec"
    /\ exit = "now"
    /\ loop' = "cleanup"
    /\ UNCHANGED <<queue, open, last, events, status, started, emitted, busy, exit, dtor>>

ThreadOver ==
    /\ busy = NoTask /\ loop = "cleanup"
    /\ events = << >>
    /\ loop' = "over"
    /\ UNCHANGED <<queue, open, last, events, status, started, emitted, busy, exit, dtor>>

-----------------------------------------------------------------------------

Client ==
    \/ \E t \in Task : Enqueue(t) \/ RefuseForeign(t) \/ RefuseClosed(t) \/ Abandon(t)
    \/ Shutdown
    \/ ShutdownReturn

TaskStep(t) ==
    \/ Run(t)
    \/ RunReturns(t)
    \/ AsyncFinished(t)
    \/ DeleteLater(t)
    \/ Destroy(t)
    \/ Dequeue(t)

Background ==
    \/ \E t \in Task : TaskStep(t)
    \/ Discard
    \/ PassDone
    \/ LeaveLoop
    \/ ThreadOver

Next == Client \/ Background

Spec == Init /\ [][Next]_vars

\* The background thread is scheduled; every run() returns, and the GUID
\* algorithm calls back, so a step of a task is never withheld for ever; a
\* destructor that was entered goes on.  Clients owe nothing.
Fairness ==
    /\ WF_vars(Background)
    /\ WF_vars(ShutdownReturn)

FairSpec == Spec /\ Fairness

-----------------------------------------------------------------------------
(* What the queue promises. *)

\* Tasks run one at a time: a task whose run() was called is destroyed
\* before run() of another one is called (queue.cpp:161, processQueue() is
\* only reached when the task at the head is gone).
OneAtATime ==
    \A s, t \in Task : Running(s) /\ Running(t) => s = t

\* No lost wake-up: as long as the queue is open, the task at its head has
\* been called or its call is on the way, so the queue cannot stall with work
\* in it - whichever of enqueue() and dequeue() put the task at the head.
HeadIsServed ==
    open /\ queue # << >> =>
        \/ started[Head(queue)]
        \/ \E i \in 1..Len(events) : events[i] = RunEvent(Head(queue))

\* Closing the queue leaks at most the one task that ~QctQueue expected to
\* run: when the thread is over every other task it ever took is deleted,
\* also those whose deletion was only requested during shutdown.
OnlyLastSurvives ==
    loop = "over" => \A t \in Task : status[t] \in {"new", "deleted"} \/ t = last

\* run() of a task is called at most once: there is one queued call for it
\* at most, and none once it was called, although both enqueue() and
\* dequeue() post the call for whatever task they find at the head.
RunsOnce ==
    \A t \in Task : Alive(t) =>
        \A i, j \in 1..Len(events) :
            events[i] = RunEvent(t) => ~started[t] /\ (events[j] = RunEvent(t) => i = j)

\* The destructor returns, "at latest [...] once the last task object is
\* being destroyed" (queue.cpp:99).
ShutdownEnds == dtor = "waiting" ~> dtor = "done"

\* Every accepted task is deleted in the end unless the queue is closed.
EveryTaskEnds ==
    \A t \in Task : status[t] = "owned" ~> (status[t] = "deleted" \/ ~open)

-----------------------------------------------------------------------------
(* The queue implements the serial executor. *)

RunningTask ==
    IF \E t \in Task : Running(t) THEN CHOOSE t \in Task : Running(t) ELSE NoTask

WaitingTasks ==
    CASE open /\ (queue = << >> \/ ~started[Head(queue)]) -> queue
      [] open /\ queue # << >> /\ started[Head(queue)] -> Tail(queue)
      [] ~open -> IF last # NoTask /\ ~started[last] /\ status[last] # "deleted"
                    THEN <<last>> ELSE << >>

Executor == INSTANCE SerialExecutor WITH
    seen <- {t \in Task : status[t] # "new"},
    waiting <- WaitingTasks,
    current <- RunningTask

\* Seen from outside, the queue with its thread, its posted events and its
\* racing destructor is an executor that runs tasks one by one in the order
\* of their enqueue() calls.
ImplementsExecutor == Executor!Spec

=============================================================================
