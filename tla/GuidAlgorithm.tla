---------------------------- MODULE GuidAlgorithm ----------------------------
(* The cellular GUID algorithm (guidalgorithm.cpp): one object of the process, *)
(* which lives in the main thread and is ready when the SIM card has answered. *)
(* The task of each engine that waits for it (QctGuidAlgorithmTask) calls it   *)
(* from the thread of the engine's queue, without a lock.  The default         *)
(* algorithm is always ready and has no part in this.                          *)
EXTENDS Integers, Sequences

CONSTANTS
    Engine,   \* the engines of the process; each has one task for the algorithm
    Nobody

ASSUME GuidAssumption == Nobody \notin Engine

VARIABLES
    forever,   \* requestTimeout() is 0, the default: a synchronous call never gives up
    card,      \* what the SIM card was asked for and did not answer yet
    msisdn,    \* lastMSISDN of the settings: that of the card, or none
    hash,      \* the MSISDN that m_hardwareHash is made of
    ready,     \* m_hashReady
    closures,  \* the array behind m_closures, all that was written to it
    size,      \* the end of m_closures in the array
    first,     \* how many of them were dequeued
    timers,    \* whose closures were invoked: their timers run in the main thread
    main,      \* what the main thread does
    awaited,   \* the engine that the main thread waits for, in a call or a destructor
    task,      \* how far the task of each engine is
    end,       \* the end of m_closures that a thread in enqueue() has read
    raced      \* history: callWhenReady() overlapped with something that it must not

simCard == <<card, msisdn, hash, ready>>
calls == <<closures, size, first, timers, end, raced>>
vars == <<forever, simCard, calls, main, awaited, task>>

-----------------------------------------------------------------------------

Init ==
    /\ forever \in BOOLEAN
    /\ card = {"status"}
    /\ msisdn \in {"none", "card"} /\ hash = msisdn
    /\ ready = FALSE
    /\ closures = << >> /\ size = 0 /\ first = 0 /\ timers = {}
    /\ main = "loop" /\ awaited = Nobody
    /\ task = [e \in Engine |-> "none"]
    /\ end = [e \in Engine |-> 0]
    /\ raced = [e \in Engine |-> FALSE]

-----------------------------------------------------------------------------
(* The main thread delivers what the SIM card says, while it is in its loop. *)

\* Only a card that is present makes the algorithm ready.
CompleteWithCard(found) ==
    /\ msisdn' = IF found THEN "card" ELSE msisdn
    /\ hash' = msisdn'
    /\ ready' = (ready \/ found)
    /\ main' = "notifying"

\* onReadExactComplete(): the number, if there is one, is remembered, the hash
\* is made, and then notifyReady() is called.
Complete(found) ==
    /\ msisdn' = IF found THEN "card" ELSE msisdn
    /\ hash' = msisdn'
    /\ ready' = TRUE
    /\ main' = "notifying"

\* onSimStatusChanged(), for the answer to the constructor's question and for
\* each later change: without a card the answer is complete.
SimStatusChanged ==
    /\ main = "loop"
    /\ \/ "status" \in card \/ ready
    /\ \/ /\ card' = (card \ {"status"}) \cup {"number"}
          /\ UNCHANGED <<msisdn, hash, ready, main>>
       \/ /\ card' = card \ {"status"}
          /\ Complete(FALSE)
    /\ UNCHANGED <<forever, calls, awaited, task>>

\* onReadExactComplete() with the phonebook's answer, which may be an error.
NumberRead ==
    /\ main = "loop" /\ "number" \in card
    /\ card' = card \ {"number"}
    /\ \E found \in BOOLEAN : Complete(found)
    /\ UNCHANGED <<forever, calls, awaited, task>>

\* Only one of the closures is invoked.
NotifyOne ==
    /\ main = "notifying"
    /\ main' = "loop"
    /\ IF first >= size
         THEN UNCHANGED <<first, timers>>
         ELSE first' = first + 1 /\ timers' = timers \cup {closures[first + 1]}
    /\ UNCHANGED <<forever, simCard, closures, size, end, raced, awaited, task>>

\* notifyReady(), one turn of its loop: QctClosure::invoke() starts a timer in
\* the main thread.
NotifyReady ==
    /\ main = "notifying"
    /\ IF first >= size
         THEN main' = "loop" /\ UNCHANGED <<first, timers>>
         ELSE /\ first' = first + 1
              /\ timers' = timers \cup {closures[first + 1]}
              /\ UNCHANGED main
    /\ UNCHANGED <<forever, simCard, closures, size, end, raced, awaited, task>>

\* The loop lets a timer fire: the call is queued to the thread of the task.
TimerFires(e) ==
    /\ main = "loop" /\ e \in timers
    /\ timers' = timers \ {e}
    /\ task' = [task EXCEPT ![e] = IF @ = "waiting" THEN "called" ELSE @]
    /\ UNCHANGED <<forever, simCard, closures, size, first, end, raced, main, awaited>>

-----------------------------------------------------------------------------
(* The task of an engine, in the thread of the queue. *)

\* The first request that saves makes a task for the algorithm, which is the
\* next one of its queue.
Ask(e) ==
    /\ task[e] = "none"
    /\ task' = [task EXCEPT ![e] = "queued"]
    /\ UNCHANGED <<forever, simCard, calls, main, awaited>>

\* callWhenReady(): m_hashReady is read, and if the answer is needed the end
\* of the queue; when it is ready the timer runs in the task's own thread.
CallWhenReady(e) ==
    /\ task[e] = "queued"
    /\ task' = [task EXCEPT ![e] = IF ready THEN "called" ELSE "enqueuing"]
    /\ end' = [end EXCEPT ![e] = size]
    /\ UNCHANGED <<forever, simCard, closures, size, first, timers, raced, main, awaited>>

\* m_closures.enqueue(): the closure is written to the end that was read, where
\* another thread may have written since, and the queue ends behind it.
Enqueue(e) ==
    LET overwritten == {closures[i] : i \in (end[e] + 1)..size}
    IN  /\ task[e] = "enqueuing"
        /\ task' = [task EXCEPT ![e] = "waiting"]
        /\ closures' = IF end[e] = Len(closures) THEN Append(closures, e)
                       ELSE [closures EXCEPT ![end[e] + 1] = e]
        /\ size' = end[e] + 1
        /\ raced' = [x \in Engine |-> \/ raced[x] \/ x \in overwritten
                                      \/ x = e /\ ready]
        /\ UNCHANGED <<forever, simCard, first, timers, end, main, awaited>>

\* resolverReady() emits finished(), and the request's own task runs.
ResolverReady(e) ==
    /\ task[e] = "called"
    /\ task' = [task EXCEPT ![e] = "done"]
    /\ UNCHANGED <<forever, simCard, calls, main, awaited>>

-----------------------------------------------------------------------------
(* What clients do in the main thread without returning to its loop. *)

\* A synchronous save, the first of its engine or a later one:
\* QctTaskWaiter::wait() blocks on a condition.
Call(e) ==
    /\ main = "loop" /\ task[e] # "gone"
    /\ main' = "calling" /\ awaited' = e
    /\ task' = [task EXCEPT ![e] = IF @ = "none" THEN "queued" ELSE @]
    /\ UNCHANGED <<forever, simCard, calls>>

CallReturns ==
    /\ main = "calling"
    /\ task[awaited] = "done" \/ ~forever
    /\ main' = "loop" /\ awaited' = Nobody
    /\ UNCHANGED <<forever, simCard, calls, task>>

\* The engine is deleted: ~QctQueue() deletes the tasks that were not started,
\* and waits for the thread of the one that was (unless the program is closing
\* down, which is not followed).
Destroy(e) ==
    /\ main = "loop" /\ task[e] # "gone"
    /\ main' = "destroying" /\ awaited' = e
    /\ \E deleted \in {{"none"}, {"none", "queued"}} :
           task' = [task EXCEPT ![e] = IF @ \in deleted THEN "done" ELSE @]
    /\ UNCHANGED <<forever, simCard, calls>>

DestroyReturns ==
    /\ main = "destroying" /\ task[awaited] = "done"
    /\ main' = "loop" /\ awaited' = Nobody
    /\ task' = [task EXCEPT ![awaited] = "gone"]
    /\ UNCHANGED <<forever, simCard, calls>>

-----------------------------------------------------------------------------

Main ==
    \/ SimStatusChanged \/ NumberRead \/ NotifyReady
    \/ \E e \in Engine : TimerFires(e)
    \/ CallReturns \/ DestroyReturns

Thread(e) == CallWhenReady(e) \/ Enqueue(e) \/ ResolverReady(e)

Client(e) == Ask(e) \/ Call(e) \/ Destroy(e)

Next == Main \/ \E e \in Engine : Thread(e) \/ Client(e)

Spec == Init /\ [][Next]_vars

\* The threads run, the card answers, and the main thread, whose clients come
\* back to its loop from each call, handles every event there.  Nobody has to
\* save, and the card need not change later.
Fairness ==
    /\ SF_vars("status" \in card /\ SimStatusChanged)
    /\ SF_vars(NumberRead) /\ WF_vars(NotifyReady)
    /\ WF_vars(CallReturns) /\ WF_vars(DestroyReturns)
    /\ \A e \in Engine : SF_vars(TimerFires(e)) /\ WF_vars(Thread(e))

FairSpec == Spec /\ Fairness

-----------------------------------------------------------------------------
(* Properties. *)

\* The task of e has a timer, or a closure that is still to be invoked.
ToBeCalled(e) ==
    \/ e \in timers
    \/ /\ \E i \in (first + 1)..size : closures[i] = e
       /\ ~ready \/ main = "notifying"

\* What a lock around callWhenReady() and the answer of the SIM card would give:
\* while a thread is inside, no other one is and the hash is not made.
Serialised ==
    \A e \in Engine : task[e] = "enqueuing" =>
        ~ready /\ \A x \in Engine : task[x] = "enqueuing" => x = e

\* Every task that waits is going to be called, and none goes on before the hash
\* is complete.
WaitersAreTold ==
    \A e \in Engine :
        /\ task[e] = "waiting" => ToBeCalled(e)
        /\ task[e] = "called" => ready

\* The race is the only thing that is wrong with callWhenReady() and
\* notifyReady(): with the lock that they lack no task would wait in vain,
\* whichever way the answer, the calls and the timers are interleaved
\* (guidalgorithm.cpp:293 and 270).
LockSuffices == []Serialised => []WaitersAreTold

\* A task for the algorithm ends, with a SIM card or without, unless it ran into
\* a race or the main thread waits for ever.
EveryGuidTaskEnds ==
    \A e \in Engine :
        task[e] = "queued" ~>
            task[e] \in {"done", "gone"} \/ raced[e] \/ [](main \in {"calling", "destroying"})

\* "Wait for the background thread's run() method to finish. At latest it will
\* once the last task object is being destroyed" (queue.cpp:99).
ShutdownReturns == main = "destroying" ~> main # "destroying"

=============================================================================
