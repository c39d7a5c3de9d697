--------------------------- MODULE TaskQueueProofs ---------------------------
(***************************************************************************)
(* Proofs about TaskQueue, for every set of tasks.  The argument: at any   *)
(* time one task is "active" (the head of the open queue, or the task that *)
(* ~QctQueue spared), and only its run() may be posted or have been called.*)
(***************************************************************************)
EXTENDS TaskQueue, SequenceFacts

\* The only task that may have a call of run() posted or made.
ActiveTask ==
    IF ~open THEN last ELSE IF queue = << >> THEN NoTask ELSE queue[1]

\* The queue holds each task that is connected to it once, and nothing else.
QueueInv ==
    /\ \A i, j \in 1..Len(queue) : queue[i] = queue[j] => i = j
    /\ \A i \in 1..Len(queue) : status[queue[i]] \in {"owned", "destroying"}
    /\ \A t \in Task : open /\ status[t] \in {"owned", "destroying"} => InQueue(t)
    /\ \A t \in Task : status[t] = "detached" => ~open
    /\ \A t \in Task : status[t] = "destroying" => busy = t

\* A queue is closed for good, and the thread leaves its loop only then.
PhaseInv ==
    /\ open => last = NoTask /\ exit = "no"
    /\ ~open => queue = << >>
    /\ dtor = "none" => open
    /\ loop # "exec" => exit = "now"
    /\ last # NoTask => status[last] \notin {"new", "detached"}

\* Calls of run(): only for the active task, one at most.
CallInv ==
    /\ \A t \in Task : Running(t) => t = ActiveTask
    /\ \A t \in Task : status[t] = "new" => ~started[t] /\ ~Pending(RunEvent(t), events)
    /\ \A t \in Task : status[t] # "deleted" /\ Pending(RunEvent(t), events) =>
          t = ActiveTask /\ ~started[t]
    /\ \A t \in Task : status[t] # "deleted" => Once(RunEvent(t), events)

\* No lost wake-up.
WakeInv ==
    open /\ queue # << >> => started[queue[1]] \/ Pending(RunEvent(queue[1]), events)

\* After closing, every task but the spared one has its deletion ahead.
ReapInv ==
    /\ ~open => \A t \in Task :
          \/ t = last
          \/ status[t] \in {"new", "destroying", "deleted"}
          \/ status[t] = "detached" /\ Pending(DeleteEvent(t), events)
    /\ loop = "over" => busy = NoTask /\ \A t \in Task : t = last \/ status[t] \in {"new", "deleted"}

CoreInv == QueueInv /\ PhaseInv /\ CallInv /\ WakeInv /\ ReapInv

IInv == TypeOK /\ CoreInv

-----------------------------------------------------------------------------
(* The events. *)

\* The constructors of events make events.
LEMMA EventTypes ==
    ASSUME NEW t \in Task
    PROVE  RunEvent(t) \in Event /\ FinishEvent(t) \in Event /\ DeleteEvent(t) \in Event
  BY DEF RunEvent, FinishEvent, DeleteEvent, Event

\* Events of different kinds or tasks are different.
LEMMA EventDistinct ==
    ASSUME NEW t \in Task, NEW u \in Task
    PROVE  /\ RunEvent(t) = RunEvent(u) <=> t = u
           /\ DeleteEvent(t) = DeleteEvent(u) <=> t = u
           /\ RunEvent(t) # DeleteEvent(u)
           /\ RunEvent(t) # FinishEvent(u)
           /\ DeleteEvent(t) # FinishEvent(u)
  <1>1. /\ RunEvent(t).task = t /\ RunEvent(u).task = u
        /\ RunEvent(t).kind = "run" /\ FinishEvent(u).kind = "finish"
        /\ DeleteEvent(t).task = t /\ DeleteEvent(u).task = u
        /\ DeleteEvent(t).kind = "delete" /\ DeleteEvent(u).kind = "delete"
    BY DEF RunEvent, FinishEvent, DeleteEvent
  <1>. QED
    BY <1>1

-----------------------------------------------------------------------------
(* What processQueue() and ~QctQueue post. *)

\* processQueue() posts one call or none.
LEMMA ProcessQueueFacts ==
    ASSUME NEW q \in Seq(Task), NEW s \in Seq(Event)
    PROVE  /\ q = << >> => s \o ProcessQueue(q) = s
           /\ q # << >> => s \o ProcessQueue(q) = Append(s, RunEvent(q[1])) /\ q[1] \in Task
  <1>1. q # << >> => Head(q) = q[1] /\ q[1] \in Task
    BY TailFacts
  <1>2. s \o << >> = s
    OBVIOUS
  <1>3. \A e \in Event : s \o <<e>> = Append(s, e)
    OBVIOUS
  <1>. QED
    BY <1>1, <1>2, <1>3, EventTypes DEF ProcessQueue

\* What ~QctQueue posts: the deletion of every task behind the head.
LEMMA ShutdownDeletes ==
    ASSUME NEW q \in Seq(Task)
    PROVE  /\ Deletions(q) \in Seq(Event)
           /\ \A u \in Task : ~Pending(RunEvent(u), Deletions(q))
           /\ \A i \in 1..Len(q) : i # 1 => Pending(DeleteEvent(q[i]), Deletions(q))
  <1>. DEFINE D == [i \in 1..(Len(q) - 1) |-> DeleteEvent(q[i + 1])]
  <1>1. CASE q = << >>
    <2>1. Len(q) - 1 = -1 /\ Len(q) = 0
      BY <1>1
    <2>2. 1..(Len(q) - 1) = 1..0 /\ 1..Len(q) = {}
      BY <2>1
    <2>3. D = << >> /\ Len(<< >>) = 0
      BY <2>2
    <2>4. \A x : ~Pending(x, << >>)
      BY DEF Pending
    <2>. QED
      BY <2>2, <2>3, <2>4 DEF Deletions
  <1>2. CASE q # << >>
    <2>1. Len(q) - 1 \in Nat
      BY <1>2
    <2>2. \A i \in 1..(Len(q) - 1) : q[i + 1] \in Task /\ DeleteEvent(q[i + 1]) \in Event
      BY EventTypes
    <2>3. D \in Seq(Event) /\ Len(D) = Len(q) - 1
      BY <2>1, <2>2
    <2>4. \A i \in 1..Len(D) : D[i] = DeleteEvent(q[i + 1])
      BY <2>3
    <2>5. \A u \in Task : ~Pending(RunEvent(u), D)
      BY <2>2, <2>3, <2>4, EventDistinct DEF Pending
    <2>6. ASSUME NEW i \in 1..Len(q), i # 1 PROVE Pending(DeleteEvent(q[i]), D)
      <3>1. i - 1 \in 1..Len(D) /\ (i - 1) + 1 = i
        BY <2>1, <2>3, <2>6
      <3>. QED
        BY <2>4, <3>1 DEF Pending
    <2>. QED
      BY <2>3, <2>5, <2>6 DEF Deletions
  <1>. QED
    BY <1>1, <1>2

-----------------------------------------------------------------------------
(* Type correctness. *)

\* Every step keeps the types; dequeue() needs the queue to hold no task twice.
LEMMA TypeStep == TypeOK /\ QueueInv /\ [Next]_vars => TypeOK'
  <1>. SUFFICES ASSUME TypeOK, QueueInv, [Next]_vars PROVE TypeOK'
    OBVIOUS
  <1>. USE TaskAssumption
  <1>1. ASSUME NEW t \in Task, Enqueue(t) PROVE TypeOK'
    BY <1>1, EventTypes DEF TypeOK, Enqueue, ProcessQueue, Status
  <1>2. ASSUME NEW t \in Task, RefuseForeign(t) PROVE TypeOK'
    BY <1>2, EventTypes DEF TypeOK, RefuseForeign, Refuse, Status
  <1>3. ASSUME NEW t \in Task, RefuseClosed(t) PROVE TypeOK'
    BY <1>3, EventTypes DEF TypeOK, RefuseClosed, Refuse, Status
  <1>4. ASSUME NEW t \in Task, Abandon(t) PROVE TypeOK'
    BY <1>4, EventTypes DEF TypeOK, Abandon
  <1>5. ASSUME NEW t \in Task, Run(t) PROVE TypeOK'
    BY <1>5, EventTypes DEF TypeOK, Run, Deliver
  <1>6. ASSUME NEW t \in Task, RunReturns(t) PROVE TypeOK'
    BY <1>6, EventTypes DEF TypeOK, RunReturns
  <1>7. ASSUME NEW t \in Task, AsyncFinished(t) PROVE TypeOK'
    BY <1>7, EventTypes DEF TypeOK, AsyncFinished
  <1>8. ASSUME NEW t \in Task, DeleteLater(t) PROVE TypeOK'
    BY <1>8, EventTypes DEF TypeOK, DeleteLater, Deliver
  <1>9. ASSUME NEW t \in Task, Destroy(t) PROVE TypeOK'
    <2>1. events' \in Seq(Event)
      BY <1>9, TailFacts DEF Destroy, Deliver, TypeOK
    <2>2. status' \in [Task -> Status] /\ busy' \in Task \cup {NoTask}
      BY <1>9 DEF Destroy, TypeOK, Status
    <2>. QED
      BY <1>9, <2>1, <2>2 DEF Destroy, TypeOK
  <1>10. ASSUME NEW t \in Task, Dequeue(t) PROVE TypeOK'
    <2>1. queue' \in Seq(Task) /\ events' \in Seq(Event)
      <3>1. CASE open /\ InQueue(t)
        <4>1. PICK k \in 1..Len(queue) : queue[k] = t
          BY <3>1 DEF InQueue, Contains
        <4>2. queue' = RemoveOne(queue, t) /\ queue' \in Seq(Task)
          BY <1>10, <3>1, <4>1, RemoveOneFacts DEF Dequeue, TypeOK, QueueInv
        <4>3. ProcessQueue(queue') \in Seq(Event)
          BY <4>2, EventTypes DEF ProcessQueue
        <4>4. events' = events \/ events' = events \o ProcessQueue(queue')
          BY <1>10 DEF Dequeue
        <4>5. events \in Seq(Event) /\ events \o ProcessQueue(queue') \in Seq(Event)
          BY <4>3, ConcatFacts DEF TypeOK
        <4>. QED
          BY <4>2, <4>4, <4>5
      <3>2. CASE ~(open /\ InQueue(t))
        BY <1>10, <3>2 DEF Dequeue, TypeOK
      <3>. QED
        BY <3>1, <3>2
    <2>. QED
      BY <1>10, <2>1 DEF Dequeue, Quit, TypeOK, Status
  <1>11. CASE Shutdown
    <2>1. Deletions(queue) \in Seq(Event)
      BY ShutdownDeletes DEF TypeOK
    <2>3. events' \in Seq(Event)
      <3>1. events \in Seq(Event)
        BY DEF TypeOK
      <3>2. events' = events \o Deletions(queue)
        BY <1>11 DEF Shutdown
      <3>. QED
        BY <2>1, <3>1, <3>2, ConcatFacts
    <2>4. last' \in Task \cup {NoTask} /\ queue' \in Seq(Task)
      BY <1>11 DEF Shutdown, TypeOK
    <2>. QED
      BY <1>11, <2>3, <2>4 DEF Shutdown, TypeOK, Status
  <1>12. CASE ShutdownReturn
    BY <1>12 DEF TypeOK, ShutdownReturn
  <1>13. CASE Discard
    BY <1>13 DEF TypeOK, Discard
  <1>14. CASE PassDone
    BY <1>14 DEF TypeOK, PassDone
  <1>15. CASE LeaveLoop
    BY <1>15 DEF TypeOK, LeaveLoop
  <1>16. CASE ThreadOver
    BY <1>16 DEF TypeOK, ThreadOver
  <1>17. CASE UNCHANGED vars
    BY <1>17 DEF TypeOK, vars
  <1>. QED
    BY <1>1, <1>2, <1>3, <1>4, <1>5, <1>6, <1>7, <1>8, <1>9, <1>10, <1>11, <1>12, <1>13, <1>14,
       <1>15, <1>16, <1>17
    DEF Next, Client, Background, TaskStep

\* The calls and deletions that are pending in r are those of s.
SameCalls(s, r) ==
    \A u \in Task : /\ Pending(RunEvent(u), r) <=> Pending(RunEvent(u), s)
                    /\ Pending(DeleteEvent(u), r) <=> Pending(DeleteEvent(u), s)
                    /\ Once(RunEvent(u), s) => Once(RunEvent(u), r)

\* A finished() posts neither a call nor a deletion.
LEMMA FinishPosted ==
    ASSUME NEW s \in Seq(Event), NEW t \in Task
    PROVE  SameCalls(s, Append(s, FinishEvent(t)))
  <1>. DEFINE r == Append(s, FinishEvent(t))
  <1>1. \A x : x # FinishEvent(t) => Pending(x, r) <=> Pending(x, s)
    BY EventTypes, AppendPending
  <1>2. \A x : x # FinishEvent(t) /\ Once(x, s) => Once(x, r)
    BY EventTypes, AppendOnce
  <1>3. \A u \in Task : RunEvent(u) # FinishEvent(t) /\ DeleteEvent(u) # FinishEvent(t)
    BY EventDistinct
  <1>. HIDE DEF r
  <1>4. SameCalls(s, r)
    BY <1>1, <1>2, <1>3 DEF SameCalls
  <1>. QED
    BY <1>4 DEF r

-----------------------------------------------------------------------------
(* The inductive invariant. *)

\* A new queue satisfies the invariant.
LEMMA InvInit == Init => IInv
  BY TaskAssumption
  DEF Init, IInv, CoreInv, TypeOK, Status, QueueInv, PhaseInv, CallInv, WakeInv, ReapInv,
      ActiveTask, Running, Pending, Once, InQueue, Contains

\* Every step of the clients and of the thread preserves the invariant.
LEMMA CoreStep == TypeOK /\ TypeOK' /\ CoreInv /\ [Next]_vars => CoreInv'
  <1>. SUFFICES ASSUME TypeOK, TypeOK', QueueInv, PhaseInv, CallInv, WakeInv, ReapInv, [Next]_vars
                PROVE  CoreInv'
    BY DEF CoreInv
  <1>. USE TaskAssumption
  <1>0. /\ events \in Seq(Event) /\ queue \in Seq(Task) /\ Len(queue) \in Nat
        /\ queue # << >> => queue[1] \in Task /\ 1 \in 1..Len(queue) /\ Head(queue) = queue[1]
    BY TailFacts DEF TypeOK
  <1>1. ASSUME NEW t \in Task, Enqueue(t) PROVE CoreInv'
    <2>1. /\ Len(queue') = Len(queue) + 1
          /\ \A i \in 1..Len(queue) : queue'[i] = queue[i]
          /\ queue'[Len(queue) + 1] = t /\ queue' # << >>
          /\ Len(queue) = 0 => queue = << >>
      BY <1>0, <1>1, AppendFacts DEF Enqueue
    <2>2. /\ Head(queue') = queue'[1] /\ queue' \in Seq(Task)
          /\ queue = << >> => queue'[1] = t /\ Len(queue) = 0
          /\ queue # << >> => queue'[1] = queue[1]
      BY <1>0, <2>1, TailFacts DEF TypeOK
    <2>3. ~InQueue(t)
      BY <1>1 DEF Enqueue, QueueInv, InQueue, Contains
    <2>4. QueueInv'
      <3>1. \A i \in 1..Len(queue') : i \in 1..Len(queue) \/ i = Len(queue) + 1
        BY <1>0, <2>1
      <3>2. \A i, j \in 1..Len(queue') : queue'[i] = queue'[j] => i = j
        BY <2>1, <2>3, <3>1 DEF QueueInv, InQueue, Contains
      <3>3. \A i \in 1..Len(queue') : status'[queue'[i]] \in {"owned", "destroying"}
        BY <1>0, <1>1, <2>1, <3>1 DEF Enqueue, QueueInv, TypeOK
      <3>4. \A u \in Task : open' /\ status'[u] \in {"owned", "destroying"} => InQueue(u)'
        <4>1. Len(queue) + 1 \in 1..Len(queue') /\ \A i \in 1..Len(queue) : i \in 1..Len(queue')
          BY <1>0, <2>1
        <4>2. InQueue(t)' /\ \A u : InQueue(u) => InQueue(u)'
          BY <2>1, <4>1 DEF InQueue, Contains
        <4>. QED
          BY <1>1, <4>2 DEF Enqueue, QueueInv, TypeOK
      <3>. QED
        BY <1>1, <3>2, <3>3, <3>4 DEF Enqueue, QueueInv, TypeOK
    <2>5. PhaseInv'
      BY <1>1 DEF Enqueue, PhaseInv, TypeOK
    <2>6. CASE queue = << >>
      <3>1. events' = Append(events, RunEvent(t))
        <4>1. t = Head(queue') /\ queue'[1] = t /\ queue' # << >>
          BY <2>1, <2>2, <2>6
        <4>2. events' = events \o ProcessQueue(queue')
          BY <1>1, <4>1 DEF Enqueue
        <4>. QED
          BY <1>0, <2>2, <4>1, <4>2, ProcessQueueFacts
      <3>2. /\ \A x : Pending(x, events') <=> Pending(x, events) \/ x = RunEvent(t)
            /\ \A x : Once(x, events) /\ (x = RunEvent(t) => ~Pending(x, events))
                    => Once(x, events')
        BY <1>0, <3>1, EventTypes, AppendPending, AppendOnce
      <3>3. CallInv'
        BY <1>0, <1>1, <2>1, <2>2, <2>6, <3>2, EventDistinct
        DEF Enqueue, CallInv, ActiveTask, Running, TypeOK, Status
      <3>4. WakeInv'
        BY <2>1, <2>2, <2>6, <3>2 DEF WakeInv
      <3>5. ReapInv'
        BY <1>1, <2>6, <3>2 DEF Enqueue, ReapInv, PhaseInv, TypeOK
      <3>. QED
        BY <2>4, <2>5, <3>3, <3>4, <3>5 DEF CoreInv
    <2>7. CASE queue # << >>
      <3>1. events' = events
        BY <1>0, <1>1, <2>2, <2>3, <2>7 DEF Enqueue, InQueue, Contains
      <3>2. CallInv'
        <4>1. ActiveTask' = ActiveTask
          BY <1>1, <2>1, <2>2, <2>7 DEF Enqueue, ActiveTask
        <4>2. \A u \in Task : Running(u)' => Running(u)
          BY <1>1 DEF Enqueue, Running, CallInv, TypeOK
        <4>. QED
          <5>1. \A u \in Task : Running(u)' => u = ActiveTask'
            BY <4>1, <4>2 DEF CallInv
          <5>2. \A u \in Task : status'[u] = "new" => status[u] = "new"
            BY <1>1 DEF Enqueue, TypeOK
          <5>3. \A u \in Task : status'[u] # "deleted" => status[u] # "deleted"
            BY <1>1 DEF Enqueue, TypeOK
          <5>4. started' = started
            BY <1>1 DEF Enqueue
          <5>. QED
            BY <3>1, <4>1, <5>1, <5>2, <5>3, <5>4 DEF CallInv
      <3>3. WakeInv'
        BY <1>1, <2>2, <2>7, <3>1 DEF Enqueue, WakeInv
      <3>4. ReapInv'
        BY <1>1, <3>1 DEF Enqueue, ReapInv, PhaseInv, TypeOK
      <3>. QED
        BY <2>4, <2>5, <3>2, <3>3, <3>4 DEF CoreInv
    <2>. QED
      BY <2>6, <2>7
  <1>2. ASSUME NEW t \in Task, Refuse(t) PROVE CoreInv'
    <2>1. QueueInv'
      BY <1>0, <1>2
      DEF Refuse, TypeOK, Status, QueueInv, PhaseInv, InQueue, Contains
    <2>2. PhaseInv'
      BY <1>0, <1>2
      DEF Refuse, TypeOK, Status, PhaseInv, QueueInv
    <2>3. CallInv'
      BY <1>0, <1>2
      DEF Refuse, TypeOK, Status, CallInv, PhaseInv, QueueInv, ActiveTask, Running
    <2>4. WakeInv'
      BY <1>0, <1>2
      DEF Refuse, TypeOK, Status, WakeInv, PhaseInv, QueueInv
    <2>5. ReapInv'
      BY <1>0, <1>2
      DEF Refuse, TypeOK, Status, ReapInv, PhaseInv, QueueInv
    <2>. QED
      BY <2>1, <2>2, <2>3, <2>4, <2>5 DEF CoreInv
  <1>3. ASSUME NEW t \in Task, Abandon(t) PROVE CoreInv'
    <2>1. events' = events \/ events' = Append(events, FinishEvent(t))
      BY <1>3 DEF Abandon
    <2>2. SameCalls(events, events')
      <3>1. CASE events' = events
        BY <3>1 DEF SameCalls
      <3>2. CASE events' = Append(events, FinishEvent(t))
        BY <1>0, <3>2, FinishPosted
      <3>. QED
        BY <2>1, <3>1, <3>2
    <2>3. QueueInv'
      BY <1>0, <1>3, <2>2
      DEF Abandon, Alive, SameCalls, TypeOK, Status, QueueInv, PhaseInv, InQueue, Contains
    <2>4. PhaseInv'
      BY <1>0, <1>3, <2>2
      DEF Abandon, Alive, SameCalls, TypeOK, Status, PhaseInv, QueueInv
    <2>5. CallInv'
      BY <1>0, <1>3, <2>2
      DEF Abandon, Alive, SameCalls, TypeOK, Status, CallInv, PhaseInv, QueueInv, ActiveTask, Running
    <2>6. WakeInv'
      BY <1>0, <1>3, <2>2
      DEF Abandon, Alive, SameCalls, TypeOK, Status, WakeInv, PhaseInv, QueueInv
    <2>7. ReapInv'
      BY <1>0, <1>3, <2>2
      DEF Abandon, Alive, SameCalls, TypeOK, Status, ReapInv, PhaseInv, QueueInv
    <2>. QED
      BY <2>3, <2>4, <2>5, <2>6, <2>7 DEF CoreInv
  <1>4. ASSUME NEW t \in Task, RunReturns(t) PROVE CoreInv'
    <2>1. events' = events \/ events' = Append(events, FinishEvent(t))
      BY <1>4 DEF RunReturns
    <2>2. SameCalls(events, events')
      <3>1. CASE events' = events
        BY <3>1 DEF SameCalls
      <3>2. CASE events' = Append(events, FinishEvent(t))
        BY <1>0, <3>2, FinishPosted
      <3>. QED
        BY <2>1, <3>1, <3>2
    <2>3. QueueInv'
      BY <1>0, <1>4, <2>2
      DEF RunReturns, Alive, SameCalls, TypeOK, Status, QueueInv, PhaseInv, InQueue, Contains
    <2>4. PhaseInv'
      BY <1>0, <1>4, <2>2
      DEF RunReturns, Alive, SameCalls, TypeOK, Status, PhaseInv, QueueInv
    <2>5. CallInv'
      BY <1>0, <1>4, <2>2
      DEF RunReturns, Alive, SameCalls, TypeOK, Status, CallInv, PhaseInv, QueueInv, ActiveTask, Running
    <2>6. WakeInv'
      BY <1>0, <1>4, <2>2
      DEF RunReturns, Alive, SameCalls, TypeOK, Status, WakeInv, PhaseInv, QueueInv
    <2>7. ReapInv'
      BY <1>0, <1>4, <2>2
      DEF RunReturns, Alive, SameCalls, TypeOK, Status, ReapInv, PhaseInv, QueueInv
    <2>. QED
      BY <2>3, <2>4, <2>5, <2>6, <2>7 DEF CoreInv
  <1>5. ASSUME NEW t \in Task, AsyncFinished(t) PROVE CoreInv'
    <2>1. events' = events \/ events' = Append(events, FinishEvent(t))
      BY <1>5 DEF AsyncFinished
    <2>2. SameCalls(events, events')
      <3>1. CASE events' = events
        BY <3>1 DEF SameCalls
      <3>2. CASE events' = Append(events, FinishEvent(t))
        BY <1>0, <3>2, FinishPosted
      <3>. QED
        BY <2>1, <3>1, <3>2
    <2>3. QueueInv'
      BY <1>0, <1>5, <2>2
      DEF AsyncFinished, Alive, SameCalls, TypeOK, Status, QueueInv, PhaseInv, InQueue, Contains
    <2>4. PhaseInv'
      BY <1>0, <1>5, <2>2
      DEF AsyncFinished, Alive, SameCalls, TypeOK, Status, PhaseInv, QueueInv
    <2>5. CallInv'
      BY <1>0, <1>5, <2>2
      DEF AsyncFinished, Alive, SameCalls, TypeOK, Status, CallInv, PhaseInv, QueueInv, ActiveTask, Running
    <2>6. WakeInv'
      BY <1>0, <1>5, <2>2
      DEF AsyncFinished, Alive, SameCalls, TypeOK, Status, WakeInv, PhaseInv, QueueInv
    <2>7. ReapInv'
      BY <1>0, <1>5, <2>2
      DEF AsyncFinished, Alive, SameCalls, TypeOK, Status, ReapInv, PhaseInv, QueueInv
    <2>. QED
      BY <2>3, <2>4, <2>5, <2>6, <2>7 DEF CoreInv
  <1>6. ASSUME NEW t \in Task, Run(t) PROVE CoreInv'
    <2>1. events # << >> /\ Head(events) = RunEvent(t) /\ Pending(Head(events), events)
      BY <1>0, <1>6, TailFacts DEF Run, Deliver, RunEvent, Pending
    <2>2. /\ Tail(events) \in Seq(Event)
          /\ \A x : Pending(x, Tail(events)) => Pending(x, events)
          /\ \A x : Pending(x, events) => Pending(x, Tail(events)) \/ x = RunEvent(t)
          /\ \A x : Once(x, events) => /\ Once(x, Tail(events))
                                       /\ x = RunEvent(t) => ~Pending(x, Tail(events))
      BY <1>0, <2>1, TailFacts, TailPending, TailOnce
    <2>3. QueueInv'
      BY <1>0, <1>6, <2>1, <2>2, EventDistinct
      DEF Run, Alive, Deliver, TypeOK, Status, QueueInv, PhaseInv, InQueue, Contains
    <2>4. PhaseInv'
      BY <1>0, <1>6, <2>1, <2>2, EventDistinct
      DEF Run, Alive, Deliver, TypeOK, Status, PhaseInv, QueueInv
    <2>5. CallInv'
      BY <1>0, <1>6, <2>1, <2>2, EventDistinct
      DEF Run, Alive, Deliver, TypeOK, Status, CallInv, PhaseInv, QueueInv, ActiveTask, Running
    <2>6. WakeInv'
      BY <1>0, <1>6, <2>1, <2>2, EventDistinct
      DEF Run, Alive, Deliver, TypeOK, Status, WakeInv, PhaseInv, QueueInv
    <2>7. ReapInv'
      BY <1>0, <1>6, <2>1, <2>2, EventDistinct
      DEF Run, Alive, Deliver, TypeOK, Status, ReapInv, PhaseInv, QueueInv
    <2>. QED
      BY <2>3, <2>4, <2>5, <2>6, <2>7 DEF CoreInv
  <1>7. ASSUME NEW t \in Task, DeleteLater(t) PROVE CoreInv'
    <2>1. events # << >> /\ Head(events) = FinishEvent(t) /\ Pending(Head(events), events)
      BY <1>0, <1>7, TailFacts DEF DeleteLater, Deliver, FinishEvent, Pending
    <2>2. /\ Tail(events) \in Seq(Event)
          /\ \A x : Pending(x, Tail(events)) => Pending(x, events)
          /\ \A x : Pending(x, events) => Pending(x, Tail(events)) \/ x = FinishEvent(t)
          /\ \A x : Once(x, events) => /\ Once(x, Tail(events))
                                       /\ x = FinishEvent(t) => ~Pending(x, Tail(events))
      BY <1>0, <2>1, TailFacts, TailPending, TailOnce
    <2>3. \A x : /\ Pending(x, events') <=> Pending(x, Tail(events)) \/ x = DeleteEvent(t)
                 /\ x # DeleteEvent(t) /\ Once(x, Tail(events)) => Once(x, events')
      BY <1>7, <2>2, EventTypes, AppendPending, AppendOnce DEF DeleteLater
    <2>4. ASSUME NEW u \in Task
          PROVE  /\ Pending(RunEvent(u), events') <=> Pending(RunEvent(u), events)
                 /\ Pending(DeleteEvent(u), events) => Pending(DeleteEvent(u), events')
                 /\ Once(RunEvent(u), events) => Once(RunEvent(u), events')
      <3>1. RunEvent(u) # FinishEvent(t) /\ RunEvent(u) # DeleteEvent(t) /\ DeleteEvent(u) # FinishEvent(t)
        BY EventDistinct
      <3>2. Pending(RunEvent(u), events') <=> Pending(RunEvent(u), events)
        BY <2>2, <2>3, <3>1
      <3>3. Pending(DeleteEvent(u), events) => Pending(DeleteEvent(u), events')
        BY <2>2, <2>3, <3>1
      <3>4. Once(RunEvent(u), events) => Once(RunEvent(u), events')
        BY <2>2, <2>3, <3>1
      <3>. QED
        BY <3>2, <3>3, <3>4
    <2>5. QueueInv'
      BY <1>0, <1>7, <2>4
      DEF DeleteLater, Alive, Deliver, TypeOK, Status, QueueInv, PhaseInv, InQueue, Contains
    <2>6. PhaseInv'
      BY <1>0, <1>7, <2>4
      DEF DeleteLater, Alive, Deliver, TypeOK, Status, PhaseInv, QueueInv
    <2>7. CallInv'
      BY <1>0, <1>7, <2>4
      DEF DeleteLater, Alive, Deliver, TypeOK, Status, CallInv, PhaseInv, QueueInv, ActiveTask, Running
    <2>8. WakeInv'
      BY <1>0, <1>7, <2>4
      DEF DeleteLater, Alive, Deliver, TypeOK, Status, WakeInv, PhaseInv, QueueInv
    <2>9. ReapInv'
      BY <1>0, <1>7, <2>4
      DEF DeleteLater, Alive, Deliver, TypeOK, Status, ReapInv, PhaseInv, QueueInv
    <2>. QED
      BY <2>5, <2>6, <2>7, <2>8, <2>9 DEF CoreInv
  <1>8. ASSUME NEW t \in Task, Destroy(t) PROVE CoreInv'
    <2>1. events # << >> /\ Head(events) = DeleteEvent(t) /\ Pending(Head(events), events)
      BY <1>0, <1>8, TailFacts DEF Destroy, Deliver, DeleteEvent, Pending
    <2>2. /\ Tail(events) \in Seq(Event)
          /\ \A x : Pending(x, Tail(events)) => Pending(x, events)
          /\ \A x : Pending(x, events) => Pending(x, Tail(events)) \/ x = DeleteEvent(t)
          /\ \A x : Once(x, events) => /\ Once(x, Tail(events))
                                       /\ x = DeleteEvent(t) => ~Pending(x, Tail(events))
      BY <1>0, <2>1, TailFacts, TailPending, TailOnce
    <2>3. QueueInv'
      BY <1>0, <1>8, <2>1, <2>2, EventDistinct
      DEF Destroy, Alive, Deliver, TypeOK, Status, QueueInv, PhaseInv, InQueue, Contains
    <2>4. PhaseInv'
      BY <1>0, <1>8, <2>1, <2>2, EventDistinct
      DEF Destroy, Alive, Deliver, TypeOK, Status, PhaseInv, QueueInv
    <2>5. CallInv'
      BY <1>0, <1>8, <2>1, <2>2, EventDistinct
      DEF Destroy, Alive, Deliver, TypeOK, Status, CallInv, PhaseInv, QueueInv, ActiveTask, Running
    <2>6. WakeInv'
      BY <1>0, <1>8, <2>1, <2>2, EventDistinct
      DEF Destroy, Alive, Deliver, TypeOK, Status, WakeInv, PhaseInv, QueueInv
    <2>7. ReapInv'
      BY <1>0, <1>8, <2>1, <2>2, EventDistinct
      DEF Destroy, Alive, Deliver, TypeOK, Status, ReapInv, PhaseInv, QueueInv
    <2>. QED
      BY <2>3, <2>4, <2>5, <2>6, <2>7 DEF CoreInv
  <1>9. CASE Discard
    <2>1. events # << >> /\ events' = Tail(events)
      BY <1>9 DEF Discard
    <2>2. /\ \A x : Pending(x, events') => Pending(x, events)
          /\ \A x : Pending(x, events) => Pending(x, events') \/ x = Head(events)
          /\ \A x : Once(x, events) => Once(x, events')
      BY <1>0, <2>1, TailPending, TailOnce
    <2>3. \A u \in Task : /\ Head(events) = RunEvent(u) => ~Alive(u) \/ loop = "cleanup"
                          /\ Head(events) = DeleteEvent(u) => ~Alive(u)
      BY <1>9 DEF Discard, RunEvent, DeleteEvent
    <2>4. QueueInv'
      BY <1>0, <1>9, <2>2, <2>3
      DEF Discard, Alive, TypeOK, Status, QueueInv, PhaseInv, InQueue, Contains
    <2>5. PhaseInv'
      BY <1>0, <1>9, <2>2, <2>3
      DEF Discard, Alive, TypeOK, Status, PhaseInv, QueueInv
    <2>6. CallInv'
      BY <1>0, <1>9, <2>2, <2>3
      DEF Discard, Alive, TypeOK, Status, CallInv, PhaseInv, QueueInv, ActiveTask, Running
    <2>7. WakeInv'
      BY <1>0, <1>9, <2>2, <2>3
      DEF Discard, Alive, TypeOK, Status, WakeInv, PhaseInv, QueueInv
    <2>8. ReapInv'
      BY <1>0, <1>9, <2>2, <2>3
      DEF Discard, Alive, TypeOK, Status, ReapInv, PhaseInv, QueueInv
    <2>. QED
      BY <2>4, <2>5, <2>6, <2>7, <2>8 DEF CoreInv
  <1>10. CASE ShutdownReturn
    <2>1. QueueInv'
      BY <1>0, <1>10
      DEF ShutdownReturn, TypeOK, Status, QueueInv, PhaseInv, InQueue, Contains
    <2>2. PhaseInv'
      BY <1>0, <1>10
      DEF ShutdownReturn, TypeOK, Status, PhaseInv, QueueInv
    <2>3. CallInv'
      BY <1>0, <1>10
      DEF ShutdownReturn, TypeOK, Status, CallInv, PhaseInv, QueueInv, ActiveTask, Running
    <2>4. WakeInv'
      BY <1>0, <1>10
      DEF ShutdownReturn, TypeOK, Status, WakeInv, PhaseInv, QueueInv
    <2>5. ReapInv'
      BY <1>0, <1>10
      DEF ShutdownReturn, TypeOK, Status, ReapInv, PhaseInv, QueueInv
    <2>. QED
      BY <2>1, <2>2, <2>3, <2>4, <2>5 DEF CoreInv
  <1>11. CASE PassDone
    <2>1. QueueInv'
      BY <1>0, <1>11
      DEF PassDone, TypeOK, Status, QueueInv, PhaseInv, InQueue, Contains
    <2>2. PhaseInv'
      BY <1>0, <1>11
      DEF PassDone, TypeOK, Status, PhaseInv, QueueInv
    <2>3. CallInv'
      BY <1>0, <1>11
      DEF PassDone, TypeOK, Status, CallInv, PhaseInv, QueueInv, ActiveTask, Running
    <2>4. WakeInv'
      BY <1>0, <1>11
      DEF PassDone, TypeOK, Status, WakeInv, PhaseInv, QueueInv
    <2>5. ReapInv'
      BY <1>0, <1>11
      DEF PassDone, TypeOK, Status, ReapInv, PhaseInv, QueueInv
    <2>. QED
      BY <2>1, <2>2, <2>3, <2>4, <2>5 DEF CoreInv
  <1>12. CASE LeaveLoop
    <2>1. QueueInv'
      BY <1>0, <1>12
      DEF LeaveLoop, TypeOK, Status, QueueInv, PhaseInv, InQueue, Contains
    <2>2. PhaseInv'
      BY <1>0, <1>12
      DEF LeaveLoop, TypeOK, Status, PhaseInv, QueueInv
    <2>3. CallInv'
      BY <1>0, <1>12
      DEF LeaveLoop, TypeOK, Status, CallInv, PhaseInv, QueueInv, ActiveTask, Running
    <2>4. WakeInv'
      BY <1>0, <1>12
      DEF LeaveLoop, TypeOK, Status, WakeInv, PhaseInv, QueueInv
    <2>5. ReapInv'
      BY <1>0, <1>12
      DEF LeaveLoop, TypeOK, Status, ReapInv, PhaseInv, QueueInv
    <2>. QED
      BY <2>1, <2>2, <2>3, <2>4, <2>5 DEF CoreInv
  <1>13. CASE ThreadOver
    <2>0. \A x : ~Pending(x, events)
      BY <1>13 DEF ThreadOver, Pending
    <2>1. QueueInv'
      BY <1>0, <1>13, <2>0
      DEF ThreadOver, TypeOK, Status, QueueInv, PhaseInv, InQueue, Contains
    <2>2. PhaseInv'
      BY <1>0, <1>13, <2>0
      DEF ThreadOver, TypeOK, Status, PhaseInv, QueueInv
    <2>3. CallInv'
      BY <1>0, <1>13, <2>0
      DEF ThreadOver, TypeOK, Status, CallInv, PhaseInv, QueueInv, ActiveTask, Running
    <2>4. WakeInv'
      BY <1>0, <1>13, <2>0
      DEF ThreadOver, TypeOK, Status, WakeInv, PhaseInv, QueueInv
    <2>5. ReapInv'
      BY <1>0, <1>13, <2>0
      DEF ThreadOver, TypeOK, Status, ReapInv, PhaseInv, QueueInv
    <2>. QED
      BY <2>1, <2>2, <2>3, <2>4, <2>5 DEF CoreInv
  <1>14. CASE UNCHANGED vars
    <2>1. QueueInv'
      BY <1>14
      DEF vars, TypeOK, Status, QueueInv, PhaseInv, InQueue, Contains
    <2>2. PhaseInv'
      BY <1>14
      DEF vars, TypeOK, Status, PhaseInv, QueueInv
    <2>3. CallInv'
      BY <1>14
      DEF vars, TypeOK, Status, CallInv, PhaseInv, QueueInv, ActiveTask, Running
    <2>4. WakeInv'
      BY <1>14
      DEF vars, TypeOK, Status, WakeInv, PhaseInv, QueueInv
    <2>5. ReapInv'
      BY <1>14
      DEF vars, TypeOK, Status, ReapInv, PhaseInv, QueueInv
    <2>. QED
      BY <2>1, <2>2, <2>3, <2>4, <2>5 DEF CoreInv
  <1>15. CASE Shutdown
    <2>. DEFINE D == Deletions(queue)
    <2>1. /\ open /\ ~open' /\ queue' = << >> /\ last' = ActiveTask /\ ActiveTask' = ActiveTask
          /\ exit = "no" /\ loop' = "exec" /\ UNCHANGED <<started, busy>> /\ dtor' = "waiting"
      BY <1>0, <1>15 DEF Shutdown, PhaseInv, ActiveTask, TypeOK
    <2>2. D \in Seq(Event) /\ events' = events \o D
      BY <1>15, ShutdownDeletes DEF Shutdown, TypeOK
    <2>3. \A u \in Task : /\ ~Pending(RunEvent(u), D)
                          /\ InQueue(u) /\ u # ActiveTask => Pending(DeleteEvent(u), D)
      BY <1>0, <2>1, ShutdownDeletes DEF InQueue, Contains, ActiveTask
    <2>. HIDE DEF D
    <2>4. \A u \in Task : status'[u] = IF InQueue(u) /\ u # ActiveTask /\ status[u] = "owned"
                                         THEN "detached" ELSE status[u]
      BY <1>0, <1>15, <2>1 DEF Shutdown, ActiveTask, InQueue, Contains, TypeOK
    <2>5. \A u \in Task : /\ Pending(RunEvent(u), events') => Pending(RunEvent(u), events)
                          /\ Pending(DeleteEvent(u), D) => Pending(DeleteEvent(u), events')
                          /\ Once(RunEvent(u), events) => Once(RunEvent(u), events')
      BY <1>0, <2>2, <2>3, ConcatPending, ConcatOnce
    <2>6. QueueInv'
      BY <2>1, <2>4 DEF QueueInv
    <2>7. PhaseInv'
      <3>1. last' # NoTask => last' \in Task /\ status[last'] \in {"owned", "destroying"}
        BY <1>0, <2>1 DEF QueueInv, ActiveTask, TypeOK
      <3>. QED
        BY <2>1, <2>4, <3>1 DEF PhaseInv
    <2>8. CallInv'
      BY <2>1, <2>4, <2>5 DEF CallInv, Running
    <2>9. WakeInv'
      BY <2>1 DEF WakeInv
    <2>10. ReapInv'
      BY <2>1, <2>3, <2>4, <2>5 DEF ReapInv, QueueInv, TypeOK, Status
    <2>. QED
      BY <2>6, <2>7, <2>8, <2>9, <2>10 DEF CoreInv
  <1>16. ASSUME NEW t \in Task, Dequeue(t) PROVE CoreInv'
    <2>1. /\ busy' = NoTask /\ status[t] = "destroying" /\ busy = t
          /\ status' = [status EXCEPT ![t] = "deleted"]
          /\ UNCHANGED <<open, last, started, loop, dtor>>
          /\ \A u \in Task : status[u] = "destroying" => u = t
      BY <1>16 DEF Dequeue, QueueInv
    <2>2. CASE ~open
      <3>1. UNCHANGED <<queue, events>> /\ (exit = "now" => exit' = "now")
        BY <1>16, <2>2 DEF Dequeue, Quit
      <3>2. QueueInv'
        BY <2>1, <2>2, <3>1
        DEF TypeOK, Status, QueueInv, PhaseInv, InQueue, Contains
      <3>3. PhaseInv'
        BY <2>1, <2>2, <3>1
        DEF TypeOK, Status, PhaseInv, QueueInv
      <3>4. CallInv'
        BY <2>1, <2>2, <3>1
        DEF TypeOK, Status, CallInv, PhaseInv, QueueInv, ActiveTask, Running
      <3>5. WakeInv'
        BY <2>1, <2>2, <3>1
        DEF TypeOK, Status, WakeInv, PhaseInv, QueueInv
      <3>6. ReapInv'
        BY <2>1, <2>2, <3>1
        DEF TypeOK, Status, ReapInv, PhaseInv, QueueInv
      <3>. QED
        BY <3>2, <3>3, <3>4, <3>5, <3>6 DEF CoreInv
    <2>3. CASE open
      <3>1. PICK k \in 1..Len(queue) : queue[k] = t
        BY <2>1, <2>3 DEF QueueInv, InQueue, Contains
      <3>2. /\ queue' = RemoveOne(queue, t) /\ exit' = exit
            /\ t = Head(queue) => events' = events \o ProcessQueue(queue')
            /\ t # Head(queue) => events' = events
        BY <1>16, <2>3, <3>1 DEF Dequeue, InQueue, Contains
      <3>3. /\ queue' \in Seq(Task) /\ Len(queue') = Len(queue) - 1 /\ queue # << >>
            /\ \A j \in 1..(Len(queue) - 1) : queue'[j] = IF j < k THEN queue[j] ELSE queue[j + 1]
        <4>1. queue # << >>
          BY <3>1
        <4>2. \A i, j \in 1..Len(queue) : queue[i] = queue[j] => i = j
          BY DEF QueueInv
        <4>3. /\ RemoveOne(queue, t) \in Seq(Task)
              /\ Len(RemoveOne(queue, t)) = Len(queue) - 1
              /\ \A j \in 1..(Len(queue) - 1) :
                    RemoveOne(queue, t)[j] = IF j < k THEN queue[j] ELSE queue[j + 1]
          <5>1. queue \in Seq(Task)
            BY <1>0
          <5>. QED
            BY ONLY <3>1, <4>2, <5>1, RemoveOneFacts
        <4>. QED
          BY <3>2, <4>1, <4>3
      <3>4. QueueInv'
        <4>1. \A i, j \in 1..Len(queue') : queue'[i] = queue'[j] => i = j
          BY <1>0, <3>1, <3>3 DEF QueueInv
        <4>2. \A i \in 1..Len(queue') : queue'[i] # t
          BY <1>0, <3>1, <3>3 DEF QueueInv
        <4>3. \A i \in 1..Len(queue') : status'[queue'[i]] \in {"owned", "destroying"}
          BY <1>0, <2>1, <3>3, <4>2 DEF QueueInv, TypeOK
        <4>4. \A u \in Task : InQueue(u) /\ u # t => InQueue(u)'
          <5>1. SUFFICES ASSUME NEW u \in Task, NEW i \in 1..Len(queue), queue[i] = u, u # t
                         PROVE  InQueue(u)'
            BY DEF InQueue, Contains
          <5>2. CASE i < k
            <6>1. i \in 1..(Len(queue) - 1)
              BY <1>0, <5>2
            <6>. QED
              BY <3>3, <5>1, <5>2, <6>1 DEF InQueue, Contains
          <5>3. CASE i > k
            <6>1. i - 1 \in 1..(Len(queue) - 1) /\ ~(i - 1 < k) /\ (i - 1) + 1 = i
              BY <1>0, <5>3
            <6>. QED
              BY <3>3, <5>1, <6>1 DEF InQueue, Contains
          <5>4. i # k
            BY <3>1, <5>1
          <5>. QED
            BY <1>0, <5>2, <5>3, <5>4
        <4>. QED
          BY <2>1, <4>1, <4>3, <4>4 DEF QueueInv, TypeOK
      <3>5. PhaseInv'
        BY <2>1, <2>3, <3>2 DEF PhaseInv, TypeOK
      <3>6. ReapInv'
        BY <2>1, <2>3, <3>2 DEF ReapInv, PhaseInv, TypeOK
      <3>7. CASE k # 1
        <4>1. queue'[1] = queue[1] /\ queue' # << >> /\ ActiveTask' = ActiveTask
          BY <1>0, <2>1, <2>3, <3>3, <3>7 DEF ActiveTask
        <4>2. events' = events
          BY <1>0, <3>1, <3>2, <3>3, <3>7 DEF QueueInv
        <4>3. CallInv'
          BY <2>1, <4>1, <4>2 DEF CallInv, Running, TypeOK
        <4>4. WakeInv'
          BY <2>1, <3>3, <4>1, <4>2 DEF WakeInv
        <4>. QED
          BY <3>4, <3>5, <3>6, <4>3, <4>4 DEF CoreInv
      <3>8. CASE k = 1
        <4>1. ActiveTask = t /\ Head(queue) = t /\ status'[t] = "deleted"
          BY <1>0, <2>1, <2>3, <3>1, <3>3, <3>8 DEF ActiveTask, TypeOK
        <4>2. \A u \in Task : status'[u] # "deleted" =>
                 /\ u # ActiveTask /\ status'[u] = status[u] /\ ~started'[u]
                 /\ ~Pending(RunEvent(u), events) /\ Once(RunEvent(u), events)
          BY <2>1, <4>1 DEF CallInv, Running, TypeOK
        <4>3. CASE queue' = << >>
          <5>1. events' = events
            BY <1>0, <3>2, <3>3, <4>1, <4>3, ProcessQueueFacts
          <5>2. CallInv'
            BY <2>1, <4>2, <5>1 DEF CallInv, Running
          <5>3. WakeInv'
            BY <4>3 DEF WakeInv
          <5>. QED
            BY <3>4, <3>5, <3>6, <5>2, <5>3 DEF CoreInv
        <4>4. CASE queue' # << >>
          <5>1. queue'[1] \in Task /\ events' = Append(events, RunEvent(queue'[1]))
            BY <1>0, <3>2, <3>3, <4>1, <4>4, ProcessQueueFacts
          <5>2. /\ \A x : Pending(x, events') <=> Pending(x, events) \/ x = RunEvent(queue'[1])
                /\ \A x : Once(x, events) /\ (x = RunEvent(queue'[1]) => ~Pending(x, events))
                             => Once(x, events')
            BY <1>0, <5>1, EventTypes, AppendPending, AppendOnce
          <5>3. ActiveTask' = queue'[1]
            BY <2>1, <2>3, <4>4 DEF ActiveTask
          <5>4. \A u \in Task : status'[u] # "deleted" =>
                   /\ Pending(RunEvent(u), events') => u = ActiveTask'
                   /\ Once(RunEvent(u), events')
            BY <4>2, <5>1, <5>2, <5>3, EventDistinct
          <5>5. status'[queue'[1]] # "new"
            BY <3>3, <3>4, <4>4, TailFacts DEF QueueInv
          <5>6. CallInv'
            BY <4>2, <5>3, <5>4, <5>5 DEF CallInv, Running
          <5>7. WakeInv'
            BY <5>2 DEF WakeInv
          <5>. QED
            BY <3>4, <3>5, <3>6, <5>6, <5>7 DEF CoreInv
        <4>. QED
          BY <4>3, <4>4
      <3>. QED
        BY <3>7, <3>8
    <2>. QED
      BY <2>2, <2>3 DEF TypeOK
  <1>. QED
    BY <1>1, <1>2, <1>3, <1>4, <1>5, <1>6, <1>7, <1>8, <1>9, <1>10, <1>11, <1>12, <1>13, <1>14,
       <1>15, <1>16
    DEF Next, Client, Background, TaskStep, RefuseForeign, RefuseClosed

-----------------------------------------------------------------------------
(* The theorems. *)

\* The conjunction of the parts above is invariant.
THEOREM Invariance == Spec => []IInv
  <1>1. Init => IInv
    BY InvInit
  <1>2. IInv /\ [Next]_vars => IInv'
    BY TypeStep, CoreStep DEF IInv, CoreInv
  <1>. QED
    BY <1>1, <1>2, PTL DEF Spec

\* Every reachable state of the queue is of the declared types.
THEOREM TypeCorrect == Spec => []TypeOK
  <1>1. IInv => TypeOK
    BY DEF IInv
  <1>. QED
    BY <1>1, Invariance, PTL

\* Whatever the number of tasks and however clients, the background thread
\* and the destructor interleave, two tasks never run at the same time.
THEOREM TasksRunOneAtATime == Spec => []OneAtATime
  <1>1. IInv => OneAtATime
    BY DEF IInv, CoreInv, CallInv, OneAtATime
  <1>. QED
    BY <1>1, Invariance, PTL

\* run() of a task is never called, nor about to be called, twice.
THEOREM TasksRunOnce == Spec => []RunsOnce
  <1>1. IInv => RunsOnce
    BY DEF IInv, CoreInv, CallInv, RunsOnce, Alive, Pending, Once
  <1>. QED
    BY <1>1, Invariance, PTL

\* The queue never loses a wake-up: while it is open and holds a task, the
\* one at its head was called or its call is posted.
THEOREM HeadAlwaysServed == Spec => []HeadIsServed
  <1>1. IInv => HeadIsServed
    BY TailFacts DEF IInv, CoreInv, WakeInv, HeadIsServed, Pending, TypeOK
  <1>. QED
    BY <1>1, Invariance, PTL

\* When the destructor may return, only the task that it spared can be left.
THEOREM ShutdownLeavesOne == Spec => []OnlyLastSurvives
  <1>1. IInv => OnlyLastSurvives
    BY DEF IInv, CoreInv, ReapInv, OnlyLastSurvives
  <1>. QED
    BY <1>1, Invariance, PTL

-----------------------------------------------------------------------------
(* The queue implements the serial executor. *)

\* The executor's current task is the one that runs.
CurrentIsRunning ==
    /\ \A t \in Task : RunningTask = t <=> Running(t)
    /\ RunningTask = NoTask <=> \A t \in Task : ~Running(t)

\* As only the active task can run, the current task is well defined.
LEMMA CurrentFacts == IInv => CurrentIsRunning
  <1>. SUFFICES ASSUME IInv PROVE CurrentIsRunning
    OBVIOUS
  <1>1. \A s, t \in Task : Running(s) /\ Running(t) => s = t
    BY DEF IInv, CoreInv, CallInv
  <1>2. CASE \E t \in Task : Running(t)
    <2>1. RunningTask \in Task /\ Running(RunningTask)
      BY <1>2 DEF RunningTask
    <2>. QED
      BY <1>1, <2>1, TaskAssumption DEF CurrentIsRunning
  <1>3. CASE ~\E t \in Task : Running(t)
    <2>1. RunningTask = NoTask
      BY <1>3 DEF RunningTask
    <2>. QED
      BY <1>3, <2>1, TaskAssumption DEF CurrentIsRunning
  <1>. QED
    BY <1>2, <1>3

\* What waits in the executor, for each state of the queue.
WaitingIs ==
    /\ open /\ queue = << >> => WaitingTasks = << >>
    /\ open /\ queue # << >> /\ ~started[Head(queue)] => WaitingTasks = queue
    /\ open /\ queue # << >> /\ started[Head(queue)] => WaitingTasks = Tail(queue)
    /\ ~open /\ last # NoTask /\ ~started[last] /\ status[last] # "deleted" =>
           WaitingTasks = <<last>>
    /\ ~open /\ ~(last # NoTask /\ ~started[last] /\ status[last] # "deleted") =>
           WaitingTasks = << >>

\* The cases of the definition, one by one.
LEMMA WaitingFacts == WaitingIs
  <1>1. CASE open /\ (queue = << >> \/ ~started[Head(queue)])
    BY <1>1, Zenon DEF WaitingTasks, WaitingIs
  <1>. QED
    BY <1>1, Zenon DEF WaitingTasks, WaitingIs

\* The current task stays while the same tasks run.
LEMMA SameCurrent ==
    ASSUME CurrentIsRunning, CurrentIsRunning',
           \A t \in Task : Running(t)' <=> Running(t)
    PROVE  RunningTask' = RunningTask
  <1>1. CASE \E t \in Task : Running(t)
    BY <1>1 DEF CurrentIsRunning
  <1>2. CASE ~\E t \in Task : Running(t)
    BY <1>2 DEF CurrentIsRunning
  <1>. QED
    BY <1>1, <1>2

\* Taking one element out of a sequence, as the executor writes it.
LEMMA RemoveOneAt ==
    ASSUME NEW S, NEW s \in Seq(S), NEW t, NEW k \in 1..Len(s), s[k] = t,
           \A i, j \in 1..Len(s) : s[i] = s[j] => i = j
    PROVE  /\ RemoveOne(s, t) = SubSeq(s, 1, k - 1) \o SubSeq(s, k + 1, Len(s))
           /\ k = 1 => RemoveOne(s, t) = Tail(s)
           /\ k # 1 => /\ Head(RemoveOne(s, t)) = Head(s) /\ RemoveOne(s, t) # << >>
                       /\ k - 1 \in 1..Len(Tail(s))
                       /\ Tail(RemoveOne(s, t)) =
                              SubSeq(Tail(s), 1, k - 2) \o SubSeq(Tail(s), k, Len(Tail(s)))
  <1>. DEFINE Cut(x, i) == SubSeq(x, 1, i - 1) \o SubSeq(x, i + 1, Len(x))
              R == RemoveOne(s, t)
  <1>1. Len(s) \in Nat /\ Len(s) >= 1 /\ s # << >> /\ k \in Nat /\ k >= 1 /\ k <= Len(s)
    OBVIOUS
  <1>2. /\ R \in Seq(S) /\ Len(R) = Len(s) - 1
        /\ \A j \in 1..(Len(s) - 1) : R[j] = IF j < k THEN s[j] ELSE s[j + 1]
    <2>1. s \in Seq(S) /\ k \in 1..Len(s) /\ s[k] = t /\ \A i, j \in 1..Len(s) : s[i] = s[j] => i = j
      OBVIOUS
    <2>. QED
      BY ONLY <2>1, RemoveOneFacts
  <1>. HIDE DEF R, Cut
  <1>3. R = Cut(s, k)
    <2>1. /\ Cut(s, k) \in Seq(S) /\ Len(Cut(s, k)) = Len(s) - 1
          /\ \A j \in 1..(Len(s) - 1) : Cut(s, k)[j] = IF j < k THEN s[j] ELSE s[j + 1]
      BY CutFacts DEF Cut
    <2>. QED
      BY <1>1, <1>2, <2>1, SameElements
  <1>4. Tail(s) \in Seq(S) /\ Len(Tail(s)) = Len(s) - 1 /\ Head(s) = s[1]
        /\ \A j \in 1..(Len(s) - 1) : Tail(s)[j] = s[j + 1]
    BY <1>1, TailFacts
  <1>5. ASSUME k = 1 PROVE R = Tail(s)
    BY <1>1, <1>2, <1>4, <1>5, SameElements
  <1>6. ASSUME k # 1
        PROVE  /\ Head(R) = Head(s) /\ R # << >> /\ k - 1 \in 1..Len(Tail(s))
               /\ Tail(R) = Cut(Tail(s), k - 1)
    <2>1. R # << >> /\ k - 1 \in 1..Len(Tail(s)) /\ Len(R) \in Nat
      BY <1>1, <1>2, <1>4, <1>6
    <2>2. /\ Head(R) = R[1] /\ Tail(R) \in Seq(S) /\ Len(Tail(R)) = Len(R) - 1
          /\ \A j \in 1..(Len(R) - 1) : Tail(R)[j] = R[j + 1]
      BY <1>2, <2>1, TailFacts
    <2>3. R[1] = s[1]
      BY <1>1, <1>2, <1>6
    <2>4. /\ Cut(Tail(s), k - 1) \in Seq(S) /\ Len(Cut(Tail(s), k - 1)) = Len(Tail(s)) - 1
          /\ \A j \in 1..(Len(Tail(s)) - 1) :
                Cut(Tail(s), k - 1)[j] = IF j < k - 1 THEN Tail(s)[j] ELSE Tail(s)[j + 1]
      BY <1>4, <2>1, CutFacts DEF Cut
    <2>5. ASSUME NEW j \in 1..(Len(s) - 2) PROVE Tail(R)[j] = Cut(Tail(s), k - 1)[j]
      <3>1. Tail(R)[j] = IF j + 1 < k THEN s[j + 1] ELSE s[j + 2]
        <4>1. j + 1 \in 1..(Len(s) - 1) /\ j \in 1..(Len(R) - 1) /\ (j + 1) + 1 = j + 2
          BY <1>1, <1>2
        <4>. QED
          BY <1>2, <2>2, <4>1
      <3>2. Cut(Tail(s), k - 1)[j] = IF j < k - 1 THEN s[j + 1] ELSE s[j + 2]
        <4>1. /\ j \in 1..(Len(s) - 1) /\ j + 1 \in 1..(Len(s) - 1)
              /\ j \in 1..(Len(Tail(s)) - 1) /\ (j + 1) + 1 = j + 2
          BY <1>1, <1>4
        <4>. QED
          BY <1>4, <2>4, <4>1
      <3>3. (j + 1 < k) <=> (j < k - 1)
        BY <1>1
      <3>. QED
        BY <3>1, <3>2, <3>3
    <2>6. Len(Tail(R)) = Len(s) - 2 /\ Len(Cut(Tail(s), k - 1)) = Len(s) - 2
      BY <1>1, <1>2, <1>4, <2>2, <2>4
    <2>7. Tail(R) = Cut(Tail(s), k - 1)
      <3>1. \A j \in 1..Len(Tail(R)) : Tail(R)[j] = Cut(Tail(s), k - 1)[j]
        BY <2>5, <2>6
      <3>. QED
        BY <2>2, <2>4, <2>6, <3>1, SameElements
    <2>. QED
      BY <1>4, <2>1, <2>2, <2>3, <2>7
  <1>7. k # 1 => Cut(Tail(s), k - 1) = SubSeq(Tail(s), 1, k - 2) \o SubSeq(Tail(s), k, Len(Tail(s)))
    <2>1. (k - 1) - 1 = k - 2 /\ (k - 1) + 1 = k
      BY <1>1
    <2>. QED
      BY <2>1 DEF Cut
  <1>. QED
    BY <1>3, <1>5, <1>6, <1>7 DEF R, Cut

\* A step that leaves the tasks' lives and the queue alone is invisible.
LEMMA InvisibleStep ==
    ASSUME UNCHANGED <<queue, open, last, started, status>>
    PROVE  UNCHANGED Executor!vars
  <1>1. WaitingTasks' = WaitingTasks
    BY DEF WaitingTasks
  <1>2. \A t : Running(t)' <=> Running(t)
    BY DEF Running
  <1>3. RunningTask' = RunningTask
    BY <1>2 DEF RunningTask
  <1>. QED
    BY <1>1, <1>3 DEF Executor!vars

\* How the steps of the queue look like from outside.
LEMMA ExecutorStep ==
    IInv /\ CurrentIsRunning /\ CurrentIsRunning' /\ WaitingIs /\ WaitingIs' /\ [Next]_vars
        => [Executor!Next]_(Executor!vars)
  <1>. SUFFICES ASSUME IInv, CurrentIsRunning, CurrentIsRunning', WaitingIs, WaitingIs',
                       [Next]_vars
                PROVE  [Executor!Next]_(Executor!vars)
    OBVIOUS
  <1>. DEFINE Seen == {t \in Task : status[t] # "new"}
  <1>0. TypeOK /\ QueueInv /\ PhaseInv /\ CallInv /\ NoTask \notin Task
    BY TaskAssumption DEF IInv, CoreInv
  <1>1. \A t \in Task : Running(t) => t = ActiveTask
    BY <1>0 DEF CallInv
  <1>2. queue # << >> => Head(queue) = queue[1] /\ queue[1] \in Task /\ 1 \in 1..Len(queue)
    <2>1. queue # << >> => Len(queue) \in Nat \ {0}
      BY <1>0 DEF TypeOK
    <2>. QED
      BY <1>0, <2>1, TailFacts DEF TypeOK
  <1>3. ASSUME NEW t \in Task, Enqueue(t) PROVE \E u \in Task : Executor!Submit(u)
    <2>1. /\ open /\ open' /\ status[t] = "new" /\ ~started[t] /\ started' = started
          /\ queue' = Append(queue, t) /\ status' = [status EXCEPT ![t] = "owned"]
      BY <1>0, <1>3 DEF Enqueue, CallInv
    <2>2. RunningTask' = RunningTask
      <3>1. \A u \in Task : Running(u)' <=> Running(u)
        BY <1>0, <2>1 DEF Running, TypeOK
      <3>. QED
        BY <3>1, SameCurrent
    <2>3. Seen' = Seen \cup {t} /\ t \notin Seen
      BY <1>0, <2>1 DEF TypeOK
    <2>4. WaitingTasks' = Append(WaitingTasks, t)
      <3>1. CASE queue = << >>
        <4>1. queue' # << >> /\ Head(queue') = t
          BY <2>1, <3>1
        <4>. QED
          BY <2>1, <3>1, <4>1 DEF WaitingIs
      <3>2. CASE queue # << >>
        <4>1. queue' # << >> /\ Head(queue') = Head(queue) /\ Tail(queue') = Append(Tail(queue), t)
          BY <1>0, <2>1, <3>2 DEF TypeOK
        <4>. QED
          BY <2>1, <3>2, <4>1 DEF WaitingIs
      <3>. QED
        BY <3>1, <3>2
    <2>. QED
      BY <2>1, <2>2, <2>3, <2>4 DEF Executor!Submit
  <1>4. ASSUME NEW t \in Task, Refuse(t) PROVE \E u \in Task : Executor!Refuse(u)
    <2>1. /\ status[t] = "new" /\ ~started[t] /\ t # last
          /\ status' = [status EXCEPT ![t] = "deleted"]
          /\ UNCHANGED <<queue, open, last, started>>
      BY <1>0, <1>4 DEF Refuse, CallInv, PhaseInv
    <2>2. RunningTask' = RunningTask
      <3>1. \A u \in Task : Running(u)' <=> Running(u)
        BY <1>0, <2>1 DEF Running, TypeOK
      <3>. QED
        BY <3>1, SameCurrent
    <2>3. Seen' = Seen \cup {t} /\ t \notin Seen
      BY <1>0, <2>1 DEF TypeOK
    <2>4. WaitingTasks' = WaitingTasks
      <3>1. last # NoTask => status'[last] = status[last]
        BY <1>0, <2>1 DEF TypeOK
      <3>. QED
        BY <2>1, <3>1 DEF WaitingIs
    <2>. QED
      BY <2>1, <2>2, <2>3, <2>4 DEF Executor!Refuse
  <1>5. ASSUME NEW t \in Task, Run(t) PROVE Executor!Start
    <2>1. /\ started' = [started EXCEPT ![t] = TRUE] /\ UNCHANGED <<queue, open, last, status>>
          /\ events # << >> /\ Head(events) = RunEvent(t) /\ Alive(t)
      BY <1>5 DEF Run, Deliver, RunEvent
    <2>2. t = ActiveTask /\ ~started[t] /\ status[t] # "deleted"
      <3>1. Pending(RunEvent(t), events)
        BY <1>0, <2>1, TailFacts DEF TypeOK, Pending
      <3>2. status[t] # "deleted"
        BY <2>1 DEF Alive
      <3>. QED
        BY <1>0, <3>1, <3>2 DEF CallInv
    <2>3. RunningTask = NoTask
      BY <1>1, <2>2 DEF CurrentIsRunning, Running
    <2>4. RunningTask' = t
      <3>1. Running(t)'
        BY <1>0, <2>1, <2>2 DEF Running, TypeOK
      <3>. QED
        BY <3>1 DEF CurrentIsRunning
    <2>5. Seen' = Seen
      BY <2>1
    <2>6. started'[t] /\ WaitingTasks # << >> /\ Head(WaitingTasks) = t /\ WaitingTasks' = Tail(WaitingTasks)
      <3>1. started'[t]
        BY <1>0, <2>1 DEF TypeOK
      <3>2. CASE open
        <4>1. queue # << >> /\ Head(queue) = t
          BY <1>0, <1>2, <2>2, <3>2 DEF ActiveTask
        <4>2. WaitingTasks = queue /\ WaitingTasks' = Tail(queue)
          BY <2>1, <2>2, <3>1, <3>2, <4>1 DEF WaitingIs
        <4>. QED
          BY <3>1, <4>1, <4>2
      <3>3. CASE ~open
        <4>1. last = t /\ last # NoTask
          BY <1>0, <2>2, <3>3 DEF ActiveTask
        <4>2. WaitingTasks = <<t>> /\ WaitingTasks' = << >>
          BY <2>1, <2>2, <3>1, <3>3, <4>1 DEF WaitingIs
        <4>. QED
          BY <3>1, <4>2
      <3>. QED
        BY <3>2, <3>3
    <2>. QED
      BY <2>1, <2>3, <2>4, <2>5, <2>6 DEF Executor!Start
  <1>6. ASSUME NEW t \in Task, Destroy(t) PROVE UNCHANGED Executor!vars
    <2>1. /\ status[t] \in {"owned", "detached"} /\ UNCHANGED <<queue, open, last, started>>
          /\ status' = IF status[t] = "owned" THEN [status EXCEPT ![t] = "destroying"]
                                              ELSE [status EXCEPT ![t] = "deleted"]
      BY <1>6 DEF Destroy, Deliver, Alive
    <2>2. status[t] = "detached" => t # last /\ ~Running(t)
      BY <1>0, <1>1 DEF QueueInv, PhaseInv, ActiveTask
    <2>3. RunningTask' = RunningTask
      <3>1. \A u \in Task : Running(u)' <=> Running(u)
        BY <1>0, <2>1, <2>2 DEF Running, TypeOK
      <3>. QED
        BY <3>1, SameCurrent
    <2>4. WaitingTasks' = WaitingTasks
      <3>1. last # NoTask => (status'[last] = "deleted" <=> status[last] = "deleted")
        BY <1>0, <2>1, <2>2 DEF TypeOK
      <3>. QED
        BY <2>1, <3>1 DEF WaitingIs
    <2>5. Seen' = Seen
      BY <1>0, <2>1 DEF TypeOK
    <2>. QED
      BY <2>1, <2>3, <2>4, <2>5 DEF Executor!vars
  <1>7. ASSUME NEW t \in Task, Dequeue(t) PROVE [Executor!Next]_(Executor!vars)
    <2>1. /\ status[t] = "destroying" /\ status' = [status EXCEPT ![t] = "deleted"]
          /\ UNCHANGED <<open, last, started>>
          /\ open \/ queue' = queue
      BY <1>7 DEF Dequeue
    <2>2. Seen' = Seen
      BY <1>0, <2>1 DEF TypeOK
    <2>3. \A u \in Task : Running(u)' <=> Running(u) /\ u # t
      BY <1>0, <2>1 DEF Running, TypeOK
    <2>4. started[t] => RunningTask = t /\ RunningTask' = NoTask
      <3>1. started[t] => Running(t) /\ \A u \in Task : ~Running(u)'
        BY <1>1, <2>1, <2>3 DEF Running
      <3>. QED
        BY <3>1 DEF CurrentIsRunning
    <2>5. ~started[t] => RunningTask' = RunningTask
      <3>1. ~started[t] => ~Running(t)
        BY DEF Running
      <3>. QED
        BY <2>3, <3>1, SameCurrent
    <2>6. CASE open
      <3>1. PICK k \in 1..Len(queue) : queue[k] = t
        BY <1>0, <2>1, <2>6 DEF QueueInv, InQueue, Contains
      <3>2. queue' = RemoveOne(queue, t)
        BY <1>7, <2>6, <3>1 DEF Dequeue, InQueue, Contains
      <3>3. queue \in Seq(Task) /\ queue # << >> /\ Len(queue) \in Nat /\ k \in Nat /\ k >= 1
        BY <1>0, <3>1 DEF TypeOK
      <3>4. /\ queue' = SubSeq(queue, 1, k - 1) \o SubSeq(queue, k + 1, Len(queue))
            /\ k = 1 => queue' = Tail(queue)
            /\ k # 1 => /\ Head(queue') = Head(queue) /\ queue' # << >>
                        /\ k - 1 \in 1..Len(Tail(queue))
                        /\ Tail(queue') = SubSeq(Tail(queue), 1, k - 2)
                                            \o SubSeq(Tail(queue), k, Len(Tail(queue)))
        <4>1. /\ queue \in Seq(Task) /\ k \in 1..Len(queue) /\ queue[k] = t
              /\ \A i, j \in 1..Len(queue) : queue[i] = queue[j] => i = j
          BY <1>0, <3>1, <3>3 DEF QueueInv
        <4>2. DEFINE q == RemoveOne(queue, t)
        <4>3. /\ q = SubSeq(queue, 1, k - 1) \o SubSeq(queue, k + 1, Len(queue))
              /\ k = 1 => q = Tail(queue)
              /\ k # 1 => /\ Head(q) = Head(queue) /\ q # << >>
                          /\ k - 1 \in 1..Len(Tail(queue))
                          /\ Tail(q) = SubSeq(Tail(queue), 1, k - 2)
                                         \o SubSeq(Tail(queue), k, Len(Tail(queue)))
          BY ONLY <4>1, RemoveOneAt, ZenonT(40)
        <4>. QED
          BY <3>2, <4>3
      <3>5. ASSUME k = 1, queue' # << >> PROVE Head(queue') = queue[2] /\ ~started[queue[2]]
        <4>1. 2 \in 1..Len(queue) /\ Head(queue') = queue[2]
          <5>1. Tail(queue) \in Seq(Task) /\ Len(Tail(queue)) = Len(queue) - 1
                /\ \A i \in 1..(Len(queue) - 1) : Tail(queue)[i] = queue[i + 1]
            BY <3>3, TailFacts
          <5>2. Len(queue) - 1 >= 1
            BY <3>3, <3>4, <3>5, <5>1
          <5>3. 1 \in 1..(Len(queue) - 1) /\ 1 + 1 = 2 /\ 2 \in 1..Len(queue)
            BY <3>3, <5>2
          <5>4. Tail(queue)[1] = queue[2]
            BY <5>1, <5>3
          <5>5. Head(queue') = Tail(queue)[1]
            BY <3>4, <3>5, <5>1, TailFacts
          <5>. QED
            BY <5>3, <5>4, <5>5
        <4>2. ~started[queue[2]]
          <5>1. queue[2] \in Task /\ queue[2] # queue[1]
            BY <1>0, <1>2, <3>3, <4>1 DEF QueueInv
          <5>2. status[queue[2]] # "deleted"
            BY <1>0, <4>1 DEF QueueInv
          <5>. QED
            BY <1>1, <2>6, <3>3, <5>1, <5>2 DEF ActiveTask, Running
        <4>. QED
          BY <4>1, <4>2
      <3>6. CASE k = 1 /\ started[t]
        <4>1. WaitingTasks = Tail(queue)
          BY <1>2, <2>6, <3>1, <3>3, <3>6 DEF WaitingIs
        <4>2. WaitingTasks' = queue'
          <5>1. CASE queue' = << >>
            BY <2>1, <2>6, <5>1 DEF WaitingIs
          <5>2. CASE queue' # << >>
            BY <2>1, <2>6, <3>6, <3>5, <5>2 DEF WaitingIs
          <5>. QED
            BY <5>1, <5>2
        <4>. QED
          BY <1>0, <2>1, <2>2, <2>4, <3>4, <3>6, <4>1, <4>2 DEF Executor!Retire, Executor!Next
      <3>7. CASE ~started[t] /\ (k = 1 \/ ~started[Head(queue)])
        <4>1. WaitingTasks = queue
          BY <1>2, <2>6, <3>1, <3>3, <3>7 DEF WaitingIs
        <4>2. WaitingTasks' = queue'
          <5>1. CASE queue' = << >>
            BY <2>1, <2>6, <5>1 DEF WaitingIs
          <5>2. CASE queue' # << >> /\ k # 1
            BY <2>1, <2>6, <3>4, <3>7, <5>2 DEF WaitingIs
          <5>3. CASE queue' # << >> /\ k = 1
            BY <2>1, <2>6, <3>5, <5>3 DEF WaitingIs
          <5>. QED
            BY <5>1, <5>2, <5>3
        <4>3. \E i \in 1..Len(WaitingTasks) :
                 WaitingTasks' = SubSeq(WaitingTasks, 1, i - 1)
                                   \o SubSeq(WaitingTasks, i + 1, Len(WaitingTasks))
          BY <3>1, <3>4, <4>1, <4>2
        <4>. QED
          BY <2>1, <2>2, <2>5, <3>7, <4>3 DEF Executor!Withdraw, Executor!Next
      <3>8. CASE k # 1 /\ started[Head(queue)]
        <4>1. ~started[t]
          <5>1. t # queue[1] /\ status[t] # "deleted"
            BY <1>0, <1>2, <2>1, <3>1, <3>3, <3>8 DEF QueueInv
          <5>. QED
            BY <1>1, <2>6, <3>3, <5>1 DEF ActiveTask, Running
        <4>2. WaitingTasks = Tail(queue) /\ WaitingTasks' = Tail(queue')
          BY <2>1, <2>6, <3>3, <3>4, <3>8 DEF WaitingIs
        <4>3. (k - 1) - 1 = k - 2 /\ (k - 1) + 1 = k
          BY <3>3
        <4>4. \E i \in 1..Len(WaitingTasks) :
                 WaitingTasks' = SubSeq(WaitingTasks, 1, i - 1)
                                   \o SubSeq(WaitingTasks, i + 1, Len(WaitingTasks))
          <5>1. k - 1 \in 1..Len(WaitingTasks)
            BY <3>4, <3>8, <4>2
          <5>. QED
            BY <3>4, <3>8, <4>2, <4>3, <5>1
        <4>. QED
          BY <2>1, <2>2, <2>5, <4>1, <4>4 DEF Executor!Withdraw, Executor!Next
      <3>9. started[t] => k = 1
        <4>1. status[t] # "deleted"
          BY <2>1
        <4>2. started[t] => t = queue[1]
          BY <1>1, <2>6, <3>3, <4>1 DEF ActiveTask, Running
        <4>. QED
          BY <1>0, <1>2, <3>1, <3>3, <4>2 DEF QueueInv
      <3>. QED
        BY <3>6, <3>7, <3>8, <3>9
    <2>7. CASE ~open /\ t # last
      <3>1. ~Running(t)
        BY <1>1, <2>7 DEF ActiveTask
      <3>2. RunningTask' = RunningTask
        BY <2>3, <3>1, SameCurrent
      <3>3. WaitingTasks' = WaitingTasks
        <4>1. last # NoTask => status'[last] = status[last]
          BY <1>0, <2>1, <2>7 DEF TypeOK
        <4>. QED
          BY <2>1, <2>7, <4>1 DEF WaitingIs
      <3>. QED
        BY <2>1, <2>2, <3>2, <3>3 DEF Executor!vars
    <2>8. CASE ~open /\ t = last
      <3>1. last # NoTask /\ status[last] # "deleted" /\ status'[last] = "deleted"
        BY <1>0, <2>1, <2>8 DEF TypeOK
      <3>2. CASE started[t]
        <4>1. WaitingTasks = << >> /\ WaitingTasks' = << >>
          BY <2>1, <2>8, <3>2 DEF WaitingIs
        <4>. QED
          BY <1>0, <2>1, <2>2, <2>4, <3>2, <4>1 DEF Executor!Retire, Executor!Next
      <3>3. CASE ~started[t]
        <4>1. WaitingTasks = <<t>> /\ WaitingTasks' = << >>
          BY <2>1, <2>8, <3>1, <3>3 DEF WaitingIs
        <4>2. /\ Len(<<t>>) = 1 /\ 1 \in 1..1
              /\ SubSeq(<<t>>, 1, 1 - 1) \o SubSeq(<<t>>, 1 + 1, 1) = << >>
          OBVIOUS
        <4>. QED
          BY <2>1, <2>2, <2>5, <3>3, <4>1, <4>2 DEF Executor!Withdraw, Executor!Next
      <3>. QED
        BY <3>2, <3>3
    <2>. QED
      BY <2>6, <2>7, <2>8
  <1>8. ASSUME Shutdown PROVE Executor!Close
    <2>1. /\ open /\ ~open' /\ queue' = << >> /\ started' = started /\ open' = FALSE
          /\ last' = IF queue = << >> THEN NoTask ELSE Head(queue)
          /\ status' = [t \in Task |->
                           IF InQueue(t) /\ t # Head(queue) /\ status[t] = "owned"
                             THEN "detached" ELSE status[t]]
      BY <1>0, <1>8 DEF Shutdown, PhaseInv
    <2>2. Seen' = Seen
      BY <1>0, <2>1 DEF TypeOK
    <2>3. RunningTask' = RunningTask
      <3>1. \A u \in Task : Running(u)' <=> Running(u)
        BY <1>0, <2>1 DEF Running, TypeOK
      <3>. QED
        BY <3>1, SameCurrent
    <2>4. WaitingTasks' = IF RunningTask = NoTask /\ WaitingTasks # << >>
                            THEN <<Head(WaitingTasks)>> ELSE << >>
      <3>1. CASE queue = << >>
        <4>1. WaitingTasks = << >> /\ WaitingTasks' = << >>
          BY <2>1, <3>1 DEF WaitingIs
        <4>. QED
          BY <4>1
      <3>2. CASE queue # << >>
        <4>1. /\ Head(queue) \in Task /\ last' = Head(queue) /\ Head(queue) # NoTask
              /\ status[Head(queue)] # "deleted"
              /\ status'[Head(queue)] = status[Head(queue)]
          BY <1>0, <1>2, <2>1, <3>2 DEF QueueInv
        <4>2. CASE started[Head(queue)]
          <5>1. RunningTask = Head(queue)
            BY <4>1, <4>2 DEF CurrentIsRunning, Running
          <5>2. WaitingTasks' = << >>
            BY <2>1, <4>1, <4>2 DEF WaitingIs
          <5>. QED
            BY <4>1, <5>1, <5>2
        <4>3. CASE ~started[Head(queue)]
          <5>1. RunningTask = NoTask
            BY <1>1, <1>2, <2>1, <3>2, <4>3 DEF CurrentIsRunning, Running, ActiveTask
          <5>2. WaitingTasks = queue /\ WaitingTasks' = <<Head(queue)>>
            BY <2>1, <3>2, <4>1, <4>3 DEF WaitingIs
          <5>. QED
            BY <3>2, <5>1, <5>2
        <4>. QED
          BY <4>2, <4>3
      <3>. QED
        BY <3>1, <3>2
    <2>. QED
      BY <2>1, <2>2, <2>3, <2>4 DEF Executor!Close
  <1>9. ASSUME UNCHANGED <<queue, open, last, started, status>>
        PROVE  UNCHANGED Executor!vars
    BY <1>9, InvisibleStep
  <1>10. CASE UNCHANGED vars
    BY <1>9, <1>10 DEF vars
  <1>11. CASE Client
    <2>1. CASE \E t \in Task : Enqueue(t) \/ RefuseForeign(t) \/ RefuseClosed(t)
      BY <1>3, <1>4, <2>1 DEF RefuseForeign, RefuseClosed, Executor!Next
    <2>2. CASE (\E t \in Task : Abandon(t)) \/ ShutdownReturn
      BY <1>9, <2>2 DEF Abandon, ShutdownReturn
    <2>3. CASE Shutdown
      BY <1>8, <2>3 DEF Executor!Next
    <2>. QED
      BY <1>11, <2>1, <2>2, <2>3 DEF Client
  <1>12. CASE Background
    <2>1. ASSUME NEW t \in Task, TaskStep(t) PROVE [Executor!Next]_(Executor!vars)
      <3>1. CASE Run(t)
        BY <1>5, <3>1 DEF Executor!Next
      <3>2. CASE RunReturns(t) \/ AsyncFinished(t) \/ DeleteLater(t)
        BY <1>9, <3>2 DEF RunReturns, AsyncFinished, DeleteLater
      <3>3. CASE Destroy(t)
        BY <1>6, <3>3
      <3>4. CASE Dequeue(t)
        BY <1>7, <3>4
      <3>. QED
        BY <2>1, <3>1, <3>2, <3>3, <3>4 DEF TaskStep
    <2>2. CASE Discard \/ PassDone \/ LeaveLoop \/ ThreadOver
      BY <1>9, <2>2 DEF Discard, PassDone, LeaveLoop, ThreadOver
    <2>. QED
      BY <1>12, <2>1, <2>2 DEF Background
  <1>. QED
    BY <1>10, <1>11, <1>12 DEF Next

\* Seen from outside, for any number of tasks, the queue is an executor that
\* runs the accepted tasks one by one in their order: the background thread,
\* the posted calls and the destructor's races are invisible.
THEOREM QueueIsExecutor == Spec => ImplementsExecutor
  <1>1. Init => Executor!Init
    <2>. SUFFICES ASSUME Init PROVE Executor!Init
      OBVIOUS
    <2>1. open /\ queue = << >> /\ \A t \in Task : ~Running(t)
      BY DEF Init, Running
    <2>2. RunningTask = NoTask
      BY <2>1 DEF RunningTask
    <2>3. WaitingTasks = << >>
      BY <2>1, WaitingFacts DEF WaitingIs
    <2>4. {t \in Task : status[t] # "new"} = {}
      BY DEF Init
    <2>. QED
      BY <2>2, <2>3, <2>4 DEF Init, Executor!Init
  <1>2. IInv => CurrentIsRunning /\ WaitingIs
    BY CurrentFacts, WaitingFacts
  <1>3. IInv /\ CurrentIsRunning /\ CurrentIsRunning' /\ WaitingIs /\ WaitingIs' /\ [Next]_vars
            => [Executor!Next]_(Executor!vars)
    BY ExecutorStep
  <1>. QED
    BY <1>1, <1>2, <1>3, Invariance, PTL DEF Spec, Executor!Spec, ImplementsExecutor

=============================================================================
