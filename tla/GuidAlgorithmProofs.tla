------------------------- MODULE GuidAlgorithmProofs -------------------------
(***************************************************************************)
(* Proofs about GuidAlgorithm, for every set of engines.  The argument:    *)
(* as long as the hash is not ready nothing was taken out of the queue of  *)
(* closures, so that a closure which is written then is still to come, and *)
(* notifyReady() does not stop before the end of the queue.  Without an    *)
(* overlap of two calls nothing that was written is overwritten.           *)
(***************************************************************************)
EXTENDS GuidAlgorithm, SequenceFacts

TaskState == {"none", "queued", "called", "enqueuing", "waiting", "done", "gone"}

TypeOK ==
    /\ forever \in BOOLEAN
    /\ card \subseteq {"status", "number"}
    /\ msisdn \in {"none", "card"} /\ hash \in {"none", "card"}
    /\ ready \in BOOLEAN
    /\ closures \in Seq(Engine)
    /\ size \in 0..Len(closures)
    /\ first \in Nat
    /\ timers \subseteq Engine
    /\ main \in {"loop", "notifying", "calling", "destroying"}
    /\ awaited \in Engine \cup {Nobody}
    /\ task \in [Engine -> TaskState]
    /\ end \in [Engine -> Nat]
    /\ \A e \in Engine : end[e] <= Len(closures)
    /\ raced \in [Engine -> BOOLEAN]

\* Nobody is notified before the hash is ready.
ReadyInv == ~ready => first = 0 /\ timers = {} /\ main # "notifying"

\* Who can lose a wake-up: only a task whose closure was written after the
\* answer had come, or overwritten by another thread's.  Nothing in the code
\* prevents either.
NoWakeUpLost ==
    \A e \in Engine :
        /\ task[e] = "waiting" /\ ~raced[e] => ToBeCalled(e)
        /\ task[e] = "called" => ready

IInv == TypeOK /\ ReadyInv /\ NoWakeUpLost

\* A closure that is written lies in the queue, and the others keep their
\* places, but for those that the queue's new end cuts off or overwrites.
LEMMA EnqueueFacts ==
    ASSUME TypeOK, NEW e \in Engine, Enqueue(e)
    PROVE  /\ closures' \in Seq(Engine)
           /\ Len(closures') >= Len(closures)
           /\ size' \in 1..Len(closures')
           /\ closures'[size'] = e
           /\ \A i \in 1..size : i < size' => closures'[i] = closures[i]
           /\ \A i \in 1..size : i >= size' => raced'[closures[i]]
           /\ \A x \in Engine : raced[x] => raced'[x]
  <1>1. /\ Len(closures) \in Nat /\ size \in Nat /\ size <= Len(closures)
        /\ end[e] \in Nat /\ end[e] <= Len(closures)
        /\ \A i \in 1..Len(closures) : closures[i] \in Engine
    BY DEF TypeOK
  <1>2. size' = end[e] + 1
    BY DEF Enqueue
  <1>3. CASE end[e] = Len(closures)
    <2>1. closures' = Append(closures, e)
      BY <1>3 DEF Enqueue
    <2>. QED
      BY <1>1, <1>2, <1>3, <2>1, AppendFacts DEF Enqueue, TypeOK
  <1>4. CASE end[e] # Len(closures)
    <2>1. closures' = [closures EXCEPT ![end[e] + 1] = e]
      BY <1>4 DEF Enqueue
    <2>2. end[e] + 1 \in 1..Len(closures)
      BY <1>1, <1>4
    <2>3. /\ closures' \in Seq(Engine) /\ Len(closures') = Len(closures)
          /\ closures'[end[e] + 1] = e
          /\ \A i \in 1..Len(closures) : i # end[e] + 1 => closures'[i] = closures[i]
      BY <1>1, <2>1, <2>2 DEF TypeOK
    <2>4. \A i \in 1..size : i >= size' => raced'[closures[i]]
      BY <1>1, <1>2 DEF Enqueue
    <2>5. \A x \in Engine : raced[x] => raced'[x]
      BY DEF Enqueue
    <2>. QED
      BY <1>1, <1>2, <2>2, <2>3, <2>4, <2>5
  <1>. QED
    BY <1>3, <1>4

-----------------------------------------------------------------------------
(* The steps. *)

\* A step of the main thread or of a client that leaves the closures alone, and
\* lets no task wait, keeps the invariant.
LEMMA QuietStep ==
    ASSUME IInv, UNCHANGED calls, TypeOK',
           ready' = ready, main' = main \/ (main # "notifying" /\ main' # "notifying"),
           \A e \in Engine : task'[e] \in {"waiting", "called"} => task'[e] = task[e]
    PROVE  IInv'
  <1>1. TypeOK /\ ReadyInv /\ NoWakeUpLost
    BY DEF IInv
  <1>2. ready \in BOOLEAN /\ ready' \in BOOLEAN
    BY <1>1 DEF TypeOK
  <1>3. ReadyInv'
    BY <1>1, <1>2 DEF ReadyInv, calls
  <1>4. NoWakeUpLost'
    <2>. SUFFICES ASSUME NEW e \in Engine
                  PROVE  /\ task'[e] = "waiting" /\ ~raced'[e] => ToBeCalled(e)'
                         /\ task'[e] = "called" => ready'
      BY DEF NoWakeUpLost, ToBeCalled
    <2>1. task'[e] = "waiting" /\ ~raced'[e] => ToBeCalled(e)
      BY <1>1 DEF NoWakeUpLost, ToBeCalled, calls
    <2>2. ToBeCalled(e) => ToBeCalled(e)'
      BY <1>1, <1>2 DEF ToBeCalled, ReadyInv, calls
    <2>3. task'[e] = "called" => ready
      BY <1>1 DEF NoWakeUpLost, ToBeCalled
    <2>. QED
      BY <2>1, <2>2, <2>3
  <1>. QED
    BY <1>3, <1>4 DEF IInv

\* The answer of the SIM card sets notifyReady() to work.
LEMMA CompleteStep ==
    ASSUME IInv, UNCHANGED <<calls, task>>, TypeOK',
           (ready' = ready /\ main' = main) \/ (ready' = TRUE /\ main' = "notifying")
    PROVE  IInv'
  <1>1. TypeOK /\ ReadyInv /\ NoWakeUpLost
    BY DEF IInv
  <1>. QED
    BY <1>1 DEF IInv, ReadyInv, NoWakeUpLost, ToBeCalled, calls

\* notifyReady() takes out a closure or comes to the end.
LEMMA NotifyStep == IInv /\ NotifyReady => IInv'
  <1>. SUFFICES ASSUME IInv, NotifyReady PROVE IInv'
    OBVIOUS
  <1>1. /\ TypeOK /\ ReadyInv /\ NoWakeUpLost
        /\ Len(closures) \in Nat /\ size \in Nat /\ size <= Len(closures) /\ first \in Nat
        /\ \A i \in 1..Len(closures) : closures[i] \in Engine
    BY DEF IInv, TypeOK
  <1>2. main = "notifying" /\ ready /\ UNCHANGED <<ready, closures, size, end, raced, task>>
    BY <1>1 DEF NotifyReady, ReadyInv, simCard
  <1>3. CASE first >= size
    <2>1. main' = "loop" /\ UNCHANGED <<first, timers>>
      BY <1>3 DEF NotifyReady
    <2>2. TypeOK'
      BY <1>1, <2>1 DEF NotifyReady, simCard, TypeOK
    <2>3. \A e \in Engine : ToBeCalled(e) => e \in timers
      BY <1>1, <1>3 DEF ToBeCalled
    <2>. QED
      BY <1>1, <1>2, <2>1, <2>2, <2>3 DEF IInv, ReadyInv, NoWakeUpLost, ToBeCalled
  <1>4. CASE ~(first >= size)
    <2>1. /\ first' = first + 1 /\ timers' = timers \cup {closures[first + 1]} /\ main' = main
          /\ first + 1 \in 1..Len(closures)
      BY <1>1, <1>4 DEF NotifyReady
    <2>2. TypeOK'
      BY <1>1, <2>1 DEF NotifyReady, simCard, TypeOK
    <2>3. ASSUME NEW e \in Engine, ToBeCalled(e) PROVE ToBeCalled(e)'
      <3>1. CASE e \in timers
        BY <2>1, <3>1 DEF ToBeCalled
      <3>2. CASE e \notin timers
        <4>1. PICK i \in (first + 1)..size : closures[i] = e
          BY <2>3, <3>2 DEF ToBeCalled
        <4>2. i = first + 1 \/ i \in (first + 1 + 1)..size
          BY <1>1, <4>1
        <4>. QED
          BY <1>2, <2>1, <4>1, <4>2 DEF ToBeCalled
      <3>. QED
        BY <3>1, <3>2
    <2>. QED
      BY <1>1, <1>2, <2>1, <2>2, <2>3 DEF IInv, ReadyInv, NoWakeUpLost, ToBeCalled
  <1>. QED
    BY <1>3, <1>4

\* A timer of the main thread fires only after the hash was made.
LEMMA TimerStep == ASSUME IInv, NEW e \in Engine, TimerFires(e) PROVE IInv'
  <1>1. TypeOK /\ ReadyInv /\ NoWakeUpLost
    BY DEF IInv
  <1>2. /\ main = "loop" /\ ready /\ timers' = timers \ {e}
        /\ task' = [task EXCEPT ![e] = IF task[e] = "waiting" THEN "called" ELSE task[e]]
        /\ UNCHANGED <<ready, closures, size, first, end, raced, main>>
    BY <1>1 DEF TimerFires, ReadyInv, simCard
  <1>3. TypeOK'
    BY <1>1, <1>2 DEF TimerFires, simCard, TypeOK, TaskState
  <1>4. NoWakeUpLost'
    <2>1. task'[e] # "waiting" /\ \A x \in Engine : x # e => task'[x] = task[x]
      BY <1>1, <1>2 DEF TypeOK
    <2>. QED
      BY <1>1, <1>2, <2>1 DEF NoWakeUpLost, ToBeCalled
  <1>. QED
    BY <1>1, <1>2, <1>3, <1>4 DEF IInv, ReadyInv

\* The closure of a task that enqueues it in time is still to come.
LEMMA EnqueueStep == ASSUME IInv, NEW e \in Engine, Enqueue(e) PROVE IInv'
  <1>1. TypeOK /\ ReadyInv /\ NoWakeUpLost
    BY DEF IInv
  <1>2. /\ closures' \in Seq(Engine)
        /\ Len(closures') >= Len(closures)
        /\ size' \in 1..Len(closures')
        /\ closures'[size'] = e
        /\ \A i \in 1..size : i < size' => closures'[i] = closures[i]
        /\ \A i \in 1..size : i >= size' => raced'[closures[i]]
        /\ \A x \in Engine : raced[x] => raced'[x]
    BY <1>1, EnqueueFacts
  <1>3. /\ task' = [task EXCEPT ![e] = "waiting"]
        /\ raced' \in [Engine -> BOOLEAN] /\ (ready => raced'[e])
        /\ UNCHANGED <<forever, card, msisdn, hash, ready, first, timers, end, main, awaited>>
    BY <1>1 DEF Enqueue, simCard, TypeOK
  <1>4. /\ Len(closures) \in Nat /\ Len(closures') \in Nat /\ size \in Nat /\ size' \in Nat
        /\ size <= Len(closures) /\ size' <= Len(closures') /\ first \in Nat
    BY <1>1, <1>2 DEF TypeOK
  <1>5. TypeOK'
    <2>1. \A x \in Engine : end'[x] <= Len(closures')
      BY <1>1, <1>2, <1>3, <1>4 DEF TypeOK
    <2>2. task' \in [Engine -> TaskState]
      BY <1>1, <1>3 DEF TypeOK, TaskState
    <2>. QED
      BY <1>1, <1>2, <1>3, <1>4, <2>1, <2>2 DEF TypeOK
  <1>6. ASSUME NEW x \in Engine, task'[x] = "waiting", ~raced'[x] PROVE ToBeCalled(x)'
    <2>1. CASE x = e
      <3>1. ~ready /\ first = 0
        BY <1>1, <1>3, <1>6, <2>1 DEF ReadyInv
      <3>2. size' \in (first' + 1)..size'
        BY <1>2, <1>3, <1>4, <3>1
      <3>. QED
        BY <1>2, <1>3, <2>1, <3>1, <3>2 DEF ToBeCalled
    <2>2. CASE x # e
      <3>1. ToBeCalled(x)
        BY <1>1, <1>2, <1>3, <1>6, <2>2 DEF NoWakeUpLost, ToBeCalled, TypeOK
      <3>2. CASE x \in timers
        BY <1>3, <3>2 DEF ToBeCalled
      <3>3. CASE x \notin timers
        <4>1. PICK i \in (first + 1)..size : closures[i] = x
          BY <3>1, <3>3 DEF ToBeCalled
        <4>2. i \in 1..size /\ i < size'
          BY <1>2, <1>4, <1>6, <4>1
        <4>3. closures'[i] = x /\ i \in (first' + 1)..size'
          BY <1>2, <1>3, <1>4, <4>1, <4>2
        <4>. QED
          BY <1>3, <3>1, <3>3, <4>3 DEF ToBeCalled
      <3>. QED
        BY <3>2, <3>3
    <2>. QED
      BY <2>1, <2>2
  <1>7. NoWakeUpLost'
    <2>1. \A x \in Engine : task'[x] = "called" => ready'
      BY <1>1, <1>3 DEF NoWakeUpLost, ToBeCalled, TypeOK
    <2>. QED
      BY <1>6, <2>1 DEF NoWakeUpLost, ToBeCalled
  <1>. QED
    BY <1>1, <1>3, <1>5, <1>7 DEF IInv, ReadyInv

\* callWhenReady() calls back at once only when the hash is made.
LEMMA CallWhenReadyStep == ASSUME IInv, NEW e \in Engine, CallWhenReady(e) PROVE IInv'
  <1>1. TypeOK /\ ReadyInv /\ NoWakeUpLost
    BY DEF IInv
  <1>2. /\ task' = [task EXCEPT ![e] = IF ready THEN "called" ELSE "enqueuing"]
        /\ end' = [end EXCEPT ![e] = size]
        /\ UNCHANGED <<ready, closures, size, first, timers, raced, main>>
    BY DEF CallWhenReady, simCard
  <1>3. TypeOK'
    <2>1. size \in Nat /\ size <= Len(closures)
      BY <1>1 DEF TypeOK
    <2>2. end' \in [Engine -> Nat] /\ \A x \in Engine : end'[x] <= Len(closures)
      BY <1>1, <1>2, <2>1 DEF TypeOK
    <2>3. task' \in [Engine -> TaskState]
      BY <1>1, <1>2 DEF TypeOK, TaskState
    <2>. QED
      BY <1>1, <1>2, <2>2, <2>3 DEF CallWhenReady, simCard, TypeOK
  <1>4. NoWakeUpLost'
    <2>1. task'[e] # "waiting" /\ (task'[e] = "called" => ready)
          /\ \A x \in Engine : x # e => task'[x] = task[x]
      BY <1>1, <1>2 DEF TypeOK
    <2>. QED
      BY <1>1, <1>2, <2>1 DEF NoWakeUpLost, ToBeCalled
  <1>. QED
    BY <1>1, <1>2, <1>3, <1>4 DEF IInv, ReadyInv

\* The invariant holds of the initial states.
LEMMA InvInit == Init => IInv
  <1>. SUFFICES ASSUME Init PROVE IInv
    OBVIOUS
  <1>1. closures = << >> /\ Len(closures) = 0 /\ << >> \in Seq(Engine)
    BY DEF Init
  <1>2. TypeOK
    <2>1. /\ task \in [Engine -> TaskState] /\ end \in [Engine -> Nat]
          /\ raced \in [Engine -> BOOLEAN] /\ \A e \in Engine : end[e] = 0
      BY DEF Init, TaskState
    <2>2. size \in 0..Len(closures) /\ closures \in Seq(Engine)
      BY <1>1 DEF Init
    <2>3. \A e \in Engine : end[e] <= Len(closures)
      <3>1. \A n : n = 0 => n <= 0
        OBVIOUS
      <3>. QED
        BY <1>1, <2>1, <3>1, Zenon
    <2>4. card \subseteq {"status", "number"} /\ timers \subseteq Engine /\ first \in Nat
      BY DEF Init
    <2>5. /\ forever \in BOOLEAN /\ ready \in BOOLEAN
          /\ msisdn \in {"none", "card"} /\ hash \in {"none", "card"}
          /\ main \in {"loop", "notifying", "calling", "destroying"}
          /\ awaited \in Engine \cup {Nobody}
      BY DEF Init
    <2>. QED
      BY <2>1, <2>2, <2>3, <2>4, <2>5 DEF TypeOK
  <1>3. ReadyInv /\ NoWakeUpLost
    BY DEF Init, ReadyInv, NoWakeUpLost, ToBeCalled
  <1>. QED
    BY <1>2, <1>3 DEF IInv

\* The invariant is kept by each step.
LEMMA InvNext == IInv /\ [Next]_vars => IInv'
  <1>. SUFFICES ASSUME IInv, [Next]_vars PROVE IInv'
    OBVIOUS
  <1>0. TypeOK
    BY DEF IInv
  <1>1. CASE SimStatusChanged
    <2>1. TypeOK' /\ UNCHANGED <<calls, task>> /\ ready \in BOOLEAN
      BY <1>0, <1>1 DEF SimStatusChanged, Complete, TypeOK, calls, simCard
    <2>2. (ready' = ready /\ main' = main) \/ (ready' = TRUE /\ main' = "notifying")
      BY <1>1 DEF SimStatusChanged, Complete
    <2>. QED
      BY <1>0, <1>1, <2>1, <2>2, CompleteStep
  <1>2. CASE NumberRead
    <2>1. TypeOK' /\ UNCHANGED <<calls, task>> /\ ready \in BOOLEAN
      BY <1>0, <1>2 DEF NumberRead, Complete, TypeOK, calls, simCard
    <2>2. ready' = TRUE /\ main' = "notifying"
      BY <1>2 DEF NumberRead, Complete
    <2>. QED
      BY <1>0, <1>2, <2>1, <2>2, CompleteStep
  <1>3. CASE NotifyReady
    BY <1>3, NotifyStep
  <1>4. ASSUME NEW e \in Engine, TimerFires(e) PROVE IInv'
    BY <1>4, TimerStep
  <1>5. CASE CallReturns
    <2>1. TypeOK' /\ UNCHANGED <<calls, task, ready>> /\ main # "notifying" /\ main' # "notifying"
      BY <1>0, <1>5 DEF CallReturns, TypeOK, calls, simCard
    <2>. QED
      BY <2>1, QuietStep
  <1>6. CASE DestroyReturns
    <2>1. /\ TypeOK' /\ UNCHANGED <<calls, ready>> /\ main # "notifying" /\ main' # "notifying"
          /\ task' = [task EXCEPT ![awaited] = "gone"]
      BY <1>0, <1>6 DEF DestroyReturns, TypeOK, TaskState, calls, simCard
    <2>2. \A e \in Engine : task'[e] = task[e] \/ task'[e] = "gone"
      BY <1>0, <2>1 DEF TypeOK
    <2>. QED
      BY <2>1, <2>2, QuietStep
  <1>7. ASSUME NEW e \in Engine, Ask(e) PROVE IInv'
    <2>1. TypeOK' /\ UNCHANGED <<calls, ready, main>>
      BY <1>0, <1>7 DEF Ask, TypeOK, TaskState, calls, simCard
    <2>2. \A x \in Engine : task'[x] = task[x] \/ task'[x] = "queued"
      BY <1>0, <1>7 DEF Ask, TypeOK
    <2>. QED
      BY <2>1, <2>2, QuietStep
  <1>8. ASSUME NEW e \in Engine, CallWhenReady(e) PROVE IInv'
    BY <1>8, CallWhenReadyStep
  <1>9. ASSUME NEW e \in Engine, Enqueue(e) PROVE IInv'
    BY <1>9, EnqueueStep
  <1>10. ASSUME NEW e \in Engine, ResolverReady(e) PROVE IInv'
    <2>1. TypeOK' /\ UNCHANGED <<calls, ready, main>>
      BY <1>0, <1>10 DEF ResolverReady, TypeOK, TaskState, calls, simCard
    <2>2. \A x \in Engine : task'[x] = task[x] \/ task'[x] = "done"
      BY <1>0, <1>10 DEF ResolverReady, TypeOK
    <2>. QED
      BY <2>1, <2>2, QuietStep
  <1>11. ASSUME NEW e \in Engine, Call(e) PROVE IInv'
    <2>1. TypeOK' /\ UNCHANGED <<calls, ready>> /\ main # "notifying" /\ main' # "notifying"
      BY <1>0, <1>11 DEF Call, TypeOK, TaskState, calls, simCard
    <2>2. \A x \in Engine : task'[x] = task[x] \/ task'[x] = "queued"
      BY <1>0, <1>11 DEF Call, TypeOK
    <2>. QED
      BY <2>1, <2>2, QuietStep
  <1>12. ASSUME NEW e \in Engine, Destroy(e) PROVE IInv'
    <2>1. TypeOK' /\ UNCHANGED <<calls, ready>> /\ main # "notifying" /\ main' # "notifying"
      BY <1>0, <1>12 DEF Destroy, TypeOK, TaskState, calls, simCard
    <2>2. \A x \in Engine : task'[x] = task[x] \/ task'[x] = "done"
      BY <1>0, <1>12 DEF Destroy, TypeOK
    <2>. QED
      BY <2>1, <2>2, QuietStep
  <1>13. CASE UNCHANGED vars
    BY <1>13 DEF vars, calls, simCard, IInv, TypeOK, ReadyInv, NoWakeUpLost, ToBeCalled
  <1>. QED
    BY <1>1, <1>2, <1>3, <1>4, <1>5, <1>6, <1>7, <1>8, <1>9, <1>10, <1>11, <1>12, <1>13
    DEF Next, Main, Thread, Client

-----------------------------------------------------------------------------
(* The theorems. *)

\* With a lock each thread writes its closure where it read the end of the array.
EndInv ==
    \A e \in Engine : ~raced[e] /\ (task[e] = "enqueuing" => end[e] = size)

\* While the threads keep out of each other's way nobody races.
LEMMA EndNext ==
    ASSUME IInv, EndInv, Serialised, [Next]_vars
    PROVE  EndInv'
  <1>1. TypeOK
    BY DEF IInv
  <1>2. ASSUME NEW e \in Engine, Enqueue(e) PROVE EndInv'
    <2>1. /\ task[e] = "enqueuing" /\ ~ready /\ end[e] = size
          /\ \A x \in Engine : x # e => task[x] # "enqueuing"
      BY <1>2 DEF Enqueue, Serialised, EndInv
    <2>2. {closures[i] : i \in (end[e] + 1)..size} = {}
      BY <1>1, <2>1 DEF TypeOK
    <2>3. \A x \in Engine : ~raced'[x]
      BY <1>2, <2>1, <2>2 DEF Enqueue, EndInv
    <2>4. \A x \in Engine : task'[x] # "enqueuing"
      BY <1>1, <1>2, <2>1 DEF Enqueue, TypeOK
    <2>. QED
      BY <2>3, <2>4 DEF EndInv
  <1>3. ASSUME NEW e \in Engine, CallWhenReady(e) PROVE EndInv'
    <2>1. /\ raced' = raced /\ size' = size /\ end'[e] = size
          /\ \A x \in Engine : x # e => task'[x] = task[x] /\ end'[x] = end[x]
      BY <1>1, <1>3 DEF CallWhenReady, TypeOK
    <2>. QED
      BY <2>1 DEF EndInv
  <1>4. ASSUME UNCHANGED <<raced, size, end>>,
               \A x \in Engine : task'[x] = "enqueuing" => task[x] = "enqueuing"
        PROVE  EndInv'
    BY <1>4 DEF EndInv
  <1>5. CASE SimStatusChanged \/ NumberRead \/ NotifyReady \/ CallReturns
    BY <1>4, <1>5 DEF SimStatusChanged, NumberRead, NotifyReady, CallReturns, calls
  <1>6. CASE DestroyReturns
    <2>1. UNCHANGED calls /\ task' = [task EXCEPT ![awaited] = "gone"]
      BY <1>6 DEF DestroyReturns
    <2>2. \A x \in Engine : task'[x] = task[x] \/ task'[x] = "gone"
      BY <1>1, <2>1 DEF TypeOK
    <2>. QED
      BY <1>4, <2>1, <2>2 DEF calls
  <1>7. ASSUME NEW e \in Engine,
               TimerFires(e) \/ ResolverReady(e) \/ Ask(e) \/ Call(e) \/ Destroy(e)
        PROVE  EndInv'
    <2>1. UNCHANGED <<raced, size, end>>
      BY <1>7 DEF TimerFires, ResolverReady, Ask, Call, Destroy, calls
    <2>2. \A x \in Engine : task'[x] \in {task[x], "called", "done", "queued"}
      BY <1>1, <1>7 DEF TimerFires, ResolverReady, Ask, Call, Destroy, TypeOK
    <2>. QED
      BY <1>4, <2>1, <2>2
  <1>8. CASE UNCHANGED vars
    BY <1>8, <1>4 DEF vars, calls
  <1>. QED
    BY <1>2, <1>3, <1>5, <1>6, <1>7, <1>8 DEF Next, Main, Thread, Client

\* Of any number of engines, no task waits in vain for a GUID that is there, if
\* callWhenReady() does not overlap with another one or with the answer of the
\* SIM card.  The code has no lock that would see to it.
THEOREM LockIsEnough == Spec => LockSuffices
  <1>1. Init => IInv /\ EndInv
    <2>1. Init => EndInv
      BY DEF Init, EndInv
    <2>. QED
      BY <2>1, InvInit
  <1>2. IInv /\ EndInv /\ Serialised /\ [Next]_vars => (IInv /\ EndInv)'
    BY InvNext, EndNext
  <1>3. IInv /\ EndInv => WaitersAreTold
    BY DEF IInv, EndInv, NoWakeUpLost, WaitersAreTold
  <1>. QED
    BY <1>1, <1>2, <1>3, PTL DEF Spec, LockSuffices

\* As the code is, a wake-up can be lost in the race only: of any number of
\* engines, a task that waits will be called unless its own closure was written
\* after the answer had come, or overwritten.  That this does not happen is not
\* said: it does.
THEOREM OnlyRacesLoseWakeUps == Spec => []NoWakeUpLost
  <1>1. Init => IInv
    BY InvInit
  <1>2. IInv /\ [Next]_vars => IInv'
    BY InvNext
  <1>3. IInv => NoWakeUpLost
    BY DEF IInv
  <1>. QED
    BY <1>1, <1>2, <1>3, PTL DEF Spec

=============================================================================
