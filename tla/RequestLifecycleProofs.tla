----------------------- MODULE RequestLifecycleProofs -----------------------
(***************************************************************************)
(* Proofs about RequestLifecycle, for every set of requests and addresses  *)
(* and every choice of dependencies.  The argument has four parts, each an *)
(* invariant that the steps preserve by itself or with an earlier one: the *)
(* tables with the connections of the tasks, cancellation, the callers of  *)
(* the synchronous API, and the order of the queues.                       *)
(***************************************************************************)
EXTENDS RequestLifecycle, SequenceFacts

\* A task is connected to one request at most, the one that its worker will
\* report into if there is any, and neither finished() was emitted by it nor
\* was it deleted.  The task of an active request's worker is connected.
LinkInv ==
    /\ \A r \in Request : state[r] = "active" => workerOf[r] \in links[r]
    /\ \A r \in Request : \A w \in links[r] :
          /\ Live(w) /\ ~finished[w]
          /\ requestOf[w] \in {r, None}
          /\ state[r] # "gone"
    /\ \A r, s \in Request : \A w \in Worker : w \in links[r] /\ w \in links[s] => r = s

\* A worker at a new address has not been canceled.
FreshInv ==
    \A w \in Worker : phase[w] = "free" =>
        ~canceled[w] /\ cancelable[w] /\ ~wrote[w] /\ ~finished[w]

TablesInv == TablesMirror /\ LinkInv /\ FreshInv

\* cancel() and turnIrreversible() exclude each other; and a worker
\* that a promise was made for is canceled when exec() looks.
CancelInv ==
    /\ \A w \in Worker : canceled[w] => cancelable[w]
    /\ \A w \in Worker : wrote[w] \/ phase[w] = "writing" => ~cancelable[w]
    /\ \A w \in Worker : writes[w] /\ phase[w] \in {"ran", "completed"} =>
          canceled[w] \/ ~cancelable[w]
    /\ \A w \in Worker : writes[w] /\ phase[w] = "completed" => ~canceled[w]
    /\ \A r \in Request : workerOf[r] # None => (writes[workerOf[r]] <=> r \in WriteRequest)
    /\ \A r \in WriteRequest : promised[r] /\ workerOf[r] # None => canceled[workerOf[r]]
    /\ \A r \in WriteRequest : promised[r] => state[r] # "finished"

\* As long as runSyncRequest() is in progress, its request is active with the
\* worker whose task it waits for, or was reported; a signal means the latter.
SyncInv ==
    /\ \A r \in Request : caller[r] # "idle" => r \in SyncRequest
    /\ \A r \in Request : caller[r] \in {"idle", "started"} => saw[r] = "nothing"
    /\ \A r \in Request : caller[r] \in {"started", "attached", "waiting"} =>
          \/ state[r] = "active" /\ workerOf[r] = handle[r]
          \/ state[r] \in {"finished", "canceled"}
    /\ \A r \in Request : caller[r] \in {"attached", "waiting"} /\ saw[r] # "nothing" =>
          state[r] \in {"finished", "canceled"}

\* Tasks are queued once and in one queue, dependencies once and for all.
PlaceInv ==
    /\ \A q \in Queue : Distinct(queue[q])
    /\ \A q \in Queue : \A w \in Worker : Pending(w, queue[q]) => Live(w)
    /\ \A p, q \in Queue : \A w \in Worker : Pending(w, queue[p]) /\ Pending(w, queue[q]) => p = q
    /\ \A q \in Queue : \A d \in Dependency : Pending(d, queue[q]) => d \in satisfied
    /\ \A d \in satisfied \ ready : \E q \in Queue : Pending(d, queue[q])

\* A worker that runs has nothing ahead of it; what a worker needs and has not
\* run is ahead of it, or in the other queue.
OrderInv ==
    /\ \A q \in Queue : \A w \in Worker : Pending(w, queue[q]) /\ phase[w] # "queued" =>
          \A x \in Worker \cup Dependency : ~Before(x, w, queue[q])
    /\ \A q \in Queue : \A w \in Worker : Pending(w, queue[q]) =>
          \A d \in needs[w] \ ready :
              \/ Before(d, w, queue[q])
              \/ \E p \in Queue \ {q} : Pending(d, queue[p])

QueueInv == PlaceInv /\ OrderInv

IInv == TypeOK /\ TablesInv /\ CancelInv /\ SyncInv /\ QueueInv

-----------------------------------------------------------------------------
(* The queues. *)

\* Dependencies are no workers, and the two queues are different.
LEMMA Kinds ==
    /\ \A w \in Worker : w \notin Dependency /\ w # None
    /\ \A r \in Request : QueueOf(r) \in Queue /\ Needs[r] \subseteq Dependency /\ r # None
  BY RequestAssumption DEF QueueOf, Queue

\* MissingTask() of a dependency that is not queued appends it, or nothing.
LEMMA MissingTaskFacts ==
    ASSUME NEW S, NEW s \in Seq(S), Distinct(s), NEW r \in Request, NEW d \in S,
           d \notin satisfied => ~Pending(d, s)
    PROVE  /\ s \o MissingTask(r, d) \in Seq(S)
           /\ Distinct(s \o MissingTask(r, d))
           /\ \A x : Pending(x, s \o MissingTask(r, d)) <=>
                       Pending(x, s) \/ (x = d /\ d \in Needs[r] \ satisfied)
           /\ \A x, y : Before(x, y, s) => Before(x, y, s \o MissingTask(r, d))
           /\ \A x, y : Before(x, y, s \o MissingTask(r, d)) => Before(x, y, s) \/ y = d
  <1>1. CASE d \in Needs[r] \ satisfied
    <2>1. s \o MissingTask(r, d) = Append(s, d)
      BY <1>1 DEF MissingTask
    <2>. QED
      BY <1>1, <2>1, AppendFacts, AppendPending, AppendOrder
  <1>2. CASE d \notin Needs[r] \ satisfied
    <2>1. s \o MissingTask(r, d) = s
      BY <1>2 DEF MissingTask
    <2>. QED
      BY <1>2, <2>1
  <1>. QED
    BY <1>1, <1>2

\* startRequestImpl() queues the missing dependencies behind what was there.
LEMMA EnqueueFacts ==
    ASSUME TypeOK, PlaceInv, NEW r \in Request
    PROVE  /\ EnqueueDependencies(r) \in Seq(Worker \cup Dependency)
           /\ Distinct(EnqueueDependencies(r))
           /\ \A x : Pending(x, EnqueueDependencies(r)) <=>
                       Pending(x, queue[QueueOf(r)]) \/ x \in Needs[r] \ satisfied
           /\ \A x, y : Before(x, y, queue[QueueOf(r)]) => Before(x, y, EnqueueDependencies(r))
           /\ \A x, y : Before(x, y, EnqueueDependencies(r)) =>
                          Before(x, y, queue[QueueOf(r)]) \/ y \in Dependency
  <1>. DEFINE S == Worker \cup Dependency
              s == queue[QueueOf(r)]
              t == s \o MissingTask(r, ResourceCache)
  <1>1. s \in Seq(S) /\ Distinct(s) /\ QueueOf(r) \in Queue
    BY Kinds DEF TypeOK, PlaceInv
  <1>2. ResourceCache \in S /\ GuidAlgorithm \in S /\ ResourceCache # GuidAlgorithm
    BY RequestAssumption DEF Dependency
  <1>3. \A d \in Dependency : d \notin satisfied => ~Pending(d, s)
    BY <1>1 DEF PlaceInv
  <1>4. Needs[r] \ satisfied \subseteq Dependency
    BY Kinds
  <1>. HIDE DEF s, S
  <1>5. /\ t \in Seq(S) /\ Distinct(t)
        /\ \A x : Pending(x, t) <=> Pending(x, s) \/ (x = ResourceCache /\ x \in Needs[r] \ satisfied)
        /\ \A x, y : Before(x, y, s) => Before(x, y, t)
        /\ \A x, y : Before(x, y, t) => Before(x, y, s) \/ y = ResourceCache
    BY <1>1, <1>2, <1>3, MissingTaskFacts DEF Dependency
  <1>6. EnqueueDependencies(r) = t \o MissingTask(r, GuidAlgorithm)
    BY DEF EnqueueDependencies, s
  <1>. HIDE DEF t
  <1>7. GuidAlgorithm \notin satisfied => ~Pending(GuidAlgorithm, t)
    BY <1>2, <1>3, <1>5 DEF Dependency
  <1>8. /\ t \o MissingTask(r, GuidAlgorithm) \in Seq(S)
        /\ Distinct(t \o MissingTask(r, GuidAlgorithm))
        /\ \A x : Pending(x, t \o MissingTask(r, GuidAlgorithm)) <=>
                    Pending(x, t) \/ (x = GuidAlgorithm /\ x \in Needs[r] \ satisfied)
        /\ \A x, y : Before(x, y, t) => Before(x, y, t \o MissingTask(r, GuidAlgorithm))
        /\ \A x, y : Before(x, y, t \o MissingTask(r, GuidAlgorithm)) =>
                       Before(x, y, t) \/ y = GuidAlgorithm
    BY <1>2, <1>5, <1>7, MissingTaskFacts
  <1>. QED
    BY <1>4, <1>5, <1>6, <1>8 DEF Dependency, s, S

\* What DeleteTask() leaves in a queue.
Without(w, s) == IF Contains(s, w) THEN RemoveOne(s, w) ELSE s

\* It takes out the worker's task, and keeps the others in their order.
LEMMA WithoutFacts ==
    ASSUME NEW S, NEW s \in Seq(S), Distinct(s), NEW w
    PROVE  /\ Without(w, s) \in Seq(S) /\ Distinct(Without(w, s))
           /\ \A x : Pending(x, Without(w, s)) <=> Pending(x, s) /\ x # w
           /\ \A x, y : Before(x, y, Without(w, s)) <=> Before(x, y, s) /\ x # w /\ y # w
  <1>1. Contains(s, w) <=> Pending(w, s)
    BY DEF Contains, Pending
  <1>2. CASE Pending(w, s)
    BY <1>1, <1>2, RemoveOrder DEF Without
  <1>3. CASE ~Pending(w, s)
    <2>1. \A x, y : Before(x, y, s) => Pending(x, s) /\ Pending(y, s)
      BY DEF Before, Pending
    <2>2. Without(w, s) = s
      BY <1>1, <1>3 DEF Without
    <2>. QED
      BY <1>3, <2>1, <2>2
  <1>. QED
    BY <1>2, <1>3

-----------------------------------------------------------------------------
(* Type correctness. *)

\* The types of what Employ() changes.
EmployTypes ==
    /\ links' \in [Request -> SUBSET Worker]
    /\ workerOf' \in [Request -> Worker \cup {None}]
    /\ requestOf' \in [Worker -> Request \cup {None}]
    /\ writes' \in [Worker -> BOOLEAN]
    /\ needs' \in [Worker -> SUBSET Dependency]
    /\ queue' \in [Queue -> Seq(Worker \cup Dependency)]
    /\ satisfied' \subseteq Dependency
    /\ promised' \in [Request -> BOOLEAN]

\* They are kept.
LEMMA EmployTypeFacts ==
    ASSUME TypeOK, PlaceInv, NEW r \in Request, NEW w \in Worker, Employ(r, w)
    PROVE  EmployTypes
  <1>1. queue' \in [Queue -> Seq(Worker \cup Dependency)]
    BY EnqueueFacts, AppendFacts, Kinds DEF Employ, TypeOK
  <1>2. satisfied' \subseteq Dependency /\ needs' \in [Worker -> SUBSET Dependency]
    BY Kinds DEF Employ, TypeOK
  <1>3. requestOf' \in [Worker -> Request \cup {None}]
    BY DEF Employ, TypeOK, DroppedRequests
  <1>. QED
    BY <1>1, <1>2, <1>3 DEF Employ, EmployTypes, TypeOK

\* Every step keeps the types; removing a task needs the queues' order.
LEMMA TypeStep == TypeOK /\ PlaceInv /\ [Next]_vars => TypeOK'
  <1>. SUFFICES ASSUME TypeOK, PlaceInv, [Next]_vars PROVE TypeOK'
    OBVIOUS
  <1>. USE DEF State, Phase, Caller
  <1>1. ASSUME NEW r \in Request, Start(r) PROVE TypeOK'
    <2>1. PICK w \in Worker :
             /\ Employ(r, w)
             /\ phase' = [phase EXCEPT ![w] = "queued"]
             /\ handle' = [handle EXCEPT ![r] = IF r \in SyncRequest THEN w ELSE None]
      BY <1>1 DEF Start
    <2>2. EmployTypes
      BY <2>1, EmployTypeFacts
    <2>. QED
      BY <1>1, <2>1, <2>2 DEF Start, EmployTypes, TypeOK
  <1>2. ASSUME NEW r \in Request, StartOfDeleted(r) PROVE TypeOK'
    <2>1. queue' \in [Queue -> Seq(Worker \cup Dependency)]
      BY <1>2, EnqueueFacts, Kinds DEF StartOfDeleted, TypeOK
    <2>2. satisfied' \subseteq Dependency
      BY <1>2, Kinds DEF StartOfDeleted, TypeOK
    <2>. QED
      BY <1>2, <2>1, <2>2 DEF StartOfDeleted, DroppedWorkers, DroppedRequests, TypeOK, waiter
  <1>3. ASSUME NEW r \in Request, StartRejected(r) PROVE TypeOK'
    BY <1>3 DEF StartRejected, TypeOK, tables, workers, deps
  <1>4. ASSUME NEW r \in Request, Cancel(r) PROVE TypeOK'
    <2>1. CancelResult(workerOf[r]) \in BOOLEAN
      BY <1>4 DEF Cancel, CancelResult, TypeOK
    <2>. QED
      BY <1>4, <2>1 DEF Cancel, TypeOK, tables, deps, waiter
  <1>5. ASSUME NEW r \in Request, BeginDestroy(r) PROVE TypeOK'
    BY <1>5 DEF BeginDestroy, DroppedWorkers, DroppedRequests, TypeOK, workers, deps, waiter
  <1>6. ASSUME NEW r \in Request, EndDestroy(r) PROVE TypeOK'
    BY <1>6 DEF EndDestroy, Noted, TypeOK, deps
  <1>7. ASSUME NEW r \in Request, CallerStep(r) \/ TimeOut(r) PROVE TypeOK'
    BY <1>7 DEF CallerStep, Attach, Wait, Wake, TimeOut, Return, TypeOK, tables, workers, deps
  <1>8. ASSUME NEW w \in Worker, Report(w) PROVE TypeOK'
    <2>1. CASE requestOf[w] = None
      BY <1>8, <2>1 DEF Report, TypeOK, tables, deps
    <2>2. CASE requestOf[w] # None
      <3>. DEFINE r == requestOf[w]
      <3>1. r \in Request
        BY <2>2 DEF TypeOK
      <3>2. /\ state' = [state EXCEPT ![r] = IF phase[w] = "canceled" THEN "canceled" ELSE "finished"]
            /\ workerOf' = DroppedWorkers(r) /\ requestOf' = DroppedRequests(r)
            /\ links' = [links EXCEPT ![r] = @ \ {w}]
            /\ finished' = [finished EXCEPT ![w] = TRUE]
            /\ saw' = Noted({w}, "finished")
            /\ phase' = [phase EXCEPT ![w] = "reported"]
        BY <1>8, <2>2 DEF Report
      <3>. HIDE DEF r
      <3>. QED
        BY <1>8, <3>1, <3>2 DEF Report, DroppedWorkers, DroppedRequests, Noted, TypeOK, deps
    <2>. QED
      BY <2>1, <2>2
  <1>9. ASSUME NEW w \in Worker, DeleteTask(w) PROVE TypeOK'
    <2>1. queue' = [q \in Queue |-> Without(w, queue[q])]
      BY <1>9 DEF DeleteTask, Without
    <2>2. queue' \in [Queue -> Seq(Worker \cup Dependency)]
      BY <2>1, WithoutFacts DEF TypeOK, PlaceInv
    <2>. QED
      BY <1>9, <2>2 DEF DeleteTask, Noted, TypeOK, tables, deps
  <1>10. ASSUME NEW w \in Worker,
                Exec(w) \/ RunFetch(w) \/ TurnIrreversible(w) \/ RunWrite(w) \/ Decide(w)
         PROVE  TypeOK'
    BY <1>10 DEF Exec, RunFetch, TurnIrreversible, RunWrite, Decide, TypeOK, tables, deps, waiter
  <1>11. ASSUME NEW q \in Queue, NEW d \in Dependency, RunDependency(q, d) PROVE TypeOK'
    <2>1. queue' \in [Queue -> Seq(Worker \cup Dependency)]
      BY <1>11, TailFacts DEF RunDependency, TypeOK
    <2>. QED
      BY <1>11, <2>1 DEF RunDependency, TypeOK, tables, workers, waiter
  <1>12. CASE UNCHANGED vars
    BY <1>12 DEF TypeOK, vars, tables, workers, deps, waiter
  <1>13. ASSUME NEW w \in Worker, Restart(w) PROVE TypeOK'
    <2>1. PICK r \in Request, v \in Worker :
             /\ Employ(r, v)
             /\ phase' = [phase EXCEPT ![w] = "reported", ![v] = "queued"]
             /\ UNCHANGED <<trusted, state, canceled, cancelable, wrote, finished, ready, waiter>>
      BY <1>13 DEF Restart, TypeOK
    <2>2. EmployTypes
      BY <2>1, EmployTypeFacts
    <2>. QED
      BY <2>1, <2>2 DEF EmployTypes, TypeOK, waiter
  <1>. QED
    BY <1>1, <1>2, <1>3, <1>4, <1>5, <1>6, <1>7, <1>8, <1>9, <1>10, <1>11, <1>12, <1>13
    DEF Next, ClientStep, CallerStep, WorkerStep

-----------------------------------------------------------------------------
(* The tables. *)

\* Steps that touch neither the tables, nor the states, nor whether a worker
\* lives or its task has finished keep what is said about the tables.
LEMMA TablesUntouched ==
    ASSUME TypeOK, TablesMirror, LinkInv, UNCHANGED <<state, tables, finished>>,
           phase' \in [Worker -> Phase], \A w \in Worker : Live(w)' <=> Live(w)
    PROVE  TablesMirror' /\ LinkInv'
  BY DEF TypeOK, TablesMirror, LinkInv, Live, tables

\* Every step preserves what is said about the tables.
LEMMA TablesStep == TypeOK /\ TypeOK' /\ TablesInv /\ [Next]_vars => TablesInv'
  <1>. SUFFICES ASSUME TypeOK, TypeOK', TablesMirror, LinkInv, FreshInv, [Next]_vars
                PROVE  TablesInv'
    BY DEF TablesInv
  <1>. USE DEF TablesInv
  <1>1. ASSUME NEW r \in Request, Start(r) PROVE TablesInv'
    <2>1. PICK w \in Worker :
             /\ phase[w] = "free"
             /\ workerOf' = [workerOf EXCEPT ![r] = w]
             /\ requestOf' = [DroppedRequests(r) EXCEPT ![w] = r]
             /\ links' = [links EXCEPT ![r] = @ \cup {w}]
             /\ phase' = [phase EXCEPT ![w] = "queued"]
      BY <1>1 DEF Start, Employ
    <2>2. /\ state[r] \in {"inactive", "finished", "canceled"}
          /\ state' = [state EXCEPT ![r] = "active"]
          /\ UNCHANGED <<canceled, cancelable, wrote, finished>>
      BY <1>1 DEF Start, Startable
    <2>3. workerOf[r] = None /\ DroppedRequests(r) = requestOf
      BY <2>2, Kinds DEF TablesMirror, TypeOK, DroppedRequests
    <2>4. requestOf[w] = None /\ \A s \in Request : w \notin links[s] /\ workerOf[s] # w
      BY <2>1, Kinds DEF TablesMirror, LinkInv, TypeOK, Live
    <2>5. TablesMirror'
      BY <2>1, <2>2, <2>3, <2>4, Kinds DEF TablesMirror, TypeOK, Live
    <2>6. LinkInv'
      BY <2>1, <2>2, <2>3, <2>4, Kinds DEF LinkInv, FreshInv, TypeOK, Live
    <2>7. FreshInv'
      BY <2>1, <2>2 DEF FreshInv, TypeOK
    <2>. QED
      BY <2>5, <2>6, <2>7
  <1>2. ASSUME NEW r \in Request, StartOfDeleted(r) PROVE TablesInv'
    <2>1. /\ state[r] \in {"inactive", "finished", "canceled"}
          /\ state' = [state EXCEPT ![r] = "gone"]
          /\ links' = [links EXCEPT ![r] = {}]
          /\ finished' = [w \in Worker |-> finished[w] \/ w \in links[r]]
          /\ workerOf' = DroppedWorkers(r) /\ requestOf' = DroppedRequests(r)
          /\ UNCHANGED <<phase, canceled, cancelable, wrote>>
      BY <1>2 DEF StartOfDeleted, Startable
    <2>2. workerOf[r] = None
      BY <2>1, Kinds DEF TablesMirror, TypeOK
    <2>3. workerOf' = workerOf /\ requestOf' = requestOf
      BY <2>1, <2>2, Kinds DEF TypeOK, DroppedWorkers, DroppedRequests
    <2>4. TablesMirror'
      BY <2>1, <2>2, <2>3 DEF TablesMirror, TypeOK, Live
    <2>5. LinkInv'
      BY <2>1, <2>2, <2>3, Kinds DEF LinkInv, TypeOK, Live
    <2>6. FreshInv'
      BY <2>1 DEF FreshInv, LinkInv, TypeOK, Live
    <2>. QED
      BY <2>4, <2>5, <2>6
  <1>3. ASSUME NEW r \in Request, StartRejected(r) \/ CallerStep(r) \/ TimeOut(r) PROVE TablesInv'
    BY <1>3
    DEF StartRejected, CallerStep, Attach, Wait, Wake, TimeOut, Return, TablesMirror, LinkInv,
        FreshInv, Live, tables, workers
  <1>4. ASSUME NEW r \in Request, Cancel(r) PROVE TablesInv'
    <2>1. workerOf[r] \in Worker /\ Live(workerOf[r])
      BY <1>4, Kinds DEF Cancel, TypeOK, TablesMirror
    <2>2. TablesMirror' /\ LinkInv'
      BY <1>4, TablesUntouched DEF Cancel, Live, TypeOK
    <2>3. FreshInv'
      BY <1>4, <2>1 DEF Cancel, FreshInv, Live, TypeOK
    <2>. QED
      BY <2>2, <2>3
  <1>5. ASSUME NEW r \in Request, BeginDestroy(r) PROVE TablesInv'
    <2>1. /\ state[r] \notin {"dying", "gone"}
          /\ state' = [state EXCEPT ![r] = "dying"]
          /\ workerOf' = DroppedWorkers(r) /\ requestOf' = DroppedRequests(r)
          /\ UNCHANGED <<links, workers>>
      BY <1>5 DEF BeginDestroy
    <2>2. TablesMirror'
      BY <2>1, Kinds DEF TablesMirror, TypeOK, Live, DroppedWorkers, DroppedRequests, workers
    <2>3. LinkInv'
      BY <2>1, Kinds
      DEF LinkInv, TablesMirror, TypeOK, Live, DroppedWorkers, DroppedRequests, workers
    <2>4. FreshInv'
      BY <2>1 DEF FreshInv, workers
    <2>. QED
      BY <2>2, <2>3, <2>4
  <1>6. ASSUME NEW r \in Request, EndDestroy(r) PROVE TablesInv'
    <2>1. /\ state[r] = "dying" /\ state' = [state EXCEPT ![r] = "gone"]
          /\ links' = [links EXCEPT ![r] = {}]
          /\ finished' = [w \in Worker |-> finished[w] \/ w \in links[r]]
          /\ UNCHANGED <<workerOf, requestOf, phase, canceled, cancelable, wrote>>
      BY <1>6 DEF EndDestroy
    <2>2. TablesMirror'
      BY <2>1 DEF TablesMirror, TypeOK, Live
    <2>3. LinkInv'
      BY <2>1, Kinds DEF LinkInv, TypeOK, Live
    <2>4. FreshInv'
      BY <2>1, Kinds DEF FreshInv, LinkInv, TypeOK, Live
    <2>. QED
      BY <2>2, <2>3, <2>4
  <1>7. ASSUME NEW w \in Worker, Report(w) PROVE TablesInv'
    <2>1. phase[w] \in {"canceled", "completed"} /\ phase' = [phase EXCEPT ![w] = "reported"]
          /\ UNCHANGED <<canceled, cancelable, wrote>>
      BY <1>7 DEF Report
    <2>2. CASE requestOf[w] = None
      <3>1. UNCHANGED <<state, tables, finished>>
        BY <1>7, <2>2 DEF Report
      <3>2. FreshInv'
        BY <2>1, <3>1 DEF FreshInv, TypeOK
      <3>. QED
        BY <2>1, <3>1, <3>2, TablesUntouched DEF Live, TypeOK
    <2>3. CASE requestOf[w] # None
      <3>1. PICK r \in Request : r = requestOf[w]
        BY <2>3 DEF TypeOK
      <3>2. /\ state' \in [Request -> State]
            /\ \A s \in Request : s # r => state'[s] = state[s]
            /\ state'[r] \notin {"active", "gone"}
            /\ workerOf' = DroppedWorkers(r) /\ requestOf' = DroppedRequests(r)
            /\ links' = [links EXCEPT ![r] = @ \ {w}]
            /\ finished' = [finished EXCEPT ![w] = TRUE]
        BY <1>7, <2>3, <3>1 DEF Report, TypeOK
      <3>3. state[r] = "active" /\ workerOf[r] = w /\ w \in links[r]
        BY <3>1, Kinds DEF TablesMirror, LinkInv
      <3>4. TablesMirror'
        BY <2>1, <3>2, <3>3, Kinds DEF TablesMirror, TypeOK, Live, DroppedWorkers, DroppedRequests
      <3>5. LinkInv'
        BY <2>1, <3>2, <3>3, Kinds DEF LinkInv, TypeOK, Live, DroppedWorkers, DroppedRequests
      <3>6. FreshInv'
        BY <2>1, <3>2 DEF FreshInv, TypeOK
      <3>. QED
        BY <3>4, <3>5, <3>6
    <2>. QED
      BY <2>2, <2>3
  <1>8. ASSUME NEW w \in Worker, DeleteTask(w) PROVE TablesInv'
    <2>1. /\ finished[w] /\ phase[w] \in {"queued", "reported"}
          /\ phase' = [phase EXCEPT ![w] = "free"]
          /\ canceled' = [canceled EXCEPT ![w] = FALSE]
          /\ cancelable' = [cancelable EXCEPT ![w] = TRUE]
          /\ wrote' = [wrote EXCEPT ![w] = FALSE]
          /\ finished' = [finished EXCEPT ![w] = FALSE]
          /\ UNCHANGED <<state, tables>>
      BY <1>8 DEF DeleteTask
    <2>2. requestOf[w] = None /\ \A r \in Request : w \notin links[r]
      BY <2>1, Kinds DEF TablesMirror, LinkInv, TypeOK
    <2>3. TablesMirror'
      BY <2>1, <2>2 DEF TablesMirror, TypeOK, Live, tables
    <2>4. LinkInv'
      BY <2>1, <2>2, Kinds DEF LinkInv, TypeOK, Live, tables
    <2>5. FreshInv'
      BY <2>1 DEF FreshInv, TypeOK
    <2>. QED
      BY <2>3, <2>4, <2>5
  <1>9. ASSUME NEW w \in Worker,
               Exec(w) \/ RunFetch(w) \/ TurnIrreversible(w) \/ RunWrite(w) \/ Decide(w)
        PROVE  TablesInv'
    <2>1. /\ UNCHANGED <<state, tables, finished, canceled>>
          /\ Live(w) /\ phase'[w] \notin {"free", "taken"}
          /\ \A v \in Worker : v # w => phase'[v] = phase[v]
          /\ \A v \in Worker : v # w => cancelable'[v] = cancelable[v] /\ wrote'[v] = wrote[v]
      BY <1>9 DEF Exec, RunFetch, TurnIrreversible, RunWrite, Decide, TypeOK, Live
    <2>2. FreshInv'
      BY <2>1 DEF FreshInv, Live
    <2>. QED
      BY <2>1, <2>2, TablesUntouched DEF Live, TypeOK
  <1>10. ASSUME NEW q \in Queue, NEW d \in Dependency, RunDependency(q, d) PROVE TablesInv'
    BY <1>10 DEF RunDependency, TablesMirror, LinkInv, FreshInv, Live, tables, workers
  <1>11. CASE UNCHANGED vars
    BY <1>11 DEF vars, TablesMirror, LinkInv, FreshInv, Live, tables, workers
  <1>12. ASSUME NEW w \in Worker, Restart(w) PROVE TablesInv'
    <2>1. PICK r \in Request, v \in Worker :
             /\ r = requestOf[w] /\ phase[v] = "free"
             /\ phase[w] \in {"canceled", "completed"}
             /\ workerOf' = [workerOf EXCEPT ![r] = v]
             /\ requestOf' = [DroppedRequests(r) EXCEPT ![v] = r]
             /\ links' = [links EXCEPT ![r] = @ \cup {v}]
             /\ phase' = [phase EXCEPT ![w] = "reported", ![v] = "queued"]
             /\ UNCHANGED <<state, canceled, cancelable, wrote, finished>>
      BY <1>12 DEF Restart, Employ, TypeOK
    <2>2. v # w /\ state[r] = "active" /\ workerOf[r] = w
      BY <2>1, Kinds DEF TablesMirror
    <2>3. requestOf[v] = None /\ \A s \in Request : v \notin links[s] /\ workerOf[s] # v
      BY <2>1, Kinds DEF TablesMirror, LinkInv, TypeOK, Live
    <2>4. /\ requestOf'[w] = None /\ requestOf'[v] = r
          /\ \A u \in Worker \ {v, w} : requestOf'[u] = requestOf[u] /\ phase'[u] = phase[u]
      BY <2>1, <2>2 DEF TypeOK, DroppedRequests
    <2>5. phase'[w] = "reported" /\ phase'[v] = "queued"
      BY <2>1, <2>2 DEF TypeOK
    <2>6. workerOf'[r] = v /\ \A s \in Request \ {r} : workerOf'[s] = workerOf[s]
      BY <2>1 DEF TypeOK
    <2>7. links'[r] = links[r] \cup {v} /\ \A s \in Request \ {r} : links'[s] = links[s]
      BY <2>1 DEF TypeOK
    <2>8. \A u \in Worker \ {v, w} : requestOf[u] # r
      BY <2>1, <2>2 DEF TablesMirror
    <2>9. TablesMirror'
      <3>1. ASSUME NEW s \in Request, NEW u \in Worker PROVE workerOf'[s] = u <=> requestOf'[u] = s
        BY <2>1, <2>2, <2>3, <2>4, <2>6, <2>8, Kinds DEF TablesMirror
      <3>2. ASSUME NEW u \in Worker, requestOf'[u] # None PROVE Live(u)' /\ state'[requestOf'[u]] = "active"
        <4>1. CASE u \in {v, w}
          <5>1. u = v /\ requestOf'[u] = r /\ phase'[u] = "queued"
            BY <2>4, <2>5, <3>2, <4>1
          <5>2. state'[r] = "active"
            BY <2>1, <2>2
          <5>. QED
            BY <5>1, <5>2 DEF Live
        <4>2. CASE u \notin {v, w}
          <5>1. requestOf'[u] = requestOf[u] /\ phase'[u] = phase[u]
            BY <2>4, <4>2
          <5>. QED
            BY <2>1, <3>2, <5>1 DEF TablesMirror, Live
        <4>. QED
          BY <4>1, <4>2
      <3>3. ASSUME NEW s \in Request PROVE state'[s] = "active" <=> workerOf'[s] # None
        BY <2>1, <2>2, <2>6, Kinds DEF TablesMirror
      <3>. QED
        BY <3>1, <3>2, <3>3 DEF TablesMirror
    <2>10. LinkInv'
      <3>1. ASSUME NEW s \in Request, state'[s] = "active" PROVE workerOf'[s] \in links'[s]
        BY <2>1, <2>6, <2>7, <3>1 DEF LinkInv
      <3>2. ASSUME NEW s \in Request, NEW u \in links'[s]
            PROVE  Live(u)' /\ ~finished'[u] /\ requestOf'[u] \in {s, None} /\ state'[s] # "gone"
        <4>1. CASE u = v
          BY <2>1, <2>2, <2>3, <2>4, <2>5, <2>7, <3>2, <4>1 DEF FreshInv, Live
        <4>2. CASE u # v
          <5>1. u \in links[s] /\ u \in Worker
            <6>1. u \in links[s]
              BY <2>7, <3>2, <4>2
            <6>. QED
              BY <6>1 DEF TypeOK
          <5>2. Live(u) /\ ~finished[u] /\ requestOf[u] \in {s, None} /\ state[s] # "gone"
            BY <5>1 DEF LinkInv
          <5>. QED
            BY <2>1, <2>4, <2>5, <4>2, <5>1, <5>2 DEF Live
        <4>. QED
          BY <4>1, <4>2
      <3>3. ASSUME NEW s \in Request, NEW t \in Request, NEW u \in Worker,
                   u \in links'[s], u \in links'[t]
            PROVE  s = t
        BY <2>3, <2>7, <3>3 DEF LinkInv
      <3>. QED
        BY <3>1, <3>2, <3>3 DEF LinkInv
    <2>11. FreshInv'
      BY <2>1, <2>4, <2>5 DEF FreshInv
    <2>. QED
      BY <2>9, <2>10, <2>11
  <1>. QED
    BY <1>1, <1>2, <1>3, <1>4, <1>5, <1>6, <1>7, <1>8, <1>9, <1>10, <1>11, <1>12
    DEF Next, ClientStep, WorkerStep

-----------------------------------------------------------------------------
(* Cancellation. *)

\* Every step preserves what is said about cancellation.
LEMMA CancelStep == TypeOK /\ TypeOK' /\ TablesInv /\ CancelInv /\ [Next]_vars => CancelInv'
  <1>. SUFFICES ASSUME TypeOK, TypeOK', TablesMirror, LinkInv, FreshInv, CancelInv, [Next]_vars
                PROVE  CancelInv'
    BY DEF TablesInv
  <1>1. ASSUME NEW r \in Request, Start(r) PROVE CancelInv'
    <2>1. PICK w \in Worker :
             /\ phase[w] = "free"
             /\ workerOf' = [workerOf EXCEPT ![r] = w]
             /\ phase' = [phase EXCEPT ![w] = "queued"]
             /\ writes' = [writes EXCEPT ![w] = r \in WriteRequest]
             /\ promised' = [promised EXCEPT ![r] = FALSE]
      BY <1>1 DEF Start, Employ
    <2>2. /\ state' = [state EXCEPT ![r] = "active"]
          /\ UNCHANGED <<canceled, cancelable, wrote>>
      BY <1>1 DEF Start
    <2>3. \A s \in Request : workerOf[s] # w
      BY <2>1, Kinds DEF TablesMirror, Live
    <2>. QED
      BY <2>1, <2>2, <2>3, Kinds DEF CancelInv, FreshInv, TypeOK
  <1>2. ASSUME NEW r \in Request, StartOfDeleted(r) PROVE CancelInv'
    <2>1. /\ state' = [state EXCEPT ![r] = "gone"]
          /\ workerOf' = DroppedWorkers(r)
          /\ UNCHANGED <<phase, writes, canceled, cancelable, wrote, promised>>
      BY <1>2 DEF StartOfDeleted
    <2>. QED
      BY <2>1, Kinds DEF CancelInv, TypeOK, DroppedWorkers
  <1>3. ASSUME NEW r \in Request, StartRejected(r) \/ CallerStep(r) \/ TimeOut(r) PROVE CancelInv'
    BY <1>3
    DEF StartRejected, CallerStep, Attach, Wait, Wake, TimeOut, Return, CancelInv, tables, workers
  <1>4. ASSUME NEW r \in Request, Cancel(r) PROVE CancelInv'
    <2>1. PICK w \in Worker : w = workerOf[r]
      BY <1>4 DEF Cancel, TypeOK
    <2>2. /\ state[r] = "active"
          /\ canceled' = [canceled EXCEPT ![w] = canceled[w] \/ cancelable[w]]
          /\ promised' = [promised EXCEPT ![r] = canceled[w] \/ cancelable[w]]
          /\ UNCHANGED <<state, tables, phase, writes, cancelable, wrote>>
      BY <1>4, <2>1 DEF Cancel, CancelResult
    <2>3. \A s \in Request : workerOf[s] = w => s = r
      BY <2>1 DEF TablesMirror
    <2>. QED
      BY <2>1, <2>2, <2>3, Kinds DEF CancelInv, TypeOK, tables
  <1>5. ASSUME NEW r \in Request, BeginDestroy(r) PROVE CancelInv'
    <2>1. /\ state' = [state EXCEPT ![r] = "dying"]
          /\ workerOf' = DroppedWorkers(r)
          /\ UNCHANGED <<workers, promised>>
      BY <1>5 DEF BeginDestroy
    <2>. QED
      BY <2>1, Kinds DEF CancelInv, TypeOK, DroppedWorkers, workers
  <1>6. ASSUME NEW r \in Request, EndDestroy(r) PROVE CancelInv'
    <2>1. /\ state' = [state EXCEPT ![r] = "gone"]
          /\ UNCHANGED <<workerOf, phase, writes, canceled, cancelable, wrote, promised>>
      BY <1>6 DEF EndDestroy
    <2>. QED
      BY <2>1 DEF CancelInv, TypeOK
  <1>7. ASSUME NEW w \in Worker, Report(w) PROVE CancelInv'
    <2>1. /\ phase[w] \in {"canceled", "completed"} /\ phase' = [phase EXCEPT ![w] = "reported"]
          /\ UNCHANGED <<writes, canceled, cancelable, wrote, promised>>
      BY <1>7 DEF Report
    <2>2. CASE requestOf[w] = None
      <3>1. UNCHANGED <<state, workerOf>>
        BY <1>7, <2>2 DEF Report, tables
      <3>. QED
        BY <2>1, <3>1 DEF CancelInv, TypeOK
    <2>3. CASE requestOf[w] # None
      <3>1. PICK r \in Request : r = requestOf[w]
        BY <2>3 DEF TypeOK
      <3>2. /\ state' = [state EXCEPT ![r] = IF phase[w] = "canceled" THEN "canceled" ELSE "finished"]
            /\ workerOf' = DroppedWorkers(r)
        BY <1>7, <2>3, <3>1 DEF Report
      <3>3. workerOf[r] = w
        BY <3>1 DEF TablesMirror
      <3>. QED
        BY <2>1, <3>2, <3>3, Kinds DEF CancelInv, TypeOK, DroppedWorkers
    <2>. QED
      BY <2>2, <2>3
  <1>8. ASSUME NEW w \in Worker, DeleteTask(w) PROVE CancelInv'
    <2>1. /\ finished[w] /\ phase[w] \in {"queued", "reported"}
          /\ phase' = [phase EXCEPT ![w] = "free"]
          /\ writes' = [writes EXCEPT ![w] = FALSE]
          /\ canceled' = [canceled EXCEPT ![w] = FALSE]
          /\ cancelable' = [cancelable EXCEPT ![w] = TRUE]
          /\ wrote' = [wrote EXCEPT ![w] = FALSE]
          /\ UNCHANGED <<state, workerOf, promised>>
      BY <1>8 DEF DeleteTask, tables
    <2>2. \A r \in Request : workerOf[r] # w
      BY <2>1, Kinds DEF TablesMirror, LinkInv, TypeOK
    <2>3. \A v \in Worker \ {w} :
             /\ phase'[v] = phase[v] /\ writes'[v] = writes[v] /\ canceled'[v] = canceled[v]
             /\ cancelable'[v] = cancelable[v] /\ wrote'[v] = wrote[v]
      BY <2>1 DEF TypeOK
    <2>4. phase'[w] = "free" /\ ~canceled'[w] /\ cancelable'[w] /\ ~wrote'[w]
      BY <2>1 DEF TypeOK
    <2>5. \A r \in Request : workerOf[r] # None => workerOf[r] \in Worker \ {w}
      BY <2>2 DEF TypeOK
    <2>6. \A v \in Worker :
             /\ canceled'[v] => cancelable'[v]
             /\ wrote'[v] \/ phase'[v] = "writing" => ~cancelable'[v]
             /\ writes'[v] /\ phase'[v] \in {"ran", "completed"} => canceled'[v] \/ ~cancelable'[v]
             /\ writes'[v] /\ phase'[v] = "completed" => ~canceled'[v]
      BY <2>3, <2>4 DEF CancelInv
    <2>7. \A r \in Request : workerOf[r] # None =>
             /\ writes'[workerOf[r]] <=> r \in WriteRequest
             /\ canceled'[workerOf[r]] = canceled[workerOf[r]]
      BY <2>3, <2>5 DEF CancelInv
    <2>. QED
      BY <2>1, <2>6, <2>7, Kinds, RequestAssumption DEF CancelInv
  <1>9. ASSUME NEW w \in Worker, Exec(w) \/ RunFetch(w) \/ RunWrite(w) \/ Decide(w) PROVE CancelInv'
    BY <1>9 DEF Exec, RunFetch, RunWrite, Decide, CancelInv, TypeOK, tables
  <1>10. ASSUME NEW w \in Worker, TurnIrreversible(w) PROVE CancelInv'
    <2>1. /\ phase[w] = "running" /\ writes[w]
          /\ UNCHANGED <<state, workerOf, writes, canceled, wrote, promised>>
      BY <1>10 DEF TurnIrreversible, tables
    <2>2. CASE canceled[w]
      BY <1>10, <2>1, <2>2 DEF TurnIrreversible, CancelInv, TypeOK
    <2>3. CASE ~canceled[w]
      BY <1>10, <2>1, <2>3 DEF TurnIrreversible, CancelInv, TypeOK
    <2>. QED
      BY <2>2, <2>3
  <1>11. ASSUME NEW q \in Queue, NEW d \in Dependency, RunDependency(q, d) PROVE CancelInv'
    BY <1>11 DEF RunDependency, CancelInv, tables, workers
  <1>12. CASE UNCHANGED vars
    BY <1>12 DEF vars, CancelInv, tables, workers
  <1>13. ASSUME NEW w \in Worker, Restart(w) PROVE CancelInv'
    <2>1. PICK r \in Request, v \in Worker :
             /\ phase[v] = "free" /\ phase[w] \in {"canceled", "completed"}
             /\ workerOf' = [workerOf EXCEPT ![r] = v]
             /\ writes' = [writes EXCEPT ![v] = r \in WriteRequest]
             /\ promised' = [promised EXCEPT ![r] = FALSE]
             /\ phase' = [phase EXCEPT ![w] = "reported", ![v] = "queued"]
             /\ UNCHANGED <<state, canceled, cancelable, wrote>>
      BY <1>13 DEF Restart, Employ, TypeOK
    <2>2. \A s \in Request : workerOf[s] # v
      BY <2>1, Kinds DEF TablesMirror, Live
    <2>3. /\ phase'[v] = "queued" /\ phase'[w] \in {"queued", "reported"}
          /\ \A u \in Worker \ {v, w} : phase'[u] = phase[u]
          /\ \A u \in Worker \ {v} : writes'[u] = writes[u]
      BY <2>1 DEF TypeOK
    <2>4. \A u \in Worker :
             /\ wrote'[u] \/ phase'[u] = "writing" => ~cancelable'[u]
             /\ writes'[u] /\ phase'[u] \in {"ran", "completed"} => canceled'[u] \/ ~cancelable'[u]
             /\ writes'[u] /\ phase'[u] = "completed" => ~canceled'[u]
      BY <2>1, <2>3 DEF CancelInv
    <2>5. ASSUME NEW s \in Request
          PROVE  /\ workerOf'[s] # None => (writes'[workerOf'[s]] <=> s \in WriteRequest)
                 /\ s \in WriteRequest /\ promised'[s] /\ workerOf'[s] # None => canceled'[workerOf'[s]]
                 /\ s \in WriteRequest /\ promised'[s] => state'[s] # "finished"
      <3>1. CASE s = r
        BY <2>1, <3>1 DEF TypeOK
      <3>2. CASE s # r
        <4>1. workerOf'[s] = workerOf[s] /\ promised'[s] = promised[s]
          BY <2>1, <3>2 DEF TypeOK
        <4>2. workerOf[s] # None => writes'[workerOf[s]] = writes[workerOf[s]]
          BY <2>2, <2>3 DEF TypeOK
        <4>. QED
          BY <2>1, <4>1, <4>2 DEF CancelInv
      <3>. QED
        BY <3>1, <3>2
    <2>. QED
      BY <2>1, <2>4, <2>5, RequestAssumption DEF CancelInv
  <1>. QED
    BY <1>1, <1>2, <1>3, <1>4, <1>5, <1>6, <1>7, <1>8, <1>9, <1>10, <1>11, <1>12, <1>13
    DEF Next, ClientStep, WorkerStep

-----------------------------------------------------------------------------
(* The synchronous API. *)

\* A signal of tasks says that the request of who notes it was reported, when no
\* request that is waited for is active with one of their workers.
LEMMA SignalFacts ==
    ASSUME TypeOK, SyncInv, NEW senders, NEW signal \in {"finished", "destroyed"},
           NEW r \in Request, caller[r] \in {"started", "attached", "waiting"},
           Noted(senders, signal)[r] # "nothing",
           state[r] = "active" => workerOf[r] \notin senders
    PROVE  state[r] \in {"finished", "canceled"}
  BY DEF SyncInv, Noted, TypeOK

\* Every step preserves what is said about the callers.
LEMMA SyncStep == TypeOK /\ TypeOK' /\ TablesInv /\ SyncInv /\ [Next]_vars => SyncInv'
  <1>. SUFFICES ASSUME TypeOK, TypeOK', TablesMirror, LinkInv, SyncInv, [Next]_vars
                PROVE  SyncInv'
    BY DEF TablesInv
  <1>1. ASSUME NEW r \in Request, Start(r) PROVE SyncInv'
    <2>1. PICK w \in Worker :
             /\ workerOf' = [workerOf EXCEPT ![r] = w]
             /\ handle' = [handle EXCEPT ![r] = IF r \in SyncRequest THEN w ELSE None]
      BY <1>1 DEF Start, Employ
    <2>2. /\ state' = [state EXCEPT ![r] = "active"]
          /\ caller' = [caller EXCEPT ![r] = IF r \in SyncRequest THEN "started" ELSE @]
          /\ saw' = saw
          /\ r \in SyncRequest => caller[r] = "idle"
      BY <1>1 DEF Start, Startable
    <2>3. caller[r] = "idle"
      BY <2>2 DEF SyncInv
    <2>. QED
      BY <2>1, <2>2, <2>3 DEF SyncInv, TypeOK
  <1>2. ASSUME NEW r \in Request, StartOfDeleted(r) PROVE SyncInv'
    <2>1. caller[r] = "idle"
      BY <1>2 DEF StartOfDeleted, SyncInv
    <2>. QED
      BY <1>2, <2>1 DEF StartOfDeleted, DroppedWorkers, SyncInv, TypeOK, waiter
  <1>3. ASSUME NEW r \in Request, StartRejected(r) PROVE SyncInv'
    <2>1. caller[r] = "idle" /\ saw[r] = "nothing"
      BY <1>3 DEF StartRejected, Startable, SyncInv
    <2>. QED
      BY <1>3, <2>1 DEF StartRejected, SyncInv, TypeOK, tables
  <1>4. ASSUME NEW r \in Request, Cancel(r) PROVE SyncInv'
    BY <1>4 DEF Cancel, SyncInv, tables, waiter
  <1>5. ASSUME NEW r \in Request, BeginDestroy(r) PROVE SyncInv'
    <2>1. caller[r] \in {"idle", "ok", "error"}
      BY <1>5 DEF BeginDestroy, SyncInv
    <2>. QED
      BY <1>5, <2>1 DEF BeginDestroy, DroppedWorkers, SyncInv, TypeOK, waiter
  <1>6. ASSUME NEW r \in Request, EndDestroy(r) PROVE SyncInv'
    <2>1. /\ state[r] = "dying" /\ state' = [state EXCEPT ![r] = "gone"]
          /\ saw' = Noted(links[r], "finished")
          /\ UNCHANGED <<workerOf, caller, handle>>
      BY <1>6 DEF EndDestroy
    <2>2. caller[r] \notin {"started", "attached", "waiting"}
      BY <2>1 DEF SyncInv
    <2>3. \A s \in Request : state[s] = "active" => workerOf[s] \notin links[r]
      BY <2>1, Kinds DEF LinkInv, TypeOK
    <2>4. \A s \in Request : caller[s] \in {"attached", "waiting"} /\ saw'[s] # "nothing" =>
             state[s] \in {"finished", "canceled"}
      BY <2>1, <2>3, SignalFacts
    <2>5. \A s \in Request : caller[s] \in {"idle", "started"} => saw'[s] = saw[s]
      BY <2>1 DEF Noted
    <2>. QED
      BY <2>1, <2>2, <2>4, <2>5 DEF SyncInv, TypeOK
  <1>7. ASSUME NEW r \in Request, CallerStep(r) \/ TimeOut(r) PROVE SyncInv'
    <2>1. /\ UNCHANGED <<state, tables>>
          /\ caller[r] \in {"started", "attached", "waiting"}
          /\ \A s \in Request : s # r =>
                caller'[s] = caller[s] /\ handle'[s] = handle[s] /\ saw'[s] = saw[s]
      BY <1>7 DEF CallerStep, Attach, Wait, Wake, TimeOut, Return, TypeOK
    <2>2. \/ caller'[r] \in {"ok", "error"}
          \/ caller'[r] \in {"attached", "waiting"} /\ handle' = handle /\ saw' = saw
      BY <1>7 DEF CallerStep, Attach, Wait, Wake, TimeOut, Return, TypeOK
    <2>. QED
      BY <2>1, <2>2 DEF SyncInv, tables
  <1>8. ASSUME NEW w \in Worker, Report(w) PROVE SyncInv'
    <2>1. CASE requestOf[w] = None
      BY <1>8, <2>1 DEF Report, SyncInv, tables
    <2>2. CASE requestOf[w] # None
      <3>1. PICK r \in Request : r = requestOf[w]
        BY <2>2 DEF TypeOK
      <3>2. /\ state' = [state EXCEPT ![r] = IF phase[w] = "canceled" THEN "canceled" ELSE "finished"]
            /\ workerOf' = DroppedWorkers(r)
            /\ saw' = Noted({w}, "finished")
            /\ UNCHANGED <<caller, handle>>
        BY <1>8, <2>2, <3>1 DEF Report
      <3>3. \A s \in Request : workerOf[s] = w => s = r
        BY <3>1 DEF TablesMirror
      <3>4. \A s \in Request : s # r /\ caller[s] \in {"attached", "waiting"} /\ saw'[s] # "nothing" =>
               state[s] \in {"finished", "canceled"}
        BY <3>2, <3>3, SignalFacts
      <3>5. \A s \in Request : caller[s] \in {"idle", "started"} => saw'[s] = saw[s]
        BY <3>2 DEF Noted
      <3>6. state'[r] \in {"finished", "canceled"}
        BY <3>2 DEF TypeOK
      <3>7. \A s \in Request : s # r => state'[s] = state[s] /\ workerOf'[s] = workerOf[s]
        BY <3>2 DEF TypeOK, DroppedWorkers
      <3>. QED
        BY <3>2, <3>4, <3>5, <3>6, <3>7 DEF SyncInv
    <2>. QED
      BY <2>1, <2>2
  <1>9. ASSUME NEW w \in Worker, DeleteTask(w) PROVE SyncInv'
    <2>1. /\ finished[w] /\ phase[w] # "free"
          /\ saw' = Noted({w}, "destroyed")
          /\ caller' = [r \in Request |-> IF caller[r] = "started" /\ handle[r] = w
                                            THEN "dangling" ELSE caller[r]]
          /\ UNCHANGED <<state, workerOf, handle>>
      BY <1>9 DEF DeleteTask, tables
    <2>2. \A r \in Request : state[r] = "active" => workerOf[r] # w
      BY <2>1, Kinds DEF TablesMirror, LinkInv
    <2>3. \A s \in Request : caller[s] \in {"attached", "waiting"} /\ saw'[s] # "nothing" =>
             state[s] \in {"finished", "canceled"}
      BY <2>1, <2>2, SignalFacts
    <2>4. \A s \in Request : caller[s] \in {"idle", "started"} => saw'[s] = saw[s]
      BY <2>1 DEF Noted
    <2>. QED
      BY <2>1, <2>3, <2>4 DEF SyncInv
  <1>10. ASSUME NEW w \in Worker,
                Exec(w) \/ RunFetch(w) \/ TurnIrreversible(w) \/ RunWrite(w) \/ Decide(w)
         PROVE  SyncInv'
    BY <1>10 DEF Exec, RunFetch, TurnIrreversible, RunWrite, Decide, SyncInv, tables, waiter
  <1>11. ASSUME NEW q \in Queue, NEW d \in Dependency, RunDependency(q, d) PROVE SyncInv'
    BY <1>11 DEF RunDependency, SyncInv, tables, waiter
  <1>12. CASE UNCHANGED vars
    BY <1>12 DEF vars, SyncInv, tables, waiter
  <1>13. ASSUME NEW w \in Worker, Restart(w) PROVE SyncInv'
    <2>1. PICK r \in Request, v \in Worker :
             /\ r \notin SyncRequest
             /\ workerOf' = [workerOf EXCEPT ![r] = v]
             /\ UNCHANGED <<state, waiter>>
      BY <1>13 DEF Restart, Employ, TypeOK
    <2>2. caller[r] = "idle" /\ \A s \in Request \ {r} : workerOf'[s] = workerOf[s]
      BY <2>1 DEF SyncInv, TypeOK
    <2>. QED
      BY <2>1, <2>2 DEF SyncInv, waiter
  <1>. QED
    BY <1>1, <1>2, <1>3, <1>4, <1>5, <1>6, <1>7, <1>8, <1>9, <1>10, <1>11, <1>12, <1>13
    DEF Next, ClientStep, WorkerStep

-----------------------------------------------------------------------------
(* The order of the queues. *)

\* Workers that are not running yet may start to, run on or change in any other
\* way, when no address is taken or freed and no worker ahead of another one runs.
LEMMA QueuesUntouched ==
    ASSUME TypeOK, QueueInv, UNCHANGED <<queue, needs, deps>>,
           \A w \in Worker : Live(w)' <=> Live(w),
           \A w \in Worker : phase'[w] # "queued" =>
               phase[w] # "queued" \/ \A q \in Queue : Pending(w, queue[q]) =>
                                         \A x \in Worker \cup Dependency : ~Before(x, w, queue[q])
    PROVE  QueueInv'
  BY DEF QueueInv, PlaceInv, OrderInv, Live, deps

\* A task that is the head of its queue is behind nothing in any queue.
LEMMA HeadFacts ==
    ASSUME TypeOK, PlaceInv, NEW w \in Worker, AtHead(w), NEW q \in Queue, Pending(w, queue[q])
    PROVE  \A x : ~Before(x, w, queue[q])
  <1>1. PICK p \in Queue : queue[p] # << >> /\ Head(queue[p]) = w
    BY DEF AtHead
  <1>2. queue[p] \in Seq(Worker \cup Dependency) /\ Distinct(queue[p])
    BY DEF TypeOK, PlaceInv
  <1>3. Pending(w, queue[p]) /\ \A x : ~Before(x, w, queue[p])
    BY <1>1, <1>2, TailOrder
  <1>4. p = q
    BY <1>3 DEF PlaceInv
  <1>. QED
    BY <1>3, <1>4

\* A worker that Employ() makes is queued behind what it needs; the others may
\* run on, but none of them is made, deleted or started by the same step.
LEMMA EmployQueue ==
    ASSUME TypeOK, PlaceInv, OrderInv, NEW r \in Request, NEW w \in Worker, Employ(r, w),
           ready' = ready, phase'[w] = "queued",
           \A v \in Worker \ {w} : phase'[v] # phase[v] =>
               /\ phase[v] \notin {"free", "taken", "queued"}
               /\ phase'[v] \notin {"free", "taken", "queued"}
    PROVE  QueueInv'
  <1>. DEFINE p == QueueOf(r)
              e == EnqueueDependencies(r)
  <1>1. /\ phase[w] = "free"
        /\ needs' = [needs EXCEPT ![w] = Needs[r]]
        /\ queue' = [queue EXCEPT ![p] = Append(e, w)]
    BY DEF Employ
  <1>2. satisfied' = satisfied \cup Needs[r] /\ ready' = ready
    BY DEF Employ
  <1>3. p \in Queue /\ Needs[r] \subseteq Dependency /\ \A v \in Worker : v \notin Dependency
    BY Kinds
  <1>4. /\ e \in Seq(Worker \cup Dependency) /\ Distinct(e)
        /\ \A x : Pending(x, e) <=> Pending(x, queue[p]) \/ x \in Needs[r] \ satisfied
        /\ \A x, y : Before(x, y, queue[p]) => Before(x, y, e)
        /\ \A x, y : Before(x, y, e) => Before(x, y, queue[p]) \/ y \in Dependency
    BY EnqueueFacts
  <1>. HIDE DEF p, e
  <1>5. \A q \in Queue : ~Pending(w, queue[q])
    BY <1>1 DEF PlaceInv, Live
  <1>6. ~Pending(w, e)
    BY <1>3, <1>4, <1>5
  <1>7. /\ queue'[p] = Append(e, w)
        /\ \A q \in Queue \ {p} : queue'[q] = queue[q]
    BY <1>1, <1>3 DEF TypeOK
  <1>8. /\ Distinct(queue'[p])
        /\ \A x : Pending(x, queue'[p]) <=> Pending(x, e) \/ x = w
        /\ \A x, y : Before(x, y, queue'[p]) <=> Before(x, y, e) \/ (y = w /\ Pending(x, e))
    BY <1>4, <1>6, <1>7, AppendPending, AppendOrder
  <1>9. /\ phase'[w] = "queued" /\ needs'[w] = Needs[r]
        /\ \A v \in Worker \ {w} : needs'[v] = needs[v]
        /\ \A v \in Worker \ {w} : (Live(v)' <=> Live(v)) /\ (phase'[v] = "queued" <=> phase[v] = "queued")
    BY <1>1 DEF TypeOK, Live
  <1>10. PlaceInv'
    <2>1. \A q \in Queue : Distinct(queue'[q])
      BY <1>7, <1>8 DEF PlaceInv
    <2>0. ASSUME NEW q \in Queue, NEW v \in Worker, Pending(v, queue'[q])
          PROVE  Pending(v, queue[q]) \/ (v = w /\ q = p)
      <3>1. CASE q = p
        BY <1>3, <1>4, <1>8, <2>0, <3>1
      <3>2. CASE q # p
        BY <1>7, <2>0, <3>2
      <3>. QED
        BY <3>1, <3>2
    <2>2. \A q \in Queue : \A v \in Worker : Pending(v, queue'[q]) => Live(v)'
      BY <1>9, <2>0 DEF PlaceInv, Live
    <2>3. \A o, q \in Queue : \A v \in Worker :
             Pending(v, queue'[o]) /\ Pending(v, queue'[q]) => o = q
      BY <1>5, <2>0 DEF PlaceInv
    <2>4. \A q \in Queue : \A d \in Dependency : Pending(d, queue'[q]) => d \in satisfied'
      BY <1>2, <1>3, <1>4, <1>7, <1>8, ZenonT(40) DEF PlaceInv
    <2>5. \A d \in satisfied' \ ready' : \E q \in Queue : Pending(d, queue'[q])
      BY <1>2, <1>3, <1>4, <1>7, <1>8 DEF PlaceInv
    <2>. QED
      BY <2>1, <2>2, <2>3, <2>4, <2>5 DEF PlaceInv
  <1>11. ASSUME NEW q \in Queue, NEW v \in Worker, Pending(v, queue'[q]), phase'[v] # "queued"
         PROVE  \A x \in Worker \cup Dependency : ~Before(x, v, queue'[q])
    BY <1>3, <1>4, <1>7, <1>8, <1>9, <1>11 DEF OrderInv
  <1>12. ASSUME NEW q \in Queue, NEW v \in Worker, Pending(v, queue'[q]),
                NEW d \in needs'[v] \ ready'
         PROVE  Before(d, v, queue'[q]) \/ \E o \in Queue \ {q} : Pending(d, queue'[o])
    <2>1. CASE v = w
      <3>1. q = p
        BY <1>5, <1>7, <1>12, <2>1
      <3>2. d \in Needs[r] \ ready
        BY <1>2, <1>9, <2>1
      <3>3. Pending(d, e) \/ \E o \in Queue \ {p} : Pending(d, queue[o])
        BY <1>4, <3>2 DEF PlaceInv
      <3>. QED
        BY <1>7, <1>8, <2>1, <3>1, <3>3
    <2>2. CASE v # w
      <3>1. Pending(v, queue[q]) /\ d \in needs[v] \ ready
        BY <1>2, <1>3, <1>4, <1>7, <1>8, <1>9, <1>12, <2>2
      <3>2. Before(d, v, queue[q]) \/ \E o \in Queue \ {q} : Pending(d, queue[o])
        BY <3>1 DEF OrderInv
      <3>. QED
        BY <1>4, <1>7, <1>8, <3>2
    <2>. QED
      BY <2>1, <2>2
  <1>. QED
    BY <1>10, <1>11, <1>12 DEF QueueInv, OrderInv

\* Every step keeps the queues' order.
LEMMA QueueStep == TypeOK /\ TypeOK' /\ QueueInv /\ [Next]_vars => QueueInv'
  <1>. SUFFICES ASSUME TypeOK, TypeOK', QueueInv, PlaceInv, OrderInv, [Next]_vars
                PROVE  QueueInv'
    BY DEF QueueInv
  <1>1. ASSUME NEW r \in Request, Start(r) PROVE QueueInv'
    <2>1. PICK w \in Worker : Employ(r, w) /\ phase' = [phase EXCEPT ![w] = "queued"]
      BY <1>1 DEF Start
    <2>2. phase'[w] = "queued" /\ \A v \in Worker \ {w} : phase'[v] = phase[v]
      BY <2>1 DEF TypeOK
    <2>3. ready' = ready
      BY <1>1 DEF Start
    <2>. QED
      BY <2>1, <2>2, <2>3, EmployQueue
  <1>2. ASSUME NEW r \in Request, StartOfDeleted(r) PROVE QueueInv'
    <2>. DEFINE p == QueueOf(r)
                e == EnqueueDependencies(r)
    <2>1. queue' = [queue EXCEPT ![p] = e] /\ UNCHANGED <<phase, needs, ready>>
      BY <1>2 DEF StartOfDeleted
    <2>2. satisfied' = satisfied \cup Needs[r]
      BY <1>2 DEF StartOfDeleted
    <2>3. p \in Queue /\ Needs[r] \subseteq Dependency /\ \A v \in Worker : v \notin Dependency
      BY Kinds
    <2>4. /\ Distinct(e)
          /\ \A x : Pending(x, e) <=> Pending(x, queue[p]) \/ x \in Needs[r] \ satisfied
          /\ \A x, y : Before(x, y, queue[p]) => Before(x, y, e)
          /\ \A x, y : Before(x, y, e) => Before(x, y, queue[p]) \/ y \in Dependency
      BY EnqueueFacts
    <2>. HIDE DEF p, e
    <2>5. queue'[p] = e /\ \A q \in Queue \ {p} : queue'[q] = queue[q]
      BY <2>1, <2>3 DEF TypeOK
    <2>6. PlaceInv'
      <3>1. \A q \in Queue : Distinct(queue'[q])
        BY <2>4, <2>5 DEF PlaceInv
      <3>2. \A q \in Queue : \A v \in Worker : Pending(v, queue'[q]) => Pending(v, queue[q])
        BY <2>3, <2>4, <2>5
      <3>3. \A q \in Queue : \A d \in Dependency : Pending(d, queue'[q]) => d \in satisfied'
        BY <2>2, <2>4, <2>5 DEF PlaceInv
      <3>4. \A d \in satisfied' \ ready' : \E q \in Queue : Pending(d, queue'[q])
        BY <2>1, <2>2, <2>3, <2>4, <2>5 DEF PlaceInv
      <3>. QED
        BY <2>1, <3>1, <3>2, <3>3, <3>4 DEF PlaceInv, Live
    <2>7. OrderInv'
      <3>1. \A q \in Queue : \A v \in Worker : Pending(v, queue'[q]) => Pending(v, queue[q])
        BY <2>3, <2>4, <2>5
      <3>2. \A q \in Queue : \A v \in Worker : \A x : Before(x, v, queue'[q]) <=> Before(x, v, queue[q])
        BY <2>3, <2>4, <2>5
      <3>3. \A q \in Queue : \A d : Pending(d, queue[q]) => Pending(d, queue'[q])
        BY <2>4, <2>5
      <3>. QED
        BY <2>1, <3>1, <3>2, <3>3 DEF OrderInv
    <2>. QED
      BY <2>6, <2>7 DEF QueueInv
  <1>3. ASSUME NEW r \in Request,
               StartRejected(r) \/ Cancel(r) \/ BeginDestroy(r) \/ EndDestroy(r)
                   \/ CallerStep(r) \/ TimeOut(r)
        PROVE  QueueInv'
    <2>1. UNCHANGED <<queue, needs, deps, phase>>
      BY <1>3 DEF StartRejected, Cancel, BeginDestroy, EndDestroy, CallerStep, Attach, Wait, Wake,
                  TimeOut, Return, workers
    <2>. QED
      BY <2>1, QueuesUntouched DEF Live
  <1>4. ASSUME NEW w \in Worker, Exec(w) PROVE QueueInv'
    <2>1. /\ AtHead(w) /\ phase[w] = "queued"
          /\ phase' = [phase EXCEPT ![w] = "running"]
          /\ UNCHANGED <<queue, needs, deps>>
      BY <1>4 DEF Exec
    <2>2. \A q \in Queue : Pending(w, queue[q]) => \A x : ~Before(x, w, queue[q])
      BY <2>1, HeadFacts
    <2>3. \A v \in Worker : Live(v)' <=> Live(v)
      BY <2>1 DEF Live, TypeOK
    <2>4. \A v \in Worker \ {w} : phase'[v] = phase[v]
      BY <2>1 DEF TypeOK
    <2>. QED
      BY <2>1, <2>2, <2>3, <2>4, QueuesUntouched
  <1>5. ASSUME NEW w \in Worker,
               RunFetch(w) \/ TurnIrreversible(w) \/ RunWrite(w) \/ Decide(w) \/ Report(w)
        PROVE  QueueInv'
    <2>1. /\ phase[w] \notin {"free", "taken", "queued"}
          /\ phase'[w] \notin {"free", "taken", "queued"}
          /\ \A v \in Worker : v # w => phase'[v] = phase[v]
          /\ UNCHANGED <<queue, needs, deps>>
      BY <1>5 DEF RunFetch, TurnIrreversible, RunWrite, Decide, Report, TypeOK
    <2>. QED
      BY <2>1, QueuesUntouched DEF Live
  <1>6. ASSUME NEW w \in Worker, DeleteTask(w) PROVE QueueInv'
    <2>1. /\ phase' = [phase EXCEPT ![w] = "free"]
          /\ needs' = [needs EXCEPT ![w] = {}]
          /\ queue' = [q \in Queue |-> Without(w, queue[q])]
          /\ UNCHANGED deps
      BY <1>6 DEF DeleteTask, Without
    <2>2. ASSUME NEW q \in Queue
          PROVE  /\ Distinct(queue'[q])
                 /\ \A x : Pending(x, queue'[q]) <=> Pending(x, queue[q]) /\ x # w
                 /\ \A x, y : Before(x, y, queue'[q]) <=> Before(x, y, queue[q]) /\ x # w /\ y # w
      <3>1. queue[q] \in Seq(Worker \cup Dependency) /\ Distinct(queue[q])
        BY DEF TypeOK, PlaceInv
      <3>2. queue'[q] = Without(w, queue[q])
        BY <2>1
      <3>. QED
        BY <3>1, <3>2, WithoutFacts
    <2>3. \A v \in Worker \ {w} : phase'[v] = phase[v] /\ needs'[v] = needs[v]
      BY <2>1 DEF TypeOK
    <2>4. w \notin Dependency /\ satisfied \subseteq Dependency
      BY Kinds DEF TypeOK
    <2>5. PlaceInv'
      <3>1. \A d \in satisfied' \ ready' : \E q \in Queue : Pending(d, queue'[q])
        BY <2>1, <2>2, <2>4 DEF PlaceInv, deps
      <3>2. \A q \in Queue : \A v \in Worker : Pending(v, queue'[q]) => Live(v)'
        BY <2>2, <2>3 DEF PlaceInv, Live
      <3>. QED
        BY <2>1, <2>2, <3>1, <3>2 DEF PlaceInv, deps
    <2>6. OrderInv'
      <3>1. ASSUME NEW q \in Queue, NEW v \in Worker, Pending(v, queue'[q]), phase'[v] # "queued"
            PROVE  \A x \in Worker \cup Dependency : ~Before(x, v, queue'[q])
        BY <2>2, <2>3, <3>1 DEF OrderInv
      <3>2. ASSUME NEW q \in Queue, NEW v \in Worker, Pending(v, queue'[q]),
                   NEW d \in needs'[v] \ ready'
            PROVE  Before(d, v, queue'[q]) \/ \E o \in Queue \ {q} : Pending(d, queue'[o])
        <4>1. Pending(v, queue[q]) /\ v # w
          BY <2>2, <3>2
        <4>2. d \in needs[v] \ ready /\ d \in Dependency /\ d # w
          BY <2>1, <2>3, <2>4, <3>2, <4>1 DEF deps, TypeOK
        <4>3. Before(d, v, queue[q]) \/ \E o \in Queue \ {q} : Pending(d, queue[o])
          BY <4>1, <4>2 DEF OrderInv
        <4>. QED
          BY <2>2, <4>1, <4>2, <4>3
      <3>. QED
        BY <3>1, <3>2 DEF OrderInv
    <2>. QED
      BY <2>5, <2>6 DEF QueueInv
  <1>7. ASSUME NEW p \in Queue, NEW c \in Dependency, RunDependency(p, c) PROVE QueueInv'
    <2>1. /\ queue[p] # << >> /\ Head(queue[p]) = c
          /\ ready' = ready \cup {c} /\ satisfied' = satisfied
          /\ UNCHANGED <<phase, needs>>
          /\ queue' = [queue EXCEPT ![p] = Tail(@)]
      BY <1>7 DEF RunDependency, workers
    <2>2. queue'[p] = Tail(queue[p]) /\ \A q \in Queue \ {p} : queue'[q] = queue[q]
      BY <2>1 DEF TypeOK
    <2>3. queue[p] \in Seq(Worker \cup Dependency) /\ Distinct(queue[p])
      BY DEF TypeOK, PlaceInv
    <2>4. /\ Distinct(queue'[p])
          /\ \A x : Pending(x, queue'[p]) <=> Pending(x, queue[p]) /\ x # c
          /\ \A x, y : Before(x, y, queue'[p]) <=> Before(x, y, queue[p]) /\ x # c
      BY <2>1, <2>2, <2>3, TailOrder
    <2>5. \A q \in Queue : \A x : x # c => (Pending(x, queue'[q]) <=> Pending(x, queue[q]))
      BY <2>2, <2>4
    <2>6. \A v \in Worker : v # c
      BY Kinds
    <2>7. PlaceInv'
      BY <2>1, <2>2, <2>4, <2>5, <2>6 DEF PlaceInv, Live
    <2>8. OrderInv'
      <3>1. \A q \in Queue : \A x, y : x # c => (Before(x, y, queue'[q]) <=> Before(x, y, queue[q]))
        BY <2>2, <2>4
      <3>2. \A q \in Queue : \A x, y : Before(x, y, queue'[q]) => Before(x, y, queue[q])
        BY <2>2, <2>4
      <3>3. ASSUME NEW q \in Queue, NEW v \in Worker, Pending(v, queue'[q]), phase'[v] # "queued"
            PROVE  \A x \in Worker \cup Dependency : ~Before(x, v, queue'[q])
        BY <2>1, <2>5, <2>6, <3>2, <3>3 DEF OrderInv
      <3>4. ASSUME NEW q \in Queue, NEW v \in Worker, Pending(v, queue'[q]),
                   NEW d \in needs'[v] \ ready'
            PROVE  Before(d, v, queue'[q]) \/ \E o \in Queue \ {q} : Pending(d, queue'[o])
        <4>1. Pending(v, queue[q]) /\ d \in needs[v] \ ready /\ d # c
          BY <2>1, <2>5, <2>6, <3>4
        <4>2. Before(d, v, queue[q]) \/ \E o \in Queue \ {q} : Pending(d, queue[o])
          BY <4>1 DEF OrderInv
        <4>. QED
          BY <2>5, <3>1, <4>1, <4>2
      <3>. QED
        BY <3>3, <3>4 DEF OrderInv
    <2>. QED
      BY <2>7, <2>8 DEF QueueInv
  <1>8. CASE UNCHANGED vars
    BY <1>8, QueuesUntouched DEF vars, Live, workers, deps
  <1>9. ASSUME NEW w \in Worker, Restart(w) PROVE QueueInv'
    <2>1. PICK r \in Request, v \in Worker :
             /\ Employ(r, v) /\ ready' = ready
             /\ phase[w] \in {"canceled", "completed"}
             /\ phase' = [phase EXCEPT ![w] = "reported", ![v] = "queued"]
      BY <1>9 DEF Restart, TypeOK
    <2>2. phase'[v] = "queued"
      BY <2>1 DEF TypeOK
    <2>3. \A u \in Worker \ {v} : phase'[u] # phase[u] => u = w /\ phase'[u] = "reported"
      BY <2>1 DEF TypeOK
    <2>. QED
      BY <2>1, <2>2, <2>3, EmployQueue
  <1>. QED
    BY <1>1, <1>2, <1>3, <1>4, <1>5, <1>6, <1>7, <1>8, <1>9
    DEF Next, ClientStep, WorkerStep

-----------------------------------------------------------------------------
(* The theorems. *)

\* The invariant holds when the engine is created.
LEMMA InvInit == Init => IInv
  <1>. SUFFICES ASSUME Init PROVE IInv
    OBVIOUS
  <1>1. TypeOK
    BY DEF Init, TypeOK, State, Phase, Caller
  <1>2. TablesInv
    BY RequestAssumption DEF Init, TablesInv, TablesMirror, LinkInv, FreshInv
  <1>3. CancelInv /\ SyncInv
    BY RequestAssumption DEF Init, CancelInv, SyncInv
  <1>4. QueueInv
    <2>1. \A q \in Queue : Len(queue[q]) = 0
      BY DEF Init
    <2>2. \A q \in Queue : \A x : ~Pending(x, queue[q])
      BY <2>1 DEF Pending
    <2>3. \A q \in Queue : Distinct(queue[q])
      BY <2>1 DEF Distinct
    <2>. QED
      BY <2>2, <2>3 DEF Init, QueueInv, PlaceInv, OrderInv
  <1>. QED
    BY <1>1, <1>2, <1>3, <1>4 DEF IInv

\* The invariant of the engine: everything below follows from it.
THEOREM Invariant == Spec => []IInv
  <1>1. IInv /\ [Next]_vars => IInv'
    BY TypeStep, TablesStep, CancelStep, SyncStep, QueueStep DEF IInv, QueueInv
  <1>. QED
    BY InvInit, <1>1, PTL DEF Spec

\* The variables keep their types.
THEOREM TypeCorrect == Spec => []TypeOK
  <1>1. IInv => TypeOK
    BY DEF IInv
  <1>. QED
    BY Invariant, <1>1, PTL

\* The engine's two tables always mirror each other and name live workers of
\* active requests only, for any number of requests and reused addresses.
THEOREM TablesAlwaysMirror == Spec => []TablesMirror
  <1>1. IInv => TablesMirror
    BY DEF IInv, TablesInv
  <1>. QED
    BY Invariant, <1>1, PTL

\* A worker that was canceled sends no update, and what cancelRequest() promised
\* to the client of a request that changes the store is kept.
THEOREM CancelIsKept == Spec => []CanceledNeverWrites
  <1>1. IInv => CanceledNeverWrites
    BY DEF IInv, CancelInv, CanceledNeverWrites
  <1>. QED
    BY Invariant, <1>1, PTL

\* A worker never starts before the dependencies that it needs have run, but for
\* those that wait in the other queue.
THEOREM DependenciesAlwaysServed == Spec => []DependenciesServedFirst
  <1>1. ASSUME IInv PROVE DependenciesServedFirst
    <2>1. SUFFICES ASSUME NEW q \in Queue, NEW w \in Worker, Contains(queue[q], w),
                          phase[w] # "queued", NEW d \in needs[w] \ ready
                   PROVE  \E p \in Queue \ {q} : Contains(queue[p], d)
      BY DEF DependenciesServedFirst
    <2>2. \A s, x : Contains(s, x) <=> Pending(x, s)
      BY DEF Contains, Pending
    <2>3. d \in Dependency
      BY <1>1 DEF IInv, TypeOK
    <2>4. ~Before(d, w, queue[q])
      BY <1>1, <2>1, <2>2, <2>3 DEF IInv, QueueInv, OrderInv
    <2>. QED
      BY <1>1, <2>1, <2>2, <2>4 DEF IInv, QueueInv, OrderInv
  <1>. QED
    BY Invariant, <1>1, PTL

\* A synchronous call of a trusted process returns true only when its request
\* was reported, unless the caller was left with a deleted task.
THEOREM SyncOkAlwaysReported == Spec => SyncOkMeansReported
  <1>. DEFINE Truthful == \A r \in Request : trusted /\ caller[r] # "ok" /\ caller'[r] = "ok" =>
                              state[r] \in {"finished", "canceled"}
  <1>1. ASSUME IInv, [Next]_vars PROVE Truthful
    <2>1. SUFFICES ASSUME NEW r \in Request, trusted, caller[r] # "ok", caller'[r] = "ok"
                   PROVE  state[r] \in {"finished", "canceled"}
      OBVIOUS
    <2>2. Wait(r) \/ Wake(r)
      <3>1. TypeOK
        BY <1>1 DEF IInv
      <3>2. ASSUME NEW s \in Request, ClientStep(s) \/ EndDestroy(s) \/ Attach(s) \/ TimeOut(s)
            PROVE  FALSE
        <4>1. caller' = caller \/ caller' = [caller EXCEPT ![s] = caller'[s]]
          BY <3>1, <3>2
          DEF ClientStep, Start, StartOfDeleted, StartRejected, Cancel, BeginDestroy, EndDestroy,
              Attach, TimeOut, Return, TypeOK, waiter
        <4>2. s = r
          BY <2>1, <3>1, <4>1 DEF TypeOK
        <4>3. Start(s) => caller'[s] \in {"started", caller[s]}
          BY <3>1 DEF Start, TypeOK
        <4>4. TimeOut(s) => caller'[s] = "error"
          BY <3>1 DEF TimeOut, Return, TypeOK
        <4>5. StartOfDeleted(s) \/ StartRejected(s) \/ Cancel(s) \/ BeginDestroy(s) \/ EndDestroy(s)
                  \/ Attach(s) => ~trusted \/ caller'[s] \in {"attached", caller[s]}
          BY <3>1 DEF StartOfDeleted, StartRejected, Cancel, BeginDestroy, EndDestroy, Attach, TypeOK,
                      waiter
        <4>. QED
          BY <2>1, <3>2, <4>2, <4>3, <4>4, <4>5 DEF ClientStep
      <3>3. ASSUME NEW s \in Request, s # r, Wait(s) \/ Wake(s) PROVE FALSE
        BY <2>1, <3>1, <3>3 DEF Wait, Wake, Return, TypeOK
      <3>4. ASSUME NEW w \in Worker, WorkerStep(w) PROVE FALSE
        BY <2>1, <3>1, <3>4, ZenonT(40)
        DEF WorkerStep, Exec, RunFetch, TurnIrreversible, RunWrite, Decide, Report, Restart,
            DeleteTask, TypeOK, waiter
      <3>5. ASSUME NEW q \in Queue, NEW d \in Dependency, RunDependency(q, d) PROVE FALSE
        BY <2>1, <3>5 DEF RunDependency, waiter
      <3>6. CASE UNCHANGED vars
        BY <2>1, <3>6 DEF vars, waiter
      <3>. QED
        BY <1>1, <3>2, <3>3, <3>4, <3>5, <3>6 DEF Next, CallerStep
    <2>3. caller[r] \in {"attached", "waiting"} /\ saw[r] # "nothing"
      <3>1. CASE Wake(r)
        BY <3>1 DEF Wake
      <3>2. CASE Wait(r)
        <4>1. caller[r] = "attached"
          BY <3>2 DEF Wait
        <4>2. CASE saw[r] = "nothing"
          BY <1>1, <2>1, <3>2, <4>2 DEF Wait, IInv, TypeOK
        <4>. QED
          BY <4>1, <4>2
      <3>. QED
        BY <2>2, <3>1, <3>2
    <2>. QED
      BY <1>1, <2>3 DEF IInv, SyncInv
  <1>2. IInv /\ [Next]_vars => [Truthful]_vars
    BY <1>1
  <1>. QED
    BY Invariant, <1>2, PTL DEF Spec, SyncOkMeansReported

=============================================================================
