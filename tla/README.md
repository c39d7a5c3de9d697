# TLA+ specifications of qtcontacts-tracker

qtcontacts-tracker is the QtContacts plugin that stores contacts in Tracker, a
SPARQL store. These modules specify the concurrent core of the plugin: how
client requests become background work, how that work is run, cancelled and
thrown away, how changes in the store become signals, how the caches behind
all that are filled, what the requests that edit the store do to it and tell
their clients when parts of them fail, and how contacts are stored, read and
found. TLC checks them on small instances, TLAPS
proves the central ones for every instance.

`PROJECT.json` lists the runs, the mutations that each property must notice,
the source lines of every definition, the findings, and the hazards that the
properties are aimed at. Its paths start at the root of the project, so that the
plugin's code is under `src/src/` and its tests are under `src/tests/`; the paths in
this file and in the comments of the modules are those of the code, without `src/src/`.

## 1. The system

| Component | Source | State | Operations | Module |
|---|---|---|---|---|
| Task queue | `lib/queue` | queue of tasks, closed or open; a background thread with an event loop | `enqueue`, `dequeue`, `processQueue`, destructor | `TaskQueue` |
| Engine tasks | `engine/tasks`, `lib/resolvertask` | a worker or a resolver each | `run`, `finished`, reaction to the request's signals | `TaskQueue`, `RequestLifecycle` |
| Request workers | `engine/abstractrequest` | `m_canceled`, `m_cancelable` | `exec`, `cancel`, `turnIrreversible` | `RequestLifecycle` |
| Engine, request lifecycle | `engine/engine` | tables request ↔ worker, two queues, satisfied dependencies | start, cancel, destroy, synchronous calls | `RequestLifecycle` |
| Change listener | `lib/trackerchangelistener` | queued notifications, coalescing timer, resolved ids | graph changed, timer, ids resolved | `ChangeListener` |
| Resolvers and resource cache | `lib/sparqlresolver`, `lib/resourcecache` | process-wide map IRI ↔ tracker:id | `lookup`, `lookupAndWait`, `prefill` | `SparqlResolver`, `ResolverOps` |
| Save request | `engine/contactsaverequest` | contacts, their IRIs, error map, detail mask | resolve, normalise, update, resolve back | `SaveRequest`, `UpdateBuilder`, `ContactDetails` |
| Remove request | `engine/contactremoverequest` | ids, error map | chunked deletion | `RemoveRequest` |
| Merge request | `engine/contactcopyandremoverequest` | id pairs, predicates, sync targets | copy, delete | `MergeRequest` |
| Unmerge request | `engine/contactunmergerequest` | online accounts, predicates | one new contact per account | `UnmergeRequest` |
| Relationship requests | `engine/relationship*request` | relationships, error map | save, remove, fetch | `RelationshipRequests` |
| The requests together | `engine/*request`, Tracker | the stored statements | one request per queue at a time | `StoreRequests`, `TrackerStore` |
| Fetch requests | `engine/*fetchrequest`, `lib/contactlocalidfetchrequest` | filter, order, limit, contacts by id | ids, a query for each schema, sorting, merging | `FetchRequest`, `DetailQueries`, `ContactDetails` |
| GUID algorithm | `engine/guidalgorithm` | hash of the hardware, closures | `callWhenReady`, `notifyReady`, answers of the SIM card | `GuidAlgorithm` |
| Schema of the DAO | `dao/contactdetailschema`, `contactdetail`, `contactdetailfield`, `resourceinfo`, `subject` | static tables | lookups | `DetailSchema` |
| Query builder of the DAO | `dao/scalarquerybuilder` | none | projections, filters, orders | `DetailQueries`, `ContactFilters`, `FetchRequest` |
| Settings, thread-local data, labels, definitions | `lib/settings`, `lib/threadlocaldata`, `lib/sparqlconnectionmanager`, `engine/displaylabelgenerator` | values, tables | read, write | not modelled |

How they interact. A client thread calls the engine, which puts a task for the
request, and before it the tasks of its dependencies, into one of its two
queues. The queue's thread runs the tasks one by one; a request's task executes
its worker, which talks to the store and asks resolvers for ids; resolvers of
all threads share one cache. The worker reports into the request under the
engine's recursive mutex `m_requestLifeGuard`, and the request's signals come
back to the task, which then emits `finished()` and is deleted. Independently
of that, Tracker announces changes of the store to the change listener of each
thread, which coalesces them into the signals of the contact manager.

What is hard in it: clients cancel, restart and delete requests from any thread
and from within signal handlers; tasks are deleted by posted events while their
queue is closed by another thread; addresses of workers are used again; the
synchronous API holds bare pointers of objects that another thread deletes;
results of queries are matched with keys by position; and many of the requests
go on after a part of them failed. How a contact is stored is declared once, in
the schema, but read off it by three algorithms that know nothing of each other:
the update of the save request, the projections and the filters of the query
builder; and the details of a contact share resources with those of others, and
with what other programs write.

What makes each part correct:

- *Task queue*: tasks run one at a time, once, in the order they were put in;
  no wake-up is lost; the destructor returns and leaves nothing behind but the
  task it left to finish.
- *Requests*: the tables agree and never name a deleted worker; a request is
  active exactly as long as a worker will report into it; a canceled worker
  does not write; a synchronous call says what happened.
- *Change listener*: a client that follows the signals knows what exists and
  hears of each change it asked for, whatever came together into one batch.
- *Resolvers*: an answer belongs to its key, and so does an entry of the cache.
- *Save request*: errors and ids are those of the contacts they are reported for;
  what a client saves can be read again, what it dropped is gone, from whatever
  copy it was saved, and nobody else's details and statements change.
- *Fetch requests*: a contact that matches is given once and in its place, though
  it takes several queries to find them all; errors are at the positions of the
  ids that are missing; a filter finds the contacts that show what it looks for.
- *GUID algorithm*: who waits for the SIM card is told of its answer, and no
  destructor or call waits for ever for somebody who waits for it.
- *Remove request*: what a removal without a query error was given is gone,
  over all chunks, but for the self contact, which is never removed and has its
  errors where the client named it.
- *Merge and unmerge requests*: a merge loses no detail of its sources and no
  MFE account, and its update cannot contradict itself; an unmerge loses no
  account, and every id it reports is a contact with the account it is for.
- *Relationship requests*: `relationships()` tells what was saved and not
  removed since, each relationship once, although it asks twice.

## 2. The modules

**`QueueOps`** holds the two operations of a Qt list that the queues use.

**`TaskQueue`** (`lib/queue.cpp`, `engine/tasks.cpp`). The variables are the
queue, the life of each task object, the events posted to the background
thread in their order, and where that thread and the destructor are. A
critical section of `m_queueMutex` is one step; between two of them other
threads go on, so `Destroy` (the destructor of a task emits `destroyed()`) and
`Dequeue` (it got the mutex) are two actions. Qt's event loop is external: it
delivers posted events in order, and `QThread::quit()` takes effect after the
present pass.

**`SerialExecutor`** is what the queue promises to its users, with three
variables: the tasks seen, those that wait, the one that runs. `TaskQueue`
implements it under the refinement mapping at its end, with its destructor and
abandoned requests included.

**`RequestLifecycle`** (`engine/engine.cpp`, `tasks.cpp`, `abstractrequest.cpp`).
What runs under `m_requestLifeGuard` is one step, signal handlers included;
`exec()` of a worker is split where it releases its own lock; the synchronous
call is split into what `runSyncRequest()` does before, while and after it
constructs a `QctTaskWaiter`. Workers are addresses, taken again after they
are freed. The queues are the serial executors that `TaskQueue` implements.
A client's slot of `stateChanged()` may run before the task's own (`Restart`):
if it starts the request again, `onStateChanged()` finds that the request has
another worker and returns without `finished()`, so that the task stays in its
queue, connected to the request's `destroyed()`, until the client destroys it.

**`ChangeListener`** (`lib/trackerchangelistener.cpp`). The lists of quads are
sets (the signals are sets, and no decision depends on order or number); the
predicates are the six that `processNotifications()` tells apart. Next to the
listener the module has the store that causes the quads, and a client that
follows the signals: `view` is what it believes, `owed` what it has to be told.

**`ResolverOps`, `SparqlResolver`** (`lib/sparqlresolver.cpp`,
`resourcecache.cpp`). IRIs and ids are in a fixed one-to-one relation in
Tracker, so a resource stands for both and `Nil` for the empty IRI and the id
zero. One step reads the cache for one key, sends one query, or puts one
column into a slot and into the cache, so lookups of several threads
interleave there. A lookup that is restricted to contacts asks for all its keys
in one query (`TypedQuery`), which may fail, puts each pair of the result into
the shared cache and into its local one (`TypedRow`), and answers from the latter
(`TypedDone`); contacts come and go between these steps, and other lookups fill
the cache.

**`SaveRequest`** (`engine/contactsaverequest.cpp`). One action for each way a
contact can leave the loop of `run()`. The lookup at the end uses the same
slot-matching operator as `SparqlResolver`. An update is abstracted to the
contact it stores and the two avatar details that it may write; other
processes remove and restore contacts between all steps.

**`TrackerStore`** is Tracker as far as the requests below see it: a set of
statements, each with the graph it is in or with none. An update happens as a
whole or not at all; it fails if it gives a second value to a property that
has room for one.

**`RemoveRequest`, `MergeRequest`, `UnmergeRequest`, `RelationshipRequests`**
(`engine/contactremoverequest.cpp`, `contactcopyandremoverequest.cpp`,
`contactunmergerequest.cpp`, `relationship*request.cpp`, `relationships()` of
`engine.cpp`). Each request is a record with a phase `pc`; each query or update
it sends is one action, because other queues and programs act between two of
them: a merge reads its contacts one by one and writes all at once, a removal
writes chunk by chunk, `relationships()` reads twice. The text of a query is
modelled by the statements it matches, inserts and deletes; what the code
leaves to the order of a hash is a choice.

**`StoreRequests`** composes them over one store: a queue whose requests merge,
unmerge, edit relationships and fetch one at a time, as `TaskQueue` shows it
does, and a removal in another queue or program in between. `Scenarios` says what is
stored at first and which requests there are.

**`FetchRequest`** (`engine/abstractcontactfetchrequest.cpp`, `contactfetchrequest.cpp`,
`contactfetchbyidrequest.cpp`, `contactidfetchrequest.cpp`). One request at a
time: the query for ids of a limited and sorted request, one query for each of
the two schemas, and the merging, sorting and cutting of what they gave, each
query a step. A contact is the value it is sorted by, and a sort order one that
the query builder translates or not, by schema (`native`).

**`DetailSchema`** (`dao/contactdetailschema.cpp`, `contactdetail.cpp`,
`contactdetailfield.cpp`, `resourceinfo.cpp`) is every detail of persons and
groups as a record, with its fields, their chains of properties and flags, in
the words of the source, and the lookups in these tables.

**`UpdateBuilder`** (the class in `engine/contactsaverequest.cpp`) is the update
of one contact as a function from the store to the store: its deletions by
chain, by content and by mask, the resources for foreign keys, the insertions
with affiliations, subtypes and custom values, and the statements that are
preserved or enforced, in the order of the query string.

**`DetailQueries`** (`dao/scalarquerybuilder.cpp`, `abstractcontactfetchrequest.cpp`)
is what a fetch request makes of the statements about a contact. A projection
is the values at the end of its chain with the graph that owns them; joining
them into the text of a cell and splitting it again is modelled by what gets
lost in it (`OneOf`, `Required`). **`ContactFilters`** is the other half of the
query builder, the conditions that filters become.

**`ContactDetails`** puts these together: clients that create, fetch, edit and
save contacts from copies, and other programs that write about them.

**`GuidAlgorithm`** (`engine/guidalgorithm.cpp`, with the task and the waits of
the engine). `callWhenReady()` runs in the threads of the queues without a lock,
everything else in the main thread's event loop, which a synchronous call or a
destructor blocks. `enqueue()` is two steps, as nothing serialises it; the array
it writes is that of one thread at a time that has read its end.

The `MC*` modules give the constants their values; `*Proofs` hold the proofs,
and `SequenceFacts` the lemmas about sequences that they need.

## 3. The runs

| Run | Shows | Instance |
|---|---|---|
| `queue` | the queue is a serial executor, closes cleanly, and in the end every task and the destructor are done | four tasks: a plain one, an asynchronous one, two of requests |
| `request` | tables, cancellation and the lives of tasks agree; requests and workers end, but behind a request that was restarted from a slot | a save and a fetch request, a synchronous call with a timeout, two worker addresses, or three for two of the requests |
| `listener` | no change is lost, invented or left unsignalled, but for what `IgnorePresenceChanges` drops | a group and a contact, each filter mode, failing queries |
| `resolver` | a key gets its own answer, in the list and in the cache; contacts that are gone are not reported | lists of up to three IRIs, in two queries, of two ids, or of two contacts; in a second thread one id, or one contact; two resources |
| `resolver_chunks` | *violation*: with several queries a key gets another's id | three resources, one column per query |
| `save` | errors and ids belong to their contacts | all lists of three contacts of six kinds, failing queries, removals meanwhile |
| `save_mask` | *violation*: a thumbnail makes later contacts lose their avatars | two contacts |
| `contacts` | removals are exact; merges and unmerges lose nothing; relationships are what was saved; fetch requests give each match once, in order, within the limit and at its position | the scenarios below |
| `unmerge_shared` | *violation*: unmerging one of two addresses of an affiliation loses the other | one contact |
| `details` | what is saved is read again, what was dropped is gone, other contacts, programs and details keep theirs, creation time, GUID and sync target follow their rules, filters find what is read | two contacts, three saves, most kinds of details |
| `guid` | who waits for the SIM card is told, but for a race on the closures, which a lock would prevent | two engines |
| `guid_shutdown` | *violation*: a destructor and the main thread's event loop wait for each other | one engine |

A run that is marked *violation* checks a sentence of the repository that the
code does not keep; `PROJECT.json` quotes it under "findings".

Some properties hold under a condition that the findings and hazards make
necessary; it is part of the property or of the instance, never hidden in the
model:

- `NothingForgotten` is about the modes other than `IgnorePresenceChanges`,
  which loses changes that share their batch with a presence update.
  `NoSpuriousChange` and `ViewCatchesUp` hold in all three.
- `DependenciesServedFirst` is about one queue: a dependency that waits in the
  other one is overtaken. `SyncOkMeansReported` is about processes with the
  necessary tokens: a call that is rejected passes on the error of the untouched
  request.
- `EveryRequestEnds` and `EveryWorkerEnds` except the asynchronous queue while it is
  `Stalled`: in it is the task of a worker that reported to a request which a
  client's slot restarted then. Everything behind it, the
  restarted request included, waits until the client destroys that request. Without
  the exception TLC finds both violated, though `engine/engine.cpp:1747` means to
  "ensure old worker got destroyed when request gets reused". The queue of the
  synchronous API is not excepted.
- `resolver` keeps to what works (`Usage = "fits"`): keys that the store does
  not know, and `lookup()`, only in lists that fit one query, longer lists with
  `lookupAndWait()` and known keys; and no IRIs of unknown ids.
  `resolver_chunks` drops this: keys and answers no longer match.
- `save` looks its ids up within one query (`ColumnLimit` 3) for that reason.
- `MergeKeepsData` is about merges of which no contact was removed after the
  merge had read it: a value that was noted for a source that is gone keeps the
  other sources' out. A merge of a contact that has nothing in a graph ends
  silently without an error (`NothingInGraphs`) and merges nothing.
- `LimitIsKept` asks for the first ones of the order only where the request did
  not fall back to sorting in memory, after its limit was applied.
- `FiltersAgree` leaves out values that stand for missing ones (a phone without
  subtypes is shown as `Voice`, and not found as one), lets a wildcard for a
  context be one for its detail, as the code does, and names one disagreement
  that the run found: a partial save of URLs deletes `nco:url` on the
  affiliations but neither `nco:websiteUrl` nor `nco:blogUrl`, as
  `deleteMaskedContactProperties()` skips fields with subtypes, so a filter for
  the subtype still finds the contact (`LeftBehind`).
- `OthersAreKept` excludes an online account that is saved: its resource is one
  for all contacts that have it, and gets the content of the last save.
- `EveryGuidTaskEnds` excepts tasks whose closure was written after the answer had
  come, or was overwritten (`raced`): these wake-ups are lost, and nothing in the
  code prevents it. `LockSuffices` excepts nobody, but supposes that calls of
  `callWhenReady()` overlap neither with each other nor with the answer; it says
  what the lock would give that the code lacks.
- `SavedIsRead`, `NothingLeft` and `OthersAreKept` leave out `Timestamp`, `Guid` and
  `SyncTarget`, which every save writes by itself; `IdentityIsKept` is about them.
  `ForeignIsKept` leaves the sync target to it, too: a save may replace it in
  whatever graph it is.
- `ContactPerAccount` is checked without a removal during the unmerge, of which
  the update would then match nothing.

Bounds. Nothing is cut off by a bound on steps: tasks are not reused (an address is
only looked at while its task lives), requests and workers are, and the store of the
listener never uses an id again, as Tracker does not. What is small is the number of
objects. In the queue the interesting cases need a task that runs, one that waits
behind it and one that is refused or abandoned; in the lifecycle two requests on one
queue, one on the other, and fewer addresses than starts: `MCInit` starts with all
three requests and two addresses, or with the save and one of the others and three
addresses, so that a worker can be made while another one waits behind the task of a
restarted request. A listener treats contacts independently of each other but for
membership, which takes a group and a contact. `ColumnLimit` is 250 in the code;
what matters is a list longer than it (limits 1 and 2) or not (limit 3). Resources
are symmetric in `resolver`: no key or id is treated specially but the empty one,
which is a constant. There a restricted lookup has up to two keys, one that is a
contact and one that is none any more, while the other resolver fills the cache with
either.

The scenarios of `contacts` are four families: a merge of two contacts or of one, of
one that does not exist or without an id, of contacts with five choices of details
that have one value or several and a graph or none, while one of three lists of
contacts is removed with one per query (the destination, a group and the self
contact twice; a source; the self contact alone); merges of contacts with each
combination of sync targets; one or two contacts with two accounts, of which
contactsd wrote what it knows into a graph or a client did, that are merged, with
success or not, and unmerged, before or after it; and relationships of two groups,
one of them a member of itself, that may become a member of the other one, with all
reasons for rejecting one, while contacts and groups are removed. The relationship
requests go on for ever, so that what they saved and removed before matters.

In the same run fetch requests of every kind, with and without order, limit and
ids that are missing or repeated, read groups and persons while contacts are
removed.

In `details` the first contact is made of one of two lists of details that between
them have most of the schema (subtypes by class, by property and of the client's
own, contexts, foreign keys, files, instances, accounts, custom details), the second
one shares resources with it. Five edits drop, replace or add details, with and
without a mask, and the sync target with them; a copy may be fetched before or after
any save; contactsd writes an account with its presence, or makes a contact with the
weak sync target that goes with its account (`telepathy`, the default of the
engine's weak targets), a social provider a name. Three saves (`Clock`) are enough
for a contact to be saved in full, in part and from an old copy in each order; a
fourth could only meet what an earlier one left, which each property compares with
the client's meaning after every save. About forty filters are evaluated in every
state.

In `guid` the closures of two engines are enough for one to be read, written
and lost by another's thread; a third could only tear the array further, which
is not followed, nor is what happens when the program closes down.

Deadlock is not checked: clients need not ask for anything, and each system
comes to rest when they do not.

Fairness is assumed of threads that the operating system schedules and of
posted events, never of clients: `Fairness` of `TaskQueue` names the event
loop, a running task and the destructor; that of `RequestLifecycle` the
workers, and a destructor or a synchronous call once it was entered; that of
`ChangeListener` its event loop, its timer and its queries; that of
`GuidAlgorithm` the threads of the queues, and strong fairness of what the main
thread's event loop delivers, as clients come back to it after each call that
returns. A task of the
queue that never returns, or a query that never ends, is outside of them. The
runs `queue`, `listener`, `guid` and `guid_shutdown` use `FairSpec`, and `request`
uses `MCSpec`, which has the same `Fairness` and fewer initial states; the requests of
`StoreRequests` are straight lines that end when their queries do, so nothing
is asked of their liveness.

## 4. The proofs

TLC checks small instances; the theorems hold for every value of the constants
that meets the named assumptions of the modules and, where a row says so, one
more hypothesis. The instances of the passing runs meet each of these, so the same
properties are checked there too, and TLC agreed with each inductive invariant
before it was proved.

| Module | Theorems | For every | Hypothesis |
|---|---|---|---|
| `TaskQueueProofs` | `TypeCorrect`, `TasksRunOneAtATime`, `TasksRunOnce`, `HeadAlwaysServed`, `ShutdownLeavesOne`, `QueueIsExecutor` | set of tasks | |
| `RequestLifecycleProofs` | `TypeCorrect`, `TablesAlwaysMirror`, `CancelIsKept`, `DependenciesAlwaysServed`, `SyncOkAlwaysReported` | set of requests, workers, queues, dependencies | |
| `ChangeListenerProofs` | `TypeCorrect`, `PendingIsAlwaysTimed`, `ViewAlwaysCatchesUp`, `NothingIsForgotten`, `NothingIsInvented` | set of contacts | the mode, for `NothingIsForgotten` |
| `SparqlResolverProofs` | `CacheIsSound`, `AnswersAreRight`, `DeletedStaysUnreported` | number of resolvers, lists of any length | `Usage = "fits"`, but for the last |
| `SaveRequestProofs` | `ReportedIdsAreExact`, `ReportedErrorsAreExact` | list of contacts | `CarefulClients` |
| `StoreRequestsProofs` | `RemovalsAreExact`, `RelationsAreFound` | store, lists, column limit | `SelfIsSafe`, `OnlyRelations` |
| | `FetchesAreExact`, `OrderAlwaysKept`, `LimitAlwaysKept`, `PositionsAreRight` | store, number of contacts, calls | `OnlyReads` |
| | `MergesAreComplete` | store, merges of any size, order of the update | `SelfIsSafe`, `MergesAreApart` |
| | `AddressesAreKept` | store, lists of accounts | `SelfIsSafe`, `AccountsAreApart` |
| | `AccountsHaveContacts` | store, lists of accounts | `SelfIsSafe`, `EachAccountOnce` |
| `GuidAlgorithmProofs` | `LockIsEnough`, `OnlyRacesLoseWakeUps` | number of engines | `[]Serialised` is part of `LockSuffices`, and the code does not ensure it; the other one excepts who raced |

Every proof is the same argument: an invariant that holds in the initial states,
that each action keeps, and that implies the property. What it needs beside the
property is what the code relies on without saying it.

*`TaskQueueProofs`*. `IInv` says which events a
task can have posted for each status and that each is posted once, that the
head of an open queue is the only task that was called, that tasks in the
queue are those that are owned, and, once the queue is closed, that only the
spared task can still run. `OneAtATime` alone is not inductive: that no two
tasks run rests on no two `run` events being posted, and that on a `destroyed()`
being handled once. `QueueIsExecutor` uses the same invariant: each action of the
queue is, under the mapping at the end of `TaskQueue`, a step of `SerialExecutor`
or none.

*`RequestLifecycleProofs`*. The tables of the engine are inverse to each other only
because a request is active for a live worker whose task is connected to its
`destroyed()`. After a restart several tasks are, so `links` is a set; `LinkInv`
says that they are all live and did not emit `finished()`, that the tables know them
for this request or for none, and that no task is connected to two. And an address
that is free has no traces of its last worker (`FreshInv`). That a canceled worker
does not write is `CancelInv`: `canceled` and irreversible exclude each other, and a
promise that was made to the client is in the worker. A dependency that is still
needed is before the worker in its queue or in another queue (`OrderInv`), as
`dequeue()` only takes the head and a canceled worker out of the middle; `PlaceInv`
says that nothing is in two queues. `SyncInv` is about the three places a
synchronous caller can be in.

*`ChangeListenerProofs`*. `TypeOK`,
`PendingIsTimed` and `NoSpuriousChange` are inductive with the types.
`ViewCatchesUp` needs that a removed contact is gone for good
(`RemovedAreGone`): then sets are enough, as a batch's removal always comes
after its creation. `NothingForgotten` is proved for the modes without
`IgnorePresenceChanges`, where changes that share a batch with a presence
update are lost: owed changes
are in the quads that wait, and adding quads never shrinks what is told.

*`SparqlResolverProofs`*. The columns that a query asks for are the keys of the
slots that are still open, in their order. `Places` keeps that relation while the
columns of a row are put into the slots one by one and other threads fill the cache:
there is a list of the open slots that the rest of the row and the columns that
follow it match position by position. It is lost where a list needs more than one
query, so `Usage = "fits"` says that lists fit into one or are all known; the run
`resolver_chunks` shows what happens otherwise. `DeletedStaysUnreported` does not
need that, and has an invariant of its own (`ContactsInv`): what is no contact when
the lookup begins cannot become one again, so it is not in the rows of the query's
result, and neither in the local cache that they are put into, whatever gets into
the shared one.

*`SaveRequestProofs`*. `IriIsGood` says where an IRI can come from, `ErrorsHold`
which contacts of those visited are saved. The answers are put back into slots
with a fold over the columns (`FillIn`); `PutSoFar` is its invariant.
`CarefulClients` asks for lists within the column limit, and that no contact of
another manager has the id of one that is saved.

*`StoreRequestsProofs`*. `RemovalHolds`: whoever a removal's list names is in
what is left of the list, or gone. That nobody else brings a removed contact back,
and that the self contact stays, has to be shown of the merge, the unmerge and the relationship
requests, whose updates are folds: `MergeHolds` and `UnmergeHolds` say what they
noted when they read, and the fold lemmas (`MergeAllFacts`, `SplitAllFacts`)
that their updates say something new only of contacts that exist, or of the ones that an
unmerge makes. `SelfIsSafe` asks that the self contact exists and is not the source of a
merge, and that a list does not name contacts that are yet to be made.
`RelationsAreFound`: what a client saved and did not remove is what the store
says between contacts that exist (`SavedHolds`), and the first of the two queries
finds it for the first role although contacts are removed before the
second one. `OnlyRelations` excludes that the client merges contacts meanwhile.

The four theorems about fetch requests share the invariant `FetchHolds`. While a
request reads, its cache has contacts that matched when it was called, with the keys
they had then, and everybody who matches and whose schema was read, unless the
limit was reached (`CacheHolds`, `ListsHold`). The lists of the schemas have nothing in common,
although a group is also a contact; that they can be merged without losing, doubling or
misplacing anybody is the induction in `MergeListsFacts`, over the
contacts that `mergeContactLists()` inserts, in whatever order the lists are
taken out of the hash. Where the ids were found before (`PresortedHolds`), the limit can no longer
stop a query, as a list without repetition has no more contacts than positions;
who was removed meanwhile is left empty. `OnlyReads` excludes that contacts are
merged or split while they are read, and asks that contacts are sorted by numbers; other
engines may remove contacts, and edit relationships, between any two queries.

The three theorems about merges and unmerges compare the store before and after
an update, which is one step: a fold over accounts (`SplitOff`), or a fold over
destinations of folds over their sources (`MergeInto`, `CopyFrom`). Each has
two parts. One is an invariant over the queries before the update: what was read is
still what the store says, although the other requests run between.
`UnmergeKnows` says that the predicates and affiliations that an unmerge read are
those of its source, or nobody has the source any more; `SplitsKnow` adds what
`ContactPerAccount` needs, that the contacts to be made do not exist and, after the
update, that the ids to be resolved are of contacts that have their accounts.
`MergesKnow` says that what was noted of each contact whose query was answered is
still what it has, or it is gone; that what is noted is sorted by one or several
values as the schema has it; and that no contact of a merge is one that an
unmerge makes later. The other part is about the
update alone, what is true after its first *n* steps: of the accounts split off so
far (`SplitReady`, `SplitWell`) and of the sources copied so far (`CopiedSoFar`,
`MergedSoFar`), that a value is at the destination, or was kept out by one that is
noted there, and is there too. `FoldReaches` in `SequenceFacts` is the rule
for this: if each step leads from `A[n - 1]` to `A[n]`, the fold ends in `A[Len]`.
That `merge` never reports a `conflict` is the same argument: what was copied
is noted, so no second value is written.

What the hypotheses ask is what the code relies on. `AccountsAreApart`: when the
requests start, an affiliation has one address, and one in the graph of an
account has that account's; the resources an unmerge makes are new. The run
`unmerge_shared` shows what happens where two addresses share an affiliation.
`EachAccountOnce`: also, a client names no account twice, an account has one
affiliation whose statements are in one graph, and no contact is removed
meanwhile. `MergesAreApart`: no contact is merged into two or into
one that is merged itself; a property of one value has one, and is in graphs for
all contacts or for none, as the save request writes it; sync targets are in the
engine's graph.

*`GuidAlgorithmProofs`*. `NoWakeUpLost` is inductive with the types and with
`ReadyInv`: before the GUID is there no closure is out of the array. That says who
can lose a wake-up, not that nobody does: the race is real. `LockIsEnough` proves
what is missing: while no two threads are in `callWhenReady()`, and no answer comes
meanwhile (`Serialised`), each closure is written at the end of the array
(`EndInv`), nobody races, and every task that waits will be called.

`SequenceFacts` has what these share: lists and their orders, the smallest and
largest position, and folds. The library's induction theorems cannot be used, as
they take an operator as a parameter; `SetInduction` is the same principle for a
set of numbers, and `ChainExists` builds the function by which a fold is
defined. That is enough for the folds whose steps are known; what a recursive
function computes is not proved.

Left to TLC: every liveness property (the provers know nothing of fairness), and
the properties of `ContactDetails`, which depend on the tables of the schema, which
are what they are and not a parameter; `FiltersAgree` also depends on a filter's meaning, a
recursive operator that the provers cannot use. The runs `resolver_chunks` and `unmerge_shared`
show what happens outside the hypotheses of the theorems.

## 5. Not modelled

- The text of queries and its syntax; conversions of dates, numbers and
  booleans; the text of a GUID.
- Of the save request `mangleAllSyncTargets()`, the files of thumbnails, and the
  garbage collector's call. Deletions of objects that are found by a foreign key
  are left out as they are empty for these schemas.
- Of the fetch requests the display label, the global presence and the preferred
  details, which are computed from the others.
- Of the filters those for relationships and contact types, numbers with DTMF
  codes, and the ones that are refused.
- `waitForRequestFinished()`: its nested event loop, of which each waiting client
  has one, would multiply the states of `RequestLifecycle`. It reads the state of
  the request before it connects to its signal (`engine/engine.cpp:500`).
- Settings, which are registered once for the process without a lock
  (`lib/settings.cpp:150`), thread-local data and connections, display labels and
  the editing of detail definitions: values that the other modules take for granted.
- Slots of clients that run before the task's own slot for `stateChanged()`, other
  than those that start the request again.
- What happens after undefined behaviour: a synchronous call that holds a task
  which is already deleted stays `"dangling"`.
- The plugin factory, tools, benchmarks and tests.

## 6. Plan

1. *Done*: `TaskQueue` with its abstract specification and proofs,
   `RequestLifecycle`, `ChangeListener` with proofs, `SparqlResolver`,
   `SaveRequest`, and the removal, merge, unmerge, relationship and fetch requests
   in `StoreRequests`; the schema with the update, the queries and the filters
   that are made from it in `ContactDetails`; `GuidAlgorithm`.
2. *Done*: the proofs above, of every safety and action property that the passing
   runs check but those of `ContactDetails`.
3. An abstract specification of the request API (start, cancel, one report)
   that `RequestLifecycle` implements, and one of the change feed for
   `ChangeListener`; clients that wait for requests.
4. Filters for relationships, and the members of a group as a client sees them
   when it reads the group.
