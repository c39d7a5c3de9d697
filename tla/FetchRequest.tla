----------------------------- MODULE FetchRequest -----------------------------
(* The requests that read contacts: engine/abstractcontactfetchrequest.cpp    *)
(* with its two subclasses, contactfetchrequest.cpp and                       *)
(* contactfetchbyidrequest.cpp, and engine/contactidfetchrequest.cpp, which   *)
(* fetches ids.  Contacts are read with one query for each schema, so a       *)
(* request sees the store at several moments; the contacts of a limited and   *)
(* sorted request are found with a query for their ids before that.           *)
(*                                                                            *)
(* A contact is what it is sorted by here; what else is read of it is in the  *)
(* module DetailQueries.                                                      *)
EXTENDS TrackerStore, Integers, SequencesExt

CONSTANTS
    Calls  \* what clients ask for

\* A request for all contacts or for the ones with an id; by which schemas the
\* store can sort, where it is sorted.
Call ==
    [kind : {"contacts", "contact", "byId", "ids"}, all : BOOLEAN, ids : Seq(Contact \cup {Zero}),
     limit : Int, sorting : BOOLEAN, native : SUBSET {"contact", "group"}]

\* A request by id has an id filter, and is not sorted; contact() makes a request
\* for one id.
ASSUME FetchAssumption ==
    \A call \in Calls :
        /\ call \in Call
        /\ call.kind \in {"byId", "contact"} => ~call.all /\ ~call.sorting
        /\ call.kind = "contact" => Len(call.ids) = 1 /\ call.limit < 0

VARIABLE fetch

Unlimited == -1

\* schemas(): a QMap, so the schema of groups is the last.
Schemas == <<"contact", "group">>

NoCall == [kind |-> "contacts", all |-> TRUE, ids |-> << >>, limit |-> Unlimited,
           sorting |-> FALSE, native |-> {}]

NoFetch ==
    [pc |-> "idle", call |-> NoCall,
     all |-> TRUE, ids |-> << >>,        \* m_filter: all contacts, or the ones with an id
     sorting |-> FALSE,                  \* m_sorting
     presorted |-> FALSE,                \* isSortedAlready
     schema |-> 1, cache |-> << >>,      \* the contacts read so far, by id
     lists |-> << >>,                    \* m_sortedIds, one list for each schema
     canceled |-> FALSE, error |-> "none", errors |-> {}, contacts |-> << >>,
     fellBack |-> FALSE, start |-> << >>] \* history

\* What the client sees of a contact.
Copy(id, key) == [id |-> id, key |-> key]
EmptyContact == Copy(Zero, 0)

-----------------------------------------------------------------------------
\* What is in the store

IsGroup(db, c) == "group" \in Values(db, c, "type")

\* Mutant of OfSchema: the query for groups is not restricted to their class.
OfBaseClass(db, schema) ==
    {c \in {q.s : q \in db} : Exists(db, c) /\ (IsGroup(db, c) => schema = "group")}

\* contactClassIris(): a group is a nco:ContactGroup and a nco:Contact, any
\* other contact is a nco:PersonContact.
OfSchema(db, schema) ==
    {c \in {q.s : q \in db} : Exists(db, c) /\ (IsGroup(db, c) <=> schema = "group")}

\* The value by which contacts are sorted, those without one first.
Key(db, c) == IF Values(db, c, "nickname") = {} THEN 0
              ELSE CHOOSE k \in Values(db, c, "nickname") : TRUE

Matching(db, schema, all, ids) ==
    {c \in OfSchema(db, schema) : all \/ c \in ToSet(ids)}

InOrder(db, list) ==
    \A i, j \in DOMAIN list : i < j => Key(db, list[i]) <= Key(db, list[j])

\* The orders in which a query may list contacts.
Listings(db, contacts, sorted) ==
    {list \in SetToSeqs(contacts) : sorted => InOrder(db, list)}

\* LIMIT
Top(limit, list) == IF limit >= 0 /\ limit < Len(list) THEN SubSeq(list, 1, limit) ELSE list

-----------------------------------------------------------------------------
\* The request starts

AskFetch ==
    /\ fetch.pc = "idle"
    /\ \E call \in Calls :
           fetch' = [fetch EXCEPT
               !.pc = IF call.kind = "ids" THEN "ids" ELSE "begin", !.call = call,
               !.all = call.all, !.ids = call.ids, !.sorting = call.sorting,
               !.start = [c \in OfSchema(store, "contact") \cup OfSchema(store, "group") |->
                             Key(store, c)]]
    /\ UNCHANGED store

\* cancel() by another thread.
CancelFetch ==
    /\ fetch.pc \notin {"idle", "done"} /\ ~fetch.canceled
    /\ fetch' = [fetch EXCEPT !.canceled = TRUE]
    /\ UNCHANGED store

\* bindFilter(): "Local contact id list cannot be empty".
BadFilter == ~fetch.all /\ fetch.ids = << >>

FailWith(error) == fetch' = [fetch EXCEPT !.pc = "report", !.error = error]

\* bindSortOrders() succeeds for the schema.
Sortable(schema) == fetch.sorting => schema \in fetch.call.native

\* The query for ids, in one listing of all schemas.
FoundIds ==
    LET found == UNION {Matching(store, s, fetch.all, fetch.ids) : s \in ToSet(Schemas)}
    IN  {Top(fetch.call.limit, list) : list \in Listings(store, found, fetch.sorting)}

-----------------------------------------------------------------------------
\* QTrackerContactIdFetchRequest::run()

IdsCanceled ==
    /\ fetch.pc \in {"ids", "begin"} /\ fetch.canceled
    /\ fetch' = [fetch EXCEPT !.pc = "report"]
    /\ UNCHANGED store

IdsRejected ==
    /\ fetch.pc = "ids" /\ ~fetch.canceled
    /\ BadFilter
    /\ FailWith("badArgument")
    /\ UNCHANGED store

IdsNative ==
    /\ fetch.pc = "ids" /\ ~fetch.canceled /\ ~BadFilter
    /\ \A s \in ToSet(Schemas) : Sortable(s)
    /\ \/ \E list \in FoundIds :
              fetch' = [fetch EXCEPT !.pc = "report", !.contacts = [i \in DOMAIN list |-> Copy(list[i], 0)]]
       \/ MayFail /\ FailWith("query")
    /\ UNCHANGED store

\* runEmulated(): an ordinary fetch request, of the detail to sort by.
IdsEmulated ==
    /\ fetch.pc = "ids" /\ ~fetch.canceled /\ ~BadFilter
    /\ \E s \in ToSet(Schemas) : ~Sortable(s)
    /\ fetch' = [fetch EXCEPT !.pc = "begin"]
    /\ UNCHANGED store

-----------------------------------------------------------------------------
\* QTrackerAbstractContactFetchRequest::run()

Limited == fetch.call.limit >= 0

Begin ==
    /\ fetch.pc = "begin" /\ ~fetch.canceled
    /\ fetch' = [fetch EXCEPT !.pc = IF Limited /\ fetch.sorting THEN "preliminary" ELSE "read"]
    /\ UNCHANGED store

SortedIds(list) ==
    [fetch EXCEPT !.pc = "read", !.all = FALSE, !.ids = list, !.sorting = FALSE,
                  !.presorted = TRUE, !.lists = <<list>>]

\* runPreliminaryIdFetchRequest(): a native request for the first ids.
PreliminaryIds ==
    /\ fetch.pc = "preliminary" /\ ~BadFilter
    /\ \A s \in ToSet(Schemas) : Sortable(s)
    /\ \E list \in FoundIds : fetch' = SortedIds(list)
    /\ UNCHANGED store

\* "In that case, we revert to good old fetch request": whatever the error is.
PreliminaryFails ==
    /\ fetch.pc = "preliminary"
    /\ MayFail \/ BadFilter \/ \E s \in ToSet(Schemas) : ~Sortable(s)
    /\ fetch' = [fetch EXCEPT !.pc = "read", !.fellBack = TRUE]
    /\ UNCHANGED store

\* Mutant of RowsRead: one row too many is taken.
RowsReadLate(list) ==
    LET room == fetch.call.limit + 1 - Cardinality(DOMAIN fetch.cache)
    IN  IF Limited THEN Top(IF room < 0 THEN 0 ELSE room, list) ELSE list

\* fetchResults() stops when the limit is reached, over all schemas.
RowsRead(list) ==
    LET room == fetch.call.limit - Cardinality(DOMAIN fetch.cache)
    IN  IF Limited THEN Top(IF room < 0 THEN 0 ELSE room, list) ELSE list

\* In-memory sorting of what was read, with sortContacts().
SortedInMemory(list, cache) ==
    IF ~fetch.sorting \/ Sortable(Schemas[fetch.schema]) THEN {list}
    ELSE {s \in SetToSeqs(ToSet(list)) :
             \A i, j \in DOMAIN s : i < j => cache[s[i]].key <= cache[s[j]].key}

\* The query for a schema and its rows, as far as they are read.
ReadSchema ==
    LET schema == Schemas[fetch.schema]
        found == Matching(store, schema, fetch.all, fetch.ids)
    IN  /\ fetch.pc = "read" /\ ~BadFilter
        /\ \E list \in Listings(store, found, fetch.sorting /\ Sortable(schema)) :
           \E n \in IF fetch.canceled THEN 0 .. Len(list) ELSE {Len(list)} :
           LET read == RowsRead(SubSeq(list, 1, n))
               cache == [c \in DOMAIN fetch.cache \cup ToSet(read) |->
                            IF c \in ToSet(read) THEN Copy(c, Key(store, c)) ELSE fetch.cache[c]]
           IN  \E sorted \in SortedInMemory(read, cache) :
                   fetch' = [fetch EXCEPT
                       !.cache = cache,
                       !.lists = IF fetch.presorted THEN @ ELSE Append(@, sorted),
                       !.schema = @ + 1,
                       !.pc = IF fetch.schema = Len(Schemas) THEN "process" ELSE "read"]
        /\ UNCHANGED store

ReadFails ==
    /\ fetch.pc = "read"
    /\ \/ BadFilter /\ FailWith("badArgument")
       \/ ~BadFilter /\ MayFail /\ FailWith("query")
    /\ UNCHANGED store

-----------------------------------------------------------------------------
\* processResults()

\* getContacts(): contacts that were not read are empty.
CopyOf(id) == IF id \in DOMAIN fetch.cache THEN fetch.cache[id] ELSE EmptyContact
CopiesOf(list) == [i \in DOMAIN list |-> CopyOf(list[i])]

\* How far the first list is passed before a contact is inserted.
Passed(list, key) ==
    LET larger == {i \in DOMAIN list : fetch.sorting /\ list[i].key > key}
    IN  IF larger = {} THEN Len(list) ELSE Min(larger) - 1

\* Mutant of MergeLists: the lists follow each other.
ConcatLists(l1, l2) == l1 \o l2

InsertCopy(acc, copy) ==
    LET n == Passed(acc.left, copy.key)
    IN  [done |-> Append(acc.done \o SubSeq(acc.left, 1, n), copy),
         left |-> SubSeq(acc.left, n + 1, Len(acc.left))]

\* mergeContactLists(): inserts the second list into the first, both sorted.
MergeLists(l1, l2) ==
    LET end == FoldLeft(InsertCopy, [done |-> << >>, left |-> l1], l2)
    IN  IF l1 = << >> THEN l2 ELSE end.done \o end.left

\* QTrackerContactFetchRequest: the lists are in a hash, of no known order.
ProcessContacts ==
    /\ fetch.pc = "process" /\ fetch.call.kind # "byId"
    /\ \E order \in SetToSeqs(DOMAIN fetch.lists) :
           fetch' = [fetch EXCEPT
               !.contacts = FoldLeft(LAMBDA merged, k : MergeLists(merged, CopiesOf(fetch.lists[k])),
                                     << >>, order),
               !.pc = "report"]
    /\ UNCHANGED store

\* Mutant of MissingPositions: nothing is reported missing.
NothingMissing == {}

MissingPositions == {i \in DOMAIN fetch.call.ids : fetch.call.ids[i] \notin DOMAIN fetch.cache}

\* QTrackerContactFetchByIdRequest: "must match the entries in the id list by
\* position".
ProcessById ==
    /\ fetch.pc = "process" /\ fetch.call.kind = "byId"
    /\ fetch' = [fetch EXCEPT
           !.contacts = CopiesOf(fetch.call.ids), !.errors = MissingPositions,
           !.error = IF MissingPositions = {} THEN "none" ELSE "doesNotExist",
           !.pc = "report"]
    /\ UNCHANGED store

\* The emulated request for ids takes what it may of the contacts; and
\* contactImpl() takes the first, if there is one.
Answer ==
    LET copies == fetch.contacts
    IN  CASE fetch.call.kind = "ids" -> Top(fetch.call.limit, copies)
          [] fetch.call.kind = "contact" -> Top(1, copies)
          [] OTHER -> copies

AnswerError ==
    IF fetch.call.kind = "contact" /\ fetch.error = "none" /\ fetch.contacts = << >>
    THEN "doesNotExist" ELSE fetch.error

\* exec(): the results of a canceled request are dropped.
Report ==
    /\ fetch.pc = "report"
    /\ fetch' = [fetch EXCEPT
           !.pc = "done",
           !.contacts = IF fetch.canceled THEN << >> ELSE Answer,
           !.error = IF fetch.canceled THEN "canceled" ELSE AnswerError]
    /\ UNCHANGED store

FetchNext ==
    \/ AskFetch \/ CancelFetch \/ IdsCanceled \/ IdsRejected \/ IdsNative \/ IdsEmulated
    \/ Begin \/ PreliminaryIds \/ PreliminaryFails \/ ReadSchema \/ ReadFails
    \/ ProcessContacts \/ ProcessById \/ Report

-----------------------------------------------------------------------------
\* Properties

Answered == fetch.pc = "done" /\ fetch.error = "none"

\* The contacts that the call is about: the ones that were there when it was
\* made, and the ones that still are.
Asked(c) == fetch.call.all \/ c \in ToSet(fetch.call.ids)
AtStart == {c \in DOMAIN fetch.start : Asked(c)}
StillThere == {c \in AtStart : Exists(store, c)}

FetchedIds == {fetch.contacts[i].id : i \in DOMAIN fetch.contacts}

\* A request for contacts or for ids that reports success gives each contact
\* once, none that is not in the store, and, unless it is limited, all that
\* match; the contacts of different schemas and of different queries included,
\* although other engines remove contacts between the queries.  Only where ids
\* were fetched before the contacts is a contact that was removed meanwhile
\* left as an empty one.
FetchIsExact ==
    Answered /\ fetch.call.kind # "byId" =>
        /\ \A i, j \in DOMAIN fetch.contacts :
               fetch.contacts[i].id = fetch.contacts[j].id => i = j \/ fetch.contacts[i].id = Zero
        /\ FetchedIds \ {Zero} \subseteq AtStart
        /\ ~Limited => StillThere \subseteq FetchedIds
        /\ Zero \in FetchedIds => fetch.presorted /\ StillThere # AtStart

InOrderOfStart(i, j) ==
    LET a == fetch.contacts[i].id
        b == fetch.contacts[j].id
    IN  Zero \in {a, b} \/ fetch.start[a] <= fetch.start[b]

\* The contacts of a sorted request are in order, whether the store sorted
\* them, the lists of the schemas were sorted apart and merged, or one of them
\* was sorted in memory.
OrderIsKept ==
    Answered /\ fetch.call.sorting =>
        \A i, j \in DOMAIN fetch.contacts : i < j => InOrderOfStart(i, j)

\* Nobody is left out of a limited request for somebody who comes after him.
FirstOnes ==
    \A c \in StillThere \ FetchedIds, id \in FetchedIds \ {Zero} :
        fetch.start[id] <= fetch.start[c]

\* A limit is never exceeded, and never leaves room for somebody who matches;
\* and a limited and sorted request gives the first ones of the order over all
\* schemas, unless it had to fall back.
LimitIsKept ==
    Answered /\ fetch.call.kind # "byId" /\ Limited =>
        /\ Len(fetch.contacts) <= fetch.call.limit
        /\ Len(fetch.contacts) < fetch.call.limit => StillThere \subseteq FetchedIds
        /\ fetch.call.sorting /\ ~fetch.fellBack => FirstOnes

\* The contacts of a request by id are at the positions of their ids, however
\* often an id is in the list; and the error map has the positions of exactly
\* those that are not there ("must match the entries in the id list by
\* position", contactfetchbyidrequest.cpp:64).
ByPosition ==
    fetch.pc = "done" /\ fetch.call.kind = "byId" /\ fetch.error \in {"none", "doesNotExist"} =>
        /\ Len(fetch.contacts) = Len(fetch.call.ids)
        /\ fetch.error = "none" <=> fetch.errors = {}
        /\ \A i \in DOMAIN fetch.call.ids :
              LET id == fetch.call.ids[i]
              IN  /\ fetch.contacts[i].id = (IF i \in fetch.errors THEN Zero ELSE id)
                  /\ i \notin fetch.errors => id \in AtStart
                  /\ ~Limited /\ id \in StillThere => i \notin fetch.errors

=============================================================================
