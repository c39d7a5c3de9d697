---------------------------- MODULE SparqlResolver ----------------------------
(***************************************************************************)
(* QctTrackerIdResolver and QctResourceIriResolver                         *)
(* (src/lib/sparqlresolver.cpp), which translate lists of IRIs into ids    *)
(* and back, and the process-wide QctResourceCache (src/lib/               *)
(* resourcecache.cpp) that they read and fill.  Resolvers of several       *)
(* threads run at a time; the cache's lock makes one lookup or one         *)
(* insertion a step.                                                       *)
(*                                                                         *)
(* A resolver first looks up every key in the cache, then asks the store   *)
(* for the missing ones, at most ColumnLimit in one query, and puts the    *)
(* columns of each result back into the slots that are still empty.        *)
(***************************************************************************)
EXTENDS ResolverOps

CONSTANTS
    Resolver,
    ColumnLimit,
    MaxKeys,      \* for each resolver, what it looks up: "ids" of IRIs, "iris" of ids, or the
                  \* IRIs of contacts only, "typed"; and as a bound the longest list of each
    Usage,        \* "any" list of keys; or "fits": unknown keys and lookup() only in lists
                  \* that fit one query, and no IRIs of unknown ids
    Waits,        \* which methods are called: lookupAndWait() (TRUE), lookup() (FALSE)
    MayFail       \* whether a query can fail

ASSUME ResolverAssumption ==
    /\ ColumnLimit \in Nat \ {0}
    /\ \A r \in Resolver :
           /\ DOMAIN MaxKeys[r] \subseteq {"ids", "iris", "typed"}
           /\ \A kind \in DOMAIN MaxKeys[r] : MaxKeys[r][kind] \in Nat
    /\ Waits \subseteq BOOLEAN
    /\ Usage \in {"fits", "any"}
    /\ MayFail \in BOOLEAN

VARIABLES
    registered,  \* the resources that the store has an id for
    contacts,    \* those that are contacts at present
    idOf,        \* m_trackerIds, from IRIs to ids
    iriOf,       \* m_resourceIris, from ids to IRIs
    job          \* the state of each resolver

store == <<registered, contacts>>
cache == <<idOf, iriOf>>
vars == <<store, cache, job>>

-----------------------------------------------------------------------------

Keys(r, kind) == UNION {[1 .. n -> Name] : n \in 0 .. MaxKeys[r][kind]}

KeySet(keys) == {keys[i] : i \in DOMAIN keys}

\* A resolver: the constructor's keys, the answer with one slot for each, the
\* projections not queried yet, the rows not parsed yet, the first slot (from 1)
\* of the current row and the slot to go on at, whether errors() has some; for a
\* lookup of contacts the pairs not parsed yet and localCache; and as history the
\* keys that the store knew from the start, and those of them that were no
\* contacts then.
Idle == [pc |-> "idle", kind |-> "ids", waits |-> TRUE, keys |-> << >>, values |-> << >>,
         columns |-> << >>, results |-> << >>, offset |-> 1, slot |-> 1, errors |-> FALSE,
         pairs |-> {}, local |-> {}, sure |-> {}, gone |-> {}]

Init ==
    /\ registered \in SUBSET Resource
    /\ contacts \in SUBSET registered
    /\ idOf = [n \in Name |-> Nil]
    /\ iriOf = [n \in Name |-> Nil]
    /\ job = [r \in Resolver |-> Idle]

-----------------------------------------------------------------------------

\* What clients ask for.  The engine never looks up the IRI of id zero without
\* a restriction to contacts: merge and unmerge requests reject such an id.  The
\* one lookup with the restriction, resolveContactIris() of the save request,
\* is a lookupAndWait().
Askable(kind, waits, keys) ==
    /\ \/ Usage = "any"
       \/ Len(keys) <= ColumnLimit /\ (kind = "iris" => KeySet(keys) \subseteq registered)
       \/ waits /\ KeySet(keys) \subseteq registered
    /\ kind = "iris" => Nil \notin KeySet(keys)
    /\ kind = "typed" => waits

\* A resolver is constructed and lookupAndWait() or lookup() called.
Ask(r, kind, waits, keys) ==
    /\ job[r].pc = "idle"
    /\ Askable(kind, waits, keys)
    /\ job' = [job EXCEPT ![r] =
                  [Idle EXCEPT !.pc = "project", !.kind = kind, !.waits = waits, !.keys = keys,
                               !.sure = KeySet(keys) \cap registered,
                               !.gone = IF kind = "typed"
                                            THEN (KeySet(keys) \cap registered) \ contacts
                                            ELSE {}]]
    /\ UNCHANGED <<store, cache>>

\* What makeProjections() finds in the cache for a key.
Cached(kind, key) == IF kind = "ids" THEN idOf[key] ELSE iriOf[key]

\* One round of makeProjections(): a slot for the key, and a column when the
\* cache does not know it.  An empty IRI gets a column of its own ("0"), the
\* id zero none.
Project(r) ==
    LET j == job[r]
        key == j.keys[Len(j.values) + 1]
        known == IF j.kind = "iris" /\ key = Nil THEN Nil ELSE Cached(j.kind, key)
        asks == known = Nil /\ (j.kind = "ids" \/ key # Nil)
    IN  /\ j.pc = "project" /\ j.kind # "typed"
        /\ Len(j.values) < Len(j.keys)
        /\ job' = [job EXCEPT ![r].values = Append(@, known),
                              ![r].columns = IF asks THEN Append(@, key) ELSE @]
        /\ UNCHANGED <<store, cache>>

\* makeQueries() is through: "fast track if no queries are needed".
Projected(r) ==
    /\ job[r].pc = "project" /\ job[r].kind # "typed"
    /\ Len(job[r].values) = Len(job[r].keys)
    /\ job' = [job EXCEPT ![r].pc = IF job[r].columns = << >> THEN "done" ELSE "query"]
    /\ UNCHANGED <<store, cache>>

\* What the store answers to a list of projections.
Answer(columns) ==
    [i \in DOMAIN columns |-> IF columns[i] \in registered THEN columns[i] ELSE Nil]

ChunkLength(columns) == Min({ColumnLimit, Len(columns)})
Chunk(columns) == SubSeq(columns, 1, ChunkLength(columns))
AfterChunk(columns) == SubSeq(columns, ChunkLength(columns) + 1, Len(columns))

\* lookupAndWait() parses a row before it sends the next query, lookup() sends
\* all queries and parses when the last result is there.
AfterQuery(j, row) ==
    LET rest == AfterChunk(j.columns)
    IN  [j EXCEPT !.columns = rest,
                  !.results = Append(@, row),
                  !.pc = IF j.waits \/ rest = << >> THEN "build" ELSE "query",
                  !.slot = j.offset]

Query(r) ==
    /\ job[r].pc = "query"
    /\ job' = [job EXCEPT ![r] = AfterQuery(@, Answer(Chunk(@.columns)))]
    /\ UNCHANGED <<store, cache>>

\* A query fails, or the connection is not valid: lookupAndWait() gives up;
\* lookup() gives up if it sees the error at once, and else records it in
\* errors() and parses a result without rows.
QueryFails(r) ==
    /\ MayFail
    /\ job[r].pc = "query"
    /\ \/ job' = [job EXCEPT ![r].pc = "failed"]
       \/ ~job[r].waits /\ job' = [job EXCEPT ![r] = [AfterQuery(@, << >>) EXCEPT !.errors = TRUE]]
    /\ UNCHANGED <<store, cache>>

\* QctResourceCache::insert().
Insert(iri, id) ==
    /\ iriOf' = [iriOf EXCEPT ![id] = iri]
    /\ idOf' = [idOf EXCEPT ![iri] = id]

\* "offset += result->current().count()", column by column.
NextOffset(offset) == offset + 1

\* One round of buildResult(): the next column goes into the next empty slot,
\* and with that slot's key into the cache.
Build(r) ==
    LET j == job[r]
        row == Head(j.results)
        slot == NextSlot(j.values, j.slot)
    IN  /\ j.pc = "build" /\ j.results # << >> /\ row # << >>
        /\ IF j.kind = "ids" THEN Insert(j.keys[slot], Head(row))
                             ELSE Insert(Head(row), j.keys[slot])
        /\ job' = [job EXCEPT ![r].values[slot] = Head(row),
                              ![r].results = <<Tail(row)>> \o Tail(@),
                              ![r].slot = slot + 1,
                              ![r].offset = NextOffset(@)]
        /\ UNCHANGED store

\* The row is through: the offset has moved by its number of columns, which is
\* zero for a result that failed.
NextRow(r) ==
    LET j == job[r]
        rest == Tail(j.results)
    IN  /\ j.pc = "build" /\ j.results # << >> /\ Head(j.results) = << >>
        /\ job' = [job EXCEPT ![r].results = rest,
                              ![r].slot = j.offset,
                              ![r].pc = CASE rest # << >> -> "build"
                                          [] rest = << >> /\ j.columns # << >> -> "query"
                                          [] OTHER -> "done"]
        /\ UNCHANGED <<store, cache>>

\* A lookup that is restricted to contact classes sends one query for all keys
\* but zero, and none if there is no other; the result has a row, a pair of IRI
\* and id, for each that is a contact at that moment.
TypedQuery(r) ==
    /\ job[r].pc = "project" /\ job[r].kind = "typed"
    /\ job' = [job EXCEPT ![r].pc = "rows", ![r].pairs = KeySet(job[r].keys) \cap contacts]
    /\ UNCHANGED <<store, cache>>

\* The query fails, or the connection is not valid.
TypedFails(r) ==
    /\ MayFail
    /\ job[r].pc = "project" /\ job[r].kind = "typed"
    /\ job' = [job EXCEPT ![r].pc = "failed"]
    /\ UNCHANGED <<store, cache>>

\* One row of buildRestrictedResult(): the pair goes into the cache of all
\* resolvers and into that of this lookup.
TypedRow(r) ==
    /\ job[r].pc = "rows"
    /\ \E n \in job[r].pairs :
           /\ Insert(n, n)
           /\ job' = [job EXCEPT ![r].pairs = @ \ {n}, ![r].local = @ \cup {n}]
    /\ UNCHANGED store

\* Mutant of TypedAnswer: the cache of all resolvers answers, as for other lookups.
CachedAnswer(keys, local) == [i \in DOMAIN keys |-> iriOf[keys[i]]]

\* "Read results from local cache to avoid reporting IRIs for deleted
\* resources"
TypedAnswer(keys, local) ==
    [i \in DOMAIN keys |-> IF keys[i] \in local THEN keys[i] ELSE Nil]

\* The end of buildRestrictedResult(), and of the lookup.
TypedDone(r) ==
    /\ job[r].pc = "rows" /\ job[r].pairs = {}
    /\ job' = [job EXCEPT ![r].pc = "done",
                          ![r].values = TypedAnswer(job[r].keys, job[r].local),
                          ![r].local = {}]
    /\ UNCHANGED <<store, cache>>

\* The client has read the answer and drops the resolver.
Drop(r) ==
    /\ job[r].pc \in {"done", "failed"}
    /\ job' = [job EXCEPT ![r] = Idle]
    /\ UNCHANGED <<store, cache>>

\* The store gets a resource, as a contact or as something else, or loses a
\* contact, for good; the id of a resource stays.
StoreAdds ==
    \E n \in Resource \ registered :
        /\ registered' = registered \cup {n}
        /\ contacts' \in {contacts, contacts \cup {n}}
        /\ UNCHANGED <<cache, job>>

StoreRemoves ==
    \E n \in contacts :
        /\ contacts' = contacts \ {n}
        /\ UNCHANGED <<registered, cache, job>>

Next ==
    \/ StoreAdds \/ StoreRemoves
    \/ \E r \in Resolver :
           \/ \E kind \in DOMAIN MaxKeys[r], waits \in Waits :
                  \E keys \in Keys(r, kind) : Ask(r, kind, waits, keys)
           \/ Project(r) \/ Projected(r) \/ Query(r) \/ QueryFails(r)
           \/ Build(r) \/ NextRow(r)
           \/ TypedQuery(r) \/ TypedFails(r) \/ TypedRow(r) \/ TypedDone(r)
           \/ Drop(r)

Spec == Init /\ [][Next]_vars

-----------------------------------------------------------------------------
\* Properties

\* The cache never pairs an IRI with the id of another resource, whatever
\* lookups of several threads fill it; and buildResult(), which walks to an empty
\* slot without checking for the end of the list, has one for every column.
CacheSound ==
    /\ \A n \in Resource : idOf[n] \in {n, Nil} /\ iriOf[n] \in {n, Nil}
    /\ \A r \in Resolver :
           LET j == job[r]
           IN  j.pc = "build" /\ j.results # << >> /\ Head(j.results) # << >>
                   => OpenSlots(j.values, j.slot) # {}

\* What a lookup that succeeded answers is right: a slot holds the value of
\* its own key or nothing, and a key that the store knew when the lookup began
\* has its value - in a lookup of contacts, a key that was a contact from the
\* lookup's beginning on.
ResolvedRight ==
    \A r \in Resolver :
        job[r].pc = "done" /\ ~job[r].errors =>
            \A i \in DOMAIN job[r].keys :
                /\ job[r].values[i] \in {job[r].keys[i], Nil}
                /\ \/ job[r].keys[i] \notin job[r].sure
                   \/ job[r].kind = "typed" /\ job[r].keys[i] \notin contacts
                   \/ job[r].values[i] = job[r].keys[i]

\* A resource that was no contact any more when a lookup of contacts began is
\* not reported by it, although the cache of all resolvers may still have it,
\* or get it again while the lookup runs.
DeletedNotReported ==
    \A r \in Resolver :
        job[r].kind = "typed" /\ job[r].pc = "done" =>
            \A i \in DOMAIN job[r].keys :
                job[r].keys[i] \in job[r].gone => job[r].values[i] = Nil

=============================================================================
