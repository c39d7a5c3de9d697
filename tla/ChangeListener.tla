---------------------------- MODULE ChangeListener ----------------------------
(***************************************************************************)
(* QctTrackerChangeListener (src/lib/trackerchangelistener.cpp): turns the *)
(* quads that Tracker's GraphUpdated signals report as deleted and         *)
(* inserted into the contact manager's contactsAdded, contactsChanged,     *)
(* contactsRemoved and relationship signals.                               *)
(*                                                                         *)
(* The quads are collected in two lists from the moment the listener is    *)
(* constructed, but nothing is reported before the tracker:ids of the      *)
(* classes and predicates are known; from then on a single-shot timer      *)
(* coalesces what arrives within its delay into one set of signals.        *)
(*                                                                         *)
(* A client that fetched the contacts when the listener was constructed    *)
(* and follows its signals is part of the model: "view" is what it then    *)
(* believes to exist.                                                      *)
(***************************************************************************)

CONSTANTS
    Contact,    \* the contacts of the store, by tracker:id; an id is never used again
    Group,      \* the one that is a contact group
    FilterMode, \* the change filter modes an engine may ask for
    MayFail     \* whether a SPARQL query can fail

ASSUME ListenerAssumption ==
    /\ Group \in Contact
    /\ FilterMode \subseteq {"all", "ignore", "only"}
    /\ MayFail \in BOOLEAN

VARIABLES
    mode,      \* m_changeFilterMode
    ids,       \* m_trackerIds: being resolved, waiting for the graph, known, given up
    answer,    \* what the resolver's task found, until the queued finished() is handled
    deletes,   \* m_deleteNotifications
    inserts,   \* m_insertNotifications
    timer,     \* m_signalCoalescingTimer is active
    graph,     \* the default graph exists in the store
    exists,    \* the contacts of the store
    members,   \* the members of the group
    view,      \* the contacts that exist as far as the client was told
    owed,      \* contacts with a significant change that was not signalled yet
    relOwed    \* contacts with a membership change that was not signalled yet

listener == <<mode, ids, answer, deletes, inserts, timer>>
store == <<graph, exists, members>>
client == <<view, owed, relOwed>>
vars == <<listener, store, client>>

-----------------------------------------------------------------------------

\* The predicates that processNotifications() tells apart: rdf:type with a
\* watched class or with another one, nco:belongsToGroup, nco:contactLocalUID,
\* nie:contentLastModified in another process's graph, and any other.
Predicate == {"type", "otherType", "member", "uid", "tag", "property"}

Quad == [predicate : Predicate, subject : Contact]

Q(p, c) == [predicate |-> p, subject |-> c]

Subjects(quads, p) == {c \in Contact : Q(p, c) \in quads}

Existing == {c \in Contact : exists[c] = "yes"}

Pending == deletes \cup inserts # {}

TypeOK ==
    /\ mode \in FilterMode
    /\ ids \in {"resolving", "inserting", "known", "failed"}
    /\ answer \in {"none", "ids", "noGraph", "invalid"}
    /\ answer # "none" => ids = "resolving"
    /\ deletes \in SUBSET Quad
    /\ inserts \in SUBSET Quad
    /\ timer \in BOOLEAN
    /\ timer => ids = "known"    \* without the ids no quad can be told from another
    /\ graph \in BOOLEAN
    /\ exists \in [Contact -> {"never", "yes", "gone"}]
    /\ members \in SUBSET (Contact \ {Group})
    /\ view \in SUBSET Contact
    /\ owed \in SUBSET Contact
    /\ relOwed \in SUBSET Contact

\* The constructor; the engine sets the filter mode right after it.
Init ==
    /\ mode \in FilterMode
    /\ ids = "resolving"
    /\ answer = "none"
    /\ deletes = {}
    /\ inserts = {}
    /\ timer = FALSE
    /\ graph \in BOOLEAN
    /\ exists \in [Contact -> {"never", "yes"}]
    /\ members \in SUBSET (Existing \ {Group})
    /\ members # {} => Group \in Existing
    /\ view = Existing
    /\ owed = {}
    /\ relOwed = {}

-----------------------------------------------------------------------------
\* processNotifications(), for the deletes and then for the inserts

AddedIds == Subjects(inserts, "type")
RemovedIds == Subjects(deletes, "type")

\* belongsToGroup reports the contact and the group.
Related(quads) ==
    LET joined == Subjects(quads, "member")
    IN  IF joined = {} THEN {} ELSE joined \cup {Group}

\* matchTaggedSignals is false for deletes, where a tag is just a property.
DeletedProperties ==
    IF mode = "only" THEN {}
    ELSE Subjects(deletes, "property") \cup Subjects(deletes, "tag")

PresenceIds == IF mode = "all" THEN {} ELSE Subjects(inserts, "tag")

InsertedProperties ==
    Subjects(inserts, "property")
        \cup (IF mode = "all" THEN Subjects(inserts, "tag") ELSE {})

\* Mutant of ChangedIds: the second call starts from an empty set.
ChangedByInserts ==
    (CASE mode = "only" -> PresenceIds
       [] mode = "ignore" -> InsertedProperties \ PresenceIds
       [] OTHER -> InsertedProperties) \ AddedIds

\* Mutant of ChangedIds: the filter mode is not looked at.
ChangedUnfiltered ==
    ((DeletedProperties \ RemovedIds) \cup InsertedProperties) \ AddedIds

\* The second call goes on with the set that the first one filled, and
\* filters it again: the first call's removals were taken out of the deletes
\* only, and in OnlyPresenceChanges its result is thrown away.
ChangedIds ==
    LET changed == (DeletedProperties \ RemovedIds) \cup InsertedProperties
    IN  (CASE mode = "only" -> PresenceIds
           [] mode = "ignore" -> changed \ PresenceIds
           [] OTHER -> changed) \ AddedIds

\* What the next emission is going to tell of contacts.
Told == AddedIds \cup ChangedIds \cup RemovedIds
RelationsTold == Related(inserts) \cup Related(deletes)

\* Mutant of ViewAfter: contactsRemoved is emitted before contactsAdded.
RemovedFirst == (view \ RemovedIds) \cup AddedIds

\* contactsAdded is emitted before contactsRemoved.
ViewAfter == (view \cup AddedIds) \ RemovedIds

EmitQueuedNotifications ==
    /\ view' = ViewAfter
    /\ owed' = owed \ Told
    /\ relOwed' = relOwed \ RelationsTold
    /\ deletes' = {}
    /\ inserts' = {}

-----------------------------------------------------------------------------
\* The listener's slots

\* The timer is single-shot: it runs from the first notification of a batch.
StartTimer == timer' = (timer \/ ids = "known")

\* Mutant of OnGraphChanged: a new report replaces the ones that wait.
OnGraphChangedAnew(gone, new) ==
    /\ deletes' = gone
    /\ inserts' = new
    /\ StartTimer
    /\ UNCHANGED <<mode, ids, answer>>

\* A GraphUpdated signal.
OnGraphChanged(gone, new) ==
    /\ deletes' = deletes \cup gone
    /\ inserts' = inserts \cup new
    /\ StartTimer
    /\ UNCHANGED <<mode, ids, answer>>

TimerFires ==
    /\ timer
    /\ timer' = FALSE
    /\ EmitQueuedNotifications
    /\ UNCHANGED <<mode, ids, answer, store>>

\* The resolver's task, in the thread of the listener's own task queue: a
\* query that fails leaves every id zero, an invalid connection leaves none.
ResolverTask ==
    /\ ids = "resolving" /\ answer = "none"
    /\ \/ graph /\ answer' = "ids"
       \/ (~graph \/ MayFail) /\ answer' = "noGraph"
       \/ MayFail /\ answer' = "invalid"
    /\ UNCHANGED <<mode, ids, deletes, inserts, timer, store, client>>

\* The three ends of onTrackerIdsResolved().
IdsFailed ==
    /\ answer = "invalid"
    /\ answer' = "none"
    /\ ids' = "failed"
    /\ UNCHANGED <<mode, deletes, inserts, timer, store, client>>

GraphMissing ==
    /\ answer = "noGraph"
    /\ answer' = "none"
    /\ ids' = "inserting"
    /\ UNCHANGED <<mode, deletes, inserts, timer, store, client>>

\* Mutant of IdsKnown: what was collected waits for the next notification.
KnownSilently ==
    /\ answer = "ids"
    /\ answer' = "none"
    /\ ids' = "known"
    /\ UNCHANGED <<mode, deletes, inserts, timer, store, client>>

IdsKnown ==
    /\ answer = "ids"
    /\ answer' = "none"
    /\ ids' = "known"
    /\ EmitQueuedNotifications
    /\ UNCHANGED <<mode, timer, store>>

OnTrackerIdsResolved == IdsFailed \/ GraphMissing \/ IdsKnown

OnGraphInsertQueryFinished ==
    /\ ids = "inserting"
    /\ \/ graph' = TRUE /\ ids' = "resolving"
       \/ MayFail /\ ids' = "failed" /\ UNCHANGED graph
    /\ UNCHANGED <<mode, answer, deletes, inserts, timer, exists, members, client>>

-----------------------------------------------------------------------------
\* The store, as this and other processes change it.  Each transaction is
\* reported by one GraphUpdated signal.

Significant == mode # "only"

\* A contact comes with its types, its properties and its contactLocalUID;
\* saving one creates the graph if it is the first.
CreateContact(c) ==
    /\ exists[c] = "never"
    /\ exists' = [exists EXCEPT ![c] = "yes"]
    /\ graph' = TRUE
    /\ OnGraphChanged({}, {Q("type", c), Q("otherType", c), Q("property", c), Q("uid", c)})
    /\ UNCHANGED <<members, client>>

\* With the contact its properties and its group memberships go.
RemoveContact(c) ==
    LET left == IF c = Group THEN members ELSE members \cap {c}
    IN  /\ exists[c] = "yes"
        /\ exists' = [exists EXCEPT ![c] = "gone"]
        /\ members' = members \ left
        /\ OnGraphChanged({Q("type", c), Q("otherType", c), Q("property", c), Q("uid", c)}
                              \cup {Q("member", d) : d \in left}, {})
        /\ relOwed' = relOwed \cup left \cup (IF left = {} THEN {} ELSE {Group})
        /\ UNCHANGED <<graph, view, owed>>

\* A user edits a contact: properties are removed, added or replaced.
UpdateContact(c) ==
    /\ exists[c] = "yes"
    /\ \E change \in {<<{Q("property", c)}, {}>>, <<{}, {Q("property", c)}>>,
                      <<{Q("property", c)}, {Q("property", c)}>>} :
           OnGraphChanged(change[1], change[2])
    /\ owed' = IF Significant THEN owed \cup {c} ELSE owed
    /\ UNCHANGED <<store, view, relOwed>>

\* Another process repairs the contactLocalUID of a contact.
UpdateLocalUid(c) ==
    /\ exists[c] = "yes"
    /\ OnGraphChanged({}, {Q("uid", c)})
    /\ UNCHANGED <<store, client>>

\* contactsd writes a presence and tags the transaction with its own graph.
UpdatePresence(c) ==
    /\ exists[c] = "yes"
    /\ OnGraphChanged({Q("property", c)}, {Q("property", c), Q("tag", c)})
    /\ owed' = IF mode = "ignore" THEN owed ELSE owed \cup {c}
    /\ UNCHANGED <<store, view, relOwed>>

ChangeMembership(c) ==
    /\ c # Group
    /\ {c, Group} \subseteq Existing
    /\ IF c \in members
         THEN /\ members' = members \ {c}
              /\ OnGraphChanged({Q("member", c)}, {})
         ELSE /\ members' = members \cup {c}
              /\ OnGraphChanged({}, {Q("member", c)})
    /\ relOwed' = relOwed \cup {c, Group}
    /\ UNCHANGED <<graph, exists, view, owed>>

StoreStep ==
    \E c \in Contact :
        \/ CreateContact(c) \/ RemoveContact(c) \/ UpdateContact(c)
        \/ UpdateLocalUid(c) \/ UpdatePresence(c) \/ ChangeMembership(c)

ListenerStep ==
    TimerFires \/ ResolverTask \/ OnTrackerIdsResolved \/ OnGraphInsertQueryFinished

Next == StoreStep \/ ListenerStep

Spec == Init /\ [][Next]_vars

\* Event loop and background thread serve what is posted to them; queries
\* and the timer come to an end.
Fairness == WF_vars(ListenerStep)

FairSpec == Spec /\ Fairness

-----------------------------------------------------------------------------
\* Properties

\* Once the ids are known, nothing waits without a running timer, so no
\* notification depends on a later one to be reported (lines 320-323).
PendingIsTimed == ids = "known" /\ Pending => timer

\* The signals rebuild the store: with what the next emission adds and
\* removes, the client knows exactly the contacts that exist, whatever was
\* created and removed within one batch or before the ids were known.
ViewCatchesUp == ViewAfter = Existing

\* The next emission tells every significant change that is still owed: none
\* is lost by coalescing, by waiting for the ids or by the filter.  The mode
\* IgnorePresenceChanges does lose some: a batch with a presence update of the
\* contact is taken for one of nothing else (line 289), though "Ignore changes if
\* only the QContactPresence detail was changed" is said in trackerchangelistener.h:68.
NothingForgotten ==
    /\ mode # "ignore" => owed \subseteq Told
    /\ relOwed \subseteq RelationsTold

\* The next emission reports as changed only contacts that a client of this
\* filter mode cares for: no presence update in IgnorePresenceChanges, no
\* other update in OnlyPresenceChanges, no bookkeeping of contactLocalUID.
NoSpuriousChange == ChangedIds \subseteq owed

\* The queries that the listener needs for its start fail, once and for all
\* or again and again.
StartFails == ids = "failed" \/ []<>(ids = "inserting")

\* Unless the listener cannot start, every significant change is signalled in
\* the end, however it is batched.
EveryChangeSignalled ==
    \A c \in Contact :
        c \in owed /\ mode # "ignore" ~> c \notin owed \/ StartFails

=============================================================================
