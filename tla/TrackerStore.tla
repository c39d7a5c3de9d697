---------------------------- MODULE TrackerStore ----------------------------
(* What Tracker is for the requests of the engine: a set of statements, of  *)
(* which some are in a graph.  An update is a transaction, it happens as a  *)
(* whole or not at all.                                                     *)
CONSTANTS Contact,  \* contacts, stored or not
          Zero,     \* the local id of no contact
          Single,   \* the properties of at most one value
          MayFail   \* whether queries may fail

ASSUME StoreAssumption == Zero \notin Contact /\ MayFail \in BOOLEAN

VARIABLE store

Quad(s, p, o, g) == [s |-> s, p |-> p, o |-> o, g |-> g]

Exists(db, c) == \E q \in db : q.s = c /\ q.p = "type"

Values(db, s, p) == {q.o : q \in {x \in db : x.s = s /\ x.p = p}}

\* Whether the contact has the instant messaging address, by an affiliation.
Reaches(db, c, address) ==
    \E a \in Values(db, c, "affiliation") : address \in Values(db, a, "address")

\* INSERT: a statement is not inserted twice, whatever its graph.
Insert(db, new) ==
    db \cup {q \in new : q.o \notin Values(db, q.s, q.p)}

\* DELETE { ?x a rdfs:Resource }: with its class a resource loses everything.
DeleteResources(db, resources) == {q \in db : q.s \notin resources}

\* An update that gives such a property a second value fails.
Consistent(db) ==
    \A q, x \in db : q.s = x.s /\ q.p = x.p /\ q.p \in Single => q.o = x.o

=============================================================================
