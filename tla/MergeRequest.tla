----------------------------- MODULE MergeRequest -----------------------------
(* engine/contactcopyandremoverequest.cpp: the details of some contacts are   *)
(* copied to others, then they are removed.  The request reads from each      *)
(* contact which properties it has, in a query of its own, and builds from    *)
(* that one update for everything.                                            *)
EXTENDS TrackerStore, Integers, FiniteSets, SequencesExt

CONSTANTS MergeMaps,   \* what clients ask for: sets of pairs <<destination, source>>
          Mfe,         \* the sync targets of MFE accounts
          SyncTarget   \* all sync targets, and "" for none

ASSUME MergeAssumption ==
    /\ {"telepathy", "addressbook", ""} \cup Mfe \subseteq SyncTarget
    /\ \A pairs \in MergeMaps :
           IsFiniteSet(pairs) /\ pairs \subseteq (Contact \cup {Zero}) \X (Contact \cup {Zero})

VARIABLE merge

\* m_contactPredicates*: the properties of a contact by cardinality and graph.
NoProperties == [single |-> {}, singleWithGraph |-> {}, multi |-> {}, multiWithGraph |-> {}]

NoMerge ==
    [pc |-> "idle", pairs |-> {}, left |-> {}, singleWithGraph |-> {},
     predicates |-> [c \in Contact |-> NoProperties],
     syncTargets |-> [c \in Contact |-> ""], error |-> "none"]

Destinations == {pair[1] : pair \in merge.pairs}
Sources(t) == {pair[2] : pair \in {p \in merge.pairs : p[1] = t}}

AskMerge ==
    /\ merge.pc = "idle"
    /\ \E pairs \in MergeMaps : merge' = [merge EXCEPT !.pairs = pairs, !.pc = "resolve"]
    /\ UNCHANGED store

\* verifyRequest()
Invalid(pairs) == \E pair \in pairs : Zero \in {pair[1], pair[2]}

RejectMerge ==
    /\ merge.pc = "resolve" /\ Invalid(merge.pairs)
    /\ merge' = [merge EXCEPT !.pc = "done", !.error = "badArgument"]
    /\ UNCHANGED store

\* resolveContactIds().  The IRI of a contact that does not exist is empty, or
\* comes from the cache; either way the next query finds nothing for it.
ResolveMerge ==
    /\ merge.pc = "resolve" /\ ~Invalid(merge.pairs)
    /\ merge' = [merge EXCEPT !.pc = "fetch",
                              !.left = Destinations \cup {pair[2] : pair \in merge.pairs}]
    /\ UNCHANGED store

-----------------------------------------------------------------------------
\* fetchContactDetails()

\* Dates, the sync target and the local UID are left out.
Described(c) == {q \in store : q.s = c /\ q.p # "generator"}

\* One row of the result.  The properties without regard to graphs contain
\* those in graphs; singleWithGraph is to tell them apart.
PropertiesOf(c) ==
    LET all == {q.p : q \in Described(c)}
        inGraph == {q.p : q \in {x \in Described(c) : x.g # "none"}}
    IN  [single |-> (all \cap Single) \ (merge.singleWithGraph \cup inGraph),
         singleWithGraph |-> inGraph \cap Single,
         multi |-> all \ Single,
         multiWithGraph |-> inGraph \ Single]

\* The contacts are visited in the order of a hash.
FetchDetails(c) ==
    /\ merge.pc = "fetch" /\ c \in merge.left
    /\ \E q \in Described(c) : q.g # "none"
    /\ merge' = [merge EXCEPT
           !.left = @ \ {c},
           !.pc = IF merge.left = {c} THEN "update" ELSE "fetch",
           !.predicates[c] = PropertiesOf(c),
           !.singleWithGraph = @ \cup PropertiesOf(c).singleWithGraph,
           !.syncTargets[c] = IF Values(store, c, "generator") = {} THEN ""
                              ELSE CHOOSE o \in Values(store, c, "generator") : TRUE]
    /\ UNCHANGED store

\* A list of properties that is empty is split into one invalid property: the
\* request stops, and no error is set.
NothingInGraphs(c) ==
    /\ merge.pc = "fetch" /\ c \in merge.left
    /\ \A q \in Described(c) : q.g = "none"
    /\ merge' = [merge EXCEPT !.pc = "done"]
    /\ UNCHANGED store

-----------------------------------------------------------------------------
\* doMerge()

\* pickPreferredSyncTarget(); the set of sync targets has no order.
PreferredSyncTargets(targets, destination) ==
    LET mfe == targets \cap Mfe
        others == targets \ {"telepathy"}
    IN  IF mfe # {} THEN mfe
        ELSE IF "addressbook" \in targets THEN {"addressbook"}
        ELSE IF targets = {"telepathy"} THEN {"telepathy"}
        ELSE IF destination \notin {"telepathy", ""} THEN {destination}
        ELSE IF others # {} THEN others
        ELSE {"addressbook"}

SyncTargetsFor(t) == {merge.syncTargets[c] : c \in {t} \cup Sources(t)}

\* "one of the source contacts would get deleted from the MFE server"
TwoAccounts == \E t \in Destinations : Cardinality(SyncTargetsFor(t) \cap Mfe) > 1

\* Mutant of CopyFrom: what one source wrote is not noted for the next one.
CopyForgetfully(acc, t, s) ==
    LET from == acc.known[s]
        taken == acc.known[t].single \cup acc.known[t].singleWithGraph
        graphed == (from.singleWithGraph \ taken) \cup (from.multiWithGraph \ {"type"})
        plain == (from.single \ taken) \cup (from.multi \ {"type"})
        inGraph == {[q EXCEPT !.s = t] :
                       q \in {x \in acc.db : x.s = s /\ x.p \in graphed /\ x.g # "none"}}
        copies == {[q EXCEPT !.s = t, !.g = "none"] :
                      q \in {x \in acc.db : x.s = s /\ x.p \in plain}}
    IN  [acc EXCEPT !.db = Insert(Insert(@, inGraph), copies)]

\* mergeContacts(): inserts for the properties that the source has and the
\* destination may take, with the graph where there is one.  Properties of one
\* value that were copied are noted as the destination's.
CopyFrom(acc, t, s) ==
    LET from == acc.known[s]
        taken == acc.known[t].single \cup acc.known[t].singleWithGraph
        graphed == (from.singleWithGraph \ taken) \cup (from.multiWithGraph \ {"type"})
        plain == (from.single \ taken) \cup (from.multi \ {"type"})
        inGraph == {[q EXCEPT !.s = t] :
                       q \in {x \in acc.db : x.s = s /\ x.p \in graphed /\ x.g # "none"}}
        copies == {[q EXCEPT !.s = t, !.g = "none"] :
                      q \in {x \in acc.db : x.s = s /\ x.p \in plain}}
    IN  [acc EXCEPT !.db = Insert(Insert(@, inGraph), copies),
                    !.known[t].single = @ \cup ((from.single \cup from.singleWithGraph) \ taken)]

SetSyncTarget(db, t, syncTarget) ==
    {q \in db : ~(q.s = t /\ q.p = "generator" /\ q.g = "qct")}
        \cup {Quad(t, "generator", syncTarget, "qct")}

\* buildMergeQuery(): copy from all sources, delete them, set the sync target.
MergeInto(acc, t, sources, syncTarget) ==
    LET copied == FoldLeft(LAMBDA a, s : CopyFrom(a, t, s), acc, sources)
    IN  [copied EXCEPT !.db = SetSyncTarget(DeleteResources(@, ToSet(sources)), t, syncTarget)]

\* What the update makes of the store, for an order of the destinations and of
\* the sources of each, and for the sync targets that were picked.
MergeAll(order, sources, picked) ==
    FoldLeft(LAMBDA acc, t : MergeInto(acc, t, sources[t], picked[t]),
             [db |-> store, known |-> merge.predicates], order).db

Outcomes ==
    {MergeAll(order, sources, picked) :
        order \in SetToSeqs(Destinations),
        sources \in {f \in [Destinations -> UNION {SetToSeqs(Sources(t)) : t \in Destinations}] :
                        \A t \in Destinations : ToSet(f[t]) = Sources(t)},
        picked \in {f \in [Destinations -> SyncTarget] :
                       \A t \in Destinations :
                           f[t] \in PreferredSyncTargets(SyncTargetsFor(t), merge.syncTargets[t])}}

RefuseMerge ==
    /\ merge.pc = "update"
    /\ TwoAccounts
    /\ merge' = [merge EXCEPT !.pc = "done", !.error = "badArgument"]
    /\ UNCHANGED store

Merge ==
    /\ merge.pc = "update"
    /\ ~TwoAccounts
    /\ \E db \in Outcomes :
           IF Consistent(db)
           THEN store' = db /\ merge' = [merge EXCEPT !.pc = "done"]
           ELSE store' = store /\ merge' = [merge EXCEPT !.pc = "done", !.error = "conflict"]

\* A lookup or a query fails.
MergeFails ==
    /\ MayFail
    /\ merge.pc \in {"resolve", "fetch", "update"}
    /\ merge.pc = "resolve" => ~Invalid(merge.pairs)
    /\ merge.pc = "update" => ~TwoAccounts
    /\ merge' = [merge EXCEPT !.pc = "done", !.error = "query"]
    /\ UNCHANGED store

MergeNext ==
    \/ AskMerge \/ RejectMerge \/ ResolveMerge
    \/ \E c \in merge.left : FetchDetails(c) \/ NothingInGraphs(c)
    \/ RefuseMerge \/ Merge \/ MergeFails

-----------------------------------------------------------------------------
\* Properties

\* "4 and 5 will be merged into 3" (contactmergerequest.h:43): what a source
\* had when it was deleted its destination has now, or a value of its own
\* where only one is possible; and no contact of an MFE account "would get
\* deleted from the MFE server" (contactcopyandremoverequest.cpp:243-244).
\* That is if none of the contacts that come together was removed since it was
\* read: a value that is noted for a source that is gone keeps the others' out.
\* The update never contradicts itself either, in whatever order it treats the
\* contacts: properties that were copied are noted, so that "another merge
\* slave will not try to write to this predicate"
\* (contactcopyandremoverequest.cpp:424-425).
MergeKeepsData ==
    [][merge.pc = "update" /\ merge'.pc = "done" /\ merge'.error \in {"none", "conflict"} =>
          /\ merge'.error = "none"
          /\ \A pair \in merge.pairs :
                (\A c \in {pair[1]} \cup Sources(pair[1]) : Exists(store, c)) =>
                    /\ \A q \in Described(pair[2]) :
                          LET values == Values(store', pair[1], q.p)
                          IN  IF q.p \in Single \cup {"type"} THEN values # {} ELSE q.o \in values
                    /\ \A c \in {pair[1], pair[2]} :
                          Values(store, c, "generator") \cap Mfe
                              \subseteq Values(store', pair[1], "generator")
      ]_<<store, merge>>

=============================================================================
