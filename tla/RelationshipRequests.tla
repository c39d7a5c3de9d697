------------------------ MODULE RelationshipRequests ------------------------
(* The requests for relationships: engine/relationshipsaverequest.cpp,        *)
(* engine/relationshipremoverequest.cpp, engine/relationshipfetchrequest.cpp  *)
(* and QContactTrackerEngine::relationships(), of a client that makes one     *)
(* call after the other.                                                      *)
EXTENDS TrackerStore, Integers, SequencesExt

CONSTANTS RelationLists,  \* what clients save and remove
          Participants    \* the contacts of which they ask for relationships

Relationship ==
    [type : {"HasMember", "other"}, firstManager : {"own", "foreign"},
     secondManager : {"own", "none", "foreign"}, group : Contact, member : Contact]

ASSUME RelationAssumption ==
    RelationLists \subseteq Seq(Relationship) /\ Participants \subseteq Contact

VARIABLE relation

NoRelation ==
    [pc |-> "idle", given |-> << >>, errors |-> << >>, error |-> "none", kind |-> "save",
     supported |-> TRUE, participant |-> Zero, found |-> << >>, saved |-> {}]

AskRelations(kind) ==
    /\ relation.pc \in {"idle", "done"}
    /\ \E list \in RelationLists :
           relation' = [relation EXCEPT !.pc = "run", !.kind = kind, !.given = list,
                            !.errors = << >>, !.error = "none", !.participant = Zero, !.found = << >>]
    /\ UNCHANGED store

\* The checks of both loops, in their order.  Only a removal insists that the
\* client names the manager of the member.
Verdict(r, kind) ==
    CASE r.type # "HasMember" -> "notSupported"
      [] r.firstManager # "own" -> "invalid"
      [] r.secondManager \notin (IF kind = "save" THEN {"own", "none"} ELSE {"own"}) -> "notSupported"
      [] r.group = r.member -> "invalid"
      [] OTHER -> "none"

Verdicts == [i \in DOMAIN relation.given |-> Verdict(relation.given[i], relation.kind)]

Rejected == {i \in DOMAIN relation.given : Verdicts[i] # "none"}
Accepted == DOMAIN relation.given \ Rejected

ErrorMap == [i \in Rejected |-> Verdicts[i]]

LastOf(errors) == errors[CHOOSE i \in DOMAIN errors : \A j \in DOMAIN errors : j <= i]

\* A save that still has something to do does not report its errors, but for
\* the error map.
ErrorFor ==
    IF Rejected = {} \/ (relation.kind = "save" /\ Accepted # {}) THEN "none" ELSE LastOf(ErrorMap)

\* INSERT ... WHERE both contacts exist.
Joining(i) ==
    LET r == relation.given[i]
    IN  {q \in {Quad(r.member, "memberOf", r.group, "qct")} : Exists(store, q.s) /\ Exists(store, q.o)}

\* Mutant of Leaving: the member leaves all of its groups.
LeavingAll(i) == {q \in store : q.s = relation.given[i].member /\ q.p = "memberOf"}

\* DELETE ... WHERE both contacts exist.
Leaving(i) ==
    {q \in store : /\ q.s = relation.given[i].member /\ q.p = "memberOf"
                   /\ q.o = relation.given[i].group
                   /\ Exists(store, q.s) /\ Exists(store, q.o)}

\* What the client believes to have saved.
Pairs(positions) ==
    {<<r.group, r.member>> : r \in {relation.given[i] : i \in positions}}
Alive(pair) == Exists(store, pair[1]) /\ Exists(store, pair[2])

\* The manager of a member is filled in once the group has been checked.
Normalised ==
    [i \in DOMAIN relation.given |->
        LET r == relation.given[i]
        IN  IF r.type = "HasMember" /\ r.firstManager = "own" /\ r.secondManager = "none"
            THEN [r EXCEPT !.secondManager = "own"] ELSE r]

SaveRelations ==
    /\ relation.pc = "run" /\ relation.kind = "save" /\ relation.given # << >>
    /\ store' = Insert(store, UNION {Joining(i) : i \in Accepted})
    /\ relation' = [relation EXCEPT
           !.pc = "done", !.errors = ErrorMap, !.error = ErrorFor, !.given = Normalised,
           !.saved = @ \cup {p \in Pairs(Accepted) : Alive(p)}]

SaveNothing ==
    /\ relation.pc = "run" /\ relation.kind = "save" /\ relation.given = << >>
    /\ relation' = [relation EXCEPT !.pc = "done", !.error = "badArgument"]
    /\ UNCHANGED store

RemoveRelations ==
    /\ relation.pc = "run" /\ relation.kind = "remove"
    /\ store' = store \ UNION {Leaving(i) : i \in Accepted}
    /\ relation' = [relation EXCEPT
           !.pc = "done", !.errors = ErrorMap, !.error = ErrorFor,
           !.saved = @ \ Pairs(Accepted)]

\* The query of a save or a removal fails, if there is one.
EditFails ==
    /\ MayFail
    /\ relation.pc = "run" /\ Accepted # {}
    /\ relation' = [relation EXCEPT
           !.pc = "done", !.errors = ErrorMap, !.error = "query",
           !.given = IF relation.kind = "save" THEN Normalised ELSE relation.given]
    /\ UNCHANGED store

-----------------------------------------------------------------------------
\* relationships(type, participant, Either): two requests, one for each role.

AskMemberships ==
    /\ relation.pc \in {"idle", "done"}
    /\ \E c \in Participants, hasMember \in BOOLEAN :
           relation' = [relation EXCEPT !.pc = "first", !.kind = "fetch", !.participant = c,
                            !.supported = hasMember, !.given = << >>, !.errors = << >>, !.error = "none", !.found = << >>]
    /\ UNCHANGED store

Memberships ==
    {<<q.o, q.s>> :
        q \in {x \in store : /\ x.p = "memberOf" /\ x.s # x.o
                             /\ Exists(store, x.s) /\ "group" \in Values(store, x.o, "type")}}

\* The participant as a group, and then as a member.
FetchRole(pc, role, next) ==
    /\ relation.pc = pc /\ relation.supported
    /\ \E rows \in SetToSeqs({pair \in Memberships : pair[role] = relation.participant}) :
           relation' = [relation EXCEPT !.found = @ \o rows, !.pc = next]
    /\ UNCHANGED store

FetchAsGroup == FetchRole("first", 1, "second")
FetchAsMember == FetchRole("second", 2, "done")

\* The query runs and its rows are kept, but relationships() drops them.
FetchUnsupported ==
    /\ relation.pc = "first" /\ ~relation.supported
    /\ relation' = [relation EXCEPT !.error = "notSupported", !.pc = "done"]
    /\ UNCHANGED store

FetchFails ==
    /\ MayFail
    /\ relation.pc \in {"first", "second"}
    /\ relation' = [relation EXCEPT !.found = << >>, !.error = "query", !.pc = "done"]
    /\ UNCHANGED store

RelationNext ==
    \/ \E kind \in {"save", "remove"} : AskRelations(kind)
    \/ SaveRelations \/ SaveNothing \/ RemoveRelations \/ EditFails
    \/ AskMemberships \/ FetchAsGroup \/ FetchAsMember \/ FetchUnsupported \/ FetchFails

-----------------------------------------------------------------------------
\* Properties

\* relationships() tells of a participant exactly what saving and removing
\* relationships have made of them, each once ("this should not result in
\* duplicates", engine.cpp:1169-1170), with groups and members in their roles,
\* whatever other engines remove between its two requests.
FoundIsSaved ==
    relation.pc = "done" /\ relation.kind = "fetch" /\ relation.error = "none" =>
        /\ IsInjective(relation.found)
        /\ ToSet(relation.found) \subseteq relation.saved
        /\ \A pair \in relation.saved :
              /\ relation.participant \in {pair[1], pair[2]}
              /\ Alive(pair) /\ "group" \in Values(store, pair[1], "type")
              => pair \in ToSet(relation.found)

=============================================================================
