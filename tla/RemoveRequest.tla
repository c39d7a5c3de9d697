---------------------------- MODULE RemoveRequest ----------------------------
(* engine/contactremoverequest.cpp: the contacts are removed in chunks of    *)
(* ColumnLimit, all but the self contact.                                    *)
EXTENDS TrackerStore, Integers, SequencesExt

CONSTANTS Self,          \* nco:default-contact-me
          RemovalLists,  \* what clients ask for: lists of contacts
          ColumnLimit    \* QctSparqlResolver::ColumnLimit, 250 in the code

ASSUME RemovalAssumption == ColumnLimit \in Nat \ {0} /\ RemovalLists \subseteq Seq(Contact)

VARIABLE removal

NoRemoval == [pc |-> "idle", given |-> << >>, left |-> << >>, errors |-> {}, error |-> "none"]

AskRemoval ==
    /\ removal.pc = "idle"
    /\ \E list \in RemovalLists :
           removal' = [removal EXCEPT !.pc = "self", !.given = list, !.left = list]
    /\ UNCHANGED store

\* selfContactId() fails.
SelfUnknown ==
    /\ MayFail
    /\ removal.pc = "self"
    /\ removal' = [removal EXCEPT !.pc = "done", !.error = "doesNotExist"]
    /\ UNCHANGED store

\* The loop runs downwards: taking out an element moves no position to come.
SelfPositions(list) == {i \in DOMAIN list : list[i] = Self}

OthersOf(list) ==
    FoldLeft(LAMBDA others, c : IF c = Self THEN others ELSE Append(others, c), << >>, list)

KeepSelf ==
    LET others == OthersOf(removal.left)
        positions == SelfPositions(removal.left)
    IN  /\ removal.pc = "self"
        /\ removal' = [removal EXCEPT
               !.errors = positions,
               !.error = IF positions = {} THEN "none" ELSE "permissions",
               !.left = others,
               !.pc = IF others = << >> THEN "done" ELSE "remove"]
        /\ UNCHANGED store

\* Mutant of ChunkLimit: a position between two chunks is skipped.
ChunkAndOne == ColumnLimit + 1

\* How much of the list is gone after a chunk of ColumnLimit.
ChunkLimit == ColumnLimit

AfterFirst(n, list) == SubSeq(list, n + 1, Len(list))

\* buildQuery(): what the query for a chunk removes.
Victims(chunk) == {c \in chunk : Exists(store, c)}

RemoveChunk ==
    LET chunk == ToSet(SubSeq(removal.left, 1, IF ColumnLimit < Len(removal.left)
                                               THEN ColumnLimit ELSE Len(removal.left)))
        rest == AfterFirst(ChunkLimit, removal.left)
    IN  /\ removal.pc = "remove"
        /\ store' = DeleteResources(store, Victims(chunk))
        /\ removal' = [removal EXCEPT !.left = rest,
                                      !.pc = IF rest = << >> THEN "done" ELSE "remove"]

\* The first chunk that fails is the last one that is tried.
ChunkFails ==
    /\ MayFail
    /\ removal.pc = "remove"
    /\ removal' = [removal EXCEPT !.left = AfterFirst(ColumnLimit, removal.left),
                                  !.error = "query", !.pc = "done"]
    /\ UNCHANGED store

RemovalNext == AskRemoval \/ SelfUnknown \/ KeepSelf \/ RemoveChunk \/ ChunkFails

-----------------------------------------------------------------------------
\* Properties

\* A removal that reports nothing worse than permission errors has removed all
\* that its list named, over all chunks and whatever other engines do, but for
\* the self contact, which survives however often it is named; and the error
\* map tells its positions in the client's list, although the request's own
\* list has shrunk meanwhile ("check here for empty list to catch the case
\* where the only id in the list was the self-id",
\* contactremoverequest.cpp:119-120).
RemovalIsExact ==
    /\ Exists(store, Self)
    /\ removal.pc = "done" /\ removal.error \in {"none", "permissions"} =>
           \A i \in DOMAIN removal.given :
               /\ i \in removal.errors <=> removal.given[i] = Self
               /\ removal.given[i] # Self => ~Exists(store, removal.given[i])

=============================================================================
