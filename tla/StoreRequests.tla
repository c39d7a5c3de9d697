---------------------------- MODULE StoreRequests ----------------------------
(* The requests that edit what is stored, together.  A task queue runs one    *)
(* request at a time (TaskQueue): here the requests of one queue merge,       *)
(* unmerge and edit relationships, while a request of another one, the        *)
(* engine's other queue or another program, removes contacts meanwhile, or    *)
(* reads them.                                                                *)
EXTENDS RemoveRequest, MergeRequest, UnmergeRequest, RelationshipRequests, FetchRequest

CONSTANT Scenarios  \* what is stored at first, and which requests there are

ASSUME ScenarioAssumption ==
    \A s \in Scenarios :
        /\ s.requests \subseteq {"removal", "merge", "unmerge", "relation", "fetch"}
        /\ IsFiniteSet(s.store)
        /\ \A q \in s.store : q = Quad(q.s, q.p, q.o, q.g)

VARIABLE requests

vars == <<store, requests, removal, merge, unmerge, relation, fetch>>

Init ==
    /\ \E s \in Scenarios : store = s.store /\ requests = s.requests
    /\ removal = NoRemoval /\ merge = NoMerge
    /\ unmerge = NoUnmerge /\ relation = NoRelation /\ fetch = NoFetch

Rests(request) == request.pc \in {"idle", "done"}

RunMerge ==
    /\ "merge" \in requests /\ Rests(unmerge) /\ Rests(relation)
    /\ MergeNext
    /\ UNCHANGED <<requests, removal, unmerge, relation, fetch>>

RunUnmerge ==
    /\ "unmerge" \in requests /\ Rests(merge) /\ Rests(relation)
    /\ UnmergeNext
    /\ UNCHANGED <<requests, removal, merge, relation, fetch>>

EditRelations ==
    /\ "relation" \in requests /\ Rests(merge) /\ Rests(unmerge)
    /\ RelationNext
    /\ UNCHANGED <<requests, removal, merge, unmerge, fetch>>

RemoveElsewhere ==
    /\ "removal" \in requests
    /\ RemovalNext
    /\ UNCHANGED <<requests, merge, unmerge, relation, fetch>>

Fetch ==
    /\ "fetch" \in requests
    /\ FetchNext
    /\ UNCHANGED <<requests, removal, merge, unmerge, relation>>

Next == RunMerge \/ RunUnmerge \/ EditRelations \/ RemoveElsewhere \/ Fetch

Spec == Init /\ [][Next]_vars

=============================================================================
