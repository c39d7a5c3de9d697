-------------------------- MODULE StoreRequestsProofs --------------------------
(* Proofs about the requests that edit what is stored and read it: what       *)
(* removals, relationships, fetches, unmergings and merges promise, with the  *)
(* invariants behind that, while the other requests run.                      *)
EXTENDS StoreRequests, SequenceFacts, FiniteSetTheorems

-----------------------------------------------------------------------------
(* Listings of a set. *)

\* The list of a set has its members.
LEMMA ListingFacts ==
    ASSUME NEW S, IsFiniteSet(S), NEW f \in SetToSeqs(S)
    PROVE  /\ f \in Seq(S)
           /\ \A i, j \in 1..Len(f) : f[i] = f[j] => i = j
           /\ \A x \in S : \E i \in 1..Len(f) : f[i] = x
           /\ Len(f) = Cardinality(S) /\ Cardinality(S) \in Nat
  <1>. DEFINE n == Cardinality(S)
  <1>1. n \in Nat
    BY FS_CardinalityType
  <1>2. f \in [1..n -> S] /\ \A i, j \in 1..n : i # j => f[i] # f[j]
    BY DEF SetToSeqs
  <1>3. IsFiniteSet(1..n) /\ Cardinality(1..n) = n
    BY <1>1, FS_Interval
  <1>. HIDE DEF n
  <1>4. f \in Injection(1..n, S)
    BY <1>2 DEF Injection, IsInjective
  <1>5. f \in Surjection(1..n, S)
    BY <1>3, <1>4, FS_Injection DEF n
  <1>6. f \in Seq(S) /\ Len(f) = n
    BY <1>1, <1>2
  <1>. QED
    BY <1>1, <1>2, <1>5, <1>6 DEF Surjection, n

-----------------------------------------------------------------------------
(* The list of a removal without the self contact. *)

WithOther(others, c) == IF c = Self THEN others ELSE Append(others, c)

OthersSteps(fold, list, n) ==
    /\ OthersOf(list) = fold[1..n]
    /\ fold[1..0] = << >>
    /\ \A k \in 1..n : fold[1..k] = WithOther(fold[1..(k - 1)], list[k])

\* Leaving the self contact out is a chain of steps, one for each contact.
LEMMA OthersFold ==
    ASSUME NEW X, NEW list \in Seq(X), NEW n \in Nat, Len(list) = n
    PROVE  \E fold : OthersSteps(fold, list, n)
  <1>. DEFINE Folds(g) == g = [s \in SUBSET (1..n) |->
                                  IF s = {} THEN << >>
                                  ELSE WithOther(g[s \ {Max(s)}], list[Max(s)])]
              fold == CHOOSE g : Folds(g)
              A == Seq(X)
              step == [x \in A \X (1..n) |-> WithOther(x[1], list[x[2]])]
  <1>0. DOMAIN list = 1..n /\ \A i \in 1..n : list[i] \in X
    OBVIOUS
  <1>1. OthersOf(list) = fold[1..n]
    <2>1. OthersOf(list) =
              (CHOOSE g : g = [s \in SUBSET DOMAIN list |->
                                  IF s = {} THEN << >>
                                  ELSE WithOther(g[s \ {Max(s)}], list[Max(s)])])[DOMAIN list]
      BY DEF OthersOf, FoldLeft, MapThenFoldSet, WithOther
    <2>. QED
      BY <1>0, <2>1
  <1>2. step \in [A \X (1..n) -> A]
    <2>1. \A l \in A, i \in 1..n : WithOther(l, list[i]) \in A
      BY <1>0, AppendFacts DEF WithOther
    <2>. QED
      BY <2>1
  <1>3. \E g : Chain(g, A, << >>, step, n)
    <2>1. << >> \in A
      OBVIOUS
    <2>. HIDE DEF step, A
    <2>. QED
      BY <1>2, <2>1, ChainExists
  <1>4. PICK g : Chain(g, A, << >>, step, n)
    BY <1>3
  <1>5. Folds(g)
    <2>1. ASSUME NEW s \in SUBSET (1..n), s # {}
          PROVE  step[<<g[s \ {Max(s)}], Max(s)>>] = WithOther(g[s \ {Max(s)}], list[Max(s)])
      <3>1. Max(s) \in 1..n /\ s \ {Max(s)} \in SUBSET (1..n)
        BY <2>1, MaxExists
      <3>2. g[s \ {Max(s)}] \in A
        BY <1>4, <3>1 DEF Chain
      <3>. QED
        BY <3>1, <3>2
    <2>. HIDE DEF step
    <2>. QED
      BY <1>4, <2>1 DEF Chain
  <1>6. Folds(fold)
    <2>. HIDE DEF Folds
    <2>. QED
      BY <1>5
  <1>. HIDE DEF fold
  <1>7. \A s \in SUBSET (1..n) :
            fold[s] = IF s = {} THEN << >> ELSE WithOther(fold[s \ {Max(s)}], list[Max(s)])
    BY <1>6
  <1>. HIDE DEF Folds
  <1>8. fold[1..0] = << >>
    BY <1>7, IntervalFacts
  <1>9. ASSUME NEW k \in 1..n PROVE fold[1..k] = WithOther(fold[1..(k - 1)], list[k])
    <2>1. fold[1..k] = WithOther(fold[(1..k) \ {Max(1..k)}], list[Max(1..k)])
      BY <1>7, IntervalFacts
    <2>2. Max(1..k) = k /\ (1..k) \ {k} = 1..(k - 1)
      BY IntervalFacts
    <2>. QED
      BY <2>1, <2>2
  <1>. QED
    BY <1>1, <1>8, <1>9 DEF OthersSteps

\* What is left of a list has all of its contacts but the self contact.
LEMMA OthersFacts ==
    ASSUME NEW X, NEW list \in Seq(X)
    PROVE  /\ OthersOf(list) \in Seq(X)
           /\ \A c : Pending(c, OthersOf(list)) <=> Pending(c, list) /\ c # Self
  <1>. DEFINE n == Len(list)
  <1>1. n \in Nat /\ n = Len(list)
    OBVIOUS
  <1>2. PICK fold : OthersSteps(fold, list, n)
    <2>. HIDE DEF n
    <2>. QED
      BY <1>1, OthersFold
  <1>. DEFINE in(c, k) == \E i \in 1..k : list[i] = c
              S == {k \in Nat : k <= n => /\ fold[1..k] \in Seq(X)
                                          /\ \A c : Pending(c, fold[1..k]) <=> in(c, k) /\ c # Self}
  <1>. HIDE DEF n
  <1>3. 0 \in S
    <2>1. << >> \in Seq(X) /\ \A c : ~Pending(c, << >>) /\ ~in(c, 0)
      BY DEF Pending
    <2>. QED
      BY <1>2, <2>1 DEF OthersSteps
  <1>4. ASSUME NEW k \in Nat, k \in S PROVE k + 1 \in S
    <2>. SUFFICES ASSUME k + 1 <= n
                  PROVE  /\ fold[1..(k + 1)] \in Seq(X)
                         /\ \A c : Pending(c, fold[1..(k + 1)]) <=> in(c, k + 1) /\ c # Self
      OBVIOUS
    <2>1. fold[1..k] \in Seq(X) /\ \A c : Pending(c, fold[1..k]) <=> in(c, k) /\ c # Self
      BY <1>1, <1>4
    <2>2. fold[1..(k + 1)] = WithOther(fold[1..k], list[k + 1])
      <3>1. k + 1 \in 1..n /\ (k + 1) - 1 = k
        BY <1>1
      <3>. QED
        BY <1>2, <3>1 DEF OthersSteps
    <2>3. \A c : in(c, k + 1) <=> in(c, k) \/ c = list[k + 1]
      OBVIOUS
    <2>4. list[k + 1] \in X
      BY <1>1
    <2>. HIDE DEF in
    <2>5. CASE list[k + 1] = Self
      BY <2>1, <2>2, <2>3, <2>5 DEF WithOther
    <2>6. CASE list[k + 1] # Self
      <3>1. fold[1..(k + 1)] = Append(fold[1..k], list[k + 1])
        BY <2>2, <2>6 DEF WithOther
      <3>2. Append(fold[1..k], list[k + 1]) \in Seq(X)
        BY <2>1, <2>4, AppendFacts
      <3>3. \A c : Pending(c, Append(fold[1..k], list[k + 1]))
                       <=> Pending(c, fold[1..k]) \/ c = list[k + 1]
        BY <2>1, <2>4, AppendPending
      <3>. QED
        BY <2>1, <2>3, <2>6, <3>1, <3>2, <3>3
    <2>. QED
      BY <2>5, <2>6
  <1>5. Nat \subseteq S
    <2>. HIDE DEF S
    <2>. QED
      BY <1>3, <1>4, SetInduction
  <1>6. /\ fold[1..n] \in Seq(X)
        /\ \A c : Pending(c, fold[1..n]) <=> in(c, n) /\ c # Self
    <2>. HIDE DEF in
    <2>. QED
      BY <1>1, <1>5
  <1>7. \A c : in(c, n) <=> Pending(c, list)
    BY <1>1 DEF Pending
  <1>. HIDE DEF in
  <1>. QED
    BY <1>2, <1>6, <1>7 DEF OthersSteps

\* What is left of a list after a chunk, and what the chunk was.
LEMMA ChunkFacts ==
    ASSUME NEW X, NEW list \in Seq(X), NEW n \in Nat \ {0}
    PROVE  LET m == IF n < Len(list) THEN n ELSE Len(list)
           IN  /\ AfterFirst(n, list) \in Seq(X)
               /\ \A c : Pending(c, list) =>
                            c \in ToSet(SubSeq(list, 1, m)) \/ Pending(c, AfterFirst(n, list))
               /\ \A c : c \in ToSet(SubSeq(list, 1, m)) => Pending(c, list)
               /\ \A c : Pending(c, AfterFirst(n, list)) => Pending(c, list)
  <1>. DEFINE m == IF n < Len(list) THEN n ELSE Len(list)
              rest == SubSeq(list, n + 1, Len(list))
              chunk == SubSeq(list, 1, m)
  <1>1. m \in Nat /\ m <= Len(list) /\ Len(list) \in Nat
    OBVIOUS
  <1>2. chunk \in Seq(X) /\ Len(chunk) = m /\ \A i \in 1..m : chunk[i] = list[i]
    <2>. HIDE DEF m
    <2>. QED
      BY <1>1
  <1>3. DOMAIN chunk = 1..m
    BY <1>2
  <1>4. /\ rest \in Seq(X)
        /\ Len(rest) = IF n < Len(list) THEN Len(list) - n ELSE 0
        /\ \A i \in 1..Len(rest) : rest[i] = list[n + i]
    <2>1. CASE n < Len(list)
      BY <2>1
    <2>2. CASE ~(n < Len(list))
      BY <2>2
    <2>. QED
      BY <2>1, <2>2
  <1>. HIDE DEF rest, chunk
  <1>5. ASSUME NEW i \in 1..Len(list) PROVE list[i] \in ToSet(chunk) \/ Pending(list[i], rest)
    <2>1. CASE i <= m
      BY <1>1, <1>2, <1>3, <2>1 DEF ToSet
    <2>2. CASE i > m
      <3>1. i - n \in 1..Len(rest) /\ n + (i - n) = i
        BY <1>1, <1>4, <2>2
      <3>2. rest[i - n] = list[n + (i - n)]
        BY <1>4, <3>1
      <3>. QED
        BY <3>1, <3>2 DEF Pending
    <2>. QED
      BY <1>1, <2>1, <2>2
  <1>6. \A c : c \in ToSet(chunk) => Pending(c, list)
    BY <1>1, <1>2, <1>3 DEF ToSet, Pending
  <1>7. ASSUME NEW i \in 1..Len(rest) PROVE Pending(rest[i], list)
    <2>1. n + i \in 1..Len(list)
      BY <1>1, <1>4
    <2>. QED
      BY <1>4, <2>1 DEF Pending
  <1>. QED
    BY <1>4, <1>5, <1>6, <1>7 DEF Pending, AfterFirst, rest, chunk

-----------------------------------------------------------------------------
(* What the requests do to the contacts that exist. *)

\* A resource that is deleted does not exist, the others do as before.
LEMMA DeleteFacts ==
    ASSUME NEW db, NEW resources
    PROVE  \A c : Exists(DeleteResources(db, resources), c) <=> Exists(db, c) /\ c \notin resources
  BY DEF Exists, DeleteResources

\* Statements that are no classes make no contact.
LEMMA InsertFacts ==
    ASSUME NEW db, NEW new, \A q \in new : q.p # "type"
    PROVE  \A c : Exists(Insert(db, new), c) <=> Exists(db, c)
  BY DEF Exists, Insert

\* The contacts that unmerging makes.
Made == {NewContact[n] : n \in DOMAIN NewContact}

\* A step makes no contact but those, and the self contact stays.
KeepsContacts ==
    /\ \A c : Exists(store', c) => Exists(store, c) \/ c \in Made
    /\ Exists(store, Self) => Exists(store', Self)

\* The requests for relationships make no contact and remove none.
LEMMA RelationsKeep ==
    ASSUME RelationNext
    PROVE  \A c : Exists(store', c) <=> Exists(store, c)
  <1>1. CASE SaveRelations
    <2>. DEFINE new == UNION {Joining(i) : i \in Accepted}
    <2>1. \A q \in new : q.p = "memberOf"
      BY DEF Joining, Quad
    <2>2. store' = Insert(store, new)
      BY <1>1 DEF SaveRelations
    <2>. HIDE DEF new
    <2>. QED
      BY <2>1, <2>2, InsertFacts
  <1>2. CASE RemoveRelations
    <2>1. \A i \in Accepted : \A q \in Leaving(i) : q.p = "memberOf"
      BY DEF Leaving
    <2>. QED
      BY <1>2, <2>1 DEF RemoveRelations, Exists
  <1>3. CASE ~SaveRelations /\ ~RemoveRelations
    <2>1. store' = store
      BY <1>3 DEF RelationNext, AskRelations, SaveNothing, EditFails, AskMemberships, FetchRole,
                  FetchAsGroup, FetchAsMember, FetchUnsupported, FetchFails
    <2>. QED
      BY <2>1
  <1>. QED
    BY <1>1, <1>2, <1>3

\* Fetching changes nothing that is stored.
LEMMA FetchKeeps ==
    ASSUME FetchNext
    PROVE  store' = store
  BY DEF FetchNext, AskFetch, CancelFetch, IdsCanceled, IdsRejected, IdsNative, IdsEmulated, Begin,
         PreliminaryIds, PreliminaryFails, ReadSchema, ReadFails, ProcessContacts, ProcessById,
         Report

-----------------------------------------------------------------------------
(* The removal. *)

\* No merge takes the self contact as a source, a class is not a property of one
\* value, and the contacts that unmerging makes are not in a list from before.
SelfIsSafe ==
    /\ \A s \in Scenarios : Exists(s.store, Self)
    /\ \A pairs \in MergeMaps : \A pair \in pairs : pair[2] # Self
    /\ "type" \notin Single
    /\ \A list \in RemovalLists : \A c \in Made : ~Pending(c, list)

Fine == {"none", "permissions"}

RemovalType ==
    removal \in [pc : {"idle", "self", "remove", "done"}, given : Seq(Contact), left : Seq(Contact),
                 errors : SUBSET Nat, error : {"none", "permissions", "doesNotExist", "query"}]

\* Whoever the list names is still to be removed, or gone.
RemovalHolds ==
    /\ RemovalType
    /\ Exists(store, Self)
    /\ \A c \in Made : ~Pending(c, removal.given)
    /\ removal.pc = "self" => removal.left = removal.given
    /\ removal.pc = "remove" => removal.error \in Fine
    /\ removal.pc \in {"remove", "done"} /\ removal.error \in Fine =>
           /\ removal.errors = SelfPositions(removal.given)
           /\ ~Pending(Self, removal.left)
           /\ \A c : Pending(c, removal.given) /\ c # Self =>
                        Pending(c, removal.left) \/ ~Exists(store, c)
    /\ removal.pc = "done" /\ removal.error \in Fine => removal.left = << >>

\* The invariant of removals implies what is to be shown.
LEMMA RemovalHoldsExact == RemovalHolds => RemovalIsExact
  <1>. SUFFICES ASSUME RemovalHolds PROVE RemovalIsExact
    OBVIOUS
  <1>1. removal.given \in Seq(Contact) /\ DOMAIN removal.given = 1..Len(removal.given)
    BY DEF RemovalHolds, RemovalType
  <1>2. \A c : ~Pending(c, << >>)
    BY DEF Pending
  <1>. QED
    BY <1>1, <1>2 DEF RemovalHolds, RemovalIsExact, Fine, SelfPositions, Pending

\* Steps of the others keep the invariant of removals.
LEMMA OthersKeepRemoval ==
    ASSUME RemovalHolds, KeepsContacts, UNCHANGED removal
    PROVE  RemovalHolds'
  <1>1. ASSUME NEW c, Pending(c, removal.given), ~Exists(store, c) PROVE ~Exists(store', c)
    BY <1>1 DEF RemovalHolds, KeepsContacts
  <1>2. RemovalType'
    BY DEF RemovalHolds, RemovalType
  <1>3. Exists(store', Self)
    BY DEF RemovalHolds, KeepsContacts
  <1>. QED
    BY <1>1, <1>2, <1>3 DEF RemovalHolds, SelfPositions

\* Steps of a removal keep its invariant.
LEMMA RemovalSteps ==
    ASSUME SelfIsSafe, RemovalHolds, RemovalNext
    PROVE  RemovalHolds' /\ KeepsContacts
  <1>. USE DEF RemovalType
  <1>1. CASE AskRemoval
    <2>1. PICK list \in RemovalLists :
              removal' = [removal EXCEPT !.pc = "self", !.given = list, !.left = list]
      BY <1>1 DEF AskRemoval
    <2>2. list \in Seq(Contact) /\ \A c \in Made : ~Pending(c, list)
      BY RemovalAssumption DEF SelfIsSafe
    <2>3. /\ RemovalType' /\ removal'.pc = "self" /\ removal'.left = list /\ removal'.given = list
          /\ store' = store
      BY <1>1, <2>1, <2>2 DEF RemovalHolds, AskRemoval
    <2>. QED
      BY <2>2, <2>3 DEF RemovalHolds, KeepsContacts
  <1>2. CASE SelfUnknown
    <2>1. /\ RemovalType' /\ removal'.pc = "done" /\ removal'.error = "doesNotExist"
          /\ removal'.given = removal.given /\ store' = store
      BY <1>2 DEF RemovalHolds, SelfUnknown
    <2>. QED
      BY <2>1 DEF RemovalHolds, KeepsContacts, Fine
  <1>3. CASE KeepSelf
    <2>. DEFINE list == removal.given
                others == OthersOf(list)
                positions == SelfPositions(list)
    <2>1. list \in Seq(Contact) /\ removal.left = list /\ removal.pc = "self" /\ store' = store
      BY <1>3 DEF RemovalHolds, KeepSelf
    <2>2. others \in Seq(Contact) /\ \A c : Pending(c, others) <=> Pending(c, list) /\ c # Self
      BY <2>1, OthersFacts
    <2>3. positions \in SUBSET Nat
      BY <2>1 DEF SelfPositions
    <2>4. removal' = [removal EXCEPT
               !.errors = positions,
               !.error = IF positions = {} THEN "none" ELSE "permissions",
               !.left = others,
               !.pc = IF others = << >> THEN "done" ELSE "remove"]
      BY <1>3, <2>1 DEF KeepSelf
    <2>. HIDE DEF others, positions
    <2>5. /\ RemovalType' /\ removal'.given = list /\ removal'.left = others
          /\ removal'.errors = positions /\ removal'.error \in Fine
          /\ removal'.pc = IF others = << >> THEN "done" ELSE "remove"
      BY <2>2, <2>3, <2>4 DEF RemovalHolds, Fine
    <2>. QED
      BY <2>1, <2>2, <2>5 DEF RemovalHolds, KeepsContacts, positions
  <1>4. CASE RemoveChunk
    <2>. DEFINE list == removal.left
                chunk == ToSet(SubSeq(list, 1, IF ColumnLimit < Len(list)
                                               THEN ColumnLimit ELSE Len(list)))
                rest == AfterFirst(ColumnLimit, list)
    <2>1. list \in Seq(Contact) /\ ColumnLimit \in Nat \ {0}
      BY RemovalAssumption DEF RemovalHolds
    <2>2. /\ rest \in Seq(Contact)
          /\ \A c : Pending(c, list) => c \in chunk \/ Pending(c, rest)
          /\ \A c : c \in chunk => Pending(c, list)
          /\ \A c : Pending(c, rest) => Pending(c, list)
      BY <2>1, ChunkFacts
    <2>3. /\ removal.pc = "remove"
          /\ store' = DeleteResources(store, Victims(chunk))
          /\ removal' = [removal EXCEPT !.left = rest,
                                        !.pc = IF rest = << >> THEN "done" ELSE "remove"]
      BY <1>4 DEF RemoveChunk, ChunkLimit
    <2>. HIDE DEF chunk, rest
    <2>4. \A c : Exists(store', c) <=> Exists(store, c) /\ c \notin chunk
      BY <2>3, DeleteFacts DEF Victims
    <2>5. Self \notin chunk
      BY <2>2, <2>3 DEF RemovalHolds
    <2>6. /\ RemovalType' /\ removal'.given = removal.given /\ removal'.left = rest
          /\ removal'.errors = removal.errors /\ removal'.error = removal.error
          /\ removal'.pc = IF rest = << >> THEN "done" ELSE "remove"
      BY <2>2, <2>3 DEF RemovalHolds
    <2>7. KeepsContacts
      BY <2>4, <2>5 DEF KeepsContacts
    <2>. QED
      BY <2>2, <2>3, <2>4, <2>5, <2>6, <2>7 DEF RemovalHolds
  <1>5. CASE ChunkFails
    <2>1. removal.left \in Seq(Contact) /\ ColumnLimit \in Nat \ {0}
      BY RemovalAssumption DEF RemovalHolds
    <2>2. AfterFirst(ColumnLimit, removal.left) \in Seq(Contact)
      BY <2>1, ChunkFacts
    <2>3. /\ RemovalType' /\ removal'.pc = "done" /\ removal'.error = "query"
          /\ removal'.given = removal.given /\ store' = store
      BY <1>5, <2>2 DEF RemovalHolds, ChunkFails
    <2>. QED
      BY <2>3 DEF RemovalHolds, KeepsContacts, Fine
  <1>. QED
    BY <1>1, <1>2, <1>3, <1>4, <1>5 DEF RemovalNext

-----------------------------------------------------------------------------
(* What merging does to the contacts that exist. *)

Quads(S, P, O, G) == [s : S, p : P, o : O, g : G]

\* The properties of a contact: its class is not one of a single value.
Properties(P) ==
    [single : SUBSET (P \ {"type"}), singleWithGraph : SUBSET (P \ {"type"}),
     multi : SUBSET P, multiWithGraph : SUBSET P]

Accumulators(S, P, O, G) == [db : SUBSET Quads(S, P, O, G), known : [Contact -> Properties(P)]]

\* Copying from a source gives a store and notes again, and makes no contact.
LEMMA CopyFromFacts ==
    ASSUME NEW S, NEW P, NEW O, NEW G, Contact \subseteq S, "none" \in G,
           NEW acc \in Accumulators(S, P, O, G), NEW t \in Contact, NEW s \in Contact
    PROVE  /\ CopyFrom(acc, t, s) \in Accumulators(S, P, O, G)
           /\ \A c : Exists(CopyFrom(acc, t, s).db, c) <=> Exists(acc.db, c)
  <1>. DEFINE from == acc.known[s]
              taken == acc.known[t].single \cup acc.known[t].singleWithGraph
              graphed == (from.singleWithGraph \ taken) \cup (from.multiWithGraph \ {"type"})
              plain == (from.single \ taken) \cup (from.multi \ {"type"})
              inGraph == {[q EXCEPT !.s = t] :
                             q \in {x \in acc.db : x.s = s /\ x.p \in graphed /\ x.g # "none"}}
              copies == {[q EXCEPT !.s = t, !.g = "none"] :
                            q \in {x \in acc.db : x.s = s /\ x.p \in plain}}
              more == taken \cup from.single \cup from.singleWithGraph
              db == Insert(Insert(acc.db, inGraph), copies)
              single == acc.known[t].single \cup ((from.single \cup from.singleWithGraph) \ taken)
  <1>1. /\ acc.db \subseteq Quads(S, P, O, G) /\ acc.known \in [Contact -> Properties(P)]
        /\ from \in Properties(P) /\ acc.known[t] \in Properties(P)
    BY DEF Accumulators
  <1>2. CopyFrom(acc, t, s) = [acc EXCEPT !.db = db, !.known[t].single = single]
    BY DEF CopyFrom
  <1>3. inGraph \subseteq Quads(S, P, O, G) /\ \A q \in inGraph : q.p # "type"
    <2>1. \A x \in acc.db : x.p \in graphed => x.p # "type"
      BY <1>1 DEF Properties
    <2>2. ASSUME NEW x \in acc.db
          PROVE  [x EXCEPT !.s = t] \in Quads(S, P, O, G) /\ [x EXCEPT !.s = t].p = x.p
      BY <1>1 DEF Quads
    <2>. HIDE DEF graphed
    <2>. QED
      BY <2>1, <2>2
  <1>4. copies \subseteq Quads(S, P, O, G) /\ \A q \in copies : q.p # "type"
    <2>1. \A x \in acc.db : x.p \in plain => x.p # "type"
      BY <1>1 DEF Properties
    <2>2. ASSUME NEW x \in acc.db
          PROVE  /\ [x EXCEPT !.s = t, !.g = "none"] \in Quads(S, P, O, G)
                 /\ [x EXCEPT !.s = t, !.g = "none"].p = x.p
      BY <1>1 DEF Quads
    <2>. HIDE DEF plain
    <2>. QED
      BY <2>1, <2>2
  <1>5. single \in SUBSET (P \ {"type"})
    BY <1>1 DEF Properties
  <1>. HIDE DEF inGraph, copies, single
  <1>6. db \subseteq Quads(S, P, O, G)
    BY <1>1, <1>3, <1>4 DEF Insert
  <1>7. \A c : Exists(db, c) <=> Exists(acc.db, c)
    <2>1. \A c : Exists(Insert(acc.db, inGraph), c) <=> Exists(acc.db, c)
      BY <1>3, InsertFacts
    <2>2. \A c : Exists(db, c) <=> Exists(Insert(acc.db, inGraph), c)
      BY <1>4, InsertFacts
    <2>. QED
      BY <2>1, <2>2
  <1>. HIDE DEF db
  <1>. DEFINE known == [acc.known EXCEPT ![t] = [acc.known[t] EXCEPT !.single = single]]
  <1>8. known \in [Contact -> Properties(P)]
    <2>1. [acc.known[t] EXCEPT !.single = single] \in Properties(P)
      BY <1>1, <1>5 DEF Properties
    <2>. QED
      BY <1>1, <2>1
  <1>9. CopyFrom(acc, t, s) = [acc EXCEPT !.db = db, !.known = known]
    BY <1>2
  <1>. HIDE DEF known
  <1>10. CopyFrom(acc, t, s) \in Accumulators(S, P, O, G) /\ CopyFrom(acc, t, s).db = db
    BY <1>1, <1>6, <1>8, <1>9 DEF Accumulators
  <1>. QED
    BY <1>7, <1>10

\* What mergeContacts() makes of all the sources.
CopyAll(acc, t, sources) == FoldLeft(LAMBDA a, s : CopyFrom(a, t, s), acc, sources)

\* The stores and notes on the way, from one source to the next.
CopySteps(fold, X, acc, t, sources) ==
    /\ fold[1..0] = acc /\ CopyAll(acc, t, sources) = fold[1..Len(sources)]
    /\ \A k \in 1..Len(sources) :
          /\ fold[1..(k - 1)] \in X
          /\ fold[1..k] = CopyFrom(fold[1..(k - 1)], t, sources[k])

\* Copying from all sources is a chain of steps, one for each source.
LEMMA CopyAllFold ==
    ASSUME NEW S, NEW P, NEW O, NEW G, Contact \subseteq S, "none" \in G,
           NEW acc \in Accumulators(S, P, O, G), NEW t \in Contact, NEW sources \in Seq(Contact)
    PROVE  \E fold : CopySteps(fold, Accumulators(S, P, O, G), acc, t, sources)
  <1>. DEFINE copied == CopyAll(acc, t, sources)
              n == Len(sources)
  <1>1. n \in Nat /\ DOMAIN sources = 1..n /\ \A k \in 1..n : sources[k] \in Contact
    OBVIOUS
  <1>. HIDE DEF n
  <1>. DEFINE Folds(g) == g = [u \in SUBSET (1..n) |->
                                  IF u = {} THEN acc
                                  ELSE CopyFrom(g[u \ {Max(u)}], t, sources[Max(u)])]
              fold == CHOOSE g : Folds(g)
              A == Accumulators(S, P, O, G)
              step == [x \in A \X (1..n) |-> CopyFrom(x[1], t, sources[x[2]])]
  <1>2. copied = fold[1..n]
    <2>1. copied = (CHOOSE g : g = [u \in SUBSET DOMAIN sources |->
                                       IF u = {} THEN acc
                                       ELSE CopyFrom(g[u \ {Max(u)}], t, sources[Max(u)])])
                       [DOMAIN sources]
      BY DEF CopyAll, FoldLeft, MapThenFoldSet
    <2>. HIDE DEF copied
    <2>. QED
      BY <1>1, <2>1
  <1>. HIDE DEF copied
  <1>3. acc \in A
    OBVIOUS
  <1>4. \A x \in A, k \in 1..n : CopyFrom(x, t, sources[k]) \in A
    BY <1>1, CopyFromFacts
  <1>. HIDE DEF A
  <1>5. step \in [A \X (1..n) -> A]
    BY <1>4
  <1>6. PICK g : Chain(g, A, acc, step, n)
    <2>. HIDE DEF step
    <2>. QED
      BY <1>1, <1>3, <1>5, ChainExists
  <1>7. Folds(g)
    <2>1. ASSUME NEW u \in SUBSET (1..n), u # {}
          PROVE  g[u] = CopyFrom(g[u \ {Max(u)}], t, sources[Max(u)])
      <3>1. Max(u) \in 1..n /\ g[u \ {Max(u)}] \in A /\ g[u] = step[<<g[u \ {Max(u)}], Max(u)>>]
        <4>. HIDE DEF step
        <4>. QED
          BY <1>1, <1>6, <2>1, ChainFacts
      <3>. QED
        BY <3>1
    <2>. HIDE DEF step
    <2>. QED
      BY <1>6, <2>1 DEF Chain
  <1>8. Folds(fold)
    <2>. HIDE DEF Folds
    <2>. QED
      BY <1>7
  <1>. HIDE DEF fold
  <1>9. \A u \in SUBSET (1..n) :
            fold[u] = IF u = {} THEN acc ELSE CopyFrom(fold[u \ {Max(u)}], t, sources[Max(u)])
    BY <1>8
  <1>. HIDE DEF Folds
  <1>10. fold[1..0] = acc
    BY <1>1, <1>9, IntervalFacts
  <1>11. ASSUME NEW k \in 1..n PROVE fold[1..k] = CopyFrom(fold[1..(k - 1)], t, sources[k])
    <2>1. fold[1..k] = CopyFrom(fold[(1..k) \ {Max(1..k)}], t, sources[Max(1..k)])
      BY <1>1, <1>9, IntervalFacts
    <2>2. Max(1..k) = k /\ (1..k) \ {k} = 1..(k - 1)
      BY <1>1, IntervalFacts
    <2>. QED
      BY <2>1, <2>2
  <1>12. \A k \in 1..n : fold[1..(k - 1)] \in A => fold[1..k] \in A
    BY <1>4, <1>11
  <1>13. \A k \in 0..n : fold[1..k] \in A
    BY <1>1, <1>3, <1>10, <1>12, FoldStays
  <1>14. ASSUME NEW k \in 1..n PROVE fold[1..(k - 1)] \in A
    <2>1. k - 1 \in 0..n
      BY <1>1
    <2>. QED
      BY <1>13, <2>1
  <1>. QED
    BY <1>2, <1>10, <1>11, <1>14 DEF A, copied, n, CopySteps

\* They leave no contact and make none.
LEMMA CopyAllFacts ==
    ASSUME NEW S, NEW P, NEW O, NEW G, Contact \subseteq S, "none" \in G,
           NEW acc \in Accumulators(S, P, O, G), NEW t \in Contact, NEW sources \in Seq(Contact)
    PROVE  /\ CopyAll(acc, t, sources) \in Accumulators(S, P, O, G)
           /\ \A c : Exists(CopyAll(acc, t, sources).db, c) <=> Exists(acc.db, c)
  <1>. DEFINE n == Len(sources)
              X == Accumulators(S, P, O, G)
              A == {x \in X : \A c : Exists(x.db, c) <=> Exists(acc.db, c)}
  <1>1. n \in Nat /\ \A k \in 1..n : sources[k] \in Contact
    OBVIOUS
  <1>2. PICK fold : CopySteps(fold, X, acc, t, sources)
    BY CopyAllFold
  <1>. HIDE DEF n
  <1>3. fold[1..0] \in A
    BY <1>2 DEF CopySteps
  <1>4. \A x \in A, k \in 1..n : CopyFrom(x, t, sources[k]) \in A
    BY <1>1, CopyFromFacts
  <1>. HIDE DEF A
  <1>5. \A k \in 1..n : fold[1..(k - 1)] \in A => fold[1..k] \in A
    BY <1>2, <1>4 DEF n, CopySteps
  <1>6. \A k \in 0..n : fold[1..k] \in A
    BY <1>1, <1>3, <1>5, FoldStays
  <1>7. n \in 0..n
    BY <1>1
  <1>. QED
    BY <1>2, <1>6, <1>7 DEF A, n, CopySteps

\* After a merge into a contact its sources are gone, and only they.
LEMMA MergeIntoFacts ==
    ASSUME NEW S, NEW P, NEW O, NEW G, Contact \subseteq S, {"none", "qct"} \subseteq G,
           "generator" \in P, NEW acc \in Accumulators(S, P, O, G), NEW t \in Contact,
           NEW sources \in Seq(Contact), NEW target \in O
    PROVE  /\ MergeInto(acc, t, sources, target) \in Accumulators(S, P, O, G)
           /\ \A c : Exists(MergeInto(acc, t, sources, target).db, c)
                         <=> Exists(acc.db, c) /\ c \notin ToSet(sources)
  <1>. DEFINE copied == CopyAll(acc, t, sources)
              rest == DeleteResources(copied.db, ToSet(sources))
              db == SetSyncTarget(rest, t, target)
  <1>1. copied \in Accumulators(S, P, O, G) /\ \A c : Exists(copied.db, c) <=> Exists(acc.db, c)
    BY CopyAllFacts
  <1>2. MergeInto(acc, t, sources, target) = [copied EXCEPT !.db = db]
    BY DEF MergeInto, CopyAll
  <1>. HIDE DEF copied
  <1>3. copied.db \subseteq Quads(S, P, O, G)
    BY <1>1 DEF Accumulators
  <1>4. rest \subseteq copied.db
    BY DEF DeleteResources
  <1>5. db \subseteq Quads(S, P, O, G)
    <2>1. Quad(t, "generator", target, "qct") \in Quads(S, P, O, G)
      BY DEF Quad, Quads
    <2>. HIDE DEF rest
    <2>. QED
      BY <1>3, <1>4, <2>1 DEF SetSyncTarget
  <1>6. \A c : Exists(rest, c) <=> Exists(copied.db, c) /\ c \notin ToSet(sources)
    BY DeleteFacts
  <1>7. \A c : Exists(db, c) <=> Exists(rest, c)
    <2>. HIDE DEF rest
    <2>. QED
      BY DEF Exists, SetSyncTarget, Quad
  <1>. HIDE DEF db, rest
  <1>8. [copied EXCEPT !.db = db] \in Accumulators(S, P, O, G) /\ [copied EXCEPT !.db = db].db = db
    BY <1>1, <1>5 DEF Accumulators
  <1>. QED
    BY <1>1, <1>2, <1>6, <1>7, <1>8

\* All that a set of statements is about.
AllQuads(db) == \A q \in db : q = Quad(q.s, q.p, q.o, q.g)

Subjects(db) == {q.s : q \in db}
Predicates(db) == {q.p : q \in db}
Objects(db) == {q.o : q \in db}
Graphs(db) == {q.g : q \in db}

\* What is stored is made of its own subjects, predicates, objects and graphs.
LEMMA QuadFacts ==
    ASSUME NEW db, AllQuads(db), NEW S, NEW P, NEW O, NEW G,
           Subjects(db) \subseteq S, Predicates(db) \subseteq P,
           Objects(db) \subseteq O, Graphs(db) \subseteq G
    PROVE  db \subseteq Quads(S, P, O, G)
  BY DEF AllQuads, Subjects, Predicates, Objects, Graphs, Quad, Quads

\* A set of such records is a store.
LEMMA QuadsAreQuads ==
    ASSUME NEW S, NEW P, NEW O, NEW G, NEW db \in SUBSET Quads(S, P, O, G)
    PROVE  AllQuads(db)
  BY DEF AllQuads, Quad, Quads

\* The image of a finite set is finite.
LEMMA ImageFinite ==
    ASSUME NEW S, IsFiniteSet(S), NEW f, DOMAIN f = S
    PROVE  IsFiniteSet({f[x] : x \in S})
  <1>. DEFINE T == {f[x] : x \in S}
              h == [x \in S |-> f[x]]
  <1>1. h \in Surjection(S, T)
    BY DEF Surjection
  <1>. QED
    BY <1>1, FS_Surjection

\* What the request has read, and an order in which it merges.
MergeData(S, P, O, G) ==
    /\ Contact \subseteq S /\ {"none", "qct"} \subseteq G /\ "generator" \in P
    /\ SyncTarget \subseteq O
    /\ store \in SUBSET Quads(S, P, O, G)
    /\ merge.predicates \in [Contact -> Properties(P)]

MergePlan(order, sources, picked) ==
    /\ order \in Seq(Contact)
    /\ \A k \in 1..Len(order) : /\ sources[order[k]] \in Seq(Contact)
                                /\ Self \notin ToSet(sources[order[k]])
                                /\ picked[order[k]] \in SyncTarget

\* The stores and notes on the way, from one destination to the next.
MergeFolds(fold, X, order, sources, picked) ==
    /\ fold[1..0] = [db |-> store, known |-> merge.predicates]
    /\ MergeAll(order, sources, picked) = fold[1..Len(order)].db
    /\ \A k \in 1..Len(order) :
          /\ fold[1..(k - 1)] \in X
          /\ fold[1..k] = MergeInto(fold[1..(k - 1)], order[k], sources[order[k]],
                                   picked[order[k]])

\* An update that merges is a chain of steps, one for each destination.
LEMMA MergeAllFold ==
    ASSUME NEW S, NEW P, NEW O, NEW G, MergeData(S, P, O, G),
           NEW order, NEW sources, NEW picked, MergePlan(order, sources, picked)
    PROVE  \E fold : MergeFolds(fold, Accumulators(S, P, O, G), order, sources, picked)
  <1>1. /\ Contact \subseteq S /\ {"none", "qct"} \subseteq G /\ "generator" \in P
        /\ store \in SUBSET Quads(S, P, O, G)
        /\ merge.predicates \in [Contact -> Properties(P)]
        /\ order \in Seq(Contact)
        /\ \A k \in 1..Len(order) : /\ order[k] \in Contact
                                    /\ sources[order[k]] \in Seq(Contact)
                                    /\ Self \notin ToSet(sources[order[k]])
                                    /\ picked[order[k]] \in O
    BY DEF MergeData, MergePlan
  <1>. DEFINE db == MergeAll(order, sources, picked)
              acc == [db |-> store, known |-> merge.predicates]
              n == Len(order)
              MergeOne(x, k) == MergeInto(x, order[k], sources[order[k]], picked[order[k]])
  <1>2. acc \in Accumulators(S, P, O, G)
    BY <1>1 DEF Accumulators
  <1>3. n \in Nat /\ DOMAIN order = 1..n
    BY <1>1
  <1>. HIDE DEF n
  <1>. DEFINE Folds(g) == g = [u \in SUBSET (1..n) |->
                                  IF u = {} THEN acc ELSE MergeOne(g[u \ {Max(u)}], Max(u))]
              fold == CHOOSE g : Folds(g)
              A == Accumulators(S, P, O, G)
              step == [x \in A \X (1..n) |-> MergeOne(x[1], x[2])]
  <1>4. db = fold[1..n].db
    <2>1. db = (CHOOSE g : g = [u \in SUBSET DOMAIN order |->
                                   IF u = {} THEN [db |-> store, known |-> merge.predicates]
                                   ELSE MergeInto(g[u \ {Max(u)}], order[Max(u)],
                                                  sources[order[Max(u)]], picked[order[Max(u)]])])
                       [DOMAIN order].db
      BY DEF MergeAll, FoldLeft, MapThenFoldSet
    <2>. QED
      BY <1>3, <2>1
  <1>5. acc \in A
    BY <1>2
  <1>6. ASSUME NEW x \in A, NEW k \in 1..n PROVE MergeOne(x, k) \in A
    <2>1. /\ order[k] \in Contact /\ sources[order[k]] \in Seq(Contact) /\ picked[order[k]] \in O
      BY <1>1 DEF n
    <2>. QED
      BY <1>1, <2>1, MergeIntoFacts
  <1>. HIDE DEF A, acc, MergeOne
  <1>7. step \in [A \X (1..n) -> A]
    BY <1>6
  <1>8. PICK g : Chain(g, A, acc, step, n)
    <2>. HIDE DEF step
    <2>. QED
      BY <1>3, <1>5, <1>7, ChainExists
  <1>9. Folds(g)
    <2>1. ASSUME NEW u \in SUBSET (1..n), u # {}
          PROVE  g[u] = MergeOne(g[u \ {Max(u)}], Max(u))
      <3>1. Max(u) \in 1..n /\ g[u \ {Max(u)}] \in A /\ g[u] = step[<<g[u \ {Max(u)}], Max(u)>>]
        <4>. HIDE DEF step
        <4>. QED
          BY <1>3, <1>8, <2>1, ChainFacts
      <3>. QED
        BY <3>1
    <2>. HIDE DEF step
    <2>. QED
      BY <1>8, <2>1 DEF Chain
  <1>10. Folds(fold)
    <2>. HIDE DEF Folds
    <2>. QED
      BY <1>9
  <1>. HIDE DEF fold
  <1>11. \A u \in SUBSET (1..n) :
             fold[u] = IF u = {} THEN acc ELSE MergeOne(fold[u \ {Max(u)}], Max(u))
    BY <1>10
  <1>. HIDE DEF Folds
  <1>12. fold[1..0] = acc
    BY <1>3, <1>11, IntervalFacts
  <1>13. ASSUME NEW k \in 1..n PROVE fold[1..k] = MergeOne(fold[1..(k - 1)], k)
    <2>1. fold[1..k] = MergeOne(fold[(1..k) \ {Max(1..k)}], Max(1..k))
      BY <1>3, <1>11, IntervalFacts
    <2>2. Max(1..k) = k /\ (1..k) \ {k} = 1..(k - 1)
      BY <1>3, IntervalFacts
    <2>. QED
      BY <2>1, <2>2
  <1>14. \A k \in 1..n : fold[1..(k - 1)] \in A => fold[1..k] \in A
    BY <1>6, <1>13
  <1>15. \A k \in 0..n : fold[1..k] \in A
    BY <1>3, <1>5, <1>12, <1>14, FoldStays
  <1>16. ASSUME NEW k \in 1..n PROVE fold[1..(k - 1)] \in A
    <2>1. k - 1 \in 0..n
      BY <1>3
    <2>. QED
      BY <1>15, <2>1
  <1>. QED
    BY <1>4, <1>12, <1>13, <1>16 DEF A, acc, n, MergeOne, MergeFolds

\* It makes no contact, and the self contact stays.
LEMMA MergeAllFacts ==
    ASSUME NEW S, NEW P, NEW O, NEW G, MergeData(S, P, O, G),
           NEW order, NEW sources, NEW picked, MergePlan(order, sources, picked)
    PROVE  /\ MergeAll(order, sources, picked) \in SUBSET Quads(S, P, O, G)
           /\ \A c : Exists(MergeAll(order, sources, picked), c) => Exists(store, c)
           /\ Exists(store, Self) => Exists(MergeAll(order, sources, picked), Self)
  <1>1. /\ Contact \subseteq S /\ {"none", "qct"} \subseteq G /\ "generator" \in P
        /\ store \in SUBSET Quads(S, P, O, G)
        /\ merge.predicates \in [Contact -> Properties(P)]
        /\ order \in Seq(Contact)
        /\ \A k \in 1..Len(order) : /\ order[k] \in Contact
                                    /\ sources[order[k]] \in Seq(Contact)
                                    /\ Self \notin ToSet(sources[order[k]])
                                    /\ picked[order[k]] \in O
    BY DEF MergeData, MergePlan
  <1>. DEFINE db == MergeAll(order, sources, picked)
              acc == [db |-> store, known |-> merge.predicates]
              n == Len(order)
              MergeOne(x, k) == MergeInto(x, order[k], sources[order[k]], picked[order[k]])
              A == {x \in Accumulators(S, P, O, G) :
                       /\ \A c : Exists(x.db, c) => Exists(store, c)
                       /\ Exists(store, Self) => Exists(x.db, Self)}
  <1>2. acc \in Accumulators(S, P, O, G)
    BY <1>1 DEF Accumulators
  <1>3. n \in Nat
    BY <1>1
  <1>4. PICK fold : MergeFolds(fold, Accumulators(S, P, O, G), order, sources, picked)
    BY MergeAllFold
  <1>5. acc \in A
    BY <1>2
  <1>6. ASSUME NEW x \in A, NEW k \in 1..n PROVE MergeOne(x, k) \in A
    <2>1. /\ order[k] \in Contact /\ sources[order[k]] \in Seq(Contact)
          /\ Self \notin ToSet(sources[order[k]]) /\ picked[order[k]] \in O
      BY <1>1
    <2>2. /\ MergeOne(x, k) \in Accumulators(S, P, O, G)
          /\ \A c : Exists(MergeOne(x, k).db, c)
                        <=> Exists(x.db, c) /\ c \notin ToSet(sources[order[k]])
      BY <1>1, <2>1, MergeIntoFacts
    <2>. HIDE DEF MergeOne
    <2>. QED
      BY <2>1, <2>2
  <1>. HIDE DEF A, acc, MergeOne, n
  <1>7. \A k \in 1..n : fold[1..(k - 1)] \in A => fold[1..k] \in A
    BY <1>4, <1>6 DEF n, MergeOne, MergeFolds
  <1>8. \A k \in 0..n : fold[1..k] \in A
    <2>1. fold[1..0] \in A
      BY <1>4, <1>5 DEF acc, MergeFolds
    <2>. QED
      BY <1>3, <1>7, <2>1, FoldStays
  <1>9. n \in 0..n
    BY <1>3
  <1>. QED
    BY <1>4, <1>8, <1>9 DEF A, Accumulators, n, MergeFolds

\* An order of all destinations, one of the sources of each, and a sync target
\* for each that is to be preferred.
MergeChoice(order, sources, picked) ==
    /\ MergePlan(order, sources, picked)
    /\ \A i \in 1..Len(order) : order[i] \in Destinations
    /\ \A i, j \in 1..Len(order) : order[i] = order[j] => i = j
    /\ \A t \in Destinations : \E i \in 1..Len(order) : order[i] = t
    /\ \A t \in Destinations :
          /\ ToSet(sources[t]) = Sources(t)
          /\ picked[t] \in PreferredSyncTargets(SyncTargetsFor(t), merge.syncTargets[t])

\* What the update may make of the store is such a choice.
LEMMA OutcomePlan ==
    ASSUME IsFiniteSet(merge.pairs), merge.pairs \subseteq Contact \X (Contact \ {Self}),
           NEW db \in Outcomes
    PROVE  \E order, sources, picked : MergeChoice(order, sources, picked)
                                       /\ db = MergeAll(order, sources, picked)
  <1>1. /\ IsFiniteSet(Destinations) /\ Destinations \subseteq Contact
        /\ \A r : IsFiniteSet(Sources(r)) /\ Sources(r) \subseteq Contact \ {Self}
    <2>1. IsFiniteSet(Destinations)
      <3>. DEFINE f == [p \in merge.pairs |-> p[1]]
      <3>1. {f[p] : p \in merge.pairs} = Destinations
        BY DEF Destinations
      <3>2. IsFiniteSet({f[p] : p \in merge.pairs})
        BY ImageFinite
      <3>. QED
        BY <3>1, <3>2
    <2>2. ASSUME NEW r PROVE IsFiniteSet(Sources(r))
      <3>. DEFINE T == {p \in merge.pairs : p[1] = r}
                  f == [p \in T |-> p[2]]
      <3>1. {f[p] : p \in T} = Sources(r)
        BY DEF Sources
      <3>2. IsFiniteSet(T)
        BY FS_Subset
      <3>3. IsFiniteSet({f[p] : p \in T})
        <4>. HIDE DEF T
        <4>. QED
          BY <3>2, ImageFinite
      <3>. QED
        BY <3>1, <3>3
    <2>. QED
      BY <2>1, <2>2 DEF Destinations, Sources
  <1>2. PICK order, sources, picked :
            /\ order \in SetToSeqs(Destinations)
            /\ sources \in [Destinations -> UNION {SetToSeqs(Sources(t)) : t \in Destinations}]
            /\ \A t \in Destinations : ToSet(sources[t]) = Sources(t)
            /\ picked \in [Destinations -> SyncTarget]
            /\ \A t \in Destinations :
                   picked[t] \in PreferredSyncTargets(SyncTargetsFor(t), merge.syncTargets[t])
            /\ db = MergeAll(order, sources, picked)
    BY DEF Outcomes
  <1>3. /\ order \in Seq(Contact) /\ \A i \in 1..Len(order) : order[i] \in Destinations
        /\ \A i, j \in 1..Len(order) : order[i] = order[j] => i = j
        /\ \A t \in Destinations : \E i \in 1..Len(order) : order[i] = t
    <2>1. /\ order \in Seq(Destinations)
          /\ \A i, j \in 1..Len(order) : order[i] = order[j] => i = j
          /\ \A t \in Destinations : \E i \in 1..Len(order) : order[i] = t
      BY <1>1, <1>2, ListingFacts
    <2>2. order \in Seq(Contact) /\ \A i \in 1..Len(order) : order[i] \in Destinations
      BY <1>1, <2>1
    <2>. QED
      BY <2>1, <2>2
  <1>4. ASSUME NEW t \in Destinations
        PROVE  /\ sources[t] \in Seq(Contact) /\ picked[t] \in SyncTarget
               /\ Self \notin ToSet(sources[t])
    <2>0. sources[t] \in UNION {SetToSeqs(Sources(r)) : r \in Destinations}
      BY <1>2, <1>4
    <2>1. PICK r \in Destinations : sources[t] \in SetToSeqs(Sources(r))
      BY <2>0
    <2>2. sources[t] \in Seq(Sources(r))
      BY <1>1, <2>1, ListingFacts
    <2>3. sources[t] \in Seq(Contact)
      BY <1>1, <2>2
    <2>4. ToSet(sources[t]) = Sources(t)
      BY <1>2, <1>4
    <2>. QED
      BY <1>1, <1>2, <1>4, <2>3, <2>4
  <1>5. MergePlan(order, sources, picked)
    BY <1>3, <1>4 DEF MergePlan
  <1>. QED
    BY <1>2, <1>3, <1>5 DEF MergeChoice

\* An update that merges makes no contact, and the self contact stays.
LEMMA OutcomeFacts ==
    ASSUME NEW S, NEW P, NEW O, NEW G, MergeData(S, P, O, G),
           IsFiniteSet(merge.pairs), merge.pairs \subseteq Contact \X (Contact \ {Self}),
           NEW db \in Outcomes
    PROVE  /\ db \in SUBSET Quads(S, P, O, G)
           /\ \A c : Exists(db, c) => Exists(store, c)
           /\ Exists(store, Self) => Exists(db, Self)
  BY OutcomePlan, MergeAllFacts DEF MergeChoice

MergeHolds ==
    /\ {"pc", "pairs", "left", "singleWithGraph", "predicates", "syncTargets", "error"}
           \subseteq DOMAIN merge
    /\ merge.pairs \in MergeMaps \cup {{}}
    /\ merge.pc \in {"fetch", "update"} => ~Invalid(merge.pairs)
    /\ \E P : merge.predicates \in [Contact -> Properties(P)]

\* With more properties there are more notes.
LEMMA WiderProperties ==
    ASSUME NEW P, NEW Q, P \subseteq Q
    PROVE  /\ Properties(P) \subseteq Properties(Q)
           /\ [Contact -> Properties(P)] \subseteq [Contact -> Properties(Q)]
  <1>1. Properties(P) \subseteq Properties(Q)
    BY DEF Properties
  <1>. QED
    BY <1>1

\* What is noted of a contact are properties that are stored.
LEMMA ReadProperties ==
    ASSUME "type" \notin Single, NEW c
    PROVE  PropertiesOf(c) \in Properties(Predicates(store))
  BY DEF PropertiesOf, Properties, Predicates, Described

\* The contacts of an update: none is missing, and the self contact is no source.
LEMMA PairsFacts ==
    ASSUME SelfIsSafe, MergeHolds, merge.pc = "update"
    PROVE  IsFiniteSet(merge.pairs) /\ merge.pairs \subseteq Contact \X (Contact \ {Self})
  <1>1. CASE merge.pairs = {}
    BY <1>1, FS_EmptySet
  <1>2. CASE merge.pairs \in MergeMaps
    <2>1. /\ IsFiniteSet(merge.pairs)
          /\ merge.pairs \subseteq (Contact \cup {Zero}) \X (Contact \cup {Zero})
      BY <1>2, MergeAssumption
    <2>2. \A pair \in merge.pairs : pair[1] # Zero /\ pair[2] # Zero /\ pair[2] # Self
      BY <1>2 DEF MergeHolds, Invalid, SelfIsSafe
    <2>. QED
      BY <2>1, <2>2
  <1>. QED
    BY <1>1, <1>2 DEF MergeHolds

\* What an update is made of.
LEMMA MergeReads ==
    ASSUME AllQuads(store), MergeHolds
    PROVE  \E S, P, O, G : MergeData(S, P, O, G)
  <1>1. PICK P : merge.predicates \in [Contact -> Properties(P)]
    BY DEF MergeHolds
  <1>. DEFINE S == Subjects(store) \cup Contact
              Q == P \cup Predicates(store) \cup {"generator"}
              O == Objects(store) \cup SyncTarget
              G == Graphs(store) \cup {"none", "qct"}
  <1>2. store \in SUBSET Quads(S, Q, O, G)
    BY QuadFacts
  <1>3. merge.predicates \in [Contact -> Properties(Q)]
    BY <1>1, WiderProperties
  <1>4. MergeData(S, Q, O, G)
    BY <1>2, <1>3 DEF MergeData
  <1>. QED
    BY <1>4

\* Steps of a merge keep its invariant.
LEMMA MergeSteps ==
    ASSUME SelfIsSafe, AllQuads(store), MergeHolds, MergeNext
    PROVE  MergeHolds' /\ KeepsContacts /\ AllQuads(store')
  <1>1. PICK P : merge.predicates \in [Contact -> Properties(P)]
    BY DEF MergeHolds
  <1>2. CASE AskMerge \/ RejectMerge \/ RefuseMerge \/ MergeFails
    <2>1. /\ store' = store /\ merge'.predicates = merge.predicates
          /\ merge'.pairs \in MergeMaps \cup {{}} /\ merge'.pc \in {"resolve", "done"}
          /\ DOMAIN merge' = DOMAIN merge
      BY <1>2 DEF MergeHolds, AskMerge, RejectMerge, RefuseMerge, MergeFails
    <2>. QED
      BY <1>1, <2>1 DEF MergeHolds, KeepsContacts
  <1>3. CASE ResolveMerge
    <2>1. /\ store' = store /\ merge'.predicates = merge.predicates /\ ~Invalid(merge.pairs)
          /\ merge'.pairs = merge.pairs /\ DOMAIN merge' = DOMAIN merge
      BY <1>3 DEF MergeHolds, ResolveMerge
    <2>. QED
      BY <1>1, <2>1 DEF MergeHolds, KeepsContacts
  <1>4. ASSUME NEW c \in merge.left, FetchDetails(c) PROVE MergeHolds' /\ store' = store
    <2>. DEFINE Q == P \cup Predicates(store)
    <2>1. PropertiesOf(c) \in Properties(Q) /\ merge.predicates \in [Contact -> Properties(Q)]
      BY <1>1, ReadProperties, WiderProperties DEF SelfIsSafe
    <2>. HIDE DEF Q
    <2>2. /\ merge'.predicates = [merge.predicates EXCEPT ![c] = PropertiesOf(c)]
          /\ merge'.pairs = merge.pairs /\ DOMAIN merge' = DOMAIN merge
          /\ merge.pc = "fetch" /\ store' = store
      BY <1>4 DEF MergeHolds, FetchDetails
    <2>3. merge'.predicates \in [Contact -> Properties(Q)]
      BY <2>1, <2>2
    <2>. QED
      BY <2>2, <2>3 DEF MergeHolds
  <1>5. ASSUME NEW c \in merge.left, NothingInGraphs(c) PROVE MergeHolds' /\ store' = store
    <2>1. /\ store' = store /\ merge'.predicates = merge.predicates /\ merge'.pc = "done"
          /\ merge'.pairs = merge.pairs /\ DOMAIN merge' = DOMAIN merge
      BY <1>5 DEF MergeHolds, NothingInGraphs
    <2>. QED
      BY <1>1, <2>1 DEF MergeHolds
  <1>6. CASE Merge
    <2>1. /\ merge'.predicates = merge.predicates /\ merge'.pairs = merge.pairs
          /\ merge'.pc = "done" /\ DOMAIN merge' = DOMAIN merge /\ merge.pc = "update"
      BY <1>6 DEF MergeHolds, Merge
    <2>2. MergeHolds'
      BY <1>1, <2>1 DEF MergeHolds
    <2>3. PICK db \in Outcomes : store' = db \/ store' = store
      BY <1>6 DEF Merge
    <2>4. IsFiniteSet(merge.pairs) /\ merge.pairs \subseteq Contact \X (Contact \ {Self})
      BY <2>1, PairsFacts
    <2>5. PICK S, P2, O, G : MergeData(S, P2, O, G)
      BY MergeReads
    <2>6. /\ db \in SUBSET Quads(S, P2, O, G)
          /\ \A c : Exists(db, c) => Exists(store, c)
          /\ Exists(store, Self) => Exists(db, Self)
      BY <2>4, <2>5, OutcomeFacts
    <2>7. AllQuads(db)
      BY <2>6, QuadsAreQuads
    <2>. QED
      BY <2>2, <2>3, <2>6, <2>7 DEF KeepsContacts
  <1>. QED
    BY <1>2, <1>3, <1>4, <1>5, <1>6 DEF MergeNext, KeepsContacts

-----------------------------------------------------------------------------
(* What unmerging does to the contacts that exist. *)

\* What the request has read; a class is not one of the properties that move.
UnmergeReads ==
    /\ unmerge.accounts \in Seq(Account) /\ Len(unmerge.accounts) <= Len(NewContact)
    /\ \A x \in unmerge.predicates : x.predicate # "type"

UnmergeData(S, P, O, G) ==
    /\ Contact \subseteq S
    /\ \A n \in DOMAIN unmerge.accounts : NewAffiliation[n] \in S \cap O
    /\ {"type", "affiliation", "address", "generator"} \subseteq P
    /\ {"contact", "telepathy"} \cup Account \subseteq O
    /\ "qct" \in G
    /\ \A a \in Account : \A l \in unmerge.affiliations[a] : l.graph \in G

\* What moves is stored, and it is no class.
LEMMA MovingFacts ==
    ASSUME UnmergeReads, NEW db, NEW account
    PROVE  Moving(db, account) \subseteq db /\ \A q \in Moving(db, account) : q.p # "type"
  BY DEF UnmergeReads, Moving, PredicatesIn

\* Splitting an account off makes at most its contact, and removes none.
LEMMA SplitFacts ==
    ASSUME NEW S, NEW P, NEW O, NEW G, UnmergeData(S, P, O, G), UnmergeReads,
           NEW db \in SUBSET Quads(S, P, O, G), NEW n \in DOMAIN unmerge.accounts
    PROVE  /\ SplitOff(db, n) \in SUBSET Quads(S, P, O, G)
           /\ \A c : Exists(SplitOff(db, n), c) => Exists(db, c) \/ c \in Made
           /\ \A c : Exists(db, c) => Exists(SplitOff(db, n), c)
  <1>. DEFINE account == unmerge.accounts[n]
              contact == NewContact[n]
              affiliation == NewAffiliation[n]
              class == {Quad(contact, "type", "contact", "qct")}
              copies == {[q EXCEPT !.s = contact] : q \in Moving(db, account)}
              links == UNION {{Quad(contact, "affiliation", affiliation, l.graph),
                               Quad(affiliation, "address", account, l.graph)} :
                                  l \in unmerge.affiliations[account]}
              new == NewStatements(db, account, contact, affiliation)
              added == IF ~Matches(db, account) THEN db ELSE Insert(db, new)
              whole == WithGenerator(added, contact)
              moved == IF Matches(db, account) THEN whole \ Moving(whole, account) ELSE whole
  <1>1. account \in Account /\ contact \in Contact /\ contact \in Made /\ affiliation \in S \cap O
    BY UnmergeAssumption DEF UnmergeData, UnmergeReads, Made
  <1>2. new = class \cup copies \cup links
    BY DEF NewStatements
  <1>3. SplitOff(db, n) = moved \ Obsolete(moved, account)
    BY DEF SplitOff
  <1>. HIDE DEF account, contact, affiliation
  <1>4. class \subseteq Quads(S, P, O, G)
    BY <1>1 DEF UnmergeData, Quads, Quad
  <1>5. copies \subseteq Quads(S, P, O, G) /\ \A q \in copies : q.p # "type"
    <2>1. \A q \in Moving(db, account) : q \in Quads(S, P, O, G) /\ q.p # "type"
      BY MovingFacts
    <2>2. \A q \in Moving(db, account) :
              [q EXCEPT !.s = contact] \in Quads(S, P, O, G) /\ [q EXCEPT !.s = contact].p = q.p
      BY <1>1, <2>1 DEF UnmergeData, Quads
    <2>. QED
      BY <2>1, <2>2
  <1>6. links \subseteq Quads(S, P, O, G) /\ \A q \in links : q.p # "type"
    <2>1. ASSUME NEW l \in unmerge.affiliations[account]
          PROVE  /\ Quad(contact, "affiliation", affiliation, l.graph) \in Quads(S, P, O, G)
                 /\ Quad(affiliation, "address", account, l.graph) \in Quads(S, P, O, G)
                 /\ Quad(contact, "affiliation", affiliation, l.graph).p # "type"
                 /\ Quad(affiliation, "address", account, l.graph).p # "type"
      BY <1>1 DEF UnmergeData, Quads, Quad
    <2>. QED
      BY <2>1
  <1>7. new \subseteq Quads(S, P, O, G) /\ \A q \in new : q.p = "type" => q.s = contact
    <2>1. \A q \in class : q.s = contact
      BY DEF Quad
    <2>. HIDE DEF class, copies, links, new
    <2>. QED
      BY <1>2, <1>4, <1>5, <1>6, <2>1
  <1>. HIDE DEF class, copies, links, new
  <1>8. /\ added \subseteq Quads(S, P, O, G)
        /\ \A c : Exists(added, c) => Exists(db, c) \/ c = contact
        /\ \A c : Exists(db, c) => Exists(added, c)
    BY <1>7 DEF Insert, Exists
  <1>. HIDE DEF added
  <1>9. /\ whole \subseteq Quads(S, P, O, G)
        /\ \A c : Exists(whole, c) <=> Exists(added, c)
    <2>. DEFINE q == Quad(contact, "generator", "telepathy", "qct")
    <2>1. q \in Quads(S, P, O, G) /\ q.p # "type"
      BY <1>1 DEF UnmergeData, Quads, Quad
    <2>2. whole = added \/ whole = added \cup {q}
      BY DEF WithGenerator
    <2>. HIDE DEF q, whole
    <2>. QED
      BY <1>8, <2>1, <2>2 DEF Exists
  <1>. HIDE DEF whole
  <1>10. moved \subseteq whole /\ \A c : Exists(moved, c) <=> Exists(whole, c)
    BY MovingFacts DEF Exists
  <1>. HIDE DEF moved
  <1>11. \A q \in Obsolete(moved, account) : q.p # "type"
    BY DEF Obsolete
  <1>12. \A c : Exists(moved \ Obsolete(moved, account), c) <=> Exists(moved, c)
    BY <1>11 DEF Exists
  <1>. QED
    BY <1>1, <1>3, <1>8, <1>9, <1>10, <1>12

\* The stores on the way, from one account to the next.
SplitSteps(fold, X, db) ==
    /\ fold[1..0] = store /\ db = fold[1..Len(unmerge.accounts)]
    /\ \A k \in 1..Len(unmerge.accounts) :
          /\ fold[1..(k - 1)] \in X
          /\ fold[1..k] = SplitOff(fold[1..(k - 1)], k)

\* An update that unmerges is a chain of steps, one for each account.
LEMMA SplitAllFold ==
    ASSUME NEW S, NEW P, NEW O, NEW G, UnmergeData(S, P, O, G), UnmergeReads,
           store \in SUBSET Quads(S, P, O, G),
           NEW db, db = FoldLeft(SplitOff, store, [n \in DOMAIN unmerge.accounts |-> n])
    PROVE  \E fold : SplitSteps(fold, SUBSET Quads(S, P, O, G), db)
  <1>. DEFINE n == Len(unmerge.accounts)
              places == [i \in DOMAIN unmerge.accounts |-> i]
  <1>1. n \in Nat /\ DOMAIN unmerge.accounts = 1..n
    BY DEF UnmergeReads
  <1>2. DOMAIN places = 1..n /\ \A k \in 1..n : places[k] = k
    BY <1>1
  <1>. HIDE DEF n, places
  <1>. DEFINE Folds(g) == g = [u \in SUBSET (1..n) |->
                                  IF u = {} THEN store
                                  ELSE SplitOff(g[u \ {Max(u)}], places[Max(u)])]
              fold == CHOOSE g : Folds(g)
              A == SUBSET Quads(S, P, O, G)
              step == [x \in A \X (1..n) |-> SplitOff(x[1], places[x[2]])]
  <1>3. db = fold[1..n]
    <2>1. db = (CHOOSE g : g = [u \in SUBSET DOMAIN places |->
                                   IF u = {} THEN store
                                   ELSE SplitOff(g[u \ {Max(u)}], places[Max(u)])])
                   [DOMAIN places]
      BY DEF FoldLeft, MapThenFoldSet, places
    <2>. QED
      BY <1>2, <2>1
  <1>4. store \in A
    OBVIOUS
  <1>5. ASSUME NEW x \in A, NEW k \in 1..n PROVE SplitOff(x, places[k]) \in A
    BY <1>1, <1>2, SplitFacts
  <1>. HIDE DEF A
  <1>6. step \in [A \X (1..n) -> A]
    BY <1>5
  <1>7. PICK g : Chain(g, A, store, step, n)
    <2>. HIDE DEF step
    <2>. QED
      BY <1>1, <1>4, <1>6, ChainExists
  <1>8. Folds(g)
    <2>1. ASSUME NEW u \in SUBSET (1..n), u # {}
          PROVE  g[u] = SplitOff(g[u \ {Max(u)}], places[Max(u)])
      <3>1. Max(u) \in 1..n /\ g[u \ {Max(u)}] \in A /\ g[u] = step[<<g[u \ {Max(u)}], Max(u)>>]
        <4>. HIDE DEF step
        <4>. QED
          BY <1>1, <1>7, <2>1, ChainFacts
      <3>. QED
        BY <3>1
    <2>. HIDE DEF step
    <2>. QED
      BY <1>7, <2>1 DEF Chain
  <1>9. Folds(fold)
    <2>. HIDE DEF Folds
    <2>. QED
      BY <1>8
  <1>. HIDE DEF fold
  <1>10. \A u \in SUBSET (1..n) :
             fold[u] = IF u = {} THEN store ELSE SplitOff(fold[u \ {Max(u)}], places[Max(u)])
    BY <1>9
  <1>. HIDE DEF Folds
  <1>11. fold[1..0] = store
    BY <1>1, <1>10, IntervalFacts
  <1>12. ASSUME NEW k \in 1..n PROVE fold[1..k] = SplitOff(fold[1..(k - 1)], k)
    <2>1. fold[1..k] = SplitOff(fold[(1..k) \ {Max(1..k)}], places[Max(1..k)])
      BY <1>1, <1>10, IntervalFacts
    <2>2. Max(1..k) = k /\ (1..k) \ {k} = 1..(k - 1)
      BY <1>1, IntervalFacts
    <2>. QED
      BY <1>2, <2>1, <2>2
  <1>13. \A k \in 1..n : fold[1..(k - 1)] \in A => fold[1..k] \in A
    BY <1>2, <1>5, <1>12
  <1>14. \A k \in 0..n : fold[1..k] \in A
    BY <1>1, <1>4, <1>11, <1>13, FoldStays
  <1>15. ASSUME NEW k \in 1..n PROVE fold[1..(k - 1)] \in A
    <2>1. k - 1 \in 0..n
      BY <1>1
    <2>. QED
      BY <1>14, <2>1
  <1>. QED
    BY <1>3, <1>11, <1>12, <1>15 DEF A, n, SplitSteps

\* It makes contacts only where they are to be made, and leaves them all.
LEMMA SplitAllFacts ==
    ASSUME NEW S, NEW P, NEW O, NEW G, UnmergeData(S, P, O, G), UnmergeReads,
           store \in SUBSET Quads(S, P, O, G),
           NEW db, db = FoldLeft(SplitOff, store, [n \in DOMAIN unmerge.accounts |-> n])
    PROVE  /\ db \in SUBSET Quads(S, P, O, G)
           /\ \A c : Exists(db, c) => Exists(store, c) \/ c \in Made
           /\ \A c : Exists(store, c) => Exists(db, c)
  <1>. DEFINE n == Len(unmerge.accounts)
              A == {x \in SUBSET Quads(S, P, O, G) :
                       /\ \A c : Exists(x, c) => Exists(store, c) \/ c \in Made
                       /\ \A c : Exists(store, c) => Exists(x, c)}
  <1>1. n \in Nat /\ DOMAIN unmerge.accounts = 1..n
    BY DEF UnmergeReads
  <1>2. PICK fold : SplitSteps(fold, SUBSET Quads(S, P, O, G), db)
    BY SplitAllFold
  <1>. HIDE DEF n
  <1>3. fold[1..0] \in A
    BY <1>2 DEF SplitSteps
  <1>4. ASSUME NEW x \in A, NEW k \in 1..n PROVE SplitOff(x, k) \in A
    <2>1. /\ SplitOff(x, k) \in SUBSET Quads(S, P, O, G)
          /\ \A c : Exists(SplitOff(x, k), c) => Exists(x, c) \/ c \in Made
          /\ \A c : Exists(x, c) => Exists(SplitOff(x, k), c)
      BY <1>1, SplitFacts
    <2>. QED
      BY <2>1
  <1>. HIDE DEF A
  <1>5. \A k \in 1..n : fold[1..(k - 1)] \in A => fold[1..k] \in A
    BY <1>2, <1>4 DEF n, SplitSteps
  <1>6. \A k \in 0..n : fold[1..k] \in A
    BY <1>1, <1>3, <1>5, FoldStays
  <1>7. n \in 0..n
    BY <1>1
  <1>. QED
    BY <1>2, <1>6, <1>7 DEF A, n, SplitSteps

UnmergeHolds ==
    /\ {"pc", "source", "own", "accounts", "predicates", "affiliations", "ids", "error"}
           \subseteq DOMAIN unmerge
    /\ UnmergeReads
    /\ unmerge.pc # "idle" =>
           \E u \in Unmerges : unmerge.source = u.source /\ unmerge.accounts = u.accounts

\* What an update is made of.
LEMMA SplitReads ==
    ASSUME AllQuads(store)
    PROVE  \E S, P, O, G : UnmergeData(S, P, O, G) /\ store \in SUBSET Quads(S, P, O, G)
  <1>. DEFINE news == {NewAffiliation[n] : n \in DOMAIN unmerge.accounts}
              S == Subjects(store) \cup Contact \cup news
              P == Predicates(store) \cup {"type", "affiliation", "address", "generator"}
              O == Objects(store) \cup news \cup {"contact", "telepathy"} \cup Account
              G == Graphs(store) \cup {"qct"}
                       \cup {l.graph : l \in UNION {unmerge.affiliations[a] : a \in Account}}
  <1>1. UnmergeData(S, P, O, G)
    BY DEF UnmergeData
  <1>2. store \in SUBSET Quads(S, P, O, G)
    BY QuadFacts
  <1>. HIDE DEF S, P, O, G
  <1>. QED
    BY <1>1, <1>2

\* Steps of an unmerging keep its invariant.
LEMMA UnmergeSteps ==
    ASSUME AllQuads(store), UnmergeHolds, UnmergeNext
    PROVE  UnmergeHolds' /\ KeepsContacts /\ AllQuads(store')
  <1>1. CASE AskUnmerge
    <2>1. PICK u \in Unmerges :
              unmerge' = [unmerge EXCEPT !.pc = "resolve", !.source = u.source, !.own = u.own,
                                         !.accounts = u.accounts]
      BY <1>1 DEF AskUnmerge
    <2>2. u.accounts \in Seq(Account) /\ Len(u.accounts) <= Len(NewContact)
      BY UnmergeAssumption
    <2>3. /\ unmerge'.accounts = u.accounts /\ unmerge'.predicates = unmerge.predicates
          /\ unmerge'.source = u.source /\ DOMAIN unmerge' = DOMAIN unmerge
      BY <2>1 DEF UnmergeHolds
    <2>. QED
      BY <1>1, <2>2, <2>3 DEF UnmergeHolds, UnmergeReads, AskUnmerge, KeepsContacts
  <1>2. CASE RejectUnmerge \/ ResolveSource \/ ResolveUnmerged \/ UnmergeFails
    <2>1. /\ store' = store /\ unmerge'.accounts = unmerge.accounts
          /\ unmerge'.predicates = unmerge.predicates /\ DOMAIN unmerge' = DOMAIN unmerge
          /\ unmerge'.source = unmerge.source /\ unmerge.pc # "idle"
      BY <1>2 DEF UnmergeHolds, RejectUnmerge, ResolveSource, ResolveUnmerged, UnmergeFails
    <2>. QED
      BY <2>1 DEF UnmergeHolds, UnmergeReads, KeepsContacts
  <1>3. CASE FetchPredicates
    <2>. DEFINE read == {[graph |-> q.g, predicate |-> q.p] :
                            q \in {x \in store : /\ x.s = unmerge.source /\ x.p # "type"
                                                 /\ x.g # "none"}}
    <2>1. PICK links : unmerge' = [unmerge EXCEPT !.pc = "update", !.predicates = read,
                                                  !.affiliations = links]
      BY <1>3 DEF FetchPredicates
    <2>2. \A x \in read : x.predicate # "type"
      OBVIOUS
    <2>. HIDE DEF read
    <2>3. /\ unmerge'.accounts = unmerge.accounts /\ unmerge'.predicates = read
          /\ DOMAIN unmerge' = DOMAIN unmerge /\ store' = store
          /\ unmerge'.source = unmerge.source /\ unmerge.pc # "idle"
      BY <1>3, <2>1 DEF UnmergeHolds, FetchPredicates
    <2>. QED
      BY <2>2, <2>3 DEF UnmergeHolds, UnmergeReads, KeepsContacts
  <1>4. CASE UnmergeContacts
    <2>1. PICK S, P, O, G : UnmergeData(S, P, O, G) /\ store \in SUBSET Quads(S, P, O, G)
      BY SplitReads
    <2>3. /\ store' \in SUBSET Quads(S, P, O, G)
          /\ \A c : Exists(store', c) => Exists(store, c) \/ c \in Made
          /\ \A c : Exists(store, c) => Exists(store', c)
      BY <1>4, <2>1, SplitAllFacts DEF UnmergeContacts, UnmergeHolds
    <2>4. AllQuads(store')
      BY <2>3, QuadsAreQuads
    <2>5. /\ unmerge'.accounts = unmerge.accounts /\ unmerge'.predicates = unmerge.predicates
          /\ DOMAIN unmerge' = DOMAIN unmerge
          /\ unmerge'.source = unmerge.source /\ unmerge.pc # "idle"
      BY <1>4 DEF UnmergeHolds, UnmergeContacts
    <2>. QED
      BY <2>3, <2>4, <2>5 DEF UnmergeHolds, UnmergeReads, KeepsContacts
  <1>. QED
    BY <1>1, <1>2, <1>3, <1>4 DEF UnmergeNext

-----------------------------------------------------------------------------
(* All requests together. *)

\* A part of a store is a store.
LEMMA FewerQuads ==
    ASSUME NEW db, AllQuads(db), NEW less \in SUBSET db
    PROVE  AllQuads(less)
  BY DEF AllQuads

\* A store with more statements is a store.
LEMMA MoreQuads ==
    ASSUME NEW db, AllQuads(db), NEW new, AllQuads(new)
    PROVE  AllQuads(Insert(db, new))
  BY DEF AllQuads, Insert

\* Relating, removing and fetching keep the store one of statements.
LEMMA QuadsStay ==
    ASSUME AllQuads(store), RelationNext \/ RemovalNext \/ FetchNext
    PROVE  AllQuads(store')
  <1>1. CASE SaveRelations
    <2>. DEFINE new == UNION {Joining(i) : i \in Accepted}
    <2>1. AllQuads(new)
      <3>1. \A i \in Accepted : \A q \in Joining(i) : q = Quad(q.s, q.p, q.o, q.g)
        BY DEF Joining, Quad
      <3>. QED
        BY <3>1 DEF AllQuads
    <2>2. store' = Insert(store, new)
      BY <1>1 DEF SaveRelations
    <2>. HIDE DEF new
    <2>. QED
      BY <2>1, <2>2, MoreQuads
  <1>2. CASE RemoveRelations
    <2>1. store' \subseteq store
      BY <1>2 DEF RemoveRelations
    <2>. QED
      BY <2>1, FewerQuads
  <1>3. CASE RelationNext /\ ~SaveRelations /\ ~RemoveRelations
    <2>1. store' = store
      BY <1>3 DEF RelationNext, AskRelations, SaveNothing, EditFails, AskMemberships, FetchRole,
                  FetchAsGroup, FetchAsMember, FetchUnsupported, FetchFails
    <2>. QED
      BY <2>1
  <1>4. CASE RemovalNext
    <2>1. store' \subseteq store
      BY <1>4 DEF RemovalNext, AskRemoval, SelfUnknown, KeepSelf, RemoveChunk, ChunkFails,
                  DeleteResources
    <2>. QED
      BY <2>1, FewerQuads
  <1>5. CASE FetchNext
    BY <1>5, FetchKeeps
  <1>. QED
    BY <1>1, <1>2, <1>3, <1>4, <1>5

\* The inductive invariant.
EditsHold == AllQuads(store) /\ RemovalHolds /\ MergeHolds /\ UnmergeHolds

\* At first the invariant of the edits holds,
LEMMA EditsInit == SelfIsSafe /\ Init => EditsHold
  <1>. SUFFICES ASSUME SelfIsSafe, Init PROVE EditsHold
    OBVIOUS
  <1>1. AllQuads(store) /\ Exists(store, Self)
    BY ScenarioAssumption DEF Init, SelfIsSafe, AllQuads
  <1>2. RemovalHolds
    <2>1. /\ removal.pc = "idle" /\ removal.given = << >> /\ removal.error = "none"
          /\ RemovalType
      BY DEF Init, NoRemoval, RemovalType
    <2>. QED
      BY <1>1, <2>1 DEF RemovalHolds, Pending
  <1>3. MergeHolds
    <2>1. NoProperties \in Properties({})
      BY DEF NoProperties, Properties
    <2>2. merge.predicates \in [Contact -> Properties({})]
      BY <2>1 DEF Init, NoMerge
    <2>. QED
      BY <2>2 DEF Init, NoMerge, MergeHolds
  <1>4. UnmergeHolds
    BY UnmergeAssumption DEF Init, NoUnmerge, UnmergeHolds, UnmergeReads
  <1>. QED
    BY <1>1, <1>2, <1>3, <1>4 DEF EditsHold

\* and every step keeps it.
LEMMA EditsNext == SelfIsSafe /\ EditsHold /\ [Next]_vars => EditsHold'
  <1>. SUFFICES ASSUME SelfIsSafe, EditsHold, [Next]_vars PROVE EditsHold'
    OBVIOUS
  <1>. USE DEF EditsHold
  <1>1. CASE RunMerge
    <2>1. /\ MergeHolds' /\ KeepsContacts /\ AllQuads(store')
          /\ UNCHANGED <<removal, unmerge>>
      BY <1>1, MergeSteps DEF RunMerge
    <2>2. UnmergeHolds'
      BY <2>1 DEF UnmergeHolds, UnmergeReads
    <2>. QED
      BY <2>1, <2>2, OthersKeepRemoval
  <1>2. CASE RunUnmerge
    <2>1. /\ UnmergeHolds' /\ KeepsContacts /\ AllQuads(store')
          /\ UNCHANGED <<removal, merge>>
      BY <1>2, UnmergeSteps DEF RunUnmerge
    <2>2. MergeHolds'
      BY <2>1 DEF MergeHolds
    <2>. QED
      BY <2>1, <2>2, OthersKeepRemoval
  <1>3. CASE EditRelations \/ Fetch
    <2>1. KeepsContacts
      BY <1>3, RelationsKeep, FetchKeeps DEF EditRelations, Fetch, KeepsContacts
    <2>2. AllQuads(store')
      BY <1>3, QuadsStay DEF EditRelations, Fetch
    <2>3. UNCHANGED <<removal, merge, unmerge>>
      BY <1>3 DEF EditRelations, Fetch
    <2>4. MergeHolds' /\ UnmergeHolds'
      BY <2>3 DEF MergeHolds, UnmergeHolds, UnmergeReads
    <2>. QED
      BY <2>1, <2>2, <2>3, <2>4, OthersKeepRemoval
  <1>4. CASE RemoveElsewhere
    <2>1. RemovalHolds' /\ AllQuads(store') /\ UNCHANGED <<merge, unmerge>>
      BY <1>4, RemovalSteps, QuadsStay DEF RemoveElsewhere
    <2>2. MergeHolds' /\ UnmergeHolds'
      BY <2>1 DEF MergeHolds, UnmergeHolds, UnmergeReads
    <2>. QED
      BY <2>1, <2>2
  <1>5. CASE UNCHANGED vars
    <2>1. UNCHANGED <<store, removal, merge, unmerge>>
      BY <1>5 DEF vars
    <2>2. KeepsContacts /\ MergeHolds' /\ UnmergeHolds' /\ AllQuads(store')
      BY <2>1 DEF MergeHolds, UnmergeHolds, UnmergeReads, KeepsContacts
    <2>. QED
      BY <2>1, <2>2, OthersKeepRemoval
  <1>. QED
    BY <1>1, <1>2, <1>3, <1>4, <1>5 DEF Next

\* A removal removes what its list names but the self contact, and tells at
\* which positions that was, whatever merges, splits and edits the contacts
\* meanwhile (contactremoverequest.cpp:98-160).
THEOREM RemovalsAreExact == SelfIsSafe /\ Spec => []RemovalIsExact
  <1>. SUFFICES ASSUME SelfIsSafe PROVE Spec => []RemovalIsExact
    OBVIOUS
  <1>1. Init => EditsHold
    BY EditsInit
  <1>2. EditsHold /\ [Next]_vars => EditsHold'
    BY EditsNext
  <1>3. EditsHold => RemovalIsExact
    BY RemovalHoldsExact DEF EditsHold
  <1>. QED
    BY <1>1, <1>2, <1>3, PTL DEF Spec

-----------------------------------------------------------------------------
(* Relationships. *)

\* A client that edits relationships does not merge and unmerge contacts as
\* well, which moves relationships too, and it has saved all that there are.
OnlyRelations ==
    \A s \in Scenarios :
        "relation" \in s.requests =>
            /\ s.requests \cap {"merge", "unmerge"} = {}
            /\ \A q \in s.store : q.p = "memberOf" => q.s = q.o

\* The statement of a relationship.
Stated(db, pair) == \E q \in db : q.s = pair[2] /\ q.p = "memberOf" /\ q.o = pair[1]

\* What was saved and not removed is what is in the store, between contacts that
\* exist.
SavedHolds ==
    /\ \A pair \in relation.saved :
          /\ pair = <<pair[1], pair[2]>> /\ pair[1] # pair[2]
          /\ Alive(pair) => Stated(store, pair)
    /\ \A q \in store :
          q.p = "memberOf" /\ q.s # q.o /\ Exists(store, q.s) /\ Exists(store, q.o)
              => <<q.o, q.s>> \in relation.saved

\* The pairs that have the participant in the role are found.
FoundFor(role) ==
    \A pair \in relation.saved :
        /\ pair[role] = relation.participant
        /\ Alive(pair) /\ "group" \in Values(store, pair[1], "type")
        => pair \in ToSet(relation.found)

RelationFields ==
    {"pc", "given", "errors", "error", "kind", "supported", "participant", "found", "saved"}
        \subseteq DOMAIN relation

RelationHolds ==
    /\ RelationFields
    /\ IsFiniteSet(store)
    /\ SavedHolds
    /\ relation.pc = "run" => /\ relation.given \in Seq(Relationship)
                              /\ relation.kind \in {"save", "remove"}
    /\ relation.pc = "first" => relation.kind = "fetch" /\ relation.found = << >>
    /\ relation.pc = "second" =>
           /\ relation.kind = "fetch"
           /\ relation.found \in Seq(relation.saved) /\ IsInjective(relation.found)
           /\ \A pair \in ToSet(relation.found) : pair[1] = relation.participant
           /\ FoundFor(1)
    /\ relation.pc = "done" /\ relation.kind = "fetch" /\ relation.error = "none" =>
           /\ IsInjective(relation.found)
           /\ ToSet(relation.found) \subseteq relation.saved
           /\ FoundFor(1) /\ FoundFor(2)

\* The invariant of relationships implies what is to be shown.
LEMMA RelationHoldsFound == RelationHolds => FoundIsSaved
  BY DEF RelationHolds, FoundIsSaved, FoundFor

\* What others may do: remove all that is said of some contacts.
LEMMA OthersKeepRelations ==
    ASSUME RelationHolds, UNCHANGED relation, NEW gone, store' = DeleteResources(store, gone)
    PROVE  RelationHolds'
  <1>1. store' \subseteq store /\ \A q \in store : q \in store' <=> q.s \notin gone
    BY DEF DeleteResources
  <1>2. IsFiniteSet(store')
    BY <1>1, FS_Subset DEF RelationHolds
  <1>3. \A c : Exists(store', c) <=> Exists(store, c) /\ c \notin gone
    BY DeleteFacts
  <1>4. \A c : Values(store', c, "type") \subseteq Values(store, c, "type")
    BY <1>1 DEF Values
  <1>5. SavedHolds'
    <2>1. ASSUME NEW pair \in relation.saved, Exists(store', pair[1]), Exists(store', pair[2])
          PROVE  Stated(store', pair)
      <3>1. Stated(store, pair) /\ pair[2] \notin gone
        BY <1>3, <2>1 DEF RelationHolds, SavedHolds, Alive
      <3>. QED
        BY <1>1, <3>1 DEF Stated
    <2>2. ASSUME NEW q \in store', q.p = "memberOf", q.s # q.o, Exists(store', q.s),
                 Exists(store', q.o)
          PROVE  <<q.o, q.s>> \in relation.saved
      BY <1>1, <1>3, <2>2 DEF RelationHolds, SavedHolds
    <2>3. \A pair \in relation.saved : pair = <<pair[1], pair[2]>> /\ pair[1] # pair[2]
      BY DEF RelationHolds, SavedHolds
    <2>. QED
      BY <2>1, <2>2, <2>3 DEF SavedHolds, Alive
  <1>6. \A role \in {1, 2} : FoundFor(role) => FoundFor(role)'
    BY <1>3, <1>4 DEF FoundFor, Alive
  <1>. QED
    BY <1>2, <1>5, <1>6 DEF RelationHolds, RelationFields

\* There are finitely many memberships.
LEMMA MembershipsFinite == IsFiniteSet(store) => IsFiniteSet(Memberships)
  <1>. DEFINE T == {x \in store : /\ x.p = "memberOf" /\ x.s # x.o
                                  /\ Exists(store, x.s)
                                  /\ "group" \in Values(store, x.o, "type")}
              f == [q \in T |-> <<q.o, q.s>>]
  <1>. SUFFICES ASSUME IsFiniteSet(store) PROVE IsFiniteSet(Memberships)
    OBVIOUS
  <1>1. IsFiniteSet(T)
    BY FS_Subset
  <1>2. {f[q] : q \in T} = Memberships
    BY DEF Memberships
  <1>. HIDE DEF T
  <1>. QED
    BY <1>1, <1>2, ImageFinite

\* The memberships that a query finds are what was saved, as far as it exists.
LEMMA MembershipsAreSaved ==
    ASSUME SavedHolds
    PROVE  /\ Memberships \subseteq relation.saved
           /\ \A pair \in relation.saved :
                 Alive(pair) /\ "group" \in Values(store, pair[1], "type") => pair \in Memberships
  <1>1. \A c : "group" \in Values(store, c, "type") => Exists(store, c)
    BY DEF Values, Exists
  <1>2. Memberships \subseteq relation.saved
    BY <1>1 DEF Memberships, SavedHolds
  <1>3. ASSUME NEW pair \in relation.saved, Alive(pair), "group" \in Values(store, pair[1], "type")
        PROVE  pair \in Memberships
    <2>1. PICK q \in store : q.s = pair[2] /\ q.p = "memberOf" /\ q.o = pair[1]
      BY <1>3 DEF SavedHolds, Stated
    <2>2. <<q.o, q.s>> \in Memberships
      BY <1>3, <2>1 DEF Memberships, SavedHolds, Alive
    <2>. QED
      BY <1>3, <2>1, <2>2 DEF SavedHolds
  <1>. QED
    BY <1>2, <1>3

\* A relationship that is accepted is between two contacts.
LEMMA AcceptedFacts ==
    ASSUME relation.given \in Seq(Relationship)
    PROVE  /\ IsFiniteSet(Accepted)
           /\ \A i \in Accepted : relation.given[i].group # relation.given[i].member
           /\ Pairs(Accepted) = {<<relation.given[i].group, relation.given[i].member>> : i \in Accepted}
  <1>1. IsFiniteSet(1..Len(relation.given)) /\ DOMAIN relation.given = 1..Len(relation.given)
    BY FS_Interval
  <1>2. IsFiniteSet(Accepted)
    BY <1>1, FS_Subset DEF Accepted
  <1>3. ASSUME NEW i \in Accepted PROVE relation.given[i].group # relation.given[i].member
    <2>1. Verdict(relation.given[i], relation.kind) = "none"
      BY DEF Accepted, Rejected, Verdicts
    <2>. QED
      BY <2>1 DEF Verdict
  <1>4. Pairs(Accepted) = {<<relation.given[i].group, relation.given[i].member>> : i \in Accepted}
    BY DEF Pairs
  <1>. QED
    BY <1>2, <1>3, <1>4

\* Saving keeps the invariant.
LEMMA SaveSteps ==
    ASSUME RelationHolds, SaveRelations
    PROVE  RelationHolds'
  <1>. DEFINE r(i) == relation.given[i]
              new == UNION {Joining(i) : i \in Accepted}
  <1>1. /\ relation.given \in Seq(Relationship) /\ SavedHolds /\ IsFiniteSet(store)
        /\ store' = Insert(store, new)
        /\ relation'.saved = relation.saved \cup {p \in Pairs(Accepted) : Alive(p)}
        /\ relation'.pc = "done" /\ relation'.kind = "save" /\ DOMAIN relation' = DOMAIN relation
    BY DEF RelationHolds, RelationFields, SaveRelations
  <1>2. /\ IsFiniteSet(Accepted) /\ \A i \in Accepted : r(i).group # r(i).member
        /\ Pairs(Accepted) = {<<r(i).group, r(i).member>> : i \in Accepted}
    BY <1>1, AcceptedFacts
  <1>3. \A q : q \in new <=> \E i \in Accepted :
                   /\ q = Quad(r(i).member, "memberOf", r(i).group, "qct")
                   /\ Exists(store, r(i).member) /\ Exists(store, r(i).group)
    <2>1. \A i, q : q \in Joining(i) <=>
                   /\ q = Quad(r(i).member, "memberOf", r(i).group, "qct")
                   /\ Exists(store, r(i).member) /\ Exists(store, r(i).group)
      BY DEF Joining, Quad
    <2>. HIDE DEF r
    <2>. QED
      BY <2>1
  <1>4. IsFiniteSet(new)
    <2>. DEFINE f == [i \in Accepted |-> Joining(i)]
    <2>1. \A i \in Accepted : IsFiniteSet(Joining(i))
      <3>1. \A q : IsFiniteSet({q})
        BY FS_Singleton
      <3>. QED
        BY <3>1, FS_Subset DEF Joining
    <2>2. DOMAIN f = Accepted /\ {f[i] : i \in Accepted} = {Joining(i) : i \in Accepted}
      OBVIOUS
    <2>. HIDE DEF f
    <2>3. IsFiniteSet({f[i] : i \in Accepted})
      BY <1>2, <2>2, ImageFinite
    <2>. QED
      BY <2>1, <2>2, <2>3, FS_UNION DEF new
  <1>. HIDE DEF new
  <1>5. IsFiniteSet(store')
    <2>. DEFINE fresh == {q \in new : q.o \notin Values(store, q.s, q.p)}
    <2>1. IsFiniteSet(fresh)
      BY <1>4, FS_Subset
    <2>2. store' = store \cup fresh
      BY <1>1 DEF Insert
    <2>. HIDE DEF fresh
    <2>. QED
      BY <1>1, <2>1, <2>2, FS_Union
  <1>6. \A c : Exists(store', c) <=> Exists(store, c)
    <2>1. \A q \in new : q.p # "type"
      BY <1>3 DEF Quad
    <2>. QED
      BY <1>1, <2>1, InsertFacts
  <1>7. ASSUME NEW p \in relation'.saved
        PROVE  /\ p = <<p[1], p[2]>> /\ p[1] # p[2]
               /\ Exists(store, p[1]) /\ Exists(store, p[2]) => Stated(store', p)
    <2>1. CASE p \in relation.saved
      BY <1>1, <2>1 DEF SavedHolds, Alive, Stated, Insert
    <2>2. CASE p \in Pairs(Accepted) /\ Alive(p)
      <3>1. PICK i \in Accepted : p = <<r(i).group, r(i).member>>
        BY <1>2, <2>2
      <3>. DEFINE q == Quad(r(i).member, "memberOf", r(i).group, "qct")
      <3>2. q \in new /\ q.s = p[2] /\ q.p = "memberOf" /\ q.o = p[1]
        BY <1>3, <2>2, <3>1 DEF Alive, Quad
      <3>3. p = <<p[1], p[2]>> /\ p[1] # p[2]
        BY <1>2, <3>1
      <3>. HIDE DEF q
      <3>4. Stated(store', p)
        BY <1>1, <3>2 DEF Insert, Values, Stated
      <3>. QED
        BY <3>3, <3>4
    <2>. QED
      BY <1>1, <2>1, <2>2
  <1>8. ASSUME NEW q \in store', q.p = "memberOf", q.s # q.o,
               Exists(store, q.s), Exists(store, q.o)
        PROVE  <<q.o, q.s>> \in relation'.saved
    <2>1. CASE q \in store
      BY <1>1, <1>8, <2>1 DEF SavedHolds
    <2>2. CASE q \in new
      <3>1. PICK i \in Accepted : q = Quad(r(i).member, "memberOf", r(i).group, "qct")
        BY <1>3, <2>2
      <3>2. q.s = r(i).member /\ q.o = r(i).group
        BY <3>1 DEF Quad
      <3>3. <<q.o, q.s>> \in Pairs(Accepted)
        BY <1>2, <3>2
      <3>. QED
        BY <1>1, <1>8, <3>3 DEF Alive
    <2>. QED
      BY <1>1, <2>1, <2>2 DEF Insert
  <1>9. SavedHolds'
    BY <1>6, <1>7, <1>8 DEF SavedHolds, Alive
  <1>. QED
    BY <1>1, <1>5, <1>9 DEF RelationHolds, RelationFields

\* Removing keeps the invariant.
LEMMA RemoveSteps ==
    ASSUME RelationHolds, RemoveRelations
    PROVE  RelationHolds'
  <1>. DEFINE r(i) == relation.given[i]
              left == UNION {Leaving(i) : i \in Accepted}
  <1>1. /\ relation.given \in Seq(Relationship) /\ SavedHolds /\ IsFiniteSet(store)
        /\ store' = store \ left
        /\ relation'.saved = relation.saved \ Pairs(Accepted)
        /\ relation'.pc = "done" /\ relation'.kind = "remove" /\ DOMAIN relation' = DOMAIN relation
    BY DEF RelationHolds, RelationFields, RemoveRelations
  <1>2. Pairs(Accepted) = {<<r(i).group, r(i).member>> : i \in Accepted}
    BY <1>1, AcceptedFacts
  <1>3. \A q \in store : q \in left <=> \E i \in Accepted :
                   /\ q.s = r(i).member /\ q.p = "memberOf" /\ q.o = r(i).group
                   /\ Exists(store, q.s) /\ Exists(store, q.o)
    <2>1. \A i : \A q \in store : q \in Leaving(i) <=>
                   /\ q.s = r(i).member /\ q.p = "memberOf" /\ q.o = r(i).group
                   /\ Exists(store, q.s) /\ Exists(store, q.o)
      BY DEF Leaving
    <2>. HIDE DEF r
    <2>. QED
      BY <2>1
  <1>. HIDE DEF left
  <1>4. IsFiniteSet(store')
    BY <1>1, FS_Subset
  <1>5. \A c : Exists(store', c) <=> Exists(store, c)
    BY <1>1, <1>3 DEF Exists
  <1>6. ASSUME NEW p \in relation'.saved
        PROVE  /\ p = <<p[1], p[2]>> /\ p[1] # p[2]
               /\ Exists(store, p[1]) /\ Exists(store, p[2]) => Stated(store', p)
    <2>1. p \in relation.saved /\ p \notin Pairs(Accepted) /\ p = <<p[1], p[2]>> /\ p[1] # p[2]
      BY <1>1 DEF SavedHolds
    <2>2. ASSUME NEW q \in store, q.s = p[2], q.p = "memberOf", q.o = p[1] PROVE q \in store'
      <3>1. \A i \in Accepted : ~(p[1] = r(i).group /\ p[2] = r(i).member)
        BY <1>2, <2>1
      <3>. QED
        BY <1>1, <1>3, <2>2, <3>1
    <2>. QED
      BY <1>1, <2>1, <2>2 DEF SavedHolds, Stated, Alive
  <1>7. ASSUME NEW q \in store', q.p = "memberOf", q.s # q.o,
               Exists(store, q.s), Exists(store, q.o)
        PROVE  <<q.o, q.s>> \in relation'.saved
    <2>1. <<q.o, q.s>> \in relation.saved /\ q \in store /\ q \notin left
      BY <1>1, <1>7 DEF SavedHolds
    <2>2. \A i \in Accepted : ~(q.s = r(i).member /\ q.o = r(i).group)
      BY <1>3, <1>7, <2>1
    <2>3. <<q.o, q.s>> \notin Pairs(Accepted)
      BY <1>2, <2>2
    <2>. QED
      BY <1>1, <2>1, <2>3
  <1>8. SavedHolds'
    BY <1>5, <1>6, <1>7 DEF SavedHolds, Alive
  <1>. QED
    BY <1>1, <1>4, <1>8 DEF RelationHolds, RelationFields

\* What is believed to be saved stays so while nothing is stored.
LEMMA SavedStays ==
    ASSUME SavedHolds, UNCHANGED store, relation'.saved = relation.saved
    PROVE  SavedHolds'
  BY DEF SavedHolds, Alive

\* What the query for a role lists.
LEMMA RowsFacts ==
    ASSUME RelationHolds, NEW role,
           NEW rows \in SetToSeqs({pair \in Memberships : pair[role] = relation.participant})
    PROVE  /\ rows \in Seq(relation.saved)
           /\ IsInjective(rows)
           /\ \A i \in 1..Len(rows) : rows[i][role] = relation.participant
           /\ \A pair \in relation.saved :
                 /\ pair[role] = relation.participant
                 /\ Alive(pair) /\ "group" \in Values(store, pair[1], "type")
                 => \E i \in 1..Len(rows) : rows[i] = pair
  <1>. DEFINE T == {pair \in Memberships : pair[role] = relation.participant}
  <1>1. IsFiniteSet(T)
    BY MembershipsFinite, FS_Subset DEF RelationHolds
  <1>2. /\ rows \in Seq(T)
        /\ \A i, j \in 1..Len(rows) : rows[i] = rows[j] => i = j
        /\ \A x \in T : \E i \in 1..Len(rows) : rows[i] = x
    <2>1. rows \in SetToSeqs(T)
      OBVIOUS
    <2>. HIDE DEF T
    <2>. QED
      BY <1>1, <2>1, ListingFacts
  <1>3. /\ T \subseteq relation.saved
        /\ \A pair \in relation.saved :
              /\ pair[role] = relation.participant
              /\ Alive(pair) /\ "group" \in Values(store, pair[1], "type")
              => pair \in T
    BY MembershipsAreSaved DEF RelationHolds
  <1>4. \A pair \in T : pair[role] = relation.participant
    OBVIOUS
  <1>. HIDE DEF T
  <1>5. rows \in Seq(relation.saved) /\ DOMAIN rows = 1..Len(rows)
    BY <1>2, <1>3
  <1>. QED
    BY <1>2, <1>3, <1>4, <1>5 DEF IsInjective

\* The rows of the first query.
LEMMA FirstRole ==
    ASSUME RelationHolds, FetchAsGroup
    PROVE  RelationHolds'
  <1>1. PICK rows \in SetToSeqs({pair \in Memberships : pair[1] = relation.participant}) :
            relation' = [relation EXCEPT !.found = @ \o rows, !.pc = "second"]
    BY DEF FetchAsGroup, FetchRole
  <1>2. /\ rows \in Seq(relation.saved) /\ IsInjective(rows)
        /\ \A i \in 1..Len(rows) : rows[i][1] = relation.participant
        /\ \A pair \in relation.saved :
              /\ pair[1] = relation.participant
              /\ Alive(pair) /\ "group" \in Values(store, pair[1], "type")
              => \E i \in 1..Len(rows) : rows[i] = pair
    BY RowsFacts
  <1>3. relation.found = << >> /\ relation.kind = "fetch" /\ store' = store
    BY DEF RelationHolds, FetchAsGroup, FetchRole
  <1>4. << >> \o rows = rows
    BY <1>2
  <1>5. /\ relation'.found = rows /\ relation'.pc = "second" /\ relation'.kind = "fetch"
        /\ relation'.saved = relation.saved /\ relation'.participant = relation.participant
        /\ DOMAIN relation' = DOMAIN relation
    BY <1>1, <1>3, <1>4 DEF RelationHolds, RelationFields
  <1>6. DOMAIN rows = 1..Len(rows)
    BY <1>2
  <1>7. \A pair \in ToSet(rows) : pair[1] = relation.participant
    BY <1>2, <1>6 DEF ToSet
  <1>8. FoundFor(1)'
    BY <1>2, <1>3, <1>5, <1>6 DEF FoundFor, ToSet, Alive
  <1>9. SavedHolds'
    BY <1>3, <1>5, SavedStays DEF RelationHolds
  <1>. QED
    BY <1>2, <1>3, <1>5, <1>7, <1>8, <1>9 DEF RelationHolds, RelationFields

\* The rows of the second query, with those of the first one.
LEMMA SecondRole ==
    ASSUME RelationHolds, FetchAsMember
    PROVE  RelationHolds'
  <1>. DEFINE found == relation.found
  <1>1. PICK rows \in SetToSeqs({pair \in Memberships : pair[2] = relation.participant}) :
            relation' = [relation EXCEPT !.found = @ \o rows, !.pc = "done"]
    BY DEF FetchAsMember, FetchRole
  <1>2. /\ rows \in Seq(relation.saved) /\ IsInjective(rows)
        /\ \A i \in 1..Len(rows) : rows[i][2] = relation.participant
        /\ \A pair \in relation.saved :
              /\ pair[2] = relation.participant
              /\ Alive(pair) /\ "group" \in Values(store, pair[1], "type")
              => \E i \in 1..Len(rows) : rows[i] = pair
    BY RowsFacts
  <1>3. /\ found \in Seq(relation.saved) /\ IsInjective(found)
        /\ \A pair \in ToSet(found) : pair[1] = relation.participant
        /\ FoundFor(1) /\ relation.kind = "fetch" /\ store' = store
    BY DEF RelationHolds, FetchAsMember, FetchRole
  <1>. DEFINE all == found \o rows
  <1>4. /\ relation'.found = all /\ relation'.pc = "done" /\ relation'.kind = "fetch"
        /\ relation'.saved = relation.saved /\ relation'.participant = relation.participant
        /\ DOMAIN relation' = DOMAIN relation
    BY <1>1, <1>3 DEF RelationHolds, RelationFields
  <1>5. /\ all \in Seq(relation.saved) /\ Len(all) = Len(found) + Len(rows)
        /\ \A i \in 1..Len(found) : all[i] = found[i]
        /\ \A i \in 1..Len(rows) : all[Len(found) + i] = rows[i]
    <2>1. rows \in Seq(relation.saved) /\ found \in Seq(relation.saved)
      BY <1>2, <1>3
    <2>. HIDE DEF found
    <2>. QED
      BY <2>1, ConcatFacts
  <1>6. /\ Len(found) \in Nat /\ DOMAIN found = 1..Len(found)
        /\ Len(rows) \in Nat /\ DOMAIN rows = 1..Len(rows)
    BY <1>2, <1>3
  <1>. HIDE DEF found, all
  <1>7. DOMAIN all = 1..Len(all)
    BY <1>5
  <1>8. \A i \in 1..Len(found), j \in 1..Len(rows) : found[i] # rows[j]
    <2>1. \A j \in 1..Len(rows) : rows[j] \in relation.saved
      BY <1>2
    <2>2. \A pair \in relation.saved : pair[1] # pair[2]
      BY DEF RelationHolds, SavedHolds
    <2>3. \A i \in 1..Len(found) : found[i][1] = relation.participant
      BY <1>3, <1>6 DEF ToSet
    <2>. QED
      BY <1>2, <2>1, <2>2, <2>3
  <1>9. \A i \in 1..Len(all) :
            \/ i \in 1..Len(found) /\ all[i] = found[i]
            \/ i - Len(found) \in 1..Len(rows) /\ all[i] = rows[i - Len(found)]
    <2>. SUFFICES ASSUME NEW i \in 1..Len(all), i > Len(found)
                  PROVE  i - Len(found) \in 1..Len(rows) /\ all[i] = rows[i - Len(found)]
      BY <1>5, <1>6
    <2>1. i - Len(found) \in 1..Len(rows) /\ Len(found) + (i - Len(found)) = i
      BY <1>5, <1>6
    <2>. QED
      BY <1>5, <2>1
  <1>10. IsInjective(all)
    <2>. SUFFICES ASSUME NEW i \in 1..Len(all), NEW j \in 1..Len(all), all[i] = all[j]
                  PROVE  i = j
      BY <1>7 DEF IsInjective
    <2>. DEFINE n == Len(found)
    <2>1. CASE i \in 1..n /\ j \in 1..n
      BY <1>3, <1>5, <1>6, <2>1 DEF IsInjective
    <2>2. CASE i \notin 1..n /\ j \notin 1..n
      <3>1. rows[i - n] = rows[j - n] /\ i - n \in DOMAIN rows /\ j - n \in DOMAIN rows
        BY <1>6, <1>9, <2>2
      <3>2. i - n = j - n
        BY <1>2, <3>1 DEF IsInjective
      <3>. QED
        BY <1>5, <1>6, <3>2
    <2>3. CASE (i \in 1..n) # (j \in 1..n)
      BY <1>8, <1>9, <2>3
    <2>. QED
      BY <2>1, <2>2, <2>3
  <1>11. ToSet(all) \subseteq relation.saved
    BY <1>5, <1>7 DEF ToSet
  <1>12. FoundFor(1)'
    <2>1. ToSet(found) \subseteq ToSet(all)
      BY <1>5, <1>6, <1>7 DEF ToSet
    <2>. QED
      BY <1>3, <1>4, <2>1 DEF FoundFor, Alive, found
  <1>13. FoundFor(2)'
    <2>1. \A i \in 1..Len(rows) : rows[i] \in ToSet(all)
      <3>1. ASSUME NEW i \in 1..Len(rows)
            PROVE  Len(found) + i \in 1..Len(all) /\ all[Len(found) + i] = rows[i]
        BY <1>5, <1>6
      <3>. QED
        BY <1>7, <3>1 DEF ToSet
    <2>. QED
      BY <1>2, <1>3, <1>4, <2>1 DEF FoundFor, Alive
  <1>14. SavedHolds'
    BY <1>3, <1>4, SavedStays DEF RelationHolds
  <1>15. IsFiniteSet(store')
    BY <1>3 DEF RelationHolds
  <1>. QED
    BY <1>4, <1>10, <1>11, <1>12, <1>13, <1>14, <1>15 DEF RelationHolds, RelationFields

\* Steps of the requests for relationships keep their invariant.
LEMMA RelationSteps ==
    ASSUME RelationHolds, RelationNext
    PROVE  RelationHolds'
  <1>1. ASSUME NEW kind \in {"save", "remove"}, AskRelations(kind) PROVE RelationHolds'
    <2>1. PICK list \in RelationLists :
              relation' = [relation EXCEPT !.pc = "run", !.kind = kind, !.given = list,
                               !.errors = << >>, !.error = "none", !.participant = Zero,
                               !.found = << >>]
      BY <1>1 DEF AskRelations
    <2>2. list \in Seq(Relationship)
      BY RelationAssumption
    <2>3. /\ relation'.pc = "run" /\ relation'.kind = kind /\ relation'.given = list
          /\ relation'.saved = relation.saved /\ DOMAIN relation' = DOMAIN relation
          /\ store' = store
      BY <1>1, <2>1 DEF AskRelations, RelationHolds, RelationFields
    <2>4. SavedHolds'
      BY <2>3, SavedStays DEF RelationHolds
    <2>. QED
      BY <2>2, <2>3, <2>4 DEF RelationHolds, RelationFields
  <1>2. CASE AskMemberships
    <2>1. /\ relation'.pc = "first" /\ relation'.kind = "fetch" /\ relation'.found = << >>
          /\ relation'.saved = relation.saved /\ DOMAIN relation' = DOMAIN relation
          /\ store' = store
      BY <1>2 DEF AskMemberships, RelationHolds, RelationFields
    <2>2. SavedHolds'
      BY <2>1, SavedStays DEF RelationHolds
    <2>. QED
      BY <2>1, <2>2 DEF RelationHolds, RelationFields
  <1>3. CASE SaveNothing \/ EditFails \/ FetchUnsupported \/ FetchFails
    <2>1. /\ relation'.pc = "done" /\ relation'.error # "none"
          /\ relation'.saved = relation.saved /\ DOMAIN relation' = DOMAIN relation
          /\ store' = store
      BY <1>3 DEF SaveNothing, EditFails, FetchUnsupported, FetchFails, RelationHolds,
                  RelationFields
    <2>2. SavedHolds'
      BY <2>1, SavedStays DEF RelationHolds
    <2>. QED
      BY <2>1, <2>2 DEF RelationHolds, RelationFields
  <1>. QED
    BY <1>1, <1>2, <1>3, SaveSteps, RemoveSteps, FirstRole, SecondRole DEF RelationNext

\* The inductive invariant.
RelationsHold ==
    /\ "relation" \in requests =>
           "merge" \notin requests /\ "unmerge" \notin requests /\ RelationHolds
    /\ "relation" \notin requests => relation = NoRelation

\* At first the invariant of relationships holds,
LEMMA RelationsInit == OnlyRelations /\ Init => RelationsHold
  <1>. SUFFICES ASSUME OnlyRelations, Init, "relation" \in requests
                PROVE  "merge" \notin requests /\ "unmerge" \notin requests /\ RelationHolds
    BY DEF Init, RelationsHold
  <1>1. /\ IsFiniteSet(store) /\ "merge" \notin requests /\ "unmerge" \notin requests
        /\ \A q \in store : q.p = "memberOf" => q.s = q.o
    BY ScenarioAssumption DEF Init, OnlyRelations
  <1>2. /\ relation.pc = "idle" /\ relation.saved = {} /\ RelationFields
    BY DEF Init, NoRelation, RelationFields
  <1>3. SavedHolds
    BY <1>1, <1>2 DEF SavedHolds
  <1>. QED
    BY <1>1, <1>2, <1>3 DEF RelationHolds

\* and every step keeps it.
LEMMA RelationsNext == RelationsHold /\ [Next]_vars => RelationsHold'
  <1>. SUFFICES ASSUME RelationsHold, [Next]_vars PROVE RelationsHold'
    OBVIOUS
  <1>1. requests' = requests
    BY DEF Next, RunMerge, RunUnmerge, EditRelations, RemoveElsewhere, Fetch, vars
  <1>2. CASE "relation" \notin requests
    <2>1. relation' = relation
      BY <1>2 DEF Next, RunMerge, RunUnmerge, EditRelations, RemoveElsewhere, Fetch, vars
    <2>. QED
      BY <1>1, <1>2, <2>1 DEF RelationsHold
  <1>3. CASE "relation" \in requests
    <2>1. "merge" \notin requests /\ "unmerge" \notin requests /\ RelationHolds
      BY <1>3 DEF RelationsHold
    <2>2. ASSUME UNCHANGED <<store, relation>> PROVE RelationHolds'
      <3>1. DeleteResources(store, {}) = store
        BY DEF DeleteResources
      <3>. QED
        BY <2>1, <2>2, <3>1, OthersKeepRelations
    <2>3. RelationHolds'
      <3>1. CASE EditRelations
        BY <2>1, <3>1, RelationSteps DEF EditRelations
      <3>2. CASE RemoveElsewhere
        <4>1. relation' = relation
          BY <3>2 DEF RemoveElsewhere
        <4>2. store' = store \/ \E gone : store' = DeleteResources(store, gone)
          BY <3>2 DEF RemoveElsewhere, RemovalNext, AskRemoval, SelfUnknown, KeepSelf,
                      RemoveChunk, ChunkFails
        <4>. QED
          BY <2>1, <2>2, <4>1, <4>2, OthersKeepRelations
      <3>3. CASE Fetch
        BY <2>2, <3>3, FetchKeeps DEF Fetch
      <3>4. CASE UNCHANGED vars
        BY <2>2, <3>4 DEF vars
      <3>. QED
        BY <2>1, <3>1, <3>2, <3>3, <3>4 DEF Next, RunMerge, RunUnmerge
    <2>. QED
      BY <1>1, <1>3, <2>1, <2>3 DEF RelationsHold
  <1>. QED
    BY <1>2, <1>3

\* relationships() finds exactly what was saved and not removed again, each once,
\* although other engines remove contacts between its two queries
\* (engine.cpp:1150-1187).
THEOREM RelationsAreFound == OnlyRelations /\ Spec => []FoundIsSaved
  <1>. SUFFICES ASSUME OnlyRelations PROVE Spec => []FoundIsSaved
    OBVIOUS
  <1>1. Init => RelationsHold
    BY RelationsInit
  <1>2. RelationsHold /\ [Next]_vars => RelationsHold'
    BY RelationsNext
  <1>3. RelationsHold => FoundIsSaved
    BY RelationHoldsFound DEF RelationsHold, FoundIsSaved, NoRelation
  <1>. QED
    BY <1>1, <1>2, <1>3, PTL DEF Spec

-----------------------------------------------------------------------------
(* Fetch requests: lists of copies. *)

\* Copies are in the order of their keys.
Rising(s) == \A i, j \in 1..Len(s) : i < j => s[i].key <= s[j].key
Below(s, r) == \A i \in 1..Len(s), j \in 1..Len(r) : s[i].key <= r[j].key
Apart(s, r) == \A i \in 1..Len(s), j \in 1..Len(r) : s[i] # r[j]

Keyed(X) == \A x \in X : x.key \in Int

\* Two lists that have nothing in common, one of them below the other, can be joined.
LEMMA JoinedCopies ==
    ASSUME NEW X, Keyed(X), NEW s \in Seq(X), NEW r \in Seq(X)
    PROVE  /\ Distinct(s) /\ Distinct(r) /\ Apart(s, r) => Distinct(s \o r)
           /\ Rising(s) /\ Rising(r) /\ Below(s, r) => Rising(s \o r)
           /\ \A t : Below(s \o r, t) <=> Below(s, t) /\ Below(r, t)
           /\ \A t : Apart(s \o r, t) <=> Apart(s, t) /\ Apart(r, t)
  <1>. DEFINE all == s \o r
              n == Len(s)
  <1>1. /\ n \in Nat /\ Len(r) \in Nat /\ Len(all) = n + Len(r)
        /\ \A i \in 1..n : all[i] = s[i]
        /\ \A i \in 1..Len(r) : all[n + i] = r[i]
    BY ConcatFacts
  <1>. HIDE DEF all
  <1>2. \A i \in 1..Len(all) :
            \/ i \in 1..n /\ all[i] = s[i]
            \/ i - n \in 1..Len(r) /\ i = n + (i - n) /\ all[i] = r[i - n]
    BY <1>1
  <1>3. \A i \in 1..n : i \in 1..Len(all)
    BY <1>1
  <1>4. \A i \in 1..Len(r) : n + i \in 1..Len(all)
    BY <1>1
  <1>. HIDE DEF n
  <1>5. ASSUME Distinct(s), Distinct(r), Apart(s, r) PROVE Distinct(all)
    <2>. SUFFICES ASSUME NEW i \in 1..Len(all), NEW j \in 1..Len(all), all[i] = all[j] PROVE i = j
      BY DEF Distinct
    <2>1. CASE i \in 1..n /\ all[i] = s[i]
      <3>1. j \in 1..n /\ all[j] = s[j]
        BY <1>2, <1>5, <2>1 DEF Apart, n
      <3>. QED
        BY <1>5, <2>1, <3>1 DEF Distinct, n
    <2>2. CASE i - n \in 1..Len(r) /\ i = n + (i - n) /\ all[i] = r[i - n]
      <3>1. j - n \in 1..Len(r) /\ j = n + (j - n) /\ all[j] = r[j - n]
        BY <1>2, <1>5, <2>2 DEF Apart, n
      <3>2. i - n = j - n
        BY <1>5, <2>2, <3>1 DEF Distinct
      <3>. QED
        BY <2>2, <3>1, <3>2
    <2>. QED
      BY <1>2, <2>1, <2>2
  <1>6. ASSUME Rising(s), Rising(r), Below(s, r) PROVE Rising(all)
    <2>. SUFFICES ASSUME NEW i \in 1..Len(all), NEW j \in 1..Len(all), i < j
                  PROVE  all[i].key <= all[j].key
      BY DEF Rising
    <2>1. CASE i \in 1..n /\ j \in 1..n
      BY <1>1, <1>6, <2>1 DEF Rising, n
    <2>2. CASE i \in 1..n /\ j \notin 1..n
      BY <1>1, <1>2, <1>6, <2>2 DEF Below, n
    <2>3. CASE i \notin 1..n
      <3>1. i - n \in 1..Len(r) /\ all[i] = r[i - n]
        BY <1>2, <2>3
      <3>2. j - n \in 1..Len(r) /\ all[j] = r[j - n] /\ i - n < j - n
        BY <1>1, <1>2, <2>3, <3>1
      <3>. QED
        BY <1>6, <3>1, <3>2 DEF Rising
    <2>. QED
      BY <2>1, <2>2, <2>3
  <1>7. \A t : Below(all, t) <=> Below(s, t) /\ Below(r, t)
    BY <1>1, <1>2, <1>3, <1>4 DEF Below, n
  <1>8. ASSUME NEW t PROVE Apart(all, t) <=> Apart(s, t) /\ Apart(r, t)
    <2>1. Apart(all, t) => Apart(s, t)
      BY <1>1, <1>3 DEF Apart, n
    <2>2. Apart(all, t) => Apart(r, t)
      BY <1>1, <1>4 DEF Apart
    <2>3. Apart(s, t) /\ Apart(r, t) => Apart(all, t)
      BY <1>2 DEF Apart, n
    <2>. QED
      BY <2>1, <2>2, <2>3
  <1>. QED
    BY <1>5, <1>6, <1>7, <1>8 DEF all

\* The list is cut in two.
Parted(X, s, n, a, b) ==
    /\ a \in Seq(X) /\ b \in Seq(X) /\ Len(a) = n /\ Len(b) = Len(s) - n
    /\ \A i \in 1..n : a[i] = s[i]
    /\ \A i \in 1..(Len(s) - n) : b[i] = s[n + i]
    /\ Distinct(s) => Distinct(a) /\ Distinct(b) /\ Apart(a, b)
    /\ Rising(s) => Rising(a) /\ Rising(b) /\ Below(a, b)
    /\ \A x : Pending(x, s) <=> Pending(x, a) \/ Pending(x, b)
    /\ \A t : Below(t, s) => Below(t, a) /\ Below(t, b)
    /\ \A t : Apart(t, s) => Apart(t, a) /\ Apart(t, b)

\* A list that is cut in two has its elements in the parts, in their order.
LEMMA PartedCopies ==
    ASSUME NEW X, NEW s \in Seq(X), NEW n \in 0..Len(s), NEW a, NEW b,
           a = SubSeq(s, 1, n), b = SubSeq(s, n + 1, Len(s))
    PROVE  Parted(X, s, n, a, b)
  <1>1. Len(s) \in Nat /\ n \in Nat /\ n <= Len(s)
    OBVIOUS
  <1>2. a \in Seq(X) /\ Len(a) = n /\ \A i \in 1..n : a[i] = s[i]
    BY <1>1
  <1>3. b \in Seq(X) /\ Len(b) = Len(s) - n /\ \A i \in 1..(Len(s) - n) : b[i] = s[n + i]
    BY <1>1
  <1>4. \A i \in 1..n : i \in 1..Len(s)
    BY <1>1
  <1>5. \A i \in 1..(Len(s) - n) : n + i \in 1..Len(s) /\ n + i > n
    BY <1>1
  <1>6. \A i \in 1..Len(s) : i \in 1..n \/ (i - n \in 1..(Len(s) - n) /\ i = n + (i - n))
    BY <1>1
  <1>7. ASSUME Distinct(s) PROVE Distinct(a) /\ Distinct(b) /\ Apart(a, b)
    <2>1. Distinct(a)
      BY <1>2, <1>4, <1>7 DEF Distinct
    <2>2. Distinct(b)
      <3>. SUFFICES ASSUME NEW i \in 1..(Len(s) - n), NEW j \in 1..(Len(s) - n), b[i] = b[j] PROVE i = j
        BY <1>3 DEF Distinct
      <3>1. n + i \in 1..Len(s) /\ n + j \in 1..Len(s) /\ s[n + i] = s[n + j]
        BY <1>3, <1>5
      <3>2. n + i = n + j
        BY <1>7, <3>1 DEF Distinct
      <3>. QED
        BY <1>1, <3>2
    <2>3. Apart(a, b)
      <3>. SUFFICES ASSUME NEW i \in 1..n, NEW j \in 1..(Len(s) - n) PROVE a[i] # b[j]
        BY <1>2, <1>3, ZenonT(40) DEF Apart
      <3>1. n + j # i /\ n + j \in 1..Len(s) /\ i \in 1..Len(s)
        BY <1>1
      <3>. QED
        BY <1>2, <1>3, <1>7, <3>1 DEF Distinct
    <2>. QED
      BY <2>1, <2>2, <2>3
  <1>8. ASSUME Rising(s) PROVE Rising(a) /\ Rising(b) /\ Below(a, b)
    <2>1. Rising(a)
      BY <1>2, <1>4, <1>8 DEF Rising
    <2>2. Rising(b)
      <3>1. \A i, j \in 1..(Len(s) - n) : i < j => n + i < n + j
        BY <1>1
      <3>. QED
        BY <1>3, <1>5, <1>8, <3>1 DEF Rising
    <2>3. Below(a, b)
      <3>. SUFFICES ASSUME NEW i \in 1..n, NEW j \in 1..(Len(s) - n) PROVE a[i].key <= b[j].key
        BY <1>2, <1>3 DEF Below
      <3>1. i < n + j /\ n + j \in 1..Len(s) /\ i \in 1..Len(s)
        BY <1>1
      <3>. QED
        BY <1>2, <1>3, <1>8, <3>1 DEF Rising
    <2>. QED
      BY <2>1, <2>2, <2>3
  <1>9. ASSUME NEW x PROVE Pending(x, s) <=> Pending(x, a) \/ Pending(x, b)
    <2>1. Pending(x, a) => Pending(x, s)
      BY <1>2, <1>4 DEF Pending
    <2>2. Pending(x, b) => Pending(x, s)
      BY <1>3, <1>5 DEF Pending
    <2>3. ASSUME NEW i \in 1..Len(s), s[i] = x PROVE Pending(x, a) \/ Pending(x, b)
      <3>1. CASE i \in 1..n
        BY <1>2, <2>3, <3>1 DEF Pending
      <3>2. CASE i - n \in 1..(Len(s) - n) /\ i = n + (i - n)
        BY <1>3, <2>3, <3>2 DEF Pending
      <3>. QED
        BY <1>6, <3>1, <3>2
    <2>. QED
      BY <2>1, <2>2, <2>3 DEF Pending
  <1>10. \A t : Below(t, s) => Below(t, a) /\ Below(t, b)
    BY <1>2, <1>3, <1>4, <1>5 DEF Below
  <1>11. \A t : Apart(t, s) => Apart(t, a) /\ Apart(t, b)
    BY <1>2, <1>3, <1>4, <1>5 DEF Apart
  <1>. QED
    BY <1>2, <1>3, <1>7, <1>8, <1>9, <1>10, <1>11 DEF Parted

\* What is passed is not above the contact that is inserted, what is left not below.
LEMMA PassedFacts ==
    ASSUME NEW X, Keyed(X), NEW list \in Seq(X), NEW key \in Int
    PROVE  /\ Passed(list, key) \in 0..Len(list)
           /\ fetch.sorting => \A i \in 1..Passed(list, key) : list[i].key <= key
           /\ fetch.sorting /\ Rising(list) =>
                  \A i \in 1..Len(list) : i > Passed(list, key) => key <= list[i].key
  <1>. DEFINE larger == {i \in DOMAIN list : fetch.sorting /\ list[i].key > key}
              n == Passed(list, key)
  <1>1. Len(list) \in Nat /\ DOMAIN list = 1..Len(list) /\ \A i \in 1..Len(list) : list[i].key \in Int
    BY DEF Keyed
  <1>2. n = IF larger = {} THEN Len(list) ELSE Min(larger) - 1
    BY DEF Passed
  <1>3. CASE larger = {}
    BY <1>1, <1>2, <1>3
  <1>4. CASE larger # {}
    <2>. DEFINE m == Min(larger)
    <2>1. larger \in SUBSET Nat /\ larger \subseteq 1..Len(list)
      BY <1>1
    <2>2. m \in larger /\ \A x \in larger : m <= x
      <3>. HIDE DEF larger
      <3>. QED
        BY <1>4, <2>1, MinExists
    <2>3. n = m - 1 /\ m \in 1..Len(list) /\ fetch.sorting /\ list[m].key > key
      BY <1>2, <1>4, <2>1, <2>2
    <2>. HIDE DEF m, n
    <2>4. ASSUME NEW i \in 1..n PROVE list[i].key <= key
      <3>1. i \in 1..Len(list) /\ i < m
        BY <1>1, <2>3
      <3>2. i \notin larger
        <4>. HIDE DEF larger
        <4>. QED
          BY <1>1, <2>2, <2>3, <3>1
      <3>. QED
        BY <1>1, <2>3, <3>1, <3>2
    <2>5. ASSUME Rising(list), NEW i \in 1..Len(list), i > n PROVE key <= list[i].key
      <3>1. i = m \/ m < i
        BY <1>1, <2>3, <2>5
      <3>2. list[m].key <= list[i].key
        BY <1>1, <2>3, <2>5, <3>1 DEF Rising
      <3>. QED
        BY <1>1, <2>3, <3>2
    <2>. QED
      BY <1>1, <2>3, <2>4, <2>5 DEF n
  <1>. QED
    BY <1>3, <1>4

Progress(X) == [done : Seq(X), left : Seq(X)]

\* How far the first k of the second list are inserted into the first one.
Inserted(acc, l1, l2, k) ==
    /\ Len(acc.done) + Len(acc.left) = Len(l1) + k
    /\ \A x : Pending(x, acc.done) \/ Pending(x, acc.left) <=>
               Pending(x, l1) \/ \E i \in 1..k : l2[i] = x
    /\ Distinct(l1) /\ Distinct(l2) /\ Apart(l1, l2) =>
           Distinct(acc.done) /\ Distinct(acc.left) /\ Apart(acc.done, acc.left)
    /\ fetch.sorting /\ Rising(l1) /\ Rising(l2) =>
           /\ Rising(acc.done) /\ Rising(acc.left) /\ Below(acc.done, acc.left)
           /\ \A i \in 1..Len(l2) : i > k => Below(acc.done, <<l2[i]>>)

\* Inserting a contact gives two lists again.
LEMMA InsertCopyType ==
    ASSUME NEW X, Keyed(X), NEW acc \in Progress(X), NEW copy \in X
    PROVE  InsertCopy(acc, copy) \in Progress(X)
  <1>. DEFINE left == acc.left
              n == Passed(left, copy.key)
  <1>1. acc.done \in Seq(X) /\ left \in Seq(X) /\ copy.key \in Int
    BY DEF Progress, Keyed
  <1>2. n \in 0..Len(left)
    BY <1>1, PassedFacts
  <1>3. SubSeq(left, 1, n) \in Seq(X) /\ SubSeq(left, n + 1, Len(left)) \in Seq(X)
    <2>. HIDE DEF left, n
    <2>. QED
      BY <1>1, <1>2
  <1>4. Append(acc.done \o SubSeq(left, 1, n), copy) \in Seq(X)
    <2>. HIDE DEF left, n
    <2>. QED
      BY <1>1, <1>3
  <1>. QED
    BY <1>3, <1>4 DEF InsertCopy, Progress

\* Inserting the next contact of the second list: nothing is lost, given twice or out of
\* order.
LEMMA InsertCopyStep ==
    ASSUME NEW X, Keyed(X), NEW l1 \in Seq(X), NEW l2 \in Seq(X), NEW k \in Nat, k < Len(l2),
           NEW acc \in Progress(X), Inserted(acc, l1, l2, k)
    PROVE  Inserted(InsertCopy(acc, l2[k + 1]), l1, l2, k + 1)
  <1>. DEFINE done == acc.done
              left == acc.left
              copy == l2[k + 1]
              n == Passed(left, copy.key)
              a == SubSeq(left, 1, n)
              b == SubSeq(left, n + 1, Len(left))
              c == done \o a
              one == <<copy>>
              new == InsertCopy(acc, copy)
  <1>1. done \in Seq(X) /\ left \in Seq(X) /\ copy \in X /\ copy.key \in Int /\ k + 1 \in 1..Len(l2)
    BY DEF Progress, Keyed
  <1>2. /\ n \in 0..Len(left)
        /\ fetch.sorting => \A i \in 1..n : left[i].key <= copy.key
        /\ fetch.sorting /\ Rising(left) => \A i \in 1..Len(left) : i > n => copy.key <= left[i].key
    BY <1>1, PassedFacts
  <1>3. new = [done |-> Append(c, copy), left |-> b]
    BY DEF InsertCopy
  <1>. HIDE DEF n, copy, new
  <1>4. Parted(X, left, n, a, b)
    <2>1. a = SubSeq(left, 1, n) /\ b = SubSeq(left, n + 1, Len(left))
      OBVIOUS
    <2>. HIDE DEF left, a, b
    <2>. QED
      BY <1>1, <1>2, <2>1, PartedCopies
  <1>. HIDE DEF a, b, left, done
  <1>. USE DEF Parted
  <1>5. /\ c \in Seq(X) /\ Len(c) = Len(done) + Len(a)
        /\ \A x : Pending(x, c) <=> Pending(x, done) \/ Pending(x, a)
        /\ Distinct(done) /\ Distinct(a) /\ Apart(done, a) => Distinct(c)
        /\ Rising(done) /\ Rising(a) /\ Below(done, a) => Rising(c)
        /\ \A t : Below(c, t) <=> Below(done, t) /\ Below(a, t)
        /\ \A t : Apart(c, t) <=> Apart(done, t) /\ Apart(a, t)
    BY <1>1, <1>4, JoinedCopies, ConcatPending, ConcatFacts
  <1>. HIDE DEF c
  <1>6. /\ one \in Seq(X) /\ Append(c, copy) = c \o one /\ Len(one) = 1
        /\ Distinct(one) /\ Rising(one)
    <2>1. one \in Seq(X) /\ Len(one) = 1 /\ 1..Len(one) = {1}
      BY <1>1
    <2>2. Append(c, copy) = c \o one
      BY <1>1, <1>5
    <2>3. Distinct(one) /\ Rising(one)
      BY <2>1 DEF Distinct, Rising
    <2>. QED
      BY <2>1, <2>2, <2>3
  <1>7. one[1] = copy /\ 1..Len(one) = {1}
    BY <1>6
  <1>. HIDE DEF one
  <1>. DEFINE d == c \o one
  <1>8. /\ d \in Seq(X) /\ Len(d) = Len(c) + 1
        /\ \A x : Pending(x, d) <=> Pending(x, c) \/ Pending(x, one)
        /\ Distinct(c) /\ Distinct(one) /\ Apart(c, one) => Distinct(d)
        /\ Rising(c) /\ Rising(one) /\ Below(c, one) => Rising(d)
        /\ \A t : Below(d, t) <=> Below(c, t) /\ Below(one, t)
        /\ \A t : Apart(d, t) <=> Apart(c, t) /\ Apart(one, t)
    BY <1>5, <1>6, JoinedCopies, ConcatPending, ConcatFacts
  <1>. HIDE DEF d
  <1>9. new.done = d /\ new.left = b
    BY <1>3, <1>6 DEF d
  <1>10. \A x : Pending(x, one) <=> x = copy
    BY <1>7 DEF Pending
  <1>11. Len(new.done) + Len(new.left) = Len(l1) + (k + 1)
    <2>1. Len(done) + Len(left) = Len(l1) + k
      BY DEF Inserted, done, left
    <2>2. Len(d) = Len(done) + n + 1 /\ Len(b) = Len(left) - n
      BY <1>4, <1>5, <1>8
    <2>3. Len(done) \in Nat /\ Len(left) \in Nat /\ Len(l1) \in Nat /\ n \in Nat
      BY <1>1, <1>2
    <2>. QED
      BY <1>9, <2>1, <2>2, <2>3
  <1>12. ASSUME NEW x
         PROVE  Pending(x, new.done) \/ Pending(x, new.left) <=>
                    Pending(x, l1) \/ \E i \in 1..(k + 1) : l2[i] = x
    <2>1. Pending(x, new.done) \/ Pending(x, new.left) <=>
              Pending(x, done) \/ Pending(x, left) \/ x = copy
      <3>1. Pending(x, left) <=> Pending(x, a) \/ Pending(x, b)
        BY <1>4
      <3>2. Pending(x, c) <=> Pending(x, done) \/ Pending(x, a)
        BY <1>5
      <3>3. Pending(x, d) <=> Pending(x, c) \/ x = copy
        BY <1>8, <1>10
      <3>4. new.done = d /\ new.left = b
        BY <1>9
      <3>. QED
        BY <3>1, <3>2, <3>3, <3>4
    <2>2. (\E i \in 1..(k + 1) : l2[i] = x) <=> (\E i \in 1..k : l2[i] = x) \/ x = copy
      BY DEF copy
    <2>. QED
      BY <2>1, <2>2 DEF Inserted, done, left
  <1>13. ASSUME Distinct(l1), Distinct(l2), Apart(l1, l2)
         PROVE  Distinct(new.done) /\ Distinct(new.left) /\ Apart(new.done, new.left)
    <2>1. Distinct(done) /\ Distinct(left) /\ Apart(done, left)
      BY <1>13 DEF Inserted, done, left
    <2>2. ~Pending(copy, done) /\ ~Pending(copy, left)
      <3>1. ~Pending(copy, l1)
        BY <1>1, <1>13 DEF Apart, Pending, copy
      <3>2. ~ \E i \in 1..k : l2[i] = copy
        BY <1>1, <1>13 DEF Distinct, copy
      <3>. QED
        BY <3>1, <3>2 DEF Inserted, done, left
    <2>3. Distinct(c)
      BY <1>4, <1>5, <2>1
    <2>4. Apart(c, one)
      <3>1. ~Pending(copy, a) /\ ~Pending(copy, c)
        BY <1>4, <1>5, <2>2
      <3>. QED
        BY <1>7, <3>1 DEF Apart, Pending
    <2>5. Distinct(d)
      BY <1>6, <1>8, <2>3, <2>4
    <2>6. Apart(one, b)
      BY <1>4, <1>7, <2>2, ZenonT(40) DEF Apart, Pending
    <2>7. Apart(d, b)
      BY <1>4, <1>5, <1>8, <2>1, <2>6
    <2>. QED
      BY <1>4, <1>9, <2>1, <2>5, <2>7
  <1>14. ASSUME fetch.sorting, Rising(l1), Rising(l2)
         PROVE  /\ Rising(new.done) /\ Rising(new.left) /\ Below(new.done, new.left)
                /\ \A i \in 1..Len(l2) : i > k + 1 => Below(new.done, <<l2[i]>>)
    <2>1. /\ Rising(done) /\ Rising(left) /\ Below(done, left)
          /\ \A i \in 1..Len(l2) : i > k => Below(done, <<l2[i]>>)
      BY <1>14 DEF Inserted, done, left
    <2>2. Rising(c)
      BY <1>4, <1>5, <2>1
    <2>3. Below(c, one)
      <3>1. Below(done, one)
        BY <1>1, <2>1 DEF copy, one
      <3>2. Below(a, one)
        BY <1>2, <1>4, <1>7, <1>14 DEF Below
      <3>. QED
        BY <1>5, <3>1, <3>2
    <2>4. Below(one, b)
      <3>1. ASSUME NEW j \in 1..Len(b) PROVE copy.key <= b[j].key
        <4>1. n + j \in 1..Len(left) /\ n + j > n /\ b[j] = left[n + j]
          BY <1>1, <1>2, <1>4
        <4>. QED
          BY <1>2, <1>14, <2>1, <4>1
      <3>. QED
        BY <1>7, <3>1 DEF Below
    <2>5. Rising(d) /\ Below(d, b)
      BY <1>4, <1>5, <1>6, <1>8, <2>1, <2>2, <2>3, <2>4
    <2>6. ASSUME NEW i \in 1..Len(l2), i > k + 1 PROVE Below(d, <<l2[i]>>)
      <3>. DEFINE next == <<l2[i]>>
      <3>1. /\ next[1] = l2[i] /\ 1..Len(next) = {1} /\ l2[i] \in X /\ k + 1 < i
            /\ i > k
        BY <2>6
      <3>2. copy.key <= l2[i].key
        BY <1>1, <1>14, <3>1 DEF Rising, copy
      <3>3. Below(one, next)
        BY <1>7, <3>1, <3>2 DEF Below
      <3>4. Below(a, next)
        <4>1. ASSUME NEW j \in 1..Len(a) PROVE a[j].key <= l2[i].key
          <5>1. a[j].key <= copy.key /\ a[j] \in X
            BY <1>2, <1>4, <1>14
          <5>. QED
            BY <1>1, <3>1, <3>2, <5>1 DEF Keyed
        <4>. QED
          BY <3>1, <4>1 DEF Below
      <3>5. Below(done, next)
        BY <2>1, <3>1
      <3>. QED
        BY <1>5, <1>8, <3>3, <3>4, <3>5
    <2>. QED
      BY <1>4, <1>9, <2>1, <2>5, <2>6
  <1>. QED
    BY <1>11, <1>12, <1>13, <1>14 DEF Inserted, new, copy

InsertSteps(fold, l1, l2, n) ==
    /\ FoldLeft(InsertCopy, [done |-> << >>, left |-> l1], l2) = fold[1..n]
    /\ fold[1..0] = [done |-> << >>, left |-> l1]
    /\ \A k \in 1..n : fold[1..k] = InsertCopy(fold[1..(k - 1)], l2[k])

\* mergeContactLists() inserts the contacts of the second list one by one.
LEMMA InsertFold ==
    ASSUME NEW X, Keyed(X), NEW l1 \in Seq(X), NEW l2 \in Seq(X), NEW n \in Nat, Len(l2) = n
    PROVE  \E fold : InsertSteps(fold, l1, l2, n)
  <1>. DEFINE base == [done |-> << >>, left |-> l1]
              Folds(g) == g = [s \in SUBSET (1..n) |->
                                  IF s = {} THEN base
                                  ELSE InsertCopy(g[s \ {Max(s)}], l2[Max(s)])]
              fold == CHOOSE g : Folds(g)
              A == Progress(X)
              step == [x \in A \X (1..n) |-> InsertCopy(x[1], l2[x[2]])]
  <1>0. DOMAIN l2 = 1..n /\ \A i \in 1..n : l2[i] \in X
    OBVIOUS
  <1>1. FoldLeft(InsertCopy, base, l2) = fold[1..n]
    <2>1. FoldLeft(InsertCopy, base, l2) =
              (CHOOSE g : g = [s \in SUBSET DOMAIN l2 |->
                                  IF s = {} THEN base
                                  ELSE InsertCopy(g[s \ {Max(s)}], l2[Max(s)])])[DOMAIN l2]
      BY DEF FoldLeft, MapThenFoldSet
    <2>. QED
      BY <1>0, <2>1
  <1>2. base \in A
    BY DEF Progress
  <1>3. step \in [A \X (1..n) -> A]
    <2>1. \A x \in A, i \in 1..n : InsertCopy(x, l2[i]) \in A
      BY <1>0, InsertCopyType
    <2>. HIDE DEF A
    <2>. QED
      BY <2>1
  <1>. HIDE DEF base, A
  <1>4. PICK g : Chain(g, A, base, step, n)
    <2>. HIDE DEF step
    <2>. QED
      BY <1>2, <1>3, ChainExists
  <1>5. Folds(g)
    <2>1. ASSUME NEW s \in SUBSET (1..n), s # {}
          PROVE  g[s] = InsertCopy(g[s \ {Max(s)}], l2[Max(s)])
      <3>1. Max(s) \in 1..n /\ g[s \ {Max(s)}] \in A /\ g[s] = step[<<g[s \ {Max(s)}], Max(s)>>]
        <4>. HIDE DEF step
        <4>. QED
          BY <1>4, <2>1, ChainFacts
      <3>. QED
        BY <3>1
    <2>. HIDE DEF step
    <2>. QED
      BY <1>4, <2>1 DEF Chain
  <1>6. Folds(fold)
    <2>. HIDE DEF Folds
    <2>. QED
      BY <1>5
  <1>. HIDE DEF fold
  <1>7. \A s \in SUBSET (1..n) :
            fold[s] = IF s = {} THEN base ELSE InsertCopy(fold[s \ {Max(s)}], l2[Max(s)])
    BY <1>6
  <1>. HIDE DEF Folds
  <1>8. fold[1..0] = base
    BY <1>7, IntervalFacts
  <1>9. ASSUME NEW k \in 1..n PROVE fold[1..k] = InsertCopy(fold[1..(k - 1)], l2[k])
    <2>1. fold[1..k] = InsertCopy(fold[(1..k) \ {Max(1..k)}], l2[Max(1..k)])
      BY <1>7, IntervalFacts
    <2>2. Max(1..k) = k /\ (1..k) \ {k} = 1..(k - 1)
      BY IntervalFacts
    <2>. QED
      BY <2>1, <2>2
  <1>. QED
    BY <1>1, <1>8, <1>9 DEF InsertSteps, base

\* mergeContactLists() gives each contact of both lists once, in their order.
Merged(X, all, l1, l2) ==
    /\ all \in Seq(X)
    /\ Len(all) = Len(l1) + Len(l2)
    /\ \A x : Pending(x, all) <=> Pending(x, l1) \/ Pending(x, l2)
    /\ Distinct(l1) /\ Distinct(l2) /\ Apart(l1, l2) => Distinct(all)
    /\ fetch.sorting /\ Rising(l1) /\ Rising(l2) => Rising(all)

\* mergeContactLists(): by induction on the contacts that were inserted.
LEMMA MergeListsFacts ==
    ASSUME NEW X, Keyed(X), NEW l1 \in Seq(X), NEW l2 \in Seq(X)
    PROVE  Merged(X, MergeLists(l1, l2), l1, l2)
  <1>. DEFINE n == Len(l2)
              end == FoldLeft(InsertCopy, [done |-> << >>, left |-> l1], l2)
  <1>0. n \in Nat /\ Len(l2) = n
    OBVIOUS
  <1>1. CASE l1 = << >>
    <2>1. MergeLists(l1, l2) = l2
      BY <1>1 DEF MergeLists
    <2>2. Len(l1) = 0 /\ \A x : ~Pending(x, l1)
      BY <1>1 DEF Pending
    <2>. QED
      BY <2>1, <2>2, <1>0 DEF Merged
  <1>2. CASE l1 # << >>
    <2>. HIDE DEF n
    <2>1. PICK fold : InsertSteps(fold, l1, l2, n)
      BY <1>0, InsertFold
    <2>. DEFINE S == {k \in Nat : k <= n => fold[1..k] \in Progress(X) /\ Inserted(fold[1..k], l1, l2, k)}
    <2>2. 0 \in S
      <3>. DEFINE base == [done |-> << >>, left |-> l1]
      <3>1. base \in Progress(X) /\ base.done = << >> /\ base.left = l1 /\ Len(<< >>) = 0
            /\ Len(l1) \in Nat
        BY DEF Progress
      <3>2. /\ Distinct(<< >>) /\ Rising(<< >>) /\ \A t : Below(<< >>, t) /\ Apart(<< >>, t)
            /\ \A x : ~Pending(x, << >>)
        BY DEF Distinct, Rising, Below, Apart, Pending
      <3>. HIDE DEF base
      <3>3. Inserted(base, l1, l2, 0)
        BY <3>1, <3>2 DEF Inserted
      <3>4. fold[1..0] = base
        BY <2>1 DEF InsertSteps, base
      <3>. QED
        BY <3>1, <3>3, <3>4
    <2>3. ASSUME NEW k \in Nat, k \in S PROVE k + 1 \in S
      <3>. SUFFICES ASSUME k + 1 <= n
                    PROVE  fold[1..(k + 1)] \in Progress(X) /\ Inserted(fold[1..(k + 1)], l1, l2, k + 1)
        OBVIOUS
      <3>1. k + 1 \in 1..n /\ (k + 1) - 1 = k /\ k < Len(l2) /\ l2[k + 1] \in X
        BY <1>0
      <3>2. fold[1..(k + 1)] = InsertCopy(fold[1..k], l2[k + 1])
        BY <2>1, <3>1 DEF InsertSteps
      <3>3. fold[1..k] \in Progress(X) /\ Inserted(fold[1..k], l1, l2, k)
        BY <1>0, <2>3
      <3>. QED
        BY <3>1, <3>2, <3>3, InsertCopyType, InsertCopyStep
    <2>4. n \in S
      <3>. HIDE DEF S
      <3>. QED
        BY <1>0, <2>2, <2>3, SetInduction
    <2>5. end \in Progress(X) /\ Inserted(end, l1, l2, n)
      BY <1>0, <2>1, <2>4 DEF InsertSteps
    <2>. HIDE DEF end, S
    <2>6. end.done \in Seq(X) /\ end.left \in Seq(X)
      BY <2>5 DEF Progress
    <2>. DEFINE all == end.done \o end.left
    <2>7. /\ all \in Seq(X) /\ Len(all) = Len(end.done) + Len(end.left)
          /\ \A x : Pending(x, all) <=> Pending(x, end.done) \/ Pending(x, end.left)
          /\ Distinct(end.done) /\ Distinct(end.left) /\ Apart(end.done, end.left) => Distinct(all)
          /\ Rising(end.done) /\ Rising(end.left) /\ Below(end.done, end.left) => Rising(all)
      BY <2>6, ConcatFacts, ConcatPending, JoinedCopies
    <2>8. MergeLists(l1, l2) = all
      BY <1>2 DEF MergeLists, end
    <2>. HIDE DEF all
    <2>9. \A x : Pending(x, l2) <=> \E i \in 1..n : l2[i] = x
      BY <1>0 DEF Pending
    <2>. QED
      BY <1>0, <2>5, <2>7, <2>8, <2>9 DEF Inserted, Merged
  <1>. QED
    BY <1>1, <1>2

\* What the lists of the schemas become.
WithList(merged, k) == MergeLists(merged, CopiesOf(fetch.lists[k]))
AllLists(order) == FoldLeft(LAMBDA merged, k : MergeLists(merged, CopiesOf(fetch.lists[k])), << >>, order)

ListsOf(X) == \A k \in DOMAIN fetch.lists : CopiesOf(fetch.lists[k]) \in Seq(X)

ListsSteps(fold, order, n) ==
    /\ AllLists(order) = fold[1..n]
    /\ fold[1..0] = << >>
    /\ \A k \in 1..n : fold[1..k] = WithList(fold[1..(k - 1)], order[k])

\* processResults() merges the lists one by one.
LEMMA ListsFold ==
    ASSUME NEW X, Keyed(X), ListsOf(X), NEW order \in Seq(DOMAIN fetch.lists),
           NEW n \in Nat, Len(order) = n
    PROVE  \E fold : ListsSteps(fold, order, n)
  <1>. DEFINE Folds(g) == g = [s \in SUBSET (1..n) |->
                                  IF s = {} THEN << >>
                                  ELSE WithList(g[s \ {Max(s)}], order[Max(s)])]
              fold == CHOOSE g : Folds(g)
              A == Seq(X)
              step == [x \in A \X (1..n) |-> WithList(x[1], order[x[2]])]
  <1>0. DOMAIN order = 1..n /\ \A i \in 1..n : order[i] \in DOMAIN fetch.lists
    OBVIOUS
  <1>1. AllLists(order) = fold[1..n]
    <2>1. AllLists(order) =
              (CHOOSE g : g = [s \in SUBSET DOMAIN order |->
                                  IF s = {} THEN << >>
                                  ELSE WithList(g[s \ {Max(s)}], order[Max(s)])])[DOMAIN order]
      BY DEF AllLists, FoldLeft, MapThenFoldSet, WithList
    <2>. QED
      BY <1>0, <2>1
  <1>2. << >> \in A
    OBVIOUS
  <1>3. step \in [A \X (1..n) -> A]
    <2>1. ASSUME NEW l \in A, NEW i \in 1..n PROVE WithList(l, order[i]) \in A
      <3>1. CopiesOf(fetch.lists[order[i]]) \in Seq(X)
        BY <1>0 DEF ListsOf
      <3>2. Merged(X, MergeLists(l, CopiesOf(fetch.lists[order[i]])), l, CopiesOf(fetch.lists[order[i]]))
        BY <3>1, MergeListsFacts
      <3>. QED
        BY <3>2 DEF Merged, WithList
    <2>. HIDE DEF A
    <2>. QED
      BY <2>1
  <1>. HIDE DEF A
  <1>4. PICK g : Chain(g, A, << >>, step, n)
    <2>. HIDE DEF step
    <2>. QED
      BY <1>2, <1>3, ChainExists
  <1>5. Folds(g)
    <2>1. ASSUME NEW s \in SUBSET (1..n), s # {}
          PROVE  g[s] = WithList(g[s \ {Max(s)}], order[Max(s)])
      <3>1. Max(s) \in 1..n /\ g[s \ {Max(s)}] \in A /\ g[s] = step[<<g[s \ {Max(s)}], Max(s)>>]
        <4>. HIDE DEF step
        <4>. QED
          BY <1>4, <2>1, ChainFacts
      <3>. QED
        BY <3>1
    <2>. HIDE DEF step
    <2>. QED
      BY <1>4, <2>1 DEF Chain
  <1>6. Folds(fold)
    <2>. HIDE DEF Folds
    <2>. QED
      BY <1>5
  <1>. HIDE DEF fold
  <1>7. \A s \in SUBSET (1..n) :
            fold[s] = IF s = {} THEN << >> ELSE WithList(fold[s \ {Max(s)}], order[Max(s)])
    BY <1>6
  <1>. HIDE DEF Folds
  <1>8. fold[1..0] = << >>
    BY <1>7, IntervalFacts
  <1>9. ASSUME NEW k \in 1..n PROVE fold[1..k] = WithList(fold[1..(k - 1)], order[k])
    <2>1. fold[1..k] = WithList(fold[(1..k) \ {Max(1..k)}], order[Max(1..k)])
      BY <1>7, IntervalFacts
    <2>2. Max(1..k) = k /\ (1..k) \ {k} = 1..(k - 1)
      BY IntervalFacts
    <2>. QED
      BY <2>1, <2>2
  <1>. QED
    BY <1>1, <1>8, <1>9 DEF ListsSteps

\* A list that is alone stays as it is.
LEMMA OneList ==
    ASSUME NEW X, Keyed(X), ListsOf(X), fetch.lists = <<fetch.ids>>,
           NEW order \in SetToSeqs(DOMAIN fetch.lists)
    PROVE  AllLists(order) = CopiesOf(fetch.ids)
  <1>. DEFINE D == DOMAIN fetch.lists
  <1>1. D = {1} /\ fetch.lists[1] = fetch.ids
    OBVIOUS
  <1>2. IsFiniteSet(D) /\ Cardinality(D) = 1
    BY <1>1, FS_Singleton
  <1>3. order \in Seq(D) /\ Len(order) = 1
    <2>. HIDE DEF D
    <2>1. order \in SetToSeqs(D)
      BY DEF D
    <2>. QED
      BY <1>2, <2>1, ListingFacts
  <1>4. order[1] = 1
    BY <1>1, <1>3, SMTT(30)
  <1>5. PICK fold : ListsSteps(fold, order, 1)
    BY <1>3, ListsFold
  <1>6. fold[1..0] = << >> /\ fold[1..1] = WithList(fold[1..0], order[1])
    <2>1. 1 \in 1..1 /\ 1 - 1 = 0
      OBVIOUS
    <2>. QED
      BY <1>5, <2>1 DEF ListsSteps
  <1>. QED
    BY <1>1, <1>4, <1>5, <1>6 DEF ListsSteps, WithList, MergeLists

\* Of two lists it does not matter which one is the first.
LEMMA TwoLists ==
    ASSUME NEW X, Keyed(X), ListsOf(X), DOMAIN fetch.lists = 1..2,
           NEW order \in SetToSeqs(DOMAIN fetch.lists)
    PROVE  Merged(X, AllLists(order), CopiesOf(fetch.lists[1]), CopiesOf(fetch.lists[2]))
  <1>. DEFINE D == DOMAIN fetch.lists
              c(k) == CopiesOf(fetch.lists[k])
  <1>1. IsFiniteSet(D) /\ Cardinality(D) = 2
    <2>1. \A n \in Int : n >= 1 => IsFiniteSet(1..n) /\ Cardinality(1..n) = n
      <3>. SUFFICES ASSUME NEW n \in Int, n >= 1 PROVE IsFiniteSet(1..n) /\ Cardinality(1..n) = n
        OBVIOUS
      <3>1. IsFiniteSet(1..n) /\ Cardinality(1..n) = IF 1 > n THEN 0 ELSE n - 1 + 1
        BY FS_Interval
      <3>. QED
        BY <3>1
    <2>2. 2 \in Int /\ 2 >= 1
      OBVIOUS
    <2>3. IsFiniteSet(1..2) /\ Cardinality(1..2) = 2
      BY <2>1, <2>2, Zenon
    <2>. QED
      BY <2>3
  <1>2. /\ order \in Seq(D) /\ Len(order) = 2
        /\ \A i, j \in 1..Len(order) : order[i] = order[j] => i = j
    <2>. HIDE DEF D
    <2>1. order \in SetToSeqs(D)
      BY DEF D
    <2>. QED
      BY <1>1, <2>1, ListingFacts
  <1>3. order[1] \in 1..2 /\ order[2] \in 1..2 /\ order[1] # order[2]
    BY <1>2
  <1>4. PICK fold : ListsSteps(fold, order, 2)
    BY <1>2, ListsFold
  <1>5. fold[1..0] = << >> /\ fold[1..1] = WithList(fold[1..0], order[1])
        /\ fold[1..2] = WithList(fold[1..1], order[2])
    <2>1. 1 \in 1..2 /\ 2 \in 1..2 /\ 1 - 1 = 0 /\ 2 - 1 = 1
      OBVIOUS
    <2>. QED
      BY <1>4, <2>1 DEF ListsSteps
  <1>6. AllLists(order) = MergeLists(c(order[1]), c(order[2]))
    <2>1. WithList(<< >>, order[1]) = c(order[1])
      BY DEF WithList, MergeLists
    <2>. QED
      BY <1>4, <1>5, <2>1 DEF ListsSteps, WithList
  <1>7. c(1) \in Seq(X) /\ c(2) \in Seq(X)
    BY DEF ListsOf
  <1>. HIDE DEF c
  <1>8. CASE order[1] = 1 /\ order[2] = 2
    <2>1. Merged(X, AllLists(order), c(1), c(2))
      BY <1>6, <1>7, <1>8, MergeListsFacts
    <2>. QED
      BY <2>1 DEF c
  <1>9. CASE order[1] = 2 /\ order[2] = 1
    <2>1. Merged(X, AllLists(order), c(2), c(1))
      BY <1>6, <1>7, <1>9, MergeListsFacts
    <2>2. Apart(c(1), c(2)) => Apart(c(2), c(1))
      BY DEF Apart
    <2>3. Len(c(1)) \in Nat /\ Len(c(2)) \in Nat
      BY <1>7
    <2>4. Merged(X, AllLists(order), c(1), c(2))
      BY <2>1, <2>2, <2>3 DEF Merged
    <2>. QED
      BY <2>4 DEF c
  <1>. QED
    BY <1>3, <1>8, <1>9

-----------------------------------------------------------------------------
(* Fetch requests: the invariant. *)

\* Nobody changes meanwhile by what contacts are sorted, nor makes new ones; and
\* contacts are sorted by numbers.
OnlyReads ==
    \A s \in Scenarios :
        "fetch" \in s.requests =>
            /\ s.requests \cap {"merge", "unmerge"} = {}
            /\ \A q \in s.store : /\ q.p = "type" => q.s \in Contact
                                  /\ q.p = "nickname" => q.o \in Int

StoreHolds ==
    /\ IsFiniteSet(store)
    /\ \A q \in store : /\ q.p = "type" => q.s \in Contact
                        /\ q.p = "nickname" => q.o \in Int

\* Contacts only disappear.
KnownFromStart ==
    /\ DOMAIN fetch.start \subseteq Contact
    /\ \A c \in DOMAIN fetch.start : fetch.start[c] \in Int
    /\ \A c : Exists(store, c) => c \in DOMAIN fetch.start /\ Key(store, c) = fetch.start[c]

NothingRead ==
    /\ fetch.all = fetch.call.all /\ fetch.ids = fetch.call.ids
    /\ fetch.sorting = fetch.call.sorting /\ ~fetch.presorted /\ ~fetch.fellBack
    /\ fetch.schema = 1 /\ fetch.cache = << >> /\ fetch.lists = << >> /\ fetch.error = "none"

Ascending(list) ==
    \A i, j \in 1..Len(list) : i < j => fetch.start[list[i]] <= fetch.start[list[j]]

\* A list of ids that answers the call.
Answers(list) ==
    /\ list \in Seq(Contact) /\ Distinct(list)
    /\ \A i \in 1..Len(list) : list[i] \in AtStart
    /\ fetch.call.sorting => Ascending(list)
    /\ Limited => Len(list) <= fetch.call.limit
    /\ \A c \in StillThere :
          \/ Pending(c, list)
          \/ /\ Limited /\ Len(list) = fetch.call.limit
             /\ fetch.call.sorting /\ ~fetch.fellBack =>
                    \A i \in 1..Len(list) : fetch.start[list[i]] <= fetch.start[c]

\* The query for the schema of the contact is over.
IsRead(c) ==
    /\ Exists(store, c)
    /\ IF IsGroup(store, c) THEN fetch.schema = 3 ELSE fetch.schema # 1

CacheHolds ==
    /\ fetch.schema \in 1..3
    /\ IsFiniteSet(DOMAIN fetch.cache)
    /\ \A c \in DOMAIN fetch.cache : c \in AtStart /\ fetch.cache[c] = Copy(c, fetch.start[c])
    /\ fetch.schema = 1 => DOMAIN fetch.cache = {}
    /\ fetch.schema = 2 => \A c \in DOMAIN fetch.cache : ~(Exists(store, c) /\ IsGroup(store, c))

\* The lists of the schemas have what was read of them.
ListsHold ==
    /\ fetch.all = fetch.call.all /\ fetch.ids = fetch.call.ids
    /\ fetch.sorting = fetch.call.sorting
    /\ fetch.lists \in Seq(Seq(Contact)) /\ Len(fetch.lists) = fetch.schema - 1
    /\ \A k \in 1..Len(fetch.lists) :
          Distinct(fetch.lists[k]) /\ (fetch.sorting => Ascending(fetch.lists[k]))
    /\ \A c : c \in DOMAIN fetch.cache <=> \E k \in 1..Len(fetch.lists) : Pending(c, fetch.lists[k])
    /\ \A k, l \in 1..Len(fetch.lists) : \A c :
          Pending(c, fetch.lists[k]) /\ Pending(c, fetch.lists[l]) => k = l
    /\ Limited => /\ Cardinality(DOMAIN fetch.cache) <= fetch.call.limit
                  /\ fetch.sorting => fetch.fellBack
    /\ ~Limited \/ Cardinality(DOMAIN fetch.cache) < fetch.call.limit =>
          \A c \in StillThere : IsRead(c) => c \in DOMAIN fetch.cache

\* The ids are known, and those that are read are in the cache.
PresortedHolds ==
    /\ Limited /\ fetch.call.sorting /\ ~fetch.sorting /\ ~fetch.all
    /\ fetch.lists = <<fetch.ids>> /\ Answers(fetch.ids)
    /\ \A c \in DOMAIN fetch.cache : Pending(c, fetch.ids)
    /\ \A c : Pending(c, fetch.ids) /\ IsRead(c) => c \in DOMAIN fetch.cache

ReadingHolds ==
    /\ fetch.error = "none" /\ CacheHolds
    /\ fetch.pc = "process" <=> fetch.schema = 3
    /\ IF fetch.presorted THEN PresortedHolds ELSE ListsHold

ResultHolds ==
    /\ \A i, j \in DOMAIN fetch.contacts :
           fetch.contacts[i].id = fetch.contacts[j].id => i = j \/ fetch.contacts[i].id = Zero
    /\ FetchedIds \ {Zero} \subseteq AtStart
    /\ ~Limited => StillThere \subseteq FetchedIds
    /\ Zero \in FetchedIds => fetch.presorted /\ StillThere # AtStart
    /\ fetch.call.sorting =>
           \A i, j \in DOMAIN fetch.contacts : i < j => InOrderOfStart(i, j)
    /\ Limited =>
           /\ Len(fetch.contacts) <= fetch.call.limit
           /\ Len(fetch.contacts) < fetch.call.limit => StillThere \subseteq FetchedIds
           /\ fetch.call.sorting /\ ~fetch.fellBack => FirstOnes
    /\ fetch.call.kind = "contact" => Len(fetch.contacts) <= 1
    /\ \E X : fetch.contacts \in Seq(X)

ByIdHolds ==
    /\ Len(fetch.contacts) = Len(fetch.call.ids)
    /\ fetch.error = "none" <=> fetch.errors = {}
    /\ \A i \in DOMAIN fetch.call.ids :
          LET id == fetch.call.ids[i]
          IN  /\ fetch.contacts[i].id = (IF i \in fetch.errors THEN Zero ELSE id)
              /\ i \notin fetch.errors => id \in AtStart
              /\ ~Limited /\ id \in StillThere => i \notin fetch.errors

FetchFields ==
    {"pc", "call", "all", "ids", "sorting", "presorted", "schema", "cache", "lists", "canceled",
     "error", "errors", "contacts", "fellBack", "start"} \subseteq DOMAIN fetch

\* The inductive invariant.
FetchHolds ==
    /\ StoreHolds /\ FetchFields
    /\ fetch.pc = "idle" => fetch = NoFetch
    /\ fetch.pc # "idle" => fetch.call \in Calls /\ KnownFromStart
    /\ fetch.pc \in {"ids", "begin", "preliminary"} => NothingRead
    /\ fetch.pc = "ids" => fetch.call.kind = "ids"
    /\ fetch.pc = "preliminary" => Limited /\ fetch.sorting
    /\ fetch.pc \in {"read", "process"} /\ ~fetch.canceled => ReadingHolds
    /\ fetch.pc \in {"report", "done"} /\ ~fetch.canceled =>
          /\ fetch.call.kind # "byId" /\ fetch.error = "none" => ResultHolds
          /\ fetch.call.kind = "byId" /\ fetch.error \in {"none", "doesNotExist"} => ByIdHolds
    /\ fetch.pc = "done" /\ fetch.canceled => fetch.error = "canceled"

\* The invariant gives the four properties of fetch requests.
LEMMA FetchHoldsAll ==
    ASSUME FetchHolds
    PROVE  FetchIsExact /\ OrderIsKept /\ LimitIsKept /\ ByPosition
  <1>1. FetchIsExact
    BY DEF FetchHolds, ResultHolds, FetchIsExact, Answered
  <1>2. OrderIsKept
    <2>. SUFFICES ASSUME Answered, fetch.call.sorting
                  PROVE  \A i, j \in DOMAIN fetch.contacts : i < j => InOrderOfStart(i, j)
      BY DEF OrderIsKept
    <2>1. fetch.call \in Calls /\ fetch.call.kind # "byId"
      BY FetchAssumption DEF FetchHolds, Answered
    <2>. QED
      BY <2>1 DEF FetchHolds, ResultHolds, Answered
  <1>3. LimitIsKept
    BY DEF FetchHolds, ResultHolds, LimitIsKept, Answered
  <1>4. ByPosition
    BY DEF FetchHolds, ByIdHolds, ByPosition
  <1>. QED
    BY <1>1, <1>2, <1>3, <1>4

\* What others leave of the contacts that are read.
SameContacts ==
    /\ StoreHolds'
    /\ \A c : Exists(store', c) =>
          /\ Exists(store, c) /\ Key(store', c) = Key(store, c)
          /\ IsGroup(store', c) <=> IsGroup(store, c)

\* Memberships have no part in how contacts are sorted and listed.
LEMMA SameKey ==
    ASSUME NEW a, NEW b, NEW c, \A p : p # "memberOf" => Values(a, c, p) = Values(b, c, p)
    PROVE  Key(a, c) = Key(b, c) /\ (IsGroup(a, c) <=> IsGroup(b, c))
  <1>. DEFINE K(v) == IF v = {} THEN 0 ELSE CHOOSE k \in v : TRUE
  <1>1. Values(a, c, "nickname") = Values(b, c, "nickname") /\ Values(a, c, "type") = Values(b, c, "type")
    OBVIOUS
  <1>2. Key(a, c) = K(Values(a, c, "nickname")) /\ Key(b, c) = K(Values(b, c, "nickname"))
    BY DEF Key
  <1>. HIDE DEF K
  <1>. QED
    BY <1>1, <1>2 DEF IsGroup

\* A removal by another engine leaves the other contacts as they are.
LEMMA RemovalSpares ==
    ASSUME StoreHolds, NEW gone, store' = DeleteResources(store, gone)
    PROVE  SameContacts
  <1>1. store' \subseteq store /\ \A q \in store : q \in store' <=> q.s \notin gone
    BY DEF DeleteResources
  <1>2. StoreHolds'
    BY <1>1, FS_Subset DEF StoreHolds
  <1>3. ASSUME NEW c, Exists(store', c)
        PROVE  Exists(store, c) /\ \A p : Values(store', c, p) = Values(store, c, p)
    <2>1. Exists(store, c) /\ c \notin gone
      BY <1>3, DeleteFacts
    <2>. QED
      BY <1>1, <2>1 DEF Values
  <1>. QED
    BY <1>2, <1>3, SameKey DEF SameContacts

\* Relationship requests leave all contacts as they are.
LEMMA RelationsSpare ==
    ASSUME StoreHolds, RelationNext
    PROVE  SameContacts
  <1>1. CASE store' = store
    BY <1>1 DEF SameContacts, StoreHolds
  <1>2. CASE SaveRelations
    <2>. DEFINE new == UNION {Joining(i) : i \in Accepted}
                T == {q.s : q \in store}
                f == [x \in T \X T |-> Quad(x[1], "memberOf", x[2], "qct")]
    <2>1. \A q \in new : \E a, b \in T : q = Quad(a, "memberOf", b, "qct")
      BY DEF Joining, Quad, Exists
    <2>2. IsFiniteSet({f[x] : x \in T \X T})
      <3>1. IsFiniteSet(T)
        <4>. DEFINE g == [q \in store |-> q.s]
        <4>1. IsFiniteSet(store) /\ DOMAIN g = store /\ T = {g[q] : q \in store}
          BY DEF StoreHolds
        <4>. HIDE DEF g, T
        <4>. QED
          BY <4>1, ImageFinite
      <3>2. DOMAIN f = T \X T
        OBVIOUS
      <3>3. IsFiniteSet(T \X T)
        BY <3>1, FS_Product
      <3>. HIDE DEF f
      <3>. QED
        BY <3>2, <3>3, ImageFinite
    <2>3. new \subseteq {f[x] : x \in T \X T}
      <3>. SUFFICES ASSUME NEW q \in new PROVE q \in {f[x] : x \in T \X T}
        OBVIOUS
      <3>1. PICK a, b \in T : q = Quad(a, "memberOf", b, "qct")
        BY <2>1
      <3>2. <<a, b>> \in T \X T /\ f[<<a, b>>] = q
        BY <3>1
      <3>. HIDE DEF f, T
      <3>. QED
        BY <3>2
    <2>4. IsFiniteSet(new)
      <3>. HIDE DEF new, f, T
      <3>. QED
        BY <2>2, <2>3, FS_Subset
    <2>5. \A q \in new : q.p = "memberOf"
      BY <2>1 DEF Quad
    <2>6. store' = Insert(store, new)
      BY <1>2 DEF SaveRelations
    <2>. HIDE DEF new, f, T
    <2>. DEFINE more == {q \in new : q.o \notin Values(store, q.s, q.p)}
    <2>7. store' = store \cup more /\ more \subseteq new
      BY <2>6 DEF Insert
    <2>. HIDE DEF more
    <2>8. IsFiniteSet(store')
      <3>1. IsFiniteSet(more)
        BY <2>4, <2>7, FS_Subset
      <3>. QED
        BY <2>7, <3>1, FS_Union DEF StoreHolds
    <2>9. StoreHolds'
      BY <2>5, <2>7, <2>8 DEF StoreHolds
    <2>10. \A c : /\ Exists(store', c) <=> Exists(store, c)
                  /\ \A p : p # "memberOf" => Values(store', c, p) = Values(store, c, p)
      BY <2>5, <2>7 DEF Exists, Values
    <2>. QED
      BY <2>9, <2>10, SameKey DEF SameContacts
  <1>3. CASE RemoveRelations
    <2>1. \A i \in Accepted : \A q \in Leaving(i) : q.p = "memberOf"
      BY DEF Leaving
    <2>2. store' \subseteq store /\ \A q \in store : q.p # "memberOf" => q \in store'
      BY <1>3, <2>1 DEF RemoveRelations
    <2>3. StoreHolds'
      BY <2>2, FS_Subset DEF StoreHolds
    <2>4. \A c : /\ Exists(store', c) <=> Exists(store, c)
                 /\ \A p : p # "memberOf" => Values(store', c, p) = Values(store, c, p)
      BY <2>2 DEF Exists, Values
    <2>. QED
      BY <2>3, <2>4, SameKey DEF SameContacts
  <1>4. store' = store \/ SaveRelations \/ RemoveRelations
    BY DEF RelationNext, AskRelations, SaveNothing, EditFails, AskMemberships, FetchRole,
           FetchAsGroup, FetchAsMember, FetchUnsupported, FetchFails
  <1>. QED
    BY <1>1, <1>2, <1>3, <1>4

\* The invariant speaks of the contacts that are still there: removals keep it.
LEMMA OthersKeepFetch ==
    ASSUME FetchHolds, UNCHANGED fetch, SameContacts
    PROVE  FetchHolds'
  <1>1. /\ fetch' = fetch /\ StoreHolds'
        /\ \A c : Exists(store', c) =>
              /\ Exists(store, c) /\ Key(store', c) = Key(store, c)
              /\ IsGroup(store', c) <=> IsGroup(store, c)
    BY DEF SameContacts
  <1>2. /\ AtStart' = AtStart /\ FetchedIds' = FetchedIds /\ (Limited <=> Limited')
        /\ StillThere' \subseteq StillThere
    BY <1>1 DEF AtStart, FetchedIds, Limited, StillThere, Asked
  <1>3. StillThere \subseteq AtStart
    BY DEF StillThere
  <1>4. KnownFromStart => KnownFromStart'
    BY <1>1 DEF KnownFromStart
  <1>5. NothingRead => NothingRead'
    BY <1>1 DEF NothingRead
  <1>6. \A c : IsRead(c)' => IsRead(c)
    BY <1>1 DEF IsRead
  <1>7. CacheHolds => CacheHolds'
    BY <1>1, <1>2 DEF CacheHolds
  <1>8. ListsHold => ListsHold'
    BY <1>1, <1>2, <1>6 DEF ListsHold, Ascending
  <1>9. \A list : Answers(list) => Answers(list)'
    BY <1>1, <1>2 DEF Answers, Ascending
  <1>10. PresortedHolds => PresortedHolds'
    BY <1>1, <1>2, <1>6, <1>9 DEF PresortedHolds
  <1>11. ReadingHolds => ReadingHolds'
    BY <1>1, <1>7, <1>8, <1>10 DEF ReadingHolds
  <1>12. ResultHolds => ResultHolds'
    <2>1. FirstOnes => FirstOnes'
      BY <1>1, <1>2 DEF FirstOnes
    <2>2. \A i, j : InOrderOfStart(i, j) => InOrderOfStart(i, j)'
      BY <1>1 DEF InOrderOfStart
    <2>. QED
      BY <1>1, <1>2, <1>3, <2>1, <2>2 DEF ResultHolds
  <1>13. ByIdHolds => ByIdHolds'
    BY <1>1, <1>2 DEF ByIdHolds
  <1>. QED
    BY <1>1, <1>2, <1>4, <1>5, <1>11, <1>12, <1>13 DEF FetchHolds, FetchFields

\* What clients ask for.
LEMMA CallFacts ==
    ASSUME fetch.call \in Calls
    PROVE  /\ fetch.call.ids \in Seq(Contact \cup {Zero}) /\ fetch.call.limit \in Int
           /\ fetch.call.kind \in {"byId", "contact"} => ~fetch.call.all /\ ~fetch.call.sorting
           /\ fetch.call.kind = "contact" => Len(fetch.call.ids) = 1 /\ fetch.call.limit < 0
  BY FetchAssumption DEF Call

\* A limit cuts the list off.
LEMMA TopFacts ==
    ASSUME NEW X, NEW s \in Seq(X), NEW limit \in Int
    PROVE  /\ Top(limit, s) \in Seq(X)
           /\ Len(Top(limit, s)) <= Len(s)
           /\ \A i \in 1..Len(Top(limit, s)) : Top(limit, s)[i] = s[i]
           /\ limit >= 0 => Len(Top(limit, s)) <= limit
           /\ Top(limit, s) = s \/ (limit >= 0 /\ Len(Top(limit, s)) = limit)
  <1>1. Len(s) \in Nat
    OBVIOUS
  <1>2. CASE limit >= 0 /\ limit < Len(s)
    <2>1. Top(limit, s) = SubSeq(s, 1, limit)
      BY <1>2 DEF Top
    <2>2. /\ SubSeq(s, 1, limit) \in Seq(X) /\ Len(SubSeq(s, 1, limit)) = limit
          /\ \A i \in 1..limit : SubSeq(s, 1, limit)[i] = s[i]
      BY <1>1, <1>2
    <2>. QED
      BY <1>1, <1>2, <2>1, <2>2
  <1>3. CASE ~(limit >= 0 /\ limit < Len(s))
    BY <1>1, <1>3 DEF Top
  <1>. QED
    BY <1>2, <1>3

\* What a query matches.
LEMMA MatchingFacts ==
    ASSUME StoreHolds, NEW schema, NEW all, NEW ids
    PROVE  /\ IsFiniteSet(Matching(store, schema, all, ids))
           /\ Matching(store, schema, all, ids) \subseteq Contact
           /\ \A c : c \in Matching(store, schema, all, ids) <=>
                  /\ Exists(store, c) /\ (IsGroup(store, c) <=> schema = "group")
                  /\ all \/ c \in ToSet(ids)
  <1>. DEFINE T == {q.s : q \in store}
              M == Matching(store, schema, all, ids)
  <1>1. IsFiniteSet(T)
    <2>. DEFINE g == [q \in store |-> q.s]
    <2>1. IsFiniteSet(store) /\ DOMAIN g = store /\ T = {g[q] : q \in store}
      BY DEF StoreHolds
    <2>. HIDE DEF g, T
    <2>. QED
      BY <2>1, ImageFinite
  <1>2. \A c : c \in M <=> c \in T /\ Exists(store, c) /\ (IsGroup(store, c) <=> schema = "group")
                              /\ (all \/ c \in ToSet(ids))
    BY DEF Matching, OfSchema
  <1>3. \A c : Exists(store, c) => c \in T /\ c \in Contact
    BY DEF Exists, StoreHolds
  <1>. HIDE DEF T, M
  <1>4. IsFiniteSet(M)
    BY <1>1, <1>2, FS_Subset
  <1>. QED
    BY <1>2, <1>3, <1>4 DEF M

\* The list of a query.
LEMMA QueryFacts ==
    ASSUME StoreHolds, KnownFromStart, NEW T, IsFiniteSet(T), T \subseteq Contact,
           \A c \in T : Exists(store, c), NEW sorted, NEW list \in Listings(store, T, sorted)
    PROVE  /\ list \in Seq(T) /\ Distinct(list)
           /\ \A c : Pending(c, list) <=> c \in T
           /\ sorted => Ascending(list)
           /\ Len(list) = Cardinality(T)
  <1>1. list \in SetToSeqs(T) /\ (sorted => InOrder(store, list))
    BY DEF Listings
  <1>2. /\ list \in Seq(T) /\ \A i, j \in 1..Len(list) : list[i] = list[j] => i = j
        /\ \A x \in T : \E i \in 1..Len(list) : list[i] = x
        /\ Len(list) = Cardinality(T)
    BY <1>1, ListingFacts
  <1>3. DOMAIN list = 1..Len(list) /\ \A i \in 1..Len(list) : list[i] \in T
    BY <1>2
  <1>4. \A i \in 1..Len(list) : Key(store, list[i]) = fetch.start[list[i]]
    BY <1>3 DEF KnownFromStart
  <1>5. sorted => Ascending(list)
    BY <1>1, <1>3, <1>4 DEF InOrder, Ascending
  <1>. QED
    BY <1>2, <1>3, <1>5 DEF Distinct, Pending

\* The query for ids answers the call: the list is over all schemas, and its end is cut off.
LEMMA FoundIdsFacts ==
    ASSUME StoreHolds, KnownFromStart, NothingRead, fetch.call \in Calls, NEW list \in FoundIds
    PROVE  Answers(list)
  <1>. DEFINE T == UNION {Matching(store, s, fetch.all, fetch.ids) : s \in ToSet(Schemas)}
              limit == fetch.call.limit
  <1>1. ToSet(Schemas) = {"contact", "group"}
    BY DEF ToSet, Schemas
  <1>2. T = Matching(store, "contact", fetch.all, fetch.ids) \cup Matching(store, "group", fetch.all, fetch.ids)
    BY <1>1
  <1>3. IsFiniteSet(T) /\ T \subseteq Contact
    <2>. HIDE DEF T
    <2>. QED
      BY <1>2, MatchingFacts, FS_Union
  <1>4. \A c : c \in T <=> Exists(store, c) /\ Asked(c)
    <2>1. (fetch.all <=> fetch.call.all) /\ fetch.ids = fetch.call.ids
      BY DEF NothingRead
    <2>. HIDE DEF T
    <2>. QED
      BY <1>2, <2>1, MatchingFacts DEF Asked
  <1>5. PICK full \in Listings(store, T, fetch.sorting) : list = Top(limit, full)
    BY DEF FoundIds
  <1>. HIDE DEF T
  <1>6. /\ full \in Seq(T) /\ Distinct(full) /\ \A c : Pending(c, full) <=> c \in T
        /\ fetch.sorting => Ascending(full)
    BY <1>3, <1>4, <1>5, QueryFacts
  <1>7. limit \in Int /\ fetch.sorting = fetch.call.sorting
    BY CallFacts DEF NothingRead
  <1>8. /\ list \in Seq(T) /\ Len(list) <= Len(full)
        /\ \A i \in 1..Len(list) : list[i] = full[i]
        /\ limit >= 0 => Len(list) <= limit
        /\ list = full \/ (limit >= 0 /\ Len(list) = limit)
    BY <1>5, <1>6, <1>7, TopFacts
  <1>9. Len(list) \in Nat /\ Len(full) \in Nat /\ \A i \in 1..Len(list) : i \in 1..Len(full)
    BY <1>6, <1>8
  <1>10. Distinct(list)
    BY <1>6, <1>8, <1>9 DEF Distinct
  <1>11. fetch.sorting => Ascending(list)
    BY <1>6, <1>8, <1>9 DEF Ascending
  <1>12. \A c \in T : c \in AtStart
    BY <1>4 DEF AtStart, KnownFromStart
  <1>13. \A i \in 1..Len(list) : list[i] \in T
    BY <1>8
  <1>14. list \in Seq(Contact)
    BY <1>3, <1>8
  <1>15. ASSUME NEW c \in StillThere, ~Pending(c, list)
         PROVE  /\ Limited /\ Len(list) = limit
                /\ fetch.call.sorting => \A i \in 1..Len(list) : fetch.start[list[i]] <= fetch.start[c]
    <2>1. c \in T
      BY <1>4 DEF StillThere, AtStart
    <2>2. PICK j \in 1..Len(full) : full[j] = c
      BY <1>6, <2>1 DEF Pending
    <2>3. limit >= 0 /\ Len(list) = limit
      BY <1>6, <1>8, <1>15, <2>1
    <2>4. j > Len(list)
      BY <1>8, <1>9, <1>15, <2>2 DEF Pending
    <2>5. ASSUME fetch.call.sorting, NEW i \in 1..Len(list)
          PROVE  fetch.start[list[i]] <= fetch.start[c]
      <3>1. i \in 1..Len(full) /\ i < j /\ list[i] = full[i]
        BY <1>8, <1>9, <2>4
      <3>. QED
        BY <1>6, <1>7, <2>2, <2>5, <3>1 DEF Ascending
    <2>. QED
      BY <2>3, <2>5 DEF Limited
  <1>16. Limited => Len(list) <= limit
    BY <1>8 DEF Limited
  <1>. QED
    BY <1>7, <1>10, <1>11, <1>12, <1>13, <1>14, <1>15, <1>16 DEF Answers

-----------------------------------------------------------------------------
(* Fetch requests: the steps. *)

SameCall ==
    /\ store' = store
    /\ fetch'.call = fetch.call /\ fetch'.start = fetch.start

\* What depends only on the call and on the store.
LEMMA SameCallFacts ==
    ASSUME SameCall
    PROVE  /\ AtStart' = AtStart /\ StillThere' = StillThere /\ (Limited' <=> Limited)
           /\ StoreHolds => StoreHolds'
           /\ KnownFromStart => KnownFromStart'
           /\ \A list : Ascending(list)' <=> Ascending(list)
           /\ fetch'.fellBack = fetch.fellBack => \A list : Answers(list)' <=> Answers(list)
  <1>1. AtStart' = AtStart /\ StillThere' = StillThere /\ (Limited' <=> Limited)
    BY DEF SameCall, AtStart, StillThere, Limited, Asked
  <1>2. StoreHolds => StoreHolds'
    BY DEF SameCall, StoreHolds
  <1>3. KnownFromStart => KnownFromStart'
    BY DEF SameCall, KnownFromStart
  <1>4. \A list : Ascending(list)' <=> Ascending(list)
    BY DEF SameCall, Ascending
  <1>5. fetch'.fellBack = fetch.fellBack => \A list : Answers(list)' <=> Answers(list)
    BY <1>1, <1>4 DEF SameCall, Answers
  <1>. QED
    BY <1>1, <1>2, <1>3, <1>4, <1>5

\* The contacts are read with nothing known of them.
LEMMA ReadingStarts ==
    ASSUME NothingRead, fetch.call \in Calls, SameCall, fetch'.pc = "read",
           fetch'.all = fetch.all, fetch'.ids = fetch.ids, fetch'.sorting = fetch.sorting,
           fetch'.presorted = fetch.presorted, fetch'.schema = fetch.schema,
           fetch'.cache = fetch.cache, fetch'.lists = fetch.lists, fetch'.error = fetch.error,
           Limited /\ fetch.sorting => fetch'.fellBack
    PROVE  ReadingHolds'
  <1>1. DOMAIN << >> = {} /\ Len(<< >>) = 0 /\ IsFiniteSet({}) /\ Cardinality({}) = 0
    BY FS_EmptySet
  <1>2. /\ fetch'.schema = 1 /\ fetch'.cache = << >> /\ fetch'.lists = << >>
        /\ fetch'.error = "none" /\ ~fetch'.presorted
    BY DEF NothingRead
  <1>3. CacheHolds'
    BY <1>1, <1>2 DEF CacheHolds
  <1>4. ListsHold'
    <2>1. << >> \in Seq(Seq(Contact))
      OBVIOUS
    <2>2. fetch'.all = fetch'.call.all /\ fetch'.ids = fetch'.call.ids /\ fetch'.sorting = fetch'.call.sorting
      BY DEF NothingRead, SameCall
    <2>3. \A c : ~IsRead(c)'
      BY <1>2 DEF IsRead
    <2>4. Limited' => 0 <= fetch'.call.limit /\ (fetch'.sorting => fetch'.fellBack)
      BY SameCallFacts DEF Limited, SameCall
    <2>. QED
      BY <1>1, <1>2, <2>1, <2>2, <2>3, <2>4 DEF ListsHold
  <1>. QED
    BY <1>2, <1>3, <1>4 DEF ReadingHolds

\* The copies of a list that answers the call are a result, although the ones
\* that were removed meanwhile may be empty.
LEMMA AnswerGiven ==
    ASSUME KnownFromStart, fetch.call \in Calls, SameCall,
           fetch'.presorted = fetch.presorted, fetch'.fellBack = fetch.fellBack,
           NEW list, Answers(list), NEW X, fetch'.contacts \in Seq(X),
           Len(fetch'.contacts) = Len(list),
           \A i \in 1..Len(list) :
               \/ fetch'.contacts[i].id = list[i]
               \/ fetch'.contacts[i].id = Zero /\ fetch.presorted /\ ~Exists(store, list[i])
    PROVE  ResultHolds'
  <1>. DEFINE contacts == fetch'.contacts
              limit == fetch.call.limit
              n == Len(list)
  <1>1. /\ n \in Nat /\ DOMAIN contacts = 1..n /\ limit \in Int /\ Len(contacts) = n
        /\ \A i \in 1..n : list[i] \in Contact
    BY CallFacts DEF Answers
  <1>2. /\ AtStart' = AtStart /\ StillThere' = StillThere /\ (Limited' <=> Limited)
        /\ fetch'.call = fetch.call /\ fetch'.start = fetch.start
    BY SameCallFacts DEF SameCall
  <1>3. \A i \in 1..n :
            \/ contacts[i].id = list[i]
            \/ contacts[i].id = Zero /\ fetch.presorted /\ ~Exists(store, list[i])
    OBVIOUS
  <1>4. Zero \notin Contact
    BY StoreAssumption
  <1>5. FetchedIds' = {contacts[i].id : i \in 1..n}
    BY <1>1 DEF FetchedIds
  <1>. HIDE DEF contacts, n
  <1>6. ASSUME NEW i \in 1..n, NEW j \in 1..n, contacts[i].id = contacts[j].id
        PROVE  i = j \/ contacts[i].id = Zero
    <2>1. Distinct(list) /\ n = Len(list)
      BY DEF Answers, n
    <2>. QED
      BY <1>3, <1>6, <2>1 DEF Distinct
  <1>7. \A i \in 1..n : list[i] \in AtStart
    BY DEF Answers, n
  <1>8. FetchedIds' \ {Zero} \subseteq AtStart
    BY <1>3, <1>5, <1>7
  <1>9. \A c \in StillThere : Pending(c, list) => c \in FetchedIds'
    <2>. SUFFICES ASSUME NEW c \in StillThere, NEW i \in 1..n, list[i] = c PROVE c \in FetchedIds'
      BY DEF Pending, n
    <2>1. Exists(store, c)
      BY DEF StillThere
    <2>2. contacts[i].id = c
      BY <1>3, <2>1
    <2>. QED
      BY <1>5, <2>2
  <1>10. \A c \in StillThere \ FetchedIds' :
             /\ Limited /\ n = limit
             /\ fetch.call.sorting /\ ~fetch.fellBack =>
                    \A i \in 1..n : fetch.start[list[i]] <= fetch.start[c]
    BY <1>9 DEF Answers, n
  <1>11. Zero \in FetchedIds' => fetch.presorted /\ StillThere # AtStart
    <2>. SUFFICES ASSUME NEW i \in 1..n, contacts[i].id = Zero
                  PROVE  fetch.presorted /\ StillThere # AtStart
      BY <1>5
    <2>1. fetch.presorted /\ ~Exists(store, list[i])
      BY <1>1, <1>3, <1>4
    <2>. QED
      BY <1>7, <2>1 DEF StillThere
  <1>12. ASSUME fetch.call.sorting, NEW i \in 1..n, NEW j \in 1..n, i < j
         PROVE  InOrderOfStart(i, j)'
    <2>1. fetch.start[list[i]] <= fetch.start[list[j]]
      BY <1>12 DEF Answers, Ascending, n
    <2>2. \/ Zero \in {contacts[i].id, contacts[j].id}
          \/ contacts[i].id = list[i] /\ contacts[j].id = list[j]
      BY <1>3
    <2>. QED
      BY <1>2, <2>1, <2>2 DEF InOrderOfStart, contacts
  <1>13. ASSUME fetch.call.sorting, ~fetch.fellBack PROVE FirstOnes'
    <2>. SUFFICES ASSUME NEW c \in StillThere \ FetchedIds', NEW id \in FetchedIds' \ {Zero}
                  PROVE  fetch.start[id] <= fetch.start[c]
      BY <1>2 DEF FirstOnes
    <2>1. PICK i \in 1..n : id = contacts[i].id
      BY <1>5
    <2>2. id = list[i]
      BY <1>3, <2>1
    <2>. QED
      BY <1>10, <1>13, <2>2
  <1>14. ASSUME fetch.call.kind = "contact" PROVE n <= 1
    <2>1. ~fetch.call.all /\ Len(fetch.call.ids) = 1 /\ fetch.call.ids \in Seq(Contact \cup {Zero})
      BY <1>14, CallFacts
    <2>2. \A i \in 1..n : list[i] = fetch.call.ids[1]
      BY <1>7, <2>1 DEF AtStart, Asked, ToSet
    <2>3. CASE n >= 2
      <3>1. 1 \in 1..n /\ 2 \in 1..n
        BY <1>1, <2>3
      <3>. QED
        BY <2>2, <3>1 DEF Answers, Distinct, n
    <2>. QED
      BY <1>1, <2>3
  <1>15. Limited => n <= limit
    BY DEF Answers, n
  <1>16. fetch'.contacts = contacts /\ fetch'.presorted = fetch.presorted /\ fetch'.fellBack = fetch.fellBack
         /\ fetch'.contacts \in Seq(X)
    BY DEF contacts
  <1>17. ~Limited => StillThere \subseteq FetchedIds'
    BY <1>10
  <1>18. Limited /\ n < limit => StillThere \subseteq FetchedIds'
    BY <1>1, <1>10
  <1>. QED
    BY <1>1, <1>2, <1>6, <1>8, <1>11, <1>12, <1>13, <1>14, <1>15, <1>16, <1>17, <1>18 DEF ResultHolds

\* The ids of a native query are the answer.
LEMMA IdsNativeStep ==
    ASSUME FetchHolds, IdsNative
    PROVE  FetchHolds'
  <1>1. /\ fetch.pc = "ids" /\ StoreHolds /\ FetchFields /\ fetch.call \in Calls /\ KnownFromStart
        /\ NothingRead /\ fetch.call.kind = "ids" /\ ~fetch.canceled /\ store' = store
    BY DEF IdsNative, FetchHolds
  <1>2. CASE MayFail /\ FailWith("query")
    <2>1. /\ FetchFields' /\ SameCall /\ fetch'.pc = "report" /\ fetch'.error = "query"
          /\ fetch'.canceled = fetch.canceled
      BY <1>1, <1>2 DEF FailWith, FetchFields, SameCall
    <2>. QED
      BY <1>1, <2>1, SameCallFacts DEF FetchHolds, SameCall
  <1>3. ASSUME NEW list \in FoundIds,
               fetch' = [fetch EXCEPT !.pc = "report", !.contacts = [i \in DOMAIN list |-> Copy(list[i], 0)]]
        PROVE  FetchHolds'
    <2>. DEFINE contacts == [i \in DOMAIN list |-> Copy(list[i], 0)]
    <2>1. Answers(list)
      BY <1>1, <1>3, FoundIdsFacts
    <2>2. list \in Seq(Contact) /\ DOMAIN list = 1..Len(list)
      BY <2>1 DEF Answers
    <2>3. /\ contacts \in Seq([id : Contact, key : {0}]) /\ Len(contacts) = Len(list)
          /\ \A i \in 1..Len(list) : contacts[i].id = list[i]
      BY <2>2 DEF Copy
    <2>4. /\ FetchFields' /\ SameCall /\ fetch'.pc = "report" /\ fetch'.contacts = contacts
          /\ fetch'.presorted = fetch.presorted /\ fetch'.fellBack = fetch.fellBack
          /\ fetch'.error = fetch.error /\ fetch'.canceled = fetch.canceled
      BY <1>1, <1>3 DEF FetchFields, SameCall
    <2>. HIDE DEF contacts
    <2>5. ResultHolds'
      BY <1>1, <2>1, <2>3, <2>4, AnswerGiven
    <2>. QED
      BY <1>1, <2>4, <2>5, SameCallFacts DEF FetchHolds, SameCall
  <1>. QED
    BY <1>2, <1>3 DEF IdsNative

\* The ids of the preliminary query are the answer, once their contacts are read.
LEMMA PreliminaryIdsStep ==
    ASSUME FetchHolds, PreliminaryIds
    PROVE  FetchHolds'
  <1>1. /\ fetch.pc = "preliminary" /\ StoreHolds /\ FetchFields /\ fetch.call \in Calls
        /\ KnownFromStart /\ NothingRead /\ Limited /\ fetch.sorting /\ store' = store
    BY DEF PreliminaryIds, FetchHolds
  <1>2. PICK list \in FoundIds : fetch' = SortedIds(list)
    BY DEF PreliminaryIds
  <1>3. Answers(list)
    BY <1>1, FoundIdsFacts
  <1>4. /\ FetchFields' /\ SameCall /\ fetch'.pc = "read" /\ ~fetch'.all /\ fetch'.ids = list
        /\ ~fetch'.sorting /\ fetch'.presorted /\ fetch'.lists = <<list>>
        /\ fetch'.schema = 1 /\ fetch'.cache = << >> /\ fetch'.error = "none"
        /\ fetch'.fellBack = fetch.fellBack /\ fetch'.canceled = fetch.canceled
    BY <1>1, <1>2 DEF SortedIds, FetchFields, SameCall, NothingRead
  <1>5. DOMAIN << >> = {} /\ IsFiniteSet({})
    BY FS_EmptySet
  <1>6. CacheHolds'
    BY <1>4, <1>5 DEF CacheHolds
  <1>7. \A c : ~IsRead(c)'
    BY <1>4 DEF IsRead
  <1>8. Limited' /\ fetch'.call.sorting /\ Answers(list)'
    BY <1>1, <1>3, <1>4, SameCallFacts DEF SameCall, NothingRead
  <1>9. PresortedHolds'
    BY <1>4, <1>5, <1>7, <1>8 DEF PresortedHolds
  <1>10. ReadingHolds'
    BY <1>4, <1>6, <1>9 DEF ReadingHolds
  <1>. QED
    BY <1>1, <1>4, <1>10, SameCallFacts DEF FetchHolds, SameCall

\* What the query for the present schema matches.
Query == Matching(store, Schemas[fetch.schema], fetch.all, fetch.ids)

CacheWith(read) ==
    [c \in DOMAIN fetch.cache \cup ToSet(read) |->
        IF c \in ToSet(read) THEN Copy(c, Key(store, c)) ELSE fetch.cache[c]]

CachedWith(read) == Cardinality(DOMAIN fetch.cache \cup ToSet(read))

\* A list without repetition has as many positions as elements.
LEMMA DistinctCard ==
    ASSUME NEW X, NEW s \in Seq(X), Distinct(s)
    PROVE  IsFiniteSet(ToSet(s)) /\ Cardinality(ToSet(s)) = Len(s)
  <1>. DEFINE n == Len(s)
              T == ToSet(s)
  <1>1. n \in Nat /\ DOMAIN s = 1..n
    OBVIOUS
  <1>2. s \in [1..n -> T] /\ \A t \in T : \E i \in 1..n : s[i] = t
    BY <1>1 DEF ToSet
  <1>3. \A i, j \in 1..n : s[i] = s[j] => i = j
    BY DEF Distinct
  <1>4. IsFiniteSet(1..n) /\ Cardinality(1..n) = n
    <2>. HIDE DEF n
    <2>1. IsFiniteSet(1..n) /\ Cardinality(1..n) = IF 1 > n THEN 0 ELSE n - 1 + 1
      BY <1>1, FS_Interval
    <2>. QED
      BY <1>1, <2>1
  <1>. HIDE DEF n, T
  <1>5. s \in Surjection(1..n, T) /\ s \in Injection(1..n, T)
    BY <1>2, <1>3 DEF Surjection, Injection, IsInjective
  <1>6. IsFiniteSet(T) /\ Cardinality(T) = Cardinality(1..n)
    BY <1>4, <1>5, FS_Surjection
  <1>. QED
    BY <1>4, <1>6 DEF n, T

\* Two ways to say that something is in a list.
LEMMA SequenceElements ==
    ASSUME NEW X, NEW s \in Seq(X)
    PROVE  \A x : Pending(x, s) <=> x \in ToSet(s)
  <1>1. DOMAIN s = 1..Len(s)
    OBVIOUS
  <1>. QED
    BY <1>1 DEF Pending, ToSet

\* Reading is not over: which contacts the query is about.
Reading ==
    /\ StoreHolds /\ KnownFromStart /\ fetch.call \in Calls
    /\ fetch.pc = "read" /\ ReadingHolds

\* What the query for the present schema matches: nothing of it was read before.
LEMMA QueryMembers ==
    ASSUME Reading
    PROVE  /\ fetch.schema \in 1..2
           /\ IsFiniteSet(Query) /\ Query \subseteq Contact
           /\ \A c \in Query : /\ Exists(store, c) /\ c \in AtStart /\ Key(store, c) = fetch.start[c]
                               /\ IsGroup(store, c) <=> fetch.schema = 2
           /\ ~fetch.presorted => \A c \in StillThere :
                  (IsGroup(store, c) <=> fetch.schema = 2) => c \in Query
           /\ fetch.presorted =>
                  /\ \A c \in Query : Pending(c, fetch.ids)
                  /\ \A c : Pending(c, fetch.ids) /\ Exists(store, c)
                             /\ (IsGroup(store, c) <=> fetch.schema = 2) => c \in Query
           /\ DOMAIN fetch.cache \cap Query = {}
  <1>1. fetch.schema \in 1..2
    BY DEF Reading, ReadingHolds, CacheHolds
  <1>2. Schemas[fetch.schema] = "group" <=> fetch.schema = 2
    BY <1>1 DEF Schemas
  <1>3. /\ IsFiniteSet(Query) /\ Query \subseteq Contact
        /\ \A c : c \in Query <=>
              /\ Exists(store, c) /\ (IsGroup(store, c) <=> fetch.schema = 2)
              /\ fetch.all \/ c \in ToSet(fetch.ids)
    BY <1>2, MatchingFacts DEF Reading, Query
  <1>4. ASSUME fetch.presorted
        PROVE  /\ \A c \in Query : Pending(c, fetch.ids) /\ c \in AtStart
               /\ \A c : Pending(c, fetch.ids) /\ Exists(store, c)
                          /\ (IsGroup(store, c) <=> fetch.schema = 2) => c \in Query
    <2>1. ~fetch.all /\ fetch.ids \in Seq(Contact) /\ \A i \in 1..Len(fetch.ids) : fetch.ids[i] \in AtStart
      BY <1>4 DEF Reading, ReadingHolds, PresortedHolds, Answers
    <2>2. \A c : Pending(c, fetch.ids) <=> c \in ToSet(fetch.ids)
      BY <2>1, SequenceElements
    <2>. QED
      BY <1>3, <2>1, <2>2 DEF Pending
  <1>5. ASSUME ~fetch.presorted
        PROVE  /\ \A c \in Query : c \in AtStart
               /\ \A c \in StillThere : (IsGroup(store, c) <=> fetch.schema = 2) => c \in Query
    <2>1. fetch.all = fetch.call.all /\ fetch.ids = fetch.call.ids
      BY <1>5 DEF Reading, ReadingHolds, ListsHold
    <2>2. \A c : Exists(store, c) => c \in DOMAIN fetch.start
      BY DEF Reading, KnownFromStart
    <2>. QED
      BY <1>3, <2>1, <2>2 DEF StillThere, AtStart, Asked
  <1>6. \A c \in Query : Key(store, c) = fetch.start[c]
    BY <1>3 DEF Reading, KnownFromStart
  <1>7. DOMAIN fetch.cache \cap Query = {}
    <2>1. CASE fetch.schema = 1
      BY <2>1 DEF Reading, ReadingHolds, CacheHolds
    <2>2. CASE fetch.schema = 2
      BY <1>3, <2>2 DEF Reading, ReadingHolds, CacheHolds
    <2>. QED
      BY <1>1, <2>1, <2>2
  <1>. QED
    BY <1>1, <1>3, <1>4, <1>5, <1>6, <1>7

\* What is read of the query.
Rows(read) ==
    /\ read \in Seq(Contact) /\ Distinct(read) /\ ToSet(read) \subseteq Query
    /\ fetch.sorting /\ Sortable(Schemas[fetch.schema]) => Ascending(read)
    /\ IsFiniteSet(DOMAIN fetch.cache \cup ToSet(read)) /\ CachedWith(read) \in Nat
    /\ Cardinality(DOMAIN fetch.cache) <= CachedWith(read)
    /\ Limited /\ Cardinality(DOMAIN fetch.cache) <= fetch.call.limit =>
           CachedWith(read) <= fetch.call.limit
    /\ ToSet(read) = Query \/ (Limited /\ CachedWith(read) >= fetch.call.limit)

\* fetchResults(): all rows, or as many as the limit leaves room for.
LEMMA RowsAreRead ==
    ASSUME Reading, NEW list \in Listings(store, Query, fetch.sorting /\ Sortable(Schemas[fetch.schema]))
    PROVE  Rows(RowsRead(list))
  <1>. DEFINE read == RowsRead(list)
              sorted == fetch.sorting /\ Sortable(Schemas[fetch.schema])
              known == DOMAIN fetch.cache
              limit == fetch.call.limit
              room == limit - Cardinality(known)
  <1>1. /\ IsFiniteSet(Query) /\ Query \subseteq Contact /\ known \cap Query = {}
        /\ \A c \in Query : Exists(store, c)
    BY QueryMembers
  <1>2. /\ list \in Seq(Query) /\ Distinct(list) /\ \A c : Pending(c, list) <=> c \in Query
        /\ sorted => Ascending(list)
    <2>1. list \in Listings(store, Query, sorted)
      OBVIOUS
    <2>. HIDE DEF sorted
    <2>. QED
      BY <1>1, <2>1, QueryFacts DEF Reading
  <1>. HIDE DEF sorted
  <1>3. IsFiniteSet(known) /\ Cardinality(known) \in Nat /\ limit \in Int
    BY CallFacts, FS_CardinalityType DEF Reading, ReadingHolds, CacheHolds
  <1>4. read = IF Limited THEN Top(IF room < 0 THEN 0 ELSE room, list) ELSE list
    BY DEF RowsRead
  <1>. HIDE DEF known
  <1>5. /\ read \in Seq(Query) /\ Len(read) <= Len(list)
        /\ \A i \in 1..Len(read) : read[i] = list[i]
        /\ Limited => (IF room < 0 THEN Len(read) <= 0 ELSE Len(read) <= room)
        /\ read = list \/ (Limited /\ (IF room < 0 THEN Len(read) = 0 ELSE Len(read) = room))
    <2>. DEFINE top == IF room < 0 THEN 0 ELSE room
    <2>1. top \in Int /\ top >= 0 /\ (room < 0 => top = 0) /\ (room >= 0 => top = room)
      BY <1>3
    <2>2. read = IF Limited THEN Top(top, list) ELSE list
      BY <1>4
    <2>. HIDE DEF top, read, room, limit
    <2>3. /\ Top(top, list) \in Seq(Query)
          /\ Len(Top(top, list)) <= Len(list)
          /\ \A i \in 1..Len(Top(top, list)) : Top(top, list)[i] = list[i]
          /\ top >= 0 => Len(Top(top, list)) <= top
          /\ Top(top, list) = list \/ (top >= 0 /\ Len(Top(top, list)) = top)
      BY <1>2, <2>1, TopFacts
    <2>4. room \in Int
      BY <1>3 DEF room, limit
    <2>. QED
      BY <1>2, <2>1, <2>2, <2>3, <2>4
  <1>. HIDE DEF read
  <1>6. Len(read) \in Nat /\ Len(list) \in Nat /\ \A i \in 1..Len(read) : i \in 1..Len(list)
    BY <1>2, <1>5
  <1>7. Distinct(read) /\ (sorted => Ascending(read))
    BY <1>2, <1>5, <1>6 DEF Distinct, Ascending
  <1>8. ToSet(read) \subseteq Query
    BY <1>5 DEF ToSet
  <1>9. IsFiniteSet(ToSet(read)) /\ Cardinality(ToSet(read)) = Len(read)
    BY <1>5, <1>7, DistinctCard
  <1>10. known \cap ToSet(read) = {} /\ Cardinality({}) = 0
    BY <1>1, <1>8, FS_EmptySet
  <1>11. IsFiniteSet(known \cup ToSet(read)) /\ CachedWith(read) = Cardinality(known) + Len(read)
    <2>. DEFINE new == ToSet(read)
    <2>1. IsFiniteSet(new) /\ Cardinality(new) = Len(read) /\ known \cap new = {}
      BY <1>9, <1>10
    <2>2. CachedWith(read) = Cardinality(known \cup new)
      BY DEF CachedWith, known
    <2>. HIDE DEF new
    <2>3. /\ IsFiniteSet(known \cup new)
          /\ Cardinality(known \cup new) =
                 Cardinality(known) + Cardinality(new) - Cardinality(known \cap new)
      BY <1>3, <2>1, FS_Union
    <2>4. Cardinality(known \cap new) = 0
      BY <1>10, <2>1
    <2>5. Cardinality(known) \in Nat /\ Len(read) \in Nat
      BY <1>3, <1>6
    <2>. DEFINE joined == Cardinality(known \cup new)
                own == Cardinality(known)
    <2>6. joined = own + Cardinality(new) - Cardinality(known \cap new)
      BY <2>3
    <2>. HIDE DEF joined, own
    <2>7. joined = own + Len(read)
      BY <2>1, <2>4, <2>5, <2>6 DEF own
    <2>. QED
      BY <2>2, <2>3, <2>7 DEF new, joined, own
  <1>12. read = list => ToSet(read) = Query
    <2>1. \A c : Pending(c, list) <=> c \in ToSet(list)
      BY <1>2, SequenceElements
    <2>. QED
      BY <1>2, <2>1
  <1>13. read \in Seq(Contact)
    BY <1>1, <1>5
  <1>14. Limited /\ Cardinality(known) <= limit => CachedWith(read) <= limit
    BY <1>3, <1>5, <1>6, <1>11
  <1>15. ToSet(read) = Query \/ (Limited /\ CachedWith(read) >= limit)
    BY <1>3, <1>5, <1>6, <1>11, <1>12
  <1>16. CachedWith(read) \in Nat /\ Cardinality(known) <= CachedWith(read)
    BY <1>3, <1>6, <1>11
  <1>. QED
    BY <1>7, <1>8, <1>11, <1>13, <1>14, <1>15, <1>16 DEF Rows, read, known, sorted

\* The cache has what was read, with the keys of the start.
LEMMA CacheGrows ==
    ASSUME Reading, SameCall, NEW read, Rows(read),
           fetch'.cache = CacheWith(read), fetch'.schema = fetch.schema + 1
    PROVE  CacheHolds'
  <1>1. fetch.schema \in 1..2 /\ fetch'.schema \in 2..3
    BY QueryMembers
  <1>2. /\ AtStart' = AtStart /\ fetch'.start = fetch.start /\ store' = store
    BY SameCallFacts DEF SameCall
  <1>3. DOMAIN fetch'.cache = DOMAIN fetch.cache \cup ToSet(read)
    BY DEF CacheWith
  <1>4. IsFiniteSet(DOMAIN fetch'.cache)
    BY <1>3 DEF Rows
  <1>5. ASSUME NEW c \in DOMAIN fetch'.cache
        PROVE  c \in AtStart /\ fetch'.cache[c] = Copy(c, fetch.start[c])
    <2>1. CASE c \in ToSet(read)
      <3>1. c \in AtStart /\ Key(store, c) = fetch.start[c]
        BY <2>1, QueryMembers DEF Rows
      <3>. QED
        BY <1>3, <2>1, <3>1 DEF CacheWith
    <2>2. CASE c \notin ToSet(read)
      BY <1>3, <2>2 DEF CacheWith, Reading, ReadingHolds, CacheHolds
    <2>. QED
      BY <2>1, <2>2
  <1>6. ASSUME fetch'.schema = 2, NEW c \in DOMAIN fetch'.cache
        PROVE  ~(Exists(store, c) /\ IsGroup(store, c))
    <2>1. fetch.schema = 1 /\ DOMAIN fetch.cache = {}
      BY <1>1, <1>6 DEF Reading, ReadingHolds, CacheHolds
    <2>2. c \in Query
      BY <1>3, <2>1 DEF Rows
    <2>. QED
      BY <2>1, <2>2, QueryMembers
  <1>7. fetch'.schema # 1 /\ fetch'.schema \in 1..3
    BY <1>1
  <1>. QED
    BY <1>2, <1>4, <1>5, <1>6, <1>7 DEF CacheHolds

\* The list of a schema has what was read of it.
ListsRows(list, read) ==
    /\ list \in Seq(Contact) /\ Distinct(list)
    /\ fetch.sorting => Ascending(list)
    /\ \A c : Pending(c, list) <=> c \in ToSet(read)

\* In-memory sorting keeps what was read, and orders it.
LEMMA SortedRows ==
    ASSUME Reading, NEW read, Rows(read), NEW list \in SortedInMemory(read, CacheWith(read))
    PROVE  ListsRows(list, read)
  <1>1. read \in Seq(Contact) /\ Distinct(read) /\ \A c : Pending(c, read) <=> c \in ToSet(read)
    BY SequenceElements DEF Rows
  <1>2. CASE ~fetch.sorting \/ Sortable(Schemas[fetch.schema])
    <2>1. list = read
      BY <1>2 DEF SortedInMemory
    <2>. QED
      BY <1>1, <1>2, <2>1 DEF ListsRows, Rows
  <1>3. CASE ~(~fetch.sorting \/ Sortable(Schemas[fetch.schema]))
    <2>. DEFINE T == ToSet(read)
                cache == CacheWith(read)
    <2>1. /\ list \in SetToSeqs(T)
          /\ \A i, j \in DOMAIN list : i < j => cache[list[i]].key <= cache[list[j]].key
      BY <1>3 DEF SortedInMemory
    <2>2. T \subseteq Query /\ T \subseteq Contact /\ IsFiniteSet(T)
      BY QueryMembers, FS_Subset DEF Rows
    <2>3. \A c \in T : cache[c].key = fetch.start[c]
      BY <2>2, QueryMembers DEF CacheWith, Copy
    <2>. HIDE DEF T, cache
    <2>4. /\ list \in Seq(T) /\ Distinct(list) /\ \A x \in T : \E i \in 1..Len(list) : list[i] = x
      BY <2>1, <2>2, ListingFacts DEF Distinct
    <2>5. DOMAIN list = 1..Len(list) /\ \A i \in 1..Len(list) : list[i] \in T
      BY <2>4
    <2>6. Ascending(list)
      BY <2>1, <2>3, <2>5 DEF Ascending
    <2>7. \A c : Pending(c, list) <=> c \in T
      BY <2>4, <2>5 DEF Pending
    <2>8. list \in Seq(Contact)
      BY <2>2, <2>4
    <2>. QED
      BY <2>4, <2>6, <2>7, <2>8 DEF ListsRows, T
  <1>. QED
    BY <1>2, <1>3

\* A schema is read.
SchemaRead(read) ==
    /\ SameCall /\ Rows(read)
    /\ fetch'.cache = CacheWith(read) /\ fetch'.schema = fetch.schema + 1
    /\ fetch'.all = fetch.all /\ fetch'.ids = fetch.ids /\ fetch'.sorting = fetch.sorting
    /\ fetch'.presorted = fetch.presorted /\ fetch'.fellBack = fetch.fellBack

\* Whose query is over when the schema is read.
LEMMA NowRead ==
    ASSUME Reading, NEW read, SchemaRead(read), NEW c, IsRead(c)'
    PROVE  /\ Exists(store, c)
           /\ \/ IsGroup(store, c) <=> fetch.schema = 2
              \/ IsRead(c)
  <1>1. fetch.schema \in 1..2
    BY QueryMembers
  <1>2. store' = store /\ fetch'.schema = fetch.schema + 1
    BY DEF SchemaRead, SameCall
  <1>3. Exists(store, c)
    BY <1>2 DEF IsRead
  <1>4. CASE IsGroup(store, c)
    BY <1>1, <1>2, <1>4, <1>3 DEF IsRead
  <1>5. CASE ~IsGroup(store, c)
    BY <1>1, <1>2, <1>5, <1>3 DEF IsRead
  <1>. QED
    BY <1>3, <1>4, <1>5

\* The list of the schema is apart from the lists before, and with them has all that was read.
LEMMA ListsGrow ==
    ASSUME Reading, ~fetch.presorted, NEW read, SchemaRead(read), NEW list, ListsRows(list, read),
           fetch'.lists = Append(fetch.lists, list)
    PROVE  ListsHold'
  <1>. DEFINE lists == fetch.lists
              new == fetch'.lists
              n == fetch.schema - 1
              known == DOMAIN fetch.cache
              limit == fetch.call.limit
  <1>1. /\ ListsHold /\ fetch.schema \in 1..2 /\ limit \in Int
        /\ IsFiniteSet(known) /\ Cardinality(known) \in Nat
    BY QueryMembers, CallFacts, FS_CardinalityType DEF Reading, ReadingHolds, CacheHolds
  <1>2. /\ store' = store /\ fetch'.call = fetch.call /\ fetch'.start = fetch.start
        /\ StillThere' = StillThere /\ (Limited' <=> Limited)
        /\ \A l : Ascending(l)' <=> Ascending(l)
    BY SameCallFacts DEF SchemaRead, SameCall
  <1>3. lists \in Seq(Seq(Contact)) /\ Len(lists) = n /\ n \in Nat
    BY <1>1 DEF ListsHold
  <1>4. /\ new \in Seq(Seq(Contact)) /\ Len(new) = n + 1 /\ new[n + 1] = list
        /\ \A k \in 1..n : new[k] = lists[k]
    <2>1. list \in Seq(Contact)
      BY DEF ListsRows
    <2>. QED
      BY <1>3, <2>1, AppendFacts
  <1>5. Len(new) = fetch'.schema - 1
    BY <1>1, <1>4 DEF SchemaRead
  <1>. HIDE DEF new, lists, n
  <1>6. \A k \in 1..(n + 1) : k \in 1..n \/ k = n + 1
    BY <1>3
  <1>7. \A k \in 1..n : k \in 1..(n + 1) /\ k # n + 1
    BY <1>3
  <1>8. n + 1 \in 1..(n + 1)
    BY <1>3
  <1>9. ASSUME NEW k \in 1..(n + 1)
        PROVE  Distinct(new[k]) /\ (fetch.sorting => Ascending(new[k]))
    <2>1. CASE k \in 1..n
      BY <1>1, <1>3, <1>4, <2>1 DEF ListsHold, lists
    <2>2. CASE k = n + 1
      BY <1>4, <2>2 DEF ListsRows
    <2>. QED
      BY <1>6, <2>1, <2>2
  <1>10. DOMAIN fetch'.cache = known \cup ToSet(read)
    BY DEF SchemaRead, CacheWith
  <1>11. \A c : c \in known <=> \E k \in 1..n : Pending(c, lists[k])
    BY <1>1, <1>3 DEF ListsHold, lists
  <1>12. \A c : Pending(c, list) <=> c \in ToSet(read)
    BY DEF ListsRows
  <1>13. known \cap ToSet(read) = {}
    BY QueryMembers DEF SchemaRead, Rows
  <1>. HIDE DEF known
  <1>14. ASSUME NEW c
         PROVE  c \in DOMAIN fetch'.cache <=> \E k \in 1..(n + 1) : Pending(c, new[k])
    <2>1. (\E k \in 1..(n + 1) : Pending(c, new[k])) <=>
              (\E k \in 1..n : Pending(c, lists[k])) \/ Pending(c, list)
      BY <1>4, <1>6, <1>7, <1>8
    <2>. QED
      BY <1>10, <1>11, <1>12, <2>1
  <1>15. ASSUME NEW k \in 1..(n + 1), NEW l \in 1..(n + 1), NEW c,
                Pending(c, new[k]), Pending(c, new[l])
         PROVE  k = l
    <2>1. ~(c \in known /\ Pending(c, list))
      BY <1>12, <1>13
    <2>2. CASE k \in 1..n /\ l \in 1..n
      BY <1>1, <1>3, <1>4, <1>15, <2>2 DEF ListsHold, lists
    <2>3. CASE k = n + 1 /\ l \in 1..n
      BY <1>4, <1>11, <1>15, <2>1, <2>3
    <2>4. CASE k \in 1..n /\ l = n + 1
      BY <1>4, <1>11, <1>15, <2>1, <2>4
    <2>. QED
      BY <1>6, <2>2, <2>3, <2>4
  <1>. DEFINE size == Cardinality(DOMAIN fetch'.cache)
  <1>16. size = CachedWith(read) /\ size \in Nat /\ Cardinality(known) <= size
    BY <1>10 DEF CachedWith, SchemaRead, Rows, known
  <1>17. Limited => size <= limit /\ (fetch.sorting => fetch.fellBack)
    BY <1>1, <1>16 DEF ListsHold, SchemaRead, Rows, known
  <1>. HIDE DEF size
  <1>18. ASSUME ~Limited \/ size < limit, NEW c \in StillThere, IsRead(c)'
         PROVE  c \in DOMAIN fetch'.cache
    <2>1. CASE IsRead(c)
      <3>1. ~Limited \/ Cardinality(known) < limit
        BY <1>1, <1>16, <1>18 DEF known
      <3>2. c \in known
        BY <1>1, <1>18, <2>1, <3>1 DEF ListsHold, known
      <3>. QED
        BY <1>10, <3>2
    <2>2. CASE IsGroup(store, c) <=> fetch.schema = 2
      <3>1. c \in Query
        BY <2>2, QueryMembers
      <3>2. ToSet(read) = Query
        BY <1>1, <1>16, <1>18 DEF SchemaRead, Rows
      <3>. QED
        BY <1>10, <3>1, <3>2
    <2>. QED
      BY <1>18, <2>1, <2>2, NowRead
  <1>19. /\ fetch'.all = fetch'.call.all /\ fetch'.ids = fetch'.call.ids
         /\ fetch'.sorting = fetch'.call.sorting
         /\ fetch'.sorting = fetch.sorting /\ fetch'.fellBack = fetch.fellBack
    BY <1>1, <1>2 DEF ListsHold, SchemaRead
  <1>20. fetch'.lists = new /\ Cardinality(DOMAIN fetch'.cache) = size /\ fetch'.call.limit = limit
    BY <1>2 DEF new, size
  <1>. HIDE DEF limit
  <1>. QED
    BY <1>2, <1>4, <1>5, <1>9, <1>14, <1>15, <1>17, <1>18, <1>19, <1>20 DEF ListsHold

\* The limit never stops a query for ids that are known: there are no more of them.
LEMMA PresortedGrows ==
    ASSUME Reading, fetch.presorted, NEW read, SchemaRead(read), fetch'.lists = fetch.lists
    PROVE  PresortedHolds'
  <1>. DEFINE limit == fetch.call.limit
              wanted == ToSet(fetch.ids)
              known == DOMAIN fetch'.cache
  <1>1. PresortedHolds /\ limit \in Int
    BY CallFacts DEF Reading, ReadingHolds
  <1>2. /\ store' = store /\ fetch'.call = fetch.call /\ fetch'.start = fetch.start
        /\ (Limited' <=> Limited) /\ \A l : Answers(l)' <=> Answers(l)
    BY SameCallFacts DEF SchemaRead, SameCall
  <1>3. fetch.ids \in Seq(Contact) /\ Distinct(fetch.ids) /\ Len(fetch.ids) <= limit
    BY <1>1 DEF PresortedHolds, Answers
  <1>4. IsFiniteSet(wanted) /\ Cardinality(wanted) = Len(fetch.ids)
    BY <1>3, DistinctCard
  <1>5. \A c : Pending(c, fetch.ids) <=> c \in wanted
    BY <1>3, SequenceElements
  <1>6. known = DOMAIN fetch.cache \cup ToSet(read) /\ ToSet(read) \subseteq Query
    BY DEF SchemaRead, CacheWith, Rows
  <1>7. \A c \in Query : Pending(c, fetch.ids)
    BY QueryMembers
  <1>8. \A c \in known : Pending(c, fetch.ids)
    BY <1>1, <1>6, <1>7 DEF PresortedHolds
  <1>9. Cardinality(known) = CachedWith(read) /\ Cardinality(known) \in Nat
    BY <1>6 DEF CachedWith, SchemaRead, Rows
  <1>. HIDE DEF wanted, known
  <1>10. Cardinality(known) <= Cardinality(wanted) /\ (Cardinality(wanted) = Cardinality(known) => wanted = known)
    <2>1. known \in SUBSET wanted
      BY <1>5, <1>8
    <2>. QED
      BY <1>4, <2>1, FS_Subset
  <1>11. Query \subseteq known
    <2>1. CASE ToSet(read) = Query
      BY <1>6, <2>1
    <2>2. CASE CachedWith(read) >= limit
      <3>1. Cardinality(wanted) = Cardinality(known)
        <4>1. Len(fetch.ids) \in Nat
          BY <1>3
        <4>. QED
          BY <1>1, <1>3, <1>4, <1>9, <1>10, <2>2, <4>1
      <3>2. wanted = known
        BY <1>10, <3>1
      <3>. QED
        BY <1>5, <1>7, <3>2
    <2>. QED
      BY <2>1, <2>2 DEF SchemaRead, Rows
  <1>12. ASSUME NEW c, Pending(c, fetch.ids), IsRead(c)'
         PROVE  c \in known
    <2>1. CASE IsRead(c)
      BY <1>1, <1>6, <1>12, <2>1 DEF PresortedHolds
    <2>2. CASE Exists(store, c) /\ (IsGroup(store, c) <=> fetch.schema = 2)
      <3>1. c \in Query
        BY <1>12, <2>2, QueryMembers
      <3>. QED
        BY <1>11, <3>1
    <2>. QED
      BY <1>12, <2>1, <2>2, NowRead
  <1>13. fetch'.ids = fetch.ids /\ fetch'.lists = fetch.lists /\ fetch'.all = fetch.all
         /\ fetch'.sorting = fetch.sorting
    BY DEF SchemaRead
  <1>. QED
    BY <1>1, <1>2, <1>8, <1>12, <1>13 DEF PresortedHolds, known

\* A query for a schema keeps the invariant.
LEMMA ReadSchemaStep ==
    ASSUME FetchHolds, ReadSchema
    PROVE  FetchHolds'
  <1>1. /\ fetch.pc = "read" /\ StoreHolds /\ FetchFields /\ fetch.call \in Calls
        /\ KnownFromStart /\ store' = store
    BY DEF ReadSchema, FetchHolds
  <1>2. PICK list \in Listings(store, Query, fetch.sorting /\ Sortable(Schemas[fetch.schema])) :
        \E n \in IF fetch.canceled THEN 0 .. Len(list) ELSE {Len(list)} :
        \E sorted \in SortedInMemory(RowsRead(SubSeq(list, 1, n)), CacheWith(RowsRead(SubSeq(list, 1, n)))) :
            fetch' = [fetch EXCEPT
                       !.cache = CacheWith(RowsRead(SubSeq(list, 1, n))),
                       !.lists = IF fetch.presorted THEN @ ELSE Append(@, sorted),
                       !.schema = @ + 1,
                       !.pc = IF fetch.schema = Len(Schemas) THEN "process" ELSE "read"]
    BY DEF ReadSchema, Query, CacheWith
  <1>3. PICK n \in IF fetch.canceled THEN 0 .. Len(list) ELSE {Len(list)} :
        \E sorted \in SortedInMemory(RowsRead(SubSeq(list, 1, n)), CacheWith(RowsRead(SubSeq(list, 1, n)))) :
            fetch' = [fetch EXCEPT
                       !.cache = CacheWith(RowsRead(SubSeq(list, 1, n))),
                       !.lists = IF fetch.presorted THEN @ ELSE Append(@, sorted),
                       !.schema = @ + 1,
                       !.pc = IF fetch.schema = Len(Schemas) THEN "process" ELSE "read"]
    BY <1>2
  <1>. DEFINE read == RowsRead(SubSeq(list, 1, n))
  <1>4. PICK sorted \in SortedInMemory(read, CacheWith(read)) :
            fetch' = [fetch EXCEPT
                       !.cache = CacheWith(read),
                       !.lists = IF fetch.presorted THEN @ ELSE Append(@, sorted),
                       !.schema = @ + 1,
                       !.pc = IF fetch.schema = Len(Schemas) THEN "process" ELSE "read"]
    BY <1>3
  <1>. HIDE DEF read
  <1>5. /\ FetchFields' /\ SameCall
        /\ fetch'.pc = IF fetch.schema = 2 THEN "process" ELSE "read"
        /\ fetch'.canceled = fetch.canceled
    BY <1>1, <1>4 DEF FetchFields, SameCall, Schemas
  <1>6. /\ fetch'.cache = CacheWith(read) /\ fetch'.schema = fetch.schema + 1
        /\ fetch'.lists = IF fetch.presorted THEN fetch.lists ELSE Append(fetch.lists, sorted)
        /\ fetch'.all = fetch.all /\ fetch'.ids = fetch.ids /\ fetch'.sorting = fetch.sorting
        /\ fetch'.presorted = fetch.presorted /\ fetch'.fellBack = fetch.fellBack
        /\ fetch'.error = fetch.error
    BY <1>1, <1>4 DEF FetchFields
  <1>7. ASSUME ~fetch.canceled PROVE ReadingHolds'
    <2>1. Reading
      BY <1>1, <1>7 DEF Reading, FetchHolds
    <2>2. read = RowsRead(list)
      <3>1. list \in Seq(Query)
        <4>. DEFINE T == Query
                    how == fetch.sorting /\ Sortable(Schemas[fetch.schema])
        <4>1. IsFiniteSet(T) /\ T \subseteq Contact /\ (\A c \in T : Exists(store, c)) /\ list \in Listings(store, T, how)
          BY <1>2, <2>1, QueryMembers
        <4>. HIDE DEF T, how
        <4>2. list \in Seq(T)
          BY <1>1, <4>1, QueryFacts
        <4>. QED
          BY <4>2 DEF T
      <3>2. n = Len(list) /\ SubSeq(list, 1, Len(list)) = list
        BY <1>3, <1>7, <3>1
      <3>. QED
        BY <3>2 DEF read
    <2>3. Rows(read)
      BY <1>2, <2>1, <2>2, RowsAreRead
    <2>4. SchemaRead(read)
      BY <1>5, <1>6, <2>3 DEF SchemaRead
    <2>5. CacheHolds'
      BY <1>5, <1>6, <2>1, <2>3, CacheGrows
    <2>6. fetch'.pc = "process" <=> fetch'.schema = 3
      BY <1>5, <1>6, <2>1, QueryMembers
    <2>7. fetch'.error = "none"
      BY <1>6, <2>1 DEF Reading, ReadingHolds
    <2>8. CASE fetch.presorted
      <3>1. PresortedHolds'
        BY <1>6, <2>1, <2>4, <2>8, PresortedGrows
      <3>. QED
        BY <1>6, <2>5, <2>6, <2>7, <2>8, <3>1 DEF ReadingHolds
    <2>9. CASE ~fetch.presorted
      <3>1. ListsRows(sorted, read)
        BY <1>4, <2>1, <2>3, SortedRows
      <3>2. ListsHold'
        BY <1>6, <2>1, <2>4, <2>9, <3>1, ListsGrow
      <3>. QED
        BY <1>6, <2>5, <2>6, <2>7, <2>9, <3>2 DEF ReadingHolds
    <2>. QED
      BY <2>8, <2>9
  <1>. QED
    BY <1>1, <1>5, <1>7, SameCallFacts DEF FetchHolds, SameCall

Copies == [id : Contact \cup {Zero}, key : Int]

\* Reading is over.
LEMMA CopyFacts ==
    ASSUME KnownFromStart, CacheHolds
    PROVE  /\ Keyed(Copies) /\ \A id : CopyOf(id) \in Copies
           /\ \A c \in DOMAIN fetch.cache :
                  /\ c \in Contact /\ c \in AtStart
                  /\ CopyOf(c).id = c /\ CopyOf(c).key = fetch.start[c]
           /\ \A id : id \notin DOMAIN fetch.cache => CopyOf(id).id = Zero
  <1>1. \A c \in DOMAIN fetch.cache :
            /\ c \in AtStart /\ c \in Contact /\ fetch.start[c] \in Int
            /\ fetch.cache[c] = Copy(c, fetch.start[c])
    BY DEF CacheHolds, KnownFromStart, AtStart
  <1>2. Keyed(Copies)
    BY DEF Keyed, Copies
  <1>3. ASSUME NEW c \in DOMAIN fetch.cache
        PROVE  CopyOf(c) \in Copies /\ CopyOf(c).id = c /\ CopyOf(c).key = fetch.start[c]
    <2>1. CopyOf(c) = Copy(c, fetch.start[c])
      BY <1>1 DEF CopyOf
    <2>2. c \in Contact /\ fetch.start[c] \in Int
      BY <1>1
    <2>. QED
      BY <2>1, <2>2 DEF Copies, Copy
  <1>4. ASSUME NEW id, id \notin DOMAIN fetch.cache PROVE CopyOf(id) \in Copies
    <2>1. CopyOf(id) = [id |-> Zero, key |-> 0]
      BY <1>4 DEF CopyOf, EmptyContact, Copy
    <2>. QED
      BY <2>1 DEF Copies
  <1>5. \A id : id \notin DOMAIN fetch.cache => CopyOf(id).id = Zero
    BY DEF CopyOf, Copy, EmptyContact
  <1>. QED
    BY <1>1, <1>2, <1>3, <1>4, <1>5

\* getContacts(): a copy for each id.
LEMMA CopiesFacts ==
    ASSUME KnownFromStart, CacheHolds, NEW Y, NEW list \in Seq(Y)
    PROVE  /\ CopiesOf(list) \in Seq(Copies) /\ Len(CopiesOf(list)) = Len(list)
           /\ \A i \in 1..Len(list) : CopiesOf(list)[i] = CopyOf(list[i])
  <1>1. DOMAIN list = 1..Len(list) /\ Len(list) \in Nat
    OBVIOUS
  <1>2. \A i \in 1..Len(list) : CopyOf(list[i]) \in Copies
    BY CopyFacts
  <1>. QED
    BY <1>1, <1>2 DEF CopiesOf

\* The copies of a list of contacts that were read.
LEMMA ReadCopies ==
    ASSUME KnownFromStart, CacheHolds, NEW list \in Seq(Contact), Distinct(list),
           fetch.sorting => Ascending(list), \A c : Pending(c, list) => c \in DOMAIN fetch.cache
    PROVE  /\ Distinct(CopiesOf(list))
           /\ fetch.sorting => Rising(CopiesOf(list))
           /\ \A x : Pending(x, CopiesOf(list)) <=> \E c : Pending(c, list) /\ x = CopyOf(c)
  <1>. DEFINE n == Len(list)
              copies == CopiesOf(list)
  <1>1. Len(copies) = n /\ \A i \in 1..n : copies[i] = CopyOf(list[i])
    BY CopiesFacts
  <1>2. \A i \in 1..n : list[i] \in DOMAIN fetch.cache
    BY DEF Pending
  <1>3. \A i \in 1..n : copies[i].id = list[i] /\ copies[i].key = fetch.start[list[i]]
    BY <1>1, <1>2, CopyFacts
  <1>. HIDE DEF copies
  <1>4. Distinct(copies)
    BY <1>1, <1>3 DEF Distinct
  <1>5. fetch.sorting => Rising(copies)
    BY <1>1, <1>3 DEF Ascending, Rising
  <1>6. \A x : Pending(x, copies) <=> \E c : Pending(c, list) /\ x = CopyOf(c)
    BY <1>1 DEF Pending
  <1>. QED
    BY <1>4, <1>5, <1>6 DEF copies

\* The merged lists answer the call.
LEMMA MergedAnswer ==
    ASSUME KnownFromStart, fetch.call \in Calls, CacheHolds, ListsHold, fetch.schema = 3,
           NEW all, Merged(Copies, all, CopiesOf(fetch.lists[1]), CopiesOf(fetch.lists[2]))
    PROVE  Answers([i \in 1..Len(all) |-> all[i].id])
  <1>. DEFINE l1 == fetch.lists[1]
              l2 == fetch.lists[2]
              known == DOMAIN fetch.cache
              list == [i \in 1..Len(all) |-> all[i].id]
              n == Len(all)
              limit == fetch.call.limit
  <1>1. /\ fetch.lists \in Seq(Seq(Contact)) /\ Len(fetch.lists) = 2
        /\ 1 \in 1..Len(fetch.lists) /\ 2 \in 1..Len(fetch.lists)
        /\ \A k \in 1..Len(fetch.lists) : k = 1 \/ k = 2
    BY DEF ListsHold
  <1>2. /\ l1 \in Seq(Contact) /\ Distinct(l1) /\ (fetch.sorting => Ascending(l1))
        /\ l2 \in Seq(Contact) /\ Distinct(l2) /\ (fetch.sorting => Ascending(l2))
    BY <1>1 DEF ListsHold
  <1>3. \A c : c \in known <=> Pending(c, l1) \/ Pending(c, l2)
    BY <1>1 DEF ListsHold
  <1>4. \A c : ~(Pending(c, l1) /\ Pending(c, l2))
    BY <1>1 DEF ListsHold
  <1>5. limit \in Int /\ fetch.sorting = fetch.call.sorting /\ IsFiniteSet(known)
    BY CallFacts DEF ListsHold, CacheHolds
  <1>. HIDE DEF l1, l2, known
  <1>6. /\ Distinct(CopiesOf(l1)) /\ (fetch.sorting => Rising(CopiesOf(l1)))
        /\ \A x : Pending(x, CopiesOf(l1)) <=> \E c : Pending(c, l1) /\ x = CopyOf(c)
    BY <1>2, <1>3, ReadCopies DEF known
  <1>7. /\ Distinct(CopiesOf(l2)) /\ (fetch.sorting => Rising(CopiesOf(l2)))
        /\ \A x : Pending(x, CopiesOf(l2)) <=> \E c : Pending(c, l2) /\ x = CopyOf(c)
    BY <1>2, <1>3, ReadCopies DEF known
  <1>8. \A c \in known : c \in Contact /\ c \in AtStart /\ CopyOf(c).id = c /\ CopyOf(c).key = fetch.start[c]
    BY CopyFacts DEF known
  <1>9. Apart(CopiesOf(l1), CopiesOf(l2))
    <2>. SUFFICES ASSUME NEW x, Pending(x, CopiesOf(l1)), Pending(x, CopiesOf(l2)) PROVE FALSE
      BY DEF Apart, Pending
    <2>1. PICK c : Pending(c, l1) /\ x = CopyOf(c)
      BY <1>6
    <2>2. PICK d : Pending(d, l2) /\ x = CopyOf(d)
      BY <1>7
    <2>3. c \in known /\ d \in known /\ CopyOf(c) = CopyOf(d)
      BY <1>3, <2>1, <2>2
    <2>4. CopyOf(c).id = c /\ CopyOf(d).id = d
      BY <1>8, <2>3
    <2>5. c = d
      BY <2>3, <2>4
    <2>. QED
      BY <1>4, <2>1, <2>2, <2>5
  <1>10. /\ all \in Seq(Copies) /\ Distinct(all) /\ (fetch.sorting => Rising(all))
         /\ \A x : Pending(x, all) <=> Pending(x, CopiesOf(l1)) \/ Pending(x, CopiesOf(l2))
    BY <1>6, <1>7, <1>9 DEF Merged, l1, l2
  <1>11. \A x : Pending(x, all) <=> \E c \in known : x = CopyOf(c)
    BY <1>3, <1>6, <1>7, <1>10
  <1>12. n \in Nat
    BY <1>10
  <1>. HIDE DEF n
  <1>13. ASSUME NEW i \in 1..n
         PROVE  list[i] \in known /\ all[i] = CopyOf(list[i]) /\ list[i] = all[i].id
    <2>1. Pending(all[i], all)
      BY DEF Pending, n
    <2>2. PICK c \in known : all[i] = CopyOf(c)
      BY <1>11, <2>1
    <2>. QED
      BY <1>8, <2>2 DEF n
  <1>14. list \in Seq(known) /\ Len(list) = n
    BY <1>12, <1>13 DEF n
  <1>. HIDE DEF list
  <1>15. Distinct(list)
    BY <1>10, <1>13, <1>14 DEF Distinct, n
  <1>16. fetch.sorting => Ascending(list)
    BY <1>8, <1>10, <1>13, <1>14 DEF Ascending, Rising, n
  <1>17. \A c : Pending(c, list) <=> c \in known
    <2>1. ASSUME NEW c \in known PROVE Pending(c, list)
      <3>1. PICK i \in 1..n : all[i] = CopyOf(c)
        BY <1>11 DEF Pending, n
      <3>2. list[i] = c
        BY <1>8, <1>13, <3>1
      <3>. QED
        BY <1>14, <3>2 DEF Pending
    <2>2. ASSUME NEW c, Pending(c, list) PROVE c \in known
      BY <1>13, <1>14, <2>2 DEF Pending
    <2>. QED
      BY <2>1, <2>2
  <1>18. Cardinality(known) = n
    <2>1. ToSet(list) = known
      BY <1>14, <1>17, SequenceElements
    <2>. QED
      BY <1>14, <1>15, <2>1, DistinctCard
  <1>19. Limited => n <= limit /\ (fetch.sorting => fetch.fellBack)
    BY <1>18 DEF ListsHold, known
  <1>20. ASSUME NEW c \in StillThere, ~Pending(c, list)
         PROVE  Limited /\ n = limit /\ ~(fetch.sorting /\ ~fetch.fellBack)
    <2>1. IsRead(c)
      BY DEF StillThere, IsRead
    <2>2. ~(~Limited \/ Cardinality(known) < limit)
      BY <1>17, <1>20, <2>1 DEF ListsHold, known
    <2>. QED
      BY <1>5, <1>12, <1>18, <1>19, <2>2
  <1>21. list \in Seq(Contact)
    BY <1>8, <1>14
  <1>22. \A i \in 1..Len(list) : list[i] \in AtStart
    BY <1>8, <1>13, <1>14
  <1>23. Answers(list)
    BY <1>5, <1>14, <1>15, <1>16, <1>19, <1>20, <1>21, <1>22 DEF Answers
  <1>. QED
    BY <1>23 DEF list

\* The ids that were known before, or the merged lists, answer the call.
LEMMA ProcessContactsStep ==
    ASSUME FetchHolds, ProcessContacts
    PROVE  FetchHolds'
  <1>1. /\ fetch.pc = "process" /\ StoreHolds /\ FetchFields /\ fetch.call \in Calls
        /\ KnownFromStart /\ store' = store /\ fetch.call.kind # "byId"
    BY DEF ProcessContacts, FetchHolds
  <1>2. PICK order \in SetToSeqs(DOMAIN fetch.lists) :
            fetch' = [fetch EXCEPT !.contacts = AllLists(order), !.pc = "report"]
    BY DEF ProcessContacts, AllLists
  <1>3. /\ FetchFields' /\ SameCall /\ fetch'.pc = "report" /\ fetch'.contacts = AllLists(order)
        /\ fetch'.presorted = fetch.presorted /\ fetch'.fellBack = fetch.fellBack
        /\ fetch'.error = fetch.error /\ fetch'.canceled = fetch.canceled
    BY <1>1, <1>2 DEF FetchFields, SameCall
  <1>4. ASSUME ~fetch.canceled PROVE ResultHolds'
    <2>1. ReadingHolds /\ CacheHolds /\ fetch.schema = 3
      BY <1>1, <1>4 DEF FetchHolds, ReadingHolds
    <2>2. Keyed(Copies)
      BY <1>1, <2>1, CopyFacts
    <2>3. CASE fetch.presorted
      <3>. DEFINE ids == fetch.ids
                  copies == CopiesOf(ids)
      <3>1. PresortedHolds /\ Answers(ids) /\ fetch.lists = <<ids>> /\ ids \in Seq(Contact)
        BY <2>1, <2>3 DEF ReadingHolds, PresortedHolds, Answers
      <3>2. /\ copies \in Seq(Copies) /\ Len(copies) = Len(ids)
            /\ \A i \in 1..Len(ids) : copies[i] = CopyOf(ids[i])
        BY <1>1, <2>1, <3>1, CopiesFacts
      <3>3. ListsOf(Copies)
        <4>1. DOMAIN fetch.lists = {1} /\ fetch.lists[1] = ids
          BY <3>1
        <4>. QED
          BY <3>2, <4>1 DEF ListsOf
      <3>4. fetch'.contacts = copies
        BY <1>2, <1>3, <2>2, <3>1, <3>3, OneList
      <3>5. ASSUME NEW i \in 1..Len(ids)
            PROVE  \/ copies[i].id = ids[i]
                   \/ copies[i].id = Zero /\ ~Exists(store, ids[i])
        <4>1. CASE ids[i] \in DOMAIN fetch.cache
          BY <1>1, <2>1, <3>2, <4>1, CopyFacts
        <4>2. CASE ids[i] \notin DOMAIN fetch.cache
          <5>1. Pending(ids[i], ids)
            BY DEF Pending
          <5>2. ~IsRead(ids[i])
            BY <3>1, <4>2, <5>1 DEF PresortedHolds
          <5>3. ~Exists(store, ids[i])
            BY <2>1, <5>2 DEF IsRead
          <5>. QED
            BY <1>1, <2>1, <3>2, <4>2, <5>3, CopyFacts
        <4>. QED
          BY <4>1, <4>2
      <3>. HIDE DEF ids, copies
      <3>. QED
        BY <1>1, <1>3, <2>3, <3>1, <3>2, <3>4, <3>5, AnswerGiven
    <2>4. CASE ~fetch.presorted
      <3>. DEFINE all == AllLists(order)
                  list == [i \in 1..Len(all) |-> all[i].id]
      <3>1. ListsHold /\ fetch.lists \in Seq(Seq(Contact)) /\ Len(fetch.lists) = 2
        <4>1. ListsHold
          BY <2>1, <2>4 DEF ReadingHolds
        <4>. QED
          BY <2>1, <4>1 DEF ListsHold
      <3>2. DOMAIN fetch.lists = 1..2 /\ \A k \in 1..2 : fetch.lists[k] \in Seq(Contact)
        BY <3>1
      <3>3. ListsOf(Copies)
        BY <1>1, <2>1, <3>2, CopiesFacts DEF ListsOf
      <3>4. Merged(Copies, all, CopiesOf(fetch.lists[1]), CopiesOf(fetch.lists[2]))
        BY <1>2, <2>2, <3>2, <3>3, TwoLists
      <3>. HIDE DEF all
      <3>5. Answers(list)
        BY <1>1, <2>1, <3>1, <3>4, MergedAnswer
      <3>6. all \in Seq(Copies)
        BY <3>4 DEF Merged
      <3>7. Len(all) = Len(list) /\ \A i \in 1..Len(list) : all[i].id = list[i]
        BY <3>6
      <3>8. fetch'.contacts = all
        BY <1>3 DEF all
      <3>. HIDE DEF list
      <3>. QED
        BY <1>1, <1>3, <3>5, <3>6, <3>7, <3>8, AnswerGiven
    <2>. QED
      BY <2>3, <2>4
  <1>. QED
    BY <1>1, <1>3, <1>4, SameCallFacts DEF FetchHolds, SameCall

\* The contacts by id are at the positions of their ids.
LEMMA ProcessByIdStep ==
    ASSUME FetchHolds, ProcessById
    PROVE  FetchHolds'
  <1>. DEFINE ids == fetch.call.ids
  <1>1. /\ fetch.pc = "process" /\ StoreHolds /\ FetchFields /\ fetch.call \in Calls
        /\ KnownFromStart /\ store' = store /\ fetch.call.kind = "byId"
    BY DEF ProcessById, FetchHolds
  <1>2. /\ FetchFields' /\ SameCall /\ fetch'.pc = "report" /\ fetch'.contacts = CopiesOf(ids)
        /\ fetch'.errors = MissingPositions
        /\ fetch'.error = IF MissingPositions = {} THEN "none" ELSE "doesNotExist"
        /\ fetch'.canceled = fetch.canceled
    BY <1>1 DEF ProcessById, FetchFields, SameCall
  <1>3. ids \in Seq(Contact \cup {Zero}) /\ ~fetch.call.sorting
    BY <1>1, CallFacts
  <1>4. ASSUME ~fetch.canceled PROVE ByIdHolds'
    <2>1. ReadingHolds /\ CacheHolds /\ fetch.schema = 3
      BY <1>1, <1>4 DEF FetchHolds, ReadingHolds
    <2>2. ListsHold
      BY <1>3, <2>1 DEF ReadingHolds, PresortedHolds
    <2>3. /\ Len(CopiesOf(ids)) = Len(ids) /\ DOMAIN ids = 1..Len(ids)
          /\ \A i \in 1..Len(ids) : CopiesOf(ids)[i] = CopyOf(ids[i])
      BY <1>1, <1>3, <2>1, CopiesFacts
    <2>4. \A i : i \in MissingPositions <=> i \in DOMAIN ids /\ ids[i] \notin DOMAIN fetch.cache
      BY DEF MissingPositions
    <2>5. ASSUME NEW i \in DOMAIN ids
          PROVE  /\ CopiesOf(ids)[i].id = (IF i \in MissingPositions THEN Zero ELSE ids[i])
                 /\ i \notin MissingPositions => ids[i] \in AtStart
      BY <1>1, <2>1, <2>3, <2>4, CopyFacts
    <2>6. ASSUME NEW i \in DOMAIN ids, ~Limited, ids[i] \in StillThere
          PROVE  i \notin MissingPositions
      <3>1. IsRead(ids[i])
        BY <2>1, <2>6 DEF StillThere, IsRead
      <3>. QED
        BY <2>2, <2>4, <2>6, <3>1 DEF ListsHold
    <2>7. /\ fetch'.call.ids = ids /\ AtStart' = AtStart /\ StillThere' = StillThere
          /\ (Limited' <=> Limited)
      BY <1>2, SameCallFacts DEF SameCall
    <2>. HIDE DEF ids
    <2>8. fetch'.error = "none" <=> fetch'.errors = {}
      BY <1>2
    <2>. QED
      BY <1>2, <2>3, <2>5, <2>6, <2>7, <2>8 DEF ByIdHolds
  <1>. QED
    BY <1>1, <1>2, <1>4, SameCallFacts DEF FetchHolds, SameCall

\* Contacts are sorted by numbers.
LEMMA KeyIsNumber ==
    ASSUME StoreHolds, NEW c
    PROVE  Key(store, c) \in Int
  <1>. DEFINE T == Values(store, c, "nickname")
  <1>1. \A k \in T : k \in Int
    BY DEF Values, StoreHolds
  <1>2. Key(store, c) = IF T = {} THEN 0 ELSE CHOOSE k \in T : TRUE
    BY DEF Key
  <1>. HIDE DEF T
  <1>3. CASE T = {}
    BY <1>2, <1>3
  <1>4. CASE T # {}
    <2>1. (CHOOSE k \in T : TRUE) \in T
      BY <1>4
    <2>. QED
      BY <1>1, <1>2, <1>4, <2>1
  <1>. QED
    BY <1>3, <1>4

\* A request starts: nothing is read, and everybody is known who is there.
LEMMA AskFetchStep ==
    ASSUME FetchHolds, AskFetch
    PROVE  FetchHolds'
  <1>. DEFINE known == OfSchema(store, "contact") \cup OfSchema(store, "group")
  <1>1. PICK call \in Calls :
            fetch' = [fetch EXCEPT
               !.pc = IF call.kind = "ids" THEN "ids" ELSE "begin", !.call = call,
               !.all = call.all, !.ids = call.ids, !.sorting = call.sorting,
               !.start = [c \in known |-> Key(store, c)]]
    BY DEF AskFetch
  <1>2. fetch = NoFetch /\ StoreHolds /\ store' = store /\ FetchFields
    BY DEF AskFetch, FetchHolds
  <1>3. \A c : c \in known <=> Exists(store, c)
    BY DEF OfSchema, Exists
  <1>4. \A c : Exists(store, c) => c \in Contact
    BY <1>2 DEF StoreHolds, Exists
  <1>. HIDE DEF known
  <1>5. /\ FetchFields' /\ fetch'.pc = (IF call.kind = "ids" THEN "ids" ELSE "begin")
        /\ fetch'.call = call /\ fetch'.start = [c \in known |-> Key(store, c)]
        /\ fetch'.all = call.all /\ fetch'.ids = call.ids /\ fetch'.sorting = call.sorting
    BY <1>1, <1>2 DEF FetchFields
  <1>6. /\ ~fetch'.presorted /\ ~fetch'.fellBack /\ fetch'.schema = 1
        /\ fetch'.cache = << >> /\ fetch'.lists = << >> /\ fetch'.error = "none"
    BY <1>1, <1>2 DEF NoFetch
  <1>7. KnownFromStart'
    BY <1>2, <1>3, <1>4, <1>5, KeyIsNumber DEF KnownFromStart
  <1>8. NothingRead'
    BY <1>5, <1>6 DEF NothingRead
  <1>9. StoreHolds'
    BY <1>2 DEF StoreHolds
  <1>. QED
    BY <1>5, <1>7, <1>8, <1>9 DEF FetchHolds

\* The answer is given as it is: no limit is exceeded at the end.
LEMMA ReportStep ==
    ASSUME FetchHolds, Report
    PROVE  FetchHolds'
  <1>1. /\ fetch.pc = "report" /\ StoreHolds /\ FetchFields /\ fetch.call \in Calls
        /\ KnownFromStart /\ store' = store
    BY DEF Report, FetchHolds
  <1>2. /\ FetchFields' /\ SameCall /\ fetch'.pc = "done"
        /\ fetch'.contacts = (IF fetch.canceled THEN << >> ELSE Answer)
        /\ fetch'.error = (IF fetch.canceled THEN "canceled" ELSE AnswerError)
        /\ fetch'.canceled = fetch.canceled /\ fetch'.presorted = fetch.presorted
        /\ fetch'.fellBack = fetch.fellBack /\ fetch'.errors = fetch.errors
    BY <1>1 DEF Report, FetchFields, SameCall
  <1>3. ASSUME ~fetch.canceled, fetch.call.kind # "byId", fetch'.error = "none"
        PROVE  ResultHolds'
    <2>1. fetch.error = "none"
      BY <1>2, <1>3 DEF AnswerError
    <2>2. ResultHolds
      BY <1>1, <1>3, <2>1 DEF FetchHolds
    <2>3. PICK X : fetch.contacts \in Seq(X)
      BY <2>2 DEF ResultHolds
    <2>4. fetch.call.limit \in Int /\ Len(fetch.contacts) \in Nat
      BY <1>1, <2>3, CallFacts
    <2>5. Top(fetch.call.limit, fetch.contacts) = fetch.contacts
      BY <2>2, <2>4 DEF Top, ResultHolds, Limited
    <2>6. fetch.call.kind = "contact" => Top(1, fetch.contacts) = fetch.contacts
      BY <2>2, <2>4 DEF Top, ResultHolds
    <2>7. fetch'.contacts = fetch.contacts
      BY <1>2, <1>3, <2>5, <2>6 DEF Answer
    <2>8. /\ FetchedIds' = FetchedIds /\ AtStart' = AtStart /\ StillThere' = StillThere
          /\ (Limited' <=> Limited) /\ fetch'.call = fetch.call /\ fetch'.start = fetch.start
      BY <1>2, <2>7, SameCallFacts DEF SameCall, FetchedIds
    <2>9. FirstOnes => FirstOnes'
      BY <2>8 DEF FirstOnes
    <2>10. \A i, j : InOrderOfStart(i, j) => InOrderOfStart(i, j)'
      BY <2>7, <2>8 DEF InOrderOfStart
    <2>. QED
      BY <1>2, <2>2, <2>7, <2>8, <2>9, <2>10 DEF ResultHolds
  <1>4. ASSUME ~fetch.canceled, fetch.call.kind = "byId", fetch'.error \in {"none", "doesNotExist"}
        PROVE  ByIdHolds'
    <2>1. fetch'.error = fetch.error /\ fetch'.contacts = fetch.contacts
      BY <1>2, <1>4 DEF Answer, AnswerError
    <2>2. ByIdHolds
      BY <1>1, <1>4, <2>1 DEF FetchHolds
    <2>3. /\ AtStart' = AtStart /\ StillThere' = StillThere
          /\ (Limited' <=> Limited) /\ fetch'.call = fetch.call
      BY <1>2, SameCallFacts DEF SameCall
    <2>. QED
      BY <1>2, <2>1, <2>2, <2>3 DEF ByIdHolds
  <1>. QED
    BY <1>1, <1>2, <1>3, <1>4, SameCallFacts DEF FetchHolds, SameCall

\* The steps that read nothing.
LEMMA WaitingSteps ==
    ASSUME FetchHolds, CancelFetch \/ IdsCanceled \/ IdsRejected \/ IdsEmulated \/ Begin
                           \/ PreliminaryFails \/ ReadFails
    PROVE  FetchHolds'
  <1>1. /\ fetch.pc \notin {"idle", "done"} /\ StoreHolds /\ FetchFields /\ fetch.call \in Calls
        /\ KnownFromStart /\ store' = store
    BY DEF CancelFetch, IdsCanceled, IdsRejected, IdsEmulated, Begin, PreliminaryFails, ReadFails,
           FetchHolds
  <1>2. CASE CancelFetch
    <2>1. /\ FetchFields' /\ SameCall /\ fetch'.pc = fetch.pc /\ fetch'.canceled
          /\ fetch'.all = fetch.all /\ fetch'.ids = fetch.ids /\ fetch'.sorting = fetch.sorting
          /\ fetch'.presorted = fetch.presorted /\ fetch'.fellBack = fetch.fellBack
          /\ fetch'.schema = fetch.schema /\ fetch'.cache = fetch.cache
          /\ fetch'.lists = fetch.lists /\ fetch'.error = fetch.error
      BY <1>1, <1>2 DEF CancelFetch, FetchFields, SameCall
    <2>2. NothingRead => NothingRead'
      BY <2>1 DEF NothingRead, SameCall
    <2>3. Limited => Limited'
      BY <2>1, SameCallFacts
    <2>. QED
      BY <1>1, <2>1, <2>2, <2>3, SameCallFacts DEF FetchHolds, SameCall
  <1>3. CASE IdsCanceled
    <2>1. FetchFields' /\ SameCall /\ fetch'.pc = "report" /\ fetch'.canceled
      BY <1>1, <1>3 DEF IdsCanceled, FetchFields, SameCall
    <2>. QED
      BY <1>1, <2>1, SameCallFacts DEF FetchHolds, SameCall
  <1>4. CASE IdsRejected \/ ReadFails
    <2>1. /\ FetchFields' /\ SameCall /\ fetch'.pc = "report"
          /\ fetch'.error \in {"badArgument", "query"} /\ fetch'.canceled = fetch.canceled
      BY <1>1, <1>4 DEF IdsRejected, ReadFails, FailWith, FetchFields, SameCall
    <2>. QED
      BY <1>1, <2>1, SameCallFacts DEF FetchHolds, SameCall
  <1>5. CASE IdsEmulated \/ Begin \/ PreliminaryFails
    <2>1. NothingRead /\ (fetch.pc = "preliminary" => Limited /\ fetch.sorting)
      BY <1>5 DEF IdsEmulated, Begin, PreliminaryFails, FetchHolds
    <2>2. /\ FetchFields' /\ SameCall /\ fetch'.canceled = fetch.canceled
          /\ fetch'.all = fetch.all /\ fetch'.ids = fetch.ids /\ fetch'.sorting = fetch.sorting
          /\ fetch'.presorted = fetch.presorted
          /\ fetch'.schema = fetch.schema /\ fetch'.cache = fetch.cache
          /\ fetch'.lists = fetch.lists /\ fetch'.error = fetch.error
      BY <1>1, <1>5 DEF IdsEmulated, Begin, PreliminaryFails, FetchFields, SameCall
    <2>3. CASE fetch'.pc = "read"
      <3>1. Limited /\ fetch.sorting => fetch'.fellBack
        BY <1>1, <1>5, <2>3 DEF IdsEmulated, Begin, PreliminaryFails, FetchFields
      <3>2. ReadingHolds'
        BY <1>1, <2>1, <2>2, <2>3, <3>1, ReadingStarts
      <3>. QED
        BY <1>1, <2>2, <2>3, <3>2, SameCallFacts DEF FetchHolds, SameCall
    <2>4. CASE fetch'.pc # "read"
      <3>1. /\ fetch'.fellBack = fetch.fellBack
            /\ \/ fetch'.pc = "begin"
               \/ fetch'.pc = "preliminary" /\ Limited /\ fetch.sorting
        BY <1>1, <1>5, <2>4 DEF IdsEmulated, Begin, PreliminaryFails, FetchFields
      <3>2. NothingRead'
        BY <2>1, <2>2, <3>1 DEF NothingRead, SameCall
      <3>. QED
        BY <1>1, <2>2, <3>1, <3>2, SameCallFacts DEF FetchHolds, SameCall
    <2>. QED
      BY <2>3, <2>4
  <1>. QED
    BY <1>2, <1>3, <1>4, <1>5

\* Every step of a fetch request keeps the invariant.
LEMMA FetchSteps ==
    ASSUME FetchHolds, FetchNext
    PROVE  FetchHolds'
  BY AskFetchStep, WaitingSteps, IdsNativeStep, PreliminaryIdsStep, ReadSchemaStep,
     ProcessContactsStep, ProcessByIdStep, ReportStep DEF FetchNext

\* The inductive invariant, of all requests.
FetchesHold ==
    /\ "fetch" \in requests => requests \cap {"merge", "unmerge"} = {} /\ FetchHolds
    /\ "fetch" \notin requests => fetch = NoFetch

\* There is no request at first.
LEMMA FetchesInit == OnlyReads /\ Init => FetchesHold
  <1>. SUFFICES ASSUME OnlyReads, Init, "fetch" \in requests
                PROVE  requests \cap {"merge", "unmerge"} = {} /\ FetchHolds
    BY DEF Init, FetchesHold
  <1>1. requests \cap {"merge", "unmerge"} = {} /\ StoreHolds
    BY ScenarioAssumption DEF Init, OnlyReads, StoreHolds
  <1>2. fetch = NoFetch
    BY DEF Init
  <1>3. FetchFields /\ fetch.pc = "idle"
    BY <1>2 DEF NoFetch, FetchFields
  <1>. QED
    BY <1>1, <1>2, <1>3 DEF FetchHolds

\* Every step of the system keeps the invariant.
LEMMA FetchesNext == FetchesHold /\ [Next]_vars => FetchesHold'
  <1>. SUFFICES ASSUME FetchesHold, [Next]_vars PROVE FetchesHold'
    OBVIOUS
  <1>1. requests' = requests
    BY DEF Next, RunMerge, RunUnmerge, EditRelations, RemoveElsewhere, Fetch, vars
  <1>2. CASE "fetch" \notin requests
    <2>1. fetch' = fetch
      BY <1>2 DEF Next, RunMerge, RunUnmerge, EditRelations, RemoveElsewhere, Fetch, vars
    <2>. QED
      BY <1>1, <1>2, <2>1 DEF FetchesHold
  <1>3. CASE "fetch" \in requests
    <2>1. requests \cap {"merge", "unmerge"} = {} /\ FetchHolds /\ StoreHolds
      BY <1>3 DEF FetchesHold, FetchHolds
    <2>2. ASSUME UNCHANGED <<store, fetch>> PROVE FetchHolds'
      <3>1. SameContacts
        BY <2>1, <2>2 DEF SameContacts, StoreHolds
      <3>. QED
        BY <2>1, <2>2, <3>1, OthersKeepFetch
    <2>3. FetchHolds'
      <3>1. CASE Fetch
        BY <2>1, <3>1, FetchSteps DEF Fetch
      <3>2. CASE EditRelations
        BY <2>1, <3>2, RelationsSpare, OthersKeepFetch DEF EditRelations
      <3>3. CASE RemoveElsewhere
        <4>1. fetch' = fetch
          BY <3>3 DEF RemoveElsewhere
        <4>2. store' = store \/ \E gone : store' = DeleteResources(store, gone)
          BY <3>3 DEF RemoveElsewhere, RemovalNext, AskRemoval, SelfUnknown, KeepSelf,
                      RemoveChunk, ChunkFails
        <4>. QED
          BY <2>1, <2>2, <4>1, <4>2, RemovalSpares, OthersKeepFetch
      <3>4. CASE UNCHANGED vars
        BY <2>2, <3>4 DEF vars
      <3>5. ~RunMerge /\ ~RunUnmerge
        BY <2>1 DEF RunMerge, RunUnmerge
      <3>. QED
        BY <3>1, <3>2, <3>3, <3>4, <3>5 DEF Next
    <2>. QED
      BY <1>1, <1>3, <2>1, <2>3 DEF FetchesHold
  <1>. QED
    BY <1>2, <1>3

\* The invariant gives the four properties.
LEMMA FetchesHoldAll ==
    FetchesHold => FetchIsExact /\ OrderIsKept /\ LimitIsKept /\ ByPosition
  <1>1. fetch = NoFetch => fetch.pc = "idle"
    BY DEF NoFetch
  <1>. QED
    BY <1>1, FetchHoldsAll
    DEF FetchesHold, FetchIsExact, OrderIsKept, LimitIsKept, ByPosition, Answered

\* The invariant of fetch requests holds in every state.
LEMMA FetchesAlwaysHold == OnlyReads /\ Spec => []FetchesHold
  <1>. SUFFICES ASSUME OnlyReads PROVE Spec => []FetchesHold
    OBVIOUS
  <1>1. Init => FetchesHold
    BY FetchesInit
  <1>2. FetchesHold /\ [Next]_vars => FetchesHold'
    BY FetchesNext
  <1>. QED
    BY <1>1, <1>2, PTL DEF Spec

\* A request for contacts or ids gives each one once, none that is not there, and all that
\* match, for any number of contacts and whatever other engines remove between its queries
\* (abstractcontactfetchrequest.cpp).
THEOREM FetchesAreExact == OnlyReads /\ Spec => []FetchIsExact
  BY FetchesAlwaysHold, FetchesHoldAll, PTL

\* The contacts of a sorted request are in order, whether the store sorted them, they were
\* sorted in memory, or the lists of the schemas were merged.
THEOREM OrderAlwaysKept == OnlyReads /\ Spec => []OrderIsKept
  BY FetchesAlwaysHold, FetchesHoldAll, PTL

\* A limit is never exceeded and leaves no room for somebody who matches, and the limited
\* and sorted request gives the first ones, unless it fell back
\* (abstractcontactfetchrequest.cpp:1131, 1392).
THEOREM LimitAlwaysKept == OnlyReads /\ Spec => []LimitIsKept
  BY FetchesAlwaysHold, FetchesHoldAll, PTL

\* The contacts of a request by id, and its errors, are at the positions of the ids, for
\* every list of ids and whatever is removed meanwhile (contactfetchbyidrequest.cpp:64).
THEOREM PositionsAreRight == OnlyReads /\ Spec => []ByPosition
  BY FetchesAlwaysHold, FetchesHoldAll, PTL

-----------------------------------------------------------------------------
(* What unmerging keeps. *)

\* Whether a store states something, in whatever graph.
Says(db, s, p, o) == \E q \in db : q.s = s /\ q.p = p /\ q.o = o

\* What is inserted is stated, if in another graph.
LEMMA InsertSays ==
    ASSUME NEW db, NEW new, NEW q \in new
    PROVE  Says(Insert(db, new), q.s, q.p, q.o)
  BY DEF Says, Insert, Values

\* A contact has an address by two statements.
LEMMA ReachesSays ==
    ASSUME NEW db, NEW c, NEW a
    PROVE  Reaches(db, c, a) <=> \E x : Says(db, c, "affiliation", x) /\ Says(db, x, "address", a)
  BY DEF Reaches, Says, Values

\* The affiliations that were noted for an account.
Affs(a) == {l.affiliation : l \in unmerge.affiliations[a]}

\* Where an account is split off: not to the contact it was of.
SplitsApart(n) ==
    /\ NewContact[n] # unmerge.source /\ NewAffiliation[n] # unmerge.source
    /\ NewAffiliation[n] \notin Affs(unmerge.accounts[n])

\* What splitting an account off leaves, moves and adds, statement by statement.
LEMMA SplitSays ==
    ASSUME NEW S, NEW P, NEW O, NEW G, UnmergeData(S, P, O, G), UnmergeReads,
           NEW db \in SUBSET Quads(S, P, O, G), NEW n \in DOMAIN unmerge.accounts, SplitsApart(n),
           \A q \in db : q.p = "address" => q.s # unmerge.source
    PROVE  LET account == unmerge.accounts[n]
               after == SplitOff(db, n)
           IN  /\ \A c, p, o : /\ Says(db, c, p, o) /\ c # unmerge.source
                               /\ ~(c \in Affs(account) /\ p = "address" /\ o = account)
                               => Says(after, c, p, o)
               /\ \A q \in db : /\ q.s = unmerge.source /\ q.p # "address"
                                /\ ~(Matches(db, account) /\ q \in Moving(db, account))
                                /\ ~(q.p = "affiliation" /\ q.o \in Affs(account))
                                => q \in after
               /\ Matches(db, account) =>
                      /\ \A q \in Moving(db, account) :
                            q.p # "address" => Says(after, NewContact[n], q.p, q.o)
                      /\ Exists(after, NewContact[n])
                      /\ Affs(account) # {} =>
                            /\ Says(after, NewContact[n], "affiliation", NewAffiliation[n])
                            /\ Says(after, NewAffiliation[n], "address", account)
               /\ \A q \in after : q.s = unmerge.source =>
                      q \in db /\ ~(q.p = "affiliation" /\ q.o \in Affs(account))
               /\ \A q \in after : q.p = "address" => q \in db \/ q.s = NewAffiliation[n]
  <1>. DEFINE account == unmerge.accounts[n]
              contact == NewContact[n]
              affiliation == NewAffiliation[n]
              class == {Quad(contact, "type", "contact", "qct")}
              copies == {[q EXCEPT !.s = contact] : q \in Moving(db, account)}
              links == UNION {{Quad(contact, "affiliation", affiliation, l.graph),
                               Quad(affiliation, "address", account, l.graph)} :
                                  l \in unmerge.affiliations[account]}
              new == NewStatements(db, account, contact, affiliation)
              added == IF ~Matches(db, account) THEN db ELSE Insert(db, new)
              whole == WithGenerator(added, contact)
              moved == IF Matches(db, account) THEN whole \ Moving(whole, account) ELSE whole
              after == SplitOff(db, n)
  <1>1. new = class \cup copies \cup links
    BY DEF NewStatements
  <1>2. after = moved \ Obsolete(moved, account)
    BY DEF SplitOff
  <1>3. contact # unmerge.source /\ affiliation # unmerge.source /\ affiliation \notin Affs(account)
    BY DEF SplitsApart
  <1>. HIDE DEF account, contact, affiliation, after
  <1>4. (\A q \in class : q.s = contact /\ q.p = "type") /\ \E q \in class : TRUE
    BY DEF Quad
  <1>5. /\ \A q \in copies : q.s = contact /\ q.p # "address"
        /\ \A q \in Moving(db, account) : \E x \in copies : x.s = contact /\ x.p = q.p /\ x.o = q.o
    <2>1. \A q \in Moving(db, account) : q \in Quads(S, P, O, G) /\ q.s = unmerge.source
      BY DEF Moving
    <2>2. \A q \in Moving(db, account) :
              /\ [q EXCEPT !.s = contact].s = contact
              /\ [q EXCEPT !.s = contact].p = q.p /\ [q EXCEPT !.s = contact].o = q.o
      BY <2>1 DEF Quads
    <2>3. \A q \in Moving(db, account) : q.p # "address"
      BY DEF Moving
    <2>4. \A x \in copies : \E q \in Moving(db, account) : x = [q EXCEPT !.s = contact]
      OBVIOUS
    <2>5. \A q \in Moving(db, account) : [q EXCEPT !.s = contact] \in copies
      OBVIOUS
    <2>. HIDE DEF copies
    <2>6. ASSUME NEW x \in copies PROVE x.s = contact /\ x.p # "address"
      <3>1. PICK q \in Moving(db, account) : x = [q EXCEPT !.s = contact]
        BY <2>4
      <3>. QED
        BY <2>2, <2>3, <3>1
    <2>7. ASSUME NEW q \in Moving(db, account)
          PROVE  \E x \in copies : x.s = contact /\ x.p = q.p /\ x.o = q.o
      <3>1. [q EXCEPT !.s = contact] \in copies
        BY <2>5
      <3>. QED
        BY <2>2, <3>1
    <2>. QED
      BY <2>6, <2>7
  <1>6. /\ \A q \in links : \/ q.s = contact /\ q.p = "affiliation"
                            \/ q.s = affiliation /\ q.p = "address" /\ q.o = account
        /\ Affs(account) # {} =>
              /\ \E q \in links : q.s = contact /\ q.p = "affiliation" /\ q.o = affiliation
              /\ \E q \in links : q.s = affiliation /\ q.p = "address" /\ q.o = account
    <2>1. ASSUME NEW l \in unmerge.affiliations[account]
          PROVE  /\ Quad(contact, "affiliation", affiliation, l.graph) \in links
                 /\ Quad(affiliation, "address", account, l.graph) \in links
      OBVIOUS
    <2>2. \A q \in links : \E l \in unmerge.affiliations[account] :
              \/ q = Quad(contact, "affiliation", affiliation, l.graph)
              \/ q = Quad(affiliation, "address", account, l.graph)
      OBVIOUS
    <2>3. Affs(account) # {} => \E l \in unmerge.affiliations[account] : TRUE
      BY DEF Affs
    <2>. HIDE DEF links
    <2>4. \A q \in links : \/ q.s = contact /\ q.p = "affiliation"
                           \/ q.s = affiliation /\ q.p = "address" /\ q.o = account
      BY <2>2 DEF Quad
    <2>. QED
      BY <2>1, <2>3, <2>4 DEF Quad
  <1>. HIDE DEF class, copies, links, new
  <1>7. /\ \A q \in db : q \in added
        /\ \A q \in added : \/ q \in db
                            \/ q.s = contact /\ q.p # "address"
                            \/ q.s = affiliation /\ q.p = "address"
    BY <1>1, <1>4, <1>5, <1>6 DEF Insert
  <1>8. Matches(db, account) =>
            /\ \A q \in Moving(db, account) : Says(added, contact, q.p, q.o)
            /\ Exists(added, contact)
            /\ Affs(account) # {} => /\ Says(added, contact, "affiliation", affiliation)
                                     /\ Says(added, affiliation, "address", account)
    <2>. SUFFICES ASSUME Matches(db, account)
                  PROVE  /\ \A q \in Moving(db, account) : Says(added, contact, q.p, q.o)
                         /\ Exists(added, contact)
                         /\ Affs(account) # {} => /\ Says(added, contact, "affiliation", affiliation)
                                                  /\ Says(added, affiliation, "address", account)
      OBVIOUS
    <2>1. added = Insert(db, new)
      OBVIOUS
    <2>2. \A q \in new : Says(added, q.s, q.p, q.o)
      BY <2>1, InsertSays
    <2>3. Exists(added, contact)
      <3>1. \E q \in new : q.s = contact /\ q.p = "type"
        BY <1>1, <1>4
      <3>. QED
        BY <2>2, <3>1 DEF Says, Exists
    <2>. HIDE DEF added
    <2>. QED
      BY <1>1, <1>5, <1>6, <2>2, <2>3
  <1>. HIDE DEF added
  <1>9. /\ \A q \in added : q \in whole
        /\ \A q \in whole : q \in added \/ (q.s = contact /\ q.p = "generator")
    BY DEF WithGenerator, Quad
  <1>. HIDE DEF whole
  <1>10. /\ \A q \in whole : /\ q.s # unmerge.source => q \in moved
                             /\ q \in Moving(whole, account) <=>
                                    q \in added /\ q \in db /\ q \in Moving(db, account)
         /\ \A q \in whole : q \in moved \/ (Matches(db, account) /\ q \in Moving(db, account))
         /\ \A q \in moved : q \in whole
    BY <1>3, <1>7, <1>9 DEF Moving
  <1>. HIDE DEF moved
  <1>11. /\ \A q \in moved : \/ q \in after
                             \/ q.s = unmerge.source /\ q.p = "affiliation" /\ q.o \in Affs(account)
                             \/ q.s \in Affs(account) /\ q.p = "address" /\ q.o = account
         /\ \A q \in after : /\ q \in moved
                             /\ ~(q.s = unmerge.source /\ q.p = "affiliation" /\ q.o \in Affs(account))
    BY <1>2 DEF Obsolete, Affs
  <1>12. ASSUME NEW c, NEW p, NEW o, Says(added, c, p, o), c # unmerge.source,
                ~(c \in Affs(account) /\ p = "address" /\ o = account)
         PROVE  Says(after, c, p, o)
    BY <1>9, <1>10, <1>11, <1>12 DEF Says
  <1>13. \A c, p, o : Says(db, c, p, o) => Says(added, c, p, o)
    BY <1>7 DEF Says
  <1>14. Exists(added, contact) => Exists(after, contact)
    <2>1. \A q \in added : q.s = contact /\ q.p = "type" => q \in after
      BY <1>3, <1>9, <1>10, <1>11
    <2>. QED
      BY <2>1 DEF Exists
  <1>15. \A q \in db : /\ q.s = unmerge.source /\ q.p # "address"
                       /\ ~(Matches(db, account) /\ q \in Moving(db, account))
                       /\ ~(q.p = "affiliation" /\ q.o \in Affs(account))
                       => q \in after
    BY <1>7, <1>9, <1>10, <1>11
  <1>16. \A q \in after : q.s = unmerge.source =>
             q \in db /\ ~(q.p = "affiliation" /\ q.o \in Affs(account))
    BY <1>3, <1>7, <1>9, <1>10, <1>11
  <1>17. \A q \in after : q.p = "address" => q \in db \/ q.s = affiliation
    BY <1>7, <1>9, <1>10, <1>11
  <1>18. Matches(db, account) =>
             /\ \A q \in Moving(db, account) : q.p # "address" => Says(after, contact, q.p, q.o)
             /\ Exists(after, contact)
             /\ Affs(account) # {} => /\ Says(after, contact, "affiliation", affiliation)
                                      /\ Says(after, affiliation, "address", account)
    <2>. SUFFICES ASSUME Matches(db, account)
                  PROVE  /\ \A q \in Moving(db, account) :
                                q.p # "address" => Says(after, contact, q.p, q.o)
                         /\ Affs(account) # {} => /\ Says(after, contact, "affiliation", affiliation)
                                                  /\ Says(after, affiliation, "address", account)
      BY <1>8, <1>14
    <2>. QED
      BY <1>3, <1>8, <1>12
  <1>. QED
    BY <1>12, <1>13, <1>15, <1>16, <1>17, <1>18 DEF account, contact, affiliation, after

\* The blank nodes that unmerging makes.
Blank == {NewAffiliation[n] : n \in UNION {DOMAIN u.accounts : u \in Unmerges}}

Linked(q, x) == q.p = "affiliation" /\ x.p = "address" /\ x.s = q.o

\* An affiliation is of one account, and one that is in the graph of an account
\* is of that account.
AccountsApart(db) ==
    /\ \A x \in db : x.p = "address" => x.s \notin Contact \cup Blank
    /\ \A x, y \in db : x.p = "address" /\ y.p = "address" /\ x.s = y.s => x.o = y.o
    /\ \A q \in db : q.p = "affiliation" => q.o \notin Blank
    /\ \A q, x \in db : Linked(q, x) /\ q.g \in Account => x.o = q.g

\* What was read is still so.
PredicatesRead ==
    unmerge.predicates = {[graph |-> q.g, predicate |-> q.p] :
        q \in {x \in store : x.s = unmerge.source /\ x.p # "type" /\ x.g # "none"}}

AffiliationsRead ==
    \A a \in Account : \A l \in unmerge.affiliations[a] :
        /\ Quad(unmerge.source, "affiliation", l.affiliation, l.graph) \in store
        /\ Quad(l.affiliation, "address", a, l.graph) \in store

SplitReady ==
    /\ unmerge.source \in Contact \ Made
    /\ Blank \cap Contact = {}
    /\ \A n \in DOMAIN unmerge.accounts : NewAffiliation[n] \in Blank
    /\ AccountsApart(store) /\ PredicatesRead /\ AffiliationsRead

\* The accounts that were split off, and what of them cannot get lost any more.
Done(k) == {unmerge.accounts[j] : j \in 1..k}

Safe(db, a) ==
    \E c \in {unmerge.source} \cup NewContacts : \E x :
        x \notin Affs(a) /\ Says(db, c, "affiliation", x) /\ Says(db, x, "address", a)

SplitSoFar(db, k) ==
    /\ \A q \in db : q.s = unmerge.source => q \in store
    /\ \A q \in db : q.p = "address" => q \in store \/ q.s \in Blank
    /\ \A q \in store : q.s = unmerge.source /\ q.g \in Account \ Done(k) => q \in db
    /\ \A a \in Account \ Done(k) : \A l \in unmerge.affiliations[a] :
          /\ Quad(unmerge.source, "affiliation", l.affiliation, l.graph) \in db
          /\ Says(db, l.affiliation, "address", a)
    /\ \A a \in Account :
          Reaches(store, unmerge.source, a) /\ (a \in Done(k) \/ Affs(a) = {}) => Safe(db, a)

\* A split touches only its own account.
LEMMA ReadyFacts ==
    ASSUME UnmergeReads, SplitReady
    PROVE  /\ \A n \in DOMAIN unmerge.accounts :
                 SplitsApart(n) /\ NewContact[n] \in NewContacts /\ unmerge.accounts[n] \in Account
           /\ \A a \in Account : \A x \in Affs(a) :
                 /\ x \notin Blank /\ x # unmerge.source
                 /\ \A y \in store : y.p = "address" /\ y.s = x => y.o = a
                 /\ \A q \in store : q.p = "affiliation" /\ q.o = x /\ q.g \in Account => q.g = a
  <1>1. ASSUME NEW a \in Account, NEW x \in Affs(a)
        PROVE  /\ x \notin Blank /\ x # unmerge.source
               /\ \A y \in store : y.p = "address" /\ y.s = x => y.o = a
               /\ \A q \in store : q.p = "affiliation" /\ q.o = x /\ q.g \in Account => q.g = a
    <2>1. PICK l \in unmerge.affiliations[a] : x = l.affiliation
      BY DEF Affs
    <2>2. PICK q \in store : q.p = "affiliation" /\ q.o = x
      BY <2>1 DEF SplitReady, AffiliationsRead, Quad
    <2>3. PICK y \in store : y.p = "address" /\ y.s = x /\ y.o = a
      BY <2>1 DEF SplitReady, AffiliationsRead, Quad
    <2>. QED
      BY <2>2, <2>3 DEF SplitReady, AccountsApart, Linked
  <1>2. ASSUME NEW n \in DOMAIN unmerge.accounts
        PROVE  SplitsApart(n) /\ NewContact[n] \in NewContacts /\ unmerge.accounts[n] \in Account
    <2>1. unmerge.accounts[n] \in Account
      BY DEF UnmergeReads
    <2>2. n \in DOMAIN NewContact
      BY UnmergeAssumption DEF UnmergeReads
    <2>3. NewContact[n] \in Made /\ NewContact[n] \in NewContacts
      BY <2>2 DEF Made, NewContacts
    <2>4. NewAffiliation[n] \in Blank
      BY DEF SplitReady
    <2>. QED
      BY <1>1, <2>1, <2>3, <2>4 DEF SplitsApart, SplitReady
  <1>. QED
    BY <1>1, <1>2

\* As long as an account was not split off, its graph is as it was read.
LEMMA SplitMatches ==
    ASSUME UnmergeReads, SplitReady, NEW k \in DOMAIN unmerge.accounts, NEW db,
           SplitSoFar(db, k - 1), unmerge.accounts[k] \notin Done(k - 1)
    PROVE  Matches(db, unmerge.accounts[k])
  <1>. DEFINE account == unmerge.accounts[k]
              src == unmerge.source
              read == {[graph |-> q.g, predicate |-> q.p] :
                          q \in {x \in store : x.s = src /\ x.p # "type" /\ x.g # "none"}}
  <1>0. account \in Account
    BY ReadyFacts
  <1>. SUFFICES ASSUME NEW p \in PredicatesIn(account)
                PROVE  \E q \in Moving(db, account) : q.p = p
    BY DEF Matches, Moving
  <1>1. [graph |-> account, predicate |-> p] \in unmerge.predicates
    <2>1. PICK y \in unmerge.predicates : y.graph = account /\ p = y.predicate
      BY DEF PredicatesIn
    <2>2. y \in read
      BY DEF SplitReady, PredicatesRead
    <2>3. y = [graph |-> y.graph, predicate |-> y.predicate]
      BY <2>2
    <2>. QED
      BY <2>1, <2>3
  <1>2. PICK q \in store : q.s = src /\ q.g = account /\ q.p = p
    <2>1. [graph |-> account, predicate |-> p] \in read
      BY <1>1 DEF SplitReady, PredicatesRead
    <2>2. PICK q \in store :
              q.s = src /\ [graph |-> account, predicate |-> p] = [graph |-> q.g, predicate |-> q.p]
      BY <2>1
    <2>. QED
      BY <2>2
  <1>3. q \in db
    BY <1>0, <1>2 DEF SplitSoFar
  <1>. QED
    BY <1>2, <1>3 DEF Moving

\* The next account keeps what is so after the ones before it.
LEMMA SplitKeeps ==
    ASSUME NEW S, NEW P, NEW O, NEW G, UnmergeData(S, P, O, G), UnmergeReads, SplitReady,
           NEW k \in DOMAIN unmerge.accounts,
           NEW db \in SUBSET Quads(S, P, O, G), SplitSoFar(db, k - 1)
    PROVE  SplitSoFar(SplitOff(db, k), k)
  <1>. DEFINE account == unmerge.accounts[k]
              contact == NewContact[k]
              affiliation == NewAffiliation[k]
              src == unmerge.source
              after == SplitOff(db, k)
  <1>1. /\ SplitsApart(k) /\ contact \in NewContacts /\ account \in Account
        /\ affiliation \in Blank /\ src \in Contact /\ src \notin Blank
        /\ contact # src /\ affiliation # src /\ affiliation \notin Affs(account)
    BY ReadyFacts DEF SplitsApart, SplitReady
  <1>2. \A a \in Account : \A x \in Affs(a) :
           /\ x \notin Blank /\ x # src
           /\ \A y \in store : y.p = "address" /\ y.s = x => y.o = a
           /\ \A q \in store : q.p = "affiliation" /\ q.o = x /\ q.g \in Account => q.g = a
    BY ReadyFacts
  <1>3. Done(k) = Done(k - 1) \cup {account}
    <2>1. k \in Nat /\ k >= 1
      BY DEF UnmergeReads
    <2>. QED
      BY <2>1 DEF Done
  <1>4. \A q \in db : q.p = "address" => q.s # src
    BY <1>1 DEF SplitSoFar, SplitReady, AccountsApart
  <1>5. /\ \A c, p, o : /\ Says(db, c, p, o) /\ c # src
                        /\ ~(c \in Affs(account) /\ p = "address" /\ o = account)
                        => Says(after, c, p, o)
        /\ \A q \in db : /\ q.s = src /\ q.p # "address"
                         /\ ~(Matches(db, account) /\ q \in Moving(db, account))
                         /\ ~(q.p = "affiliation" /\ q.o \in Affs(account))
                         => q \in after
        /\ Matches(db, account) =>
               /\ \A q \in Moving(db, account) : q.p # "address" => Says(after, contact, q.p, q.o)
               /\ Affs(account) # {} => /\ Says(after, contact, "affiliation", affiliation)
                                        /\ Says(after, affiliation, "address", account)
        /\ \A q \in after : q.s = src => q \in db
        /\ \A q \in after : q.p = "address" => q \in db \/ q.s = affiliation
    BY <1>1, <1>4, SplitSays
  <1>6. \A q \in Moving(db, account) : q \in db /\ q.s = src /\ q.g = account
    BY DEF Moving
  <1>7. account \notin Done(k - 1) => Matches(db, account)
    BY SplitMatches
  <1>. HIDE DEF account, contact, affiliation, src, after
  <1>8. \A q \in after : q.s = src => q \in store
    BY <1>5 DEF SplitSoFar, src
  <1>9. \A q \in after : q.p = "address" => q \in store \/ q.s \in Blank
    BY <1>1, <1>5 DEF SplitSoFar
  <1>10. ASSUME NEW q \in store, q.s = src, q.g \in Account \ Done(k) PROVE q \in after
    <2>1. q \in db /\ q.g # account
      BY <1>3, <1>10 DEF SplitSoFar, src
    <2>2. q.p # "address"
      BY <1>4, <1>10, <2>1
    <2>3. ~(q.p = "affiliation" /\ q.o \in Affs(account))
      BY <1>1, <1>2, <1>10, <2>1
    <2>. QED
      BY <1>5, <1>6, <1>10, <2>1, <2>2, <2>3
  <1>11. ASSUME NEW a \in Account \ Done(k), NEW l \in unmerge.affiliations[a]
         PROVE  /\ Quad(src, "affiliation", l.affiliation, l.graph) \in after
                /\ Says(after, l.affiliation, "address", a)
    <2>. DEFINE q == Quad(src, "affiliation", l.affiliation, l.graph)
    <2>1. q \in db /\ q \in store /\ a # account
      BY <1>3 DEF SplitSoFar, SplitReady, AffiliationsRead, src
    <2>2. q.s = src /\ q.p = "affiliation" /\ q.o = l.affiliation /\ q.g = l.graph
      BY DEF Quad
    <2>3. l.affiliation \in Affs(a)
      BY DEF Affs
    <2>4. Says(db, l.affiliation, "address", a)
      BY <1>3 DEF SplitSoFar, Quad, Says
    <2>5. PICK y \in store : y.p = "address" /\ y.s = l.affiliation /\ y.o = a
      BY DEF SplitReady, AffiliationsRead, Quad
    <2>. HIDE DEF q
    <2>6. l.affiliation \notin Affs(account)
      BY <1>1, <1>2, <2>1, <2>5
    <2>7. q.g # account
      BY <1>1, <1>2, <2>1, <2>2, <2>3
    <2>8. q \in after
      BY <1>5, <1>6, <2>1, <2>2, <2>6, <2>7
    <2>9. Says(after, l.affiliation, "address", a)
      BY <1>2, <1>5, <2>1, <2>3, <2>4
    <2>. QED
      BY <2>8, <2>9 DEF q
  <1>12. ASSUME NEW a \in Account, Safe(db, a) PROVE Safe(after, a)
    <2>0. PICK c \in {src} \cup NewContacts :
              \E x : x \notin Affs(a) /\ Says(db, c, "affiliation", x) /\ Says(db, x, "address", a)
      BY <1>12 DEF Safe, src
    <2>1. PICK x : x \notin Affs(a) /\ Says(db, c, "affiliation", x) /\ Says(db, x, "address", a)
      BY <2>0
    <2>2. x # src
      BY <1>4, <2>1 DEF Says
    <2>3. Says(after, x, "address", a)
      BY <1>5, <2>1, <2>2
    <2>4. CASE c # src
      <3>1. Says(after, c, "affiliation", x)
        BY <1>5, <2>1, <2>4
      <3>. QED
        BY <2>1, <2>3, <3>1 DEF Safe, src
    <2>5. CASE c = src
      <3>1. PICK q \in db : q.s = src /\ q.p = "affiliation" /\ q.o = x
        BY <2>1, <2>5 DEF Says
      <3>2. q \in store
        BY <3>1 DEF SplitSoFar, src
      <3>3. x \notin Blank
        BY <3>1, <3>2 DEF SplitReady, AccountsApart
      <3>4. PICK y \in store : y.s = x /\ y.p = "address" /\ y.o = a
        BY <2>1, <3>3 DEF Says, SplitSoFar
      <3>5. x \notin Affs(account)
        BY <1>1, <1>2, <2>1, <3>4
      <3>6. CASE Matches(db, account) /\ q \in Moving(db, account)
        <4>1. Says(after, contact, "affiliation", x)
          BY <1>5, <3>1, <3>6
        <4>. QED
          BY <1>1, <2>1, <2>3, <4>1 DEF Safe
      <3>7. CASE ~(Matches(db, account) /\ q \in Moving(db, account))
        <4>1. q \in after
          BY <1>5, <3>1, <3>5, <3>7
        <4>2. Says(after, src, "affiliation", x)
          BY <3>1, <4>1 DEF Says
        <4>. QED
          BY <2>1, <2>3, <4>2 DEF Safe, src
      <3>. QED
        BY <3>6, <3>7
    <2>. QED
      BY <2>4, <2>5
  <1>13. ASSUME NEW a \in Account, Reaches(store, src, a), a \in Done(k) \/ Affs(a) = {}
         PROVE  Safe(after, a)
    <2>1. CASE a \in Done(k - 1) \/ Affs(a) = {}
      <3>1. Safe(db, a)
        BY <1>13, <2>1 DEF SplitSoFar, src
      <3>. QED
        BY <1>12, <3>1
    <2>2. CASE a = account /\ a \notin Done(k - 1) /\ Affs(a) # {}
      <3>1. /\ Says(after, contact, "affiliation", affiliation)
            /\ Says(after, affiliation, "address", a)
        BY <1>5, <1>7, <2>2
      <3>. QED
        BY <1>1, <2>2, <3>1 DEF Safe
    <2>. QED
      BY <1>3, <1>13, <2>1, <2>2
  <1>. QED
    BY <1>8, <1>9, <1>10, <1>11, <1>13 DEF SplitSoFar, src, after, Says

\* Two statements give a contact an address.
LEMMA ReachesBySays ==
    ASSUME NEW db, NEW c, NEW x, NEW a, Says(db, c, "affiliation", x), Says(db, x, "address", a)
    PROVE  Reaches(db, c, a)
  BY ReachesSays

\* Before the first account.
LEMMA SplitStarts == SplitReady => SplitSoFar(store, 0)
  <1>. SUFFICES ASSUME SplitReady PROVE SplitSoFar(store, 0)
    OBVIOUS
  <1>1. Done(0) = {}
    BY DEF Done
  <1>2. ASSUME NEW b \in Account, NEW l \in unmerge.affiliations[b]
        PROVE  /\ Quad(unmerge.source, "affiliation", l.affiliation, l.graph) \in store
               /\ Says(store, l.affiliation, "address", b)
    BY DEF SplitReady, AffiliationsRead, Says, Quad
  <1>3. ASSUME NEW b \in Account, Reaches(store, unmerge.source, b), Affs(b) = {}
        PROVE  Safe(store, b)
    <2>1. PICK x : Says(store, unmerge.source, "affiliation", x) /\ Says(store, x, "address", b)
      BY <1>3, ReachesSays
    <2>. QED
      BY <1>3, <2>1 DEF Safe
  <1>. QED
    BY <1>1, <1>2, <1>3 DEF SplitSoFar

\* Each address that the source had is its own afterwards or a new contact's.
LEMMA SplitAllKeeps ==
    ASSUME UnmergeReads, SplitReady, AllQuads(store),
           NEW db, db = FoldLeft(SplitOff, store, [n \in DOMAIN unmerge.accounts |-> n]),
           NEW a \in Account, Reaches(store, unmerge.source, a)
    PROVE  \E c \in {unmerge.source} \cup NewContacts : Reaches(db, c, a)
  <1>1. PICK S, P, O, G : UnmergeData(S, P, O, G) /\ store \in SUBSET Quads(S, P, O, G)
    BY SplitReads
  <1>. DEFINE n == Len(unmerge.accounts)
              A == [k \in 0..n |-> {x \in SUBSET Quads(S, P, O, G) : SplitSoFar(x, k)}]
  <1>2. n \in Nat /\ DOMAIN unmerge.accounts = 1..n
    BY DEF UnmergeReads
  <1>3. PICK fold : SplitSteps(fold, SUBSET Quads(S, P, O, G), db)
    BY <1>1, SplitAllFold
  <1>. HIDE DEF n
  <1>4. \A k \in 0..n : \A x : x \in A[k] <=> x \in SUBSET Quads(S, P, O, G) /\ SplitSoFar(x, k)
    OBVIOUS
  <1>. HIDE DEF A
  <1>5. fold[1..0] \in A[0]
    BY <1>1, <1>2, <1>3, <1>4, SplitStarts DEF SplitSteps
  <1>6. ASSUME NEW k \in 1..n, fold[1..(k - 1)] \in A[k - 1] PROVE fold[1..k] \in A[k]
    <2>1. k \in DOMAIN unmerge.accounts /\ k - 1 \in 0..n /\ k \in 0..n
      BY <1>2
    <2>2. /\ fold[1..(k - 1)] \in SUBSET Quads(S, P, O, G) /\ SplitSoFar(fold[1..(k - 1)], k - 1)
          /\ fold[1..k] = SplitOff(fold[1..(k - 1)], k)
      BY <1>3, <1>4, <1>6, <2>1 DEF SplitSteps, n
    <2>3. SplitSoFar(fold[1..k], k)
      BY <1>1, <2>1, <2>2, SplitKeeps
    <2>4. fold[1..k] \in SUBSET Quads(S, P, O, G)
      BY <1>1, <2>1, <2>2, SplitFacts
    <2>. QED
      BY <1>4, <2>1, <2>3, <2>4
  <1>7. \A k \in 0..n : fold[1..k] \in A[k]
    BY <1>2, <1>5, <1>6, FoldReaches
  <1>8. SplitSoFar(db, n)
    <2>1. n \in 0..n
      BY <1>2
    <2>. QED
      BY <1>3, <1>4, <1>7, <2>1 DEF SplitSteps, n
  <1>9. CASE a \in Done(n) \/ Affs(a) = {}
    <2>1. Safe(db, a)
      BY <1>8, <1>9 DEF SplitSoFar
    <2>. QED
      BY <2>1, ReachesBySays DEF Safe
  <1>10. CASE a \notin Done(n) /\ Affs(a) # {}
    <2>1. PICK l \in unmerge.affiliations[a] : TRUE
      BY <1>10 DEF Affs
    <2>2. /\ Quad(unmerge.source, "affiliation", l.affiliation, l.graph) \in db
          /\ Says(db, l.affiliation, "address", a)
      BY <1>8, <1>10 DEF SplitSoFar
    <2>3. Says(db, unmerge.source, "affiliation", l.affiliation)
      BY <2>2 DEF Says, Quad
    <2>. QED
      BY <2>2, <2>3, ReachesBySays
  <1>. QED
    BY <1>9, <1>10

-----------------------------------------------------------------------------
(* Affiliations stay apart. *)

\* A part of a store where affiliations are apart is such a store.
LEMMA FewerApart ==
    ASSUME NEW db, AccountsApart(db), NEW less \in SUBSET db
    PROVE  AccountsApart(less)
  BY DEF AccountsApart

\* Statements that are about no affiliation and no address keep them apart.
LEMMA OthersApart ==
    ASSUME NEW db, AccountsApart(db), NEW new,
           \A q \in new : q.p # "address" /\ q.p # "affiliation"
    PROVE  AccountsApart(db \cup new)
  BY DEF AccountsApart, Linked

\* A copy is of what a contact has, in the same graph or in none.
LEMMA CopiesApart ==
    ASSUME NEW db, AccountsApart(db), "none" \notin Account, NEW new,
           \A q \in new : \E x \in db :
               x.s \in Contact /\ x.p = q.p /\ x.o = q.o /\ (q.g = x.g \/ q.g = "none")
    PROVE  AccountsApart(db \cup new)
  <1>1. \A q \in new : q.p # "address"
    BY DEF AccountsApart
  <1>2. \A q \in new : q.p = "affiliation" => q.o \notin Blank
    BY DEF AccountsApart
  <1>3. ASSUME NEW q \in new, NEW y \in db, Linked(q, y), q.g \in Account PROVE y.o = q.g
    <2>1. PICK x \in db : x.p = q.p /\ x.o = q.o /\ (q.g = x.g \/ q.g = "none")
      OBVIOUS
    <2>2. Linked(x, y) /\ x.g = q.g
      BY <1>3, <2>1 DEF Linked
    <2>. QED
      BY <1>3, <2>2 DEF AccountsApart
  <1>. QED
    BY <1>1, <1>2, <1>3 DEF AccountsApart, Linked

\* What a store has beyond another are copies of what s has, for t.
AddsCopies(before, after, t, s) ==
    \E new : /\ after \subseteq before \cup new
             /\ \A q \in new : \E x \in before :
                    /\ x.s = s /\ q.s = t /\ x.p = q.p /\ x.o = q.o
                    /\ q.g = x.g \/ q.g = "none"

\* What is copied from a source.
LEMMA CopiedQuads ==
    ASSUME NEW S, NEW P, NEW O, NEW G, NEW acc \in Accumulators(S, P, O, G),
           NEW t \in Contact, NEW s \in Contact
    PROVE  AddsCopies(acc.db, CopyFrom(acc, t, s).db, t, s)
  <1>. DEFINE from == acc.known[s]
              taken == acc.known[t].single \cup acc.known[t].singleWithGraph
              graphed == (from.singleWithGraph \ taken) \cup (from.multiWithGraph \ {"type"})
              plain == (from.single \ taken) \cup (from.multi \ {"type"})
              inGraph == {[q EXCEPT !.s = t] :
                             q \in {x \in acc.db : x.s = s /\ x.p \in graphed /\ x.g # "none"}}
              copies == {[q EXCEPT !.s = t, !.g = "none"] :
                            q \in {x \in acc.db : x.s = s /\ x.p \in plain}}
              new == inGraph \cup copies
  <1>1. acc.db \in SUBSET Quads(S, P, O, G) /\ DOMAIN acc = {"db", "known"}
    BY DEF Accumulators
  <1>2. CopyFrom(acc, t, s).db = Insert(Insert(acc.db, inGraph), copies)
    BY <1>1 DEF CopyFrom
  <1>3. ASSUME NEW x \in acc.db
        PROVE  /\ [x EXCEPT !.s = t].s = t /\ [x EXCEPT !.s = t].p = x.p
               /\ [x EXCEPT !.s = t].o = x.o /\ [x EXCEPT !.s = t].g = x.g
               /\ [x EXCEPT !.s = t, !.g = "none"].s = t /\ [x EXCEPT !.s = t, !.g = "none"].p = x.p
               /\ [x EXCEPT !.s = t, !.g = "none"].o = x.o
               /\ [x EXCEPT !.s = t, !.g = "none"].g = "none"
    BY <1>1, <1>3 DEF Quads
  <1>4. /\ \A q \in inGraph : \E x \in acc.db : x.s = s /\ q = [x EXCEPT !.s = t]
        /\ \A q \in copies : \E x \in acc.db : x.s = s /\ q = [x EXCEPT !.s = t, !.g = "none"]
    OBVIOUS
  <1>. HIDE DEF inGraph, copies
  <1>5. \A q \in new : \E x \in acc.db :
            /\ x.s = s /\ q.s = t /\ x.p = q.p /\ x.o = q.o
            /\ q.g = x.g \/ q.g = "none"
    <2>1. ASSUME NEW q \in inGraph
          PROVE  \E x \in acc.db :
                     x.s = s /\ q.s = t /\ x.p = q.p /\ x.o = q.o /\ q.g = x.g
      <3>1. PICK x \in acc.db : x.s = s /\ q = [x EXCEPT !.s = t]
        BY <1>4
      <3>. QED
        BY <1>3, <3>1
    <2>2. ASSUME NEW q \in copies
          PROVE  \E x \in acc.db :
                     x.s = s /\ q.s = t /\ x.p = q.p /\ x.o = q.o /\ q.g = "none"
      <3>1. PICK x \in acc.db : x.s = s /\ q = [x EXCEPT !.s = t, !.g = "none"]
        BY <1>4
      <3>. QED
        BY <1>3, <3>1
    <2>. QED
      BY <2>1, <2>2
  <1>6. CopyFrom(acc, t, s).db \subseteq acc.db \cup new
    BY <1>2 DEF Insert
  <1>. HIDE DEF new
  <1>. QED
    BY <1>5, <1>6 DEF AddsCopies

\* Copying from a source keeps affiliations apart.
LEMMA CopyApart ==
    ASSUME NEW S, NEW P, NEW O, NEW G, NEW acc \in Accumulators(S, P, O, G),
           NEW t \in Contact, NEW s \in Contact, AccountsApart(acc.db), "none" \notin Account
    PROVE  AccountsApart(CopyFrom(acc, t, s).db)
  <1>1. PICK new :
            /\ CopyFrom(acc, t, s).db \subseteq acc.db \cup new
            /\ \A q \in new : \E x \in acc.db :
                   /\ x.s = s /\ q.s = t /\ x.p = q.p /\ x.o = q.o
                   /\ q.g = x.g \/ q.g = "none"
    <2>1. AddsCopies(acc.db, CopyFrom(acc, t, s).db, t, s)
      BY CopiedQuads
    <2>. QED
      BY <2>1 DEF AddsCopies
  <1>2. AccountsApart(acc.db \cup new)
    <2>1. \A q \in new : \E x \in acc.db :
              x.s \in Contact /\ x.p = q.p /\ x.o = q.o /\ (q.g = x.g \/ q.g = "none")
      BY <1>1
    <2>. QED
      BY <2>1, CopiesApart
  <1>3. CopyFrom(acc, t, s).db \subseteq acc.db \cup new
    BY <1>1
  <1>. QED
    BY <1>2, <1>3, FewerApart

\* What is kept by copying, and by deleting the sources, is kept by all.
Cleared(x, t, gone, target) ==
    [x EXCEPT !.db = SetSyncTarget(DeleteResources(@, gone), t, target)]

KeptByMerging(A, T, O) ==
    /\ \A x \in A : \A t \in T, s \in Contact : CopyFrom(x, t, s) \in A
    /\ \A x \in A : \A t \in T, gone \in SUBSET Contact, target \in O :
           Cleared(x, t, gone, target) \in A

\* What copying and clearing keep is so after a merge into a contact,
LEMMA MergeIntoStays ==
    ASSUME NEW S, NEW P, NEW O, NEW G, Contact \subseteq S, "none" \in G,
           NEW A \in SUBSET Accumulators(S, P, O, G), NEW T \in SUBSET Contact,
           KeptByMerging(A, T, O), NEW acc \in A, NEW t \in T,
           NEW sources \in Seq(Contact), NEW target \in O
    PROVE  MergeInto(acc, t, sources, target) \in A
  <1>. DEFINE X == Accumulators(S, P, O, G)
              n == Len(sources)
              copied == CopyAll(acc, t, sources)
  <1>1. n \in Nat /\ \A k \in 1..n : sources[k] \in Contact
    OBVIOUS
  <1>2. PICK fold : CopySteps(fold, X, acc, t, sources)
    BY CopyAllFold
  <1>. HIDE DEF n
  <1>3. fold[1..0] \in A
    BY <1>2 DEF CopySteps
  <1>4. \A k \in 1..n : fold[1..(k - 1)] \in A => fold[1..k] \in A
    BY <1>1, <1>2 DEF n, CopySteps, KeptByMerging
  <1>5. \A k \in 0..n : fold[1..k] \in A
    BY <1>1, <1>3, <1>4, FoldStays
  <1>6. copied \in A
    <2>1. n \in 0..n
      BY <1>1
    <2>. QED
      BY <1>2, <1>5, <2>1 DEF n, CopySteps
  <1>7. MergeInto(acc, t, sources, target) = Cleared(copied, t, ToSet(sources), target)
    BY DEF MergeInto, CopyAll, Cleared
  <1>8. ToSet(sources) \in SUBSET Contact
    BY DEF ToSet
  <1>. HIDE DEF copied
  <1>. QED
    BY <1>6, <1>7, <1>8 DEF KeptByMerging

\* and after the whole update.
LEMMA MergeAllStays ==
    ASSUME NEW S, NEW P, NEW O, NEW G, MergeData(S, P, O, G),
           NEW order, NEW sources, NEW picked, MergePlan(order, sources, picked),
           NEW A \in SUBSET Accumulators(S, P, O, G), NEW T \in SUBSET Contact,
           KeptByMerging(A, T, O), \A k \in 1..Len(order) : order[k] \in T,
           [db |-> store, known |-> merge.predicates] \in A
    PROVE  \E x \in A : MergeAll(order, sources, picked) = x.db
  <1>. DEFINE n == Len(order)
  <1>1. /\ Contact \subseteq S /\ "none" \in G /\ n \in Nat
        /\ \A k \in 1..n : /\ order[k] \in T /\ sources[order[k]] \in Seq(Contact)
                           /\ picked[order[k]] \in O
    BY DEF MergeData, MergePlan
  <1>2. PICK fold : MergeFolds(fold, Accumulators(S, P, O, G), order, sources, picked)
    BY MergeAllFold
  <1>. HIDE DEF n
  <1>3. fold[1..0] \in A
    BY <1>2 DEF MergeFolds
  <1>4. \A x \in A, k \in 1..n : MergeInto(x, order[k], sources[order[k]], picked[order[k]]) \in A
    BY <1>1, MergeIntoStays
  <1>5. \A k \in 1..n : fold[1..(k - 1)] \in A => fold[1..k] \in A
    BY <1>2, <1>4 DEF n, MergeFolds
  <1>6. \A k \in 0..n : fold[1..k] \in A
    BY <1>1, <1>3, <1>5, FoldStays
  <1>7. n \in 0..n
    BY <1>1
  <1>. QED
    BY <1>2, <1>6, <1>7 DEF n, MergeFolds

\* When the sources are deleted and the sync target is set, the rest stays.
LEMMA ClearedFacts ==
    ASSUME NEW S, NEW P, NEW O, NEW G, NEW x \in Accumulators(S, P, O, G),
           NEW t, NEW gone, NEW target
    PROVE  /\ Cleared(x, t, gone, target).known = x.known
           /\ \A q \in Cleared(x, t, gone, target).db :
                  \/ q \in x.db /\ q.s \notin gone /\ ~(q.s = t /\ q.p = "generator" /\ q.g = "qct")
                  \/ q = Quad(t, "generator", target, "qct")
           /\ \A q \in x.db :
                  /\ q.s \notin gone /\ ~(q.s = t /\ q.p = "generator" /\ q.g = "qct")
                  => q \in Cleared(x, t, gone, target).db
           /\ Quad(t, "generator", target, "qct") \in Cleared(x, t, gone, target).db
  <1>1. x = [db |-> x.db, known |-> x.known]
    BY DEF Accumulators
  <1>2. /\ Cleared(x, t, gone, target).known = x.known
        /\ Cleared(x, t, gone, target).db = SetSyncTarget(DeleteResources(x.db, gone), t, target)
    BY <1>1 DEF Cleared
  <1>. QED
    BY <1>2 DEF SetSyncTarget, DeleteResources

\* That gives a store and notes again.
LEMMA ClearedType ==
    ASSUME NEW S, NEW P, NEW O, NEW G, Contact \subseteq S, "qct" \in G, "generator" \in P,
           NEW x \in Accumulators(S, P, O, G), NEW t \in Contact, NEW gone, NEW target \in O
    PROVE  Cleared(x, t, gone, target) \in Accumulators(S, P, O, G)
  <1>. DEFINE db == SetSyncTarget(DeleteResources(x.db, gone), t, target)
  <1>1. x = [db |-> x.db, known |-> x.known] /\ x.db \in SUBSET Quads(S, P, O, G)
    BY DEF Accumulators
  <1>2. Quad(t, "generator", target, "qct") \in Quads(S, P, O, G)
    BY DEF Quad, Quads
  <1>3. db \in SUBSET Quads(S, P, O, G)
    BY <1>1, <1>2 DEF SetSyncTarget, DeleteResources
  <1>4. Cleared(x, t, gone, target) = [x EXCEPT !.db = db]
    BY DEF Cleared
  <1>. HIDE DEF db
  <1>5. Cleared(x, t, gone, target) = [db |-> db, known |-> x.known]
    BY <1>1, <1>4
  <1>6. x.known \in [Contact -> Properties(P)]
    BY DEF Accumulators
  <1>. QED
    BY <1>3, <1>5, <1>6 DEF Accumulators

\* An update that merges keeps affiliations apart.
LEMMA MergeAllApart ==
    ASSUME NEW S, NEW P, NEW O, NEW G, MergeData(S, P, O, G),
           NEW order, NEW sources, NEW picked, MergePlan(order, sources, picked),
           AccountsApart(store), "none" \notin Account
    PROVE  AccountsApart(MergeAll(order, sources, picked))
  <1>. DEFINE X == Accumulators(S, P, O, G)
              A == {x \in X : AccountsApart(x.db)}
  <1>1. Contact \subseteq S /\ {"none", "qct"} \subseteq G /\ "generator" \in P
    BY DEF MergeData
  <1>2. [db |-> store, known |-> merge.predicates] \in A
    BY DEF MergeData, Accumulators
  <1>3. \A x \in A : \A t, s \in Contact : CopyFrom(x, t, s) \in A
    BY <1>1, CopyApart, CopyFromFacts
  <1>4. ASSUME NEW x \in A, NEW t \in Contact, NEW gone \in SUBSET Contact, NEW target \in O
        PROVE  Cleared(x, t, gone, target) \in A
    <2>. DEFINE mark == {Quad(t, "generator", target, "qct")}
    <2>0. x \in X /\ AccountsApart(x.db)
      OBVIOUS
    <2>. HIDE DEF A
    <2>1. Cleared(x, t, gone, target) \in X
      BY <1>1, <2>0, ClearedType
    <2>2. Cleared(x, t, gone, target).db \subseteq x.db \cup mark
      <3>1. \A q \in Cleared(x, t, gone, target).db :
                q \in x.db \/ q = Quad(t, "generator", target, "qct")
        BY <2>0, ClearedFacts
      <3>. QED
        BY <3>1
    <2>3. \A q \in mark : q.p = "generator"
      BY DEF Quad
    <2>. HIDE DEF mark
    <2>4. AccountsApart(x.db \cup mark)
      BY <2>0, <2>3, OthersApart
    <2>. QED
      BY <2>1, <2>2, <2>4, FewerApart DEF A
  <1>5. KeptByMerging(A, Contact, O)
    BY <1>3, <1>4 DEF KeptByMerging
  <1>. HIDE DEF A
  <1>6. A \in SUBSET X
    BY DEF A
  <1>7. Contact \in SUBSET Contact /\ \A k \in 1..Len(order) : order[k] \in Contact
    BY DEF MergePlan
  <1>8. \E x \in A : MergeAll(order, sources, picked) = x.db
    BY <1>2, <1>5, <1>6, <1>7, MergeAllStays
  <1>. QED
    BY <1>8 DEF A

\* An affiliation is of one account, and one in the graph of an account is of
\* that account; what unmerging makes is new.
AccountsAreApart ==
    /\ \A s \in Scenarios : "unmerge" \in s.requests => AccountsApart(s.store)
    /\ Blank \cap Contact = {} /\ "none" \notin Account
    /\ \A u \in Unmerges : u.source \notin Made

BeforeUpdate == unmerge.pc \in {"idle", "resolve", "fetch", "update"}

Gone(c) == \A q \in store : q.s # c

\* What was read of the source is still so, or it was removed.
UnmergeKnows ==
    /\ BeforeUpdate => AccountsApart(store)
    /\ unmerge.pc \in {"fetch", "update"} => unmerge.source # Zero
    /\ unmerge.pc = "update" => \/ Gone(unmerge.source)
                                \/ PredicatesRead /\ AffiliationsRead

UnmergesHold == IF "unmerge" \in requests THEN UnmergeKnows ELSE unmerge.pc = "idle"

\* An update starts from what was read.
LEMMA ReadIsReady ==
    ASSUME AccountsAreApart, UnmergeHolds, UnmergeKnows, unmerge.pc = "update",
           PredicatesRead, AffiliationsRead
    PROVE  SplitReady
  <1>1. PICK u \in Unmerges : unmerge.source = u.source /\ unmerge.accounts = u.accounts
    BY DEF UnmergeHolds
  <1>2. unmerge.source \in Contact \ Made
    BY <1>1, UnmergeAssumption DEF UnmergeKnows, AccountsAreApart
  <1>3. \A n \in DOMAIN unmerge.accounts : NewAffiliation[n] \in Blank
    BY <1>1 DEF Blank
  <1>. QED
    BY <1>2, <1>3 DEF SplitReady, AccountsAreApart, UnmergeKnows, BeforeUpdate

\* At first the invariant of an unmerging holds.
LEMMA UnmergesInit == AccountsAreApart /\ Init => UnmergesHold
  <1>. SUFFICES ASSUME AccountsAreApart, Init PROVE UnmergesHold
    OBVIOUS
  <1>1. unmerge.pc = "idle"
    BY DEF Init, NoUnmerge
  <1>2. "unmerge" \in requests => AccountsApart(store)
    BY DEF Init, AccountsAreApart
  <1>. QED
    BY <1>1, <1>2 DEF UnmergesHold, UnmergeKnows

\* What the query tells is so.
LEMMA FetchReads ==
    ASSUME AllQuads(store), UnmergeHolds, FetchPredicates
    PROVE  /\ unmerge'.pc = "update" /\ store' = store /\ unmerge'.source = unmerge.source
           /\ unmerge'.accounts = unmerge.accounts
           /\ PredicatesRead' /\ AffiliationsRead'
           /\ \A a \in Account : LinksTo(a)' # {} => Affs(a)' # {}
  <1>. USE DEF UnmergeHolds
  <1>. DEFINE read == {[graph |-> q.g, predicate |-> q.p] :
                          q \in {x \in store : /\ x.s = unmerge.source /\ x.p # "type"
                                               /\ x.g # "none"}}
  <1>1. PICK links :
            /\ \A a \in Account : links[a] \subseteq LinksTo(a)
            /\ \A a \in Account : LinksTo(a) # {} => links[a] # {}
            /\ unmerge' = [unmerge EXCEPT !.pc = "update", !.predicates = read,
                                          !.affiliations = links]
    BY DEF FetchPredicates
  <1>2. \A a \in Account : \A l \in links[a] :
            /\ Quad(unmerge.source, "affiliation", l.affiliation, l.graph) \in store
            /\ Quad(l.affiliation, "address", a, l.graph) \in store
    <2>. SUFFICES ASSUME NEW a \in Account, NEW l \in links[a]
                  PROVE  /\ Quad(unmerge.source, "affiliation", l.affiliation, l.graph) \in store
                         /\ Quad(l.affiliation, "address", a, l.graph) \in store
      OBVIOUS
    <2>1. l \in LinksTo(a)
      BY <1>1
    <2>2. PICK q \in store : /\ q.s = unmerge.source /\ q.p = "affiliation"
                             /\ Quad(q.o, "address", a, q.g) \in store
                             /\ l = [graph |-> q.g, affiliation |-> q.o]
      BY <2>1 DEF LinksTo
    <2>3. q = Quad(unmerge.source, "affiliation", q.o, q.g)
      BY <2>2 DEF AllQuads
    <2>4. l.graph = q.g /\ l.affiliation = q.o
      BY <2>2
    <2>. QED
      BY <2>2, <2>3, <2>4
  <1>3. /\ unmerge.pc = "fetch" /\ unmerge'.pc = "update" /\ store' = store
        /\ unmerge'.source = unmerge.source /\ unmerge'.accounts = unmerge.accounts
        /\ unmerge'.predicates = read /\ unmerge'.affiliations = links
    BY <1>1 DEF FetchPredicates
  <1>4. PredicatesRead'
    BY <1>3 DEF PredicatesRead
  <1>. HIDE DEF read
  <1>5. AffiliationsRead'
    BY <1>2, <1>3 DEF AffiliationsRead
  <1>6. \A a \in Account : LinksTo(a)' # {} => Affs(a)' # {}
    BY <1>1, <1>3 DEF LinksTo, Affs
  <1>. QED
    BY <1>3, <1>4, <1>5, <1>6

\* A step of the request itself.
LEMMA UnmergeLearns ==
    ASSUME AllQuads(store), UnmergeHolds, UnmergeKnows, UnmergeNext
    PROVE  UnmergeKnows'
  <1>. USE DEF UnmergeHolds
  <1>1. CASE AskUnmerge
    <2>1. PICK u \in Unmerges :
              unmerge' = [unmerge EXCEPT !.pc = "resolve", !.source = u.source, !.own = u.own,
                                         !.accounts = u.accounts]
      BY <1>1 DEF AskUnmerge
    <2>2. /\ unmerge'.pc = "resolve" /\ unmerge'.source = u.source
          /\ unmerge'.accounts = u.accounts
      BY <2>1
    <2>3. AccountsApart(store) /\ store' = store
      BY <1>1 DEF AskUnmerge, UnmergeKnows, BeforeUpdate
    <2>. QED
      BY <2>2, <2>3 DEF UnmergeKnows
  <1>2. CASE ResolveSource
    <2>1. /\ unmerge.pc = "resolve" /\ unmerge'.pc = "fetch" /\ unmerge'.source = unmerge.source
          /\ unmerge'.accounts = unmerge.accounts /\ store' = store /\ unmerge.source # Zero
      BY <1>2 DEF ResolveSource
    <2>. QED
      BY <2>1 DEF UnmergeKnows, BeforeUpdate
  <1>3. CASE FetchPredicates
    <2>1. /\ unmerge.pc = "fetch" /\ unmerge'.pc = "update" /\ store' = store
          /\ unmerge'.source = unmerge.source /\ unmerge'.accounts = unmerge.accounts
          /\ PredicatesRead' /\ AffiliationsRead'
      BY <1>3, FetchReads DEF FetchPredicates
    <2>. QED
      BY <2>1 DEF UnmergeKnows, BeforeUpdate
  <1>4. CASE RejectUnmerge \/ UnmergeContacts \/ ResolveUnmerged \/ UnmergeFails
    <2>1. /\ unmerge.pc # "idle" /\ unmerge'.pc \in {"ids", "done"}
          /\ unmerge'.source = unmerge.source /\ unmerge'.accounts = unmerge.accounts
      BY <1>4 DEF RejectUnmerge, UnmergeContacts, ResolveUnmerged, UnmergeFails
    <2>. QED
      BY <2>1 DEF UnmergeKnows, BeforeUpdate
  <1>. QED
    BY <1>1, <1>2, <1>3, <1>4 DEF UnmergeNext

\* Steps of the others, with the request under way or not.
LEMMA OthersKeepKnown ==
    ASSUME UnmergeKnows, UNCHANGED unmerge,
           BeforeUpdate => AccountsApart(store'),
           unmerge.pc = "update" =>
               \E gone \in SUBSET Contact : store' = DeleteResources(store, gone)
    PROVE  UnmergeKnows'
  <1>1. ASSUME unmerge.pc = "update", Gone(unmerge.source) PROVE Gone(unmerge.source)'
    BY <1>1 DEF DeleteResources, Gone
  <1>2. ASSUME unmerge.pc = "update", PredicatesRead, AffiliationsRead, ~Gone(unmerge.source)'
        PROVE  PredicatesRead' /\ AffiliationsRead'
    <2>1. PICK gone \in SUBSET Contact : store' = DeleteResources(store, gone)
      BY <1>2
    <2>2. \A q : q \in store' <=> q \in store /\ q.s \notin gone
      BY <2>1 DEF DeleteResources
    <2>3. unmerge.source \notin gone
      BY <1>2, <2>2 DEF Gone
    <2>4. PredicatesRead'
      <3>1. {x \in store' : x.s = unmerge.source /\ x.p # "type" /\ x.g # "none"}
                = {x \in store : x.s = unmerge.source /\ x.p # "type" /\ x.g # "none"}
        BY <2>2, <2>3
      <3>. QED
        BY <1>2, <3>1 DEF PredicatesRead
    <2>5. AffiliationsRead'
      <3>. SUFFICES ASSUME NEW a \in Account, NEW l \in unmerge.affiliations[a]
                    PROVE  /\ Quad(unmerge.source, "affiliation", l.affiliation, l.graph) \in store'
                           /\ Quad(l.affiliation, "address", a, l.graph) \in store'
        BY DEF AffiliationsRead
      <3>1. /\ Quad(unmerge.source, "affiliation", l.affiliation, l.graph) \in store
            /\ Quad(l.affiliation, "address", a, l.graph) \in store
        BY <1>2 DEF AffiliationsRead
      <3>2. AccountsApart(store)
        BY <1>2 DEF UnmergeKnows, BeforeUpdate
      <3>3. l.affiliation \notin Contact
        BY <3>1, <3>2 DEF AccountsApart, Quad
      <3>. QED
        BY <2>2, <2>3, <3>1, <3>3 DEF Quad
    <2>. QED
      BY <2>4, <2>5
  <1>. QED
    BY <1>1, <1>2 DEF UnmergeKnows, BeforeUpdate

\* What removals do: they delete resources.
LEMMA RemovalDeletes ==
    ASSUME RemovalType, RemovalNext
    PROVE  \E gone \in SUBSET Contact : store' = DeleteResources(store, gone)
  <1>1. CASE RemoveChunk
    <2>. DEFINE m == IF ColumnLimit < Len(removal.left) THEN ColumnLimit ELSE Len(removal.left)
                chunk == ToSet(SubSeq(removal.left, 1, m))
    <2>1. store' = DeleteResources(store, Victims(chunk))
      BY <1>1 DEF RemoveChunk
    <2>2. chunk \subseteq Contact
      <3>1. removal.left \in Seq(Contact) /\ m \in Nat /\ m <= Len(removal.left)
        BY RemovalAssumption DEF RemovalType
      <3>. HIDE DEF m
      <3>2. SubSeq(removal.left, 1, m) \in Seq(Contact)
        BY <3>1
      <3>. QED
        BY <3>2 DEF ToSet
    <2>. QED
      BY <2>1, <2>2 DEF Victims
  <1>2. CASE ~RemoveChunk
    <2>1. store' = store
      BY <1>2 DEF RemovalNext, AskRemoval, SelfUnknown, KeepSelf, ChunkFails
    <2>2. store' = DeleteResources(store, {})
      BY <2>1 DEF DeleteResources
    <2>. QED
      BY <2>2
  <1>. QED
    BY <1>1, <1>2

\* The requests for relationships keep affiliations apart.
LEMMA RelationsApart ==
    ASSUME RelationNext, AccountsApart(store)
    PROVE  AccountsApart(store')
  <1>1. CASE SaveRelations
    <2>. DEFINE new == UNION {Joining(i) : i \in Accepted}
    <2>1. \A q \in new : q.p = "memberOf"
      BY DEF Joining, Quad
    <2>2. store' = Insert(store, new)
      BY <1>1 DEF SaveRelations
    <2>. HIDE DEF new
    <2>3. AccountsApart(store \cup new)
      BY <2>1, OthersApart
    <2>4. store' \subseteq store \cup new
      BY <2>2 DEF Insert
    <2>. QED
      BY <2>3, <2>4, FewerApart
  <1>2. CASE RemoveRelations
    <2>1. store' \subseteq store
      BY <1>2 DEF RemoveRelations
    <2>. QED
      BY <2>1, FewerApart
  <1>3. CASE ~SaveRelations /\ ~RemoveRelations
    <2>1. store' = store
      BY <1>3 DEF RelationNext, AskRelations, SaveNothing, EditFails, AskMemberships, FetchRole,
                  FetchAsGroup, FetchAsMember, FetchUnsupported, FetchFails
    <2>. QED
      BY <2>1
  <1>. QED
    BY <1>1, <1>2, <1>3

\* Steps of a merge keep affiliations apart.
LEMMA MergesApart ==
    ASSUME SelfIsSafe, AccountsAreApart, AllQuads(store), MergeHolds, MergeNext,
           AccountsApart(store)
    PROVE  AccountsApart(store')
  <1>1. CASE Merge
    <2>1. PICK db \in Outcomes : store' = db \/ store' = store
      BY <1>1 DEF Merge
    <2>2. merge.pc = "update"
      BY <1>1 DEF Merge
    <2>3. IsFiniteSet(merge.pairs) /\ merge.pairs \subseteq Contact \X (Contact \ {Self})
      BY <2>2, PairsFacts
    <2>4. PICK order, sources, picked :
              MergePlan(order, sources, picked) /\ db = MergeAll(order, sources, picked)
      BY <2>3, OutcomePlan DEF MergeChoice
    <2>5. PICK S, P, O, G : MergeData(S, P, O, G)
      BY MergeReads
    <2>6. AccountsApart(db)
      BY <2>4, <2>5, MergeAllApart DEF AccountsAreApart
    <2>. QED
      BY <2>1, <2>6
  <1>2. CASE ~Merge
    <2>1. store' = store
      BY <1>2 DEF MergeNext, AskMerge, RejectMerge, ResolveMerge, FetchDetails, NothingInGraphs,
                  RefuseMerge, MergeFails
    <2>. QED
      BY <2>1
  <1>. QED
    BY <1>1, <1>2

\* Every step keeps the invariant of an unmerging.
LEMMA UnmergesNext ==
    SelfIsSafe /\ AccountsAreApart /\ EditsHold /\ UnmergesHold /\ [Next]_vars => UnmergesHold'
  <1>. SUFFICES ASSUME SelfIsSafe, AccountsAreApart, EditsHold, UnmergesHold, [Next]_vars
                PROVE  UnmergesHold'
    OBVIOUS
  <1>. USE DEF EditsHold
  <1>1. UNCHANGED requests
    BY DEF Next, vars, RunMerge, RunUnmerge, EditRelations, RemoveElsewhere, Fetch
  <1>2. CASE "unmerge" \notin requests
    <2>1. UNCHANGED unmerge
      BY <1>2 DEF Next, vars, RunMerge, RunUnmerge, EditRelations, RemoveElsewhere, Fetch
    <2>. QED
      BY <1>1, <1>2, <2>1 DEF UnmergesHold
  <1>3. CASE "unmerge" \in requests
    <2>. SUFFICES UnmergeKnows'
      BY <1>1, <1>3 DEF UnmergesHold
    <2>1. UnmergeKnows
      BY <1>3 DEF UnmergesHold
    <2>2. BeforeUpdate => AccountsApart(store)
      BY <2>1 DEF UnmergeKnows
    <2>3. CASE RunMerge \/ EditRelations
      <3>1. unmerge.pc # "update" /\ UNCHANGED unmerge
        BY <2>3 DEF RunMerge, EditRelations, Rests
      <3>2. BeforeUpdate => AccountsApart(store')
        BY <2>2, <2>3, MergesApart, RelationsApart DEF RunMerge, EditRelations
      <3>. QED
        BY <2>1, <3>1, <3>2, OthersKeepKnown
    <2>4. CASE RunUnmerge
      BY <2>1, <2>4, UnmergeLearns DEF RunUnmerge
    <2>5. CASE RemoveElsewhere
      <3>1. PICK gone \in SUBSET Contact : store' = DeleteResources(store, gone)
        BY <2>5, RemovalDeletes DEF RemoveElsewhere, RemovalHolds
      <3>2. store' \subseteq store
        BY <3>1 DEF DeleteResources
      <3>3. BeforeUpdate => AccountsApart(store')
        BY <2>2, <3>2, FewerApart
      <3>4. UNCHANGED unmerge
        BY <2>5 DEF RemoveElsewhere
      <3>. QED
        BY <2>1, <3>1, <3>3, <3>4, OthersKeepKnown
    <2>6. CASE Fetch \/ UNCHANGED vars
      <3>1. store' = store /\ UNCHANGED unmerge
        BY <2>6, FetchKeeps DEF Fetch, vars
      <3>2. store' = DeleteResources(store, {})
        BY <3>1 DEF DeleteResources
      <3>. QED
        BY <2>1, <2>2, <3>1, <3>2, OthersKeepKnown
    <2>. QED
      BY <2>3, <2>4, <2>5, <2>6 DEF Next
  <1>. QED
    BY <1>2, <1>3

\* Unmerging loses no address: what the source led to when the update ran, the
\* source or one of the new contacts leads to afterwards, as each account that is
\* split off takes its affiliation along "down to IMAddress precision"
\* (contactunmergerequest.cpp:307-309), whatever the other requests did since the
\* source was read.  An affiliation is of one account when the requests start.
THEOREM AddressesAreKept ==
    SelfIsSafe /\ AccountsAreApart /\ Spec => UnmergeKeepsAccounts
  <1>. SUFFICES ASSUME SelfIsSafe, AccountsAreApart PROVE Spec => UnmergeKeepsAccounts
    OBVIOUS
  <1>. DEFINE Kept ==
           unmerge.pc = "update" /\ unmerge'.pc = "ids" =>
               \A a \in Account :
                   Reaches(store, unmerge.source, a) =>
                       \E c \in {unmerge.source} \cup NewContacts : Reaches(store', c, a)
  <1>1. Init => EditsHold /\ UnmergesHold
    BY EditsInit, UnmergesInit
  <1>2. EditsHold /\ UnmergesHold /\ [Next]_vars => (EditsHold /\ UnmergesHold)'
    BY EditsNext, UnmergesNext
  <1>3. EditsHold /\ UnmergesHold /\ [Next]_vars => [Kept]_<<store, unmerge>>
    <2>. SUFFICES ASSUME EditsHold, UnmergesHold, [Next]_vars, unmerge.pc = "update",
                         unmerge'.pc = "ids", NEW a \in Account,
                         Reaches(store, unmerge.source, a)
                  PROVE  \E c \in {unmerge.source} \cup NewContacts : Reaches(store', c, a)
      OBVIOUS
    <2>1. RunUnmerge
      BY DEF Next, vars, RunMerge, EditRelations, RemoveElsewhere, Fetch
    <2>2. UnmergeContacts
      BY <2>1 DEF RunUnmerge, UnmergeNext, AskUnmerge, RejectUnmerge, ResolveSource,
                  FetchPredicates, ResolveUnmerged, UnmergeFails, EditsHold, UnmergeHolds
    <2>3. ~Gone(unmerge.source)
      <3>1. PICK x : Says(store, unmerge.source, "affiliation", x)
        BY ReachesSays
      <3>. QED
        BY <3>1 DEF Gone, Says
    <2>4. UnmergeKnows
      BY <2>1 DEF UnmergesHold, RunUnmerge
    <2>5. SplitReady
      BY <2>1, <2>2, <2>3, <2>4, ReadIsReady DEF UnmergeKnows, UnmergeContacts, EditsHold
    <2>. QED
      BY <2>2, <2>5, SplitAllKeeps DEF UnmergeContacts, EditsHold, UnmergeHolds
  <1>4. Spec => [][Kept]_<<store, unmerge>>
    BY <1>1, <1>2, <1>3, PTL DEF Spec
  <1>. QED
    BY <1>4 DEF UnmergeKeepsAccounts

-----------------------------------------------------------------------------
(* A contact for each account. *)

\* An account has one affiliation, and both statements are in one graph.
AccountsOnce(db) ==
    /\ \A x, y \in db : x.p = "address" /\ y.p = "address" /\ x.o = y.o => x.s = y.s
    /\ \A q \in db : q.p = "affiliation" => q.g # "none"
    /\ \A q, x \in db : Linked(q, x) => x.g = q.g

\* No account is named twice, each has one affiliation when an unmerge starts, and
\* nobody removes contacts meanwhile: then the update would match nothing.
EachAccountOnce ==
    /\ AccountsAreApart
    /\ \A s \in Scenarios : "unmerge" \in s.requests =>
           AccountsOnce(s.store) /\ "removal" \notin s.requests
    /\ "affiliation" \notin Single
    /\ \A u \in Unmerges : \A i, j \in 1..Len(u.accounts) : u.accounts[i] = u.accounts[j] => i = j

\* What a merge knows of affiliations: that they are in graphs.
AffiliationsKnown(known) ==
    \A c \in Contact :
        /\ "affiliation" \in known[c].multi => "affiliation" \in known[c].multiWithGraph
        /\ "affiliation" \notin known[c].single \cup known[c].singleWithGraph

\* What the update is to make of the accounts that were split off.
SplitWell(db, n) ==
    LET account == unmerge.accounts[n]
    IN  /\ Exists(db, NewContact[n])
        /\ Affs(account) # {} => /\ Says(db, NewContact[n], "affiliation", NewAffiliation[n])
                                 /\ Says(db, NewAffiliation[n], "address", account)
        /\ \A q \in db : q.s = unmerge.source /\ q.p = "affiliation" => q.o \notin Affs(account)

AccountsDiffer ==
    \A i, j \in 1..Len(unmerge.accounts) : unmerge.accounts[i] = unmerge.accounts[j] => i = j

\* A split makes its contact and leaves those from before.
LEMMA SplitMakes ==
    ASSUME NEW S, NEW P, NEW O, NEW G, UnmergeData(S, P, O, G), UnmergeReads, SplitReady,
           AccountsDiffer, NEW k \in DOMAIN unmerge.accounts,
           NEW db \in SUBSET Quads(S, P, O, G), SplitSoFar(db, k - 1),
           \A j \in 1..(k - 1) : SplitWell(db, j)
    PROVE  \A j \in 1..k : SplitWell(SplitOff(db, k), j)
  <1>. DEFINE account == unmerge.accounts[k]
              contact == NewContact[k]
              affiliation == NewAffiliation[k]
              after == SplitOff(db, k)
  <1>0. k \in Nat /\ k >= 1 /\ DOMAIN unmerge.accounts = 1..Len(unmerge.accounts)
    BY DEF UnmergeReads
  <1>1. SplitsApart(k) /\ account \in Account /\ unmerge.source \notin Blank
    BY ReadyFacts DEF SplitReady
  <1>2. \A q \in db : q.p = "address" => q.s # unmerge.source
    BY <1>1 DEF SplitSoFar, SplitReady, AccountsApart
  <1>3. Matches(db, account)
    <2>1. account \notin Done(k - 1)
      BY <1>0 DEF Done, AccountsDiffer
    <2>. QED
      BY <2>1, SplitMatches
  <1>4. /\ \A c, p, o : /\ Says(db, c, p, o) /\ c # unmerge.source
                        /\ ~(c \in Affs(account) /\ p = "address" /\ o = account)
                        => Says(after, c, p, o)
        /\ Exists(after, contact)
        /\ Affs(account) # {} => /\ Says(after, contact, "affiliation", affiliation)
                                 /\ Says(after, affiliation, "address", account)
        /\ \A q \in after : q.s = unmerge.source =>
               q \in db /\ ~(q.p = "affiliation" /\ q.o \in Affs(account))
    BY <1>1, <1>2, <1>3, SplitSays
  <1>5. \A c : Exists(db, c) => Exists(after, c)
    BY SplitFacts
  <1>. HIDE DEF account, contact, affiliation, after
  <1>6. SplitWell(after, k)
    BY <1>4 DEF SplitWell, account, contact, affiliation
  <1>7. ASSUME NEW j \in 1..(k - 1) PROVE SplitWell(after, j)
    <2>1. j \in DOMAIN unmerge.accounts
      BY <1>0
    <2>2. SplitsApart(j) /\ NewAffiliation[j] \in Blank
      BY <2>1, ReadyFacts DEF SplitReady
    <2>3. NewContact[j] # unmerge.source /\ NewAffiliation[j] # unmerge.source
      BY <2>2 DEF SplitsApart
    <2>4. NewAffiliation[j] \notin Affs(account)
      BY <1>1, <2>2, ReadyFacts
    <2>5. SplitWell(db, j)
      BY <1>7
    <2>6. Affs(unmerge.accounts[j]) # {} =>
              /\ Says(after, NewContact[j], "affiliation", NewAffiliation[j])
              /\ Says(after, NewAffiliation[j], "address", unmerge.accounts[j])
      BY <1>4, <2>3, <2>4, <2>5 DEF SplitWell
    <2>. QED
      BY <1>4, <1>5, <2>5, <2>6 DEF SplitWell
  <1>. QED
    BY <1>0, <1>6, <1>7 DEF after

\* After the update each account has its contact.
LEMMA SplitAllMakes ==
    ASSUME UnmergeReads, SplitReady, AccountsDiffer, AllQuads(store),
           NEW db, db = FoldLeft(SplitOff, store, [n \in DOMAIN unmerge.accounts |-> n])
    PROVE  /\ SplitSoFar(db, Len(unmerge.accounts))
           /\ \A j \in 1..Len(unmerge.accounts) : SplitWell(db, j)
  <1>1. PICK S, P, O, G : UnmergeData(S, P, O, G) /\ store \in SUBSET Quads(S, P, O, G)
    BY SplitReads
  <1>. DEFINE n == Len(unmerge.accounts)
              A == [k \in 0..n |-> {x \in SUBSET Quads(S, P, O, G) :
                        SplitSoFar(x, k) /\ \A j \in 1..k : SplitWell(x, j)}]
  <1>2. n \in Nat /\ DOMAIN unmerge.accounts = 1..n
    BY DEF UnmergeReads
  <1>3. PICK fold : SplitSteps(fold, SUBSET Quads(S, P, O, G), db)
    BY <1>1, SplitAllFold
  <1>. HIDE DEF n
  <1>4. \A k \in 0..n : \A x : x \in A[k] <=> /\ x \in SUBSET Quads(S, P, O, G) /\ SplitSoFar(x, k)
                                              /\ \A j \in 1..k : SplitWell(x, j)
    OBVIOUS
  <1>. HIDE DEF A
  <1>5. fold[1..0] \in A[0]
    BY <1>1, <1>2, <1>3, <1>4, SplitStarts DEF SplitSteps
  <1>6. ASSUME NEW k \in 1..n, fold[1..(k - 1)] \in A[k - 1] PROVE fold[1..k] \in A[k]
    <2>1. k \in DOMAIN unmerge.accounts /\ k - 1 \in 0..n /\ k \in 0..n
      BY <1>2
    <2>2. /\ fold[1..(k - 1)] \in SUBSET Quads(S, P, O, G) /\ SplitSoFar(fold[1..(k - 1)], k - 1)
          /\ \A j \in 1..(k - 1) : SplitWell(fold[1..(k - 1)], j)
          /\ fold[1..k] = SplitOff(fold[1..(k - 1)], k)
      BY <1>3, <1>4, <1>6, <2>1 DEF SplitSteps, n
    <2>3. SplitSoFar(fold[1..k], k)
      BY <1>1, <2>1, <2>2, SplitKeeps
    <2>4. fold[1..k] \in SUBSET Quads(S, P, O, G)
      <3>1. SplitOff(fold[1..(k - 1)], k) \in SUBSET Quads(S, P, O, G)
        BY <1>1, <2>1, <2>2, SplitFacts
      <3>. QED
        BY <2>2, <3>1
    <2>5. \A j \in 1..k : SplitWell(fold[1..k], j)
      BY <1>1, <2>1, <2>2, SplitMakes
    <2>. QED
      BY <1>4, <2>1, <2>3, <2>4, <2>5
  <1>7. \A k \in 0..n : fold[1..k] \in A[k]
    BY <1>2, <1>5, <1>6, FoldReaches
  <1>8. n \in 0..n
    BY <1>2
  <1>. QED
    BY <1>3, <1>4, <1>7, <1>8 DEF SplitSteps, n

\* No affiliation of the source leads to an account that was split off.
LEMMA SourceLosesAccount ==
    ASSUME SplitReady, AccountsOnce(store), AllQuads(store), NEW k, NEW db, SplitSoFar(db, k),
           NEW n, SplitWell(db, n), unmerge.accounts[n] \in Account,
           \A a \in Account : LinksTo(a) # {} => Affs(a) # {}
    PROVE  ~Reaches(db, unmerge.source, unmerge.accounts[n])
  <1>. DEFINE account == unmerge.accounts[n]
  <1>. SUFFICES ASSUME Reaches(db, unmerge.source, account) PROVE FALSE
    OBVIOUS
  <1>1. PICK x : Says(db, unmerge.source, "affiliation", x) /\ Says(db, x, "address", account)
    BY ReachesSays
  <1>2. PICK q \in db : q.s = unmerge.source /\ q.p = "affiliation" /\ q.o = x
    BY <1>1 DEF Says
  <1>3. PICK y \in db : y.s = x /\ y.p = "address" /\ y.o = account
    BY <1>1 DEF Says
  <1>4. q \in store /\ x \notin Blank
    BY <1>2 DEF SplitSoFar, SplitReady, AccountsApart
  <1>5. y \in store
    BY <1>3, <1>4 DEF SplitSoFar
  <1>6. q.g # "none" /\ y.g = q.g
    BY <1>2, <1>3, <1>4, <1>5 DEF AccountsOnce, Linked
  <1>7. y = Quad(q.o, "address", account, q.g)
    BY <1>2, <1>3, <1>5, <1>6 DEF AllQuads
  <1>8. [graph |-> q.g, affiliation |-> q.o] \in LinksTo(account)
    BY <1>2, <1>4, <1>5, <1>6, <1>7 DEF LinksTo
  <1>9. PICK l \in unmerge.affiliations[account] : TRUE
    BY <1>8 DEF Affs
  <1>10. Quad(l.affiliation, "address", account, l.graph) \in store
    BY <1>9 DEF SplitReady, AffiliationsRead
  <1>11. l.affiliation = x
    BY <1>3, <1>5, <1>10 DEF AccountsOnce, Quad
  <1>12. x \in Affs(account)
    BY <1>9, <1>11 DEF Affs
  <1>. QED
    BY <1>2, <1>12 DEF SplitWell

\* A part of a store where an account has one affiliation is such a store.
LEMMA FewerOnce ==
    ASSUME NEW db, AccountsOnce(db), NEW less \in SUBSET db
    PROVE  AccountsOnce(less)
  BY DEF AccountsOnce

\* Statements that are about no affiliation and no address add none.
LEMMA OthersOnce ==
    ASSUME NEW db, AccountsOnce(db), NEW new,
           \A q \in new : q.p # "address" /\ q.p # "affiliation"
    PROVE  AccountsOnce(db \cup new)
  BY DEF AccountsOnce, Linked

\* A copy of an affiliation stays in its graph: it is copied there first, and
\* the copy without a graph is no new statement any more.
LEMMA CopyOnce ==
    ASSUME NEW S, NEW P, NEW O, NEW G, NEW acc \in Accumulators(S, P, O, G),
           NEW t \in Contact, NEW s \in Contact,
           AccountsApart(acc.db), AccountsOnce(acc.db), AffiliationsKnown(acc.known)
    PROVE  /\ AccountsOnce(CopyFrom(acc, t, s).db)
           /\ AffiliationsKnown(CopyFrom(acc, t, s).known)
  <1>. DEFINE from == acc.known[s]
              taken == acc.known[t].single \cup acc.known[t].singleWithGraph
              graphed == (from.singleWithGraph \ taken) \cup (from.multiWithGraph \ {"type"})
              plain == (from.single \ taken) \cup (from.multi \ {"type"})
              inGraph == {[q EXCEPT !.s = t] :
                             q \in {x \in acc.db : x.s = s /\ x.p \in graphed /\ x.g # "none"}}
              copies == {[q EXCEPT !.s = t, !.g = "none"] :
                            q \in {x \in acc.db : x.s = s /\ x.p \in plain}}
              single == acc.known[t].single \cup ((from.single \cup from.singleWithGraph) \ taken)
              first == Insert(acc.db, inGraph)
              after == Insert(first, copies)
  <1>1. /\ acc.db \in SUBSET Quads(S, P, O, G) /\ acc.known \in [Contact -> Properties(P)]
        /\ acc = [db |-> acc.db, known |-> acc.known]
    BY DEF Accumulators
  <1>2. /\ CopyFrom(acc, t, s).db = after
        /\ CopyFrom(acc, t, s).known = [acc.known EXCEPT ![t].single = single]
    BY <1>1 DEF CopyFrom
  <1>3. ASSUME NEW x \in acc.db
        PROVE  /\ [x EXCEPT !.s = t].s = t /\ [x EXCEPT !.s = t].p = x.p
               /\ [x EXCEPT !.s = t].o = x.o /\ [x EXCEPT !.s = t].g = x.g
               /\ [x EXCEPT !.s = t, !.g = "none"].s = t /\ [x EXCEPT !.s = t, !.g = "none"].p = x.p
               /\ [x EXCEPT !.s = t, !.g = "none"].o = x.o
    BY <1>1, <1>3 DEF Quads
  <1>4. /\ \A q \in inGraph : \E x \in acc.db : /\ x.s = s /\ x.p \in graphed /\ x.g # "none"
                                                /\ q = [x EXCEPT !.s = t]
        /\ \A x \in acc.db : x.s = s /\ x.p \in graphed /\ x.g # "none" =>
               [x EXCEPT !.s = t] \in inGraph
        /\ \A q \in copies : \E x \in acc.db : /\ x.s = s /\ x.p \in plain
                                               /\ q = [x EXCEPT !.s = t, !.g = "none"]
    OBVIOUS
  <1>5. "affiliation" \in plain => "affiliation" \in graphed
    BY DEF AffiliationsKnown
  <1>6. "affiliation" \notin single
    BY DEF AffiliationsKnown
  <1>7. AffiliationsKnown(CopyFrom(acc, t, s).known)
    <2>1. \A c \in Contact :
              /\ CopyFrom(acc, t, s).known[c].single = (IF c = t THEN single ELSE acc.known[c].single)
              /\ CopyFrom(acc, t, s).known[c].singleWithGraph = acc.known[c].singleWithGraph
              /\ CopyFrom(acc, t, s).known[c].multi = acc.known[c].multi
              /\ CopyFrom(acc, t, s).known[c].multiWithGraph = acc.known[c].multiWithGraph
      <3>. HIDE DEF single, after
      <3>. QED
        BY <1>1, <1>2 DEF Properties
    <2>. HIDE DEF single
    <2>. QED
      BY <1>6, <2>1 DEF AffiliationsKnown
  <1>. HIDE DEF inGraph, copies, plain, graphed
  <1>8. ASSUME NEW q \in inGraph
        PROVE  /\ q.s = t /\ q.p # "address"
               /\ q.p = "affiliation" =>
                      \E x \in acc.db : x.p = "affiliation" /\ x.o = q.o /\ x.g = q.g
    <2>1. PICK x \in acc.db : x.s = s /\ q = [x EXCEPT !.s = t]
      BY <1>4
    <2>2. q.s = t /\ q.p = x.p /\ q.o = x.o /\ q.g = x.g
      BY <1>3, <2>1
    <2>. QED
      BY <2>1, <2>2 DEF AccountsApart
  <1>9. ASSUME NEW q \in copies
        PROVE  q.p # "address" /\ (q.p = "affiliation" => q.o \in Values(first, q.s, q.p))
    <2>1. PICK x \in acc.db : x.s = s /\ x.p \in plain /\ q = [x EXCEPT !.s = t, !.g = "none"]
      BY <1>4
    <2>2. q.s = t /\ q.p = x.p /\ q.o = x.o
      BY <1>3, <2>1
    <2>3. x.p # "address"
      BY <2>1 DEF AccountsApart
    <2>4. ASSUME q.p = "affiliation" PROVE q.o \in Values(first, q.s, q.p)
      <3>. DEFINE y == [x EXCEPT !.s = t]
      <3>1. x.g # "none" /\ x.p \in graphed
        BY <1>5, <2>1, <2>2, <2>4 DEF AccountsOnce
      <3>2. y \in inGraph /\ y.s = q.s /\ y.p = q.p /\ y.o = q.o
        BY <1>3, <1>4, <2>1, <2>2, <3>1
      <3>. HIDE DEF y
      <3>3. Says(first, y.s, y.p, y.o)
        BY <3>2, InsertSays
      <3>. QED
        BY <3>2, <3>3 DEF Says, Values
    <2>. QED
      BY <2>2, <2>3, <2>4
  <1>10. \A q \in after :
             /\ q.p = "address" => q \in acc.db
             /\ q.p = "affiliation" =>
                    \E x \in acc.db : x.p = "affiliation" /\ x.o = q.o /\ x.g = q.g
    BY <1>8, <1>9 DEF Insert
  <1>. HIDE DEF after
  <1>11. AccountsOnce(after)
    BY <1>10 DEF AccountsOnce, Linked
  <1>. QED
    BY <1>2, <1>7, <1>11

\* An update that merges gives no account a second affiliation.
LEMMA MergeAllOnce ==
    ASSUME NEW S, NEW P, NEW O, NEW G, MergeData(S, P, O, G),
           NEW order, NEW sources, NEW picked, MergePlan(order, sources, picked),
           AccountsApart(store), AccountsOnce(store), AffiliationsKnown(merge.predicates),
           "none" \notin Account
    PROVE  AccountsOnce(MergeAll(order, sources, picked))
  <1>. DEFINE X == Accumulators(S, P, O, G)
              A == {x \in X : /\ AccountsApart(x.db) /\ AccountsOnce(x.db)
                              /\ AffiliationsKnown(x.known)}
  <1>1. Contact \subseteq S /\ {"none", "qct"} \subseteq G /\ "generator" \in P
    BY DEF MergeData
  <1>2. [db |-> store, known |-> merge.predicates] \in A
    BY DEF MergeData, Accumulators
  <1>3. \A x \in A : \A t, s \in Contact : CopyFrom(x, t, s) \in A
    BY <1>1, CopyApart, CopyOnce, CopyFromFacts
  <1>4. ASSUME NEW x \in A, NEW t \in Contact, NEW gone \in SUBSET Contact, NEW target \in O
        PROVE  Cleared(x, t, gone, target) \in A
    <2>. DEFINE mark == {Quad(t, "generator", target, "qct")}
    <2>0. x \in X /\ AccountsApart(x.db) /\ AccountsOnce(x.db) /\ AffiliationsKnown(x.known)
      OBVIOUS
    <2>. HIDE DEF A
    <2>1. Cleared(x, t, gone, target) \in X
      BY <1>1, <2>0, ClearedType
    <2>2. /\ Cleared(x, t, gone, target).db \subseteq x.db \cup mark
          /\ Cleared(x, t, gone, target).known = x.known
      <3>1. /\ \A q \in Cleared(x, t, gone, target).db :
                   q \in x.db \/ q = Quad(t, "generator", target, "qct")
            /\ Cleared(x, t, gone, target).known = x.known
        BY <2>0, ClearedFacts
      <3>. QED
        BY <3>1
    <2>3. \A q \in mark : q.p = "generator"
      BY DEF Quad
    <2>. HIDE DEF mark
    <2>4. AccountsApart(x.db \cup mark) /\ AccountsOnce(x.db \cup mark)
      BY <2>0, <2>3, OthersApart, OthersOnce
    <2>. QED
      BY <2>0, <2>1, <2>2, <2>4, FewerApart, FewerOnce DEF A
  <1>5. KeptByMerging(A, Contact, O)
    BY <1>3, <1>4 DEF KeptByMerging
  <1>. HIDE DEF A
  <1>6. A \in SUBSET X
    BY DEF A
  <1>7. Contact \in SUBSET Contact /\ \A k \in 1..Len(order) : order[k] \in Contact
    BY DEF MergePlan
  <1>8. \E x \in A : MergeAll(order, sources, picked) = x.db
    BY <1>2, <1>5, <1>6, <1>7, MergeAllStays
  <1>. QED
    BY <1>8 DEF A

\* Steps of a merge give no account a second affiliation.
LEMMA MergesOnce ==
    ASSUME SelfIsSafe, EachAccountOnce, AllQuads(store), MergeHolds, MergeNext,
           AccountsApart(store), AccountsOnce(store), AffiliationsKnown(merge.predicates)
    PROVE  AccountsOnce(store') /\ AffiliationsKnown(merge'.predicates)
  <1>1. CASE Merge
    <2>1. PICK db \in Outcomes : store' = db \/ store' = store
      BY <1>1 DEF Merge
    <2>2. merge.pc = "update" /\ merge'.predicates = merge.predicates
      BY <1>1 DEF Merge, MergeHolds
    <2>3. IsFiniteSet(merge.pairs) /\ merge.pairs \subseteq Contact \X (Contact \ {Self})
      BY <2>2, PairsFacts
    <2>4. PICK order, sources, picked :
              MergePlan(order, sources, picked) /\ db = MergeAll(order, sources, picked)
      BY <2>3, OutcomePlan DEF MergeChoice
    <2>5. PICK S, P, O, G : MergeData(S, P, O, G)
      BY MergeReads
    <2>6. AccountsOnce(db)
      BY <2>4, <2>5, MergeAllOnce DEF EachAccountOnce, AccountsAreApart
    <2>. QED
      BY <2>1, <2>2, <2>6
  <1>2. ASSUME NEW c \in merge.left, FetchDetails(c)
        PROVE  AccountsOnce(store') /\ AffiliationsKnown(merge'.predicates)
    <2>1. PICK P : merge.predicates \in [Contact -> Properties(P)]
      BY DEF MergeHolds
    <2>2. /\ merge'.predicates = [merge.predicates EXCEPT ![c] = PropertiesOf(c)]
          /\ store' = store
      BY <1>2 DEF MergeHolds, FetchDetails
    <2>3. /\ "affiliation" \in PropertiesOf(c).multi =>
                 "affiliation" \in PropertiesOf(c).multiWithGraph
          /\ "affiliation" \notin PropertiesOf(c).single \cup PropertiesOf(c).singleWithGraph
      BY DEF PropertiesOf, Described, AccountsOnce, EachAccountOnce
    <2>4. \A d \in Contact : merge'.predicates[d] =
              IF d = c THEN PropertiesOf(c) ELSE merge.predicates[d]
      BY <2>1, <2>2
    <2>. QED
      BY <2>2, <2>3, <2>4 DEF AffiliationsKnown
  <1>3. CASE ~Merge /\ ~\E c \in merge.left : FetchDetails(c)
    <2>1. store' = store /\ merge'.predicates = merge.predicates
      BY <1>3 DEF MergeNext, AskMerge, RejectMerge, ResolveMerge, NothingInGraphs,
                  RefuseMerge, MergeFails, MergeHolds
    <2>. QED
      BY <2>1
  <1>. QED
    BY <1>1, <1>2, <1>3

\* The requests for relationships give no account a second affiliation.
LEMMA RelationsOnce ==
    ASSUME RelationNext, AccountsOnce(store)
    PROVE  AccountsOnce(store')
  <1>1. CASE SaveRelations
    <2>. DEFINE new == UNION {Joining(i) : i \in Accepted}
    <2>1. \A q \in new : q.p = "memberOf"
      BY DEF Joining, Quad
    <2>2. store' = Insert(store, new)
      BY <1>1 DEF SaveRelations
    <2>. HIDE DEF new
    <2>3. AccountsOnce(store \cup new)
      BY <2>1, OthersOnce
    <2>4. store' \subseteq store \cup new
      BY <2>2 DEF Insert
    <2>. QED
      BY <2>3, <2>4, FewerOnce
  <1>2. CASE RemoveRelations
    <2>1. store' \subseteq store
      BY <1>2 DEF RemoveRelations
    <2>. QED
      BY <2>1, FewerOnce
  <1>3. CASE ~SaveRelations /\ ~RemoveRelations
    <2>1. store' = store
      BY <1>3 DEF RelationNext, AskRelations, SaveNothing, EditFails, AskMemberships, FetchRole,
                  FetchAsGroup, FetchAsMember, FetchUnsupported, FetchFails
    <2>. QED
      BY <2>1
  <1>. QED
    BY <1>1, <1>2, <1>3

-----------------------------------------------------------------------------

Emptied(n) ==
    /\ SplitWell(store, n)
    /\ ~Reaches(store, unmerge.source, unmerge.accounts[n])

\* What is known of an unmerging that nobody disturbs.
SplitsKnow ==
    /\ BeforeUpdate => AccountsOnce(store) /\ AffiliationsKnown(merge.predicates)
    /\ unmerge.pc = "update" =>
           /\ PredicatesRead /\ AffiliationsRead
           /\ \A a \in Account : LinksTo(a) # {} => Affs(a) # {}
    /\ unmerge.pc = "ids" => \A n \in DOMAIN unmerge.accounts : Emptied(n)

SplitsHold == "unmerge" \in requests => "removal" \notin requests /\ SplitsKnow

\* At first what is known of an unmerging that nobody disturbs is so.
LEMMA SplitsInit == EachAccountOnce /\ Init => SplitsHold
  <1>. SUFFICES ASSUME EachAccountOnce, Init, "unmerge" \in requests
                PROVE  "removal" \notin requests /\ SplitsKnow
    BY DEF SplitsHold
  <1>1. unmerge.pc = "idle"
    BY DEF Init, NoUnmerge
  <1>2. AccountsOnce(store) /\ "removal" \notin requests
    BY DEF Init, EachAccountOnce
  <1>3. AffiliationsKnown(merge.predicates)
    BY DEF Init, NoMerge, NoProperties, AffiliationsKnown
  <1>. QED
    BY <1>1, <1>2, <1>3 DEF SplitsKnow

\* Steps of the unmerging keep that,
LEMMA SplitsLearn ==
    ASSUME EachAccountOnce, AllQuads(store), UnmergeHolds, UnmergeKnows, SplitsKnow, UnmergeNext,
           UNCHANGED merge
    PROVE  SplitsKnow'
  <1>. USE DEF UnmergeHolds
  <1>1. CASE AskUnmerge \/ ResolveSource
    <2>1. store' = store /\ BeforeUpdate /\ unmerge'.pc \in {"resolve", "fetch"}
      BY <1>1 DEF AskUnmerge, ResolveSource, BeforeUpdate
    <2>. QED
      BY <2>1 DEF SplitsKnow
  <1>2. CASE RejectUnmerge \/ ResolveUnmerged \/ UnmergeFails
    <2>1. unmerge'.pc = "done"
      BY <1>2 DEF RejectUnmerge, ResolveUnmerged, UnmergeFails
    <2>. QED
      BY <2>1 DEF SplitsKnow, BeforeUpdate
  <1>3. CASE FetchPredicates
    <2>1. /\ unmerge'.pc = "update" /\ store' = store /\ PredicatesRead' /\ AffiliationsRead'
          /\ \A a \in Account : LinksTo(a)' # {} => Affs(a)' # {}
      BY <1>3, FetchReads
    <2>2. AccountsOnce(store) /\ AffiliationsKnown(merge.predicates)
      BY <1>3 DEF SplitsKnow, BeforeUpdate, FetchPredicates
    <2>. QED
      BY <2>1, <2>2 DEF SplitsKnow
  <1>4. CASE UnmergeContacts
    <2>1. /\ unmerge.pc = "update" /\ unmerge'.pc = "ids" /\ unmerge'.source = unmerge.source
          /\ unmerge'.accounts = unmerge.accounts /\ unmerge'.affiliations = unmerge.affiliations
      BY <1>4 DEF UnmergeContacts
    <2>2. PredicatesRead /\ AffiliationsRead /\ AccountsOnce(store)
      BY <2>1 DEF SplitsKnow, BeforeUpdate
    <2>3. SplitReady
      BY <2>1, <2>2, ReadIsReady DEF EachAccountOnce
    <2>4. AccountsDiffer
      BY <2>1 DEF EachAccountOnce, AccountsDiffer
    <2>5. /\ SplitSoFar(store', Len(unmerge.accounts))
          /\ \A j \in 1..Len(unmerge.accounts) : SplitWell(store', j)
      BY <1>4, <2>3, <2>4, SplitAllMakes DEF UnmergeContacts
    <2>6. ASSUME NEW n \in DOMAIN unmerge.accounts
          PROVE  /\ SplitWell(store', n)
                 /\ ~Reaches(store', unmerge.source, unmerge.accounts[n])
      <3>1. SplitWell(store', n) /\ unmerge.accounts[n] \in Account
        BY <2>5 DEF UnmergeReads
      <3>. QED
        BY <2>1, <2>2, <2>3, <2>5, <3>1, SourceLosesAccount DEF SplitsKnow
    <2>7. \A n \in DOMAIN unmerge'.accounts : Emptied(n)'
      BY <2>1, <2>6 DEF Emptied, SplitWell, Affs
    <2>. QED
      BY <2>1, <2>7 DEF SplitsKnow, BeforeUpdate
  <1>. QED
    BY <1>1, <1>2, <1>3, <1>4 DEF UnmergeNext

\* and so do all steps.
LEMMA SplitsNext ==
    SelfIsSafe /\ EachAccountOnce /\ EditsHold /\ UnmergesHold /\ SplitsHold /\ [Next]_vars
        => SplitsHold'
  <1>. SUFFICES ASSUME SelfIsSafe, EachAccountOnce, EditsHold, UnmergesHold, SplitsHold,
                       [Next]_vars, "unmerge" \in requests'
                PROVE  "removal" \notin requests' /\ SplitsKnow'
    BY DEF SplitsHold
  <1>. USE DEF EditsHold
  <1>1. UNCHANGED requests
    BY DEF Next, vars, RunMerge, RunUnmerge, EditRelations, RemoveElsewhere, Fetch
  <1>2. "removal" \notin requests /\ SplitsKnow /\ UnmergeKnows
    BY <1>1 DEF SplitsHold, UnmergesHold
  <1>3. CASE RunMerge \/ EditRelations
    <2>1. unmerge.pc \notin {"update", "ids"} /\ UNCHANGED unmerge
      BY <1>3 DEF RunMerge, EditRelations, Rests
    <2>2. BeforeUpdate => /\ AccountsApart(store) /\ AccountsOnce(store)
                          /\ AffiliationsKnown(merge.predicates)
      BY <1>2 DEF SplitsKnow, UnmergeKnows
    <2>3. BeforeUpdate => AccountsOnce(store') /\ AffiliationsKnown(merge'.predicates)
      BY <1>3, <2>2, MergesOnce, RelationsOnce DEF RunMerge, EditRelations
    <2>. QED
      BY <1>1, <1>2, <2>1, <2>3 DEF SplitsKnow, BeforeUpdate
  <1>4. CASE RunUnmerge
    BY <1>1, <1>2, <1>4, SplitsLearn DEF RunUnmerge
  <1>5. CASE Fetch \/ UNCHANGED vars
    <2>1. UNCHANGED <<store, merge, unmerge>>
      BY <1>5, FetchKeeps DEF Fetch, vars
    <2>. QED
      BY <1>1, <1>2, <2>1 DEF SplitsKnow, BeforeUpdate, Emptied, SplitWell, Affs, PredicatesRead,
                              AffiliationsRead, LinksTo
  <1>. QED
    BY <1>2, <1>3, <1>4, <1>5 DEF Next, RemoveElsewhere

\* "For each detached (unmerged) online account, a new contact will be created"
\* (unmergeimcontactsrequest.h:43): position by position, an id that is reported
\* without an error is of a contact that exists and has the account, which the
\* source has no more.  Accounts are named once, have one affiliation in a graph
\* when the requests start, and no contact is removed meanwhile.
THEOREM AccountsHaveContacts ==
    SelfIsSafe /\ EachAccountOnce /\ Spec => ContactPerAccount
  <1>. SUFFICES ASSUME SelfIsSafe, EachAccountOnce PROVE Spec => ContactPerAccount
    OBVIOUS
  <1>. DEFINE Split ==
           unmerge.pc = "ids" /\ unmerge'.pc = "done" /\ unmerge'.error = "none" =>
               \A n \in DOMAIN unmerge.accounts :
                   LET account == unmerge.accounts[n]
                   IN  /\ Exists(store, unmerge'.ids[n])
                       /\ unmerge.affiliations[account] # {} =>
                              Reaches(store, unmerge'.ids[n], account)
                       /\ ~Reaches(store, unmerge.source, account)
  <1>1. Init => EditsHold /\ UnmergesHold /\ SplitsHold
    BY EditsInit, UnmergesInit, SplitsInit DEF EachAccountOnce
  <1>2. EditsHold /\ UnmergesHold /\ SplitsHold /\ [Next]_vars
            => (EditsHold /\ UnmergesHold /\ SplitsHold)'
    BY EditsNext, UnmergesNext, SplitsNext DEF EachAccountOnce
  <1>3. EditsHold /\ UnmergesHold /\ SplitsHold /\ [Next]_vars => [Split]_<<store, unmerge>>
    <2>. SUFFICES ASSUME EditsHold, UnmergesHold, SplitsHold, [Next]_vars, unmerge.pc = "ids",
                         unmerge'.pc = "done", unmerge'.error = "none",
                         NEW n \in DOMAIN unmerge.accounts
                  PROVE  /\ Exists(store, unmerge'.ids[n])
                         /\ unmerge.affiliations[unmerge.accounts[n]] # {} =>
                                Reaches(store, unmerge'.ids[n], unmerge.accounts[n])
                         /\ ~Reaches(store, unmerge.source, unmerge.accounts[n])
      OBVIOUS
    <2>1. RunUnmerge
      BY DEF Next, vars, RunMerge, EditRelations, RemoveElsewhere, Fetch
    <2>2. ResolveUnmerged
      BY <2>1 DEF RunUnmerge, UnmergeNext, AskUnmerge, RejectUnmerge, ResolveSource,
                  FetchPredicates, UnmergeContacts, UnmergeFails, EditsHold, UnmergeHolds
    <2>3. Emptied(n)
      BY <2>1 DEF SplitsHold, SplitsKnow, RunUnmerge
    <2>4. unmerge'.ids[n] = NewContact[n]
      BY <2>2, <2>3 DEF ResolveUnmerged, Emptied, SplitWell
    <2>5. unmerge.affiliations[unmerge.accounts[n]] # {} =>
              Reaches(store, NewContact[n], unmerge.accounts[n])
      BY <2>3, ReachesBySays DEF Emptied, SplitWell, Affs
    <2>. QED
      BY <2>3, <2>4, <2>5 DEF Emptied, SplitWell
  <1>4. Spec => [][Split]_<<store, unmerge>>
    BY <1>1, <1>2, <1>3, PTL DEF Spec
  <1>. QED
    BY <1>4 DEF ContactPerAccount

-----------------------------------------------------------------------------
(* What merging keeps. *)

\* What a store is like: properties of one value have one, which is in a graph
\* for all contacts or for none; and sync targets are in the engine's graph.
MergeFine(db) ==
    /\ Consistent(db)
    /\ \A q, x \in db : q.p = x.p /\ q.p \in Single => (q.g = "none" <=> x.g = "none")
    /\ \A q \in db : q.p = "generator" => q.g = "qct"

\* No contact is merged into two, or into one that is merged itself; and what
\* unmerging makes is new.
MergesAreApart ==
    /\ "generator" \in Single /\ {"type", "affiliation", "address", "memberOf"} \cap Single = {}
    /\ \A s \in Scenarios : "merge" \in s.requests => MergeFine(s.store)
    /\ \A s \in Scenarios : {"merge", "unmerge"} \subseteq s.requests =>
           \A q \in s.store : q.s \notin Made
    /\ \A pairs \in MergeMaps : \A p, r \in pairs :
           p[1] # r[2] /\ (p[2] = r[2] => p[1] = r[1])
    /\ Blank \cap Contact = {} /\ "qct" \notin Account
    /\ \A i, j \in 1..Len(NewContact) : NewContact[i] = NewContact[j] => i = j

Together == Destinations \cup {pair[2] : pair \in merge.pairs}

\* What is known of properties: of one value or not.
Sorted(known) ==
    \A c \in Contact :
        /\ known[c].single \cup known[c].singleWithGraph \subseteq Single \ {"generator"}
        /\ (known[c].multi \cup known[c].multiWithGraph) \cap Single = {}

\* What was read of a contact is still so.
PropertiesRead(c) ==
    LET known == merge.predicates[c]
        has == {q.p : q \in Described(c)}
    IN  /\ known.single \cup known.singleWithGraph = has \cap Single
        /\ known.multi = has \ Single
        /\ \A p \in known.singleWithGraph : \E q \in Described(c) : q.p = p /\ q.g # "none"
        /\ Values(store, c, "generator") # {} =>
               merge.syncTargets[c] \in Values(store, c, "generator")

\* Properties of one value are noted where they are.
Noted(acc, c) ==
    \A q \in acc.db : q.s = c /\ q.p \in Single /\ q.p # "generator" =>
        q.p \in acc.known[c].single \cup acc.known[c].singleWithGraph

\* A copy of one source, statement by statement.
LEMMA CopiedFacts ==
    ASSUME NEW S, NEW P, NEW O, NEW G, NEW acc \in Accumulators(S, P, O, G),
           NEW t \in Contact, NEW s \in Contact
    PROVE  LET from == acc.known[s]
               taken == acc.known[t].single \cup acc.known[t].singleWithGraph
               graphed == (from.singleWithGraph \ taken) \cup (from.multiWithGraph \ {"type"})
               plain == (from.single \ taken) \cup (from.multi \ {"type"})
               after == CopyFrom(acc, t, s)
           IN  /\ acc.db \subseteq after.db
               /\ \A q \in after.db : \/ q \in acc.db
                                      \/ /\ q.s = t
                                         /\ \E x \in acc.db : /\ x.s = s /\ x.p = q.p /\ x.o = q.o
                                                              /\ x.p \in graphed \cup plain
               /\ \A x \in acc.db : /\ x.s = s
                                    /\ x.p \in plain \/ (x.p \in graphed /\ x.g # "none")
                                    => Says(after.db, t, x.p, x.o)
               /\ \A c \in Contact \ {t} : after.known[c] = acc.known[c]
               /\ after.known[t].single = acc.known[t].single
                      \cup ((from.single \cup from.singleWithGraph) \ taken)
               /\ after.known[t].singleWithGraph = acc.known[t].singleWithGraph
               /\ after.known[t].multi = acc.known[t].multi
               /\ after.known[t].multiWithGraph = acc.known[t].multiWithGraph
  <1>. DEFINE from == acc.known[s]
              taken == acc.known[t].single \cup acc.known[t].singleWithGraph
              graphed == (from.singleWithGraph \ taken) \cup (from.multiWithGraph \ {"type"})
              plain == (from.single \ taken) \cup (from.multi \ {"type"})
              inGraph == {[q EXCEPT !.s = t] :
                             q \in {x \in acc.db : x.s = s /\ x.p \in graphed /\ x.g # "none"}}
              copies == {[q EXCEPT !.s = t, !.g = "none"] :
                            q \in {x \in acc.db : x.s = s /\ x.p \in plain}}
              single == acc.known[t].single \cup ((from.single \cup from.singleWithGraph) \ taken)
              first == Insert(acc.db, inGraph)
              after == CopyFrom(acc, t, s)
  <1>1. /\ acc.db \in SUBSET Quads(S, P, O, G) /\ acc.known \in [Contact -> Properties(P)]
        /\ acc = [db |-> acc.db, known |-> acc.known]
    BY DEF Accumulators
  <1>2. /\ after.db = Insert(first, copies)
        /\ after.known = [acc.known EXCEPT ![t].single = single]
    BY <1>1 DEF CopyFrom
  <1>3. ASSUME NEW x \in acc.db
        PROVE  /\ [x EXCEPT !.s = t].s = t /\ [x EXCEPT !.s = t].p = x.p
               /\ [x EXCEPT !.s = t].o = x.o
               /\ [x EXCEPT !.s = t, !.g = "none"].s = t /\ [x EXCEPT !.s = t, !.g = "none"].p = x.p
               /\ [x EXCEPT !.s = t, !.g = "none"].o = x.o
    BY <1>1, <1>3 DEF Quads
  <1>4. /\ \A q \in inGraph : \E x \in acc.db : /\ x.s = s /\ x.p \in graphed
                                                /\ q = [x EXCEPT !.s = t]
        /\ \A x \in acc.db : x.s = s /\ x.p \in graphed /\ x.g # "none" =>
               [x EXCEPT !.s = t] \in inGraph
        /\ \A q \in copies : \E x \in acc.db : /\ x.s = s /\ x.p \in plain
                                               /\ q = [x EXCEPT !.s = t, !.g = "none"]
        /\ \A x \in acc.db : x.s = s /\ x.p \in plain => [x EXCEPT !.s = t, !.g = "none"] \in copies
    OBVIOUS
  <1>5. /\ \A c \in Contact \ {t} : after.known[c] = acc.known[c]
        /\ after.known[t].single = single
        /\ after.known[t].singleWithGraph = acc.known[t].singleWithGraph
        /\ after.known[t].multi = acc.known[t].multi
        /\ after.known[t].multiWithGraph = acc.known[t].multiWithGraph
    <2>. HIDE DEF single, after
    <2>1. after.known[t] = [acc.known[t] EXCEPT !.single = single]
      BY <1>1, <1>2
    <2>2. \A c \in Contact \ {t} : after.known[c] = acc.known[c]
      BY <1>1, <1>2
    <2>3. acc.known[t] \in Properties(P)
      BY <1>1
    <2>. QED
      BY <2>1, <2>2, <2>3 DEF Properties
  <1>. HIDE DEF inGraph, copies, plain, graphed, after
  <1>6. acc.db \subseteq after.db
    BY <1>2 DEF Insert
  <1>7. ASSUME NEW q \in inGraph
        PROVE  q.s = t /\ \E x \in acc.db : /\ x.s = s /\ x.p = q.p /\ x.o = q.o
                                            /\ x.p \in graphed \cup plain
    <2>1. PICK x \in acc.db : x.s = s /\ x.p \in graphed /\ q = [x EXCEPT !.s = t]
      BY <1>4
    <2>. QED
      BY <1>3, <2>1
  <1>8. ASSUME NEW q \in copies
        PROVE  q.s = t /\ \E x \in acc.db : /\ x.s = s /\ x.p = q.p /\ x.o = q.o
                                            /\ x.p \in graphed \cup plain
    <2>1. PICK x \in acc.db : x.s = s /\ x.p \in plain /\ q = [x EXCEPT !.s = t, !.g = "none"]
      BY <1>4
    <2>. QED
      BY <1>3, <2>1
  <1>9. \A q \in after.db : q \in acc.db \/ q \in inGraph \/ q \in copies
    BY <1>2 DEF Insert
  <1>10. ASSUME NEW x \in acc.db, x.s = s, x.p \in plain
         PROVE  Says(after.db, t, x.p, x.o)
    <2>. DEFINE y == [x EXCEPT !.s = t, !.g = "none"]
    <2>1. y \in copies /\ y.s = t /\ y.p = x.p /\ y.o = x.o
      BY <1>3, <1>4, <1>10
    <2>. HIDE DEF y, first
    <2>2. Says(Insert(first, copies), y.s, y.p, y.o)
      BY <2>1, InsertSays
    <2>. QED
      BY <1>2, <2>1, <2>2
  <1>11. ASSUME NEW x \in acc.db, x.s = s, x.p \in graphed, x.g # "none"
         PROVE  Says(after.db, t, x.p, x.o)
    <2>. DEFINE y == [x EXCEPT !.s = t]
    <2>1. y \in inGraph /\ y.s = t /\ y.p = x.p /\ y.o = x.o
      BY <1>3, <1>4, <1>11
    <2>. HIDE DEF y
    <2>2. Says(first, y.s, y.p, y.o)
      BY <2>1, InsertSays
    <2>3. first \subseteq after.db
      BY <1>2 DEF Insert
    <2>. QED
      BY <2>1, <2>2, <2>3 DEF Says
  <1>. QED
    BY <1>5, <1>6, <1>7, <1>8, <1>9, <1>10, <1>11 DEF after, plain, graphed

\* What merging keeps of the store and of its notes.
Fits(acc) ==
    /\ Consistent(acc.db) /\ \A q \in acc.db : q.p = "generator" => q.g = "qct"
    /\ Sorted(acc.known)
    /\ \A c \in Destinations : Noted(acc, c)

\* Copying from a source keeps that: what was taken is noted.
LEMMA CopyFits ==
    ASSUME NEW S, NEW P, NEW O, NEW G, NEW acc \in Accumulators(S, P, O, G),
           Destinations \subseteq Contact, NEW t \in Destinations, NEW s \in Contact,
           "generator" \in Single, Fits(acc)
    PROVE  Fits(CopyFrom(acc, t, s))
  <1>. DEFINE from == acc.known[s]
              taken == acc.known[t].single \cup acc.known[t].singleWithGraph
              graphed == (from.singleWithGraph \ taken) \cup (from.multiWithGraph \ {"type"})
              plain == (from.single \ taken) \cup (from.multi \ {"type"})
              news == (from.single \cup from.singleWithGraph) \ taken
              after == CopyFrom(acc, t, s)
  <1>1. /\ acc.db \subseteq after.db
        /\ \A q \in after.db : \/ q \in acc.db
                               \/ /\ q.s = t
                                  /\ \E x \in acc.db : /\ x.s = s /\ x.p = q.p /\ x.o = q.o
                                                       /\ x.p \in graphed \cup plain
        /\ \A c \in Contact \ {t} : after.known[c] = acc.known[c]
        /\ after.known[t].single = acc.known[t].single \cup news
        /\ after.known[t].singleWithGraph = acc.known[t].singleWithGraph
        /\ after.known[t].multi = acc.known[t].multi
        /\ after.known[t].multiWithGraph = acc.known[t].multiWithGraph
    BY CopiedFacts
  <1>2. \A p \in graphed \cup plain : p \in Single => p \in news /\ p # "generator"
    BY DEF Fits, Sorted
  <1>3. news \subseteq Single \ {"generator"} /\ news \cap taken = {}
    BY DEF Fits, Sorted
  <1>4. \A q \in acc.db : q.s = t /\ q.p \in Single /\ q.p # "generator" => q.p \in taken
    BY DEF Fits, Noted
  <1>. HIDE DEF graphed, plain, news, after
  <1>5. \A q \in after.db : \/ q \in acc.db
                            \/ /\ q.s = t
                               /\ q.p \in Single => q.p \in news /\ q.p # "generator"
                               /\ \E x \in acc.db : x.s = s /\ x.p = q.p /\ x.o = q.o
    BY <1>1, <1>2
  <1>. HIDE DEF taken
  <1>6. Consistent(after.db)
    <2>. SUFFICES ASSUME NEW q \in after.db, NEW x \in after.db, q.s = x.s, q.p = x.p, q.p \in Single
                  PROVE  q.o = x.o
      BY DEF Consistent
    <2>1. CASE q \in acc.db /\ x \in acc.db
      BY <2>1 DEF Fits, Consistent
    <2>2. CASE q \notin acc.db /\ x \in acc.db
      BY <1>3, <1>4, <1>5, <2>2
    <2>3. CASE q \in acc.db /\ x \notin acc.db
      BY <1>3, <1>4, <1>5, <2>3
    <2>4. CASE q \notin acc.db /\ x \notin acc.db
      <3>1. PICK q0 \in acc.db : q0.s = s /\ q0.p = q.p /\ q0.o = q.o
        BY <1>5, <2>4
      <3>2. PICK x0 \in acc.db : x0.s = s /\ x0.p = x.p /\ x0.o = x.o
        BY <1>5, <2>4
      <3>. QED
        BY <3>1, <3>2 DEF Fits, Consistent
    <2>. QED
      BY <2>1, <2>2, <2>3, <2>4
  <1>7. \A q \in after.db : q.p = "generator" => q.g = "qct"
    BY <1>5 DEF Fits
  <1>8. Sorted(after.known)
    BY <1>1, <1>3 DEF Fits, Sorted
  <1>9. \A c \in Destinations : Noted(after, c)
    <2>. SUFFICES ASSUME NEW c \in Destinations, NEW q \in after.db, q.s = c, q.p \in Single,
                         q.p # "generator"
                  PROVE  q.p \in after.known[c].single \cup after.known[c].singleWithGraph
      BY DEF Noted
    <2>1. CASE c = t
      BY <1>1, <1>4, <1>5, <2>1 DEF taken
    <2>2. CASE c # t
      <3>1. q \in acc.db
        BY <1>5, <2>2
      <3>2. after.known[c] = acc.known[c]
        BY <1>1, <2>2
      <3>. QED
        BY <3>1, <3>2 DEF Fits, Noted
    <2>. QED
      BY <2>1, <2>2
  <1>. QED
    BY <1>6, <1>7, <1>8, <1>9 DEF Fits, after

\* So does the end of a merge into a contact.
LEMMA ClearedFits ==
    ASSUME NEW S, NEW P, NEW O, NEW G, NEW x \in Accumulators(S, P, O, G),
           NEW t, NEW gone, NEW target, Fits(x)
    PROVE  Fits(Cleared(x, t, gone, target))
  <1>. DEFINE after == Cleared(x, t, gone, target)
              mark == Quad(t, "generator", target, "qct")
  <1>1. after.known = x.known /\ \A q \in after.db :
            \/ q \in x.db /\ ~(q.s = t /\ q.p = "generator" /\ q.g = "qct")
            \/ q = mark
    BY ClearedFacts
  <1>2. mark.s = t /\ mark.p = "generator" /\ mark.g = "qct"
    BY DEF Quad
  <1>. HIDE DEF after, mark
  <1>3. Consistent(after.db)
    BY <1>1, <1>2 DEF Fits, Consistent
  <1>4. \A q \in after.db : q.p = "generator" => q.g = "qct"
    BY <1>1, <1>2 DEF Fits
  <1>5. \A c \in Destinations : Noted(after, c)
    BY <1>1, <1>2 DEF Fits, Noted
  <1>. QED
    BY <1>1, <1>3, <1>4, <1>5 DEF Fits, after

\* The update starts from what was read of each contact, unless it was removed.
MergeReady ==
    /\ "generator" \in Single /\ {"type", "affiliation", "address", "memberOf"} \cap Single = {}
    /\ MergeFine(store) /\ Sorted(merge.predicates)
    /\ \A c \in Together : Gone(c) \/ PropertiesRead(c)
    /\ \A p, r \in merge.pairs : p[1] # r[2] /\ (p[2] = r[2] => p[1] = r[1])
    /\ IsFiniteSet(merge.pairs) /\ merge.pairs \subseteq Contact \X (Contact \ {Self})

\* No contact takes part in two merges of one update.
LEMMA DestinationsFacts ==
    ASSUME MergeReady
    PROVE  /\ Destinations \subseteq Contact
           /\ \A t : Sources(t) \subseteq Contact /\ Sources(t) \subseteq Together
           /\ \A t, r \in Destinations : r \notin Sources(t)
           /\ \A t, r \in Destinations : t # r => Sources(t) \cap Sources(r) = {}
           /\ Destinations \subseteq Together
           /\ \A pair \in merge.pairs : pair[1] \in Destinations /\ pair[2] \in Sources(pair[1])
  BY DEF MergeReady, Destinations, Sources, Together

\* No update gives a property of one value a second one.
LEMMA MergeIsConsistent ==
    ASSUME NEW S, NEW P, NEW O, NEW G, MergeData(S, P, O, G), MergeReady,
           NEW order, NEW sources, NEW picked, MergeChoice(order, sources, picked)
    PROVE  Consistent(MergeAll(order, sources, picked))
  <1>. DEFINE X == Accumulators(S, P, O, G)
              A == {x \in X : Fits(x)}
              start == [db |-> store, known |-> merge.predicates]
  <1>1. Contact \subseteq S /\ {"none", "qct"} \subseteq G /\ "generator" \in P
    BY DEF MergeData
  <1>2. start \in X
    BY DEF MergeData, Accumulators
  <1>3. Fits(start)
    <2>1. ASSUME NEW c \in Destinations PROVE Noted(start, c)
      <3>1. Gone(c) \/ PropertiesRead(c)
        BY DestinationsFacts DEF MergeReady
      <3>. QED
        BY <3>1 DEF Gone, PropertiesRead, Described, Noted
    <2>. QED
      BY <2>1 DEF MergeReady, MergeFine, Fits
  <1>4. Destinations \in SUBSET Contact
    BY DestinationsFacts
  <1>5. \A x \in A : \A t \in Destinations, s \in Contact : CopyFrom(x, t, s) \in A
    BY <1>1, <1>4, CopyFits, CopyFromFacts DEF MergeReady
  <1>6. \A x \in A : \A t \in Destinations, gone \in SUBSET Contact, target \in O :
            Cleared(x, t, gone, target) \in A
    BY <1>1, <1>4, ClearedFits, ClearedType
  <1>7. KeptByMerging(A, Destinations, O)
    BY <1>5, <1>6 DEF KeptByMerging
  <1>8. start \in A /\ A \in SUBSET X
    BY <1>2, <1>3
  <1>. HIDE DEF A
  <1>9. MergePlan(order, sources, picked) /\ \A k \in 1..Len(order) : order[k] \in Destinations
    BY DEF MergeChoice
  <1>10. \E x \in A : MergeAll(order, sources, picked) = x.db
    BY <1>4, <1>7, <1>8, <1>9, MergeAllStays
  <1>. QED
    BY <1>10 DEF A, Fits

\* What is stored of a contact.
About(db, c) == {q \in db : q.s = c}

\* What a contact that was read brings to another.
Carries(db, t, s) ==
    \A q \in Described(s) :
        IF q.p \in Single \cup {"type"} THEN \E o : Says(db, t, q.p, o) ELSE Says(db, t, q.p, q.o)

\* A contact that the update did not come to yet.
Untouched(acc, c) ==
    About(acc.db, c) = About(store, c) /\ acc.known[c] = merge.predicates[c]

\* Some sources were copied.
CopiedSoFar(acc, t, sources, k) ==
    /\ \A c \in Sources(t) : Untouched(acc, c)
    /\ Exists(acc.db, t)
    /\ \A p \in acc.known[t].single \cup acc.known[t].singleWithGraph :
           \E o : Says(acc.db, t, p, o)
    /\ \A i \in 1..k : Carries(acc.db, t, sources[i])

\* Statements are only added, so nothing that was brought is lost.
LEMMA MoreCarries ==
    ASSUME NEW db, NEW more, db \subseteq more, NEW t, NEW s, Carries(db, t, s)
    PROVE  Carries(more, t, s)
  <1>1. \A p, o : Says(db, t, p, o) => Says(more, t, p, o)
    BY DEF Says
  <1>. QED
    BY <1>1 DEF Carries

\* A source that is copied brings what it has.
LEMMA CopyCarries ==
    ASSUME NEW S, NEW P, NEW O, NEW G, NEW acc \in Accumulators(S, P, O, G),
           MergeReady, NEW t \in Destinations, \A c \in Sources(t) : PropertiesRead(c),
           NEW sources, NEW k \in Nat \ {0}, sources[k] \in Sources(t),
           CopiedSoFar(acc, t, sources, k - 1)
    PROVE  CopiedSoFar(CopyFrom(acc, t, sources[k]), t, sources, k)
  <1>. DEFINE s == sources[k]
              from == acc.known[s]
              taken == acc.known[t].single \cup acc.known[t].singleWithGraph
              graphed == (from.singleWithGraph \ taken) \cup (from.multiWithGraph \ {"type"})
              plain == (from.single \ taken) \cup (from.multi \ {"type"})
              after == CopyFrom(acc, t, s)
              has == {q.p : q \in Described(s)}
  <1>1. t \in Contact /\ s \in Contact /\ t \notin Sources(t) /\ Sources(t) \subseteq Contact
    BY DestinationsFacts
  <1>2. /\ acc.db \subseteq after.db
        /\ \A q \in after.db : q \in acc.db \/ q.s = t
        /\ \A x \in acc.db : /\ x.s = s
                             /\ x.p \in plain \/ (x.p \in graphed /\ x.g # "none")
                             => Says(after.db, t, x.p, x.o)
        /\ \A c \in Contact \ {t} : after.known[c] = acc.known[c]
        /\ after.known[t].single = acc.known[t].single
               \cup ((from.single \cup from.singleWithGraph) \ taken)
        /\ after.known[t].singleWithGraph = acc.known[t].singleWithGraph
    BY <1>1, CopiedFacts
  <1>. HIDE DEF after
  <1>3. Untouched(acc, s) /\ PropertiesRead(s)
    BY DEF CopiedSoFar
  <1>4. \A q \in Described(s) : q \in acc.db /\ q.s = s
    BY <1>3 DEF Untouched, About, Described
  <1>5. /\ from.single \cup from.singleWithGraph = has \cap Single
        /\ from.multi = has \ Single
        /\ \A p \in from.singleWithGraph : \E q \in Described(s) : q.p = p /\ q.g # "none"
    BY <1>3 DEF PropertiesRead, Untouched
  <1>6. ASSUME NEW c \in Sources(t) PROVE Untouched(after, c)
    BY <1>1, <1>2, <1>6 DEF CopiedSoFar, Untouched, About
  <1>7. Exists(after.db, t)
    BY <1>2 DEF CopiedSoFar, Exists
  <1>8. ASSUME NEW p \in after.known[t].single \cup after.known[t].singleWithGraph
        PROVE  \E o : Says(after.db, t, p, o)
    <2>1. CASE p \in taken
      <3>1. PICK o : Says(acc.db, t, p, o)
        BY <2>1 DEF CopiedSoFar
      <3>. QED
        BY <1>2, <3>1 DEF Says
    <2>2. CASE p \notin taken /\ p \in from.singleWithGraph
      <3>1. PICK q \in Described(s) : q.p = p /\ q.g # "none"
        BY <1>5, <2>2
      <3>2. Says(after.db, t, q.p, q.o)
        BY <1>2, <1>4, <2>2, <3>1
      <3>. QED
        BY <3>1, <3>2
    <2>3. CASE p \notin taken /\ p \in from.single
      <3>1. PICK q \in Described(s) : q.p = p
        BY <1>5, <2>3
      <3>2. Says(after.db, t, q.p, q.o)
        BY <1>2, <1>4, <2>3, <3>1
      <3>. QED
        BY <3>1, <3>2
    <2>. QED
      BY <1>2, <2>1, <2>2, <2>3
  <1>9. Carries(after.db, t, s)
    <2>. SUFFICES ASSUME NEW q \in Described(s)
                  PROVE  IF q.p \in Single \cup {"type"} THEN \E o : Says(after.db, t, q.p, o)
                         ELSE Says(after.db, t, q.p, q.o)
      BY DEF Carries
    <2>1. CASE q.p = "type"
      BY <1>7, <2>1 DEF Exists, Says
    <2>2. CASE q.p \in Single
      <3>1. q.p \in from.single \cup from.singleWithGraph
        BY <1>5, <2>2
      <3>2. q.p \in after.known[t].single \cup after.known[t].singleWithGraph
        BY <1>2, <3>1
      <3>. QED
        BY <1>8, <2>2, <3>2
    <2>3. CASE q.p \notin Single \cup {"type"}
      <3>1. q.p \in plain
        BY <1>5, <2>3
      <3>. QED
        BY <1>2, <1>4, <2>3, <3>1
    <2>. QED
      BY <2>1, <2>2, <2>3
  <1>10. \A i \in 1..k : Carries(after.db, t, sources[i])
    <2>. SUFFICES ASSUME NEW i \in 1..k PROVE Carries(after.db, t, sources[i])
      OBVIOUS
    <2>1. CASE i = k
      BY <1>9, <2>1
    <2>2. CASE i # k
      <3>1. Carries(acc.db, t, sources[i])
        BY <2>2 DEF CopiedSoFar
      <3>. QED
        BY <1>2, <3>1, MoreCarries
    <2>. QED
      BY <2>1, <2>2
  <1>. QED
    BY <1>6, <1>7, <1>8, <1>10 DEF CopiedSoFar, after

\* A contact has what its sources brought, and the sync target that was picked.
Completed(db, t, target) ==
    /\ \A s \in Sources(t) : Carries(db, t, s)
    /\ Says(db, t, "generator", target)

\* A merge into a contact brings what all of its sources have.
LEMMA MergeIntoCompletes ==
    ASSUME NEW S, NEW P, NEW O, NEW G, Contact \subseteq S, "none" \in G,
           NEW acc \in Accumulators(S, P, O, G),
           MergeReady, NEW t \in Destinations, \A c \in {t} \cup Sources(t) : PropertiesRead(c),
           Exists(store, t), \A c \in {t} \cup Sources(t) : Untouched(acc, c),
           NEW sources \in Seq(Contact), ToSet(sources) = Sources(t), NEW target
    PROVE  Completed(MergeInto(acc, t, sources, target).db, t, target)
  <1>. DEFINE X == Accumulators(S, P, O, G)
              n == Len(sources)
              copied == CopyAll(acc, t, sources)
              A == [k \in 0..n |-> {x \in X : CopiedSoFar(x, t, sources, k)}]
              after == Cleared(copied, t, Sources(t), target)
  <1>1. n \in Nat /\ \A k \in 1..n : sources[k] \in Sources(t) /\ sources[k] \in Contact
    BY DEF ToSet
  <1>2. t \in Contact /\ t \notin Sources(t)
    BY DestinationsFacts
  <1>3. PICK fold : CopySteps(fold, X, acc, t, sources)
    BY <1>2, CopyAllFold
  <1>. HIDE DEF n
  <1>4. \A k \in 0..n : \A x : x \in A[k] <=> x \in X /\ CopiedSoFar(x, t, sources, k)
    OBVIOUS
  <1>. HIDE DEF A
  <1>5. CopiedSoFar(acc, t, sources, 0)
    <2>1. Exists(acc.db, t)
      BY DEF Exists, Untouched, About
    <2>2. ASSUME NEW p \in acc.known[t].single \cup acc.known[t].singleWithGraph
          PROVE  \E o : Says(acc.db, t, p, o)
      <3>1. PICK q \in Described(t) : q.p = p
        BY <2>2 DEF PropertiesRead, Untouched
      <3>2. q \in acc.db /\ q.s = t
        BY <3>1 DEF Untouched, About, Described
      <3>. QED
        BY <3>1, <3>2 DEF Says
    <2>. QED
      BY <2>1, <2>2 DEF CopiedSoFar
  <1>6. fold[1..0] \in A[0]
    BY <1>1, <1>3, <1>4, <1>5 DEF CopySteps
  <1>7. ASSUME NEW k \in 1..n, fold[1..(k - 1)] \in A[k - 1] PROVE fold[1..k] \in A[k]
    <2>1. /\ k \in Nat \ {0} /\ k - 1 \in 0..n /\ k \in 0..n
          /\ sources[k] \in Sources(t) /\ sources[k] \in Contact
      BY <1>1
    <2>2. /\ fold[1..(k - 1)] \in X /\ CopiedSoFar(fold[1..(k - 1)], t, sources, k - 1)
          /\ fold[1..k] = CopyFrom(fold[1..(k - 1)], t, sources[k])
      BY <1>3, <1>4, <1>7, <2>1 DEF CopySteps, n
    <2>3. CopiedSoFar(fold[1..k], t, sources, k)
      BY <2>1, <2>2, CopyCarries
    <2>4. fold[1..k] \in X
      <3>1. CopyFrom(fold[1..(k - 1)], t, sources[k]) \in X
        BY <1>2, <2>1, <2>2, CopyFromFacts
      <3>. QED
        BY <2>2, <3>1
    <2>. QED
      BY <1>4, <2>1, <2>3, <2>4
  <1>8. \A k \in 0..n : fold[1..k] \in A[k]
    BY <1>1, <1>6, <1>7, FoldReaches
  <1>9. copied \in X /\ CopiedSoFar(copied, t, sources, n)
    <2>1. n \in 0..n
      BY <1>1
    <2>. QED
      BY <1>3, <1>4, <1>8, <2>1 DEF CopySteps, n
  <1>10. MergeInto(acc, t, sources, target) = after
    BY DEF MergeInto, CopyAll, Cleared
  <1>11. /\ \A q \in copied.db : q.s = t /\ q.p # "generator" => q \in after.db
         /\ Quad(t, "generator", target, "qct") \in after.db
    BY <1>2, <1>9, ClearedFacts
  <1>. HIDE DEF copied, after
  <1>12. Says(after.db, t, "generator", target)
    BY <1>11 DEF Says, Quad
  <1>13. \A p, o : p # "generator" /\ Says(copied.db, t, p, o) => Says(after.db, t, p, o)
    BY <1>11 DEF Says
  <1>14. ASSUME NEW s \in Sources(t) PROVE Carries(after.db, t, s)
    <2>1. PICK i \in 1..n : s = sources[i]
      BY DEF ToSet, n
    <2>2. Carries(copied.db, t, s)
      BY <1>9, <2>1 DEF CopiedSoFar
    <2>. QED
      BY <1>13, <2>2 DEF Carries, Described
  <1>. QED
    BY <1>10, <1>12, <1>14 DEF Completed

\* A contact that an update left as it was.
Spared(after, acc, c) ==
    About(after.db, c) = About(acc.db, c) /\ after.known[c] = acc.known[c]

\* Merging some contacts leaves the others alone.
LEMMA MergeIntoSpares ==
    ASSUME NEW S, NEW P, NEW O, NEW G, Contact \subseteq S, "none" \in G,
           NEW acc \in Accumulators(S, P, O, G), NEW t \in Contact,
           NEW sources \in Seq(Contact), NEW target,
           NEW c \in Contact \ {t}, c \notin ToSet(sources)
    PROVE  Spared(MergeInto(acc, t, sources, target), acc, c)
  <1>. DEFINE X == Accumulators(S, P, O, G)
              n == Len(sources)
              copied == CopyAll(acc, t, sources)
              A == {x \in X : About(x.db, c) = About(acc.db, c) /\ x.known[c] = acc.known[c]}
              after == Cleared(copied, t, ToSet(sources), target)
  <1>1. n \in Nat /\ \A k \in 1..n : sources[k] \in Contact
    OBVIOUS
  <1>2. PICK fold : CopySteps(fold, X, acc, t, sources)
    BY CopyAllFold
  <1>. HIDE DEF n
  <1>3. fold[1..0] \in A
    BY <1>2 DEF CopySteps
  <1>4. ASSUME NEW x \in A, NEW s \in Contact PROVE CopyFrom(x, t, s) \in A
    <2>1. CopyFrom(x, t, s) \in X
      BY CopyFromFacts
    <2>2. /\ x.db \subseteq CopyFrom(x, t, s).db
          /\ \A q \in CopyFrom(x, t, s).db : q \in x.db \/ q.s = t
          /\ CopyFrom(x, t, s).known[c] = x.known[c]
      BY CopiedFacts
    <2>3. About(CopyFrom(x, t, s).db, c) = About(x.db, c)
      BY <2>2 DEF About
    <2>. QED
      BY <2>1, <2>2, <2>3
  <1>5. \A k \in 1..n : fold[1..(k - 1)] \in A => fold[1..k] \in A
    <2>. HIDE DEF A
    <2>. QED
      BY <1>1, <1>2, <1>4 DEF n, CopySteps
  <1>6. \A k \in 0..n : fold[1..k] \in A
    <2>. HIDE DEF A
    <2>. QED
      BY <1>1, <1>3, <1>5, FoldStays
  <1>7. copied \in A
    <2>1. n \in 0..n
      BY <1>1
    <2>. HIDE DEF A
    <2>. QED
      BY <1>2, <1>6, <2>1 DEF n, CopySteps
  <1>8. MergeInto(acc, t, sources, target) = after
    BY DEF MergeInto, CopyAll, Cleared
  <1>9. /\ after.known = copied.known
        /\ \A q \in after.db : q \in copied.db \/ q = Quad(t, "generator", target, "qct")
        /\ \A q \in copied.db : q.s \notin ToSet(sources) /\ q.s # t => q \in after.db
    BY <1>7, ClearedFacts
  <1>. HIDE DEF copied, after
  <1>10. About(after.db, c) = About(copied.db, c)
    BY <1>9 DEF About, Quad
  <1>11. About(copied.db, c) = About(acc.db, c) /\ copied.known[c] = acc.known[c]
    BY <1>7
  <1>. QED
    BY <1>8, <1>9, <1>10, <1>11 DEF Spared

\* Where the update came to a contact, it has what its sources brought; where
\* it did not, the contact and its sources are as they were.
MergedSoFar(acc, t, target, reached) ==
    IF reached THEN Completed(acc.db, t, target)
    ELSE \A c \in {t} \cup Sources(t) : Untouched(acc, c)

\* So does the whole update, wherever the contact is in its order.
LEMMA MergeAllCompletes ==
    ASSUME NEW S, NEW P, NEW O, NEW G, MergeData(S, P, O, G), MergeReady,
           NEW order, NEW sources, NEW picked, MergeChoice(order, sources, picked),
           NEW t \in Destinations, \A c \in {t} \cup Sources(t) : Exists(store, c)
    PROVE  Completed(MergeAll(order, sources, picked), t, picked[t])
  <1>. DEFINE X == Accumulators(S, P, O, G)
              n == Len(order)
              target == picked[t]
  <1>1. /\ Contact \subseteq S /\ {"none", "qct"} \subseteq G /\ "generator" \in P
        /\ SyncTarget \subseteq O /\ n \in Nat
        /\ \A k \in 1..n : /\ order[k] \in Destinations /\ order[k] \in Contact
                           /\ sources[order[k]] \in Seq(Contact)
                           /\ ToSet(sources[order[k]]) = Sources(order[k])
                           /\ picked[order[k]] \in O
    BY DEF MergeData, MergeChoice, MergePlan
  <1>2. PICK place \in 1..n : order[place] = t /\ \A k \in 1..n : order[k] = t => k = place
    BY DEF MergeChoice
  <1>3. \A c \in {t} \cup Sources(t) : PropertiesRead(c) /\ c \in Contact
    BY DestinationsFacts DEF MergeReady, Gone, Exists
  <1>4. MergePlan(order, sources, picked)
    BY DEF MergeChoice
  <1>5. PICK fold : MergeFolds(fold, X, order, sources, picked)
    BY <1>4, MergeAllFold
  <1>. HIDE DEF n, target
  <1>. DEFINE A == [k \in 0..n |-> {x \in X : MergedSoFar(x, t, target, place <= k)}]
  <1>6. \A k \in 0..n : \A x : x \in A[k] <=> x \in X /\ MergedSoFar(x, t, target, place <= k)
    OBVIOUS
  <1>. HIDE DEF A
  <1>7. fold[1..0] \in A[0]
    <2>. DEFINE start == [db |-> store, known |-> merge.predicates]
    <2>1. start \in X
      BY DEF Accumulators, MergeData
    <2>2. \A c : Untouched(start, c)
      BY DEF Untouched
    <2>3. ~(place <= 0) /\ 0 \in 0..n
      BY <1>1
    <2>. HIDE DEF start
    <2>4. MergedSoFar(start, t, target, place <= 0)
      BY <2>2, <2>3 DEF MergedSoFar
    <2>. QED
      BY <1>5, <1>6, <2>1, <2>3, <2>4 DEF MergeFolds, start
  <1>8. ASSUME NEW k \in 1..n, fold[1..(k - 1)] \in A[k - 1] PROVE fold[1..k] \in A[k]
    <2>. DEFINE r == order[k]
                acc == fold[1..(k - 1)]
                after == fold[1..k]
    <2>1. /\ k - 1 \in 0..n /\ k \in 0..n /\ place \in Nat
          /\ r \in Destinations /\ r \in Contact /\ sources[r] \in Seq(Contact)
          /\ ToSet(sources[r]) = Sources(r) /\ picked[r] \in O
      BY <1>1
    <2>2. /\ acc \in X /\ MergedSoFar(acc, t, target, place <= k - 1)
          /\ after = MergeInto(acc, r, sources[r], picked[r])
      BY <1>5, <1>6, <1>8, <2>1 DEF MergeFolds, n
    <2>3. after \in X
      <3>1. MergeInto(acc, r, sources[r], picked[r]) \in X
        BY <1>1, <2>1, <2>2, MergeIntoFacts
      <3>. QED
        BY <2>2, <3>1
    <2>. HIDE DEF acc, after
    <2>4. ASSUME k # place, NEW c \in Contact, c # r, c \notin Sources(r)
          PROVE  About(after.db, c) = About(acc.db, c) /\ after.known[c] = acc.known[c]
      <3>1. c \in Contact \ {r} /\ c \notin ToSet(sources[r])
        BY <2>1, <2>4
      <3>2. Spared(MergeInto(acc, r, sources[r], picked[r]), acc, c)
        BY <1>1, <2>1, <2>2, <3>1, MergeIntoSpares
      <3>. QED
        BY <2>2, <3>2 DEF Spared
    <2>5. CASE k < place
      <3>1. ~(place <= k - 1) /\ ~(place <= k) /\ r # t /\ k # place
        BY <1>2, <2>1, <2>5
      <3>2. ASSUME NEW c \in {t} \cup Sources(t) PROVE Untouched(after, c)
        <4>1. c \in Contact /\ c # r /\ c \notin Sources(r)
          BY <1>3, <2>1, <3>1, DestinationsFacts
        <4>2. Untouched(acc, c)
          BY <2>2, <3>1 DEF MergedSoFar
        <4>. QED
          BY <2>4, <3>1, <4>1, <4>2 DEF Untouched
      <3>3. MergedSoFar(after, t, target, place <= k)
        BY <3>1, <3>2 DEF MergedSoFar
      <3>. QED
        BY <1>6, <2>1, <2>3, <3>3 DEF after
    <2>6. CASE k = place
      <3>1. ~(place <= k - 1) /\ place <= k /\ r = t /\ picked[r] = target
        BY <1>2, <2>1, <2>6 DEF target
      <3>2. \A c \in {t} \cup Sources(t) : Untouched(acc, c)
        BY <2>2, <3>1 DEF MergedSoFar
      <3>3. Completed(after.db, t, target)
        BY <1>1, <1>3, <2>1, <2>2, <3>1, <3>2, MergeIntoCompletes
      <3>4. MergedSoFar(after, t, target, place <= k)
        BY <3>1, <3>3 DEF MergedSoFar
      <3>. QED
        BY <1>6, <2>1, <2>3, <3>4 DEF after
    <2>7. CASE k > place
      <3>1. place <= k - 1 /\ place <= k /\ r # t /\ k # place
        BY <1>2, <2>1, <2>7
      <3>2. t \in Contact /\ t \notin Sources(r)
        BY <1>3, <2>1, DestinationsFacts
      <3>3. Completed(acc.db, t, target)
        BY <2>2, <3>1 DEF MergedSoFar
      <3>4. About(after.db, t) = About(acc.db, t)
        BY <2>4, <3>1, <3>2
      <3>5. \A p, o : Says(acc.db, t, p, o) => Says(after.db, t, p, o)
        BY <3>4 DEF Says, About
      <3>6. Completed(after.db, t, target)
        BY <3>3, <3>5 DEF Completed, Carries
      <3>7. MergedSoFar(after, t, target, place <= k)
        BY <3>1, <3>6 DEF MergedSoFar
      <3>. QED
        BY <1>6, <2>1, <2>3, <3>7 DEF after
    <2>. QED
      BY <2>1, <2>5, <2>6, <2>7
  <1>9. \A k \in 0..n : fold[1..k] \in A[k]
    BY <1>1, <1>7, <1>8, FoldReaches
  <1>10. n \in 0..n /\ place <= n
    BY <1>1
  <1>11. MergedSoFar(fold[1..n], t, target, place <= n)
    BY <1>6, <1>9, <1>10
  <1>. QED
    BY <1>5, <1>10, <1>11 DEF MergedSoFar, MergeFolds, n, target

\* Statements that come with splitting an account off.
SplitNew(db, q, n) ==
    \/ q \in db
    \/ /\ q.s = NewContact[n]
       /\ \/ \E x \in db : x.p = q.p /\ x.o = q.o /\ x.g = q.g /\ x.s = unmerge.source
                           /\ q.g = unmerge.accounts[n]
          \/ q.p \in {"type", "affiliation"}
          \/ q.p = "generator" /\ q.g = "qct" /\ q.o = "telepathy"
    \/ q.s = NewAffiliation[n] /\ q.p = "address"

\* Where the statements come from that splitting an account off leaves.
LEMMA SplitComes ==
    ASSUME NEW S, NEW P, NEW O, NEW G, NEW db \in SUBSET Quads(S, P, O, G), NEW n
    PROVE  \A q \in SplitOff(db, n) : SplitNew(db, q, n)
  <1>. DEFINE account == unmerge.accounts[n]
              contact == NewContact[n]
              affiliation == NewAffiliation[n]
              class == {Quad(contact, "type", "contact", "qct")}
              copies == {[q EXCEPT !.s = contact] : q \in Moving(db, account)}
              links == UNION {{Quad(contact, "affiliation", affiliation, l.graph),
                               Quad(affiliation, "address", account, l.graph)} :
                                  l \in unmerge.affiliations[account]}
              new == NewStatements(db, account, contact, affiliation)
              added == IF ~Matches(db, account) THEN db ELSE Insert(db, new)
              whole == WithGenerator(added, contact)
              moved == IF Matches(db, account) THEN whole \ Moving(whole, account) ELSE whole
              after == SplitOff(db, n)
  <1>1. new = class \cup copies \cup links
    BY DEF NewStatements
  <1>2. after = moved \ Obsolete(moved, account)
    BY DEF SplitOff
  <1>. HIDE DEF account, contact, affiliation, after
  <1>3. \A q \in class : q.s = contact /\ q.p = "type"
    BY DEF Quad
  <1>4. ASSUME NEW q \in copies
        PROVE  /\ q.s = contact
               /\ \E x \in db : /\ x.p = q.p /\ x.o = q.o /\ x.g = q.g /\ x.s = unmerge.source
                                /\ q.g = account
    <2>1. PICK x \in Moving(db, account) : q = [x EXCEPT !.s = contact]
      BY <1>4
    <2>2. x \in Quads(S, P, O, G) /\ x \in db /\ x.s = unmerge.source /\ x.g = account
      BY <2>1 DEF Moving
    <2>3. q.s = contact /\ q.p = x.p /\ q.o = x.o /\ q.g = x.g
      BY <2>1, <2>2 DEF Quads
    <2>. QED
      BY <2>2, <2>3
  <1>5. \A q \in links : \/ q.s = contact /\ q.p = "affiliation"
                         \/ q.s = affiliation /\ q.p = "address"
    <2>1. \A q \in links : \E l \in unmerge.affiliations[account] :
              \/ q = Quad(contact, "affiliation", affiliation, l.graph)
              \/ q = Quad(affiliation, "address", account, l.graph)
      OBVIOUS
    <2>. HIDE DEF links
    <2>. QED
      BY <2>1 DEF Quad
  <1>. HIDE DEF class, copies, links, new
  <1>6. \A q \in added : q \in db \/ q \in class \/ q \in copies \/ q \in links
    BY <1>1 DEF Insert
  <1>. HIDE DEF added
  <1>7. \A q \in whole : q \in added \/ q = Quad(contact, "generator", "telepathy", "qct")
    BY DEF WithGenerator
  <1>. HIDE DEF whole
  <1>8. \A q \in after : q \in whole
    BY <1>2
  <1>9. ASSUME NEW q \in after PROVE SplitNew(db, q, n)
    <2>1. CASE q = Quad(contact, "generator", "telepathy", "qct")
      BY <2>1 DEF Quad, SplitNew, contact
    <2>2. CASE q \in db \/ q \in class \/ q \in copies \/ q \in links
      BY <1>3, <1>4, <1>5, <2>2 DEF SplitNew, contact, affiliation, account
    <2>. QED
      BY <1>6, <1>7, <1>8, <2>1, <2>2
  <1>. QED
    BY <1>9 DEF after

\* Splitting an account off keeps a store fine: all of the contact is new.
LEMMA SplitFine ==
    ASSUME NEW db, NEW after, NEW n, unmerge.accounts[n] \in Account, "qct" \notin Account,
           "generator" \in Single, {"type", "affiliation", "address", "memberOf"} \cap Single = {},
           MergeFine(db), \A q \in db : q.s # NewContact[n],
           \A q \in after : SplitNew(db, q, n)
    PROVE  MergeFine(after)
  <1>1. \A q \in after : q.p = "generator" => q.g = "qct"
    BY DEF SplitNew, MergeFine
  <1>2. \A q \in after : q.p \in Single =>
            \/ q \in db
            \/ /\ q.s = NewContact[n] /\ q.p # "generator"
               /\ \E x \in db : x.p = q.p /\ x.o = q.o /\ x.g = q.g /\ x.s = unmerge.source
            \/ /\ q.s = NewContact[n] /\ q.p = "generator" /\ q.g = "qct" /\ q.o = "telepathy"
    BY DEF SplitNew, MergeFine
  <1>3. Consistent(after)
    BY <1>2 DEF MergeFine, Consistent
  <1>4. ASSUME NEW q \in after, NEW x \in after, q.p = x.p, q.p \in Single
        PROVE  q.g = "none" <=> x.g = "none"
    <2>1. CASE q.p = "generator"
      BY <1>1, <1>4, <2>1
    <2>2. CASE q.p # "generator"
      <3>1. \E y \in db : y.p = q.p /\ y.g = q.g
        BY <1>2, <1>4, <2>2
      <3>2. \E y \in db : y.p = x.p /\ y.g = x.g
        BY <1>2, <1>4, <2>2
      <3>. QED
        BY <1>4, <3>1, <3>2 DEF MergeFine
    <2>. QED
      BY <2>1, <2>2
  <1>. QED
    BY <1>1, <1>3, <1>4 DEF MergeFine

\* Some accounts have their contacts: the other ones are not there yet.
FineSoFar(db, k) ==
    MergeFine(db) /\ \A q \in db : q.s \in Made => \E j \in 1..k : q.s = NewContact[j]

\* An update that unmerges keeps a store fine.
LEMMA SplitAllFine ==
    ASSUME UnmergeReads, AllQuads(store), MergesAreApart,
           \A n \in DOMAIN unmerge.accounts : NewAffiliation[n] \in Blank,
           MergeFine(store), \A q \in store : q.s \notin Made,
           NEW db, db = FoldLeft(SplitOff, store, [n \in DOMAIN unmerge.accounts |-> n])
    PROVE  MergeFine(db)
  <1>1. PICK S, P, O, G : UnmergeData(S, P, O, G) /\ store \in SUBSET Quads(S, P, O, G)
    BY SplitReads
  <1>. DEFINE n == Len(unmerge.accounts)
              A == [k \in 0..n |-> {x \in SUBSET Quads(S, P, O, G) : FineSoFar(x, k)}]
  <1>2. /\ n \in Nat /\ DOMAIN unmerge.accounts = 1..n
        /\ \A k \in 1..n : unmerge.accounts[k] \in Account /\ k \in 1..Len(NewContact)
    BY UnmergeAssumption DEF UnmergeReads
  <1>3. PICK fold : SplitSteps(fold, SUBSET Quads(S, P, O, G), db)
    BY <1>1, SplitAllFold
  <1>. HIDE DEF n
  <1>4. \A k \in 0..n : \A x : x \in A[k] <=> x \in SUBSET Quads(S, P, O, G) /\ FineSoFar(x, k)
    OBVIOUS
  <1>. HIDE DEF A
  <1>5. fold[1..0] \in A[0]
    BY <1>1, <1>2, <1>3, <1>4 DEF SplitSteps, FineSoFar
  <1>6. ASSUME NEW k \in 1..n, fold[1..(k - 1)] \in A[k - 1] PROVE fold[1..k] \in A[k]
    <2>. DEFINE x == fold[1..(k - 1)]
                after == fold[1..k]
    <2>1. k \in DOMAIN unmerge.accounts /\ k - 1 \in 0..n /\ k \in 0..n
      BY <1>2
    <2>2. x \in SUBSET Quads(S, P, O, G) /\ FineSoFar(x, k - 1) /\ after = SplitOff(x, k)
      BY <1>3, <1>4, <1>6, <2>1 DEF SplitSteps, n
    <2>3. after \in SUBSET Quads(S, P, O, G)
      <3>1. SplitOff(x, k) \in SUBSET Quads(S, P, O, G)
        BY <1>1, <2>1, <2>2, SplitFacts
      <3>. QED
        BY <2>2, <3>1
    <2>. HIDE DEF x, after
    <2>4. \A q \in after : SplitNew(x, q, k)
      BY <2>2, SplitComes
    <2>5. NewContact[k] \in Made /\ NewAffiliation[k] \notin Made
      BY <1>2, <2>1, UnmergeAssumption DEF Made, MergesAreApart
    <2>6. ASSUME NEW q \in x PROVE q.s # NewContact[k]
      <3>. SUFFICES ASSUME q.s = NewContact[k] PROVE FALSE
        OBVIOUS
      <3>1. PICK j \in 1..(k - 1) : q.s = NewContact[j]
        BY <2>2, <2>5 DEF FineSoFar
      <3>2. j \in 1..n /\ j # k
        BY <1>2
      <3>. QED
        BY <1>2, <3>1, <3>2 DEF MergesAreApart
    <2>7. MergeFine(after)
      BY <1>2, <2>2, <2>4, <2>6, SplitFine DEF FineSoFar, MergesAreApart
    <2>8. ASSUME NEW q \in after, q.s \in Made PROVE \E j \in 1..k : q.s = NewContact[j]
      <3>1. q \in x \/ q.s = NewContact[k]
        BY <2>4, <2>5, <2>8 DEF SplitNew
      <3>. QED
        BY <1>2, <2>2, <2>8, <3>1 DEF FineSoFar
    <2>9. FineSoFar(after, k)
      BY <2>7, <2>8 DEF FineSoFar
    <2>. QED
      BY <1>4, <2>1, <2>3, <2>9 DEF after
  <1>7. \A k \in 0..n : fold[1..k] \in A[k]
    BY <1>2, <1>5, <1>6, FoldReaches
  <1>8. n \in 0..n
    BY <1>2
  <1>. QED
    BY <1>3, <1>4, <1>7, <1>8 DEF SplitSteps, n, FineSoFar

\* What is so of what is stored and was read, while merging goes on.
MergeReading ==
    /\ MergeFine(store) /\ merge.error = "none"
    /\ merge.pc = "idle" => merge.singleWithGraph = {}
    /\ \A p \in merge.singleWithGraph : \A q \in store : q.p = p => q.g # "none"
    /\ merge.pc = "update" => merge.left = {}
    /\ merge.pc \in {"fetch", "update"} =>
           /\ merge.left \subseteq Together
           /\ \A c \in Together : c \in merge.left \/ Gone(c) \/ PropertiesRead(c)

MergeKnows ==
    /\ Sorted(merge.predicates) /\ DOMAIN merge.syncTargets = Contact
    /\ merge.pc # "done" => MergeReading

\* What unmerging makes is not there yet, and nothing is merged into it.
NotYetMade ==
    "unmerge" \in requests /\ BeforeUpdate =>
        /\ \A q \in store : q.s \notin Made
        /\ merge.pc \in {"fetch", "update"} => \A c \in Together \ merge.left : c \notin Made

MergesKnow == "merge" \in requests => MergeKnows /\ NotYetMade

\* At first the invariant of a merge holds.
LEMMA MergesStart == MergesAreApart /\ Init => MergesKnow
  <1>. SUFFICES ASSUME MergesAreApart, Init, "merge" \in requests PROVE MergeKnows /\ NotYetMade
    BY DEF MergesKnow
  <1>1. /\ merge.pc = "idle" /\ merge.singleWithGraph = {} /\ merge.error = "none"
        /\ DOMAIN merge.syncTargets = Contact
        /\ merge.predicates = [c \in Contact |-> NoProperties]
    BY DEF Init, NoMerge
  <1>2. MergeFine(store) /\ NotYetMade
    BY <1>1 DEF Init, MergesAreApart, NotYetMade
  <1>3. Sorted(merge.predicates)
    <2>1. \A c \in Contact : merge.predicates[c] = NoProperties
      BY <1>1
    <2>2. /\ NoProperties.single = {} /\ NoProperties.singleWithGraph = {}
          /\ NoProperties.multi = {} /\ NoProperties.multiWithGraph = {}
      BY DEF NoProperties
    <2>. QED
      BY <2>1, <2>2 DEF Sorted
  <1>. QED
    BY <1>1, <1>2, <1>3 DEF MergeKnows, MergeReading

\* All that an update comes to is a contact.
LEMMA TogetherFacts ==
    ASSUME MergeHolds, merge.pc \in {"fetch", "update"}
    PROVE  Together \subseteq Contact
  <1>1. CASE merge.pairs = {}
    BY <1>1 DEF Together, Destinations
  <1>2. CASE merge.pairs \in MergeMaps
    <2>1. merge.pairs \subseteq (Contact \cup {Zero}) \X (Contact \cup {Zero})
      BY <1>2, MergeAssumption
    <2>2. \A pair \in merge.pairs : pair[1] # Zero /\ pair[2] # Zero
      BY DEF MergeHolds, Invalid
    <2>. QED
      BY <2>1, <2>2 DEF Together, Destinations
  <1>. QED
    BY <1>1, <1>2 DEF MergeHolds

\* One contact is read.
LEMMA DetailsRead ==
    ASSUME MergesAreApart, MergeHolds, MergeKnows, NEW c \in merge.left, FetchDetails(c)
    PROVE  MergeKnows' /\ PropertiesRead(c)'
  <1>. DEFINE read == PropertiesOf(c)
              all == {q.p : q \in Described(c)}
              inGraph == {q.p : q \in {x \in Described(c) : x.g # "none"}}
              target == IF Values(store, c, "generator") = {} THEN ""
                        ELSE CHOOSE o \in Values(store, c, "generator") : TRUE
  <1>1. /\ MergeReading /\ merge.pc = "fetch" /\ Together \subseteq Contact
        /\ merge.left \subseteq Together
    BY TogetherFacts DEF MergeKnows, MergeReading, FetchDetails
  <1>2. PICK P : merge.predicates \in [Contact -> Properties(P)]
    BY DEF MergeHolds
  <1>3. /\ store' = store /\ merge'.pairs = merge.pairs /\ merge'.left = merge.left \ {c}
        /\ merge'.pc = (IF merge.left = {c} THEN "update" ELSE "fetch")
        /\ merge'.predicates = [merge.predicates EXCEPT ![c] = read]
        /\ merge'.singleWithGraph = merge.singleWithGraph \cup read.singleWithGraph
        /\ merge'.syncTargets = [merge.syncTargets EXCEPT ![c] = target]
        /\ merge'.error = merge.error
    BY DEF MergeHolds, FetchDetails
  <1>4. /\ read.single = (all \cap Single) \ (merge.singleWithGraph \cup inGraph)
        /\ read.singleWithGraph = inGraph \cap Single
        /\ read.multi = all \ Single /\ read.multiWithGraph = inGraph \ Single
    BY DEF PropertiesOf
  <1>5. inGraph \subseteq all /\ "generator" \notin all
    BY DEF Described
  <1>6. merge.singleWithGraph \cap all \subseteq inGraph
    BY <1>1 DEF MergeReading, Described
  <1>7. \A p \in inGraph \cap Single : \A q \in store : q.p = p => q.g # "none"
    BY <1>1 DEF MergeReading, MergeFine, Described
  <1>8. \A p \in inGraph : \E q \in Described(c) : q.p = p /\ q.g # "none"
    OBVIOUS
  <1>9. Values(store, c, "generator") # {} => target \in Values(store, c, "generator")
    OBVIOUS
  <1>10. /\ merge'.predicates[c] = read /\ merge'.syncTargets[c] = target
         /\ \A d \in Contact \ {c} : /\ merge'.predicates[d] = merge.predicates[d]
                                     /\ merge'.syncTargets[d] = merge.syncTargets[d]
         /\ DOMAIN merge'.syncTargets = Contact
    <2>. HIDE DEF read, target
    <2>. QED
      BY <1>1, <1>2, <1>3 DEF MergeKnows
  <1>11. Described(c)' = Described(c) /\ Together' = Together
    BY <1>3 DEF Described, Together, Destinations
  <1>12. all = {q.p : q \in Described(c)}
    OBVIOUS
  <1>. HIDE DEF read, all, inGraph, target
  <1>13. PropertiesRead(c)'
    <2>1. /\ read.single \cup read.singleWithGraph = all \cap Single
          /\ read.multi = all \ Single
          /\ \A p \in read.singleWithGraph : \E q \in Described(c) : q.p = p /\ q.g # "none"
      BY <1>4, <1>5, <1>6, <1>8
    <2>. QED
      BY <1>3, <1>9, <1>10, <1>11, <1>12, <2>1 DEF PropertiesRead
  <1>14. Sorted(merge'.predicates)
    <2>1. /\ read.single \cup read.singleWithGraph \subseteq Single \ {"generator"}
          /\ (read.multi \cup read.multiWithGraph) \cap Single = {}
      BY <1>4, <1>5
    <2>. QED
      BY <1>10, <2>1 DEF Sorted, MergeKnows
  <1>15. ASSUME NEW d \in Together'
         PROVE  d \in merge'.left \/ Gone(d)' \/ PropertiesRead(d)'
    <2>1. d \in Together /\ d \in Contact
      BY <1>1, <1>11
    <2>2. CASE d = c
      BY <1>13, <2>2
    <2>3. CASE d # c
      <3>1. /\ merge'.predicates[d] = merge.predicates[d]
            /\ merge'.syncTargets[d] = merge.syncTargets[d]
        BY <1>10, <2>1, <2>3
      <3>2. d \in merge.left \/ Gone(d) \/ PropertiesRead(d)
        BY <1>1, <2>1 DEF MergeReading
      <3>3. PropertiesRead(d) => PropertiesRead(d)'
        BY <1>3, <3>1 DEF PropertiesRead, Described
      <3>. QED
        BY <1>3, <2>3, <3>2, <3>3 DEF Gone
    <2>. QED
      BY <2>2, <2>3
  <1>16. MergeReading'
    <2>1. MergeFine(store')
      BY <1>1, <1>3 DEF MergeReading
    <2>2. merge'.pc # "idle" /\ (merge'.pc = "update" => merge'.left = {})
      BY <1>3
    <2>3. \A p \in merge'.singleWithGraph : \A q \in store' : q.p = p => q.g # "none"
      BY <1>1, <1>3, <1>4, <1>7 DEF MergeReading
    <2>. QED
      BY <1>1, <1>3, <1>11, <1>15, <2>1, <2>2, <2>3 DEF MergeReading
  <1>. QED
    BY <1>10, <1>13, <1>14, <1>16 DEF MergeKnows


\* A part of a fine store is fine.
LEMMA FewerFine ==
    ASSUME NEW db, MergeFine(db), NEW less \in SUBSET db
    PROVE  MergeFine(less)
  BY DEF MergeFine, Consistent

\* Steps of the others that take statements away or add memberships.
LEMMA OthersKeepRead ==
    ASSUME MergeKnows, NotYetMade, UNCHANGED <<merge, requests>>,
           BeforeUpdate' => BeforeUpdate,
           merge.pc # "done" => MergeFine(store'),
           merge.pc \in {"idle", "done"}
               \/ \E gone \in SUBSET Contact : store' = DeleteResources(store, gone),
           "unmerge" \in requests /\ BeforeUpdate' => \A q \in store' : q.s \notin Made
    PROVE  MergeKnows' /\ NotYetMade'
  <1>1. Together' = Together
    BY DEF Together, Destinations
  <1>2. CASE merge.pc \in {"idle", "done"}
    BY <1>2 DEF MergeKnows, MergeReading, NotYetMade
  <1>3. CASE merge.pc \notin {"idle", "done"}
    <2>1. PICK gone \in SUBSET Contact : store' = DeleteResources(store, gone)
      BY <1>3
    <2>2. \A q : q \in store' <=> q \in store /\ q.s \notin gone
      BY <2>1 DEF DeleteResources
    <2>3. ASSUME NEW c, Gone(c) PROVE Gone(c)'
      BY <2>2, <2>3 DEF Gone
    <2>4. ASSUME NEW c, PropertiesRead(c), ~Gone(c)' PROVE PropertiesRead(c)'
      <3>1. c \notin gone
        BY <2>2, <2>4 DEF Gone
      <3>2. Described(c)' = Described(c)
        BY <2>2, <3>1 DEF Described
      <3>3. {x \in store' : x.s = c /\ x.p = "generator"}
                = {x \in store : x.s = c /\ x.p = "generator"}
        BY <2>2, <3>1
      <3>4. Values(store', c, "generator") = Values(store, c, "generator")
        BY <3>3 DEF Values
      <3>. QED
        BY <2>4, <3>2, <3>4 DEF PropertiesRead
    <2>5. MergeReading
      BY <1>3 DEF MergeKnows
    <2>6. MergeReading'
      BY <1>1, <1>3, <2>2, <2>3, <2>4, <2>5 DEF MergeReading
    <2>. QED
      BY <1>1, <1>3, <2>6 DEF MergeKnows, NotYetMade
  <1>. QED
    BY <1>2, <1>3

\* No update makes what unmerging is to make.
LEMMA MergeMakesNothing ==
    ASSUME NEW S, NEW P, NEW O, NEW G, MergeData(S, P, O, G),
           NEW order, NEW sources, NEW picked, MergeChoice(order, sources, picked),
           Destinations \subseteq Contact \ Made, \A q \in store : q.s \notin Made
    PROVE  \A q \in MergeAll(order, sources, picked) : q.s \notin Made
  <1>. DEFINE X == Accumulators(S, P, O, G)
              A == {x \in X : \A q \in x.db : q.s \notin Made}
              start == [db |-> store, known |-> merge.predicates]
  <1>1. Contact \subseteq S /\ {"none", "qct"} \subseteq G /\ "generator" \in P
    BY DEF MergeData
  <1>2. start \in A
    BY DEF MergeData, Accumulators
  <1>3. ASSUME NEW x \in A, NEW t \in Destinations, NEW s \in Contact
        PROVE  CopyFrom(x, t, s) \in A
    <2>1. x \in X /\ t \in Contact /\ t \notin Made /\ \A q \in x.db : q.s \notin Made
      OBVIOUS
    <2>2. CopyFrom(x, t, s) \in X
      BY <1>1, <2>1, CopyFromFacts
    <2>3. \A q \in CopyFrom(x, t, s).db : q \in x.db \/ q.s = t
      BY <2>1, CopiedFacts
    <2>. QED
      BY <2>1, <2>2, <2>3
  <1>4. ASSUME NEW x \in A, NEW t \in Destinations, NEW gone \in SUBSET Contact, NEW target \in O
        PROVE  Cleared(x, t, gone, target) \in A
    <2>1. x \in X /\ t \in Contact /\ t \notin Made /\ \A q \in x.db : q.s \notin Made
      OBVIOUS
    <2>. HIDE DEF A
    <2>2. Cleared(x, t, gone, target) \in X
      BY <1>1, <2>1, ClearedType
    <2>3. \A q \in Cleared(x, t, gone, target).db :
              q \in x.db \/ q = Quad(t, "generator", target, "qct")
      BY <2>1, ClearedFacts
    <2>4. \A q \in Cleared(x, t, gone, target).db : q.s \notin Made
      BY <2>1, <2>3 DEF Quad
    <2>. QED
      BY <2>2, <2>4 DEF A
  <1>5. KeptByMerging(A, Destinations, O)
    BY <1>3, <1>4 DEF KeptByMerging
  <1>. HIDE DEF A
  <1>6. /\ A \in SUBSET X /\ Destinations \in SUBSET Contact
        /\ MergePlan(order, sources, picked) /\ \A k \in 1..Len(order) : order[k] \in Destinations
    BY DEF A, MergeChoice
  <1>7. \E x \in A : MergeAll(order, sources, picked) = x.db
    BY <1>2, <1>5, <1>6, MergeAllStays
  <1>. QED
    BY <1>7 DEF A

\* A step of the request itself.
LEMMA MergeLearns ==
    ASSUME SelfIsSafe, MergesAreApart, AllQuads(store), MergeHolds, MergeKnows, NotYetMade,
           MergeNext, UNCHANGED <<requests, unmerge>>
    PROVE  MergeKnows' /\ NotYetMade'
  <1>. USE DEF MergeHolds
  <1>1. BeforeUpdate' = BeforeUpdate
    BY DEF BeforeUpdate
  <1>2. CASE AskMerge
    <2>1. PICK pairs \in MergeMaps : merge' = [merge EXCEPT !.pairs = pairs, !.pc = "resolve"]
      BY <1>2 DEF AskMerge
    <2>2. /\ merge.pc = "idle" /\ merge'.pc = "resolve" /\ store' = store
          /\ merge'.predicates = merge.predicates /\ merge'.syncTargets = merge.syncTargets
          /\ merge'.singleWithGraph = merge.singleWithGraph /\ merge'.error = merge.error
      BY <1>2, <2>1 DEF AskMerge
    <2>. QED
      BY <1>1, <2>2 DEF MergeKnows, MergeReading, NotYetMade
  <1>3. CASE ResolveMerge
    <2>1. /\ merge.pc = "resolve" /\ merge'.pc = "fetch" /\ store' = store
          /\ merge'.pairs = merge.pairs /\ merge'.left = Together
          /\ merge'.predicates = merge.predicates /\ merge'.syncTargets = merge.syncTargets
          /\ merge'.singleWithGraph = merge.singleWithGraph /\ merge'.error = merge.error
      BY <1>3 DEF ResolveMerge, Together
    <2>2. Together' = Together
      BY <2>1 DEF Together, Destinations
    <2>. QED
      BY <1>1, <2>1, <2>2 DEF MergeKnows, MergeReading, NotYetMade
  <1>4. ASSUME NEW c \in merge.left, FetchDetails(c) PROVE MergeKnows' /\ NotYetMade'
    <2>1. MergeKnows'
      BY <1>4, DetailsRead
    <2>2. /\ merge.pc = "fetch" /\ merge'.left = merge.left \ {c} /\ merge'.pairs = merge.pairs
          /\ store' = store /\ \E q \in store : q.s = c
      BY <1>4 DEF FetchDetails, Described
    <2>3. Together' = Together
      BY <2>2 DEF Together, Destinations
    <2>4. NotYetMade'
      BY <1>1, <2>2, <2>3 DEF NotYetMade
    <2>. QED
      BY <2>1, <2>4
  <1>5. CASE Merge
    <2>1. /\ merge.pc = "update" /\ merge'.pc = "done"
          /\ merge'.predicates = merge.predicates /\ merge'.syncTargets = merge.syncTargets
      BY <1>5 DEF Merge
    <2>2. "unmerge" \in requests /\ BeforeUpdate => \A q \in store' : q.s \notin Made
      <3>. SUFFICES ASSUME "unmerge" \in requests, BeforeUpdate
                    PROVE  \A q \in store' : q.s \notin Made
        OBVIOUS
      <3>1. PICK db \in Outcomes : store' = db \/ store' = store
        BY <1>5 DEF Merge
      <3>2. IsFiniteSet(merge.pairs) /\ merge.pairs \subseteq Contact \X (Contact \ {Self})
        BY <2>1, PairsFacts
      <3>3. PICK order, sources, picked :
                MergeChoice(order, sources, picked) /\ db = MergeAll(order, sources, picked)
        BY <3>2, OutcomePlan
      <3>4. PICK S, P, O, G : MergeData(S, P, O, G)
        BY MergeReads
      <3>5. merge.left = {}
        BY <2>1 DEF MergeKnows, MergeReading
      <3>6. Destinations \subseteq Contact \ Made
        BY <2>1, <3>2, <3>5 DEF NotYetMade, Together, Destinations
      <3>7. \A q \in store : q.s \notin Made
        BY DEF NotYetMade
      <3>8. \A q \in db : q.s \notin Made
        BY <3>3, <3>4, <3>6, <3>7, MergeMakesNothing
      <3>. QED
        BY <3>1, <3>7, <3>8
    <2>. QED
      BY <1>1, <2>1, <2>2 DEF MergeKnows, NotYetMade
  <1>6. ASSUME RejectMerge \/ (\E c \in merge.left : NothingInGraphs(c)) \/ RefuseMerge \/ MergeFails
        PROVE  MergeKnows' /\ NotYetMade'
    <2>1. /\ merge'.pc = "done" /\ store' = store
          /\ merge'.predicates = merge.predicates /\ merge'.syncTargets = merge.syncTargets
      BY <1>6 DEF RejectMerge, NothingInGraphs, RefuseMerge, MergeFails
    <2>. QED
      BY <1>1, <2>1 DEF MergeKnows, NotYetMade
  <1>. QED
    BY <1>2, <1>3, <1>4, <1>5, <1>6 DEF MergeNext

\* Memberships have many values, and they are of contacts that are stored.
LEMMA RelationsFine ==
    ASSUME RelationNext, MergesAreApart
    PROVE  /\ MergeFine(store) => MergeFine(store')
           /\ (\A q \in store : q.s \notin Made) => \A q \in store' : q.s \notin Made
  <1>1. CASE SaveRelations
    <2>. DEFINE new == UNION {Joining(i) : i \in Accepted}
    <2>1. \A q \in new : q.p = "memberOf" /\ \E x \in store : x.s = q.s
      BY DEF Joining, Quad, Exists
    <2>2. store' = Insert(store, new)
      BY <1>1 DEF SaveRelations
    <2>. HIDE DEF new
    <2>3. \A q \in store' : q \in store \/ (q.p = "memberOf" /\ \E x \in store : x.s = q.s)
      BY <2>1, <2>2 DEF Insert
    <2>4. MergeFine(store) => MergeFine(store')
      BY <2>3 DEF MergesAreApart, MergeFine, Consistent
    <2>. QED
      BY <2>3, <2>4
  <1>2. CASE RemoveRelations
    <2>1. store' \subseteq store
      BY <1>2 DEF RemoveRelations
    <2>. QED
      BY <2>1, FewerFine
  <1>3. CASE ~SaveRelations /\ ~RemoveRelations
    <2>1. store' = store
      BY <1>3 DEF RelationNext, AskRelations, SaveNothing, EditFails, AskMemberships, FetchRole,
                  FetchAsGroup, FetchAsMember, FetchUnsupported, FetchFails
    <2>. QED
      BY <2>1
  <1>. QED
    BY <1>1, <1>2, <1>3

\* Unmerging, while nothing is merged.
LEMMA SplitsFine ==
    ASSUME MergesAreApart, AllQuads(store), UnmergeHolds, UnmergeNext, "unmerge" \in requests,
           NotYetMade, MergeFine(store)
    PROVE  MergeFine(store')
  <1>1. CASE UnmergeContacts
    <2>1. unmerge.pc = "update"
      BY <1>1 DEF UnmergeContacts
    <2>2. PICK u \in Unmerges : unmerge.accounts = u.accounts
      BY <2>1 DEF UnmergeHolds
    <2>3. \A n \in DOMAIN unmerge.accounts : NewAffiliation[n] \in Blank
      BY <2>2 DEF Blank
    <2>4. \A q \in store : q.s \notin Made
      BY <2>1 DEF NotYetMade, BeforeUpdate
    <2>. QED
      BY <1>1, <2>3, <2>4, SplitAllFine DEF UnmergeContacts, UnmergeHolds
  <1>2. CASE ~UnmergeContacts
    <2>1. store' = store
      BY <1>2 DEF UnmergeNext, AskUnmerge, RejectUnmerge, ResolveSource, FetchPredicates,
                  ResolveUnmerged, UnmergeFails
    <2>. QED
      BY <2>1
  <1>. QED
    BY <1>1, <1>2

\* Every step keeps the invariant of a merge.
LEMMA MergesLearn ==
    SelfIsSafe /\ MergesAreApart /\ EditsHold /\ MergesKnow /\ [Next]_vars => MergesKnow'
  <1>. SUFFICES ASSUME SelfIsSafe, MergesAreApart, EditsHold, MergesKnow, [Next]_vars,
                       "merge" \in requests'
                PROVE  MergeKnows' /\ NotYetMade'
    BY DEF MergesKnow
  <1>. USE DEF EditsHold
  <1>1. UNCHANGED requests
    BY DEF Next, vars, RunMerge, RunUnmerge, EditRelations, RemoveElsewhere, Fetch
  <1>2. MergeKnows /\ NotYetMade
    BY <1>1 DEF MergesKnow
  <1>3. /\ merge.pc # "done" => MergeFine(store)
        /\ "unmerge" \in requests /\ BeforeUpdate => \A q \in store : q.s \notin Made
    BY <1>2 DEF MergeKnows, MergeReading, NotYetMade
  <1>4. CASE RunMerge
    BY <1>1, <1>2, <1>4, MergeLearns DEF RunMerge
  <1>5. CASE RunUnmerge
    <2>1. UNCHANGED merge /\ merge.pc \in {"idle", "done"} /\ "unmerge" \in requests
      BY <1>5 DEF RunUnmerge, Rests
    <2>2. merge.pc # "done" => MergeFine(store')
      BY <1>2, <1>3, <1>5, <2>1, SplitsFine DEF RunUnmerge
    <2>3. BeforeUpdate' => BeforeUpdate /\ store' = store
      BY <1>5 DEF RunUnmerge, UnmergeNext, AskUnmerge, RejectUnmerge, ResolveSource,
                  FetchPredicates, UnmergeContacts, ResolveUnmerged, UnmergeFails, BeforeUpdate,
                  UnmergeHolds
    <2>. QED
      BY <1>1, <1>2, <1>3, <2>1, <2>2, <2>3, OthersKeepRead
  <1>6. CASE EditRelations
    <2>1. /\ UNCHANGED <<merge, unmerge>> /\ merge.pc \in {"idle", "done"}
          /\ BeforeUpdate' = BeforeUpdate
      BY <1>6 DEF EditRelations, Rests, BeforeUpdate
    <2>2. /\ merge.pc # "done" => MergeFine(store')
          /\ "unmerge" \in requests /\ BeforeUpdate => \A q \in store' : q.s \notin Made
      BY <1>3, <1>6, RelationsFine DEF EditRelations
    <2>. QED
      BY <1>1, <1>2, <2>1, <2>2, OthersKeepRead
  <1>7. CASE RemoveElsewhere \/ Fetch \/ UNCHANGED vars
    <2>1. \E gone \in SUBSET Contact : store' = DeleteResources(store, gone)
      <3>1. CASE RemoveElsewhere
        BY <3>1, RemovalDeletes DEF RemoveElsewhere, RemovalHolds
      <3>2. CASE Fetch \/ UNCHANGED vars
        <4>1. store' = store
          BY <3>2, FetchKeeps DEF Fetch, vars
        <4>2. store' = DeleteResources(store, {})
          BY <4>1 DEF DeleteResources
        <4>. QED
          BY <4>2
      <3>. QED
        BY <1>7, <3>1, <3>2
    <2>2. store' \subseteq store
      BY <2>1 DEF DeleteResources
    <2>3. merge.pc # "done" => MergeFine(store')
      BY <1>3, <2>2, FewerFine
    <2>4. UNCHANGED <<merge, unmerge>> /\ BeforeUpdate' = BeforeUpdate
      BY <1>7 DEF RemoveElsewhere, Fetch, vars, BeforeUpdate
    <2>. QED
      BY <1>1, <1>2, <1>3, <2>1, <2>2, <2>3, <2>4, OthersKeepRead
  <1>. QED
    BY <1>4, <1>5, <1>6, <1>7 DEF Next

\* The contacts of an update, if no account is in danger: the sync target of an
\* MFE account is picked.
LEMMA AccountIsPicked ==
    ASSUME MergeReady, ~TwoAccounts, NEW t \in Destinations, NEW c \in {t} \cup Sources(t),
           PropertiesRead(c), NEW value \in Values(store, c, "generator") \cap Mfe,
           NEW target \in PreferredSyncTargets(SyncTargetsFor(t), merge.syncTargets[t])
    PROVE  target = value
  <1>. DEFINE all == SyncTargetsFor(t)
              mfe == all \cap Mfe
  <1>1. merge.syncTargets[c] = value
    <2>1. merge.syncTargets[c] \in Values(store, c, "generator")
      BY DEF PropertiesRead
    <2>2. PICK q \in store : q.s = c /\ q.p = "generator" /\ q.o = merge.syncTargets[c]
      BY <2>1 DEF Values
    <2>3. PICK x \in store : x.s = c /\ x.p = "generator" /\ x.o = value
      BY DEF Values
    <2>. QED
      BY <2>2, <2>3 DEF MergeReady, MergeFine, Consistent
  <1>2. value \in mfe
    BY <1>1 DEF SyncTargetsFor
  <1>3. IsFiniteSet(mfe)
    <2>1. IsFiniteSet(Sources(t))
      <3>. DEFINE T == {p \in merge.pairs : p[1] = t}
                  f == [p \in T |-> p[2]]
      <3>1. {f[p] : p \in T} = Sources(t)
        BY DEF Sources
      <3>2. IsFiniteSet(T)
        BY FS_Subset DEF MergeReady
      <3>3. IsFiniteSet({f[p] : p \in T})
        BY <3>2, ImageFinite
      <3>. QED
        BY <3>1, <3>3
    <2>2. IsFiniteSet({t} \cup Sources(t))
      BY <2>1, FS_Singleton, FS_Union
    <2>3. IsFiniteSet(all)
      <3>. DEFINE C == {t} \cup Sources(t)
                  f == [d \in C |-> merge.syncTargets[d]]
      <3>1. {f[d] : d \in C} = all
        BY DEF SyncTargetsFor
      <3>2. IsFiniteSet({f[d] : d \in C})
        BY <2>2, ImageFinite
      <3>. QED
        BY <3>1, <3>2
    <2>. QED
      BY <2>3, FS_Subset
  <1>4. Cardinality(mfe) \in Nat /\ ~(Cardinality(mfe) > 1)
    BY <1>3, FS_CardinalityType DEF TwoAccounts
  <1>5. target \in mfe
    BY <1>2 DEF PreferredSyncTargets
  <1>. HIDE DEF mfe
  <1>6. Cardinality(mfe) = 1
    BY <1>2, <1>3, <1>4, FS_EmptySet
  <1>7. \E d : mfe = {d}
    BY <1>3, <1>6, FS_Singleton
  <1>. QED
    BY <1>2, <1>5, <1>7

\* An update that runs starts from what was read.
LEMMA MergeIsReady ==
    ASSUME SelfIsSafe, MergesAreApart, MergeHolds, MergeKnows, merge.pc = "update"
    PROVE  MergeReady
  <1>1. IsFiniteSet(merge.pairs) /\ merge.pairs \subseteq Contact \X (Contact \ {Self})
    BY PairsFacts
  <1>2. \A p, r \in merge.pairs : p[1] # r[2] /\ (p[2] = r[2] => p[1] = r[1])
    BY DEF MergeHolds, MergesAreApart
  <1>3. MergeReading /\ Sorted(merge.predicates)
    BY DEF MergeKnows
  <1>4. \A c \in Together : Gone(c) \/ PropertiesRead(c)
    BY <1>3 DEF MergeReading
  <1>. QED
    BY <1>1, <1>2, <1>3, <1>4 DEF MergeReady, MergeReading, MergesAreApart

\* What an update does with the contacts of a pair.
LEMMA MergedPair ==
    ASSUME MergeReady, ~TwoAccounts, NEW pair \in merge.pairs, NEW db, NEW target,
           \A c \in {pair[1]} \cup Sources(pair[1]) : Exists(store, c),
           target \in PreferredSyncTargets(SyncTargetsFor(pair[1]), merge.syncTargets[pair[1]]),
           Completed(db, pair[1], target)
    PROVE  /\ \A q \in Described(pair[2]) :
                 LET values == Values(db, pair[1], q.p)
                 IN  IF q.p \in Single \cup {"type"} THEN values # {} ELSE q.o \in values
           /\ \A c \in {pair[1], pair[2]} :
                 Values(store, c, "generator") \cap Mfe \subseteq Values(db, pair[1], "generator")
  <1>1. pair[1] \in Destinations /\ pair[2] \in Sources(pair[1])
    BY DestinationsFacts
  <1>2. \A p, o : Says(db, pair[1], p, o) => o \in Values(db, pair[1], p)
    BY DEF Says, Values
  <1>3. \A q \in Described(pair[2]) :
            IF q.p \in Single \cup {"type"} THEN \E o : Says(db, pair[1], q.p, o)
            ELSE Says(db, pair[1], q.p, q.o)
    BY <1>1 DEF Completed, Carries
  <1>4. target \in Values(db, pair[1], "generator")
    BY <1>2 DEF Completed
  <1>5. ASSUME NEW c \in {pair[1], pair[2]}, NEW value \in Values(store, c, "generator") \cap Mfe
        PROVE  value \in Values(db, pair[1], "generator")
    <2>1. c \in {pair[1]} \cup Sources(pair[1]) /\ c \in Together
      BY <1>1, DestinationsFacts
    <2>2. PropertiesRead(c)
      BY <2>1 DEF MergeReady, Gone, Exists
    <2>3. target = value
      BY <1>1, <2>1, <2>2, AccountIsPicked
    <2>. QED
      BY <1>4, <2>3
  <1>6. ASSUME NEW q \in Described(pair[2])
        PROVE  IF q.p \in Single \cup {"type"} THEN Values(db, pair[1], q.p) # {}
               ELSE q.o \in Values(db, pair[1], q.p)
    <2>1. CASE q.p \in Single \cup {"type"}
      <3>1. PICK o : Says(db, pair[1], q.p, o)
        BY <1>3, <2>1
      <3>. QED
        BY <1>2, <2>1, <3>1
    <2>2. CASE q.p \notin Single \cup {"type"}
      BY <1>2, <1>3, <2>2
    <2>. QED
      BY <2>1, <2>2
  <1>. QED
    BY <1>5, <1>6

\* "4 and 5 will be merged into 3" (contactmergerequest.h:43): after the update of
\* a merge, in whatever order it treats its destinations and their sources, a
\* destination has what each source had, or a value where one is possible, and
\* keeps the marks of MFE accounts; and the update never writes a second value
\* (contactcopyandremoverequest.cpp:243-244, 424-425).  Merges do not overlap.
THEOREM MergesAreComplete ==
    SelfIsSafe /\ MergesAreApart /\ Spec => MergeKeepsData
  <1>. SUFFICES ASSUME SelfIsSafe, MergesAreApart PROVE Spec => MergeKeepsData
    OBVIOUS
  <1>. DEFINE Kept ==
           merge.pc = "update" /\ merge'.pc = "done" /\ merge'.error \in {"none", "conflict"} =>
              /\ merge'.error = "none"
              /\ \A pair \in merge.pairs :
                    (\A c \in {pair[1]} \cup Sources(pair[1]) : Exists(store, c)) =>
                        /\ \A q \in Described(pair[2]) :
                              LET values == Values(store', pair[1], q.p)
                              IN  IF q.p \in Single \cup {"type"} THEN values # {}
                                  ELSE q.o \in values
                        /\ \A c \in {pair[1], pair[2]} :
                              Values(store, c, "generator") \cap Mfe
                                  \subseteq Values(store', pair[1], "generator")
  <1>1. Init => EditsHold /\ MergesKnow
    BY EditsInit, MergesStart
  <1>2. EditsHold /\ MergesKnow /\ [Next]_vars => (EditsHold /\ MergesKnow)'
    BY EditsNext, MergesLearn
  <1>3. EditsHold /\ MergesKnow /\ [Next]_vars => [Kept]_<<store, merge>>
    <2>. SUFFICES ASSUME EditsHold, MergesKnow, [Next]_vars, merge.pc = "update",
                         merge'.pc = "done", merge'.error \in {"none", "conflict"}
                  PROVE  Kept
      OBVIOUS
    <2>. USE DEF EditsHold
    <2>1. RunMerge
      BY DEF Next, vars, RunUnmerge, EditRelations, RemoveElsewhere, Fetch
    <2>2. Merge
      BY <2>1 DEF RunMerge, MergeNext, AskMerge, RejectMerge, ResolveMerge, FetchDetails,
                  NothingInGraphs, RefuseMerge, MergeFails, MergeHolds
    <2>3. MergeKnows /\ MergeReady
      BY <2>1, MergeIsReady DEF MergesKnow, RunMerge
    <2>4. PICK db \in Outcomes :
              IF Consistent(db)
              THEN store' = db /\ merge' = [merge EXCEPT !.pc = "done"]
              ELSE store' = store /\ merge' = [merge EXCEPT !.pc = "done", !.error = "conflict"]
      BY <2>2 DEF Merge
    <2>5. PICK order, sources, picked :
              MergeChoice(order, sources, picked) /\ db = MergeAll(order, sources, picked)
      BY <2>3, OutcomePlan DEF MergeReady
    <2>6. PICK S, P, O, G : MergeData(S, P, O, G)
      BY MergeReads
    <2>7. Consistent(db)
      BY <2>3, <2>5, <2>6, MergeIsConsistent
    <2>8. store' = db /\ merge'.error = merge.error
      BY <2>4, <2>7 DEF MergeHolds
    <2>9. merge'.error = "none"
      BY <2>3, <2>8 DEF MergeKnows, MergeReading
    <2>10. ASSUME NEW pair \in merge.pairs,
                  \A c \in {pair[1]} \cup Sources(pair[1]) : Exists(store, c)
           PROVE  /\ \A q \in Described(pair[2]) :
                        LET values == Values(store', pair[1], q.p)
                        IN  IF q.p \in Single \cup {"type"} THEN values # {} ELSE q.o \in values
                  /\ \A c \in {pair[1], pair[2]} :
                        Values(store, c, "generator") \cap Mfe
                            \subseteq Values(store', pair[1], "generator")
      <3>1. pair[1] \in Destinations
        BY DEF Destinations
      <3>2. Completed(store', pair[1], picked[pair[1]])
        BY <2>3, <2>5, <2>6, <2>8, <2>10, <3>1, MergeAllCompletes
      <3>3. ~TwoAccounts
        BY <2>2 DEF Merge
      <3>4. picked[pair[1]]
                \in PreferredSyncTargets(SyncTargetsFor(pair[1]), merge.syncTargets[pair[1]])
        BY <2>5, <3>1 DEF MergeChoice
      <3>. QED
        BY <2>3, <2>10, <3>2, <3>3, <3>4, MergedPair
    <2>. QED
      BY <2>9, <2>10
  <1>4. Spec => [][Kept]_<<store, merge>>
    BY <1>1, <1>2, <1>3, PTL DEF Spec
  <1>. QED
    BY <1>4 DEF MergeKeepsData

=============================================================================
