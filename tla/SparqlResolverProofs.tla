------------------------- MODULE SparqlResolverProofs -------------------------
(***************************************************************************)
(* Proofs about SparqlResolver, for any number of resolvers and resources, *)
(* lists of any length and every ColumnLimit, as long as lists that take   *)
(* several queries are of known keys and are looked up with                *)
(* lookupAndWait() (Usage = "fits").  The argument: there is always a list *)
(* of the open slots, in order, which the columns that are still to come   *)
(* - the rest of the row and those not queried yet - belong to one by one. *)
(***************************************************************************)
EXTENDS SparqlResolver, SequenceFacts

Job ==
    [pc : {"idle", "project", "query", "build", "rows", "done", "failed"},
     kind : {"ids", "iris", "typed"}, waits : BOOLEAN,
     keys : Seq(Name), values : Seq(Name), columns : Seq(Name), results : Seq(Seq(Name)),
     offset : Nat \ {0}, slot : Nat \ {0}, errors : BOOLEAN,
     pairs : SUBSET Resource, local : SUBSET Resource,
     sure : SUBSET Resource, gone : SUBSET Resource]

TypeOK ==
    /\ registered \subseteq Resource /\ contacts \subseteq registered
    /\ idOf \in [Name -> Name] /\ iriOf \in [Name -> Name]
    /\ job \in [Resolver -> Job]

CacheInv ==
    /\ \A n \in Name : idOf[n] \in {n, Nil}
    /\ \A n \in Resource : iriOf[n] \in {n, Nil}

\* What a resolver was asked for: a list that fits one query, or known keys.
AskedInv(j) ==
    /\ j.sure \subseteq registered
    /\ \/ Len(j.keys) <= ColumnLimit
       \/ j.waits /\ \A i \in 1..Len(j.keys) : j.keys[i] \in j.sure
    /\ j.kind = "iris" => \A i \in 1..Len(j.keys) : j.keys[i] \in j.sure

\* The row that is being parsed.
Row(j) == IF j.results = << >> THEN << >> ELSE Head(j.results)

\* The k-th column that is still to come is for slot f[k].
Places(j, f) ==
    /\ Lists(f, OpenSlots(j.values, j.slot))
    /\ Len(f) = Len(Row(j)) + Len(j.columns)
    /\ \A k \in 1..Len(Row(j)) :
          /\ Row(j)[k] \in {j.keys[f[k]], Nil}
          /\ j.keys[f[k]] \in j.sure => Row(j)[k] = j.keys[f[k]]
    /\ \A k \in 1..Len(j.columns) : j.columns[k] = j.keys[f[Len(Row(j)) + k]]

Placed(j) == \E f \in Seq(Nat) : Places(j, f)

\* What was put into the slots is right, and only slots still to be passed
\* lack a value that the store knows.
ValuesInv(j) ==
    \A i \in 1..Len(j.values) :
        /\ j.values[i] \in {j.keys[i], Nil}
        /\ j.keys[i] \in j.sure /\ j.values[i] = Nil => i >= j.slot

ProjectInv(j) ==
    /\ j.results = << >> /\ j.offset = 1 /\ j.slot = 1 /\ ~j.errors
    /\ Len(j.values) <= Len(j.keys) /\ Len(j.columns) <= Len(j.values)
    /\ ValuesInv(j) /\ Placed(j)

QueryInv(j) ==
    /\ j.kind # "typed" /\ j.results = << >> /\ j.slot = j.offset /\ ~j.errors
    /\ Len(j.values) = Len(j.keys) /\ Len(j.columns) <= Len(j.values)
    /\ ValuesInv(j) /\ Placed(j)

BuildInv(j) ==
    /\ j.kind # "typed" /\ Len(j.results) = 1 /\ j.offset <= j.slot
    /\ Len(j.values) = Len(j.keys) /\ Len(j.columns) <= Len(j.values)
    /\ Len(j.keys) <= ColumnLimit => j.columns = << >>
    /\ IF j.errors THEN Row(j) = << >> /\ j.columns = << >> ELSE ValuesInv(j) /\ Placed(j)

\* Every key that was a contact all along is in the rows of a lookup of contacts.
RowsInv(j) ==
    /\ j.kind = "typed" /\ ~j.errors
    /\ \A i \in 1..Len(j.keys) :
          j.keys[i] \in j.sure \cap contacts => j.keys[i] \in j.local \cup j.pairs

\* As ResolvedRight says it.
DoneInv(j) ==
    ~j.errors =>
        \A i \in 1..Len(j.keys) :
            /\ j.values[i] \in {j.keys[i], Nil}
            /\ j.keys[i] \in j.sure /\ (j.kind = "typed" => j.keys[i] \in contacts)
                   => j.values[i] = j.keys[i]

JobInv(j) ==
    /\ AskedInv(j)
    /\ j.pc = "project" => ProjectInv(j)
    /\ j.pc = "query" => QueryInv(j)
    /\ j.pc = "build" => BuildInv(j)
    /\ j.pc = "rows" => RowsInv(j)
    /\ j.pc = "done" => DoneInv(j)

IInv == Usage = "fits" /\ TypeOK /\ CacheInv /\ \A r \in Resolver : JobInv(job[r])

-----------------------------------------------------------------------------
(* The steps of a resolver. *)

\* A step of one resolver leaves the others' invariants alone.
LEMMA ResolverStep ==
    ASSUME IInv, NEW r \in Resolver, NEW j \in Job,
           job' = [job EXCEPT ![r] = j], JobInv(j), UNCHANGED store,
           idOf' \in [Name -> Name], iriOf' \in [Name -> Name], CacheInv'
    PROVE  IInv'
  <1>1. TypeOK' /\ (Usage = "fits")'
    BY DEF IInv, TypeOK, store
  <1>2. \A x \in Resolver : JobInv(job'[x])
    BY DEF IInv, TypeOK
  <1>3. \A x \in Resolver : JobInv(job[x])'
    BY <1>2 DEF JobInv, AskedInv, RowsInv, DoneInv, store
  <1>. QED
    BY <1>1, <1>3 DEF IInv

\* What the invariant says of one resolver.
LEMMA ResolverFacts ==
    ASSUME IInv, NEW r \in Resolver
    PROVE  /\ job[r] \in Job /\ JobInv(job[r]) /\ AskedInv(job[r])
           /\ job \in [Resolver -> Job]
           /\ idOf \in [Name -> Name] /\ iriOf \in [Name -> Name] /\ CacheInv
           /\ registered \subseteq Resource /\ contacts \subseteq registered
           /\ Nil \notin Resource /\ Name = Resource \cup {Nil}
  BY NilAssumption DEF IInv, TypeOK, JobInv, Name

\* Where no row is being parsed all that is to come are the columns.
LEMMA NoRowPlaces ==
    ASSUME NEW j, NEW f, Row(j) = << >>, Len(j.columns) \in Nat
    PROVE  Places(j, f) <=>
               /\ Lists(f, OpenSlots(j.values, j.slot))
               /\ Len(f) = Len(j.columns)
               /\ \A k \in 1..Len(j.columns) : j.columns[k] = j.keys[f[k]]
  <1>1. Len(Row(j)) = 0 /\ \A k : k \notin 1..Len(Row(j))
    OBVIOUS
  <1>2. 0 + Len(j.columns) = Len(j.columns)
    OBVIOUS
  <1>3. (\A k \in 1..Len(j.columns) : j.columns[k] = j.keys[f[Len(Row(j)) + k]])
            <=> (\A k \in 1..Len(j.columns) : j.columns[k] = j.keys[f[k]])
    <2>1. \A k \in 1..Len(j.columns) : Len(Row(j)) + k = k
      BY <1>1
    <2>. QED
      BY <2>1
  <1>. QED
    BY <1>1, <1>2, <1>3, Zenon DEF Places

\* makeProjections() gives an open slot a column, and a slot from the cache none.
LEMMA ProjectStep == ASSUME IInv, NEW r \in Resolver, Project(r) PROVE IInv'
  <1>. DEFINE j == job[r]
              n == Len(j.values)
              key == j.keys[n + 1]
              known == IF j.kind = "iris" /\ key = Nil THEN Nil ELSE Cached(j.kind, key)
              asks == known = Nil /\ (j.kind = "ids" \/ key # Nil)
              j2 == [j EXCEPT !.values = Append(@, known),
                              !.columns = IF asks THEN Append(@, key) ELSE @]
  <1>1. /\ j \in Job /\ AskedInv(j) /\ ProjectInv(j) /\ j.pc = "project" /\ j.kind \in {"ids", "iris"}
        /\ n \in Nat /\ Len(j.keys) \in Nat /\ n < Len(j.keys)
        /\ j.keys \in Seq(Name) /\ j.values \in Seq(Name) /\ j.columns \in Seq(Name)
    BY ResolverFacts DEF Project, JobInv, Job
  <1>2. key \in Name /\ known \in {key, Nil} /\ known \in Name /\ (asks <=> known = Nil)
    <2>1. n + 1 \in 1..Len(j.keys) /\ key \in Name
      BY <1>1
    <2>2. j.kind = "iris" => key \in Resource
      BY <1>1, <2>1, ResolverFacts DEF AskedInv
    <2>. QED
      BY <1>1, <2>1, <2>2, ResolverFacts DEF CacheInv, Cached
  <1>. HIDE DEF known, asks
  <1>3. job' = [job EXCEPT ![r] = j2] /\ UNCHANGED <<store, cache>>
    BY ResolverFacts DEF Project, known, asks
  <1>4. /\ j2.pc = "project" /\ j2.kind = j.kind /\ j2.waits = j.waits /\ j2.keys = j.keys
        /\ j2.values = Append(j.values, known)
        /\ j2.columns = (IF asks THEN Append(j.columns, key) ELSE j.columns)
        /\ j2.results = j.results /\ j2.offset = j.offset /\ j2.slot = j.slot
        /\ j2.errors = j.errors /\ j2.sure = j.sure /\ j2 \in Job
    <2>1. Append(j.values, known) \in Seq(Name) /\ Append(j.columns, key) \in Seq(Name)
      BY <1>1, <1>2
    <2>2. /\ j2.values = Append(j.values, known)
          /\ j2.columns = (IF asks THEN Append(j.columns, key) ELSE j.columns)
      BY <1>1 DEF Job
    <2>3. (IF asks THEN Append(j.columns, key) ELSE j.columns) \in Seq(Name)
      BY <1>1, <2>1
    <2>. QED
      BY <1>1, <2>1, <2>2, <2>3 DEF Job
  <1>. HIDE DEF j2
  <1>. DEFINE v == Append(j.values, known)
  <1>5. /\ Len(v) = n + 1 /\ v[n + 1] = known /\ v \in Seq(Name)
        /\ \A i \in 1..n : v[i] = j.values[i]
    BY <1>1, <1>2, AppendFacts
  <1>6. /\ Len(j.columns) \in Nat
        /\ Append(j.columns, key) \in Seq(Name)
        /\ Len(Append(j.columns, key)) = Len(j.columns) + 1
        /\ \A k \in 1..Len(j.columns) : Append(j.columns, key)[k] = j.columns[k]
        /\ Append(j.columns, key)[Len(j.columns) + 1] = key
    BY <1>1, <1>2, AppendFacts
  <1>. HIDE DEF v
  <1>7. \A i : i \in OpenSlots(v, 1) <=> i \in OpenSlots(j.values, 1) \/ (i = n + 1 /\ known = Nil)
    BY <1>1, <1>5 DEF OpenSlots
  <1>8. ValuesInv(j2)
    <2>. SUFFICES ASSUME NEW i \in 1..(n + 1)
                  PROVE  v[i] \in {j.keys[i], Nil} /\ i >= 1
      BY <1>1, <1>4, <1>5 DEF ValuesInv, ProjectInv, v
    <2>1. CASE i \in 1..n
      BY <1>1, <1>5, <2>1, SMTT(30) DEF ValuesInv, ProjectInv
    <2>2. CASE i = n + 1
      BY <1>1, <1>2, <1>5, <2>2
    <2>. QED
      BY <1>1, <2>1, <2>2
  <1>9. Placed(j2)
    <2>1. PICK f \in Seq(Nat) : Places(j, f)
      BY <1>1 DEF ProjectInv, Placed
    <2>2. Row(j) = << >> /\ Row(j2) = << >> /\ j.slot = 1 /\ j2.slot = 1 /\ Len(<< >>) = 0
      BY <1>1, <1>4 DEF ProjectInv, Row
    <2>3. /\ Lists(f, OpenSlots(j.values, 1))
          /\ Len(f) = Len(j.columns)
          /\ \A k \in 1..Len(j.columns) : j.columns[k] = j.keys[f[k]]
      BY <1>6, <2>1, <2>2, NoRowPlaces
    <2>4. CASE asks
      <3>. DEFINE g == Append(f, n + 1)
      <3>1. /\ g \in Seq(Nat) /\ Len(g) = Len(f) + 1 /\ g[Len(f) + 1] = n + 1 /\ Len(f) \in Nat
            /\ \A k \in 1..Len(f) : g[k] = f[k]
        BY <1>1, <2>1, AppendFacts
      <3>2. Lists(g, OpenSlots(v, 1))
        <4>1. \A i \in OpenSlots(j.values, 1) : i < n + 1
          BY <1>1 DEF OpenSlots
        <4>2. OpenSlots(v, 1) = OpenSlots(j.values, 1) \cup {n + 1}
          BY <1>2, <1>7, <2>4
        <4>3. OpenSlots(j.values, 1) \in SUBSET Nat /\ n + 1 \in Nat
          BY <1>1 DEF OpenSlots
        <4>. QED
          BY <2>1, <2>3, <4>1, <4>2, <4>3, AppendLists
      <3>. HIDE DEF g
      <3>3. \A k \in 1..Len(j2.columns) : j2.columns[k] = j2.keys[g[k]]
        <4>. TAKE k \in 1..Len(j2.columns)
        <4>1. j2.columns = Append(j.columns, key) /\ j2.keys = j.keys
          BY <1>4, <2>4
        <4>2. k \in 1..Len(j.columns) \/ k = Len(j.columns) + 1
          BY <1>6, <4>1
        <4>. QED
          BY <1>6, <2>3, <3>1, <4>1, <4>2
      <3>4. Len(g) = Len(j2.columns)
        BY <1>4, <1>6, <2>3, <2>4, <3>1
      <3>5. Places(j2, g)
        <4>1. Lists(g, OpenSlots(j2.values, j2.slot)) /\ Row(j2) = << >> /\ Len(j2.columns) \in Nat
          BY <1>4, <2>2, <3>1, <3>2, <3>4 DEF v
        <4>. QED
          BY <3>3, <3>4, <4>1, NoRowPlaces
      <3>. QED
        BY <3>1, <3>5 DEF Placed
    <2>5. CASE ~asks
      <3>1. OpenSlots(v, 1) = OpenSlots(j.values, 1)
        BY <1>2, <1>7, <2>5
      <3>2. /\ j2.columns = j.columns /\ j2.values = v /\ j2.keys = j.keys /\ j2.slot = 1
            /\ Row(j2) = << >> /\ Len(j2.columns) \in Nat
        BY <1>4, <1>6, <2>2, <2>5 DEF v
      <3>3. Places(j2, f)
        BY <2>3, <3>1, <3>2, NoRowPlaces
      <3>. QED
        BY <2>1, <3>3 DEF Placed
    <2>. QED
      BY <2>4, <2>5
  <1>10. JobInv(j2)
    <2>1. Len(j2.columns) <= Len(j2.values) /\ Len(j2.values) <= Len(j2.keys)
      BY <1>1, <1>4, <1>5, <1>6 DEF ProjectInv, v
    <2>. QED
      BY <1>1, <1>4, <1>8, <1>9, <2>1 DEF JobInv, ProjectInv, AskedInv
  <1>. QED
    BY <1>3, <1>4, <1>10, ResolverStep, ResolverFacts DEF cache, CacheInv

\* A new lookup has all of its keys before it.
LEMMA AskStep ==
    ASSUME IInv, NEW r \in Resolver, NEW kind \in DOMAIN MaxKeys[r], NEW waits \in Waits,
           NEW keys \in Keys(r, kind), Ask(r, kind, waits, keys)
    PROVE  IInv'
  <1>. DEFINE sure == KeySet(keys) \cap registered
              gone == IF kind = "typed" THEN (KeySet(keys) \cap registered) \ contacts ELSE {}
              j2 == [Idle EXCEPT !.pc = "project", !.kind = kind, !.waits = waits,
                                 !.keys = keys, !.sure = sure, !.gone = gone]
  <1>1. keys \in Seq(Name) /\ DOMAIN keys = 1..Len(keys) /\ Len(keys) \in Nat
    <2>1. PICK n \in 0..MaxKeys[r][kind] : keys \in [1..n -> Name]
      BY DEF Keys
    <2>2. n \in Nat
      BY ResolverAssumption
    <2>. QED
      BY <2>1, <2>2
  <1>2. kind \in {"ids", "iris", "typed"} /\ waits \in BOOLEAN
    BY ResolverAssumption
  <1>3. job' = [job EXCEPT ![r] = j2] /\ UNCHANGED <<store, cache>>
    BY DEF Ask
  <1>4. /\ j2.pc = "project" /\ j2.kind = kind /\ j2.waits = waits /\ j2.keys = keys
        /\ j2.values = << >> /\ j2.columns = << >> /\ j2.results = << >>
        /\ j2.offset = 1 /\ j2.slot = 1 /\ j2.errors = FALSE /\ j2.sure = sure
    BY DEF Idle
  <1>5. j2 \in Job
    <2>1. sure \in SUBSET Resource /\ gone \in SUBSET Resource
      BY ResolverFacts
    <2>2. << >> \in Seq(Name) /\ << >> \in Seq(Seq(Name))
      OBVIOUS
    <2>3. Idle \in Job
      BY <2>2 DEF Idle, Job
    <2>. HIDE DEF sure, gone
    <2>. QED
      BY <1>1, <1>2, <2>1, <2>3 DEF Job
  <1>. HIDE DEF j2
  <1>6. AskedInv(j2)
    <2>1. Askable(kind, waits, keys) /\ Usage = "fits"
      BY DEF Ask, IInv
    <2>2. KeySet(keys) \subseteq registered => \A i \in 1..Len(keys) : keys[i] \in sure
      BY <1>1 DEF KeySet
    <2>. QED
      BY <1>1, <1>4, <2>1, <2>2 DEF AskedInv, Askable
  <1>7. Placed(j2)
    <2>1. Row(j2) = << >> /\ Len(j2.columns) = 0 /\ Len(<< >>) = 0 /\ << >> \in Seq(Nat)
      BY <1>4 DEF Row
    <2>2. OpenSlots(j2.values, j2.slot) = {}
      BY <1>4 DEF OpenSlots
    <2>3. Lists(<< >>, {})
      BY DEF Lists
    <2>4. \A k \in 1..Len(j2.columns) : j2.columns[k] = j2.keys[<< >>[k]]
      BY <2>1
    <2>5. Lists(<< >>, OpenSlots(j2.values, j2.slot)) /\ Len(<< >>) = Len(j2.columns)
      BY <2>1, <2>2, <2>3
    <2>6. Len(j2.columns) \in Nat
      BY <2>1
    <2>7. Places(j2, << >>)
      BY <2>1, <2>4, <2>5, <2>6, NoRowPlaces
    <2>. QED
      BY <2>1, <2>7 DEF Placed
  <1>8. JobInv(j2)
    <2>1. Len(j2.values) = 0 /\ Len(j2.columns) = 0 /\ ValuesInv(j2)
      BY <1>4 DEF ValuesInv
    <2>. QED
      BY <1>1, <1>4, <1>6, <1>7, <2>1 DEF JobInv, ProjectInv
  <1>. QED
    BY <1>3, <1>5, <1>8, ResolverStep, ResolverFacts DEF cache, CacheInv

\* Without columns every slot is filled.
LEMMA ProjectedStep == ASSUME IInv, NEW r \in Resolver, Projected(r) PROVE IInv'
  <1>. DEFINE j == job[r]
              j2 == [j EXCEPT !.pc = IF j.columns = << >> THEN "done" ELSE "query"]
  <1>1. /\ j \in Job /\ AskedInv(j) /\ ProjectInv(j) /\ j.kind # "typed"
        /\ Len(j.values) = Len(j.keys)
    BY ResolverFacts DEF Projected, JobInv
  <1>2. job' = [job EXCEPT ![r] = j2] /\ UNCHANGED <<store, cache>>
    BY ResolverFacts DEF Projected
  <1>3. /\ j2.pc = (IF j.columns = << >> THEN "done" ELSE "query")
        /\ j2.kind = j.kind /\ j2.waits = j.waits /\ j2.keys = j.keys
        /\ j2.values = j.values /\ j2.columns = j.columns /\ j2.results = j.results
        /\ j2.offset = j.offset /\ j2.slot = j.slot /\ j2.errors = j.errors
        /\ j2.sure = j.sure /\ j2 \in Job
    BY <1>1 DEF Job
  <1>. HIDE DEF j2
  <1>4. Placed(j2) /\ ValuesInv(j2)
    BY <1>1, <1>3 DEF ProjectInv, Placed, Places, Row, ValuesInv
  <1>5. ASSUME j.columns = << >> PROVE DoneInv(j2)
    <2>1. PICK f \in Seq(Nat) : Places(j, f)
      BY <1>1 DEF ProjectInv, Placed
    <2>2. Row(j) = << >> /\ Len(j.columns) = 0 /\ j.slot = 1
      BY <1>1, <1>5 DEF ProjectInv, Row
    <2>3. Lists(f, OpenSlots(j.values, 1)) /\ Len(f) = 0
      BY <2>1, <2>2, NoRowPlaces
    <2>4. OpenSlots(j.values, 1) = {}
      BY <2>3 DEF Lists
    <2>5. Len(j.values) \in Nat
      BY <1>1 DEF Job
    <2>6. \A i \in 1..Len(j.values) : j.values[i] # Nil
      BY <2>4, <2>5 DEF OpenSlots
    <2>. QED
      BY <1>1, <1>3, <2>6 DEF DoneInv, ProjectInv, ValuesInv
  <1>6. JobInv(j2)
    BY <1>1, <1>3, <1>4, <1>5 DEF JobInv, AskedInv, QueryInv, ProjectInv
  <1>. QED
    BY <1>2, <1>3, <1>6, ResolverStep, ResolverFacts DEF cache, CacheInv

\* A chunk is the head of the columns, and all of them if they fit one query.
LEMMA ChunkFacts ==
    ASSUME NEW columns \in Seq(Name)
    PROVE  /\ ChunkLength(columns) \in 0..Len(columns)
           /\ Len(columns) <= ColumnLimit => ChunkLength(columns) = Len(columns)
           /\ Chunk(columns) \in Seq(Name) /\ Len(Chunk(columns)) = ChunkLength(columns)
           /\ \A k \in 1..ChunkLength(columns) : Chunk(columns)[k] = columns[k]
           /\ AfterChunk(columns) \in Seq(Name)
           /\ Len(AfterChunk(columns)) = Len(columns) - ChunkLength(columns)
           /\ \A k \in 1..(Len(columns) - ChunkLength(columns)) :
                  AfterChunk(columns)[k] = columns[ChunkLength(columns) + k]
  <1>. DEFINE c == ChunkLength(columns)
  <1>1. ColumnLimit \in Nat /\ Len(columns) \in Nat
    BY ResolverAssumption
  <1>2. c = IF ColumnLimit <= Len(columns) THEN ColumnLimit ELSE Len(columns)
    <2>1. CASE ColumnLimit <= Len(columns)
      <3>1. Min({ColumnLimit, Len(columns)}) = ColumnLimit
        <4>. DEFINE S == {ColumnLimit, Len(columns)}
        <4>1. ColumnLimit \in S /\ S \subseteq Int /\ \A x \in S : ColumnLimit <= x
          BY <1>1, <2>1
        <4>. HIDE DEF S
        <4>2. Min(S) = ColumnLimit
          BY <4>1, MinFacts
        <4>. QED
          BY <4>2 DEF S
      <3>. QED
        BY <2>1, <3>1 DEF ChunkLength
    <2>2. CASE ~(ColumnLimit <= Len(columns))
      <3>1. Min({ColumnLimit, Len(columns)}) = Len(columns)
        <4>. DEFINE S == {ColumnLimit, Len(columns)}
        <4>1. Len(columns) \in S /\ S \subseteq Int /\ \A x \in S : Len(columns) <= x
          BY <1>1, <2>2
        <4>. HIDE DEF S
        <4>2. Min(S) = Len(columns)
          BY <4>1, MinFacts
        <4>. QED
          BY <4>2 DEF S
      <3>. QED
        BY <2>2, <3>1 DEF ChunkLength
    <2>. QED
      BY <2>1, <2>2
  <1>3. c \in 0..Len(columns) /\ (Len(columns) <= ColumnLimit => c = Len(columns))
    BY <1>1, <1>2
  <1>. HIDE DEF c
  <1>4. /\ SubSeq(columns, 1, c) \in Seq(Name) /\ Len(SubSeq(columns, 1, c)) = c
        /\ \A k \in 1..c : SubSeq(columns, 1, c)[k] = columns[k]
    BY <1>1, <1>3
  <1>5. /\ SubSeq(columns, c + 1, Len(columns)) \in Seq(Name)
        /\ Len(SubSeq(columns, c + 1, Len(columns))) = Len(columns) - c
        /\ \A k \in 1..(Len(columns) - c) : SubSeq(columns, c + 1, Len(columns))[k] = columns[c + k]
    BY <1>1, <1>3
  <1>. QED
    BY <1>3, <1>4, <1>5 DEF Chunk, AfterChunk, c

\* What a result leaves: lookup() only sends one query, as its list fits it.
LEMMA AfterQueryFacts ==
    ASSUME IInv, NEW r \in Resolver, job[r].pc = "query", NEW row \in Seq(Name)
    PROVE  LET j2 == AfterQuery(job[r], row) IN
           /\ j2 \in Job /\ j2.pc = "build" /\ Row(j2) = row /\ Len(j2.results) = 1
           /\ j2.kind = job[r].kind /\ j2.waits = job[r].waits /\ j2.keys = job[r].keys
           /\ j2.values = job[r].values /\ j2.columns = AfterChunk(job[r].columns)
           /\ j2.offset = job[r].offset /\ j2.slot = job[r].slot
           /\ j2.errors = job[r].errors /\ j2.sure = job[r].sure
           /\ Len(j2.keys) <= ColumnLimit => j2.columns = << >>
           /\ Len(j2.columns) <= Len(j2.values)
           /\ AskedInv(j2)
  <1>. DEFINE j == job[r]
              rest == AfterChunk(j.columns)
              j2 == AfterQuery(j, row)
  <1>1. /\ j \in Job /\ AskedInv(j) /\ QueryInv(j)
        /\ Len(j.keys) \in Nat /\ Len(j.columns) \in Nat /\ j.columns \in Seq(Name)
    BY ResolverFacts DEF JobInv, Job
  <1>2. rest \in Seq(Name) /\ Len(rest) <= Len(j.columns) /\ Len(rest) \in Nat
    <2>1. /\ ChunkLength(j.columns) \in 0..Len(j.columns) /\ rest \in Seq(Name)
          /\ Len(rest) = Len(j.columns) - ChunkLength(j.columns)
      BY <1>1, ChunkFacts
    <2>. HIDE DEF rest
    <2>. QED
      BY <1>1, <2>1
  <1>3. Len(j.keys) <= ColumnLimit => rest = << >>
    <2>. SUFFICES ASSUME Len(j.keys) <= ColumnLimit PROVE rest = << >>
      OBVIOUS
    <2>1. Len(j.columns) <= ColumnLimit
      BY <1>1, ResolverAssumption DEF QueryInv
    <2>2. /\ ChunkLength(j.columns) = Len(j.columns)
          /\ Len(rest) = Len(j.columns) - ChunkLength(j.columns)
      BY <1>1, <2>1, ChunkFacts
    <2>. HIDE DEF rest
    <2>3. Len(rest) = 0
      BY <1>1, <2>2
    <2>. QED
      BY <1>2, <2>3
  <1>4. ~j.waits => rest = << >>
    BY <1>1, <1>3 DEF AskedInv
  <1>. HIDE DEF rest
  <1>5. Append(j.results, row) = <<row>> /\ <<row>> \in Seq(Seq(Name))
    BY <1>1 DEF QueryInv
  <1>6. /\ j2.pc = (IF j.waits \/ rest = << >> THEN "build" ELSE "query")
        /\ j2.kind = j.kind /\ j2.waits = j.waits /\ j2.keys = j.keys
        /\ j2.values = j.values /\ j2.columns = rest /\ j2.results = <<row>>
        /\ j2.offset = j.offset /\ j2.slot = j.offset /\ j2.errors = j.errors
        /\ j2.sure = j.sure
    BY <1>1, <1>5 DEF Job, AfterQuery, rest
  <1>7. j2 \in Job
    BY <1>1, <1>2, <1>5 DEF Job, AfterQuery, rest
  <1>. HIDE DEF j2
  <1>8. Row(j2) = row /\ Len(j2.results) = 1
    BY <1>6 DEF Row
  <1>9. Len(j2.columns) <= Len(j2.values)
    BY <1>1, <1>2, <1>6 DEF QueryInv
  <1>. QED
    BY <1>1, <1>3, <1>4, <1>6, <1>7, <1>8, <1>9 DEF AskedInv, QueryInv, rest, j2

\* The columns of a result are for the slots that their projections were for.
LEMMA QueryStep == ASSUME IInv, NEW r \in Resolver, Query(r) PROVE IInv'
  <1>. DEFINE j == job[r]
              row == Answer(Chunk(j.columns))
              j2 == AfterQuery(j, row)
              c == ChunkLength(j.columns)
  <1>1. /\ j \in Job /\ AskedInv(j) /\ QueryInv(j) /\ j.pc = "query"
        /\ Len(j.columns) \in Nat /\ j.columns \in Seq(Name)
    BY ResolverFacts DEF JobInv, Job, Query
  <1>2. /\ c \in 0..Len(j.columns) /\ Chunk(j.columns) \in Seq(Name)
        /\ Len(Chunk(j.columns)) = c
        /\ \A k \in 1..c : Chunk(j.columns)[k] = j.columns[k]
        /\ Len(AfterChunk(j.columns)) = Len(j.columns) - c
        /\ \A k \in 1..(Len(j.columns) - c) : AfterChunk(j.columns)[k] = j.columns[c + k]
    BY <1>1, ChunkFacts
  <1>3. /\ row \in Seq(Name) /\ Len(row) = c
        /\ \A k \in 1..c : row[k] \in {j.columns[k], Nil}
                           /\ (j.columns[k] \in registered => row[k] = j.columns[k])
    <2>. DEFINE ch == Chunk(j.columns)
    <2>1. ch \in Seq(Name) /\ Len(ch) = c /\ DOMAIN ch = 1..c
      BY <1>2
    <2>2. Nil \in Name
      BY ResolverFacts
    <2>. HIDE DEF ch
    <2>. DEFINE a == Answer(ch)
    <2>3. /\ a \in [1..c -> Name]
          /\ \A k \in 1..c : a[k] = IF ch[k] \in registered THEN ch[k] ELSE Nil
      BY <2>1, <2>2 DEF Answer
    <2>. HIDE DEF a
    <2>4. a \in Seq(Name) /\ Len(a) = c
      <3>1. c \in Nat
        BY <1>1, <1>2
      <3>. QED
        BY <2>3, <3>1
    <2>5. row = a
      BY DEF a, ch
    <2>. HIDE DEF row
    <2>. QED
      BY <1>2, <2>3, <2>4, <2>5 DEF ch
  <1>4. job' = [job EXCEPT ![r] = j2] /\ UNCHANGED <<store, cache>>
    BY ResolverFacts DEF Query
  <1>. HIDE DEF row, c
  <1>5. /\ j2 \in Job /\ j2.pc = "build" /\ Row(j2) = row /\ Len(j2.results) = 1
        /\ j2.kind = j.kind /\ j2.keys = j.keys
        /\ j2.values = j.values /\ j2.columns = AfterChunk(j.columns)
        /\ j2.offset = j.offset /\ j2.slot = j.slot
        /\ j2.errors = j.errors /\ j2.sure = j.sure
        /\ Len(j2.keys) <= ColumnLimit => j2.columns = << >>
        /\ Len(j2.columns) <= Len(j2.values)
        /\ AskedInv(j2)
    BY <1>1, <1>3, AfterQueryFacts
  <1>. HIDE DEF j2
  <1>6. Placed(j2)
    <2>1. PICK f \in Seq(Nat) : Places(j, f)
      BY <1>1 DEF QueryInv, Placed
    <2>2. Row(j) = << >>
      BY <1>1 DEF QueryInv, Row
    <2>3. /\ Lists(f, OpenSlots(j.values, j.slot))
          /\ Len(f) = Len(j.columns)
          /\ \A k \in 1..Len(j.columns) : j.columns[k] = j.keys[f[k]]
      BY <1>1, <2>1, <2>2, NoRowPlaces
    <2>4. Lists(f, OpenSlots(j2.values, j2.slot)) /\ Len(f) = Len(Row(j2)) + Len(j2.columns)
      <3>1. Len(Row(j2)) = c /\ Len(j2.columns) = Len(j.columns) - c
        BY <1>2, <1>3, <1>5
      <3>2. c \in Nat /\ c + (Len(j.columns) - c) = Len(j.columns)
        BY <1>1, <1>2
      <3>. QED
        BY <1>5, <2>3, <3>1, <3>2
    <2>5. ASSUME NEW k \in 1..Len(Row(j2))
          PROVE  /\ Row(j2)[k] \in {j2.keys[f[k]], Nil}
                 /\ j2.keys[f[k]] \in j2.sure => Row(j2)[k] = j2.keys[f[k]]
      <3>1. k \in 1..c /\ k \in 1..Len(j.columns)
        BY <1>1, <1>2, <1>3, <1>5
      <3>2. j.sure \subseteq registered
        BY <1>1 DEF AskedInv
      <3>. QED
        BY <1>3, <1>5, <2>3, <3>1, <3>2
    <2>6. ASSUME NEW k \in 1..Len(j2.columns)
          PROVE  j2.columns[k] = j2.keys[f[Len(Row(j2)) + k]]
      <3>1. k \in 1..(Len(j.columns) - c) /\ c + k \in 1..Len(j.columns)
        BY <1>1, <1>2, <1>5
      <3>2. j2.columns[k] = j.columns[c + k] /\ Len(Row(j2)) = c
        BY <1>2, <1>3, <1>5, <3>1
      <3>. QED
        BY <1>5, <2>3, <3>1, <3>2
    <2>. QED
      BY <2>1, <2>4, <2>5, <2>6 DEF Placed, Places
  <1>7. BuildInv(j2)
    <2>1. j.offset \in Nat /\ j.slot \in Nat
      BY <1>1 DEF Job
    <2>. QED
      BY <1>1, <1>5, <1>6, <2>1 DEF BuildInv, QueryInv, ValuesInv
  <1>. QED
    BY <1>4, <1>5, <1>7, ResolverStep, ResolverFacts DEF JobInv, cache, CacheInv

\* A lookup that fails is over, or parses an empty result and reports an error.
LEMMA QueryFailsStep == ASSUME IInv, NEW r \in Resolver, QueryFails(r) PROVE IInv'
  <1>. DEFINE j == job[r]
              a == AfterQuery(j, << >>)
              j1 == [j EXCEPT !.pc = "failed"]
              j2 == [a EXCEPT !.errors = TRUE]
  <1>1. /\ j \in Job /\ AskedInv(j) /\ QueryInv(j) /\ j.pc = "query"
        /\ j.offset \in Nat /\ j.slot \in Nat /\ << >> \in Seq(Name)
    BY ResolverFacts DEF JobInv, Job, QueryFails
  <1>2. CASE job' = [job EXCEPT ![r] = j1]
    <2>1. j1 \in Job /\ j1.pc = "failed" /\ AskedInv(j1)
      BY <1>1 DEF Job, AskedInv
    <2>. QED
      BY <1>2, <2>1, ResolverStep, ResolverFacts DEF JobInv, QueryFails, cache, CacheInv
  <1>3. CASE ~j.waits /\ job' = [job EXCEPT ![r] = j2]
    <2>1. /\ a \in Job /\ a.pc = "build" /\ Row(a) = << >> /\ Len(a.results) = 1
          /\ a.kind = j.kind /\ a.keys = j.keys /\ a.values = j.values
          /\ a.offset = j.offset /\ a.slot = j.slot
          /\ Len(a.keys) <= ColumnLimit => a.columns = << >>
          /\ AskedInv(a) /\ a.waits = j.waits
      <3>1. PICK row \in Seq(Name) : row = << >> /\ a = AfterQuery(j, row)
        BY <1>1
      <3>2. Row(a) = row /\ Len(a.results) = 1 /\ a \in Job /\ a.pc = "build"
        BY <1>1, <3>1, AfterQueryFacts
      <3>. QED
        BY <1>1, <3>1, <3>2, AfterQueryFacts
    <2>. HIDE DEF a
    <2>2. /\ j2 \in Job /\ j2.pc = "build" /\ j2.errors
          /\ j2.results = a.results /\ j2.kind = a.kind /\ j2.keys = a.keys
          /\ j2.values = a.values /\ j2.columns = a.columns /\ j2.waits = a.waits
          /\ j2.offset = a.offset /\ j2.slot = a.slot /\ j2.sure = a.sure
      BY <2>1 DEF Job
    <2>. HIDE DEF j2
    <2>3. Row(j2) = << >> /\ AskedInv(j2) /\ j2.columns = << >>
      BY <1>3, <2>1, <2>2 DEF Row, AskedInv
    <2>4. BuildInv(j2)
      BY <1>1, <2>1, <2>2, <2>3 DEF BuildInv, QueryInv
    <2>. QED
      BY <1>3, <2>2, <2>3, <2>4, ResolverStep, ResolverFacts
         DEF JobInv, QueryFails, cache, CacheInv
  <1>. QED
    BY <1>2, <1>3, ResolverFacts DEF QueryFails

\* The next column goes into the first open slot, and is its key's.
LEMMA BuildStep == ASSUME IInv, NEW r \in Resolver, Build(r) PROVE IInv'
  <1>. DEFINE j == job[r]
              row == Head(j.results)
              slot == NextSlot(j.values, j.slot)
              slots == OpenSlots(j.values, j.slot)
              j2 == [j EXCEPT !.values[slot] = Head(row),
                              !.results = <<Tail(row)>> \o Tail(@),
                              !.slot = slot + 1, !.offset = NextOffset(@)]
  <1>1. /\ j \in Job /\ AskedInv(j) /\ BuildInv(j) /\ j.pc = "build"
        /\ j.results # << >> /\ row # << >>
    BY ResolverFacts DEF JobInv, Build
  <1>2. /\ j.keys \in Seq(Name) /\ j.values \in Seq(Name) /\ j.columns \in Seq(Name)
        /\ j.results \in Seq(Seq(Name)) /\ j.slot \in Nat \ {0} /\ j.offset \in Nat \ {0}
        /\ Len(j.values) \in Nat /\ Len(j.columns) \in Nat /\ Len(j.keys) = Len(j.values)
        /\ j.sure \subseteq Resource
    BY <1>1 DEF Job, BuildInv
  <1>3. /\ row \in Seq(Name) /\ Tail(j.results) = << >> /\ Row(j) = row /\ ~j.errors
        /\ ValuesInv(j) /\ Placed(j)
    <2>1. Len(j.results) = 1
      BY <1>1 DEF BuildInv
    <2>2. row \in Seq(Name) /\ Tail(j.results) = << >>
      BY <1>2, <2>1, SingleFacts
    <2>3. Row(j) = row
      BY <1>1 DEF Row
    <2>. HIDE DEF row
    <2>. QED
      BY <1>1, <2>2, <2>3 DEF BuildInv
  <1>4. /\ Head(row) = row[1] /\ Head(row) \in Name /\ Tail(row) \in Seq(Name)
        /\ Len(row) \in Nat /\ Len(row) >= 1 /\ Len(Tail(row)) = Len(row) - 1
        /\ \A k \in 1..(Len(row) - 1) : Tail(row)[k] = row[k + 1]
    BY <1>1, <1>3, TailFacts
  <1>5. PICK f \in Seq(Nat) : Places(j, f)
    BY <1>3 DEF Placed
  <1>6. /\ Lists(f, slots) /\ Len(f) = Len(row) + Len(j.columns)
        /\ \A k \in 1..Len(row) :
              /\ row[k] \in {j.keys[f[k]], Nil}
              /\ j.keys[f[k]] \in j.sure => row[k] = j.keys[f[k]]
        /\ \A k \in 1..Len(j.columns) : j.columns[k] = j.keys[f[Len(row) + k]]
    BY <1>3, <1>5 DEF Places
  <1>7. /\ Len(f) \in Nat /\ Len(f) >= 1 /\ f # << >> /\ Tail(f) \in Seq(Nat)
        /\ Len(Tail(f)) = Len(f) - 1
        /\ \A k \in 1..(Len(f) - 1) : Tail(f)[k] = f[k + 1]
    <2>. HIDE DEF row, slots
    <2>1. Len(f) >= 1
      BY <1>2, <1>4, <1>6
    <2>2. f # << >>
      BY <2>1
    <2>. QED
      BY <2>1, <2>2, TailFacts
  <1>8. slots \subseteq Nat /\ \A i : i \in slots <=> i \in 1..Len(j.values) /\ i >= j.slot /\ j.values[i] = Nil
    BY <1>2 DEF OpenSlots
  <1>9. /\ slot = f[1] /\ slot \in slots /\ Lists(Tail(f), slots \ {slot})
        /\ \A i \in slots \ {slot} : i > slot
    <2>. HIDE DEF slots
    <2>1. /\ f[1] \in slots /\ Min(slots) = f[1]
          /\ Lists(Tail(f), slots \ {f[1]})
          /\ \A i \in slots \ {f[1]} : i > f[1]
      BY <1>6, <1>7, <1>8, TailLists
    <2>. QED
      BY <2>1 DEF NextSlot, slots
  <1>10. job' = [job EXCEPT ![r] = j2] /\ UNCHANGED store
    BY ResolverFacts DEF Build
  <1>. HIDE DEF slot, slots, row
  <1>11. slot \in 1..Len(j.values) /\ slot >= j.slot /\ slot \in Nat /\ j.values[slot] = Nil
    BY <1>2, <1>8, <1>9
  <1>. DEFINE v == [j.values EXCEPT ![slot] = Head(row)]
  <1>12. /\ v \in Seq(Name) /\ Len(v) = Len(j.values) /\ v[slot] = Head(row)
         /\ \A i \in 1..Len(j.values) : i # slot => v[i] = j.values[i]
    BY <1>2, <1>4, <1>11
  <1>13. <<Tail(row)>> \o Tail(j.results) = <<Tail(row)>> /\ <<Tail(row)>> \in Seq(Seq(Name))
    <2>1. Len(j.results) = 1
      BY <1>1 DEF BuildInv
    <2>. QED
      BY <1>2, <1>4, <2>1, SingleFacts
  <1>14. /\ j2.pc = "build" /\ j2.kind = j.kind /\ j2.waits = j.waits /\ j2.keys = j.keys
         /\ j2.values = v /\ j2.columns = j.columns /\ j2.results = <<Tail(row)>>
         /\ j2.offset = j.offset + 1 /\ j2.slot = slot + 1 /\ j2.errors = j.errors
         /\ j2.sure = j.sure
    BY <1>1, <1>13 DEF Job, NextOffset
  <1>15. j2 \in Job
    <2>1. v \in Seq(Name)
      BY <1>12
    <2>2. slot + 1 \in Nat \ {0} /\ j.offset + 1 \in Nat \ {0}
      BY <1>2, <1>11
    <2>. QED
      BY <1>1, <1>13, <2>1, <2>2 DEF Job, NextOffset
  <1>. HIDE DEF j2, v
  <1>16. /\ Head(row) \in {j.keys[slot], Nil}
         /\ j.keys[slot] \in j.sure => Head(row) = j.keys[slot]
         /\ j.keys[slot] \in Name
    BY <1>2, <1>4, <1>6, <1>9, <1>11
  <1>17. /\ idOf' \in [Name -> Name] /\ iriOf' \in [Name -> Name] /\ CacheInv'
    <2>. DEFINE key == j.keys[slot]
    <2>1. CASE j.kind = "ids"
      <3>1. /\ iriOf' = [iriOf EXCEPT ![Head(row)] = key]
            /\ idOf' = [idOf EXCEPT ![key] = Head(row)]
        BY <2>1 DEF Build, Insert, row, slot
      <3>. QED
        BY <1>4, <1>16, <3>1, ResolverFacts DEF CacheInv
    <2>2. CASE j.kind # "ids"
      <3>1. /\ iriOf' = [iriOf EXCEPT ![key] = Head(row)]
            /\ idOf' = [idOf EXCEPT ![Head(row)] = key]
        BY <2>2 DEF Build, Insert, row, slot
      <3>2. j.kind = "iris"
        BY <1>1, <2>2 DEF BuildInv, Job
      <3>3. Head(row) = key
        BY <1>1, <1>2, <1>11, <1>16, <3>2 DEF AskedInv
      <3>. QED
        BY <1>4, <1>16, <3>1, <3>3, ResolverFacts DEF CacheInv
    <2>. QED
      BY <2>1, <2>2
  <1>18. ValuesInv(j2)
    <2>. SUFFICES ASSUME NEW i \in 1..Len(j.values)
                  PROVE  /\ v[i] \in {j.keys[i], Nil}
                         /\ j.keys[i] \in j.sure /\ v[i] = Nil => i >= slot + 1
      BY <1>12, <1>14 DEF ValuesInv
    <2>1. CASE i = slot
      BY <1>2, <1>12, <1>16, <2>1, ResolverFacts
    <2>2. CASE i # slot
      <3>1. v[i] = j.values[i]
        BY <1>12, <2>2
      <3>2. /\ j.values[i] \in {j.keys[i], Nil}
            /\ j.keys[i] \in j.sure /\ j.values[i] = Nil => i >= j.slot
        BY <1>3 DEF ValuesInv
      <3>3. j.keys[i] \in j.sure /\ v[i] = Nil => i \in slots \ {slot}
        BY <1>8, <2>2, <3>1, <3>2
      <3>. QED
        BY <1>9, <1>11, <3>1, <3>2, <3>3
    <2>. QED
      BY <2>1, <2>2
  <1>19. Placed(j2)
    <2>. DEFINE g == Tail(f)
    <2>1. OpenSlots(v, slot + 1) = slots \ {slot}
      <3>1. \A i : i \in OpenSlots(v, slot + 1) <=> i \in 1..Len(j.values) /\ i >= slot + 1 /\ v[i] = Nil
        BY <1>11, <1>12 DEF OpenSlots
      <3>2. \A i : i \in 1..Len(j.values) /\ i >= slot + 1 => i # slot /\ v[i] = j.values[i] /\ i >= j.slot
        BY <1>2, <1>11, <1>12
      <3>3. \A i \in slots \ {slot} : i \in 1..Len(j.values) /\ i >= slot + 1
        BY <1>8, <1>9, <1>11
      <3>. QED
        BY <1>8, <3>1, <3>2, <3>3
    <2>2. Row(j2) = Tail(row)
      BY <1>14 DEF Row
    <2>3. Lists(g, OpenSlots(j2.values, j2.slot))
      BY <1>9, <1>14, <2>1
    <2>. HIDE DEF g
    <2>4. Len(g) = Len(Row(j2)) + Len(j2.columns)
      BY <1>2, <1>4, <1>6, <1>7, <1>14, <2>2 DEF g
    <2>5. ASSUME NEW k \in 1..Len(Row(j2))
          PROVE  /\ Row(j2)[k] \in {j2.keys[g[k]], Nil}
                 /\ j2.keys[g[k]] \in j2.sure => Row(j2)[k] = j2.keys[g[k]]
      <3>1. k \in 1..(Len(row) - 1) /\ k \in 1..(Len(f) - 1) /\ k + 1 \in 1..Len(row)
        BY <1>2, <1>4, <1>6, <2>2
      <3>2. Row(j2)[k] = row[k + 1] /\ g[k] = f[k + 1]
        BY <1>4, <1>7, <2>2, <3>1 DEF g
      <3>. QED
        BY <1>6, <1>14, <3>1, <3>2
    <2>6. ASSUME NEW k \in 1..Len(j2.columns)
          PROVE  j2.columns[k] = j2.keys[g[Len(Row(j2)) + k]]
      <3>. DEFINE m == Len(Row(j2)) + k
      <3>1. m = Len(row) - 1 + k /\ m \in 1..(Len(f) - 1) /\ m + 1 = Len(row) + k
        BY <1>2, <1>4, <1>6, <1>14, <2>2, SMTT(30)
      <3>2. g[m] = f[Len(row) + k]
        BY <1>7, <3>1 DEF g
      <3>. QED
        BY <1>6, <1>14, <3>2
    <2>7. Places(j2, g)
      BY <2>3, <2>4, <2>5, <2>6 DEF Places
    <2>. QED
      BY <1>7, <2>7 DEF Placed, g
  <1>20. JobInv(j2)
    <2>1. Len(j2.results) = 1 /\ j2.offset <= j2.slot
      BY <1>1, <1>2, <1>11, <1>14 DEF BuildInv
    <2>2. BuildInv(j2)
      BY <1>1, <1>2, <1>3, <1>12, <1>14, <1>18, <1>19, <2>1 DEF BuildInv
    <2>. QED
      BY <1>1, <1>14, <2>2 DEF JobInv, AskedInv
  <1>. QED
    BY <1>10, <1>15, <1>17, <1>20, ResolverStep

\* The next query's columns start at the offset, not at the slot: that is no
\* other as long as all keys are known, so that no slot was left empty.
LEMMA NextRowStep == ASSUME IInv, NEW r \in Resolver, NextRow(r) PROVE IInv'
  <1>. DEFINE j == job[r]
              rest == Tail(j.results)
              pc == CASE rest # << >> -> "build"
                      [] rest = << >> /\ j.columns # << >> -> "query"
                      [] OTHER -> "done"
              j2 == [j EXCEPT !.results = rest, !.slot = j.offset, !.pc = pc]
  <1>1. /\ j \in Job /\ AskedInv(j) /\ BuildInv(j) /\ j.results # << >> /\ Head(j.results) = << >>
    BY ResolverFacts DEF JobInv, NextRow
  <1>2. /\ j.slot \in Nat \ {0} /\ j.offset \in Nat \ {0} /\ j.sure \subseteq Resource
        /\ Len(j.values) \in Nat /\ Len(j.columns) \in Nat /\ Len(j.keys) = Len(j.values)
        /\ j.columns \in Seq(Name) /\ j.results \in Seq(Seq(Name))
    BY <1>1 DEF Job, BuildInv
  <1>3. rest = << >> /\ Row(j) = << >> /\ pc = IF j.columns # << >> THEN "query" ELSE "done"
    <2>1. Len(j.results) = 1
      BY <1>1 DEF BuildInv
    <2>2. rest = << >>
      BY <1>2, <2>1, SingleFacts
    <2>. HIDE DEF rest
    <2>. QED
      BY <1>1, <2>2 DEF Row
  <1>4. job' = [job EXCEPT ![r] = j2] /\ UNCHANGED <<store, cache>>
    BY ResolverFacts DEF NextRow
  <1>. HIDE DEF pc, rest
  <1>5. /\ j2.pc = (IF j.columns # << >> THEN "query" ELSE "done")
        /\ j2.kind = j.kind /\ j2.waits = j.waits /\ j2.keys = j.keys
        /\ j2.values = j.values /\ j2.columns = j.columns /\ j2.results = << >>
        /\ j2.offset = j.offset /\ j2.slot = j.offset /\ j2.errors = j.errors
        /\ j2.sure = j.sure
    BY <1>1, <1>3 DEF Job
  <1>6. j2 \in Job
    <2>1. << >> \in Seq(Seq(Name)) /\ pc \in {"query", "done"}
      BY <1>3
    <2>. QED
      BY <1>1, <1>2, <1>3, <2>1 DEF Job
  <1>. HIDE DEF j2
  <1>7. AskedInv(j2)
    BY <1>1, <1>5 DEF AskedInv
  <1>8. CASE j.errors
    <2>1. j2.pc = "done" /\ j2.errors
      BY <1>1, <1>5, <1>8 DEF BuildInv
    <2>2. JobInv(j2)
      BY <1>7, <2>1 DEF JobInv, DoneInv
    <2>. QED
      BY <1>4, <1>6, <2>2, ResolverStep, ResolverFacts DEF cache, CacheInv
  <1>9. CASE ~j.errors
    <2>1. PICK f \in Seq(Nat) : Places(j, f)
      BY <1>1, <1>9 DEF BuildInv, Placed
    <2>2. /\ Lists(f, OpenSlots(j.values, j.slot))
          /\ Len(f) = Len(j.columns)
          /\ \A k \in 1..Len(j.columns) : j.columns[k] = j.keys[f[k]]
      BY <1>2, <1>3, <2>1, NoRowPlaces
    <2>3. \A i \in 1..Len(j.values) :
              /\ j.values[i] \in {j.keys[i], Nil}
              /\ j.keys[i] \in j.sure /\ j.values[i] = Nil => i >= j.slot
      BY <1>1, <1>9 DEF BuildInv, ValuesInv
    <2>4. \A x \in Nat \ {0} : \A i :
              i \in OpenSlots(j.values, x) <=> i \in 1..Len(j.values) /\ i >= x /\ j.values[i] = Nil
      BY <1>2 DEF OpenSlots
    <2>5. CASE j.columns = << >>
      <3>1. OpenSlots(j.values, j.slot) = {}
        <4>1. Len(f) = 0
          BY <2>2, <2>5
        <4>. QED
          BY <2>2, <4>1 DEF Lists
      <3>2. \A i \in 1..Len(j.values) : i >= j.slot => j.values[i] # Nil
        <4>1. \A i : i \notin OpenSlots(j.values, j.slot)
          BY <3>1
        <4>. QED
          BY <1>2, <2>4, <4>1
      <3>3. DoneInv(j2)
        BY <1>2, <1>5, <2>3, <3>2 DEF DoneInv
      <3>4. JobInv(j2)
        BY <1>5, <1>7, <2>5, <3>3 DEF JobInv
      <3>. QED
        BY <1>4, <1>6, <3>4, ResolverStep, ResolverFacts DEF cache, CacheInv
    <2>6. CASE j.columns # << >>
      <3>1. \A i \in 1..Len(j.values) : j.keys[i] \in j.sure
        BY <1>1, <1>2, <2>6 DEF BuildInv, AskedInv
      <3>2. j.offset <= j.slot
        BY <1>1 DEF BuildInv
      <3>3. \A i \in 1..Len(j.values) :
                i >= j.offset /\ j.values[i] = Nil <=> i >= j.slot /\ j.values[i] = Nil
        <4>. TAKE i \in 1..Len(j.values)
        <4>1. j.values[i] = Nil => i >= j.slot
          BY <2>3, <3>1
        <4>2. i >= j.slot => i >= j.offset
          BY <1>2, <3>2
        <4>. QED
          BY <4>1, <4>2
      <3>4. OpenSlots(j2.values, j2.slot) = OpenSlots(j.values, j.slot)
        <4>1. \A i : i \in OpenSlots(j.values, j.offset) <=> i \in OpenSlots(j.values, j.slot)
          BY <1>2, <2>4, <3>3
        <4>2. OpenSlots(j.values, j.offset) = OpenSlots(j.values, j.slot)
          BY <4>1 DEF OpenSlots
        <4>. QED
          BY <1>5, <4>2
      <3>5. Row(j2) = << >> /\ Len(j2.columns) \in Nat
        BY <1>2, <1>5 DEF Row
      <3>6. Places(j2, f)
        BY <1>5, <2>2, <3>4, <3>5, NoRowPlaces
      <3>7. ValuesInv(j2)
        BY <1>2, <1>5, <2>3, <3>2 DEF ValuesInv
      <3>8. JobInv(j2)
        BY <1>1, <1>5, <1>7, <1>9, <2>1, <2>6, <3>6, <3>7 DEF JobInv, QueryInv, BuildInv, Placed
      <3>. QED
        BY <1>4, <1>6, <3>8, ResolverStep, ResolverFacts DEF cache, CacheInv
    <2>. QED
      BY <2>5, <2>6
  <1>. QED
    BY <1>8, <1>9

\* The query of a lookup of contacts finds all that are contacts.
LEMMA TypedQueryStep == ASSUME IInv, NEW r \in Resolver, TypedQuery(r) PROVE IInv'
  <1>. DEFINE j == job[r]
              found == KeySet(j.keys) \cap contacts
              j2 == [j EXCEPT !.pc = "rows", !.pairs = found]
  <1>1. /\ j \in Job /\ AskedInv(j) /\ ProjectInv(j) /\ j.kind = "typed"
        /\ j.keys \in Seq(Name) /\ Len(j.keys) \in Nat /\ DOMAIN j.keys = 1..Len(j.keys)
    BY ResolverFacts DEF TypedQuery, JobInv, Job
  <1>2. job' = [job EXCEPT ![r] = j2] /\ UNCHANGED <<store, cache>>
    BY ResolverFacts DEF TypedQuery
  <1>3. found \in SUBSET Resource /\ \A i \in 1..Len(j.keys) : j.keys[i] \in contacts => j.keys[i] \in found
    BY <1>1, ResolverFacts DEF KeySet
  <1>. HIDE DEF found
  <1>4. /\ j2.pc = "rows" /\ j2.kind = j.kind /\ j2.waits = j.waits /\ j2.keys = j.keys
        /\ j2.pairs = found /\ j2.sure = j.sure /\ j2.errors = j.errors /\ j2 \in Job
    BY <1>1, <1>3 DEF Job
  <1>. HIDE DEF j2
  <1>5. JobInv(j2)
    <2>1. RowsInv(j2)
      BY <1>1, <1>3, <1>4 DEF RowsInv, ProjectInv
    <2>. QED
      BY <1>1, <1>4, <2>1 DEF JobInv, AskedInv
  <1>. QED
    BY <1>2, <1>4, <1>5, ResolverStep, ResolverFacts DEF cache, CacheInv

\* A lookup that failed owes nobody an answer.
LEMMA TypedFailsStep == ASSUME IInv, NEW r \in Resolver, TypedFails(r) PROVE IInv'
  <1>. DEFINE j == job[r]
              j2 == [j EXCEPT !.pc = "failed"]
  <1>1. j \in Job /\ AskedInv(j)
    BY ResolverFacts DEF JobInv
  <1>2. job' = [job EXCEPT ![r] = j2] /\ UNCHANGED <<store, cache>>
    BY ResolverFacts DEF TypedFails
  <1>3. /\ j2.pc = "failed" /\ j2.kind = j.kind /\ j2.waits = j.waits /\ j2.keys = j.keys
        /\ j2.sure = j.sure /\ j2 \in Job
    BY <1>1 DEF Job
  <1>. HIDE DEF j2
  <1>4. JobInv(j2)
    BY <1>1, <1>3 DEF JobInv, AskedInv
  <1>. QED
    BY <1>2, <1>3, <1>4, ResolverStep, ResolverFacts DEF cache, CacheInv

\* A row goes from those that are to come into localCache.
LEMMA TypedRowStep == ASSUME IInv, NEW r \in Resolver, TypedRow(r) PROVE IInv'
  <1>1. PICK n \in job[r].pairs :
            /\ Insert(n, n)
            /\ job' = [job EXCEPT ![r].pairs = @ \ {n}, ![r].local = @ \cup {n}]
    BY DEF TypedRow
  <1>. DEFINE j == job[r]
              j2 == [j EXCEPT !.pairs = @ \ {n}, !.local = @ \cup {n}]
  <1>2. /\ j \in Job /\ AskedInv(j) /\ RowsInv(j) /\ j.pc = "rows"
        /\ j.pairs \subseteq Resource /\ j.local \subseteq Resource /\ n \in Resource
    BY <1>1, ResolverFacts DEF TypedRow, JobInv, Job
  <1>3. job' = [job EXCEPT ![r] = j2] /\ UNCHANGED store
    BY <1>1, ResolverFacts DEF TypedRow
  <1>4. /\ j2.pc = "rows" /\ j2.kind = j.kind /\ j2.waits = j.waits /\ j2.keys = j.keys
        /\ j2.pairs = j.pairs \ {n} /\ j2.local = j.local \cup {n}
        /\ j2.sure = j.sure /\ j2.errors = j.errors /\ j2 \in Job
    BY <1>2 DEF Job
  <1>. HIDE DEF j2
  <1>5. JobInv(j2)
    <2>1. RowsInv(j2)
      BY <1>2, <1>4 DEF RowsInv
    <2>. QED
      BY <1>2, <1>4, <2>1 DEF JobInv, AskedInv
  <1>6. idOf' \in [Name -> Name] /\ iriOf' \in [Name -> Name] /\ CacheInv'
    BY <1>1, <1>2, ResolverFacts DEF CacheInv, Insert
  <1>. QED
    BY <1>3, <1>4, <1>5, <1>6, ResolverStep

\* A lookup of contacts answers from the rows of its own query.
LEMMA TypedDoneStep == ASSUME IInv, NEW r \in Resolver, TypedDone(r) PROVE IInv'
  <1>. DEFINE j == job[r]
              v == TypedAnswer(j.keys, j.local)
              j2 == [j EXCEPT !.pc = "done", !.values = v, !.local = {}]
  <1>1. /\ j \in Job /\ AskedInv(j) /\ RowsInv(j) /\ j.pairs = {}
        /\ j.keys \in Seq(Name) /\ Len(j.keys) \in Nat /\ DOMAIN j.keys = 1..Len(j.keys)
    BY ResolverFacts DEF TypedDone, JobInv, Job
  <1>2. job' = [job EXCEPT ![r] = j2] /\ UNCHANGED <<store, cache>>
    BY ResolverFacts DEF TypedDone
  <1>3. /\ v \in [1..Len(j.keys) -> Name]
        /\ \A i \in 1..Len(j.keys) : v[i] = IF j.keys[i] \in j.local THEN j.keys[i] ELSE Nil
    BY <1>1, ResolverFacts DEF TypedAnswer
  <1>4. v \in Seq(Name)
    BY <1>1, <1>3
  <1>. HIDE DEF v
  <1>5. /\ j2.pc = "done" /\ j2.kind = j.kind /\ j2.waits = j.waits /\ j2.keys = j.keys
        /\ j2.values = v /\ j2.sure = j.sure /\ j2.errors = j.errors /\ j2 \in Job
    BY <1>1, <1>4 DEF Job
  <1>. HIDE DEF j2
  <1>6. JobInv(j2)
    <2>1. DoneInv(j2)
      BY <1>1, <1>3, <1>5 DEF RowsInv, DoneInv
    <2>. QED
      BY <1>1, <1>5, <2>1 DEF JobInv, AskedInv
  <1>. QED
    BY <1>2, <1>5, <1>6, ResolverStep, ResolverFacts DEF cache, CacheInv

\* A resolver that is dropped owes nobody an answer.
LEMMA DropStep == ASSUME IInv, NEW r \in Resolver, Drop(r) PROVE IInv'
  <1>1. Idle \in Job
    <2>1. << >> \in Seq(Name) /\ << >> \in Seq(Seq(Name))
      OBVIOUS
    <2>. QED
      BY <2>1 DEF Idle, Job
  <1>2. JobInv(Idle)
    BY ResolverAssumption DEF JobInv, AskedInv, Idle
  <1>. QED
    BY <1>1, <1>2, ResolverStep, ResolverFacts DEF Drop, cache, CacheInv

\* What the store learns makes no known key unknown, and what it forgets is
\* that a resource is a contact.
LEMMA StoreStep == ASSUME IInv, StoreAdds \/ StoreRemoves PROVE IInv'
  <1>1. /\ UNCHANGED <<idOf, iriOf, job>>
        /\ registered \subseteq registered' /\ registered' \subseteq Resource
        /\ contacts' \subseteq registered' /\ contacts' \cap registered \subseteq contacts
    <2>1. CASE StoreAdds
      BY <2>1 DEF StoreAdds, cache, IInv, TypeOK
    <2>2. CASE StoreRemoves
      BY <2>2 DEF StoreRemoves, cache, IInv, TypeOK
    <2>. QED
      BY <2>1, <2>2
  <1>2. TypeOK' /\ CacheInv' /\ (Usage = "fits")'
    BY <1>1 DEF IInv, TypeOK, CacheInv
  <1>3. \A x \in Resolver : JobInv(job[x])'
    <2>. TAKE x \in Resolver
    <2>. DEFINE j == job[x]
    <2>1. JobInv(j) /\ j' = j
      BY <1>1 DEF IInv
    <2>2. AskedInv(j)' /\ j.sure \subseteq registered
      BY <1>1, <2>1 DEF JobInv, AskedInv
    <2>3. \A n : n \in j.sure /\ n \in contacts' => n \in contacts
      BY <1>1, <2>2
    <2>4. j.pc = "rows" => RowsInv(j)'
      BY <2>1, <2>3 DEF JobInv, RowsInv
    <2>5. j.pc = "done" => DoneInv(j)'
      BY <2>1, <2>3 DEF JobInv, DoneInv
    <2>. QED
      BY <1>1, <2>1, <2>2, <2>4, <2>5, ZenonT(40)
         DEF JobInv, ProjectInv, QueryInv, BuildInv, ValuesInv, Placed, Places, Row
  <1>. QED
    BY <1>2, <1>3 DEF IInv

-----------------------------------------------------------------------------
(* The invariant, and what follows from it. *)

LEMMA InvInit == ASSUME Usage = "fits", Init PROVE IInv
  <1>1. Idle \in Job
    <2>1. << >> \in Seq(Name) /\ << >> \in Seq(Seq(Name))
      OBVIOUS
    <2>. QED
      BY <2>1 DEF Idle, Job
  <1>2. JobInv(Idle)
    BY ResolverAssumption DEF JobInv, AskedInv, Idle
  <1>. QED
    BY <1>1, <1>2 DEF Init, IInv, TypeOK, CacheInv, Name

LEMMA InvNext == ASSUME IInv, [Next]_vars PROVE IInv'
  <1>1. CASE StoreAdds \/ StoreRemoves
    BY <1>1, StoreStep
  <1>2. ASSUME NEW r \in Resolver, NEW kind \in DOMAIN MaxKeys[r], NEW waits \in Waits,
               NEW keys \in Keys(r, kind), Ask(r, kind, waits, keys)
        PROVE  IInv'
    BY <1>2, AskStep
  <1>3. ASSUME NEW r \in Resolver, Project(r) PROVE IInv'
    BY <1>3, ProjectStep
  <1>4. ASSUME NEW r \in Resolver, Projected(r) PROVE IInv'
    BY <1>4, ProjectedStep
  <1>5. ASSUME NEW r \in Resolver, Query(r) PROVE IInv'
    BY <1>5, QueryStep
  <1>6. ASSUME NEW r \in Resolver, QueryFails(r) PROVE IInv'
    BY <1>6, QueryFailsStep
  <1>7. ASSUME NEW r \in Resolver, Build(r) PROVE IInv'
    BY <1>7, BuildStep
  <1>8. ASSUME NEW r \in Resolver, NextRow(r) PROVE IInv'
    BY <1>8, NextRowStep
  <1>9. ASSUME NEW r \in Resolver, TypedQuery(r) \/ TypedFails(r) PROVE IInv'
    BY <1>9, TypedQueryStep, TypedFailsStep
  <1>10. ASSUME NEW r \in Resolver, TypedRow(r) \/ TypedDone(r) PROVE IInv'
    BY <1>10, TypedRowStep, TypedDoneStep
  <1>11. ASSUME NEW r \in Resolver, Drop(r) PROVE IInv'
    BY <1>11, DropStep
  <1>12. CASE UNCHANGED vars
    <2>1. /\ registered' = registered /\ contacts' = contacts /\ idOf' = idOf
          /\ iriOf' = iriOf /\ job' = job
      BY <1>12 DEF vars, store, cache
    <2>. QED
      BY <2>1 DEF IInv, TypeOK, CacheInv, JobInv, AskedInv, RowsInv, DoneInv
  <1>. QED
    BY <1>1, <1>2, <1>3, <1>4, <1>5, <1>6, <1>7, <1>8, <1>9, <1>10, <1>11, <1>12 DEF Next

\* The invariant that the two theorems below rest on.
THEOREM Invariant == Usage = "fits" /\ Spec => []IInv
  <1>1. Usage = "fits" /\ Init => IInv
    BY InvInit
  <1>2. IInv /\ [Next]_vars => IInv'
    BY InvNext
  <1>. QED
    BY <1>1, <1>2, PTL DEF Spec

\* QctResourceCache never pairs the IRI of one resource with the id of another,
\* however the lookups of its threads interleave, and buildResult() always finds
\* an empty slot for a column: for lists that fit one query or are all known.
THEOREM CacheIsSound == Usage = "fits" /\ Spec => []CacheSound
  <1>1. IInv => CacheSound
    <2>. SUFFICES ASSUME IInv PROVE CacheSound
      OBVIOUS
    <2>1. \A n \in Resource : idOf[n] \in {n, Nil} /\ iriOf[n] \in {n, Nil}
      BY DEF IInv, CacheInv, Name
    <2>2. ASSUME NEW r \in Resolver, job[r].pc = "build", job[r].results # << >>,
                 Head(job[r].results) # << >>
          PROVE  OpenSlots(job[r].values, job[r].slot) # {}
      <3>. DEFINE j == job[r]
                  row == Head(j.results)
      <3>1. j \in Job /\ BuildInv(j)
        BY <2>2, ResolverFacts DEF JobInv
      <3>2. j.results \in Seq(Seq(Name)) /\ Len(j.columns) \in Nat
        BY <3>1 DEF Job
      <3>3. row \in Seq(Name) /\ Row(j) = row
        BY <2>2, <3>2 DEF Row
      <3>4. PICK f \in Seq(Nat) : Places(j, f)
        BY <2>2, <3>1, <3>3 DEF BuildInv, Placed
      <3>. HIDE DEF row
      <3>5. Len(row) \in Nat /\ Len(row) >= 1
        BY <2>2, <3>3 DEF row
      <3>6. Len(f) >= 1
        BY <3>2, <3>3, <3>4, <3>5 DEF Places
      <3>7. f[1] \in OpenSlots(j.values, j.slot)
        <4>1. 1 \in 1..Len(f)
          BY <3>6
        <4>. QED
          BY <3>4, <4>1 DEF Places, Lists
      <3>. QED
        BY <3>7
    <2>. QED
      BY <2>1, <2>2 DEF CacheSound
  <1>. QED
    BY <1>1, Invariant, PTL

\* Every slot of a lookup that succeeded holds its own key's value or nothing,
\* and it holds the value of each key that the store knew when it began.
THEOREM AnswersAreRight == Usage = "fits" /\ Spec => []ResolvedRight
  <1>1. IInv => ResolvedRight
    <2>. SUFFICES ASSUME IInv, NEW r \in Resolver, job[r].pc = "done", ~job[r].errors,
                         NEW i \in DOMAIN job[r].keys
                  PROVE  /\ job[r].values[i] \in {job[r].keys[i], Nil}
                         /\ \/ job[r].keys[i] \notin job[r].sure
                            \/ job[r].kind = "typed" /\ job[r].keys[i] \notin contacts
                            \/ job[r].values[i] = job[r].keys[i]
      BY DEF ResolvedRight
    <2>1. job[r] \in Job /\ DoneInv(job[r])
      BY ResolverFacts DEF JobInv
    <2>2. i \in 1..Len(job[r].keys)
      BY <2>1 DEF Job
    <2>. QED
      BY <2>1, <2>2 DEF DoneInv
  <1>. QED
    BY <1>1, Invariant, PTL

\* What a lookup of contacts owes to the property, whatever lists are asked for:
\* it has the fields it reads and writes, what it found in its rows were contacts
\* after it began, and what was no contact before cannot become one.
Fields ==
    /\ DOMAIN job = Resolver
    /\ \A r \in Resolver :
          {"pc", "kind", "keys", "values", "pairs", "local", "gone"} \subseteq DOMAIN job[r]

RowsOfContacts(j) ==
    j.kind = "typed" =>
        /\ j.pc \in {"project", "rows", "done", "failed"}
        /\ j.gone \subseteq registered \ contacts
        /\ j.pc = "project" => j.local = {}
        /\ j.pc = "rows" => j.gone \cap (j.local \cup j.pairs) = {}
        /\ j.pc = "done" => \A i \in DOMAIN j.keys : j.keys[i] \in j.gone => j.values[i] = Nil

ContactsInv == Fields /\ \A r \in Resolver : RowsOfContacts(job[r])

\* A step of one resolver leaves the others' lookups alone.
LEMMA ContactsStep ==
    ASSUME ContactsInv, NEW r \in Resolver, UNCHANGED store, Fields',
           \A x \in Resolver \ {r} : job'[x] = job[x],
           RowsOfContacts(job'[r])
    PROVE  ContactsInv'
  <1>1. ASSUME NEW x \in Resolver PROVE RowsOfContacts(job[x])'
    <2>1. RowsOfContacts(job'[x])
      BY DEF ContactsInv
    <2>. QED
      BY <2>1 DEF RowsOfContacts, store
  <1>. QED
    BY <1>1 DEF ContactsInv

LEMMA ContactsNext == ASSUME ContactsInv, [Next]_vars PROVE ContactsInv'
  <1>1. CASE StoreAdds \/ StoreRemoves
    <2>1. /\ job' = job /\ registered \subseteq registered'
          /\ contacts' \cap registered \subseteq contacts
      BY <1>1 DEF StoreAdds, StoreRemoves
    <2>2. ASSUME NEW x \in Resolver PROVE RowsOfContacts(job[x])'
      BY <2>1 DEF ContactsInv, RowsOfContacts
    <2>. QED
      BY <2>1, <2>2 DEF ContactsInv, Fields
  <1>2. ASSUME NEW x \in Resolver, NEW kind, NEW waits, NEW keys, Ask(x, kind, waits, keys)
        PROVE  ContactsInv'
    <2>1. /\ Fields' /\ \A r \in Resolver \ {x} : job'[r] = job[r]
          /\ job'[x].pc = "project" /\ job'[x].kind = kind /\ job'[x].local = {}
          /\ kind = "typed" => job'[x].gone = (KeySet(keys) \cap registered) \ contacts
      BY <1>2 DEF ContactsInv, Fields, Ask, Idle
    <2>2. RowsOfContacts(job'[x])
      BY <2>1 DEF RowsOfContacts
    <2>. QED
      BY <1>2, <2>1, <2>2, ContactsStep DEF Ask
  <1>3. ASSUME NEW x \in Resolver, Project(x) \/ Projected(x) PROVE ContactsInv'
    <2>1. /\ Fields' /\ \A r \in Resolver \ {x} : job'[r] = job[r]
          /\ job'[x].kind = job[x].kind /\ job[x].kind # "typed"
      BY <1>3 DEF ContactsInv, Fields, Project, Projected
    <2>. QED
      BY <1>3, <2>1, ContactsStep DEF RowsOfContacts, Project, Projected
  <1>4. ASSUME NEW x \in Resolver, Query(x) \/ QueryFails(x) PROVE ContactsInv'
    <2>1. /\ Fields' /\ \A r \in Resolver \ {x} : job'[r] = job[r]
          /\ job'[x].kind = job[x].kind /\ job[x].pc = "query"
      <3>1. CASE Query(x)
        BY <3>1 DEF ContactsInv, Fields, Query, AfterQuery
      <3>2. CASE QueryFails(x)
        BY <3>2 DEF ContactsInv, Fields, QueryFails, AfterQuery
      <3>. QED
        BY <1>4, <3>1, <3>2
    <2>2. job[x].kind # "typed"
      BY <2>1 DEF ContactsInv, RowsOfContacts
    <2>. QED
      BY <1>4, <2>1, <2>2, ContactsStep DEF RowsOfContacts, Query, QueryFails
  <1>5. ASSUME NEW x \in Resolver, Build(x) \/ NextRow(x) PROVE ContactsInv'
    <2>1. /\ Fields' /\ \A r \in Resolver \ {x} : job'[r] = job[r]
          /\ job'[x].kind = job[x].kind /\ job[x].pc = "build"
      <3>1. CASE Build(x)
        BY <3>1 DEF ContactsInv, Fields, Build
      <3>2. CASE NextRow(x)
        BY <3>2 DEF ContactsInv, Fields, NextRow
      <3>. QED
        BY <1>5, <3>1, <3>2
    <2>2. job[x].kind # "typed"
      BY <2>1 DEF ContactsInv, RowsOfContacts
    <2>. QED
      BY <1>5, <2>1, <2>2, ContactsStep DEF RowsOfContacts, Build, NextRow
  <1>6. ASSUME NEW x \in Resolver, TypedQuery(x) PROVE ContactsInv'
    <2>1. /\ Fields' /\ \A r \in Resolver \ {x} : job'[r] = job[r]
          /\ job'[x].kind = job[x].kind /\ job'[x].gone = job[x].gone
          /\ job'[x].local = job[x].local /\ job'[x].pc = "rows" /\ job[x].pc = "project"
          /\ job'[x].pairs \subseteq contacts
      BY <1>6 DEF ContactsInv, Fields, TypedQuery
    <2>2. RowsOfContacts(job'[x])
      BY <2>1 DEF ContactsInv, RowsOfContacts
    <2>. QED
      BY <1>6, <2>1, <2>2, ContactsStep DEF TypedQuery
  <1>7. ASSUME NEW x \in Resolver, TypedFails(x) PROVE ContactsInv'
    <2>1. /\ Fields' /\ \A r \in Resolver \ {x} : job'[r] = job[r]
          /\ job'[x].kind = job[x].kind /\ job'[x].gone = job[x].gone
          /\ job'[x].pc = "failed"
      BY <1>7 DEF ContactsInv, Fields, TypedFails
    <2>2. RowsOfContacts(job'[x])
      BY <2>1 DEF ContactsInv, RowsOfContacts
    <2>. QED
      BY <1>7, <2>1, <2>2, ContactsStep DEF TypedFails
  <1>8. ASSUME NEW x \in Resolver, TypedRow(x) PROVE ContactsInv'
    <2>1. /\ Fields' /\ \A r \in Resolver \ {x} : job'[r] = job[r]
          /\ job'[x].kind = job[x].kind /\ job'[x].gone = job[x].gone
          /\ job'[x].pc = "rows" /\ job[x].pc = "rows"
          /\ job'[x].local \cup job'[x].pairs = job[x].local \cup job[x].pairs
      BY <1>8 DEF ContactsInv, Fields, TypedRow
    <2>2. RowsOfContacts(job'[x])
      BY <2>1 DEF ContactsInv, RowsOfContacts
    <2>. QED
      BY <1>8, <2>1, <2>2, ContactsStep DEF TypedRow
  <1>9. ASSUME NEW x \in Resolver, TypedDone(x) PROVE ContactsInv'
    <2>1. /\ Fields' /\ \A r \in Resolver \ {x} : job'[r] = job[r]
          /\ job'[x].kind = job[x].kind /\ job'[x].gone = job[x].gone
          /\ job'[x].keys = job[x].keys /\ job'[x].pc = "done" /\ job[x].pc = "rows"
          /\ job'[x].values = TypedAnswer(job[x].keys, job[x].local)
      BY <1>9 DEF ContactsInv, Fields, TypedDone
    <2>2. RowsOfContacts(job'[x])
      BY <2>1 DEF ContactsInv, RowsOfContacts, TypedAnswer
    <2>. QED
      BY <1>9, <2>1, <2>2, ContactsStep DEF TypedDone
  <1>10. ASSUME NEW x \in Resolver, Drop(x) PROVE ContactsInv'
    <2>1. /\ Fields' /\ \A r \in Resolver \ {x} : job'[r] = job[r]
          /\ job'[x].kind = "ids"
      BY <1>10 DEF ContactsInv, Fields, Drop, Idle
    <2>. QED
      BY <1>10, <2>1, ContactsStep DEF RowsOfContacts, Drop
  <1>11. CASE UNCHANGED vars
    <2>1. registered' = registered /\ contacts' = contacts /\ job' = job
      BY <1>11 DEF vars, store
    <2>. QED
      BY <2>1 DEF ContactsInv, Fields, RowsOfContacts
  <1>. QED
    BY <1>1, <1>2, <1>3, <1>4, <1>5, <1>6, <1>7, <1>8, <1>9, <1>10, <1>11 DEF Next

\* A resource that was no contact any more when a lookup of contacts began is not
\* reported by it, although the shared cache may have it, may get it again from
\* other threads while the lookup runs, and contacts are removed meanwhile; for
\* lists of any kind.
THEOREM DeletedStaysUnreported == Spec => []DeletedNotReported
  <1>1. Init => ContactsInv
    BY DEF Init, ContactsInv, Fields, RowsOfContacts, Idle
  <1>2. ContactsInv /\ [Next]_vars => ContactsInv'
    BY ContactsNext
  <1>3. ContactsInv => DeletedNotReported
    BY DEF ContactsInv, RowsOfContacts, DeletedNotReported
  <1>. QED
    BY <1>1, <1>2, <1>3, PTL DEF Spec

=============================================================================
