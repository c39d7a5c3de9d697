--------------------------- MODULE SaveRequestProofs ---------------------------
(* Proofs about the save request, and about the resolver's columns and slots. *)
EXTENDS SaveRequest, SequenceFacts

-----------------------------------------------------------------------------
(* The columns of a query are the slots without a value, in order. *)

WithColumn(values, columns, i) == IF values[i] = Nil THEN Append(columns, i) ELSE columns

LEMMA ColumnsFold ==
    ASSUME NEW values, NEW n \in Nat, DOMAIN values = 1..n
    PROVE  \E fold : /\ Columns(values) = fold[1..n]
                     /\ fold[1..0] = << >>
                     /\ \A k \in 1..n : fold[1..k] = WithColumn(values, fold[1..(k - 1)], k)
  <1>. DEFINE seq == [i \in DOMAIN values |-> i]
              Folds(g) == g = [s \in SUBSET (1..n) |->
                                  IF s = {} THEN << >>
                                  ELSE WithColumn(values, g[s \ {Max(s)}], seq[Max(s)])]
              fold == CHOOSE g : Folds(g)
              A == Seq(Nat)
              step == [x \in A \X (1..n) |-> WithColumn(values, x[1], x[2])]
  <1>1. Columns(values) = fold[1..n]
    <2>1. DOMAIN seq = 1..n
      OBVIOUS
    <2>2. Columns(values) =
              (CHOOSE g : g = [s \in SUBSET DOMAIN seq |->
                                  IF s = {} THEN << >>
                                  ELSE WithColumn(values, g[s \ {Max(s)}], seq[Max(s)])])[DOMAIN seq]
      BY DEF Columns, FoldLeft, MapThenFoldSet, WithColumn
    <2>. HIDE DEF seq
    <2>. QED
      BY <2>1, <2>2
  <1>2. step \in [A \X (1..n) -> A]
    <2>1. \A l \in A, i \in 1..n : WithColumn(values, l, i) \in A
      BY AppendFacts DEF WithColumn
    <2>. QED
      BY <2>1
  <1>3. \E g : Chain(g, A, << >>, step, n)
    <2>1. << >> \in A
      OBVIOUS
    <2>. HIDE DEF step, A
    <2>. QED
      BY <1>2, <2>1, ChainExists
  <1>4. PICK g : Chain(g, A, << >>, step, n)
    BY <1>3
  <1>5. Folds(g)
    <2>1. ASSUME NEW s \in SUBSET (1..n), s # {}
          PROVE  step[<<g[s \ {Max(s)}], Max(s)>>] = WithColumn(values, g[s \ {Max(s)}], seq[Max(s)])
      <3>1. Max(s) \in 1..n /\ s \ {Max(s)} \in SUBSET (1..n)
        BY <2>1, MaxExists
      <3>2. g[s \ {Max(s)}] \in A
        BY <1>4, <3>1 DEF Chain
      <3>. QED
        BY <3>1, <3>2
    <2>. HIDE DEF step
    <2>. QED
      BY <1>4, <2>1 DEF Chain
  <1>6. Folds(fold)
    <2>. HIDE DEF Folds
    <2>. QED
      BY <1>5
  <1>. HIDE DEF fold
  <1>7. \A s \in SUBSET (1..n) :
            fold[s] = IF s = {} THEN << >>
                      ELSE WithColumn(values, fold[s \ {Max(s)}], seq[Max(s)])
    BY <1>6
  <1>8. \A k \in 1..n : seq[k] = k
    OBVIOUS
  <1>. HIDE DEF Folds, seq
  <1>9. fold[1..0] = << >>
    BY <1>7, IntervalFacts
  <1>10. ASSUME NEW k \in 1..n
         PROVE  fold[1..k] = WithColumn(values, fold[1..(k - 1)], k)
    <2>1. fold[1..k] = WithColumn(values, fold[(1..k) \ {Max(1..k)}], seq[Max(1..k)])
      BY <1>7, IntervalFacts
    <2>2. Max(1..k) = k /\ (1..k) \ {k} = 1..(k - 1)
      BY IntervalFacts
    <2>. QED
      BY <1>8, <2>1, <2>2
  <1>. QED
    BY <1>1, <1>9, <1>10

LEMMA ColumnsList ==
    ASSUME NEW values \in Seq(Name)
    PROVE  /\ Columns(values) \in Seq(Nat)
           /\ Lists(Columns(values), {i \in 1..Len(values) : values[i] = Nil})
  <1>. DEFINE n == Len(values)
  <1>0. n = Len(values)
    OBVIOUS
  <1>. DEFINE open(k) == {i \in 1..k : values[i] = Nil}
  <1>1. n \in Nat /\ DOMAIN values = 1..n
    OBVIOUS
  <1>2. PICK fold : /\ Columns(values) = fold[1..n]
                    /\ fold[1..0] = << >>
                    /\ \A k \in 1..n : fold[1..k] = WithColumn(values, fold[1..(k - 1)], k)
    BY <1>1, ColumnsFold
  <1>. DEFINE S == {k \in Nat : k <= n => fold[1..k] \in Seq(Nat) /\ Lists(fold[1..k], open(k))}
  <1>. HIDE DEF n
  <1>3. 0 \in S
    <2>1. open(0) = {} /\ << >> \in Seq(Nat)
      OBVIOUS
    <2>2. Lists(<< >>, {})
      BY DEF Lists
    <2>. QED
      BY <1>2, <2>1, <2>2
  <1>4. ASSUME NEW k \in Nat, k \in S PROVE k + 1 \in S
    <2>. SUFFICES ASSUME k + 1 <= n
                  PROVE  fold[1..(k + 1)] \in Seq(Nat) /\ Lists(fold[1..(k + 1)], open(k + 1))
      OBVIOUS
    <2>1. fold[1..k] \in Seq(Nat) /\ Lists(fold[1..k], open(k))
      BY <1>1, <1>4
    <2>2. fold[1..(k + 1)] = WithColumn(values, fold[1..k], k + 1)
      <3>1. k + 1 \in 1..n /\ (k + 1) - 1 = k
        BY <1>1
      <3>. QED
        BY <1>2, <3>1
    <2>3. CASE values[k + 1] = Nil
      <3>1. open(k + 1) = open(k) \cup {k + 1} /\ \A i \in open(k) : i < k + 1
        BY <2>3
      <3>2. open(k) \in SUBSET Nat
        OBVIOUS
      <3>. HIDE DEF open
      <3>3. fold[1..(k + 1)] = Append(fold[1..k], k + 1)
        BY <2>2, <2>3 DEF WithColumn
      <3>4. Lists(Append(fold[1..k], k + 1), open(k) \cup {k + 1})
        BY <2>1, <3>1, <3>2, AppendLists
      <3>5. Append(fold[1..k], k + 1) \in Seq(Nat)
        BY <2>1, AppendFacts
      <3>. QED
        BY <3>1, <3>3, <3>4, <3>5
    <2>4. CASE values[k + 1] # Nil
      <3>1. open(k + 1) = open(k)
        BY <2>4
      <3>2. fold[1..(k + 1)] = fold[1..k]
        BY <2>2, <2>4 DEF WithColumn
      <3>. QED
        BY <2>1, <3>1, <3>2
    <2>. QED
      BY <2>3, <2>4
  <1>5. n \in S
    <2>. HIDE DEF S
    <2>. QED
      BY <1>1, <1>3, <1>4, SetInduction
  <1>6. fold[1..n] \in Seq(Nat) /\ Lists(fold[1..n], open(n))
    <2>. HIDE DEF open
    <2>. QED
      BY <1>1, <1>5
  <1>7. open(n) = {i \in 1..Len(values) : values[i] = Nil}
    BY <1>0
  <1>. HIDE DEF open
  <1>. QED
    BY <1>2, <1>6, <1>7

-----------------------------------------------------------------------------
(* What FillIn() does with rows that fit into one query. *)

\* One column of the row goes to the first open slot after the one before.
PutIn(row, limit, filled, k) ==
    LET first == IF (k - 1) % limit = 0 THEN k ELSE Last(filled.at) + 1
        slot == NextSlot(filled.values, first)
    IN  [values |-> [filled.values EXCEPT ![slot] = row[k]],
         at |-> Append(filled.at, slot)]

\* The state after the first k columns, when the open slots are those of columns.
PutSoFar(values, columns, row, filled, k) ==
    /\ filled \in [values : Seq(Name), at : Seq(Nat)]
    /\ Len(filled.values) = Len(values)
    /\ Len(filled.at) = k
    /\ \A j \in 1..k : filled.at[j] = columns[j] /\ filled.values[columns[j]] = row[j]
    /\ \A i \in 1..Len(values) :
           (\A j \in 1..k : columns[j] # i) => filled.values[i] = values[i]

LEMMA SmallRemainder ==
    ASSUME NEW n \in Nat, NEW k \in Nat, k < n
    PROVE  k % n = k
  OBVIOUS

\* Replacing an element.
LEMMA ReplaceFacts ==
    ASSUME NEW S, NEW s \in Seq(S), NEW e \in S, NEW k \in 1..Len(s)
    PROVE  /\ [s EXCEPT ![k] = e] \in Seq(S)
           /\ Len([s EXCEPT ![k] = e]) = Len(s)
           /\ \A i \in 1..Len(s) : [s EXCEPT ![k] = e][i] = IF i = k THEN e ELSE s[i]
  <1>. DEFINE r == [s EXCEPT ![k] = e]
  <1>1. s \in [1..Len(s) -> S] /\ Len(s) \in Nat
    OBVIOUS
  <1>2. r \in [1..Len(s) -> S]
    BY <1>1
  <1>3. r \in Seq(S) /\ Len(r) = Len(s)
    <2>. HIDE DEF r
    <2>. QED
      BY <1>1, <1>2
  <1>. QED
    BY <1>1, <1>3

\* The next column goes to the next of the slots.
LEMMA PutNext ==
    ASSUME NEW values \in Seq(Name), NEW columns \in Seq(Nat), NEW row \in Seq(Name),
           NEW limit \in Nat \ {0}, NEW filled, NEW k \in 1..Len(row),
           Lists(columns, {i \in 1..Len(values) : values[i] = Nil}),
           Len(columns) = Len(row), Len(row) <= limit,
           PutSoFar(values, columns, row, filled, k - 1)
    PROVE  PutSoFar(values, columns, row, PutIn(row, limit, filled, k), k)
  <1>. DEFINE first == IF (k - 1) % limit = 0 THEN k ELSE Last(filled.at) + 1
              slot == NextSlot(filled.values, first)
              put == [values |-> [filled.values EXCEPT ![slot] = row[k]],
                      at |-> Append(filled.at, slot)]
  <1>1. PutIn(row, limit, filled, k) = put
    BY DEF PutIn
  <1>2. columns[k] \in 1..Len(values) /\ values[columns[k]] = Nil
    BY DEF Lists
  <1>3. \A j \in 1..(k - 1) : columns[j] < columns[k]
    BY SMTT(30) DEF Lists
  <1>4. first = IF k = 1 THEN 1 ELSE columns[k - 1] + 1
    <2>1. CASE k = 1
      <3>1. (k - 1) % limit = 0
        BY <2>1
      <3>. QED
        BY <2>1, <3>1
    <2>2. CASE k # 1
      <3>1. (k - 1) % limit = k - 1 /\ k - 1 # 0
        <4>1. k - 1 \in Nat /\ k - 1 < limit /\ k - 1 # 0
          BY <2>2
        <4>. QED
          BY <4>1, SmallRemainder
      <3>2. Last(filled.at) = columns[k - 1]
        BY <2>2 DEF PutSoFar, Last
      <3>. QED
        BY <2>2, <3>1, <3>2
    <2>. QED
      BY <2>1, <2>2
  <1>5. slot = columns[k]
    <2>. DEFINE slots == OpenSlots(filled.values, first)
    <2>1. first \in Nat /\ first <= columns[k]
      <3>1. k # 1 => k - 1 \in 1..(k - 1) /\ columns[k - 1] \in Nat
        OBVIOUS
      <3>. QED
        BY <1>2, <1>3, <1>4, <3>1
    <2>2. columns[k] \in slots
      <3>1. \A j \in 1..(k - 1) : columns[j] \in Nat /\ columns[j] # columns[k]
        BY <1>3
      <3>2. filled.values[columns[k]] = Nil
        BY <1>2, <3>1 DEF PutSoFar
      <3>. QED
        BY <1>2, <2>1, <3>2 DEF PutSoFar, OpenSlots
    <2>3. slots \subseteq Int
      BY <2>1 DEF OpenSlots
    <2>4. ASSUME NEW i \in slots PROVE columns[k] <= i
      <3>1. i \in 1..Len(values) /\ first <= i /\ filled.values[i] = Nil
        <4>1. first >= 1
          BY <1>4 DEF Lists
        <4>. QED
          BY <2>1, <4>1 DEF OpenSlots, PutSoFar
      <3>2. \A j \in 1..(k - 1) : columns[j] # i
        <4>1. CASE k = 1
          BY <4>1
        <4>2. CASE k # 1
          <5>1. columns[k - 1] < i
            BY <1>4, <3>1, <4>2
          <5>2. k - 1 \in 1..Len(columns) /\ columns[k - 1] \in Nat
            BY <4>2
          <5>3. ASSUME NEW j \in 1..(k - 1) PROVE columns[j] # i
            <6>1. j \in 1..Len(columns) /\ columns[j] \in Nat
              OBVIOUS
            <6>2. j < k - 1 => columns[j] < columns[k - 1]
              BY <5>2, <6>1 DEF Lists
            <6>. QED
              BY <5>1, <5>2, <6>1, <6>2
          <5>. QED
            BY <5>3
        <4>. QED
          BY <4>1, <4>2
      <3>3. values[i] = Nil
        BY <3>1, <3>2 DEF PutSoFar
      <3>4. PICK j \in 1..Len(columns) : columns[j] = i
        BY <3>1, <3>3 DEF Lists
      <3>5. j >= k
        BY <3>2, <3>4
      <3>. QED
        BY <3>4, <3>5, SMTT(30) DEF Lists
    <2>. HIDE DEF slots
    <2>5. Min(slots) = columns[k]
      BY <2>2, <2>3, <2>4, MinFacts
    <2>. QED
      BY <2>5 DEF slots, NextSlot
  <1>. HIDE DEF slot, first
  <1>6. put \in [values : Seq(Name), at : Seq(Nat)] /\ Len(put.values) = Len(values)
    <2>1. row[k] \in Name /\ filled.values \in Seq(Name) /\ slot \in 1..Len(filled.values)
      BY <1>2, <1>5 DEF PutSoFar
    <2>2. [filled.values EXCEPT ![slot] = row[k]] \in Seq(Name)
      BY <2>1, ReplaceFacts
    <2>3. Len([filled.values EXCEPT ![slot] = row[k]]) = Len(filled.values)
      BY <2>1, ReplaceFacts
    <2>4. Append(filled.at, slot) \in Seq(Nat)
      BY <1>5 DEF PutSoFar
    <2>. QED
      BY <2>2, <2>3, <2>4 DEF PutSoFar
  <1>7. /\ Len(put.at) = k
        /\ \A j \in 1..k : put.at[j] = columns[j]
    BY <1>5 DEF PutSoFar
  <1>8. \A j \in 1..k : put.values[columns[j]] = row[j]
    BY <1>2, <1>3, <1>5 DEF PutSoFar
  <1>9. \A i \in 1..Len(values) : (\A j \in 1..k : columns[j] # i) => put.values[i] = values[i]
    <2>. SUFFICES ASSUME NEW i \in 1..Len(values), \A j \in 1..k : columns[j] # i
                  PROVE  put.values[i] = values[i]
      OBVIOUS
    <2>1. i # slot /\ \A j \in 1..(k - 1) : columns[j] # i
      BY <1>5
    <2>2. put.values[i] = filled.values[i]
      BY <2>1 DEF PutSoFar
    <2>. QED
      BY <2>1, <2>2 DEF PutSoFar
  <1>. QED
    BY <1>1, <1>6, <1>7, <1>8, <1>9 DEF PutSoFar

\* FillIn() takes the columns one by one.  Its states have no type to rely on
\* where a slot is missing, so that its recursion is shown to exist first.
PutsIn(g, values, row, limit, m) ==
    g = [s \in SUBSET (1..m) |->
            IF s = {} THEN [values |-> values, at |-> << >>]
            ELSE PutIn(row, limit, g[s \ {Max(s)}], Max(s))]

LEMMA PutsInExists ==
    ASSUME NEW values, NEW row, NEW limit, NEW n \in Nat
    PROVE  \E g : PutsIn(g, values, row, limit, n)
  <1>. DEFINE base == [values |-> values, at |-> << >>]
              S == {m \in Nat : \E g : PutsIn(g, values, row, limit, m)}
  <1>1. 0 \in S
    <2>. DEFINE g == [s \in SUBSET (1..0) |-> base]
    <2>1. \A s \in SUBSET (1..0) : s = {}
      OBVIOUS
    <2>2. PutsIn(g, values, row, limit, 0)
      BY <2>1 DEF PutsIn
    <2>. QED
      BY <2>2
  <1>2. ASSUME NEW m \in Nat, m \in S PROVE m + 1 \in S
    <2>1. PICK g : PutsIn(g, values, row, limit, m)
      BY <1>2
    <2>. DEFINE h == [s \in SUBSET (1..(m + 1)) |->
                         IF m + 1 \in s THEN PutIn(row, limit, g[s \ {m + 1}], m + 1) ELSE g[s]]
    <2>2. ASSUME NEW s \in SUBSET (1..(m + 1))
          PROVE  /\ m + 1 \in s => s \ {m + 1} \in SUBSET (1..m) /\ Max(s) = m + 1
                 /\ m + 1 \notin s => s \in SUBSET (1..m)
      <3>1. m + 1 \in s => Max(s) = m + 1
        <4>1. s \subseteq Int /\ \A x \in s : x <= m + 1
          OBVIOUS
        <4>. QED
          BY <4>1, MaxFacts
      <3>. QED
        BY <3>1
    <2>3. ASSUME NEW s \in SUBSET (1..(m + 1))
          PROVE  h[s] = IF s = {} THEN base ELSE PutIn(row, limit, h[s \ {Max(s)}], Max(s))
      <3>1. CASE m + 1 \in s
        <4>1. h[s \ {m + 1}] = g[s \ {m + 1}]
          BY <2>2, <3>1
        <4>2. h[s] = PutIn(row, limit, g[s \ {m + 1}], m + 1)
          BY <3>1
        <4>. HIDE DEF h
        <4>. QED
          BY <2>2, <3>1, <4>1, <4>2
      <3>2. CASE m + 1 \notin s
        <4>1. h[s] = g[s] /\ h[s \ {Max(s)}] = g[s \ {Max(s)}]
          BY <3>2
        <4>2. g[s] = IF s = {} THEN base ELSE PutIn(row, limit, g[s \ {Max(s)}], Max(s))
          BY <2>1, <2>2, <3>2 DEF PutsIn
        <4>. QED
          BY <4>1, <4>2
      <3>. QED
        BY <3>1, <3>2
    <2>4. h = [s \in SUBSET (1..(m + 1)) |-> h[s]]
      OBVIOUS
    <2>5. PutsIn(h, values, row, limit, m + 1)
      <3>. HIDE DEF h
      <3>. QED
        BY <2>3, <2>4 DEF PutsIn
    <2>. QED
      BY <2>5
  <1>3. Nat \subseteq S
    <2>. HIDE DEF S
    <2>. QED
      BY <1>1, <1>2, SetInduction
  <1>. QED
    BY <1>3

FillSteps(fold, values, row, limit, n) ==
    /\ FillIn(values, row, limit) = fold[1..n]
    /\ fold[1..0] = [values |-> values, at |-> << >>]
    /\ \A k \in 1..n : fold[1..k] = PutIn(row, limit, fold[1..(k - 1)], k)

LEMMA FillInFold ==
    ASSUME NEW values, NEW row, NEW limit, NEW n \in Nat, Len(row) = n
    PROVE  \E fold : FillSteps(fold, values, row, limit, n)
  <1>. DEFINE seq == [k \in 1..Len(row) |-> k]
              base == [values |-> values, at |-> << >>]
              Folds(g) == g = [s \in SUBSET (1..n) |->
                                  IF s = {} THEN base
                                  ELSE PutIn(row, limit, g[s \ {Max(s)}], seq[Max(s)])]
              fold == CHOOSE g : Folds(g)
  <1>1. FillIn(values, row, limit) = fold[1..n]
    <2>1. DOMAIN seq = 1..n
      OBVIOUS
    <2>2. FillIn(values, row, limit) =
              (CHOOSE g : g = [s \in SUBSET DOMAIN seq |->
                                  IF s = {} THEN base
                                  ELSE PutIn(row, limit, g[s \ {Max(s)}], seq[Max(s)])])[DOMAIN seq]
      BY DEF FillIn, FoldLeft, MapThenFoldSet, PutIn
    <2>. HIDE DEF seq, base
    <2>. QED
      BY <2>1, <2>2
  <1>2. PICK g : PutsIn(g, values, row, limit, n)
    BY PutsInExists
  <1>3. \A k \in 1..n : seq[k] = k
    OBVIOUS
  <1>4. \A s \in SUBSET (1..n) : s # {} => seq[Max(s)] = Max(s)
    BY <1>3, MaxExists
  <1>. HIDE DEF seq
  <1>5. Folds(g)
    BY <1>2, <1>4 DEF PutsIn
  <1>6. Folds(fold)
    <2>. HIDE DEF Folds
    <2>. QED
      BY <1>5
  <1>. HIDE DEF fold
  <1>7. \A s \in SUBSET (1..n) :
            fold[s] = IF s = {} THEN base ELSE PutIn(row, limit, fold[s \ {Max(s)}], seq[Max(s)])
    BY <1>6
  <1>. HIDE DEF Folds
  <1>8. fold[1..0] = base
    BY <1>7, IntervalFacts
  <1>9. ASSUME NEW k \in 1..n PROVE fold[1..k] = PutIn(row, limit, fold[1..(k - 1)], k)
    <2>1. fold[1..k] = PutIn(row, limit, fold[(1..k) \ {Max(1..k)}], seq[Max(1..k)])
      BY <1>7, IntervalFacts
    <2>2. Max(1..k) = k /\ (1..k) \ {k} = 1..(k - 1)
      BY IntervalFacts
    <2>. QED
      BY <1>3, <2>1, <2>2
  <1>. QED
    BY <1>1, <1>8, <1>9 DEF FillSteps

LEMMA FillInRight ==
    ASSUME NEW values \in Seq(Name), NEW columns \in Seq(Nat), NEW row \in Seq(Name),
           NEW limit \in Nat \ {0},
           Lists(columns, {i \in 1..Len(values) : values[i] = Nil}),
           Len(columns) = Len(row), Len(row) <= limit
    PROVE  PutSoFar(values, columns, row, FillIn(values, row, limit), Len(row))
  <1>. DEFINE n == Len(row)
              base == [values |-> values, at |-> << >>]
  <1>1. n \in Nat /\ n = Len(row)
    OBVIOUS
  <1>2. PICK fold : FillSteps(fold, values, row, limit, n)
    <2>. HIDE DEF n
    <2>. QED
      BY <1>1, FillInFold
  <1>. DEFINE S == {k \in Nat : k <= n => PutSoFar(values, columns, row, fold[1..k], k)}
  <1>. HIDE DEF n
  <1>3. 0 \in S
    <2>1. PutSoFar(values, columns, row, base, 0)
      BY DEF PutSoFar
    <2>. QED
      BY <1>2, <2>1 DEF FillSteps
  <1>4. ASSUME NEW k \in Nat, k \in S PROVE k + 1 \in S
    <2>. SUFFICES ASSUME k + 1 <= n PROVE PutSoFar(values, columns, row, fold[1..(k + 1)], k + 1)
      OBVIOUS
    <2>1. k + 1 \in 1..n /\ (k + 1) - 1 = k
      BY <1>1
    <2>2. PutSoFar(values, columns, row, fold[1..k], k)
      BY <1>1, <1>4
    <2>3. fold[1..(k + 1)] = PutIn(row, limit, fold[1..k], k + 1)
      BY <1>2, <2>1 DEF FillSteps
    <2>4. PutSoFar(values, columns, row, PutIn(row, limit, fold[1..k], k + 1), k + 1)
      BY <1>1, <2>1, <2>2, PutNext
    <2>. QED
      BY <2>3, <2>4
  <1>5. Nat \subseteq S
    <2>. HIDE DEF S
    <2>. QED
      BY <1>3, <1>4, SetInduction
  <1>6. PutSoFar(values, columns, row, fold[1..n], n)
    BY <1>1, <1>5
  <1>. QED
    BY <1>1, <1>2, <1>6 DEF FillSteps

-----------------------------------------------------------------------------
(* The lookup of the ids at the end. *)

LEMMA ListsAreShort ==
    ASSUME NEW f \in Seq(Nat), NEW n \in Nat, NEW slots \in SUBSET (1..n), Lists(f, slots)
    PROVE  Len(f) <= n
  <1>. DEFINE S == {k \in Nat : k \in 1..Len(f) => k <= f[k]}
  <1>1. 0 \in S
    OBVIOUS
  <1>2. ASSUME NEW k \in Nat, k \in S PROVE k + 1 \in S
    <2>. SUFFICES ASSUME k + 1 \in 1..Len(f) PROVE k + 1 <= f[k + 1]
      OBVIOUS
    <2>1. f[k + 1] \in Nat /\ f[k + 1] >= 1
      BY DEF Lists
    <2>2. CASE k = 0
      BY <2>1, <2>2
    <2>3. CASE k # 0
      <3>1. k \in 1..Len(f) /\ f[k] \in Nat
        BY <2>3
      <3>2. f[k] < f[k + 1]
        BY <3>1 DEF Lists
      <3>. QED
        BY <1>2, <2>1, <3>1, <3>2
    <2>. QED
      BY <2>2, <2>3
  <1>3. Nat \subseteq S
    <2>. HIDE DEF S
    <2>. QED
      BY <1>1, <1>2, SetInduction
  <1>4. CASE f = << >>
    BY <1>4
  <1>5. CASE f # << >>
    <2>1. Len(f) \in 1..Len(f) /\ Len(f) \in Nat
      BY <1>5
    <2>2. Len(f) <= f[Len(f)]
      BY <1>3, <2>1
    <2>3. f[Len(f)] \in 1..n
      BY <2>1 DEF Lists
    <2>. QED
      BY <2>1, <2>2, <2>3
  <1>. QED
    BY <1>4, <1>5

\* The id that the lookup is to give for the IRI of a contact.
IdFor(i) ==
    IF idOf[iris[i]] # Nil THEN idOf[iris[i]]
    ELSE IF iris[i] \in ids THEN iris[i] ELSE Nil

LEMMA LookedUpRight ==
    ASSUME given \in Seq(Contact), Len(given) <= ColumnLimit, ColumnLimit \in Nat \ {0},
           iris \in [Position -> Name], idOf \in [Name -> Name], ids \subseteq Resource
    PROVE  \A i \in Position : LookedUpIds.values[i] = IdFor(i)
  <1>. DEFINE values == [i \in Position |-> idOf[iris[i]]]
              missing == Columns(values)
              row == [k \in DOMAIN missing |->
                         IF iris[missing[k]] \in ids THEN iris[missing[k]] ELSE Nil]
              filled == FillIn(values, row, ColumnLimit)
              slots == {i \in 1..Len(values) : values[i] = Nil}
  <1>1. Position = 1..Len(given) /\ Len(given) \in Nat
    BY DEF Position
  <1>2. values \in Seq(Name) /\ Len(values) = Len(given)
    BY <1>1
  <1>3. \A i \in Position : values[i] = idOf[iris[i]]
    OBVIOUS
  <1>4. LookedUpIds.values = filled.values
    BY DEF LookedUpIds
  <1>. HIDE DEF values
  <1>5. missing \in Seq(Nat) /\ Lists(missing, slots)
    BY <1>2, ColumnsList
  <1>. HIDE DEF missing
  <1>6. \A k \in 1..Len(missing) : missing[k] \in Position
    BY <1>1, <1>2, <1>5 DEF Lists
  <1>7. row \in Seq(Name) /\ Len(row) = Len(missing)
    <2>1. DOMAIN missing = 1..Len(missing) /\ Len(missing) \in Nat
      BY <1>5
    <2>2. row \in [1..Len(missing) -> Name]
      BY <1>6, <2>1 DEF Name
    <2>. HIDE DEF row
    <2>. QED
      BY <2>1, <2>2
  <1>8. \A k \in 1..Len(missing) :
            row[k] = IF iris[missing[k]] \in ids THEN iris[missing[k]] ELSE Nil
    BY <1>5
  <1>. HIDE DEF row
  <1>9. Len(row) <= ColumnLimit
    <2>1. slots \in SUBSET (1..Len(given))
      BY <1>2
    <2>. HIDE DEF slots
    <2>2. Len(missing) <= Len(given)
      BY <1>1, <1>5, <2>1, ListsAreShort
    <2>. QED
      BY <1>1, <1>5, <1>7, <2>2
  <1>10. PutSoFar(values, missing, row, filled, Len(row))
    BY <1>2, <1>5, <1>7, <1>9, FillInRight
  <1>. HIDE DEF filled
  <1>11. ASSUME NEW i \in Position PROVE filled.values[i] = IdFor(i)
    <2>1. CASE values[i] = Nil
      <3>1. PICK k \in 1..Len(missing) : missing[k] = i
        BY <1>1, <1>2, <1>5, <2>1 DEF Lists
      <3>2. filled.values[i] = row[k]
        BY <1>7, <1>10, <3>1 DEF PutSoFar
      <3>. QED
        BY <1>3, <1>8, <2>1, <3>1, <3>2 DEF IdFor
    <2>2. CASE values[i] # Nil
      <3>1. \A k \in 1..Len(row) : missing[k] # i
        BY <1>5, <1>7, <2>2 DEF Lists
      <3>2. filled.values[i] = values[i]
        BY <1>1, <1>2, <1>10, <3>1 DEF PutSoFar
      <3>. QED
        BY <1>3, <2>2, <3>2 DEF IdFor
    <2>. QED
      BY <2>1, <2>2
  <1>. QED
    BY <1>4, <1>11

-----------------------------------------------------------------------------
(* The inductive invariant. *)

\* What the two theorems ask of a client: a list that one query can look up, and no
\* id that one contact of the list has from another manager and a second one has
\* from this engine.  The request confuses such contacts (see IriFor).
CarefulClients ==
    \A list \in Inputs :
        /\ Len(list) <= ColumnLimit
        /\ \A i, j \in DOMAIN list :
               list[i].manager = "foreign" /\ list[j].manager # "foreign"
                   /\ list[i].id = list[j].id => list[i].id = Nil

TypeOK ==
    /\ given \in Inputs
    /\ pc \in {"resolveIris", "save", "resolveIds", "report", "done"}
    /\ contacts \in [Position -> Contact]
    /\ errors \in [Position -> Error]
    /\ next \in 1..(Len(given) + 1)
    /\ saved \in SUBSET Position
    /\ ids \subseteq Resource /\ stored \subseteq ids

\* An IRI is a made-up one, none at all, or the id that came with the contact.
IriIsGood(i) ==
    \/ given[i].id = Nil /\ iris[i] = Fresh[i]
    \/ given[i].id # Nil /\ iris[i] = Nil
    \/ /\ given[i].id # Nil /\ iris[i] = given[i].id /\ iris[i] \in Resource \ FreshIris
       /\ given[i].manager # "foreign"

AtStart ==
    pc = "resolveIris" =>
        /\ saved = {} /\ next = 1
        /\ \A i \in Position : errors[i] = "none"
        /\ \A r \in ids : r \notin FreshIris

\* Until the report the store has the made-up IRIs of the saved contacts only.
IrisHold ==
    pc \in {"save", "resolveIds", "report"} =>
        /\ iris \in [Position -> Name]
        /\ \A i \in Position : IriIsGood(i)
        /\ \A i \in Position \ saved : Fresh[i] \notin ids
        /\ \A i \in saved : iris[i] # Nil /\ iris[i] \in ids

\* The cache knows the ids that were looked up, and none of the made-up IRIs.
CacheHolds ==
    /\ pc \in {"resolveIris", "save", "resolveIds"} =>
           /\ idOf \in [Name -> Name]
           /\ \A n \in Name : idOf[n] \in {n, Nil}
           /\ \A r \in FreshIris : idOf[r] = Nil
    /\ pc \in {"save", "resolveIds"} =>
           \A i \in Position : iris[i] \notin FreshIris => idOf[iris[i]] = iris[i]

\* The contacts that were visited have an error exactly if they were not saved,
\* and the others if they have no IRI.
ErrorsHold ==
    /\ pc \in {"save", "resolveIds"} =>
           /\ \A i \in Position : i < next => (errors[i] = "none" <=> i \in saved)
           /\ \A i \in Position : i >= next => i \notin saved
           /\ \A i \in Position : i >= next => (errors[i] = "none" <=> iris[i] # Nil)
    /\ pc = "resolveIds" => next = Len(given) + 1

Unreported == pc \in {"resolveIris", "save", "resolveIds"} => contacts = given

IInv ==
    /\ TypeOK /\ AtStart /\ IrisHold /\ CacheHolds /\ ErrorsHold /\ Unreported
    /\ IdsAreExact /\ ErrorsAreExact

-----------------------------------------------------------------------------

LEMMA GivenFacts ==
    ASSUME CarefulClients, given \in Inputs
    PROVE  /\ given \in Seq(Contact) /\ Len(given) <= ColumnLimit
           /\ Position = 1..Len(given) /\ Len(given) \in Nat
           /\ \A i \in Position : given[i] \in Contact
           /\ \A i \in Position : Fresh[i] \in Resource /\ Fresh[i] \in FreshIris
           /\ \A i, j \in Position : Fresh[i] = Fresh[j] => i = j
           /\ FreshIris \subseteq Resource /\ Nil \notin Resource
  <1>1. given \in Seq(Contact) /\ Len(given) <= Len(Fresh) /\ Len(given) <= ColumnLimit
    BY SaveAssumption DEF CarefulClients
  <1>2. Position = 1..Len(given) /\ Len(given) \in Nat
    BY <1>1 DEF Position
  <1>3. \A i \in Position : given[i] \in Contact
    BY <1>1, <1>2
  <1>4. Fresh \in Seq(Resource) /\ DOMAIN Fresh = 1..Len(Fresh) /\ Len(Fresh) \in Nat
    BY SaveAssumption
  <1>5. \A i \in Position : i \in DOMAIN Fresh
    BY <1>1, <1>2, <1>4
  <1>6. \A i \in DOMAIN Fresh : Fresh[i] \in Resource
    BY <1>4
  <1>. QED
    BY <1>1, <1>2, <1>3, <1>5, <1>6, SaveAssumption, NilAssumption DEF FreshIris

LEMMA InitHolds ==
    ASSUME CarefulClients, Init
    PROVE  IInv
  <1>1. TypeOK
    <2>1. ids \subseteq Resource /\ stored \subseteq ids
      BY DEF Init
    <2>2. contacts \in [Position -> Contact] /\ 1 \in 1..(Len(given) + 1)
      BY GivenFacts DEF Init
    <2>. QED
      BY <2>1, <2>2 DEF Init, TypeOK, Error
  <1>2. AtStart
    BY DEF Init, AtStart
  <1>3. CacheHolds
    <2>1. idOf \in [Name -> Name] /\ \A n \in Name : idOf[n] \in {n, Nil}
      BY DEF Init, Name
    <2>2. \A r \in FreshIris : idOf[r] = Nil
      <3>1. \A r \in FreshIris : r \in Name /\ r \notin stored
        BY GivenFacts DEF Init, Name
      <3>. QED
        BY <3>1 DEF Init
    <2>. QED
      BY <2>1, <2>2 DEF Init, CacheHolds
  <1>. QED
    BY <1>1, <1>2, <1>3
    DEF Init, IInv, IrisHold, ErrorsHold, Unreported, IdsAreExact, ErrorsAreExact

\* Looking the contacts up.
LEMMA IrisResolved ==
    ASSUME CarefulClients, IInv, ResolveContactIris
    PROVE  IInv'
  <1>. USE DEF ResolveContactIris, request, store
  <1>1. pc = "resolveIris" /\ pc' = "save" /\ TypeOK /\ AtStart /\ CacheHolds /\ Unreported
    BY DEF IInv
  <1>2. given \in Inputs
    BY <1>1 DEF TypeOK
  <1>3. \A r \in Found : r \in Resource \ FreshIris /\ r \in stored
    BY <1>1 DEF TypeOK, AtStart, Found
  <1>4. ASSUME NEW i \in Position
        PROVE  /\ iris'[i] = IriFor(i) /\ iris'[i] \in Name /\ IriIsGood(i)'
               /\ iris'[i] \notin FreshIris => iris'[i] = Nil \/ iris'[i] \in Found
    <2>1. iris'[i] = IriFor(i)
      OBVIOUS
    <2>2. given[i].id \in Found => given[i].manager # "foreign"
      <3>. SUFFICES ASSUME given[i].id \in Found, given[i].manager = "foreign" PROVE FALSE
        OBVIOUS
      <3>1. PICK j \in Position : given[j].manager # "foreign" /\ given[j].id = given[i].id
        BY DEF Found, LookedUp
      <3>2. given[i].id = Nil
        BY <1>2, <3>1 DEF CarefulClients, Position
      <3>. QED
        BY <3>2 DEF Found, LookedUp
    <2>3. given[i].id \in Name /\ Fresh[i] \in Resource /\ Fresh[i] \in FreshIris
      BY <1>2, GivenFacts DEF Contact
    <2>. QED
      BY <1>3, <2>1, <2>2, <2>3 DEF IriFor, IriIsGood, Name
  <1>5. TypeOK'
    <2>1. MissingErrors \in [Position -> Error]
      BY <1>1 DEF MissingErrors, TypeOK, Error
    <2>. QED
      BY <1>1, <2>1 DEF TypeOK, Position
  <1>6. IrisHold'
    <2>1. iris' \in [Position -> Name]
      BY <1>4
    <2>2. \A i \in Position : Fresh[i] \notin ids
      BY <1>1, <1>2, GivenFacts DEF AtStart
    <2>. QED
      BY <1>1, <1>4, <2>1, <2>2 DEF IrisHold, AtStart, Position
  <1>7. CacheHolds'
    <2>1. idOf' = [n \in Name |-> IF n \in Found THEN n ELSE idOf[n]]
      OBVIOUS
    <2>2. idOf' \in [Name -> Name] /\ \A n \in Name : idOf'[n] \in {n, Nil}
      BY <1>1, <2>1 DEF CacheHolds
    <2>3. \A r \in FreshIris : idOf'[r] = Nil
      BY <1>1, <1>2, <1>3, <2>1, GivenFacts DEF CacheHolds, Name
    <2>4. \A i \in Position : iris'[i] \notin FreshIris => idOf'[iris'[i]] = iris'[i]
      <3>1. idOf'[Nil] = Nil
        BY <2>2 DEF Name
      <3>. QED
        BY <1>4, <2>1, <3>1
    <2>. QED
      BY <1>1, <2>2, <2>3, <2>4 DEF CacheHolds, Position, FreshIris
  <1>8. ErrorsHold'
    <2>1. \A i \in Position : errors'[i] = "none" <=> iris'[i] # Nil
      BY <1>1, <1>4 DEF MissingErrors, AtStart
    <2>2. \A i \in Position : ~ (i < 1) /\ i >= 1
      BY <1>2, GivenFacts
    <2>. QED
      BY <1>1, <2>1, <2>2 DEF ErrorsHold, AtStart, Position
  <1>. QED
    BY <1>1, <1>5, <1>6, <1>7, <1>8
    DEF IInv, AtStart, Unreported, IdsAreExact, ErrorsAreExact

\* The steps of the loop but for the update: contact i is not saved and, if it has
\* an IRI, gets an error.
Passes(i) ==
    /\ Visits(i)
    /\ next' = i + 1
    /\ errors' \in [Position -> Error]
    /\ \A j \in Position \ {i} : errors'[j] = errors[j]
    /\ errors'[i] # "none"
    /\ UNCHANGED <<given, contacts, iris, pc, idOf, store, saved>>

LEMMA PassesHolds ==
    ASSUME CarefulClients, IInv, NEW i \in Position, Passes(i)
    PROVE  IInv'
  <1>. USE DEF Passes, store, Visits
  <1>1. pc = "save" /\ TypeOK /\ IrisHold /\ CacheHolds /\ ErrorsHold /\ Unreported
    BY DEF IInv
  <1>2. Position = 1..Len(given) /\ Len(given) \in Nat
    BY <1>1, GivenFacts DEF TypeOK
  <1>3. i \notin saved
    BY <1>1, <1>2 DEF ErrorsHold
  <1>4. TypeOK'
    <2>1. next' \in 1..(Len(given) + 1)
      BY <1>2
    <2>. QED
      BY <1>1, <2>1 DEF TypeOK, Position
  <1>5. IrisHold' /\ CacheHolds' /\ Unreported'
    BY <1>1 DEF IrisHold, CacheHolds, Unreported, IriIsGood, Position, FreshIris
  <1>6. ErrorsHold'
    <2>1. \A j \in Position : j < i + 1 => (errors'[j] = "none" <=> j \in saved)
      BY <1>1, <1>2, <1>3 DEF ErrorsHold
    <2>2. \A j \in Position : j >= i + 1 => j \notin saved /\ (errors'[j] = "none" <=> iris[j] # Nil)
      BY <1>1, <1>2 DEF ErrorsHold
    <2>. QED
      BY <1>1, <2>1, <2>2 DEF ErrorsHold, Position
  <1>. QED
    BY <1>1, <1>4, <1>5, <1>6 DEF IInv, AtStart, IdsAreExact, ErrorsAreExact

LEMMA UpdateHolds ==
    ASSUME CarefulClients, IInv, NEW i \in Position, Update(i)
    PROVE  IInv'
  <1>. USE DEF Update, Acceptable, request, Visits
  <1>1. pc = "save" /\ pc' = "save" /\ TypeOK /\ IrisHold /\ CacheHolds /\ ErrorsHold /\ Unreported
    BY DEF IInv
  <1>2. /\ Position = 1..Len(given) /\ Len(given) \in Nat
        /\ \A j \in Position : Fresh[j] \in FreshIris
        /\ \A j \in Position : Fresh[j] = Fresh[i] => i = j
    BY <1>1, GivenFacts DEF TypeOK
  <1>3. iris[i] \in Resource
    BY <1>1 DEF IrisHold, Name
  <1>4. TypeOK'
    <2>1. next' \in 1..(Len(given) + 1)
      BY <1>2
    <2>2. ids' \subseteq Resource /\ stored' \subseteq ids' /\ saved' \in SUBSET Position
      BY <1>1, <1>3 DEF TypeOK
    <2>. QED
      BY <1>1, <2>1, <2>2 DEF TypeOK, Position
  <1>5. IrisHold'
    <2>1. ASSUME NEW j \in Position, j \notin saved' PROVE Fresh[j] \notin ids'
      <3>1. j # i /\ Fresh[j] \notin ids
        BY <1>1, <2>1 DEF IrisHold
      <3>2. Fresh[j] # iris[i]
        BY <1>1, <1>2, <3>1 DEF IrisHold, IriIsGood
      <3>. QED
        BY <3>1, <3>2
    <2>2. \A j \in saved' : iris[j] # Nil /\ iris[j] \in ids'
      BY <1>1 DEF IrisHold
    <2>. QED
      BY <1>1, <2>1, <2>2 DEF IrisHold, IriIsGood, Position, FreshIris
  <1>6. CacheHolds' /\ Unreported'
    BY <1>1 DEF CacheHolds, Unreported, Position, FreshIris
  <1>7. ErrorsHold'
    <2>1. \A j \in Position : j < i + 1 => (errors[j] = "none" <=> j \in saved')
      BY <1>1, <1>2 DEF ErrorsHold
    <2>2. \A j \in Position :
              j >= i + 1 => j \notin saved' /\ (errors[j] = "none" <=> iris[j] # Nil)
      BY <1>1, <1>2 DEF ErrorsHold
    <2>. QED
      BY <1>1, <2>1, <2>2 DEF ErrorsHold, Position
  <1>. QED
    BY <1>1, <1>4, <1>5, <1>6, <1>7 DEF IInv, AtStart, IdsAreExact, ErrorsAreExact

\* Looking the ids up: the saved contacts get the ids of their IRIs, and the others
\* keep their own.
LEMMA IdsResolved ==
    ASSUME CarefulClients, IInv, ResolveContactIds
    PROVE  IInv'
  <1>. USE DEF ResolveContactIds, request, store
  <1>1. /\ pc = "resolveIds" /\ pc' = "report"
        /\ TypeOK /\ IrisHold /\ CacheHolds /\ ErrorsHold /\ Unreported
    BY DEF IInv
  <1>2. /\ given \in Seq(Contact) /\ Len(given) <= ColumnLimit
        /\ Position = 1..Len(given) /\ Len(given) \in Nat
        /\ \A i \in Position : given[i] \in Contact
        /\ \A i \in Position : Fresh[i] \in FreshIris
        /\ Nil \notin Resource
    BY <1>1, GivenFacts DEF TypeOK
  <1>3. \A i \in Position : LookedUpIds.values[i] = IdFor(i)
    <2>1. iris \in [Position -> Name] /\ idOf \in [Name -> Name] /\ ids \subseteq Resource
      BY <1>1 DEF IrisHold, CacheHolds, TypeOK
    <2>. QED
      BY <1>2, <2>1, SaveAssumption, LookedUpRight
  <1>4. ASSUME NEW i \in Position
        PROVE  /\ IdFor(i) \in Name
               /\ i \in saved => IdFor(i) = iris[i] /\ iris[i] # Nil
               /\ i \notin saved => \/ IdFor(i) = Nil
                                    \/ IdFor(i) = given[i].id /\ given[i].manager # "foreign"
    <2>1. iris[i] \in Name /\ idOf[iris[i]] \in {iris[i], Nil}
      BY <1>1 DEF IrisHold, CacheHolds
    <2>2. i \in saved => iris[i] # Nil /\ iris[i] \in ids
      BY <1>1 DEF IrisHold
    <2>3. i \notin saved => Fresh[i] \notin ids /\ idOf[Fresh[i]] = Nil
      BY <1>1, <1>2 DEF IrisHold, CacheHolds
    <2>4. Nil \notin ids
      BY <1>1, <1>2 DEF TypeOK
    <2>5. IriIsGood(i)
      BY <1>1 DEF IrisHold
    <2>6. i \in saved => IdFor(i) = iris[i]
      BY <2>1, <2>2 DEF IdFor
    <2>7. CASE iris[i] = Fresh[i] /\ i \notin saved
      BY <2>3, <2>7 DEF IdFor, Name
    <2>8. CASE iris[i] = Nil /\ i \notin saved
      BY <2>1, <2>4, <2>8 DEF IdFor, Name
    <2>9. CASE given[i].manager # "foreign" /\ iris[i] = given[i].id /\ i \notin saved
      BY <2>1, <2>9 DEF IdFor, Name
    <2>. QED
      BY <2>1, <2>2, <2>5, <2>6, <2>7, <2>8, <2>9 DEF IriIsGood
  <1>5. ASSUME NEW i \in Position
        PROVE  /\ IdFor(i) # Nil => /\ contacts'[i].id = IdFor(i) /\ contacts'[i].manager = "own"
               /\ IdFor(i) = Nil => contacts'[i] = given[i]
               /\ contacts'[i] \in Contact
    <2>1. contacts'[i] = IF IdFor(i) # Nil
                         THEN [given[i] EXCEPT !.manager = "own", !.id = IdFor(i)]
                         ELSE given[i]
      BY <1>1, <1>3 DEF Unreported
    <2>2. given[i] \in Contact /\ IdFor(i) \in Name
      BY <1>2, <1>4
    <2>. QED
      BY <2>1, <2>2 DEF Contact
  <1>6. ASSUME NEW i \in Position
        PROVE  errors'[i] \in Error /\ (errors'[i] = "none" <=> i \in saved)
    <2>1. errors'[i] = IF IdFor(i) = Nil /\ errors[i] = "none" THEN "unspecified" ELSE errors[i]
      BY <1>3
    <2>2. errors[i] \in Error /\ (errors[i] = "none" <=> i \in saved)
      <3>1. next = Len(given) + 1
        BY <1>1 DEF ErrorsHold
      <3>2. i < next
        <4>1. i \in 1..Len(given)
          BY <1>2
        <4>. HIDE DEF ResolveContactIds
        <4>. QED
          BY <1>2, <3>1, <4>1
      <3>. QED
        BY <1>1, <3>2 DEF TypeOK, ErrorsHold
    <2>3. i \in saved => IdFor(i) # Nil
      BY <1>4
    <2>. QED
      BY <2>1, <2>2, <2>3 DEF Error
  <1>7. TypeOK'
    <2>1. contacts' \in [Position -> Contact]
      BY <1>5
    <2>2. errors' \in [Position -> Error]
      BY <1>6
    <2>. QED
      BY <1>1, <2>1, <2>2 DEF TypeOK, Position
  <1>8. IrisHold'
    BY <1>1 DEF IrisHold, IriIsGood, Position, FreshIris
  <1>9. IdsAreExact'
    <2>1. saved \subseteq Position
      BY <1>1 DEF TypeOK
    <2>2. ASSUME NEW i \in saved PROVE contacts'[i].id = iris[i] /\ contacts'[i].manager = "own"
      BY <1>4, <1>5, <2>1
    <2>3. ASSUME NEW i \in Position \ saved
          PROVE  /\ contacts'[i].id = given[i].id
                 /\ given[i].manager = "foreign" => contacts'[i].manager = "foreign"
      BY <1>4, <1>5
    <2>4. UNCHANGED <<given, iris, saved>> /\ Position' = Position
      BY DEF Position
    <2>. HIDE DEF ResolveContactIds
    <2>. QED
      BY <2>2, <2>3, <2>4 DEF IdsAreExact
  <1>10. ErrorsAreExact'
    BY <1>1, <1>6 DEF ErrorsAreExact, Position
  <1>. QED
    BY <1>1, <1>7, <1>8, <1>9, <1>10 DEF IInv, AtStart, CacheHolds, ErrorsHold, Unreported

LEMMA ReportHolds ==
    ASSUME CarefulClients, IInv, Report
    PROVE  IInv'
  <1>. USE DEF Report, request, store
  <1>1. pc = "report" /\ pc' = "done" /\ TypeOK /\ IrisHold /\ IdsAreExact /\ ErrorsAreExact
    BY DEF IInv
  <1>2. Position \subseteq Nat
    BY <1>1, GivenFacts DEF TypeOK
  <1>3. TypeOK'
    BY <1>1 DEF TypeOK, Position
  <1>4. ErrorsAreExact'
    <2>. SUFFICES ASSUME lastError' = "none", NEW i \in Position
                  PROVE  i \in saved /\ contacts[i].id = iris[i]
      BY <1>1 DEF ErrorsAreExact, Position
    <2>. DEFINE failed == {j \in Position : errors[j] # "none"}
    <2>1. failed = {}
      <3>. SUFFICES ASSUME failed # {} PROVE FALSE
        OBVIOUS
      <3>1. failed \in SUBSET Nat
        BY <1>2
      <3>2. Min(failed) \in failed
        <4>. HIDE DEF failed
        <4>. QED
          BY <3>1, MinExists
      <3>3. lastError' = IF lastError = "none" THEN errors[Min(failed)] ELSE lastError
        BY DEF FinalError
      <3>. QED
        BY <3>2, <3>3
    <2>2. i \in saved
      BY <1>1, <2>1 DEF ErrorsAreExact
    <2>. QED
      BY <1>1, <2>2 DEF IdsAreExact
  <1>. QED
    BY <1>1, <1>3, <1>4
    DEF IInv, AtStart, IrisHold, CacheHolds, ErrorsHold, Unreported, IdsAreExact

LEMMA OtherProcessHolds ==
    ASSUME CarefulClients, IInv, OtherProcess
    PROVE  IInv'
  <1>. USE DEF OtherProcess, request
  <1>1. TypeOK'
    <2>1. stored' \subseteq ids
      BY DEF IInv, TypeOK
    <2>. QED
      BY <2>1 DEF IInv, TypeOK, Position
  <1>2. /\ AtStart' /\ IrisHold' /\ CacheHolds' /\ ErrorsHold' /\ Unreported'
        /\ IdsAreExact' /\ ErrorsAreExact'
    BY DEF IInv, AtStart, IrisHold, CacheHolds, ErrorsHold, Unreported, IdsAreExact,
           ErrorsAreExact, IriIsGood, Position, FreshIris
  <1>. QED
    BY <1>1, <1>2 DEF IInv

LEMMA StepHolds ==
    ASSUME CarefulClients, IInv, [Next]_vars
    PROVE  IInv'
  <1>1. TypeOK /\ IrisHold
    BY DEF IInv
  <1>2. CASE ResolveContactIris
    BY <1>2, IrisResolved
  <1>3. CASE GiveUp
    BY <1>3
    DEF GiveUp, IInv, TypeOK, AtStart, IrisHold, CacheHolds, ErrorsHold, Unreported,
        IdsAreExact, ErrorsAreExact, request, store, Position
  <1>4. CASE LoopEnds
    <2>1. /\ pc = "save" /\ pc' = "resolveIds" /\ next = Len(given) + 1
          /\ UNCHANGED <<given, contacts, iris, errors, next, idOf, ids, stored, saved>>
      BY <1>4 DEF LoopEnds, request, store
    <2>. QED
      BY <2>1
      DEF IInv, TypeOK, AtStart, IrisHold, CacheHolds, ErrorsHold, Unreported,
          IdsAreExact, ErrorsAreExact, Position, IriIsGood, FreshIris
  <1>5. CASE ResolveContactIds
    BY <1>5, IdsResolved
  <1>6. CASE ResolveIdsFails
    BY <1>6
    DEF ResolveIdsFails, IInv, TypeOK, AtStart, IrisHold, CacheHolds, ErrorsHold, Unreported,
        IdsAreExact, ErrorsAreExact, request, store, Position
  <1>7. CASE Report
    BY <1>7, ReportHolds
  <1>8. CASE OtherProcess
    BY <1>8, OtherProcessHolds
  <1>9. ASSUME NEW i \in Position, SkipMissing(i) PROVE IInv'
    <2>1. errors[i] # "none"
      BY <1>9, <1>1, GivenFacts DEF SkipMissing, Visits, IInv, ErrorsHold, TypeOK
    <2>2. Passes(i)
      BY <1>1, <1>9, <2>1 DEF SkipMissing, Passes, TypeOK, request
    <2>. QED
      BY <2>2, PassesHolds
  <1>10. ASSUME NEW i \in Position, RejectForeign(i) PROVE IInv'
    <2>1. Passes(i)
      BY <1>1, <1>10 DEF RejectForeign, Passes, TypeOK, request, Error
    <2>. QED
      BY <2>1, PassesHolds
  <1>11. ASSUME NEW i \in Position, Reject(i) PROVE IInv'
    <2>1. PICK error \in {"invalid", "thumbnail"} : errors' = [errors EXCEPT ![i] = error]
      BY <1>11 DEF Reject
    <2>2. Passes(i)
      BY <1>1, <1>11, <2>1 DEF Reject, Acceptable, Passes, TypeOK, request, Error
    <2>. QED
      BY <2>2, PassesHolds
  <1>12. ASSUME NEW i \in Position, UpdateFails(i) PROVE IInv'
    <2>1. Passes(i)
      BY <1>1, <1>12 DEF UpdateFails, Acceptable, Passes, TypeOK, request, Error
    <2>. QED
      BY <2>1, PassesHolds
  <1>13. ASSUME NEW i \in Position, Update(i) PROVE IInv'
    BY <1>13, UpdateHolds
  <1>14. CASE UNCHANGED vars
    BY <1>14
    DEF vars, IInv, TypeOK, AtStart, IrisHold, CacheHolds, ErrorsHold, Unreported,
        IdsAreExact, ErrorsAreExact, IriIsGood, request, store, Position, FreshIris
  <1>. QED
    BY <1>2, <1>3, <1>4, <1>5, <1>6, <1>7, <1>8, <1>9, <1>10, <1>11, <1>12, <1>13, <1>14
    DEF Next

THEOREM Invariant == CarefulClients /\ Spec => []IInv
  <1>. SUFFICES ASSUME CarefulClients PROVE Spec => []IInv
    OBVIOUS
  <1>1. Init => IInv
    BY InitHolds
  <1>2. IInv /\ [Next]_vars => IInv'
    BY StepHolds
  <1>. QED
    BY <1>1, <1>2, PTL DEF Spec

\* In the report a contact that was saved has the id of its IRI, and one that was
\* not has the id that it came with, whatever failed and whatever another process
\* did meanwhile.
THEOREM ReportedIdsAreExact == CarefulClients /\ Spec => []IdsAreExact
  BY Invariant, PTL DEF IInv

\* The error map names exactly the contacts that were not saved, and a request
\* without an error has saved every contact and knows its id.
THEOREM ReportedErrorsAreExact == CarefulClients /\ Spec => []ErrorsAreExact
  BY Invariant, PTL DEF IInv

=============================================================================
