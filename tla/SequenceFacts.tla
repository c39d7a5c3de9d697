---------------------------- MODULE SequenceFacts ----------------------------
(* Lemmas about the sequence operations that the models are built from. *)
EXTENDS QueueOps, WellFoundedInduction, TLAPS

\* The element is in the sequence, and is there once at most.
Pending(e, s) == \E i \in 1..Len(s) : s[i] = e
Once(e, s) == \A i, j \in 1..Len(s) : s[i] = e /\ s[j] = e => i = j

\* What Append() keeps and adds.
LEMMA AppendFacts ==
    ASSUME NEW S, NEW s \in Seq(S), NEW e \in S
    PROVE  /\ Append(s, e) \in Seq(S)
           /\ Len(Append(s, e)) = Len(s) + 1
           /\ \A i \in 1..Len(s) : Append(s, e)[i] = s[i]
           /\ Append(s, e)[Len(s) + 1] = e
           /\ Append(s, e) # << >>
  OBVIOUS

\* What Tail() keeps.
LEMMA TailFacts ==
    ASSUME NEW S, NEW s \in Seq(S), s # << >>
    PROVE  /\ Head(s) = s[1] /\ Head(s) \in S
           /\ Tail(s) \in Seq(S)
           /\ Len(s) \in Nat /\ Len(s) >= 1
           /\ Len(Tail(s)) = Len(s) - 1
           /\ \A i \in 1..(Len(s) - 1) : Tail(s)[i] = s[i + 1]
  OBVIOUS

\* A sequence of one element.
LEMMA SingleFacts ==
    ASSUME NEW S, NEW s \in Seq(S), Len(s) = 1
    PROVE  /\ s # << >> /\ Head(s) \in S /\ Tail(s) = << >>
           /\ \A e \in S : <<e>> \o Tail(s) = <<e>> /\ <<e>> \in Seq(S)
  <1>1. s # << >>
    OBVIOUS
  <1>2. Head(s) \in S /\ Tail(s) \in Seq(S) /\ Len(Tail(s)) = 0
    BY <1>1, TailFacts
  <1>3. Tail(s) = << >>
    <2>1. \A t \in Seq(S) : Len(t) = 0 => t = << >>
      OBVIOUS
    <2>. QED
      BY <1>2, <2>1
  <1>4. ASSUME NEW e \in S PROVE <<e>> \o << >> = <<e>> /\ <<e>> \in Seq(S)
    OBVIOUS
  <1>. QED
    BY <1>1, <1>2, <1>3, <1>4

\* What concatenation keeps.
LEMMA ConcatFacts ==
    ASSUME NEW S, NEW s \in Seq(S), NEW r \in Seq(S)
    PROVE  /\ s \o r \in Seq(S)
           /\ Len(s \o r) = Len(s) + Len(r)
           /\ \A i \in 1..Len(s) : (s \o r)[i] = s[i]
           /\ \A i \in 1..Len(r) : (s \o r)[Len(s) + i] = r[i]
  OBVIOUS

\* removeOne() takes out the one position of the task and keeps the order.
LEMMA RemoveOneFacts ==
    ASSUME NEW S, NEW s \in Seq(S), NEW t, NEW k \in 1..Len(s), s[k] = t,
           \A i, j \in 1..Len(s) : s[i] = s[j] => i = j
    PROVE  /\ RemoveOne(s, t) \in Seq(S)
           /\ Len(RemoveOne(s, t)) = Len(s) - 1
           /\ \A j \in 1..(Len(s) - 1) :
                 RemoveOne(s, t)[j] = IF j < k THEN s[j] ELSE s[j + 1]
  <1>1. Len(s) \in Nat /\ Len(s) >= 1
    OBVIOUS
  <1>2. (CHOOSE i \in 1..Len(s) : s[i] = t /\ \A j \in 1..(i - 1) : s[j] # t) = k
    <2>1. s[k] = t /\ \A j \in 1..(k - 1) : s[j] # t
      BY <1>1
    <2>. QED
      BY <2>1
  <1>3. RemoveOne(s, t) = [j \in 1..(Len(s) - 1) |-> IF j < k THEN s[j] ELSE s[j + 1]]
    BY <1>2 DEF RemoveOne
  <1>4. \A j \in 1..(Len(s) - 1) : (IF j < k THEN s[j] ELSE s[j + 1]) \in S
    BY <1>1
  <1>. QED
    BY <1>1, <1>3, <1>4

\* An event that is pending stays so when another one is posted; only the
\* one posted is new.
LEMMA AppendPending ==
    ASSUME NEW S, NEW s \in Seq(S), NEW e \in S, NEW x
    PROVE  Pending(x, Append(s, e)) <=> Pending(x, s) \/ x = e
  <1>1. Len(s) \in Nat
    OBVIOUS
  <1>2. \A i \in 1..Len(Append(s, e)) : i \in 1..Len(s) \/ i = Len(s) + 1
    BY <1>1, AppendFacts
  <1>. QED
    BY <1>1, <1>2, AppendFacts DEF Pending

\* Taking the first event leaves the others pending and adds none.
LEMMA TailPending ==
    ASSUME NEW S, NEW s \in Seq(S), s # << >>, NEW x
    PROVE  /\ Pending(x, Tail(s)) => Pending(x, s)
           /\ Pending(x, s) => Pending(x, Tail(s)) \/ x = Head(s)
  <1>1. ASSUME NEW i \in 1..Len(Tail(s)) PROVE i + 1 \in 1..Len(s) /\ Tail(s)[i] = s[i + 1]
    BY TailFacts
  <1>2. ASSUME NEW i \in 1..Len(s), i # 1
        PROVE  i - 1 \in 1..Len(Tail(s)) /\ Tail(s)[i - 1] = s[i]
    BY <1>2, TailFacts
  <1>3. Head(s) = s[1]
    BY TailFacts
  <1>. QED
    BY <1>1, <1>2, <1>3, ZenonT(40) DEF Pending

\* Events posted as a block are pending, and those before it still are.
LEMMA ConcatPending ==
    ASSUME NEW S, NEW s \in Seq(S), NEW r \in Seq(S), NEW x
    PROVE  Pending(x, s \o r) <=> Pending(x, s) \/ Pending(x, r)
  <1>1. Len(s) \in Nat /\ Len(r) \in Nat
    OBVIOUS
  <1>2. ASSUME NEW i \in 1..Len(s \o r)
        PROVE  i \in 1..Len(s) \/ (i - Len(s) \in 1..Len(r) /\ i = Len(s) + (i - Len(s)))
    BY <1>1, ConcatFacts
  <1>3. \A i \in 1..Len(s) : i \in 1..Len(s \o r)
    BY <1>1, ConcatFacts
  <1>4. \A i \in 1..Len(r) : Len(s) + i \in 1..Len(s \o r)
    BY <1>1, ConcatFacts
  <1>5. Pending(x, s \o r) => Pending(x, s) \/ Pending(x, r)
    <2>1. SUFFICES ASSUME NEW i \in 1..Len(s \o r), (s \o r)[i] = x
                   PROVE  Pending(x, s) \/ Pending(x, r)
      BY DEF Pending
    <2>2. CASE i \in 1..Len(s)
      BY <2>1, <2>2, ConcatFacts DEF Pending
    <2>3. CASE i - Len(s) \in 1..Len(r) /\ i = Len(s) + (i - Len(s))
      <3>1. (s \o r)[i] = r[i - Len(s)]
        BY <2>3, ConcatFacts
      <3>. QED
        BY <2>1, <2>3, <3>1 DEF Pending
    <2>. QED
      BY <1>2, <2>2, <2>3
  <1>6. Pending(x, s) => Pending(x, s \o r)
    BY <1>3, ConcatFacts DEF Pending
  <1>7. Pending(x, r) => Pending(x, s \o r)
    BY <1>4, ConcatFacts DEF Pending
  <1>. QED
    BY <1>5, <1>6, <1>7

\* An event stays unique when others are posted.
LEMMA AppendOnce ==
    ASSUME NEW S, NEW s \in Seq(S), NEW e \in S, NEW x,
           Once(x, s), x = e => ~Pending(x, s)
    PROVE  Once(x, Append(s, e))
  <1>1. Len(s) \in Nat
    OBVIOUS
  <1>2. \A i \in 1..Len(Append(s, e)) : i \in 1..Len(s) \/ i = Len(s) + 1
    BY <1>1, AppendFacts
  <1>. QED
    BY <1>1, <1>2, AppendFacts DEF Pending, Once

\* Appending a sequence without x keeps the one place of x.
LEMMA ConcatOnce ==
    ASSUME NEW S, NEW s \in Seq(S), NEW r \in Seq(S), NEW x,
           Once(x, s), ~Pending(x, r)
    PROVE  Once(x, s \o r)
  <1>1. Len(s) \in Nat /\ Len(r) \in Nat
    OBVIOUS
  <1>2. ASSUME NEW i \in 1..Len(s \o r), (s \o r)[i] = x
        PROVE  i \in 1..Len(s) /\ s[i] = x
    <2>1. i \in 1..Len(s) \/ (i - Len(s) \in 1..Len(r) /\ i = Len(s) + (i - Len(s)))
      BY <1>1, ConcatFacts
    <2>2. CASE i - Len(s) \in 1..Len(r) /\ i = Len(s) + (i - Len(s))
      <3>1. (s \o r)[i] = r[i - Len(s)]
        BY <2>2, ConcatFacts
      <3>. QED
        BY <1>2, <2>2, <3>1 DEF Pending
    <2>. QED
      BY <1>2, <2>1, <2>2, ConcatFacts
  <1>. QED
    BY <1>2 DEF Once

\* A unique event is gone once it was taken, and stays unique otherwise.
LEMMA TailOnce ==
    ASSUME NEW S, NEW s \in Seq(S), s # << >>, NEW x, Once(x, s)
    PROVE  Once(x, Tail(s)) /\ (x = Head(s) => ~Pending(x, Tail(s)))
  <1>1. ASSUME NEW i \in 1..Len(Tail(s))
        PROVE  i + 1 \in 1..Len(s) /\ Tail(s)[i] = s[i + 1] /\ i + 1 # 1
    BY TailFacts
  <1>2. Head(s) = s[1] /\ 1 \in 1..Len(s)
    BY TailFacts
  <1>3. \A i, j \in 1..Len(Tail(s)) : i + 1 = j + 1 => i = j
    BY TailFacts
  <1>. QED
    BY <1>1, <1>2, <1>3 DEF Once, Pending

-----------------------------------------------------------------------------
(* The order of a sequence that holds nothing twice. *)

\* Nothing is twice in the sequence.
Distinct(s) == \A i, j \in 1..Len(s) : s[i] = s[j] => i = j

\* x is ahead of y.
Before(x, y, s) == \E i, j \in 1..Len(s) : i < j /\ s[i] = x /\ s[j] = y

\* What is appended is behind everything else, whose order stays.
LEMMA AppendOrder ==
    ASSUME NEW S, NEW s \in Seq(S), NEW e \in S, Distinct(s), ~Pending(e, s)
    PROVE  /\ Distinct(Append(s, e))
           /\ \A x, y : Before(x, y, Append(s, e)) <=>
                            Before(x, y, s) \/ (y = e /\ Pending(x, s))
  <1>1. Len(s) \in Nat
    OBVIOUS
  <1>2. \A i \in 1..Len(Append(s, e)) : i \in 1..Len(s) \/ i = Len(s) + 1
    BY <1>1, AppendFacts
  <1>3. \A i \in 1..Len(s) : i \in 1..Len(Append(s, e)) /\ Append(s, e)[i] = s[i]
    BY <1>1, AppendFacts
  <1>4. Len(s) + 1 \in 1..Len(Append(s, e)) /\ Append(s, e)[Len(s) + 1] = e
    BY <1>1, AppendFacts
  <1>5. Distinct(Append(s, e))
    BY <1>1, <1>2, <1>3, <1>4 DEF Distinct, Pending
  <1>6. ASSUME NEW x, NEW y, Before(x, y, Append(s, e))
        PROVE  Before(x, y, s) \/ (y = e /\ Pending(x, s))
    <2>1. PICK i, j \in 1..Len(Append(s, e)) :
             i < j /\ Append(s, e)[i] = x /\ Append(s, e)[j] = y
      BY <1>6 DEF Before
    <2>2. i \in 1..Len(s)
      BY <1>1, <1>2, <2>1
    <2>3. CASE j \in 1..Len(s)
      BY <1>3, <2>1, <2>2, <2>3 DEF Before
    <2>4. CASE j = Len(s) + 1
      BY <1>3, <1>4, <2>1, <2>2, <2>4 DEF Pending
    <2>. QED
      BY <1>2, <2>3, <2>4
  <1>7. ASSUME NEW x, NEW y, Before(x, y, s) \/ (y = e /\ Pending(x, s))
        PROVE  Before(x, y, Append(s, e))
    <2>1. CASE Before(x, y, s)
      BY <1>3, <2>1 DEF Before
    <2>2. CASE y = e /\ Pending(x, s)
      <3>1. PICK i \in 1..Len(s) : s[i] = x
        BY <2>2 DEF Pending
      <3>2. i < Len(s) + 1
        BY <1>1
      <3>. QED
        BY <1>3, <1>4, <2>2, <3>1, <3>2 DEF Before
    <2>. QED
      BY <1>7, <2>1, <2>2
  <1>. QED
    BY <1>5, <1>6, <1>7

\* The head is ahead of all others; taking it leaves them and their order.
LEMMA TailOrder ==
    ASSUME NEW S, NEW s \in Seq(S), s # << >>, Distinct(s)
    PROVE  /\ Distinct(Tail(s))
           /\ \A x : Pending(x, Tail(s)) <=> Pending(x, s) /\ x # Head(s)
           /\ \A x, y : Before(x, y, Tail(s)) <=> Before(x, y, s) /\ x # Head(s)
           /\ \A x : ~Before(x, Head(s), s)
           /\ Pending(Head(s), s)
  <1>1. \A i \in 1..Len(Tail(s)) : i + 1 \in 1..Len(s) /\ Tail(s)[i] = s[i + 1] /\ i + 1 # 1
    BY TailFacts
  <1>2. \A i \in 1..Len(s) : i # 1 => i - 1 \in 1..Len(Tail(s)) /\ Tail(s)[i - 1] = s[i]
    BY TailFacts
  <1>3. Head(s) = s[1] /\ 1 \in 1..Len(s) /\ Len(s) \in Nat /\ Len(Tail(s)) \in Nat
    BY TailFacts
  <1>4. \A i \in 1..Len(s) : s[i] = Head(s) => i = 1
    BY <1>3 DEF Distinct
  <1>5. Distinct(Tail(s))
    BY <1>1, <1>3 DEF Distinct
  <1>6. ASSUME NEW x PROVE Pending(x, Tail(s)) <=> Pending(x, s) /\ x # Head(s)
    <2>1. Pending(x, Tail(s)) => Pending(x, s) /\ x # Head(s)
      BY <1>1, <1>4 DEF Pending
    <2>2. Pending(x, s) /\ x # Head(s) => Pending(x, Tail(s))
      BY <1>2, <1>3 DEF Pending
    <2>. QED
      BY <2>1, <2>2
  <1>7. ASSUME NEW x, NEW y, Before(x, y, Tail(s)) PROVE Before(x, y, s) /\ x # Head(s)
    <2>1. PICK i, j \in 1..Len(Tail(s)) : i < j /\ Tail(s)[i] = x /\ Tail(s)[j] = y
      BY <1>7 DEF Before
    <2>2. i + 1 < j + 1
      BY <1>3, <2>1
    <2>. QED
      BY <1>1, <1>4, <2>1, <2>2 DEF Before
  <1>8. ASSUME NEW x, NEW y, Before(x, y, s), x # Head(s) PROVE Before(x, y, Tail(s))
    <2>1. PICK i, j \in 1..Len(s) : i < j /\ s[i] = x /\ s[j] = y
      BY <1>8 DEF Before
    <2>2. i # 1 /\ j # 1 /\ i - 1 < j - 1
      BY <1>3, <1>8, <2>1
    <2>. QED
      BY <1>2, <2>1, <2>2 DEF Before
  <1>9. ASSUME NEW x PROVE ~Before(x, Head(s), s)
    BY <1>3, <1>4 DEF Before
  <1>. QED
    BY <1>3, <1>5, <1>6, <1>7, <1>8, <1>9 DEF Pending

\* removeOne() takes one element and leaves the others in their order.
LEMMA RemoveOrder ==
    ASSUME NEW S, NEW s \in Seq(S), NEW t, Distinct(s), Pending(t, s)
    PROVE  /\ RemoveOne(s, t) \in Seq(S)
           /\ Distinct(RemoveOne(s, t))
           /\ \A x : Pending(x, RemoveOne(s, t)) <=> Pending(x, s) /\ x # t
           /\ \A x, y : Before(x, y, RemoveOne(s, t)) <=> Before(x, y, s) /\ x # t /\ y # t
  <1>0. PICK k \in 1..Len(s) : s[k] = t
    BY DEF Pending
  <1>. DEFINE R == RemoveOne(s, t)
              Old(j) == IF j < k THEN j ELSE j + 1
              New(i) == IF i < k THEN i ELSE i - 1
  <1>1. Len(s) \in Nat /\ \A i \in 1..Len(s) : s[i] = t <=> i = k
    BY <1>0 DEF Distinct
  <1>2. /\ R \in Seq(S) /\ Len(R) = Len(s) - 1
        /\ \A j \in 1..(Len(s) - 1) : R[j] = IF j < k THEN s[j] ELSE s[j + 1]
    BY <1>0, RemoveOneFacts DEF Distinct
  <1>. HIDE DEF R
  <1>3. \A j \in 1..Len(R) : Old(j) \in 1..Len(s) /\ Old(j) # k /\ R[j] = s[Old(j)]
    BY <1>1, <1>2
  <1>4. \A i \in 1..Len(s) : i # k => New(i) \in 1..Len(R) /\ R[New(i)] = s[i]
    BY <1>1, <1>2
  <1>5. \A i, j \in 1..Len(R) : (Old(i) = Old(j) => i = j) /\ (i < j => Old(i) < Old(j))
    BY <1>1, <1>2
  <1>6. \A i, j \in 1..Len(s) : i # k /\ j # k /\ i < j => New(i) < New(j)
    BY <1>1
  <1>. HIDE DEF Old, New
  <1>7. Distinct(R)
    BY <1>3, <1>5 DEF Distinct
  <1>8. ASSUME NEW x PROVE Pending(x, R) <=> Pending(x, s) /\ x # t
    BY <1>1, <1>3, <1>4 DEF Pending
  <1>9. ASSUME NEW x, NEW y, Before(x, y, R) PROVE Before(x, y, s) /\ x # t /\ y # t
    BY <1>1, <1>3, <1>5, <1>9 DEF Before
  <1>10. ASSUME NEW x, NEW y, Before(x, y, s), x # t, y # t PROVE Before(x, y, R)
    BY <1>1, <1>4, <1>6, <1>10 DEF Before
  <1>. QED
    BY <1>2, <1>7, <1>8, <1>9, <1>10 DEF R

-----------------------------------------------------------------------------
(* Cutting one element out of a sequence. *)

\* Sequences are equal when they have the same elements at the same places.
LEMMA SameElements ==
    ASSUME NEW S, NEW s \in Seq(S), NEW r \in Seq(S), Len(s) = Len(r),
           \A i \in 1..Len(s) : s[i] = r[i]
    PROVE  s = r
  OBVIOUS

\* What is left when the element at k is cut out.
LEMMA CutFacts ==
    ASSUME NEW S, NEW s \in Seq(S), NEW k \in 1..Len(s)
    PROVE  LET c == SubSeq(s, 1, k - 1) \o SubSeq(s, k + 1, Len(s))
           IN  /\ c \in Seq(S) /\ Len(c) = Len(s) - 1
               /\ \A j \in 1..(Len(s) - 1) : c[j] = IF j < k THEN s[j] ELSE s[j + 1]
  <1>. DEFINE a == SubSeq(s, 1, k - 1)
              b == SubSeq(s, k + 1, Len(s))
  <1>1. Len(s) \in Nat /\ k \in Nat /\ 1 <= k /\ k <= Len(s)
    OBVIOUS
  <1>2. a \in Seq(S) /\ Len(a) = k - 1 /\ \A j \in 1..(k - 1) : a[j] = s[j]
    BY <1>1
  <1>3. b \in Seq(S) /\ Len(b) = Len(s) - k /\ \A j \in 1..(Len(s) - k) : b[j] = s[k + j]
    BY <1>1
  <1>. HIDE DEF a, b
  <1>4. a \o b \in Seq(S) /\ Len(a \o b) = Len(s) - 1
    <2>1. a \o b \in Seq(S) /\ Len(a \o b) = Len(a) + Len(b)
      BY <1>2, <1>3, ConcatFacts
    <2>2. (k - 1) + (Len(s) - k) = Len(s) - 1
      BY <1>1
    <2>. QED
      BY <1>2, <1>3, <2>1, <2>2
  <1>5. ASSUME NEW j \in 1..(Len(s) - 1)
        PROVE  (a \o b)[j] = IF j < k THEN s[j] ELSE s[j + 1]
    <2>1. CASE j < k
      <3>1. j \in 1..Len(a)
        BY <1>1, <1>2, <2>1
      <3>2. (a \o b)[j] = a[j]
        BY <1>2, <1>3, <3>1, ConcatFacts
      <3>. QED
        BY <1>2, <2>1, <3>1, <3>2
    <2>2. CASE ~(j < k)
      <3>1. j - (k - 1) \in 1..Len(b) /\ Len(a) + (j - (k - 1)) = j /\ k + (j - (k - 1)) = j + 1
        BY <1>1, <1>2, <1>3, <2>2
      <3>2. (a \o b)[Len(a) + (j - (k - 1))] = b[j - (k - 1)]
        BY <1>2, <1>3, <3>1, ConcatFacts
      <3>3. b[j - (k - 1)] = s[k + (j - (k - 1))]
        BY <1>3, <3>1
      <3>. QED
        BY <2>2, <3>1, <3>2, <3>3
    <2>. QED
      BY <2>1, <2>2
  <1>. QED
    BY <1>4, <1>5 DEF a, b

\* The least element, where there is one.
LEMMA MinFacts ==
    ASSUME NEW S, NEW m \in S, S \subseteq Int, \A x \in S : m <= x
    PROVE  Min(S) = m
  <1>1. \A x \in S : (\A y \in S : x <= y) => x = m
    OBVIOUS
  <1>. QED
    BY <1>1 DEF Min

-----------------------------------------------------------------------------
(* Lists of positions. *)

\* The sequence lists the set in ascending order.
Lists(f, slots) ==
    /\ \A k \in 1..Len(f) : f[k] \in slots
    /\ \A i \in slots : \E k \in 1..Len(f) : f[k] = i
    /\ \A k, l \in 1..Len(f) : k < l => f[k] < f[l]

\* A slot behind all others is listed last.
LEMMA AppendLists ==
    ASSUME NEW f \in Seq(Nat), NEW slots \in SUBSET Nat, NEW n \in Nat, Lists(f, slots),
           \A i \in slots : i < n
    PROVE  Lists(Append(f, n), slots \cup {n})
  <1>. DEFINE g == Append(f, n)
  <1>1. /\ Len(f) \in Nat /\ Len(g) = Len(f) + 1 /\ g[Len(f) + 1] = n
        /\ \A k \in 1..Len(f) : g[k] = f[k]
    BY AppendFacts
  <1>. HIDE DEF g
  <1>2. \A k \in 1..Len(g) : k \in 1..Len(f) \/ k = Len(f) + 1
    BY <1>1
  <1>3. \A k \in 1..Len(f) : f[k] \in slots /\ f[k] < n /\ f[k] \in Nat
    BY DEF Lists
  <1>4. \A k \in 1..Len(g) : g[k] \in slots \cup {n}
    BY <1>1, <1>2, <1>3
  <1>5. ASSUME NEW i \in slots \cup {n} PROVE \E k \in 1..Len(g) : g[k] = i
    <2>1. CASE i = n
      BY <1>1, <2>1
    <2>2. CASE i \in slots
      <3>1. PICK k \in 1..Len(f) : f[k] = i
        BY <2>2 DEF Lists
      <3>. QED
        BY <1>1, <3>1
    <2>. QED
      BY <2>1, <2>2
  <1>6. ASSUME NEW k \in 1..Len(g), NEW l \in 1..Len(g), k < l PROVE g[k] < g[l]
    <2>1. k \in 1..Len(f) /\ (l \in 1..Len(f) \/ l = Len(f) + 1)
      BY <1>1, <1>6
    <2>. QED
      BY <1>1, <1>3, <1>6, <2>1 DEF Lists
  <1>. QED
    BY <1>4, <1>5, <1>6 DEF Lists, g

\* The first slot of a list is the least one, and the rest lists the others.
LEMMA TailLists ==
    ASSUME NEW f \in Seq(Nat), NEW slots \in SUBSET Nat, Lists(f, slots), f # << >>
    PROVE  /\ f[1] \in slots /\ Min(slots) = f[1]
           /\ Lists(Tail(f), slots \ {f[1]})
           /\ \A i \in slots \ {f[1]} : i > f[1]
  <1>. DEFINE g == Tail(f)
  <1>1. /\ Len(f) \in Nat /\ Len(f) >= 1 /\ Len(g) = Len(f) - 1
        /\ \A k \in 1..(Len(f) - 1) : g[k] = f[k + 1]
    BY TailFacts
  <1>. HIDE DEF g
  <1>2. f[1] \in slots /\ \A k \in 1..Len(f) : k # 1 => f[k] > f[1] /\ f[k] \in slots
    BY <1>1 DEF Lists
  <1>3. \A i \in slots : i = f[1] \/ i > f[1]
    BY <1>2 DEF Lists
  <1>4. Min(slots) = f[1]
    <2>1. slots \subseteq Int /\ \A x \in slots : f[1] <= x
      BY <1>2, <1>3
    <2>. QED
      BY <1>2, <2>1, MinFacts
  <1>5. \A k \in 1..Len(g) : g[k] \in slots \ {f[1]}
    <2>. TAKE k \in 1..Len(g)
    <2>1. k + 1 \in 1..Len(f) /\ k + 1 # 1 /\ g[k] = f[k + 1]
      BY <1>1
    <2>. QED
      BY <1>2, <2>1
  <1>6. ASSUME NEW i \in slots \ {f[1]} PROVE \E k \in 1..Len(g) : g[k] = i
    <2>1. PICK k \in 1..Len(f) : f[k] = i
      BY DEF Lists
    <2>2. k - 1 \in 1..Len(g) /\ g[k - 1] = i
      BY <1>1, <2>1
    <2>. QED
      BY <2>2
  <1>7. ASSUME NEW k \in 1..Len(g), NEW l \in 1..Len(g), k < l PROVE g[k] < g[l]
    <2>1. /\ k + 1 \in 1..Len(f) /\ l + 1 \in 1..Len(f) /\ k + 1 < l + 1
          /\ g[k] = f[k + 1] /\ g[l] = f[l + 1]
      BY <1>1, <1>7
    <2>. QED
      BY <2>1 DEF Lists
  <1>. QED
    BY <1>2, <1>3, <1>4, <1>5, <1>6, <1>7 DEF Lists, g

-----------------------------------------------------------------------------
(* Induction and folds.  The library's induction theorems are about        *)
(* predicates; these are about sets, which the provers can instantiate.    *)

\* Natural induction, of a set instead of a predicate.
LEMMA SetInduction ==
    ASSUME NEW S, 0 \in S, \A n \in Nat : n \in S => n + 1 \in S
    PROVE  Nat \subseteq S
  <1>. DEFINE R == {ss \in Nat \X Nat : ss[1] < ss[2]}
              T == Nat \ S
  <1>1. SUFFICES ASSUME T # {} PROVE FALSE
    OBVIOUS
  <1>2. IsWellFoundedOn(R, Nat)
    BY NatLessThanWellFounded DEF OpToRel
  <1>3. \A x, y \in Nat : x < y => <<x, y>> \in R
    OBVIOUS
  <1>. HIDE DEF R
  <1>4. PICK x \in T : \A y \in T : ~ (<<y, x>> \in R)
    BY <1>1, <1>2, WFMin
  <1>5. x \in Nat /\ x # 0 /\ x - 1 \in Nat /\ x - 1 < x
    BY <1>4
  <1>6. x - 1 \in S
    BY <1>3, <1>4, <1>5
  <1>. QED
    BY <1>4, <1>5, <1>6

\* The greatest element, where there is one.
LEMMA MaxFacts ==
    ASSUME NEW S, NEW m \in S, S \subseteq Int, \A x \in S : x <= m
    PROVE  Max(S) = m
  <1>1. \A x \in S : (\A y \in S : x >= y) => x = m
    OBVIOUS
  <1>. QED
    BY <1>1 DEF Max

\* There is one in a set of bounded positions.
LEMMA MaxExists ==
    ASSUME NEW n \in Nat, NEW s \in SUBSET (1..n), s # {}
    PROVE  Max(s) \in s /\ \A x \in s : x <= Max(s)
  <1>. DEFINE S == {m \in Nat : \A t \in SUBSET (1..m) : t # {} => \E x \in t : \A y \in t : y <= x}
  <1>1. 0 \in S
    <2>1. \A t \in SUBSET (1..0) : t = {}
      OBVIOUS
    <2>. QED
      BY <2>1
  <1>2. ASSUME NEW m \in Nat, m \in S PROVE m + 1 \in S
    <2>. SUFFICES ASSUME NEW t \in SUBSET (1..(m + 1)), t # {} PROVE \E x \in t : \A y \in t : y <= x
      OBVIOUS
    <2>1. CASE m + 1 \in t
      BY <2>1
    <2>2. CASE m + 1 \notin t
      <3>1. t \in SUBSET (1..m)
        BY <2>2
      <3>. QED
        BY <1>2, <3>1
    <2>. QED
      BY <2>1, <2>2
  <1>3. Nat \subseteq S
    <2>. HIDE DEF S
    <2>. QED
      BY <1>1, <1>2, SetInduction
  <1>4. PICK x \in s : \A y \in s : y <= x
    BY <1>3
  <1>5. s \subseteq Int
    OBVIOUS
  <1>6. Max(s) = x
    BY <1>4, <1>5, MaxFacts
  <1>. QED
    BY <1>4, <1>6

\* And a least one.
LEMMA MinExists ==
    ASSUME NEW s \in SUBSET Nat, s # {}
    PROVE  Min(s) \in s /\ \A x \in s : Min(s) <= x
  <1>. DEFINE R == {ss \in Nat \X Nat : ss[1] < ss[2]}
  <1>1. IsWellFoundedOn(R, Nat)
    BY NatLessThanWellFounded DEF OpToRel
  <1>2. \A x, y \in Nat : x < y => <<x, y>> \in R
    OBVIOUS
  <1>. HIDE DEF R
  <1>3. PICK m \in s : \A y \in s : ~ (<<y, m>> \in R)
    BY <1>1, WFMin
  <1>4. \A e \in s : m <= e
    <2>. SUFFICES ASSUME NEW e \in s PROVE m <= e
      OBVIOUS
    <2>1. e \in Nat /\ m \in Nat
      OBVIOUS
    <2>2. ~ (e < m)
      BY <1>2, <1>3, <2>1
    <2>. QED
      BY <2>1, <2>2
  <1>5. s \subseteq Int
    OBVIOUS
  <1>6. Min(s) = m
    BY <1>4, <1>5, MinFacts
  <1>. QED
    BY <1>4, <1>6

\* The recursion that a fold is: by the greatest element of the set.
Chain(g, A, base, step, n) ==
    /\ g \in [SUBSET (1..n) -> A]
    /\ \A s \in SUBSET (1..n) :
           g[s] = IF s = {} THEN base ELSE step[<<g[s \ {Max(s)}], Max(s)>>]

LEMMA ChainExists ==
    ASSUME NEW A, NEW base \in A, NEW n \in Nat, NEW step \in [A \X (1..n) -> A]
    PROVE  \E g : Chain(g, A, base, step, n)
  <1>. DEFINE S == {m \in Nat : m <= n => \E g : Chain(g, A, base, step, m)}
  <1>1. 0 \in S
    <2>. DEFINE g == [s \in SUBSET (1..0) |-> base]
    <2>1. \A s \in SUBSET (1..0) : s = {}
      OBVIOUS
    <2>2. Chain(g, A, base, step, 0)
      BY <2>1 DEF Chain
    <2>. QED
      BY <2>2
  <1>2. ASSUME NEW m \in Nat, m \in S, m + 1 <= n PROVE \E h : Chain(h, A, base, step, m + 1)
    <2>1. PICK g : Chain(g, A, base, step, m)
      BY <1>2
    <2>. DEFINE h == [s \in SUBSET (1..(m + 1)) |->
                         IF m + 1 \in s THEN step[<<g[s \ {m + 1}], m + 1>>] ELSE g[s]]
    <2>2. ASSUME NEW s \in SUBSET (1..(m + 1))
          PROVE  /\ m + 1 \in s => s \ {m + 1} \in SUBSET (1..m) /\ Max(s) = m + 1
                 /\ m + 1 \notin s => s \in SUBSET (1..m)
      <3>1. m + 1 \in s => Max(s) = m + 1
        <4>1. s \subseteq Int /\ \A x \in s : x <= m + 1
          OBVIOUS
        <4>. QED
          BY <4>1, MaxFacts
      <3>. QED
        BY <3>1
    <2>3. m + 1 \in 1..n
      BY <1>2
    <2>4. \A s \in SUBSET (1..m) : g[s] \in A
      BY <2>1 DEF Chain
    <2>5. h \in [SUBSET (1..(m + 1)) -> A]
      <3>. SUFFICES ASSUME NEW s \in SUBSET (1..(m + 1))
                    PROVE (IF m + 1 \in s THEN step[<<g[s \ {m + 1}], m + 1>>] ELSE g[s]) \in A
        OBVIOUS
      <3>. QED
        BY <2>2, <2>3, <2>4
    <2>6. ASSUME NEW s \in SUBSET (1..(m + 1))
          PROVE  h[s] = IF s = {} THEN base ELSE step[<<h[s \ {Max(s)}], Max(s)>>]
      <3>1. CASE m + 1 \in s
        <4>1. h[s \ {m + 1}] = g[s \ {m + 1}]
          BY <2>2, <3>1
        <4>. QED
          BY <2>2, <3>1, <4>1
      <3>2. CASE m + 1 \notin s
        <4>1. h[s] = g[s] /\ h[s \ {Max(s)}] = g[s \ {Max(s)}]
          BY <3>2
        <4>2. g[s] = IF s = {} THEN base ELSE step[<<g[s \ {Max(s)}], Max(s)>>]
          BY <2>1, <2>2, <3>2 DEF Chain
        <4>. QED
          BY <4>1, <4>2
      <3>. QED
        BY <3>1, <3>2
    <2>. HIDE DEF h
    <2>. QED
      BY <2>5, <2>6 DEF Chain
  <1>. QED
    <2>1. \A m \in Nat : m \in S => m + 1 \in S
      BY <1>2
    <2>2. Nat \subseteq S
      <3>. HIDE DEF S
      <3>. QED
        BY <1>1, <2>1, SetInduction
    <2>. QED
      BY <2>2

\* A fold over the positions 1..n goes through the intervals.
LEMMA IntervalFacts ==
    ASSUME NEW n \in Nat
    PROVE  /\ 1..0 = {} /\ 1..0 \in SUBSET (1..n)
           /\ \A k \in 1..n : /\ 1..k \in SUBSET (1..n) /\ 1..k # {}
                              /\ (1..k) \ {k} = 1..(k - 1) /\ Max(1..k) = k
  <1>1. 1..0 = {} /\ 1..0 \in SUBSET (1..n)
    OBVIOUS
  <1>2. ASSUME NEW k \in 1..n
        PROVE  /\ 1..k \in SUBSET (1..n) /\ 1..k # {}
               /\ (1..k) \ {k} = 1..(k - 1) /\ Max(1..k) = k
    <2>1. k \in 1..k /\ 1..k \subseteq Int /\ \A x \in 1..k : x <= k
      OBVIOUS
    <2>2. Max(1..k) = k
      BY <2>1, MaxFacts
    <2>3. 1..k \in SUBSET (1..n) /\ 1..k # {} /\ (1..k) \ {k} = 1..(k - 1)
      OBVIOUS
    <2>. QED
      BY <2>2, <2>3
  <1>. QED
    BY <1>1, <1>2

\* What a recursion that exists says of the sets that are not empty.
LEMMA ChainFacts ==
    ASSUME NEW A, NEW base, NEW n \in Nat, NEW step, NEW g, Chain(g, A, base, step, n),
           NEW s \in SUBSET (1..n), s # {}
    PROVE  /\ Max(s) \in 1..n
           /\ g[s \ {Max(s)}] \in A
           /\ g[s] = step[<<g[s \ {Max(s)}], Max(s)>>]
  <1>1. Max(s) \in 1..n /\ s \ {Max(s)} \in SUBSET (1..n)
    BY MaxExists
  <1>. QED
    BY <1>1 DEF Chain

\* A fold stays in a set which its steps do not leave.
LEMMA FoldStays ==
    ASSUME NEW A, NEW n \in Nat, NEW fold, fold[1..0] \in A,
           \A k \in 1..n : fold[1..(k - 1)] \in A => fold[1..k] \in A
    PROVE  \A k \in 0..n : fold[1..k] \in A
  <1>. DEFINE S == {k \in Nat : k <= n => fold[1..k] \in A}
  <1>1. 0 \in S
    OBVIOUS
  <1>2. ASSUME NEW k \in Nat, k \in S PROVE k + 1 \in S
    <2>. SUFFICES ASSUME k + 1 <= n PROVE fold[1..(k + 1)] \in A
      OBVIOUS
    <2>1. k + 1 \in 1..n /\ (k + 1) - 1 = k
      OBVIOUS
    <2>2. fold[1..k] \in A
      BY <1>2
    <2>. QED
      BY <2>1, <2>2
  <1>3. Nat \subseteq S
    <2>. HIDE DEF S
    <2>. QED
      BY <1>1, <1>2, SetInduction
  <1>. QED
    BY <1>3

\* A fold with a set for each position.
LEMMA FoldReaches ==
    ASSUME NEW A, NEW n \in Nat, NEW fold, fold[1..0] \in A[0],
           \A k \in 1..n : fold[1..(k - 1)] \in A[k - 1] => fold[1..k] \in A[k]
    PROVE  \A k \in 0..n : fold[1..k] \in A[k]
  <1>. DEFINE S == {k \in Nat : k <= n => fold[1..k] \in A[k]}
  <1>1. 0 \in S
    OBVIOUS
  <1>2. ASSUME NEW k \in Nat, k \in S PROVE k + 1 \in S
    <2>. SUFFICES ASSUME k + 1 <= n PROVE fold[1..(k + 1)] \in A[k + 1]
      OBVIOUS
    <2>1. k + 1 \in 1..n /\ (k + 1) - 1 = k
      OBVIOUS
    <2>2. fold[1..k] \in A[k]
      BY <1>2
    <2>. QED
      BY <2>1, <2>2
  <1>3. Nat \subseteq S
    <2>. HIDE DEF S
    <2>. QED
      BY <1>1, <1>2, SetInduction
  <1>. QED
    BY <1>3

=============================================================================
