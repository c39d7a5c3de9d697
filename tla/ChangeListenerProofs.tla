------------------------- MODULE ChangeListenerProofs -------------------------
(***************************************************************************)
(* Theorems about ChangeListener: the timer, the client's view of the      *)
(* store, and what coalescing may and may not swallow, for every set of    *)
(* contacts.                                                               *)
(***************************************************************************)
EXTENDS ChangeListener, TLAPS

\* A notification puts quads into the two lists and keeps the listener typed.
LEMMA CollectTyped ==
    ASSUME TypeOK, NEW gone \in SUBSET Quad, NEW new \in SUBSET Quad,
           OnGraphChanged(gone, new)
    PROVE  /\ deletes' \in SUBSET Quad
           /\ inserts' \in SUBSET Quad
           /\ timer' \in BOOLEAN
           /\ timer' => ids' = "known"
           /\ UNCHANGED <<mode, ids, answer>>
BY DEF TypeOK, OnGraphChanged, StartTimer

\* Quads are what they are built from.
LEMMA QuadTyped ==
    ASSUME NEW c \in Contact, NEW p \in Predicate
    PROVE  Q(p, c) \in Quad
BY DEF Q, Quad

\* The subjects of quads are contacts.
LEMMA SubjectsTyped ==
    ASSUME NEW quads, NEW p
    PROVE  Subjects(quads, p) \in SUBSET Contact
BY DEF Subjects

\* Type correctness, with the timer that waits for the ids.
THEOREM TypeCorrect == Spec => []TypeOK
<1>1. Init => TypeOK
  BY ListenerAssumption DEF Init, TypeOK, Existing
<1>2. ASSUME TypeOK, [Next]_vars
      PROVE  TypeOK'
  <2> USE <1>2
  <2>1. CASE StoreStep
    <3>1. PICK c \in Contact :
              \/ CreateContact(c) \/ RemoveContact(c) \/ UpdateContact(c)
              \/ UpdateLocalUid(c) \/ UpdatePresence(c) \/ ChangeMembership(c)
      BY <2>1 DEF StoreStep
    <3>2. /\ Q("type", c) \in Quad /\ Q("otherType", c) \in Quad
          /\ Q("property", c) \in Quad /\ Q("uid", c) \in Quad
          /\ Q("tag", c) \in Quad /\ Q("member", c) \in Quad
      BY QuadTyped DEF Predicate
    <3>3. CASE CreateContact(c)
      <4>1. OnGraphChanged({}, {Q("type", c), Q("otherType", c),
                                Q("property", c), Q("uid", c)})
        BY <3>3 DEF CreateContact
      <4>2. /\ deletes' \in SUBSET Quad /\ inserts' \in SUBSET Quad
            /\ timer' \in BOOLEAN /\ (timer' => ids' = "known")
            /\ UNCHANGED <<mode, ids, answer>>
        BY <3>2, <4>1, CollectTyped
      <4> QED
        BY <3>3, <4>2 DEF CreateContact, TypeOK, client
    <3>4. CASE RemoveContact(c)
      <4> DEFINE left == IF c = Group THEN members ELSE members \cap {c}
      <4>1. left \subseteq Contact
        BY DEF TypeOK
      <4>2. {Q("member", d) : d \in left} \subseteq Quad
        BY <4>1, QuadTyped DEF Predicate
      <4>3. OnGraphChanged({Q("type", c), Q("otherType", c), Q("property", c), Q("uid", c)}
                               \cup {Q("member", d) : d \in left}, {})
        BY <3>4 DEF RemoveContact
      <4>4. /\ deletes' \in SUBSET Quad /\ inserts' \in SUBSET Quad
            /\ timer' \in BOOLEAN /\ (timer' => ids' = "known")
            /\ UNCHANGED <<mode, ids, answer>>
        <5> HIDE DEF left
        <5> QED BY <3>2, <4>2, <4>3, CollectTyped
      <4>5. /\ exists' = [exists EXCEPT ![c] = "gone"]
            /\ members' = members \ left
            /\ relOwed' = relOwed \cup left \cup (IF left = {} THEN {} ELSE {Group})
            /\ UNCHANGED <<graph, view, owed>>
        BY <3>4 DEF RemoveContact
      <4> QED
        <5> HIDE DEF left
        <5> QED BY <4>1, <4>4, <4>5, ListenerAssumption DEF TypeOK
    <3>5. CASE UpdateContact(c)
      <4>1. PICK change \in {<<{Q("property", c)}, {}>>, <<{}, {Q("property", c)}>>,
                             <<{Q("property", c)}, {Q("property", c)}>>} :
                OnGraphChanged(change[1], change[2])
        BY <3>5 DEF UpdateContact
      <4>2. change[1] \in SUBSET Quad /\ change[2] \in SUBSET Quad
        BY <3>2, <4>1
      <4>3. /\ deletes' \in SUBSET Quad /\ inserts' \in SUBSET Quad
            /\ timer' \in BOOLEAN /\ (timer' => ids' = "known")
            /\ UNCHANGED <<mode, ids, answer>>
        BY <4>1, <4>2, CollectTyped
      <4> QED
        BY <3>5, <4>3 DEF UpdateContact, TypeOK, store
    <3>6. CASE UpdateLocalUid(c)
      <4>1. /\ deletes' \in SUBSET Quad /\ inserts' \in SUBSET Quad
            /\ timer' \in BOOLEAN /\ (timer' => ids' = "known")
            /\ UNCHANGED <<mode, ids, answer>>
        BY <3>2, <3>6, CollectTyped DEF UpdateLocalUid
      <4> QED
        BY <3>6, <4>1 DEF UpdateLocalUid, TypeOK, store, client
    <3>7. CASE UpdatePresence(c)
      <4>1. /\ deletes' \in SUBSET Quad /\ inserts' \in SUBSET Quad
            /\ timer' \in BOOLEAN /\ (timer' => ids' = "known")
            /\ UNCHANGED <<mode, ids, answer>>
        BY <3>2, <3>7, CollectTyped DEF UpdatePresence
      <4> QED
        BY <3>7, <4>1 DEF UpdatePresence, TypeOK, store
    <3>8. CASE ChangeMembership(c)
      <4>1. /\ deletes' \in SUBSET Quad /\ inserts' \in SUBSET Quad
            /\ timer' \in BOOLEAN /\ (timer' => ids' = "known")
            /\ UNCHANGED <<mode, ids, answer>>
        BY <3>2, <3>8, CollectTyped DEF ChangeMembership
      <4>2. members' \in SUBSET (Contact \ {Group}) /\ relOwed' \in SUBSET Contact
        BY <3>8, ListenerAssumption DEF ChangeMembership, TypeOK
      <4> QED
        BY <3>8, <4>1, <4>2 DEF ChangeMembership, TypeOK
    <3> QED
      BY <3>1, <3>3, <3>4, <3>5, <3>6, <3>7, <3>8
  <2>2. CASE TimerFires
    BY <2>2, SubjectsTyped
    DEF TimerFires, EmitQueuedNotifications, ViewAfter, AddedIds, RemovedIds, store, TypeOK
  <2>3. CASE ResolverTask
    BY <2>3 DEF ResolverTask, store, client, TypeOK
  <2>4. CASE IdsFailed
    BY <2>4 DEF IdsFailed, store, client, TypeOK
  <2>5. CASE GraphMissing
    BY <2>5 DEF GraphMissing, store, client, TypeOK
  <2>6. CASE IdsKnown
    BY <2>6, SubjectsTyped
    DEF IdsKnown, EmitQueuedNotifications, ViewAfter, AddedIds, RemovedIds, store, TypeOK
  <2>7. CASE OnGraphInsertQueryFinished
    BY <2>7 DEF OnGraphInsertQueryFinished, client, TypeOK
  <2>8. CASE UNCHANGED vars
    BY <2>8 DEF vars, listener, store, client, TypeOK
  <2> QED
    BY <2>1, <2>2, <2>3, <2>4, <2>5, <2>6, <2>7, <2>8
    DEF Next, ListenerStep, OnTrackerIdsResolved
<1> QED
  BY <1>1, <1>2, PTL DEF Spec

-----------------------------------------------------------------------------
(***************************************************************************)
(* What a step of the store adds to the pending subjects of each predicate.*)
(***************************************************************************)

\* The subjects of a union are those of its parts.
LEMMA SubjectsOfUnion ==
    ASSUME NEW A, NEW B, NEW p
    PROVE  Subjects(A \cup B, p) = Subjects(A, p) \cup Subjects(B, p)
BY DEF Subjects

\* A report adds its subjects to the pending ones.
LEMMA Collected ==
    ASSUME NEW gone, NEW new, OnGraphChanged(gone, new), NEW p
    PROVE  /\ Subjects(deletes', p) = Subjects(deletes, p) \cup Subjects(gone, p)
           /\ Subjects(inserts', p) = Subjects(inserts, p) \cup Subjects(new, p)
BY DEF OnGraphChanged, Subjects

\* No quads have no subjects.
LEMMA SubjectsOfNone ==
    ASSUME NEW p
    PROVE  Subjects({}, p) = {}
BY DEF Subjects

\* Every step of the store is reported.
LEMMA StoreStepReports ==
    ASSUME StoreStep
    PROVE  \E gone, new : OnGraphChanged(gone, new)
BY DEF StoreStep, CreateContact, RemoveContact, UpdateContact, UpdateLocalUid,
       UpdatePresence, ChangeMembership

\* The effect of creating a contact.
LEMMA CreateEffect ==
    ASSUME NEW c \in Contact, CreateContact(c)
    PROVE  /\ AddedIds' = AddedIds \cup {c}
           /\ RemovedIds' = RemovedIds
           /\ Subjects(inserts', "property") = Subjects(inserts, "property") \cup {c}
           /\ Subjects(inserts', "tag") = Subjects(inserts, "tag")
           /\ Subjects(deletes', "property") = Subjects(deletes, "property")
           /\ Subjects(deletes', "tag") = Subjects(deletes, "tag")
           /\ Subjects(inserts', "member") = Subjects(inserts, "member")
           /\ Subjects(deletes', "member") = Subjects(deletes, "member")
<1> DEFINE new == {Q("type", c), Q("otherType", c), Q("property", c), Q("uid", c)}
<1>1. OnGraphChanged({}, new)
  BY DEF CreateContact
<1>2. /\ Subjects(new, "type") = {c} /\ Subjects(new, "property") = {c}
      /\ Subjects(new, "tag") = {} /\ Subjects(new, "member") = {}
  BY DEF Subjects, Q
<1> HIDE DEF new
<1> QED
  BY <1>1, <1>2, Collected, SubjectsOfNone, SMTT(30) DEF AddedIds, RemovedIds

\* The effect of removing a contact.
LEMMA RemoveEffect ==
    ASSUME TypeOK, NEW c \in Contact, RemoveContact(c)
    PROVE  /\ AddedIds' = AddedIds
           /\ RemovedIds' = RemovedIds \cup {c}
           /\ Subjects(inserts', "property") = Subjects(inserts, "property")
           /\ Subjects(inserts', "tag") = Subjects(inserts, "tag")
           /\ Subjects(deletes', "property") = Subjects(deletes, "property") \cup {c}
           /\ Subjects(deletes', "tag") = Subjects(deletes, "tag")
           /\ Subjects(inserts', "member") = Subjects(inserts, "member")
           /\ Subjects(deletes', "member")
                  = Subjects(deletes, "member")
                      \cup (IF c = Group THEN members ELSE members \cap {c})
<1> DEFINE left == IF c = Group THEN members ELSE members \cap {c}
           own == {Q("type", c), Q("otherType", c), Q("property", c), Q("uid", c)}
           ties == {Q("member", d) : d \in left}
<1>1. OnGraphChanged(own \cup ties, {})
  BY DEF RemoveContact
<1>2. /\ Subjects(own, "type") = {c} /\ Subjects(own, "property") = {c}
      /\ Subjects(own, "tag") = {} /\ Subjects(own, "member") = {}
  BY DEF Subjects, Q
<1>3. left \subseteq Contact
  BY DEF TypeOK
<1>4. /\ Subjects(ties, "type") = {} /\ Subjects(ties, "property") = {}
      /\ Subjects(ties, "tag") = {} /\ Subjects(ties, "member") = left
  <2> HIDE DEF left
  <2> QED BY <1>3 DEF Subjects, Q
<1> HIDE DEF own, ties
<1>5. /\ Subjects(own \cup ties, "type") = {c}
      /\ Subjects(own \cup ties, "property") = {c}
      /\ Subjects(own \cup ties, "tag") = {}
      /\ Subjects(own \cup ties, "member") = left
  <2>1. \A p : Subjects(own \cup ties, p) = Subjects(own, p) \cup Subjects(ties, p)
    BY SubjectsOfUnion
  <2> HIDE DEF left
  <2> QED BY <1>2, <1>4, <2>1
<1> QED
  BY <1>1, <1>5, Collected, SubjectsOfNone, SMTT(30) DEF AddedIds, RemovedIds

\* The effect of the other steps on additions and removals: there is none.
LEMMA OtherEffect ==
    ASSUME NEW c \in Contact,
           UpdateContact(c) \/ UpdateLocalUid(c) \/ UpdatePresence(c) \/ ChangeMembership(c)
    PROVE  /\ AddedIds' = AddedIds
           /\ RemovedIds' = RemovedIds
           /\ exists' = exists
           /\ view' = view
<1>1. /\ Subjects({Q("property", c)}, "type") = {} /\ Subjects({Q("uid", c)}, "type") = {}
      /\ Subjects({Q("property", c), Q("tag", c)}, "type") = {}
      /\ Subjects({Q("member", c)}, "type") = {}
  BY DEF Subjects, Q
<1>2. CASE UpdateContact(c)
  <2>1. PICK change \in {<<{Q("property", c)}, {}>>, <<{}, {Q("property", c)}>>,
                         <<{Q("property", c)}, {Q("property", c)}>>} :
            OnGraphChanged(change[1], change[2])
    BY <1>2 DEF UpdateContact
  <2>2. Subjects(change[1], "type") = {} /\ Subjects(change[2], "type") = {}
    BY <1>1, SubjectsOfNone
  <2>3. /\ Subjects(deletes', "type") = Subjects(deletes, "type") \cup Subjects(change[1], "type")
        /\ Subjects(inserts', "type") = Subjects(inserts, "type") \cup Subjects(change[2], "type")
    BY <2>1, Collected
  <2> QED
    BY <1>2, <2>2, <2>3 DEF AddedIds, RemovedIds, UpdateContact, store
<1>3. CASE UpdateLocalUid(c)
  BY <1>1, <1>3, Collected, SubjectsOfNone
  DEF AddedIds, RemovedIds, UpdateLocalUid, store, client
<1>4. CASE UpdatePresence(c)
  BY <1>1, <1>4, Collected DEF AddedIds, RemovedIds, UpdatePresence, store
<1>5. CASE ChangeMembership(c)
  BY <1>1, <1>5, Collected, SubjectsOfNone DEF AddedIds, RemovedIds, ChangeMembership
<1> QED
  BY <1>2, <1>3, <1>4, <1>5

\* An emission leaves nothing pending.
LEMMA EmissionEffect ==
    ASSUME EmitQueuedNotifications
    PROVE  /\ AddedIds' = {} /\ RemovedIds' = {}
           /\ deletes' = {} /\ inserts' = {}
BY DEF EmitQueuedNotifications, AddedIds, RemovedIds, Subjects

-----------------------------------------------------------------------------

\* Nothing waits without a timer once the ids are known.
THEOREM PendingIsAlwaysTimed == Spec => []PendingIsTimed
<1>1. Init => PendingIsTimed
  BY DEF Init, PendingIsTimed, Pending
<1>2. ASSUME PendingIsTimed, [Next]_vars
      PROVE  PendingIsTimed'
  <2>1. CASE StoreStep
    BY <1>2, <2>1, StoreStepReports DEF OnGraphChanged, StartTimer, PendingIsTimed
  <2>2. CASE TimerFires \/ IdsKnown
    BY <2>2, EmissionEffect DEF TimerFires, IdsKnown, PendingIsTimed, Pending
  <2>3. CASE ResolverTask \/ IdsFailed \/ GraphMissing \/ OnGraphInsertQueryFinished
    BY <1>2, <2>3
    DEF ResolverTask, IdsFailed, GraphMissing, OnGraphInsertQueryFinished, PendingIsTimed, Pending
  <2>4. CASE UNCHANGED vars
    BY <1>2, <2>4 DEF vars, listener, PendingIsTimed, Pending
  <2> QED
    BY <1>2, <2>1, <2>2, <2>3, <2>4 DEF Next, ListenerStep, OnTrackerIdsResolved
<1> QED
  BY <1>1, <1>2, PTL DEF Spec

\* Ids are never used again: what is reported as removed does not come back.
RemovedAreGone == \A c \in RemovedIds : exists[c] = "gone"

\* The next emission makes the client's view equal to the store, however
\* creations and removals are batched.
THEOREM ViewAlwaysCatchesUp == Spec => []ViewCatchesUp
<1>1. Init => ViewCatchesUp /\ RemovedAreGone
  BY SubjectsOfNone
  DEF Init, ViewCatchesUp, RemovedAreGone, ViewAfter, AddedIds, RemovedIds
<1>2. ASSUME TypeOK, TypeOK', ViewCatchesUp, RemovedAreGone, [Next]_vars
      PROVE  ViewCatchesUp' /\ RemovedAreGone'
  <2>1. RemovedIds \subseteq Contact
    BY SubjectsTyped DEF RemovedIds
  <2>2. ASSUME NEW c \in Contact, CreateContact(c)
        PROVE  ViewCatchesUp' /\ RemovedAreGone'
    <3>1. /\ exists' = [exists EXCEPT ![c] = "yes"]
          /\ exists[c] = "never"
          /\ view' = view
      BY <2>2 DEF CreateContact, client
    <3>2. c \notin RemovedIds
      BY <1>2, <3>1 DEF RemovedAreGone
    <3>3. Existing' = Existing \cup {c}
      BY <1>2, <3>1 DEF Existing, TypeOK
    <3> QED
      BY <1>2, <2>1, <2>2, <3>1, <3>2, <3>3, CreateEffect
      DEF ViewCatchesUp, RemovedAreGone, ViewAfter, TypeOK
  <2>3. ASSUME NEW c \in Contact, RemoveContact(c)
        PROVE  ViewCatchesUp' /\ RemovedAreGone'
    <3>1. /\ exists' = [exists EXCEPT ![c] = "gone"]
          /\ view' = view
      BY <2>3 DEF RemoveContact
    <3>2. Existing' = Existing \ {c}
      BY <1>2, <3>1 DEF Existing, TypeOK
    <3> QED
      BY <1>2, <2>1, <2>3, <3>1, <3>2, RemoveEffect
      DEF ViewCatchesUp, RemovedAreGone, ViewAfter, TypeOK
  <2>4. ASSUME NEW c \in Contact,
               UpdateContact(c) \/ UpdateLocalUid(c) \/ UpdatePresence(c)
                   \/ ChangeMembership(c)
        PROVE  ViewCatchesUp' /\ RemovedAreGone'
    BY <1>2, <2>4, OtherEffect DEF ViewCatchesUp, RemovedAreGone, ViewAfter, Existing
  <2>5. CASE TimerFires \/ IdsKnown
    <3>1. EmitQueuedNotifications /\ UNCHANGED store
      BY <2>5 DEF TimerFires, IdsKnown
    <3> QED
      BY <1>2, <3>1, EmissionEffect
      DEF EmitQueuedNotifications, ViewCatchesUp, RemovedAreGone, ViewAfter, Existing, store
  <2>6. CASE ResolverTask \/ IdsFailed \/ GraphMissing \/ OnGraphInsertQueryFinished
    <3>1. UNCHANGED <<deletes, inserts, exists, view>>
      BY <2>6
      DEF ResolverTask, IdsFailed, GraphMissing, OnGraphInsertQueryFinished, store, client
    <3> QED
      BY <1>2, <3>1
      DEF ViewCatchesUp, RemovedAreGone, ViewAfter, AddedIds, RemovedIds, Subjects, Existing
  <2>7. CASE UNCHANGED vars
    BY <1>2, <2>7
    DEF vars, listener, store, client, ViewCatchesUp, RemovedAreGone, ViewAfter,
        AddedIds, RemovedIds, Subjects, Existing
  <2> QED
    BY <1>2, <2>2, <2>3, <2>4, <2>5, <2>6, <2>7
    DEF Next, StoreStep, ListenerStep, OnTrackerIdsResolved
<1> QED
  BY <1>1, <1>2, TypeCorrect, PTL DEF Spec

-----------------------------------------------------------------------------
(***************************************************************************)
(* Coalescing loses no change, unless presence changes are ignored.        *)
(***************************************************************************)

\* What is going to be told, as a union of the pending subjects.
LEMMA ToldIs ==
    /\ mode = "all" =>
           Told = AddedIds \cup RemovedIds
                    \cup Subjects(deletes, "property") \cup Subjects(deletes, "tag")
                    \cup Subjects(inserts, "property") \cup Subjects(inserts, "tag")
    /\ mode = "only" => Told = AddedIds \cup RemovedIds \cup Subjects(inserts, "tag")
BY DEF Told, ChangedIds, DeletedProperties, InsertedProperties, PresenceIds

\* A further report withdraws nothing that was going to be told.
LEMMA ToldGrows ==
    ASSUME NEW gone, NEW new, OnGraphChanged(gone, new), mode \in {"all", "ignore", "only"}
    PROVE  /\ mode' = mode
           /\ mode # "ignore" => Told \subseteq Told'
           /\ RelationsTold \subseteq RelationsTold'
<1>1. mode' = mode
  BY DEF OnGraphChanged
<1>2. \A p : /\ Subjects(deletes, p) \subseteq Subjects(deletes', p)
             /\ Subjects(inserts, p) \subseteq Subjects(inserts', p)
  BY Collected
<1>3. RelationsTold \subseteq RelationsTold'
  BY <1>2 DEF RelationsTold, Related
<1>4. mode # "ignore" =>
      Told' = CASE mode = "all" ->
                     AddedIds' \cup RemovedIds'
                       \cup Subjects(deletes', "property") \cup Subjects(deletes', "tag")
                       \cup Subjects(inserts', "property") \cup Subjects(inserts', "tag")
                [] mode = "only" ->
                     AddedIds' \cup RemovedIds' \cup Subjects(inserts', "tag")
  BY <1>1 DEF Told, ChangedIds, DeletedProperties, InsertedProperties, PresenceIds
<1>5. AddedIds \subseteq AddedIds' /\ RemovedIds \subseteq RemovedIds'
  BY <1>2 DEF AddedIds, RemovedIds
<1>6. CASE mode = "all"
  BY <1>1, <1>2, <1>3, <1>4, <1>5, <1>6, ToldIs
<1>7. CASE mode = "only"
  BY <1>1, <1>2, <1>3, <1>4, <1>5, <1>7, ToldIs
<1>8. CASE mode = "ignore"
  BY <1>1, <1>3, <1>8
<1> QED
  BY <1>6, <1>7, <1>8

\* Each change of a membership is told by the next emission, and, without
\* IgnorePresenceChanges, each significant change of a contact.
THEOREM NothingIsForgotten == Spec => []NothingForgotten
<1>1. Init => NothingForgotten
  BY DEF Init, NothingForgotten
<1>2. ASSUME TypeOK, TypeOK', NothingForgotten, [Next]_vars
      PROVE  NothingForgotten'
  <2>1. mode \in {"all", "ignore", "only"}
    BY <1>2, ListenerAssumption DEF TypeOK
  <2>2. ASSUME NEW c \in Contact, CreateContact(c) \/ UpdateLocalUid(c)
        PROVE  NothingForgotten'
    <3>1. UNCHANGED <<owed, relOwed>> /\ \E gone, new : OnGraphChanged(gone, new)
      BY <2>2 DEF CreateContact, UpdateLocalUid, client
    <3> QED
      BY <1>2, <2>1, <3>1, ToldGrows DEF NothingForgotten
  <2>3. ASSUME NEW c \in Contact, RemoveContact(c)
        PROVE  NothingForgotten'
    <3> DEFINE left == IF c = Group THEN members ELSE members \cap {c}
    <3>1. /\ owed' = owed
          /\ relOwed' = relOwed \cup left \cup (IF left = {} THEN {} ELSE {Group})
          /\ \E gone, new : OnGraphChanged(gone, new)
      BY <2>3 DEF RemoveContact
    <3>2. left \subseteq Subjects(deletes', "member")
      BY <1>2, <2>3, RemoveEffect
    <3> HIDE DEF left
    <3>3. left \cup (IF left = {} THEN {} ELSE {Group}) \subseteq RelationsTold'
      BY <3>2 DEF RelationsTold, Related
    <3> QED
      BY <1>2, <2>1, <3>1, <3>3, ToldGrows DEF NothingForgotten
  <2>4. ASSUME NEW c \in Contact, UpdateContact(c)
        PROVE  NothingForgotten'
    <3>1. PICK change \in {<<{Q("property", c)}, {}>>, <<{}, {Q("property", c)}>>,
                           <<{Q("property", c)}, {Q("property", c)}>>} :
              OnGraphChanged(change[1], change[2])
      BY <2>4 DEF UpdateContact
    <3>2. Q("property", c) \in deletes' \cup inserts' /\ mode' = mode
      BY <3>1 DEF OnGraphChanged
    <3>3. mode = "all" => c \in Told'
      BY <3>2 DEF Told, ChangedIds, DeletedProperties, InsertedProperties, AddedIds,
                  RemovedIds, Subjects
    <3>4. (mode # "ignore" => owed' = IF mode = "all" THEN owed \cup {c} ELSE owed)
             /\ relOwed' = relOwed
      BY <2>1, <2>4 DEF UpdateContact, Significant
    <3> QED
      BY <1>2, <2>1, <3>1, <3>3, <3>4, ToldGrows DEF NothingForgotten
  <2>5. ASSUME NEW c \in Contact, UpdatePresence(c)
        PROVE  NothingForgotten'
    <3>1. /\ OnGraphChanged({Q("property", c)}, {Q("property", c), Q("tag", c)})
          /\ owed' \subseteq owed \cup {c}
          /\ relOwed' = relOwed
      BY <2>5 DEF UpdatePresence
    <3>2. c \in Subjects(inserts', "tag") /\ mode' = mode
      BY <3>1 DEF OnGraphChanged, Subjects
    <3>3. mode # "ignore" => c \in Told'
      BY <2>1, <3>2 DEF Told, ChangedIds, InsertedProperties, PresenceIds, AddedIds
    <3> QED
      BY <1>2, <2>1, <3>1, <3>3, ToldGrows DEF NothingForgotten
  <2>6. ASSUME NEW c \in Contact, ChangeMembership(c)
        PROVE  NothingForgotten'
    <3>1. /\ Q("member", c) \in deletes' \cup inserts'
          /\ \E gone, new : OnGraphChanged(gone, new)
          /\ relOwed' = relOwed \cup {c, Group}
          /\ owed' = owed
      BY <2>6 DEF ChangeMembership, OnGraphChanged
    <3>2. {c, Group} \subseteq RelationsTold'
      BY <3>1 DEF RelationsTold, Related, Subjects
    <3> QED
      BY <1>2, <2>1, <3>1, <3>2, ToldGrows DEF NothingForgotten
  <2>7. CASE TimerFires \/ IdsKnown
    BY <1>2, <2>7 DEF TimerFires, IdsKnown, EmitQueuedNotifications, NothingForgotten
  <2>8. CASE \/ ResolverTask \/ IdsFailed \/ GraphMissing
             \/ OnGraphInsertQueryFinished \/ UNCHANGED vars
    <3>1. UNCHANGED <<mode, deletes, inserts, owed, relOwed>>
      BY <2>8
      DEF ResolverTask, IdsFailed, GraphMissing, OnGraphInsertQueryFinished, vars, listener,
          store, client
    <3> QED
      BY <1>2, <3>1
      DEF NothingForgotten, Told, RelationsTold, ChangedIds, DeletedProperties,
          InsertedProperties, PresenceIds, AddedIds, RemovedIds, Related, Subjects
  <2> QED
    BY <1>2, <2>2, <2>3, <2>4, <2>5, <2>6, <2>7, <2>8
    DEF Next, StoreStep, ListenerStep, OnTrackerIdsResolved
<1> QED
  BY <1>1, <1>2, TypeCorrect, PTL DEF Spec

-----------------------------------------------------------------------------
(***************************************************************************)
(* Coalescing invents no change, in any mode.                              *)
(***************************************************************************)

\* The effect of an edit on the pending properties and tags.
LEMMA UpdateEffect ==
    ASSUME NEW c \in Contact, UpdateContact(c)
    PROVE  /\ Subjects(deletes', "property") \subseteq Subjects(deletes, "property") \cup {c}
           /\ Subjects(inserts', "property") \subseteq Subjects(inserts, "property") \cup {c}
           /\ Subjects(deletes', "tag") = Subjects(deletes, "tag")
           /\ Subjects(inserts', "tag") = Subjects(inserts, "tag")
<1>1. PICK change \in {<<{Q("property", c)}, {}>>, <<{}, {Q("property", c)}>>,
                       <<{Q("property", c)}, {Q("property", c)}>>} :
          OnGraphChanged(change[1], change[2])
  BY DEF UpdateContact
<1>2. /\ Subjects({Q("property", c)}, "property") = {c}
      /\ Subjects({Q("property", c)}, "tag") = {}
  BY DEF Subjects, Q
<1>3. /\ Subjects(change[1], "property") \subseteq {c} /\ Subjects(change[1], "tag") = {}
      /\ Subjects(change[2], "property") \subseteq {c} /\ Subjects(change[2], "tag") = {}
  BY <1>2, SubjectsOfNone
<1>4. \A p : /\ Subjects(deletes', p) = Subjects(deletes, p) \cup Subjects(change[1], p)
             /\ Subjects(inserts', p) = Subjects(inserts, p) \cup Subjects(change[2], p)
  BY <1>1, Collected
<1> QED
  BY <1>3, <1>4

\* The effect of a presence update on them.
LEMMA PresenceEffect ==
    ASSUME NEW c \in Contact, UpdatePresence(c)
    PROVE  /\ Subjects(deletes', "property") = Subjects(deletes, "property") \cup {c}
           /\ Subjects(inserts', "property") = Subjects(inserts, "property") \cup {c}
           /\ Subjects(deletes', "tag") = Subjects(deletes, "tag")
           /\ Subjects(inserts', "tag") = Subjects(inserts, "tag") \cup {c}
<1>1. /\ Subjects({Q("property", c)}, "property") = {c}
      /\ Subjects({Q("property", c)}, "tag") = {}
      /\ Subjects({Q("property", c), Q("tag", c)}, "property") = {c}
      /\ Subjects({Q("property", c), Q("tag", c)}, "tag") = {c}
  BY DEF Subjects, Q
<1> QED
  BY <1>1, Collected, SMTT(30) DEF UpdatePresence

\* contactLocalUID and group memberships are none of them.
LEMMA BookkeepingEffect ==
    ASSUME NEW c \in Contact, UpdateLocalUid(c) \/ ChangeMembership(c), NEW p \in {"property", "tag"}
    PROVE  Subjects(deletes', p) = Subjects(deletes, p) /\ Subjects(inserts', p) = Subjects(inserts, p)
<1>1. Subjects({Q("uid", c)}, p) = {} /\ Subjects({Q("member", c)}, p) = {}
  BY DEF Subjects, Q
<1>2. PICK gone \in {{}, {Q("member", c)}}, new \in {{}, {Q("uid", c)}, {Q("member", c)}} :
          OnGraphChanged(gone, new)
  BY DEF UpdateLocalUid, ChangeMembership
<1>3. Subjects(gone, p) = {} /\ Subjects(new, p) = {}
  BY <1>1, <1>2, SubjectsOfNone
<1> QED
  BY <1>2, <1>3, Collected

\* The changes that are going to be told, as a combination of the pending
\* subjects.
Changes(m, removed, added, dp, dt, ip, it) ==
    CASE m = "all" -> (((dp \cup dt) \ removed) \cup (ip \cup it)) \ added
      [] m = "ignore" -> ((((dp \cup dt) \ removed) \cup ip) \ it) \ added
      [] m = "only" -> it \ added

\* ChangedIds is that combination.
LEMMA ChangesAre ==
    ASSUME mode \in {"all", "ignore", "only"}
    PROVE  ChangedIds = Changes(mode, RemovedIds, AddedIds,
                                Subjects(deletes, "property"), Subjects(deletes, "tag"),
                                Subjects(inserts, "property"), Subjects(inserts, "tag"))
BY DEF Changes, ChangedIds, DeletedProperties, InsertedProperties, PresenceIds

\* ChangedIds is that combination in the next state, too.
LEMMA ChangesWillBe ==
    ASSUME mode' \in {"all", "ignore", "only"}
    PROVE  ChangedIds' = Changes(mode', RemovedIds', AddedIds',
                                 Subjects(deletes', "property"), Subjects(deletes', "tag"),
                                 Subjects(inserts', "property"), Subjects(inserts', "tag"))
BY DEF Changes, ChangedIds, DeletedProperties, InsertedProperties, PresenceIds

\* Whatever is reported as changed was changed in a way that the client's
\* filter mode lets pass.
THEOREM NothingIsInvented == Spec => []NoSpuriousChange
<1>1. Init => NoSpuriousChange
  BY DEF Init, NoSpuriousChange, ChangedIds, DeletedProperties, InsertedProperties,
         PresenceIds, Subjects
<1>2. ASSUME TypeOK, TypeOK', NoSpuriousChange, [Next]_vars
      PROVE  NoSpuriousChange'
  <2>1. mode \in {"all", "ignore", "only"} /\ mode' = mode
    BY <1>2, ListenerAssumption
    DEF TypeOK, Next, StoreStep, ListenerStep, OnTrackerIdsResolved, CreateContact,
        RemoveContact, UpdateContact, UpdateLocalUid, UpdatePresence, ChangeMembership,
        OnGraphChanged, TimerFires, ResolverTask, IdsFailed, GraphMissing, IdsKnown,
        OnGraphInsertQueryFinished, vars, listener
  <2>2. ASSUME NEW c \in Contact, CreateContact(c)
        PROVE  NoSpuriousChange'
    <3>1. owed' = owed
      BY <2>2 DEF CreateContact, client
    <3> QED
      BY <1>2, <2>1, <2>2, <3>1, CreateEffect, ChangesAre, ChangesWillBe
      DEF NoSpuriousChange, Changes
  <2>3. ASSUME NEW c \in Contact, RemoveContact(c)
        PROVE  NoSpuriousChange'
    <3>1. owed' = owed
      BY <2>3 DEF RemoveContact
    <3> QED
      BY <1>2, <2>1, <2>3, <3>1, RemoveEffect, ChangesAre, ChangesWillBe
      DEF NoSpuriousChange, Changes
  <2>4. ASSUME NEW c \in Contact, UpdateContact(c)
        PROVE  NoSpuriousChange'
    <3>1. owed' = IF mode = "only" THEN owed ELSE owed \cup {c}
      BY <2>4 DEF UpdateContact, Significant
    <3> QED
      BY <1>2, <2>1, <2>4, <3>1, UpdateEffect, OtherEffect, ChangesAre, ChangesWillBe
      DEF NoSpuriousChange, Changes
  <2>5. ASSUME NEW c \in Contact, UpdatePresence(c)
        PROVE  NoSpuriousChange'
    <3>1. owed' = IF mode = "ignore" THEN owed ELSE owed \cup {c}
      BY <2>5 DEF UpdatePresence
    <3> QED
      BY <1>2, <2>1, <2>5, <3>1, PresenceEffect, OtherEffect, ChangesAre, ChangesWillBe
      DEF NoSpuriousChange, Changes
  <2>6. ASSUME NEW c \in Contact, UpdateLocalUid(c) \/ ChangeMembership(c)
        PROVE  NoSpuriousChange'
    <3>1. owed' = owed
      BY <2>6 DEF UpdateLocalUid, ChangeMembership, client
    <3> QED
      BY <1>2, <2>1, <2>6, <3>1, BookkeepingEffect, OtherEffect, ChangesAre, ChangesWillBe
      DEF NoSpuriousChange, Changes
  <2>7. CASE TimerFires \/ IdsKnown
    <3>1. deletes' = {} /\ inserts' = {}
      BY <2>7, EmissionEffect DEF TimerFires, IdsKnown
    <3> QED
      BY <3>1
      DEF NoSpuriousChange, ChangedIds, DeletedProperties, InsertedProperties, PresenceIds,
          Subjects
  <2>8. CASE \/ ResolverTask \/ IdsFailed \/ GraphMissing
             \/ OnGraphInsertQueryFinished \/ UNCHANGED vars
    <3>1. UNCHANGED <<mode, deletes, inserts, owed>>
      BY <2>8
      DEF ResolverTask, IdsFailed, GraphMissing, OnGraphInsertQueryFinished, vars, listener,
          store, client
    <3> QED
      BY <1>2, <3>1
      DEF NoSpuriousChange, ChangedIds, DeletedProperties, InsertedProperties, PresenceIds,
          AddedIds, RemovedIds, Subjects
  <2> QED
    BY <1>2, <2>2, <2>3, <2>4, <2>5, <2>6, <2>7, <2>8
    DEF Next, StoreStep, ListenerStep, OnTrackerIdsResolved
<1> QED
  BY <1>1, <1>2, TypeCorrect, PTL DEF Spec

=============================================================================
