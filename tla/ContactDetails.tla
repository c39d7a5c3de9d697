---------------------------- MODULE ContactDetails ----------------------------
(* Contacts that are saved, fetched, edited and saved again: the updates of   *)
(* the save request (UpdateBuilder) against the queries of the fetch request  *)
(* (DetailQueries), over one store that other programs write to, too.  A      *)
(* client keeps a copy of a contact that may be out of date when it saves it. *)
EXTENDS ContactFilters

CONSTANTS
    Schema,    \* the schema of the contacts
    Profiles,  \* for each contact, lists of details that clients make it of
    Edits,     \* what clients do to a copy: the details they drop and add, and the mask
    Others,    \* sets of statements that other programs insert
    Clock,     \* the time of each save
    Guids,     \* makes a GUID for each save
    Filters    \* what clients look for

ASSUME DetailsAssumption ==
    /\ Len(Clock) = Len(Guids)
    /\ \A edit \in Edits : edit.drops \subseteq DetailNames(Schema) \cup edit.mask

VARIABLES copy,   \* the client's copy
          saves,  \* how many saves there were
          last    \* the last save and how it went: history

vars == <<store, copy, saves, last>>

NoCopy == [contact |-> Zero, details |-> {}]
NoSave == [contact |-> Zero, ok |-> TRUE]

Init == store = {} /\ copy = NoCopy /\ saves = 0 /\ last = NoSave

Save(c, details, mask, new) ==
    [contact |-> c, schema |-> Schema, details |-> details, mask |-> mask, new |-> new,
     now |-> Clock[saves + 1], guid |-> Guids[saves + 1], serial |-> saves + 1]

\* The update is a transaction that fails where a property would have too many values.
Runs(save) ==
    \E after \in {Updated(store, save)} :
        /\ store' = IF Consistent(after) THEN after ELSE store
        /\ last' = [contact |-> save.contact, ok |-> Consistent(after), save |-> save]
        /\ saves' = saves + 1

\* A client saves a new contact.
Create(c, details) ==
    /\ saves < Len(Clock) /\ ~Exists(store, c)
    /\ Runs(Save(c, details, {}, TRUE))
    /\ UNCHANGED copy

\* A client fetches a contact with all its details.
Fetch(c) ==
    /\ Exists(store, c)
    /\ copy' = [contact |-> c, details |-> Read(store, Schema, c, {})]
    /\ copy' # copy
    /\ UNCHANGED <<store, saves, last>>

Listed(details) == FoldSet(LAMBDA d, list : Append(list, d), << >>, details)

\* A client edits its copy and saves all details of it, or those of a mask.
SaveCopy(edit) ==
    /\ saves < Len(Clock) /\ copy # NoCopy
    /\ LET kept == {d \in copy.details : d.name \notin edit.drops}
       IN  Runs(Save(copy.contact, Listed(kept) \o edit.adds, edit.mask, FALSE))
    /\ UNCHANGED copy

\* Another program writes about a contact in a graph of its own, or makes a
\* contact.
OtherWrites(statements) ==
    /\ \A q \in statements : q.s \in Contact => Exists(store \cup statements, q.s)
    /\ LET after == Insert(store, statements)
       IN  store' = IF Consistent(after) THEN after ELSE store
    /\ store' # store
    /\ UNCHANGED <<copy, saves, last>>

Next ==
    \/ \E c \in Contact : \E details \in Profiles[c] : Create(c, details)
    \/ \E c \in Contact : Fetch(c)
    \/ \E edit \in Edits : SaveCopy(edit)
    \/ \E statements \in Others : OtherWrites(statements)

Spec == Init /\ [][Next]_vars

-----------------------------------------------------------------------------
\* What clients see

View(db, c) == Read(db, Schema, c, {})

\* Details that every save writes by itself; IdentityIsKept is about them.
Bookkeeping == {"Timestamp", "Guid", "SyncTarget"}

Content(d) == [name |-> d.name, fields |-> d.fields, contexts |-> d.contexts]

Saves == saves' # saves /\ last'.ok

\* What the client gives for the save, one detail for each context.
Meant(save) ==
    UNION {{[Content(d) EXCEPT !.contexts = {x} \ {""}] :
                x \in IF d.contexts = {} THEN {""} ELSE d.contexts} :
           d \in {x \in ToSet(save.details) : Saveable(save, x) /\ x.name \notin Bookkeeping}}

\* A detail has the values of another; a tag is the one that was there first,
\* whatever its case.
Covers(d, other) ==
    /\ d.name = other.name /\ d.contexts = other.contexts
    /\ \A n \in DOMAIN other.fields :
           /\ n \in DOMAIN d.fields
           /\ \A v \in other.fields[n] : \E x \in d.fields[n] :
                  x = v \/ (d.name = "Tag" /\ SameText(x, v))

\* A detail without what the engine adds: the values that stand for those that
\* are missing, and fields that it does not store.
WithoutDefaults(d) ==
    IF d.name \notin DetailNames(Schema) THEN d
    ELSE LET declared == {f \in FieldsOf(DetailNamed(Schema, d.name)) :
                             f.name \in DOMAIN d.fields /\ d.fields[f.name] # f.default}
         IN  [d EXCEPT !.fields = [n \in {f.name : f \in declared} |->
                 d.fields[n] \ FieldNamed(DetailNamed(Schema, d.name), n).default]]

\* The presence is one of an account, and goes with it.
BelongsTo(d) == IF d.name = "Presence" THEN "OnlineAccount" ELSE d.name

\* What a filter means for a client that looks at the details of a contact.  A
\* wildcard for the context is one for the detail.
RECURSIVE Sees(_, _)
Sees(details, filter) ==
    LET In(d, name) == IF name \in DOMAIN d.fields THEN d.fields[name] ELSE {}
        Of(d) == IF filter.field = "Context" /\ filter.value # {} THEN d.contexts
                 ELSE IF filter.field \in {"", "Context"}
                 THEN UNION {d.fields[n] : n \in DOMAIN d.fields}
                 ELSE In(d, filter.field)
        Time(name) == UNION {In(d, name) : d \in {x \in details : x.name = "Timestamp"}}
        Fits(v) ==
            CASE filter.kind = "range" -> /\ \A x \in filter.least : NotAfter(x, v)
                                          /\ \A x \in filter.most : NotAfter(v, x) /\ v # x
              [] filter.kind = "detail" /\ filter.phone ->
                     \A x \in filter.value : LocalNumber(x) = LocalNumber(v)
              [] OTHER -> \A x \in filter.value : Matching(v, x, filter.how)
    IN  CASE filter.kind = "and" -> \A part \in filter.parts : Sees(details, part)
          [] filter.kind = "or" -> \E part \in filter.parts : Sees(details, part)
          [] filter.kind = "changeLog" ->
                 \E t \in Time(IF filter.event = "added" THEN "CreationTimestamp"
                               ELSE "ModificationTimestamp") : NotAfter(filter.since, t)
          [] OTHER -> \E d \in {x \in details : x.name = filter.name} : \E v \in Of(d) : Fits(v)

\* The properties by which the store says the subtype that the filter is for.
Derived(filter) ==
    IF filter.kind # "detail" \/ filter.name \notin DetailNames(Schema) THEN {}
    ELSE UNION {ToSet(f.subProps) :
                f \in {x \in FieldsOf(DetailNamed(Schema, filter.name)) : x.name = filter.field}}

\* A partial save deletes the URL of a contact, and leaves what says its subtype.
LeftBehind(c, filter) ==
    \E q \in store : /\ q.s \in {c} \cup Values(store, c, "hasAffiliation")
                     /\ \E s \in Derived(filter) : s.property.iri = q.p /\ s.value \in filter.value
                     /\ q.o \notin Values(store, q.s, "url")

-----------------------------------------------------------------------------
\* Properties

\* A filter finds the contacts in which a client sees what it looks for, and no
\* others: the conditions of the query builder and its projections, made apart
\* from each other from the schema, agree about all that is ever stored.  Not so
\* for values that stand for missing ones, and for the subtype of an URL that
\* a partial save took away.
FiltersAgree ==
    \A c \in Contact :
        Exists(store, c) =>
            LET view == View(store, c)
                known == {WithoutDefaults(d) : d \in view}
            IN  \A filter \in Filters :
                    \/ Matched(store, Schema, c, filter)
                           <=> Sees(IF Derived(filter) # {} THEN view ELSE known, filter)
                    \/ LeftBehind(c, filter)

\* What a client saves can be fetched, in each of its contexts, whatever was
\* stored before and whatever other contacts and programs have
\* (UpdateBuilder::collectInsertions() against the query builder).  The times,
\* the GUID and the sync target are left out: the engine has its own rules for them.
SavedIsRead ==
    [][Saves => LET view == View(store', last'.contact)
                IN  \A d \in Meant(last'.save) : \E r \in view : Covers(r, d)]_vars

\* What a client changed or dropped before it saved a detail is gone: no detail
\* of its own is left that the client did not mean, not even where its copy was
\* older than what is stored (UpdateBuilder's DELETE statements).  Again without
\* times, GUID and sync target.
NothingLeft ==
    [][Saves => LET meant == Meant(last'.save)
                IN  \A r \in View(store', last'.contact) :
                        \/ r.readOnly \/ r.name \in Bookkeeping \/ Unknown(last'.save, r.name)
                        \/ \E d \in meant : Covers(r, d) /\ Covers(d, WithoutDefaults(r))]_vars

\* A partial save leaves the other details of the contact as they are, and every
\* save those of other contacts, though contacts share the resources of phone
\* numbers, email addresses and tags.  Only of an online account that is saved do
\* all contacts have what the last save said.
OthersAreKept ==
    [][Saves =>
           LET save == last'.save
               accounts == {m.detail.uri : m \in {x \in ToSet(Mappings(save)) :
                               x.definition.name = "OnlineAccount"}}
               Other(c, r) ==
                   /\ \/ c # save.contact
                      \/ Unknown(save, BelongsTo(r)) /\ r.name \notin Bookkeeping
                   /\ r.uri \notin accounts
           IN  \A c \in Contact :
                   {Content(r) : r \in {x \in View(store, c) : Other(c, x)}}
                       \subseteq {Content(r) : r \in View(store', c)}]_vars

\* What other programs wrote is still stored after each save, unless the contact
\* takes the resource itself by the content of a detail.  The sync target may be
\* replaced in any graph; KeepsTarget says when.
ForeignIsKept ==
    [][Saves => \A q \in store :
           q.g # Own => \/ q \in store'
                        \/ q.p = "generator"
                        \/ q.o \in Values(store', q.s, q.p)]_vars

\* A contact has one creation time and one GUID after the save, and those that it
\* had stay what they are, unless the client gave others in a save of those details
\* (preserveTimestamp(), preserveGuid()).
KeepsTimeAndGuid ==
    LET c == last'.contact
        Free(name) == \/ last'.save.new
                      \/ /\ ~Unknown(last'.save, name)
                         /\ \E d \in ToSet(last'.save.details) : d.name = name
        Kept(p) == Values(store, c, p) # {} => Values(store', c, p) = Values(store, c, p)
    IN  /\ \A p \in {"contentCreated", "contactUID"} : Cardinality(Values(store', c, p)) = 1
        /\ ~Free("Timestamp") => Kept("contentCreated")
        /\ ~Free("Guid") => Kept("contactUID")

\* A contact has one sync target after the save.  It is the one that the client
\* gave, even with a mask that leaves it out.  If it gave none, or a weak one, then
\* a full save, which deletes the target with the other properties, makes it the
\* engine's, and a partial save keeps the one that was stored, unless that is weak:
\* a weak target, by which contactsd deletes the contact with its account, does not
\* outlast a save (isWeakSyncTarget(), contactsaverequest.cpp:1285-1291).
KeepsTarget ==
    LET save == last'.save
        Weak == {Literal(t) : t \in WeakTargets}
        gave == {Literal(t) : t \in UNION {ValueOf(d, "SyncTarget") : d \in
                    {x \in ToSet(save.details) : x.name = "SyncTarget"}}} \ Weak
        had == Values(store, save.contact, "generator")
        has == Values(store', save.contact, "generator")
    IN  /\ Cardinality(has) = 1
        /\ has \cap Weak \subseteq {Literal(EngineTarget)}
        /\ gave # {} => has \subseteq gave
        /\ gave = {} /\ save.mask = {} => has = {Literal(EngineTarget)}
        /\ gave = {} /\ save.mask # {} => had \ Weak \subseteq has

\* What identifies a contact to other programs outlasts each save as it should:
\* its creation time and GUID, and its sync target, which a save may replace, but
\* only by these rules.
IdentityIsKept == [][Saves => KeepsTimeAndGuid /\ KeepsTarget]_vars

=============================================================================
