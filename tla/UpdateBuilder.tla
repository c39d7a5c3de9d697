----------------------------- MODULE UpdateBuilder -----------------------------
(* The update by which a contact is saved, as a function from the store to    *)
(* the store (class UpdateBuilder in engine/contactsaverequest.cpp).  It is   *)
(* one transaction of DELETE and INSERT statements: what the contact had is   *)
(* deleted, resources that contacts share are created where they are missing, *)
(* and the details that the client gives are inserted.                        *)
(*                                                                            *)
(* A detail is a record of its name, the values of its fields, its contexts,  *)
(* its URI, the URIs it links to, and whether it is read-only.                *)
EXTENDS TrackerStore, DetailSchema

CONSTANTS
    LocalNumber(_),  \* qctMakeLocalPhoneNumber(): the last digits of a number
    SameText(_, _),  \* whether two texts differ in nothing but case
    EngineTarget,    \* the sync target of the engine
    WeakTargets      \* the sync targets that the engine may take over

SystemTypes == {"type", "belongsToGroup"}

Own3(s, p, o) == Quad(s, p, o, Own)

ValueOf(detail, field) == IF field \in DOMAIN detail.fields THEN detail.fields[field] ELSE {}

Pick(S) == CHOOSE x \in S : TRUE

\* What is stored for a value: the account is a resource, an allowed instance too.
RdfValue(field, value) ==
    IF Has(field, "inverse") THEN <<"telepathy", value>>
    ELSE IF field.instances # {} THEN <<"instance", value>>
    ELSE Literal(value)

\* Resources with the value for the property, for tags whatever its case.
KeyHolders(db, p, value) ==
    {q.s : q \in {x \in db : x.p = p.iri
                             /\ (\/ x.o = value
                                 \/ Is(p, "anyCase") /\ SameText(x.o[1], value[1]))}}

\* ?s p1/p2/... ?o
Follow(db, subjects, iris) ==
    FoldLeft(LAMBDA from, iri : UNION {Values(db, s, iri) : s \in from}, subjects, iris)

InGraph(db, g) == {q \in db : q.g = g}

-----------------------------------------------------------------------------
\* The details to save.  A save is a record of the contact, its schema, the
\* details that the client gives, the mask, and what is made up for this save.

\* isUnknownDetail()
Unknown(save, name) == save.mask # {} /\ name \notin save.mask

\* compatibleContact(): of a unique detail, only the first one is saved.
Compatible(save) ==
    LET Odd(i) == /\ save.details[i].name \in {d.name : d \in {x \in save.schema : x.unique}}
                  /\ \E j \in 1 .. i - 1 : save.details[j].name = save.details[i].name
        kept == SelectSeq([i \in DOMAIN save.details |-> i], LAMBDA i : ~Odd(i))
    IN  [n \in DOMAIN kept |-> save.details[kept[n]]]

\* findImplementation(): an avatar that is linked with an online account is
\* the account's, any other the contact's own.
Implementation(save, detail) ==
    IF detail.name # "Avatar" THEN detail.name
    ELSE IF \E other \in ToSet(save.details) :
                other.uri \in detail.links \ {NoUri} /\ other.name = "OnlineAccount"
    THEN "OnlineAvatar" ELSE "PersonalAvatar"

\* makeResourceIri(): the IRI made of the detail's content, if there is one.
\* The one of a phone number depends on its subtypes, too.
MakeResourceIri(definition, detail) ==
    CASE ResourceIriScheme(definition) = "phone" /\ ValueOf(detail, "PhoneNumber") # {} ->
             <<"phone", Pick(ValueOf(detail, "PhoneNumber")), ValueOf(detail, "SubTypes")>>
      [] ResourceIriScheme(definition) = "mailto" /\ ValueOf(detail, "EmailAddress") # {} ->
             <<"mailto", Pick(ValueOf(detail, "EmailAddress"))>>
      [] /\ ResourceIriScheme(definition) = "telepathy" /\ definition.name = "OnlineAccount"
         /\ ValueOf(detail, "AccountPath") # {} /\ ValueOf(detail, "AccountUri") # {} ->
             <<"telepathy", Pick(ValueOf(detail, "AccountPath")),
                            Pick(ValueOf(detail, "AccountUri"))>>
      [] OTHER -> NoUri

Custom0 == Detail("custom", << >>)
IsCustom(m) == m.definition = Custom0

\* Read-only details are left alone, synthesized ones are not stored.
Saveable(save, detail) ==
    /\ ~Unknown(save, detail.name)
    /\ ~detail.readOnly
    /\ detail.name \notin DetailNames(save.schema) => detail.name \notin SyntheticDetails

\* The details to save with their definitions; updateDetailUri() gives them
\* the URI of their new content.
Mappings(save) ==
    LET Mapping(detail) ==
            LET name == Implementation(save, detail)
                definition == IF name \in DetailNames(save.schema)
                              THEN DetailNamed(save.schema, name) ELSE Custom0
                iri == MakeResourceIri(definition, detail)
            IN  [definition |-> definition,
                 detail |-> IF iri = NoUri THEN detail ELSE [detail EXCEPT !.uri = iri]]
        saved == SelectSeq(Compatible(save), LAMBDA detail : Saveable(save, detail))
    IN  [i \in DOMAIN saved |-> Mapping(saved[i])]

\* The client gives a creation time or a GUID.
Given(save, detail, field) ==
    UNION {ValueOf(d, field) : d \in {x \in ToSet(save.details) : x.name = detail}}

\* Mutant of Preserves: what the store has is replaced when the client gives nothing.
PreservesGiven(save, detail, field) == ~save.new /\ Unknown(save, detail)

\* preserveGuid(), preserveTimestamp(): the store keeps the one it has.
Preserves(save, detail, field) ==
    IF Given(save, detail, field) = {} THEN ~save.new ELSE Unknown(save, detail)

GivenOr(save, detail, field, default) ==
    IF Given(save, detail, field) = {} THEN default ELSE Pick(Given(save, detail, field))

\* m_syncTarget, and whether it replaces any target.
Target(save) ==
    LET given == Given(save, "SyncTarget", "SyncTarget") \ (WeakTargets \cup {""})
    IN  [value |-> IF given = {} THEN EngineTarget ELSE Pick(given), strong |-> given # {}]

-----------------------------------------------------------------------------
\* deleteRelatedObjects()

\* collectRelatedObjects(): the details whose resources are found by the
\* properties that lead to them, and those whose resources have an IRI that
\* their content says.  Those that are found by a foreign key have nothing to
\* delete in these schemas: neither subtypes nor values of their own.
RelatedBy(definition) ==
    IF ~HasDetailUri(definition) THEN "chain"
    ELSE IF Is(Head(ResourceIriField(definition).chain), "readOnly") THEN "none"
    ELSE IF Has(ResourceIriField(definition), "foreignKey") THEN "key"
    ELSE IF IsContentScheme(ResourceIriScheme(definition)) THEN "content"
    ELSE "chain"

\* Mutant of Replaced: the mask is not looked at.
ReplacedAnyway(save) == save.schema

\* Details of the schema that the save replaces.
Replaced(save) == {d \in save.schema : ~Unknown(save, d.name)}

\* Mutant of Erasable: what other programs wrote is deleted, too.
AnyGraph(db) == db

\* What the engine deletes is in its own graph.
Erasable(db) == InGraph(db, Own)

\* By their chain, in the engine's graph: the last property of each chain, on
\* the resources it is followed to, by affiliation for details with context.
ImplicitlyRelated(db, save) ==
    LET own == Erasable(db)
        Deleted(definition, chain) ==
            {q \in own : /\ q.p = Last(chain)
                         /\ \/ /\ definition.context
                               /\ q.s \in Follow(own, {save.contact},
                                                 <<"hasAffiliation">> \o Front(chain))
                            \/ /\ Len(chain) > 1
                               /\ q.s \in Follow(own, {save.contact}, Front(chain))}
    IN  IF save.new THEN {}
        ELSE UNION {UNION {Deleted(d, chain) : chain \in PossessedChains(d)} :
                    d \in {x \in Replaced(save) : RelatedBy(x) = "chain"}}

\* RelatedObjectInfoData: the properties that make the content of the resource.
ContentProperties(definition) ==
    LET Property(f) == {Last(f.chain).iri} \cup f.computed
    IN  {"hasProperty" : f \in {x \in FieldsOf(definition) : x.custom}}
        \cup UNION {Property(f) : f \in {x \in FieldsOf(definition) :
                 ~HasSubTypes(x) /\ x.mapped /\ ~Has(x, "readOnly") /\ ~Has(x, "inverse")}}

SubTypeClasses(definition) == UNION {f.classes : f \in FieldsOf(definition)}

\* By their content: in whatever graph, and even for a new contact.
ExplicitlyRelated(db, maps) ==
    UNION {LET iri == MakeResourceIri(m.definition, m.detail)
           IN  {q \in db : /\ iri # NoUri /\ q.s = iri
                           /\ \/ q.p \in ContentProperties(m.definition)
                              \/ /\ q.p = "type"
                                 /\ q.o[1] \in SubTypeClasses(m.definition)} :
           m \in {x \in ToSet(maps) : RelatedBy(x.definition) = "content"}}

-----------------------------------------------------------------------------
\* deleteContactProperties()

\* deleteAllContactProperties()
AllProperties(db, save) ==
    {q \in Erasable(db) :
        /\ q.s = save.contact
        /\ q.p \notin SystemTypes
        /\ q.p = "contactUID" => ~Preserves(save, "Guid", "Guid")
        /\ q.p = "contentCreated" => ~Preserves(save, "Timestamp", "CreationTimestamp")}

\* The fields of the details in the mask that are stored by properties.
MaskedFields(save) ==
    UNION {UNION {{<<d, f>> : f \in {x \in FieldsOf(d) :
                       ~Has(x, "readOnly") /\ ~x.synthesized /\ ~HasSubTypes(x)}} :
                  d \in Implementations(save.schema, DetailNamed(save.schema, name))} :
           name \in save.mask \cap DetailNames(save.schema)}

OnAffiliation(f) == Head(f.chain).iri = "hasAffiliation"

MaskedOnContact(save) ==
    {"contentLastModified"}
    \cup {"contactUID" : x \in {y \in {1} : ~Preserves(save, "Guid", "Guid")}}
    \cup {Head(x[2].chain).iri : x \in {y \in MaskedFields(save) :
                                            ~OnAffiliation(y[2]) /\ ~y[1].context}}

\* Mutant of MaskedOnAffiliation: the properties of an organization's affiliation stay.
MaskedInContext(save) ==
    {Head(x[2].chain).iri : x \in {y \in MaskedFields(save) :
                                       ~OnAffiliation(y[2]) /\ y[1].context}}

\* Properties on the affiliations of the contact, by which contexts are stored.
MaskedOnAffiliation(save) ==
    {IF OnAffiliation(x[2]) THEN x[2].chain[2].iri ELSE Head(x[2].chain).iri :
        x \in {y \in MaskedFields(save) : OnAffiliation(y[2]) \/ y[1].context}}

MaskedCustomDetails(save) ==
    save.mask \ (DetailNames(save.schema) \cup SyntheticDetails)

\* deleteMaskedContactProperties()
MaskedProperties(db, save) ==
    LET own == Erasable(db)
    IN  {q \in own :
            \/ q.s = save.contact /\ q.p \in MaskedOnContact(save)
            \/ /\ q.s = save.contact /\ q.p = "hasProperty"
               /\ \E name \in MaskedCustomDetails(save) :
                      Literal(name) \in Values(own, q.o, "propertyName")
            \/ /\ q.s \in Values(own, save.contact, "hasAffiliation")
               /\ q.p \in MaskedOnAffiliation(save)}

ContactProperties(db, save) ==
    IF save.new THEN {}
    ELSE IF save.mask = {} THEN AllProperties(db, save)
    ELSE MaskedProperties(db, save)

-----------------------------------------------------------------------------
\* insertForeignKeyObjects()

\* The foreign keys of the details to save, by mapping and field.
ForeignKeys(maps) ==
    UNION {{[at |-> <<i, k>>, property |-> Last(maps[i].definition.fields[k].chain),
             name |-> maps[i].definition.fields[k].name, scheme |-> Scheme(Head(maps[i].definition.fields[k].chain)),
             key |-> Literal(Pick(ValueOf(maps[i].detail, maps[i].definition.fields[k].name)))] :
                k \in {x \in DOMAIN maps[i].definition.fields :
                           /\ Has(maps[i].definition.fields[x], "foreignKey")
                           /\ ValueOf(maps[i].detail, maps[i].definition.fields[x].name) # {}}} :
           i \in DOMAIN maps}

SameKey(x, y) ==
    /\ x.property = y.property
    /\ x.key = y.key \/ (Is(x.property, "anyCase") /\ SameText(x.key[1], y.key[1]))

Earlier(x, y) == x.at[1] < y.at[1] \/ (x.at[1] = y.at[1] /\ x.at[2] < y.at[2])

\* The resource that is made for a key.
Keyed(save, maps, x) ==
    LET uri == maps[x.at[1]].detail.uri
    IN  Own3(IF uri # NoUri /\ IsContentScheme(x.scheme) THEN uri
             ELSE <<"keyed", save.serial, x.at[1], x.name>>,
             x.property.iri, x.key)

\* One after the other, a resource for each key that no resource has.
WithKeys(db, save, maps) ==
    db \cup {Keyed(save, maps, x) : x \in {y \in ForeignKeys(maps) :
                 /\ KeyHolders(db, y.property, y.key) = {}
                 /\ \A z \in ForeignKeys(maps) : ~(SameKey(z, y) /\ Earlier(z, y))}}

-----------------------------------------------------------------------------
\* collectInsertions()

Affiliation(save, context) == <<"affiliation", save.serial, context>>

\* The fields that insertDetailField() inserts.
InsertedFields(m) ==
    SelectSeq(m.definition.fields, LAMBDA f :
        /\ ~HasSubTypes(f) /\ ~f.synthesized
        /\ MakeValue(f, ValueOf(m.detail, f.name)) # {}
        /\ ~Is(Head(f.chain), "readOnly"))

\* endOfPropertyChain(): how many properties of the chain lead to resources.
EndOfChain(f) == IF ~f.mapped \/ ~HasLiteralValue(f) THEN Len(f.chain) ELSE Len(f.chain) - 1

\* The resources at the end of the first n properties of the chain, for the
\* field that inserts them.  The detail's URI names the resource that has the
\* content (makeSubjectIri()); the ones with the key stand for a foreign key.
ObjectsFor(db, save, i, m, f, n) ==
    LET value == RdfValue(f, Pick(ValueOf(m.detail, f.name)))
    IN  IF f.mapped /\ n = Len(f.chain) THEN {value}
        ELSE IF f.mapped /\ n + 1 = Len(f.chain) /\ Is(Last(f.chain), "foreignKey")
        THEN KeyHolders(db, Last(f.chain), value)
        ELSE IF /\ n + 1 = Len(f.chain) /\ m.detail.uri # NoUri
                /\ IsContentScheme(Scheme(f.chain[n]))
                /\ Scheme(f.chain[n]) = DetailUriScheme(m.definition)
        THEN {m.detail.uri}
        ELSE {<<"blank", save.serial, i, Iris(SubSeq(f.chain, 1, n))>>}

\* objectCache: fields of a detail whose chains start alike share resources,
\* in all contexts.
Objects(db, save, i, m, f, n) ==
    LET prefix == Iris(SubSeq(f.chain, 1, n))
        fields == InsertedFields(m)
        first == SelectInSeq(fields, LAMBDA x : n <= EndOfChain(x)
                                                /\ IsPrefix(prefix, Iris(x.chain)))
    IN  ObjectsFor(db, save, i, m, fields[first], n)

Statement(p, s, o) == IF Is(p, "inverse") THEN Own3(o, p.iri, s) ELSE Own3(s, p.iri, o)

\* insertCustomValues(): a nao:Property for each value that the field has no
\* resource or class for.
CustomValues(save, i, subject, name, values) ==
    UNION {LET property == <<"property", save.serial, i, name, v>>
           IN  {Own3(subject, "hasProperty", property),
                Own3(property, "propertyName", Literal(name)),
                Own3(property, "propertyValue", Literal(v))} : v \in values \ {""}}

\* findSubTypePredicate()
SubTypePredicate(m, f) ==
    LET property == {s.property : s \in {x \in UNION {ToSet(t.subProps) : t \in
                        SubTypeFields(m.definition)} : x.value \in ValueOf(m.detail, "SubType")}}
    IN  IF property = {} THEN Last(f.chain) ELSE Pick(property)

\* insertDetailField()
DetailField(db, save, i, m, f, subject) ==
    LET end == EndOfChain(f)
        At(n) == IF n = 0 THEN {subject} ELSE Objects(db, save, i, m, f, n)
        values == MakeValue(f, ValueOf(m.detail, f.name))
        value == RdfValue(f, Pick(values))
    IN  UNION {{Statement(f.chain[n], so[1], so[2]) : so \in At(n - 1) \X At(n)} : n \in 1 .. end}
        \cup {Statement(SubTypePredicate(m, f), s, value) :
                  s \in {x \in At(end) : f.mapped /\ HasLiteralValue(f)
                                         /\ ~Is(Last(f.chain), "foreignKey")}}
        \cup UNION {
            UNION {CustomValues(save, i, s, t.name, ValueOf(m.detail, t.name)
                                                     \ AllowableValues(t)) :
                   t \in {x \in SubTypeFields(m.definition) : x.custom}}
            \cup (IF f.custom
                  THEN CustomValues(save, i, s, f.name, values \ AllowableValues(f)) ELSE {})
            \cup {Own3(s, p, Literal(LocalNumber(value[1]))) : p \in f.computed} : s \in At(end)}

\* collectResourceTypes(): the classes of the subtypes.
SubTypeStatements(db, save, i, m, f) ==
    LET leads == {t \in SubTypeFields(m.definition) :
                     EndOfChain(f) > 0 /\ Iris(t.chain) = <<Head(f.chain).iri>>}
    IN  UNION {{Own3(o, "type", Literal(v)) : o \in Objects(db, save, i, m, f, 1),
                                              v \in ValueOf(m.detail, t.name) \cap t.classes} :
               t \in leads}

\* insertCustomDetail()
CustomDetail(save, i, m) ==
    LET property == <<"detail", save.serial, i>>
    IN  {Own3(save.contact, "hasProperty", property),
         Own3(property, "propertyName", Literal(m.detail.name))}
        \cup UNION {CustomValues(save, i, property, name, m.detail.fields[name]) :
                    name \in DOMAIN m.detail.fields}

\* A detail without contexts is on the contact's affiliation without a label.
Contexts(m) == IF m.detail.contexts = {} THEN {""} ELSE m.detail.contexts

\* Mutant of InContext: the detail is on the contact itself.
OnContact(db, save, i, m, f) == DetailField(db, save, i, m, f, save.contact)

InContext(db, save, i, m, f) ==
    IF ~m.definition.context THEN DetailField(db, save, i, m, f, save.contact)
    ELSE UNION {LET affiliation == Affiliation(save, context)
                IN  {Own3(save.contact, "hasAffiliation", affiliation)}
                    \cup {Own3(affiliation, "label", Literal(x)) : x \in {context} \ {""}}
                    \cup DetailField(db, save, i, m, f, affiliation) : context \in Contexts(m)}

\* m_explicitInsertStatements
ExplicitStatements(db, save, maps) ==
    UNION {IF IsCustom(maps[i]) THEN CustomDetail(save, i, maps[i])
           ELSE UNION {InContext(db, save, i, maps[i], f)
                       \cup SubTypeStatements(db, save, i, maps[i], f) :
                       f \in ToSet(InsertedFields(maps[i]))} :
           i \in DOMAIN maps}

\* Statements about the save, with the values that replace none.
AboutSave(save) ==
    LET Time(value) == Literal(value)
        created == Own3(save.contact, "contentCreated",
                        Time(GivenOr(save, "Timestamp", "CreationTimestamp", save.now)))
        modified == IF save.new
                    THEN GivenOr(save, "Timestamp", "ModificationTimestamp", save.now)
                    ELSE save.now
        uid == Own3(save.contact, "contactUID",
                    Literal(GivenOr(save, "Guid", "Guid", save.guid)))
        preserved == {s \in {created, uid} :
                        \/ s = created /\ Preserves(save, "Timestamp", "CreationTimestamp")
                        \/ s = uid /\ Preserves(save, "Guid", "Guid")}
    IN  [preserved |-> preserved,
         enforced |-> ({created, uid} \ preserved)
                      \cup {Own3(save.contact, "contentLastModified", Time(modified))}
                      \cup {Own3(save.contact, "type", Literal("contact"))}
                      \cup {Own3(save.contact, "generator", Literal(Target(save).value)) :
                                x \in {y \in {1} : save.new}}]

\* An ontology says that a website is an URL: with a statement by such a
\* property, Tracker has the one that follows from it.
Inferred(new) ==
    new \cup {Quad(q.s, "url", q.o, q.g) : q \in {x \in new : x.p \in {"websiteUrl", "blogUrl"}}}

\* Mutant of WithTarget: the target that is stored is not looked at.
WithTargetAnyway(db, save) ==
    IF save.new THEN db
    ELSE {q \in db : ~(q.s = save.contact /\ q.p = "generator")}
         \cup {Own3(save.contact, "generator", Literal(Target(save).value))}

\* A weak sync target of an existing contact is replaced.
WithTarget(db, save) ==
    LET had == Values(db, save.contact, "generator")
        weak == had = {} \/ had \subseteq {Literal(t) : t \in WeakTargets \cup {""}}
    IN  IF ~save.new /\ (Target(save).strong \/ weak)
        THEN {q \in db : ~(q.s = save.contact /\ q.p = "generator")}
             \cup {Own3(save.contact, "generator", Literal(Target(save).value))}
        ELSE db

\* The DELETE statements, in their order.
Cleared(db, save, maps) ==
    LET Less(from, Gone(_)) == from \ Gone(from)
    IN  Less(Less(Less(db, LAMBDA d : ImplicitlyRelated(d, save)),
                  LAMBDA d : ExplicitlyRelated(d, maps)),
             LAMBDA d : ContactProperties(d, save))

\* The statements that are inserted, then those that are where there are none.
Inserted(db, save, maps, about) ==
    LET Preserving(after) ==
            Insert(after, {s \in about.preserved : Values(InGraph(after, Own), s.s, s.p) = {}})
    IN  Preserving(Insert(db, Inferred(ExplicitStatements(db, save, maps) \cup about.enforced)))

\* queryString(): the statements in their order.
UpdatedBy(db, save, maps) ==
    WithTarget(Inserted(WithKeys(Cleared(db, save, maps), save, maps), save, maps, AboutSave(save)),
               save)
Updated(db, save) == UpdatedBy(db, save, Mappings(save))

=============================================================================
