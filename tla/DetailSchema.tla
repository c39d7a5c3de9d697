----------------------------- MODULE DetailSchema -----------------------------
(* How the details of contacts are stored in Tracker, as the engine declares  *)
(* it (dao/contactdetailschema.cpp), and what the queries and updates ask of  *)
(* these declarations (contactdetail.cpp, contactdetailfield.cpp,             *)
(* resourceinfo.cpp).  A field is found by following a chain of properties,   *)
(* from the contact or from one of its affiliations.                          *)
EXTENDS Integers, FiniteSetsExt, SequencesExt

\* Nodes of the store are tuples: a literal has one element, the IRI of a
\* resource more.  Graphs are resources, the one of the engine among them.
Literal(value) == <<value>>
Own == <<"graph", "qct">>
NoGraph == <<"graph", "default">>
NoUri == <<"uri", "none">>

\* PropertyInfo<...>() with what is set on it.
P(iri, flags) == [iri |-> iri, flags |-> flags]
Is(p, flag) == flag \in p.flags
Iris(chain) == [i \in DOMAIN chain |-> chain[i].iri]

\* QTrackerContactDetailField: a field of type String and its chain.  Subtypes
\* are classes of the resource at the end of the chain, named by the value, or
\* properties that take the place of the last one.
Field(name, chain) ==
    [name |-> name, chain |-> chain, type |-> "String", default |-> {},
     classes |-> {}, subProps |-> << >>, instances |-> {}, allowed |-> {}, computed |-> {},
     custom |-> FALSE, mapped |-> TRUE, synthesized |-> FALSE]

Typed(field, type) == [field EXCEPT !.type = type]
Instances(field, values) == [field EXCEPT !.instances = values]
Allowing(field, values) == [field EXCEPT !.allowed = values]
Computing(field, property) == [field EXCEPT !.computed = {property}]
Default(field, value) == [field EXCEPT !.default = {value}]
SubTypes(field, classes) == [field EXCEPT !.classes = classes, !.type = "StringList"]
SubProps(field, properties) == [field EXCEPT !.subProps = properties]
Custom(field) == [field EXCEPT !.custom = TRUE]
Unmapped(field) == [field EXCEPT !.mapped = FALSE, !.custom = TRUE]
Synthesized(field) == [field EXCEPT !.synthesized = TRUE]

\* QTrackerContactDetail, and one with attributes that are not the default.
Detail(name, fields) ==
    [name |-> name, fields |-> fields, context |-> TRUE, unique |-> FALSE, internal |-> FALSE,
     scheme |-> "own", dependencies |-> {}]
Unique(detail) == [detail EXCEPT !.unique = TRUE, !.context = FALSE]
WithoutContext(detail) == [detail EXCEPT !.context = FALSE]
Internal(detail) == [detail EXCEPT !.internal = TRUE]

-----------------------------------------------------------------------------
\* The details of every contact

OnAddress(name, property) ==
    Field(name, <<P("hasPostalAddress", {}), P(property, {})>>)

Address == Detail("Address", <<
    Field("Country", <<P("hasPostalAddress", {"detailUri"}), P("country", {})>>),
    OnAddress("ExtendedAddress", "extendedAddress"), OnAddress("Locality", "locality"),
    OnAddress("PostOfficeBox", "pobox"), OnAddress("Postcode", "postalcode"),
    OnAddress("Region", "region"), OnAddress("Street", "streetAddress"),
    Custom(SubTypes(Field("SubTypes", <<P("hasPostalAddress", {})>>),
                    {"Domestic", "International", "Parcel", "Postal"}))>>)

Anniversary ==
    LET Event(rest) == <<P("anniversary", {})>> \o rest
    IN  WithoutContext(Detail("Anniversary", <<
            Field("CalendarId", Event(<<P("uid", {})>>)),
            Typed(Field("OriginalDate", Event(<<P("dtstart", {}), P("dateTime", {})>>)),
                  "DateTime"),
            Field("Event", Event(<<P("description", {})>>)),
            Allowing(Field("SubType", Event(<<P("categories", {})>>)),
                     {"Wedding", "Engagement", "House", "Employment", "Memorial"})>>))

\* A file that the contact has, found by its URL.
FileField(name, path, property) ==
    Typed(Field(name, path \o <<P(property, {"owner"}), P("fileUrl", {"foreignKey"})>>), "Url")

Avatar == WithoutContext(
    [Detail("Avatar", <<Synthesized(Typed(Field("ImageUrl", << >>), "Url")),
                        Synthesized(Typed(Field("VideoUrl", << >>), "Url"))>>)
        EXCEPT !.dependencies = {"PersonalAvatar", "OnlineAvatar", "SocialAvatar"}])

PersonalAvatar == Internal(Unique(Detail("PersonalAvatar", <<
    FileField("ImageUrl", << >>, "photo"), FileField("VideoUrl", << >>, "video")>>)))

ReadOnlyAddress == P("hasIMAddress", {"readOnly"})

OnlineAvatar == Internal(Detail("OnlineAvatar", <<
    FileField("ImageUrl", <<ReadOnlyAddress>>, "imAvatar"),
    Field("SubType", <<ReadOnlyAddress, P("imAvatar", {}), P("label", {})>>),
    Typed(Field("LinkedDetailUris", <<ReadOnlyAddress>>), "StringList")>>))

SocialAvatar == Internal(Detail("SocialAvatar", <<
    FileField("ImageUrl", <<ReadOnlyAddress, P("imAvatar", {})>>, "relatedTo"),
    Field("SubType", <<ReadOnlyAddress, P("imAvatar", {}), P("relatedTo", {}), P("label", {})>>),
    Typed(Field("LinkedDetailUris", <<ReadOnlyAddress>>), "StringList")>>))

Birthday == Unique(Detail("Birthday", <<
    Typed(Field("Birthday", <<P("birthDate", {})>>), "DateTime"),
    Field("CalendarId", <<P("birthday", {}), P("uid", {})>>)>>))

EmailAddress == Detail("EmailAddress", <<
    Field("EmailAddress", <<P("hasEmailAddress", {"detailUri", "owner"}),
                            P("emailAddress", {"foreignKey"})>>)>>)

GeoLocation ==
    LET Location(name, property, type) ==
            Typed(Field(name, <<P("hasLocation", {}), P(property, {})>>), type)
    IN  Unique(Detail("GeoLocation", <<
            Location("Label", "title", "String"), Location("Latitude", "latitude", "Double"),
            Location("Longitude", "longitude", "Double"),
            Location("Altitude", "altitude", "Double"),
            Location("Timestamp", "timestamp", "DateTime")>>))

PresenceStates == {"Unknown", "Available", "Hidden", "Busy", "Away", "ExtendedAway", "Offline"}

GlobalPresence == Unique(
    [Detail("GlobalPresence", <<
        Synthesized(Field("Nickname", << >>)), Synthesized(Field("CustomMessage", << >>)),
        Synthesized(Typed(Field("Timestamp", << >>), "DateTime")),
        Synthesized(Typed(Default(Allowing(Field("PresenceState", << >>), PresenceStates),
                                  "Unknown"), "Int"))>>)
        EXCEPT !.dependencies = {"Presence"}])

Guid == Unique(Detail("Guid", <<Field("Guid", <<P("contactUID", {"readOnly"})>>)>>))

Note == WithoutContext(Detail("Note", <<Field("Note", <<P("note", {})>>)>>))

Capabilities == {"TextChat", "MediaCalls", "AudioCalls", "VideoCalls", "UpgradingCalls",
                 "FileTransfers", "StreamTubes", "DBusTubes"}

OnlineAccount == Detail("OnlineAccount", <<
    Field("AccountPath", <<P("hasIMAddress", {"detailUri"}), P("hasIMContact", {"inverse"})>>),
    Field("AccountUri", <<P("hasIMAddress", {"detailUri"}), P("imID", {"owner"})>>),
    Field("ServiceProvider", <<P("hasIMAddress", {"readOnly", "owner"}),
                               P("hasIMContact", {"inverse"}), P("imDisplayName", {})>>),
    Field("Protocol", <<P("hasIMAddress", {}), P("imProtocol", {})>>),
    Custom(Typed(Instances(Field("Capabilities", <<ReadOnlyAddress, P("imCapability", {})>>),
                           Capabilities), "StringList")),
    Unmapped(Typed(Field("SubTypes", <<P("hasIMAddress", {})>>), "StringList"))>>)

PhoneNumber == Detail("PhoneNumber", <<
    Computing(Field("PhoneNumber", <<P("hasPhoneNumber", {"detailUri", "owner"}),
                                     P("phoneNumber", {})>>), "localPhoneNumber"),
    Custom(Default(SubTypes(Field("SubTypes", <<P("hasPhoneNumber", {"detailUri"})>>),
                            {"BulletinBoardSystem", "Car", "Fax", "MessagingCapable", "Mobile",
                             "Modem", "Pager", "Video", "Voice"}), "Voice"))>>)

Presence ==
    LET Status(name, property) == Field(name, <<ReadOnlyAddress, P(property, {})>>)
        Authorized == {"No", "Requested", "Yes"}
    IN  [Detail("Presence", <<
            Status("Nickname", "imNickname"), Status("CustomMessage", "imStatusMessage"),
            Typed(Status("Timestamp", "presenceLastModified"), "DateTime"),
            Typed(Default(Instances(
                Field("PresenceState", <<P("hasIMAddress", {"readOnly", "detailUri"}),
                                         P("imPresence", {})>>), PresenceStates),
                "Unknown"), "Int"),
            Instances(Status("AuthStatusFrom", "imAddressAuthStatusFrom"), Authorized),
            Instances(Status("AuthStatusTo", "imAddressAuthStatusTo"), Authorized)>>)
        EXCEPT !.scheme = "presence"]

Relevance == Unique(Detail("Relevance", <<
    Typed(Field("Relevance", <<P("relevance", {"readOnly"})>>), "Double")>>))

Tag == WithoutContext(Detail("Tag", <<
    Field("Tag", <<P("hasTag", {"owner"}), P("prefLabel", {"anyCase", "foreignKey"})>>)>>))

Timestamp ==
    LET Time(name, property) == Typed(Field(name, <<property>>), "DateTime")
    IN  Unique(Detail("Timestamp", <<
            Time("CreationTimestamp", P("contentCreated", {"readOnly"})),
            Time("ModificationTimestamp", P("contentLastModified", {"readOnly"})),
            Time("AccessedTimestamp", P("contentAccessed", {}))>>))

SyncTarget == Unique(Detail("SyncTarget", <<
    Synthesized(Field("SyncTarget", <<P("generator", {})>>))>>))

Url == Detail("Url", <<
    Field("Url", <<P("url", {})>>),
    SubProps(Default(Field("SubType", <<P("url", {})>>), "Favourite"),
             <<[property |-> P("websiteUrl", {}), value |-> "HomePage"],
               [property |-> P("blogUrl", {}), value |-> "Blog"]>>)>>)

-----------------------------------------------------------------------------
\* The details of persons and those of groups

Gender == Unique(Detail("Gender", <<
    Default(Instances(Field("Gender", <<P("gender", {})>>), {"Female", "Male", "Unspecified"}),
            "Unspecified")>>))

Hobby == Unique(Detail("Hobby", <<Field("Hobby", <<P("hobby", {})>>)>>))

Name == Unique(Detail("Name", <<
    Field("Prefix", <<P("nameHonorificPrefix", {})>>), Field("FirstName", <<P("nameGiven", {})>>),
    Field("MiddleName", <<P("nameAdditional", {})>>), Field("LastName", <<P("nameFamily", {})>>),
    Field("Suffix", <<P("nameHonorificSuffix", {})>>),
    Field("CustomLabel", <<P("fullname", {})>>)>>))

Nickname == Unique(Detail("Nickname", <<Field("Nickname", <<P("nickname", {})>>)>>))

Organization ==
    LET OnAffiliation == <<P("hasAffiliation", {})>>
        OnOrg == OnAffiliation \o <<P("org", {})>>
    IN  WithoutContext(Detail("Organization", <<
            Field("Department", <<P("hasAffiliation", {"detailUri"}), P("department", {})>>),
            Field("Title", OnAffiliation \o <<P("title", {})>>),
            Field("Role", OnAffiliation \o <<P("role", {})>>),
            Field("Location", OnOrg \o <<P("hasPostalAddress", {}), P("locality", {})>>),
            FileField("LogoUrl", OnOrg, "logo"),
            Field("Name", OnOrg \o <<P("fullname", {})>>),
            Unmapped(Field("AssistantName", OnOrg))>>))

Ringtone == Unique(Detail("Ringtone", <<
    FileField("AudioRingtoneUrl", << >>, "contactAudioRingtone"),
    FileField("VideoRingtoneUrl", << >>, "contactVideoRingtone"),
    FileField("VibrationRingtoneUrl", << >>, "contactVibrationRingtone")>>))

GroupNickname == Unique(Detail("Nickname", <<Field("Nickname", <<P("contactGroupName", {})>>)>>))

GroupRingtone == Unique(Detail("Ringtone", <<
    FileField("AudioRingtoneUrl", << >>, "contactGroupAudioRingtone"),
    FileField("VideoRingtoneUrl", << >>, "contactGroupVideoRingtone"),
    FileField("VibrationRingtoneUrl", << >>, "contactGroupVibrationRingtone")>>))

-----------------------------------------------------------------------------
\* The schemas

CommonDetails ==
    {Avatar, Address, Anniversary, Birthday, EmailAddress, GeoLocation, GlobalPresence, Guid,
     Note, OnlineAccount, PhoneNumber, Presence, Relevance, Tag, Timestamp, SyncTarget, Url,
     PersonalAvatar, OnlineAvatar, SocialAvatar}

\* define(): only persons have affiliations, by which contexts are stored.
PersonSchema ==
    CommonDetails \cup {Gender, Hobby, Name, Nickname, Organization, Ringtone}
GroupSchema ==
    {WithoutContext(d) : d \in CommonDetails} \cup {GroupNickname, GroupRingtone}

SyntheticDetails == {"Avatar", "DisplayLabel", "GlobalPresence", "Thumbnail", "Type"}

DetailNames(schema) == {d.name : d \in schema}
DetailNamed(schema, name) == CHOOSE d \in schema : d.name = name

\* requiredResourceIris()
RequiredResources(schema) ==
    UNION {UNION {f.classes \cup f.instances : f \in ToSet(d.fields)} : d \in schema}

-----------------------------------------------------------------------------
\* Of a field

Has(field, flag) == \E p \in ToSet(field.chain) : Is(p, flag)
HasSubTypes(field) == field.classes # {} \/ field.subProps # << >>
RestrictsValues(field) == field.instances \cup field.allowed # {}
HasLiteralValue(field) == field.type # "Url"

\* The first property of the chain that has the flag, 0 if there is none.
IndexOf(field, flag) == SelectInSeq(field.chain, LAMBDA p : Is(p, flag))

\* The property whose graph says who owns the value: by default, the last one.
OwnershipProperty(field) ==
    IF Has(field, "owner") THEN IndexOf(field, "owner") ELSE Len(field.chain)

\* describeAllowableValues()
AllowableValues(field) ==
    LET values == field.allowed \cup field.classes \cup field.instances
                      \cup {s.value : s \in ToSet(field.subProps)}
    IN  IF values = {} THEN {} ELSE values \cup field.default

\* makeValue(): the values to store, none if the value cannot be stored.  A
\* field that restricts its values takes one of them.
MakeValue(field, values) ==
    IF RestrictsValues(field) /\ ~(Cardinality(values) = 1
                                   /\ values \subseteq field.instances \cup field.allowed)
    THEN {}
    ELSE values

-----------------------------------------------------------------------------
\* Of a detail

FieldsOf(detail) == ToSet(detail.fields)

FieldNamed(detail, name) == CHOOSE f \in FieldsOf(detail) : f.name = name

FirstField(detail, Test(_)) == SelectInSeq(detail.fields, Test)

\* isSynthesized()
IsSynthesized(detail) == detail.dependencies # {}

HasDetailUri(detail) == \E f \in FieldsOf(detail) : Has(f, "detailUri")

\* resourceIriField()
ResourceIriField(detail) ==
    detail.fields[FirstField(detail, LAMBDA f : Has(f, "detailUri"))]

\* PropertyInfoBase::resourceIriScheme() for the properties that give a detail
\* its URI: the content of a phone number, email address or account says its
\* IRI, other resources are anonymous.
Scheme(p) == CASE p.iri = "hasPhoneNumber" -> "phone"
               [] p.iri = "hasEmailAddress" -> "mailto"
               [] p.iri = "hasIMAddress" -> "telepathy"
               [] OTHER -> "anonymous"

ResourceIriScheme(detail) ==
    IF ~HasDetailUri(detail) THEN "none"
    ELSE LET f == ResourceIriField(detail)
         IN  Scheme(f.chain[IndexOf(f, "detailUri")])

DetailUriScheme(detail) ==
    IF detail.scheme # "own" THEN detail.scheme ELSE ResourceIriScheme(detail)

\* QTrackerContactSubject::isContentScheme()
IsContentScheme(scheme) == scheme \in {"phone", "mailto", "telepathy", "presence"}

SubTypeFields(detail) == {f \in FieldsOf(detail) : HasSubTypes(f)}

\* endOfPredicateChain(): the properties before the last one, or before the one
\* that leads to the first inverse property.
PredicateChain(field) ==
    LET inverse == IndexOf(field, "inverse")
        end == IF inverse = 0 THEN Len(field.chain) ELSE inverse - 1
    IN  SubSeq(Iris(field.chain), 1, end - 1)

PredicateChains(detail) == {PredicateChain(f) : f \in FieldsOf(detail)} \ {<< >>}

ForeignKeyChains(detail) ==
    {PredicateChain(f) : f \in {x \in FieldsOf(detail) : Has(x, "foreignKey")}}

\* The chains to what belongs to the contact, and not to a resource that is
\* found by its key.
PossessedChains(detail) ==
    {c \in PredicateChains(detail) : \A k \in ForeignKeyChains(detail) : ~IsPrefix(k, c)}

\* implementations(): the details that an avatar is stored as.
Implementations(schema, detail) ==
    IF detail.name = "Avatar" THEN {d \in schema : d.name \in detail.dependencies} ELSE {detail}

=============================================================================
