--------------------------- MODULE MCContactDetails ---------------------------
EXTENDS ContactDetails

CONSTANTS c1, c2

D(name, fields, contexts) ==
    [name |-> name, fields |-> fields, contexts |-> contexts, uri |-> NoUri, links |-> {},
     readOnly |-> FALSE]

Phone(number, subtypes, contexts) ==
    D("PhoneNumber", [PhoneNumber |-> {number}, SubTypes |-> subtypes], contexts)
Email(address, contexts) == D("EmailAddress", [EmailAddress |-> {address}], contexts)

Private ==
     <<D("Name", [FirstName |-> {"Ann"}], {}), Phone("+123", {"Mobile", "foo"}, {"Home", "Work"}),
       Email("ann@x", {}), D("Note", [Note |-> {"n1"}], {}), D("Tag", [Tag |-> {"Fun"}], {}),
       D("Url", [Url |-> {"u1"}, SubType |-> {"HomePage"}], {"Home"}),
       D("Organization", [Name |-> {"Org"}, Title |-> {"Boss"}], {}),
       D("Pet", [Kind |-> {"cat"}], {}), D("Avatar", [ImageUrl |-> {"a.png"}], {}),
       D("Address", [Street |-> {"s1"}, Locality |-> {"l1"}, SubTypes |-> {"Postal"}], {"Home"}),
       D("Birthday", [Birthday |-> {"b1"}, CalendarId |-> {"cal"}], {}),
       D("Gender", [Gender |-> {"Female"}], {})>>

Business ==
     <<Phone("+123", {"Mobile", "foo"}, {"Work"}), Phone("+456", {}, {}), Email("ann@x", {"Home"}),
       D("Tag", [Tag |-> {"fun"}], {}),
       D("Timestamp", [CreationTimestamp |-> {"t0"}], {}), D("Guid", [Guid |-> {"own"}], {}),
       D("SyncTarget", [SyncTarget |-> {"mfe"}], {}),
       D("OnlineAccount", [AccountPath |-> {"path"}, AccountUri |-> {"ann"},
                           Protocol |-> {"xmpp"}], {}),
       D("Avatar", [ImageUrl |-> {"a.png"}], {}), D("Address", [Street |-> {"s1"}], {}),
       D("GeoLocation", [Latitude |-> {"1"}, Longitude |-> {"2"}], {}),
       D("Anniversary", [Event |-> {"wed"}, SubType |-> {"Wedding"}], {})>>

MCProfiles == (c1 :> {Private, Business}) @@ (c2 :> {Business})

Edit(drops, adds, mask) == [drops |-> drops, adds |-> adds, mask |-> mask]

MCEdits ==
    {Edit({}, << >>, {}),
     Edit({"PhoneNumber", "Note", "Timestamp", "Guid", "SyncTarget"}, <<Phone("+789", {}, {})>>, {}),
     Edit({"PhoneNumber", "SyncTarget"}, <<Phone("+123", {"Fax"}, {"Home"})>>, {"PhoneNumber"}),
     Edit({"Name"}, <<D("Name", [LastName |-> {"Lee"}], {})>>, {"Name", "Pet"}),
     LET dropped == {"Organization", "Avatar", "OnlineAccount", "Birthday"}
         replaced == {"Tag", "EmailAddress", "Url", "Address"}
     IN  Edit(dropped \cup replaced,
              <<Email("bob@x", {"Work"}),
                D("Url", [Url |-> {"u1"}, SubType |-> {"Blog"}], {"Home"})>>, dropped \cup replaced)}

\* contactsd: the account of a contact with its presence, or a contact that goes
\* with its account; a social plugin: a name.
Account(path, id) == <<"telepathy", path, id>>
Contactsd(c, path, id) ==
    LET graph == Account(path, id)
        affiliation == <<"affiliation", path>>
    IN  {Quad(c, "hasAffiliation", affiliation, graph),
         Quad(affiliation, "hasIMAddress", graph, graph),
         Quad(<<"telepathy", path>>, "hasIMContact", graph, graph),
         Quad(graph, "imID", Literal(id), graph),
         Quad(graph, "imPresence", <<"instance", "Busy">>, graph),
         Quad(graph, "imNickname", Literal("nick"), graph)}
MCOthers ==
    {Contactsd(c1, "path", "ann"),
     {Own3(c2, "type", Literal("contact")), Own3(c2, "generator", Literal("telepathy"))},
     {Quad(c1, "nameFamily", Literal("Foo"), <<"graph", "social">>)}}

MCContact == {c1, c2}
MCSchema == PersonSchema
MCSingle ==
    {"contentCreated", "contentLastModified", "contactUID", "generator", "nameGiven",
     "nameFamily", "phoneNumber", "emailAddress", "imID", "imProtocol", "imNickname", "imPresence", "title",
     "fullname", "dtstart", "label"}
MCClock == <<"t1", "t2", "t3">>
MCGuids == <<"g1", "g2", "g3">>
MCLocalNumber(n) == IF n = "+123" THEN "123" ELSE n
MCLongNumber(n) == n = "+123"
MCSameText(a, b) == a = b \/ {a, b} = {"Fun", "fun"}
MCMatching(text, pattern, how) ==
    text = pattern \/ (how = "exactly" /\ MCSameText(text, pattern))
MCTimes == <<"t0", "t1", "t2", "t3">>
MCNotAfter(a, b) ==
    \E i, j \in DOMAIN MCTimes : MCTimes[i] = a /\ MCTimes[j] = b /\ i <= j

Exactly(name, field, value) == DetailFilter(name, field, {value}, "exactly")
Some(name, field) == DetailFilter(name, field, {}, "exactly")
MCFilters ==
    {Exactly("Name", "FirstName", "Ann"), Exactly("Name", "LastName", "Foo"),
     Exactly("PhoneNumber", "PhoneNumber", "+123"), PhoneFilter("+123"), PhoneFilter("123"),
     PhoneFilter("+789"), Exactly("PhoneNumber", "SubTypes", "Mobile"),
     Exactly("PhoneNumber", "SubTypes", "foo"), Exactly("PhoneNumber", "Context", "Work"),
     Some("PhoneNumber", "Context"), Some("PhoneNumber", ""), Exactly("EmailAddress", "EmailAddress", "ann@x"),
     Exactly("EmailAddress", "Context", "Home"), Exactly("Tag", "Tag", "fun"),
     DetailFilter("Tag", "Tag", {"fun"}, "caseSensitive"), Some("Organization", ""),
     Exactly("Organization", "Title", "Boss"), Exactly("Organization", "Name", "Org"),
     Exactly("Url", "SubType", "Favourite"), Exactly("Url", "SubType", "HomePage"),
     Exactly("Url", "SubType", "Blog"), Exactly("Url", "Url", "u1"), Some("Url", "Context"),
     Exactly("Pet", "Kind", "cat"), Some("Pet", ""), Exactly("Address", "Street", "s1"),
     Exactly("Address", "SubTypes", "Postal"), Exactly("Address", "Context", "Home"),
     Exactly("Gender", "Gender", "Female"), Exactly("Anniversary", "SubType", "Wedding"),
     Exactly("OnlineAccount", "AccountPath", "path"), Exactly("OnlineAccount", "AccountUri", "ann"),
     Exactly("Presence", "PresenceState", "Busy"), Some("Presence", "Context"),
     Exactly("Presence", "Nickname", "nick"), Exactly("SyncTarget", "SyncTarget", "mfe"),
     Exactly("Guid", "Guid", "own"), Exactly("GeoLocation", "Latitude", "1"),
     RangeFilter("Timestamp", "ModificationTimestamp", {"t1"}, {"t2"}),
     RangeFilter("Timestamp", "CreationTimestamp", {}, {"t1"}),
     ChangeLogFilter("added", "t1"), ChangeLogFilter("changed", "t2"),
     Compound("and", {Exactly("EmailAddress", "EmailAddress", "ann@x"),
                      Compound("or", {Exactly("Tag", "Tag", "fun"), Some("Note", "")})})}

=============================================================================
