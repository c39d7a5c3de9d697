----------------------------- MODULE DetailQueries -----------------------------
(* What a fetch request reads of a contact: the projections that the query    *)
(* builder binds for each detail (dao/scalarquerybuilder.cpp), and how the    *)
(* request makes details of the row (engine/abstractcontactfetchrequest.cpp). *)
(* However a field is bound, by predicate functions or by a subquery, its     *)
(* cell holds the values at the end of its chain, each with the graph of the  *)
(* property that says who owns it.                                            *)
EXTENDS TrackerStore, DetailSchema

-----------------------------------------------------------------------------
\* Following chains of properties

Start(node) == [at |-> node, graphs |-> << >>]

Continued(db, path, p) ==
    IF Is(p, "inverse")
    THEN {[at |-> q.s, graphs |-> Append(path.graphs, q.g)] :
              q \in {x \in db : x.p = p.iri /\ x.o = path.at}}
    ELSE {[at |-> q.o, graphs |-> Append(path.graphs, q.g)] :
              q \in {x \in db : x.p = p.iri /\ x.s = path.at}}

Paths(db, path, chain) ==
    FoldLeft(LAMBDA paths, p : UNION {Continued(db, x, p) : x \in paths}, {path}, chain)

\* applyConcatWithGraph(): the graph of a field behind an inverse property is
\* the one of the property that leads to the resource (bindInverseFields()).
GraphIndex(f) == IF Has(f, "inverse") THEN 1 ELSE OwnershipProperty(f)

\* A value as text: instances and accounts are resources.
Text(node) == IF Len(node) = 1 THEN node[1] ELSE node[2]

\* The values that the path leads to by the rest of the field's chain.
Cell(db, path, f, rest) ==
    {[node |-> x.at, graph |-> x.graphs[GraphIndex(f)]] : x \in Paths(db, path, rest)}

\* bindCustomValues(): the properties with the name of the field, of the
\* resource that has the field.
CustomCell(db, path, f, rest) ==
    LET chain == IF ~f.mapped \/ HasSubTypes(f) THEN rest ELSE Front(rest)
        Named(x) == {q \in db : /\ q.s = x.at /\ q.p = "hasProperty"
                                /\ Literal(f.name) \in Values(db, q.o, "propertyName")}
    IN  UNION {UNION {{[node |-> v, graph |-> q.g] : v \in Values(db, q.o, "propertyValue")} :
                      q \in Named(x)} : x \in Paths(db, path, chain)}

-----------------------------------------------------------------------------
\* Fields of a detail that is read

Nothing == [values |-> {}, graphs |-> {}]

\* fieldStringWithStrippedGraph(): where a string has several values, the first
\* is taken, and all that follows it for its graph.
Garbled == <<"graph", "garbled">>
OneOf(cell) ==
    IF cell = {} THEN Nothing
    ELSE [values |-> {Text((CHOOSE x \in cell : TRUE).node)},
          graphs |-> IF Cardinality(cell) = 1 THEN {x.graph : x \in cell} ELSE {Garbled}]

AllOf(cell) == [values |-> {Text(x.node) : x \in cell}, graphs |-> {x.graph : x \in cell}]

IsList(f) == f.type = "StringList"
Taken(f, cell) == IF IsList(f) THEN AllOf(cell) ELSE OneOf(cell)

\* fetchSubTypes(), fetchInstances(): the default stands for what is unknown.
KnownOr(f, known) == IF known = {} THEN f.default ELSE known

FetchSubTypes(db, f, node) ==
    KnownOr(f, {v \in f.classes : Literal(v) \in Values(db, node, "type")})

FetchInstances(f, cell) ==
    LET known == IF IsList(f) \/ Cardinality(cell) = 1
                 THEN AllOf(cell).values \cap f.instances ELSE {}
    IN  IF cell = {} THEN Nothing
        ELSE [Taken(f, cell) EXCEPT !.values = KnownOr(f, known)]

\* fetchField()
FetchField(f, cell) ==
    IF f.instances # {} THEN FetchInstances(f, cell)
    ELSE [Taken(f, cell) EXCEPT !.values = @ \ {""}]

\* fetchCustomValues(): those of a list are more values, of a string the value.
WithCustom(f, read, custom) ==
    IF custom = {} THEN read
    ELSE [values |-> Taken(f, custom).values \cup (IF IsList(f) THEN read.values ELSE {}),
          graphs |-> read.graphs \cup Taken(f, custom).graphs]

ReadField(db, path, f, rest) ==
    LET own == IF ~f.mapped THEN Nothing
               ELSE IF f.classes # {}
               THEN [values |-> FetchSubTypes(db, f, path.at), graphs |-> {}]
               ELSE FetchField(f, Cell(db, path, f, rest))
    IN  WithCustom(f, own, IF f.custom THEN CustomCell(db, path, f, rest) ELSE {})

-----------------------------------------------------------------------------
\* Details

Foreign(graph) == graph \notin {Own, NoGraph}

\* updateOriginAndAccessConstraints(): one foreign value makes it read-only.
ReadOnly(graphs) == \E g \in graphs : Foreign(g)

\* A detail of its fields, a function from their names to what was read.
Made(name, read, uri, links) ==
    LET graphs == UNION {read[n].graphs : n \in DOMAIN read}
        accounts == {g \in graphs : Head(g) = "telepathy"} \ {uri}
    IN  [name |-> name,
         fields |-> [n \in {x \in DOMAIN read : read[x].values # {}} |-> read[n].values],
         contexts |-> {}, uri |-> uri, links |-> links \cup accounts,
         readOnly |-> ReadOnly(graphs)]

ReadFields(detail) ==
    {f \in FieldsOf(detail) : f.chain # << >> /\ f.name # "LinkedDetailUris"}

\* bindUniqueDetail(), fetchUniqueDetail()
UniqueDetails(db, detail, c) ==
    {Made(detail.name,
          [n \in {f.name : f \in ReadFields(detail)} |->
               ReadField(db, Start(c), FieldNamed(detail, n), FieldNamed(detail, n).chain)],
          NoUri, {})}

\* The property by which all fields of a detail start.
Prefix(detail) == Head(Head(detail.fields).chain)

\* The detail is not read without the value: its text is joined with the graph
\* of the property that leads to its resource, and nothing says what stands for
\* a value that is missing.
Required(detail, f) ==
    /\ f.mapped /\ Len(f.chain) > 1 /\ ~Has(f, "inverse")
    /\ Is(Head(f.chain), "owner") \/ detail.name = "SocialAvatar"

\* A resource that the prefix leads to makes a detail.  An affiliation is the
\* one of the row.
Prefixed(db, detail, c, row) ==
    LET subject == IF detail.context THEN row ELSE c
        paths == IF Prefix(detail).iri = "hasAffiliation"
                 THEN {[at |-> row, graphs |-> <<NoGraph>>]}
                 ELSE Continued(db, Start(subject), Prefix(detail))
    IN  {path \in paths : \A f \in FieldsOf(detail) :
             Required(detail, f) => Cell(db, path, f, Tail(f.chain)) # {}}

\* unifyPropertySubTypes(): the subtypes whose property has the same value.
SubTypesByProperty(db, f, subject, path) ==
    KnownOr(f, {s.value : s \in {x \in ToSet(f.subProps) :
                    \E other \in Continued(db, Start(subject), x.property) :
                        /\ other.at = path.at
                        /\ ReadOnly(ToSet(other.graphs)) = ReadOnly(ToSet(path.graphs))}})

\* bindMultiDetail(), fetchMultiDetail()
MultiDetail(db, detail, c, row, path) ==
    LET subject == IF detail.context THEN row ELSE c
        Value(f) == IF f.subProps = << >> THEN ReadField(db, path, f, Tail(f.chain))
                     ELSE [values |-> SubTypesByProperty(db, f, subject, path), graphs |-> {}]
        linked == {f \in FieldsOf(detail) : f.name = "LinkedDetailUris"}
    IN  Made(detail.name,
             [n \in {f.name : f \in ReadFields(detail)} |-> Value(FieldNamed(detail, n))],
             IF HasDetailUri(detail) THEN path.at ELSE NoUri, {path.at : f \in linked})

\* saveDetail(): the presence of an account has an URI of its own.
Saved(detail, d) ==
    IF d.uri # NoUri /\ DetailUriScheme(detail) # ResourceIriScheme(detail)
    THEN [d EXCEPT !.links = {d.uri}, !.uri = <<DetailUriScheme(detail)>> \o Tail(d.uri)]
    ELSE d

\* The label of its affiliation is the context of a detail.
InRow(db, detail, d, row) ==
    IF detail.context THEN [d EXCEPT !.contexts = {o[1] : o \in Values(db, row, "label")}] ELSE d

\* fetchResults(), for one row: a contact and one of its affiliations.
DetailsOfRow(db, detail, c, row) ==
    {InRow(db, detail, Saved(detail, d), row) :
        d \in {x \in IF detail.unique THEN UniqueDetails(db, detail, c)
                     ELSE {MultiDetail(db, detail, c, row, path) :
                               path \in Prefixed(db, detail, c, row)} :
               DOMAIN x.fields # {}}}

\* A detail of the contact itself is the same in each of its rows.
DependsOnRow(detail) ==
    detail.context \/ (~detail.unique /\ Prefix(detail).iri = "hasAffiliation")

Rows(db, c) ==
    LET affiliations == Values(db, c, "hasAffiliation")
    IN  IF affiliations = {} THEN {NoUri} ELSE affiliations

\* bindCustomDetails(), fetchCustomDetail(): properties that have properties.
CustomDetails(db, c, names) ==
    LET Fields(node) == Values(db, node, "hasProperty")
        NameOf(node) == Text(CHOOSE o \in Values(db, node, "propertyName") : TRUE)
        Read(node) ==
            [name |-> NameOf(node),
             fields |-> [n \in {NameOf(x) : x \in Fields(node)} |->
                            UNION {{Text(v) : v \in Values(db, x, "propertyValue")} :
                                   x \in {y \in Fields(node) : NameOf(y) = n}}],
             contexts |-> {}, uri |-> NoUri, links |-> {}, readOnly |-> FALSE]
        read == {Read(node) : node \in {x \in Values(db, c, "hasProperty") :
                     Values(db, x, "propertyName") # {} /\ Fields(x) # {}}}
    IN  {d \in read : names = {} \/ d.name \in names}

-----------------------------------------------------------------------------
\* Contacts

\* updateAvatar(): the avatar of a contact, or of its account, becomes one that
\* clients know; who wrote it is forgotten.
AsAvatar(d) ==
    LET personal == d.name = "PersonalAvatar"
        names == DOMAIN d.fields \cup {n \in {"SubType"} : personal}
    IN  [d EXCEPT !.name = "Avatar", !.uri = NoUri, !.readOnly = FALSE,
                  !.links = IF personal THEN {} ELSE @,
                  !.fields = [n \in names |-> IF personal /\ n = "SubType" THEN {"Personal"}
                                              ELSE d.fields[n]]]
WithAvatars(details) ==
    {IF d.name \in Avatar.dependencies THEN AsAvatar(d) ELSE d : d \in details}

\* updateDetailLinks(): what a detail links to links back.  Of the details with
\* one URI, one does.
Linked(details) ==
    LET Of(uri) == CHOOSE d \in details : d.uri = uri
        Back(d) == {x.uri : x \in {y \in details : y.uri # NoUri /\ d.uri \in y.links}}
    IN  {IF d.uri # NoUri /\ d = Of(d.uri) THEN [d EXCEPT !.links = @ \cup Back(d)] ELSE d :
            d \in details}

\* buildQuery(): the details that are asked for, and those they are made of.
Wanted(schema, hints) ==
    IF hints = {} THEN schema
    ELSE {d \in schema : \/ d.name \in hints
                         \/ \E x \in schema : x.name \in hints /\ d.name \in x.dependencies}

CustomWanted(schema, hints) == hints \ (DetailNames(schema) \cup SyntheticDetails)

\* The details of a contact, without duplicates (removeDuplicateDetails()).
Read(db, schema, c, hints) ==
    LET RowsOf(detail) == IF DependsOnRow(detail) THEN Rows(db, c) ELSE {NoUri}
        rows == UNION {UNION {DetailsOfRow(db, detail, c, row) : row \in RowsOf(detail)} :
                       detail \in {x \in Wanted(schema, hints) : ~IsSynthesized(x)}}
        custom == IF hints # {} /\ CustomWanted(schema, hints) = {} THEN {}
                  ELSE CustomDetails(db, c, CustomWanted(schema, hints))
    IN  Linked(WithAvatars(rows \cup custom))

-----------------------------------------------------------------------------
\* Declarations that bindFields() refuses.

Bindable(detail) ==
    /\ detail.unique => \A f \in FieldsOf(detail) :
           /\ ~HasSubTypes(f) /\ ~Has(f, "inverse")
           /\ f.instances # {} => Len(f.chain) = 1
    /\ ~detail.unique => \A f \in FieldsOf(detail) :
           f.chain # << >> => Head(f.chain).iri = Prefix(detail).iri

\* No query fails for the schemas of the engine.
ASSUME SchemaIsBindable ==
    \A d \in PersonSchema \cup GroupSchema : IsSynthesized(d) \/ Bindable(d)

=============================================================================
