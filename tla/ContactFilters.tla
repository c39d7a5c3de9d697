---------------------------- MODULE ContactFilters ----------------------------
(* Filters for contacts as conditions of a query (bindFilter() and what it    *)
(* calls in dao/scalarquerybuilder.cpp).  They are made from the declarations *)
(* of the schema a second time, apart from the queries that read the details. *)
(* A filter has one value or none, which is a wildcard; how it matches is a   *)
(* function of two texts.  Left out are filters that are refused, for fields  *)
(* that do not exist or values of a wrong type; numbers with DTMF codes;      *)
(* lists that are compared as a whole; and the type of the contact.  Lists of *)
(* ids are in FetchRequest.                                                   *)
EXTENDS UpdateBuilder, DetailQueries

CONSTANTS
    Matching(_, _, _),  \* qctMatches(): whether a text matches a pattern in a way
    NotAfter(_, _),     \* the order of values in the store
    LongNumber(_)       \* whether a number has localPhoneNumberLength characters

DetailFilter(name, field, value, how) ==
    [kind |-> "detail", name |-> name, field |-> field, value |-> value, how |-> how,
     phone |-> FALSE]
PhoneFilter(number) ==
    [DetailFilter("PhoneNumber", "PhoneNumber", {number}, "exactly") EXCEPT !.phone = TRUE]
RangeFilter(name, field, least, most) ==
    [kind |-> "range", name |-> name, field |-> field, least |-> least, most |-> most,
     value |-> {}, how |-> "exactly", phone |-> FALSE]
ChangeLogFilter(event, since) == [kind |-> "changeLog", event |-> event, since |-> since]
Compound(kind, parts) == [kind |-> kind, parts |-> parts]

-----------------------------------------------------------------------------
\* What the query has to look for

IsNumber(f) == f.chain # << >> /\ Last(f.chain).iri = "phoneNumber"

\* normalizeFilterMatchFlags(), normalizeFilterValue(): long numbers are equal
\* when their ends are.
Normalised(f, filter) ==
    LET how == IF ~IsNumber(f) \/ ~filter.phone THEN filter.how
               ELSE IF \E n \in filter.value : LongNumber(n) THEN "endsWith" ELSE "exactly"
    IN  [filter EXCEPT !.how = how,
             !.value = IF IsNumber(f) /\ how = "endsWith" THEN {LocalNumber(n) : n \in @} ELSE @]

\* A value that is no class of the resource is a property with a name.
CustomSubType(f, filter) ==
    filter.kind = "detail" /\ f.classes # {} /\ filter.value \cap f.classes = {}

\* Of subtypes by property: the base property for the default.
SubTypeProperty(f, filter) ==
    IF f.default # {} /\ f.default = filter.value /\ f.chain # << >> THEN {Last(f.chain)}
    ELSE {s.property : s \in {x \in ToSet(f.subProps) : x.value \in filter.value}}

\* The chain of properties to the resource or value that is compared.
ChainFor(detail, f, filter) ==
    LET own == IF f.subProps # << >> /\ SubTypeProperty(f, filter) # {} THEN Front(f.chain)
               ELSE IF IsNumber(f) /\ filter.phone
               THEN Append(Front(f.chain), P("localPhoneNumber", {}))
               ELSE f.chain
    IN  IF detail.context THEN <<P("hasAffiliation", {})>> \o own ELSE own

\* A variable that no pattern binds.
Unbound == <<"variable", "unbound">>

Nodes(db, c, chain) ==
    IF chain = << >> THEN {Unbound} ELSE {path.at : path \in Paths(db, Start(c), chain)}

CustomFieldValues(db, node, name) ==
    UNION {Values(db, x, "propertyValue") : x \in {y \in Values(db, node, "hasProperty") :
               name = "" \/ Literal(name) \in Values(db, y, "propertyName")}}

\* Mutant of OfSubType: the values of the other subtypes are not taken out.
OfAnySubType(db, f, node, p) == {q.o : q \in {x \in db : x.p = p.iri /\ node \in {x.s, Unbound}}}

\* createSubTypePropertyFilter(): a value of the base property is also one of
\* each property that is derived from it.
OfSubType(db, f, node, p) ==
    {q.o : q \in {x \in db :
        /\ x.p = p.iri /\ node \in {x.s, Unbound}
        /\ \/ \E s \in ToSet(f.subProps) : s.property.iri = p.iri
           \/ \A s \in ToSet(f.subProps) : x.o \notin Values(db, x.s, s.property.iri)}}

\* bindFilterDetailField(): what is compared with the value of the filter.
Bound(db, c, detail, f, filter) ==
    LET nodes == Nodes(db, c, ChainFor(detail, f, filter))
        properties == SubTypeProperty(f, filter)
    IN  IF f.subProps # << >> /\ properties # {}
        THEN UNION {OfSubType(db, f, node, p) : node \in nodes, p \in properties}
        ELSE IF ~f.mapped \/ CustomSubType(f, filter) \/ f.subProps # << >>
        THEN UNION {CustomFieldValues(db, node, f.name) : node \in nodes}
        ELSE IF f.classes # {} THEN UNION {Values(db, node, "type") : node \in nodes}
        ELSE nodes

\* matchFunction(): what is no text is compared as it is, unless the filter
\* says how to compare it as text.
IsText(f) == f.type \in {"String", "StringList"} /\ ~Has(f, "inverse")
Compares(f, node, value, how) ==
    /\ node # Unbound
    /\ IF IsText(f) \/ how \notin {"exactly", "caseSensitive"}
       THEN Matching(Text(node), value, how) ELSE Text(node) = value

-----------------------------------------------------------------------------
\* The conditions

\* bindFilter(QContactDetailFilter) for a field of the schema.
FieldMatches(db, c, detail, f, given) ==
    LET filter == Normalised(f, given)
        bound == Bound(db, c, detail, f, filter)
    IN  IF filter.value = {} \/ (f.subProps # << >> /\ SubTypeProperty(f, filter) # {})
        THEN bound # {}
        ELSE \E value \in filter.value :
            IF f.classes # {} THEN Literal(value) \in bound
            ELSE IF f.instances # {}
            THEN \E v \in f.instances : Matching(v, value, filter.how) /\ <<"instance", v>> \in bound
            ELSE \E node \in bound : Compares(f, node, value, filter.how)

\* bindFilter(QContactDetailRangeFilter), with the flags it has by default.
InRange(node, filter) ==
    /\ node # Unbound
    /\ \A v \in filter.least : NotAfter(v, Text(node))
    /\ \A v \in filter.most : Text(node) # v /\ NotAfter(Text(node), v)

FieldFits(db, c, detail, f, filter) ==
    IF filter.kind = "range" THEN \E node \in Bound(db, c, detail, f, filter) : InRange(node, filter)
    ELSE FieldMatches(db, c, detail, f, filter)

\* bindDetailContextFilter(): an affiliation with the label has a field of the
\* detail, whatever its value.
ContextMatches(db, c, detail, filter) ==
    /\ detail.context
    /\ \E a \in Values(db, c, "hasAffiliation") :
           /\ \A value \in filter.value : \E label \in Values(db, a, "label") :
                  Matching(Text(label), value, filter.how)
           /\ \E f \in FieldsOf(detail) : f.mapped /\ Nodes(db, a, f.chain) # {}

\* bindCustomDetailFilter()
CustomMatches(db, c, filter) ==
    \E detail \in Values(db, c, "hasProperty") :
        /\ Literal(filter.name) \in Values(db, detail, "propertyName")
        /\ LET found == CustomFieldValues(db, detail, filter.field)
           IN  IF filter.kind = "range"
               THEN \E node \in found : InRange(node, filter)
               ELSE IF filter.value = {} THEN found # {}
               ELSE \E node \in found, v \in filter.value : Matching(Text(node), v, filter.how)

DetailMatches(db, schema, c, filter) ==
    IF filter.name \notin DetailNames(schema) THEN CustomMatches(db, c, filter)
    ELSE LET detail == DetailNamed(schema, filter.name)
         IN  CASE filter.field = "" ->
                      \E f \in FieldsOf(detail) : FieldFits(db, c, detail, f, filter)
               [] filter.field = "Context" -> ContextMatches(db, c, detail, filter)
               [] OTHER -> FieldFits(db, c, detail, FieldNamed(detail, filter.field), filter)

\* bindFilter(QContactChangeLogFilter): removals are not stored.
ChangedSince(db, c, filter) ==
    LET property == IF filter.event = "added" THEN "contentCreated" ELSE "contentLastModified"
    IN  \E time \in Values(db, c, property) : NotAfter(filter.since, Text(time))

\* bindFilter(QContactFilter)
RECURSIVE Matched(_, _, _, _)
Matched(db, schema, c, filter) ==
    CASE filter.kind = "and" -> \A part \in filter.parts : Matched(db, schema, c, part)
      [] filter.kind = "or" -> \E part \in filter.parts : Matched(db, schema, c, part)
      [] filter.kind = "changeLog" -> ChangedSince(db, c, filter)
      [] OTHER -> DetailMatches(db, schema, c, filter)

=============================================================================
