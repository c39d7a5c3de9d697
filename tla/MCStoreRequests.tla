--------------------------- MODULE MCStoreRequests ---------------------------
EXTENDS StoreRequests, TLC

CONSTANTS c1, c2, c3, g1, g2, me, n1, n2, acc1, acc2, aff1, aff2, b1, b2

MCContact == {c1, c2, c3, g1, g2, me, n1, n2}
MCSingle == {"given", "birthday", "generator"}
MCSyncTarget == {"telepathy", "addressbook", "mfe1", "mfe2", "other", ""}

\* Given names and notes are in a graph, birthdays and hobbies are not.
GraphOf(p) == IF p \in {"given", "note"} THEN "qct" ELSE "none"

Known(c) == {Quad(c, "type", "contact", "qct")}
Facts(c, predicates) == Known(c) \cup {Quad(c, p, c, GraphOf(p)) : p \in predicates}
Target(c, t) == {Quad(c, "generator", x, "qct") : x \in {t} \ {""}}

Profiles ==
    {{}, {"given"}, {"birthday", "hobby"}, {"given", "note"},
     {"given", "birthday", "note", "hobby"}}

People == {c1, c2, c3}
Union(f) == UNION {f[x] : x \in DOMAIN f}

\* Merging contacts of every profile, while contacts are removed.
MergeScenarios ==
    {[requests |-> {"merge", "removal"},
      store |-> Known(me) \cup Union([c \in People |-> Facts(c, f[c]) \cup Target(c, "addressbook")])] :
        f \in [People -> Profiles]}

\* Merging contacts of every sync target.
TargetScenarios ==
    {[requests |-> {"merge"},
      store |-> Known(me) \cup Union([c \in People |-> Facts(c, {"note"}) \cup Target(c, f[c])])] :
        f \in [People -> MCSyncTarget]}

\* A contact with an account: contactsd wrote some of it, or a client did.
Online(c, account, affiliation, graph, predicates) ==
    Known(c) \cup {Quad(c, "affiliation", affiliation, graph),
                   Quad(affiliation, "address", account, graph)}
             \cup {Quad(c, p, account, account) : p \in predicates}

\* One contact with two accounts, or two contacts that may be merged before.
UnmergeScenarios ==
    {[requests |-> {"merge", "unmerge"},
      store |-> Known(me) \cup Target(c1, t) \cup Online(c1, acc1, aff1, g, p)
                          \cup Online(c, acc2, aff2, h, r)] :
        c \in {c1, c2}, t \in {"", "addressbook"},
        g \in {acc1, "qct"}, h \in {acc2, "qct"},
        p \in SUBSET {"given", "note"}, r \in {{}, {"note"}}}

\* Two groups, of which one is its own member.
RelationScenarios ==
    {[requests |-> {"relation", "removal"},
      store |-> UNION {Known(c) : c \in {me, c1, g1, g2}}
                \cup {Quad(g, "type", "group", "qct") : g \in {g1, g2}}
                \cup {Quad(g1, "memberOf", g1, "qct")}]}

\* Contacts and groups that are read while contacts are removed; by their
\* nicknames the groups are before, after and between the others.
FetchStore(nickname) ==
    UNION {Known(c) : c \in {me, c1, c2, g1}} \cup {Quad(g1, "type", "group", "qct")}
        \cup {Quad(c, "nickname", nickname[c], "qct") : c \in {x \in {c1, c2, g1} : nickname[x] > 0}}

FetchScenarios ==
    {[requests |-> {"fetch", "removal"}, store |-> FetchStore(nickname)] :
        nickname \in {(g1 :> 1) @@ (c1 :> 2) @@ (c2 :> 1), (g1 :> 2) @@ (c1 :> 1) @@ (c2 :> 3)}}

MCCall(kind, all, ids, limit, sorting, native) ==
    [kind |-> kind, all |-> all, ids |-> ids, limit |-> limit, sorting |-> sorting, native |-> native]

MCCalls ==
    {MCCall(kind, TRUE, << >>, limit, TRUE, native) :
        kind \in {"contacts", "ids"}, limit \in {Unlimited, 0, 2},
        native \in {{}, {"contact"}, {"contact", "group"}}}
    \cup {MCCall(kind, TRUE, << >>, limit, FALSE, {}) :
              kind \in {"contacts", "ids"}, limit \in {Unlimited, 2}}
    \cup {MCCall(kind, FALSE, ids, Unlimited, FALSE, {}) :
              kind \in {"contacts", "ids", "byId"}, ids \in {<< >>, <<c2, g1, c1, c2>>}}
    \cup {MCCall("byId", FALSE, <<c1, g1, c1>>, 1, FALSE, {}),
          MCCall("contact", FALSE, <<c2>>, Unlimited, FALSE, {})}

MCScenarios ==
    MergeScenarios \cup TargetScenarios \cup UnmergeScenarios \cup RelationScenarios
        \cup FetchScenarios

\* A client's contact with one affiliation for two addresses.
SharedScenarios ==
    {[requests |-> {"unmerge"},
      store |-> Known(me) \cup Online(c1, acc1, aff1, "qct", {}) \cup Online(c1, acc2, aff1, "qct", {})]}

MCMergeMaps == {{<<c1, c2>>}, {<<c1, c2>>, <<c1, c3>>}, {<<c3, c2>>}, {<<c1, n1>>}, {<<c1, Zero>>, <<c3, c2>>}}
MCRemovalLists == {<<me, c1, me, g1>>, <<c2>>, <<me>>}
MCUnmerges ==
    {[source |-> c1, own |-> TRUE, accounts |-> a] : a \in {<<acc1>>, <<acc2, acc1>>}}
        \cup {[source |-> Zero, own |-> TRUE, accounts |-> <<acc1>>]}

HasMember(g, m) ==
    [type |-> "HasMember", firstManager |-> "own", secondManager |-> "own", group |-> g, member |-> m]

MCRelationLists ==
    {<< >>,
     <<HasMember(g1, c1), HasMember(g2, c1)>>,
     <<HasMember(g1, g2)>>,
     <<HasMember(g2, c1)>>,
     <<[HasMember(g1, c1) EXCEPT !.secondManager = "none"],
       [HasMember(g2, c1) EXCEPT !.firstManager = "foreign"],
       [HasMember(g2, c1) EXCEPT !.type = "other"],
       HasMember(g1, g1)>>}
MCParticipants == {g1, g2}
MCNewContact == <<n1, n2>>
MCNewAffiliation == <<b1, b2>>

=============================================================================
