---------------------------- MODULE UnmergeRequest ----------------------------
(* engine/contactunmergerequest.cpp: some online accounts of a contact get    *)
(* contacts of their own.  The IRI that the engine makes for an account is    *)
(* the instant messaging address, and the graph of what contactsd wrote for   *)
(* it, alike.                                                                 *)
EXTENDS TrackerStore, Integers, SequencesExt

CONSTANTS Account,          \* online accounts: address and graph
          Unmerges,         \* what clients ask for
          NewContact,       \* the IRI that is made for the n-th account,
          NewAffiliation    \* and the blank node

ASSUME UnmergeAssumption ==
    /\ NewContact \in Seq(Contact)
    /\ \A u \in Unmerges :
           /\ u \in [source : Contact \cup {Zero}, own : BOOLEAN, accounts : Seq(Account)]
           /\ Len(u.accounts) <= Len(NewContact) /\ Len(u.accounts) <= Len(NewAffiliation)

VARIABLE unmerge

NoUnmerge ==
    [pc |-> "idle", source |-> Zero, own |-> TRUE, accounts |-> << >>, predicates |-> {},
     affiliations |-> [a \in Account |-> {}], ids |-> << >>, error |-> "none"]

AskUnmerge ==
    /\ unmerge.pc = "idle"
    /\ \E u \in Unmerges :
           unmerge' = [unmerge EXCEPT !.pc = "resolve", !.source = u.source, !.own = u.own,
                                      !.accounts = u.accounts]
    /\ UNCHANGED store

RejectUnmerge ==
    /\ unmerge.pc = "resolve"
    /\ ~unmerge.own \/ unmerge.source = Zero
    /\ unmerge' = [unmerge EXCEPT !.pc = "done", !.error = "badArgument"]
    /\ UNCHANGED store

\* The resolver has an answer for every key, so that a contact that does not
\* exist is found out by nobody.
ResolveSource ==
    /\ unmerge.pc = "resolve"
    /\ unmerge.own /\ unmerge.source # Zero
    /\ unmerge' = [unmerge EXCEPT !.pc = "fetch"]
    /\ UNCHANGED store

\* Which affiliations lead to an address: both statements in one graph.
LinksTo(address) ==
    {[graph |-> q.g, affiliation |-> q.o] :
        q \in {x \in store : /\ x.s = unmerge.source /\ x.p = "affiliation" /\ x.g # "none"
                             /\ Quad(x.o, "address", address, x.g) \in store}}

\* fetchPredicates(): of several affiliations with an address one is kept.
FetchPredicates ==
    /\ unmerge.pc = "fetch"
    /\ \E links \in [Account -> {{}} \cup {{l} : l \in UNION {LinksTo(a) : a \in Account}}] :
           /\ \A a \in Account : links[a] \subseteq LinksTo(a)
           /\ \A a \in Account : LinksTo(a) # {} => links[a] # {}
           /\ unmerge' = [unmerge EXCEPT
                  !.pc = "update",
                  !.predicates = {[graph |-> q.g, predicate |-> q.p] :
                      q \in {x \in store : /\ x.s = unmerge.source /\ x.p # "type"
                                           /\ x.g # "none"}},
                  !.affiliations = links]
    /\ UNCHANGED store

-----------------------------------------------------------------------------
\* unmergeContacts()

PredicatesIn(account) ==
    {x.predicate : x \in {y \in unmerge.predicates : y.graph = account}}

\* The statements of the source in the graph of the account.
Moving(db, account) ==
    {q \in db : /\ q.s = unmerge.source /\ q.g = account
                /\ q.p \in PredicatesIn(account)}

\* Mutant of Matches: an account of which no graph tells anything matches nothing.
MatchesSomething(db, account) ==
    PredicatesIn(account) # {} /\ PredicatesIn(account) = {q.p : q \in Moving(db, account)}

\* The properties of a graph are one pattern: it matches all of them or nothing.
Matches(db, account) == PredicatesIn(account) = {q.p : q \in Moving(db, account)}

\* Mutant of NewStatements: the address stays behind.
NewStatementsInGraph(db, account, contact, affiliation) ==
    {Quad(contact, "type", "contact", "qct")}
        \cup {[q EXCEPT !.s = contact] : q \in {m \in Moving(db, account) : m.p # "affiliation"}}

\* insertContactQuery(): a contact with what the account's graph says, and with
\* an affiliation of its own for the address.
NewStatements(db, account, contact, affiliation) ==
    {Quad(contact, "type", "contact", "qct")}
        \cup {[q EXCEPT !.s = contact] : q \in Moving(db, account)}
        \cup UNION {{Quad(contact, "affiliation", affiliation, l.graph),
                     Quad(affiliation, "address", account, l.graph)} :
                        l \in unmerge.affiliations[account]}

\* insertTelepathyGeneratorFallbackQuery()
WithGenerator(db, contact) ==
    IF Exists(db, contact) /\ Values(db, contact, "generator") = {}
    THEN db \cup {Quad(contact, "generator", "telepathy", "qct")} ELSE db

\* cleanupQueries(), the second one: without a condition.
Obsolete(db, account) ==
    UNION {{q \in db : \/ q.s = unmerge.source /\ q.p = "affiliation" /\ q.o = l.affiliation
                       \/ q.s = l.affiliation /\ q.p = "address" /\ q.o = account} :
              l \in unmerge.affiliations[account]}

SplitOff(db, n) ==
    LET account == unmerge.accounts[n]
        added == IF ~Matches(db, account) THEN db
                 ELSE Insert(db, NewStatements(db, account, NewContact[n], NewAffiliation[n]))
        whole == WithGenerator(added, NewContact[n])
        moved == IF Matches(db, account) THEN whole \ Moving(whole, account) ELSE whole
    IN  moved \ Obsolete(moved, account)

UnmergeContacts ==
    /\ unmerge.pc = "update"
    /\ store' = FoldLeft(SplitOff, store, [n \in DOMAIN unmerge.accounts |-> n])
    /\ unmerge' = [unmerge EXCEPT !.pc = "ids"]

\* resolveUnmergedContactIds(): there is an answer for every IRI, be it zero.
ResolveUnmerged ==
    /\ unmerge.pc = "ids"
    /\ unmerge' = [unmerge EXCEPT
           !.pc = "done",
           !.ids = [n \in DOMAIN unmerge.accounts |->
                       IF Exists(store, NewContact[n]) THEN NewContact[n] ELSE Zero]]
    /\ UNCHANGED store

\* A lookup or a query fails.
UnmergeFails ==
    /\ MayFail
    /\ unmerge.pc \in {"resolve", "fetch", "update", "ids"}
    /\ unmerge.pc = "resolve" => unmerge.own /\ unmerge.source # Zero
    /\ unmerge' = [unmerge EXCEPT !.pc = "done", !.error = "query"]
    /\ UNCHANGED store

UnmergeNext ==
    \/ AskUnmerge \/ RejectUnmerge \/ ResolveSource \/ FetchPredicates
    \/ UnmergeContacts \/ ResolveUnmerged \/ UnmergeFails

-----------------------------------------------------------------------------
\* Properties

NewContacts == {NewContact[n] : n \in DOMAIN unmerge.accounts}

\* Unmerging loses no account: each address that the source had is afterwards
\* its own or a new contact's ("Because there might be several IMAddress on a
\* single affiliation [...] we go "down" to IMAddress precision",
\* contactunmergerequest.cpp:307-309).
UnmergeKeepsAccounts ==
    [][unmerge.pc = "update" /\ unmerge'.pc = "ids" =>
          \A a \in Account :
              Reaches(store, unmerge.source, a) =>
                  \E c \in {unmerge.source} \cup NewContacts : Reaches(store', c, a)
      ]_<<store, unmerge>>

\* "For each detached (unmerged) online account, a new contact will be created"
\* (unmergeimcontactsrequest.h:43): the ids that are reported belong to contacts
\* that exist, of which each has its account, and the source has none of them.
ContactPerAccount ==
    [][unmerge.pc = "ids" /\ unmerge'.pc = "done" /\ unmerge'.error = "none" =>
          \A n \in DOMAIN unmerge.accounts :
              LET account == unmerge.accounts[n]
              IN  /\ Exists(store, unmerge'.ids[n])
                  /\ unmerge.affiliations[account] # {} => Reaches(store, unmerge'.ids[n], account)
                  /\ ~Reaches(store, unmerge.source, account)
      ]_<<store, unmerge>>

=============================================================================
