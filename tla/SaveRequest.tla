------------------------------ MODULE SaveRequest ------------------------------
(***************************************************************************)
(* QTrackerContactSaveRequest::run() (src/engine/contactsaverequest.cpp):  *)
(* saves a list of contacts one by one and reports an error for each that  *)
(* could not be saved.  The request runs in a background thread; other     *)
(* processes change the store meanwhile.                                   *)
(*                                                                         *)
(* The tracker:ids of new contacts are known only when the store has them, *)
(* so IRIs stand for contacts during the request: they are looked up first *)
(* (for contacts with an id) or made up (for new ones), and translated     *)
(* back into ids at the end, with the resolver's matching of columns and   *)
(* slots (ResolverOps).                                                    *)
(***************************************************************************)
EXTENDS ResolverOps

CONSTANTS
    Fresh,        \* the IRIs made of UUIDs, one for each position of the list
    Inputs,       \* the lists of contacts that clients save
    Masks,        \* the definition masks that clients give; {} is a full save
    ColumnLimit,
    MayFail       \* whether queries can fail, and contacts be invalid

\* A contact of the list: whose id it has, the id, and whether it comes with a
\* thumbnail.
Contact == [manager : {"own", "empty", "foreign"}, id : Name, thumbnail : BOOLEAN]

ASSUME SaveAssumption ==
    /\ Fresh \in Seq(Resource)
    /\ \A i, j \in DOMAIN Fresh : i # j => Fresh[i] # Fresh[j]
    /\ \A list \in Inputs : list \in Seq(Contact) /\ Len(list) <= Len(Fresh)
    /\ ColumnLimit \in Nat \ {0}
    /\ MayFail \in BOOLEAN

VARIABLES
    given,     \* the contacts that the client passed
    mask,      \* m_detailMask
    contacts,  \* m_contacts, with the ids that the request reports in the end
    iris,      \* m_contactIris
    errors,    \* m_errorMap; "none" where it has no entry
    lastError, \* lastError()
    pc,        \* the phase of run()
    next,      \* the contact to save next
    gc,        \* m_updateCount > 0: the garbage collector will be triggered
    idOf,      \* the resource cache, from IRIs to ids
    ids,       \* the resources that the store has an id for
    stored,    \* the contacts in the store
    saved,     \* the contacts of the list that were written (history)
    wrote,     \* which of the two avatar details were written for a contact (history)
    asked      \* the client's mask (history)

request == <<given, asked>>
store == <<ids, stored>>
vars == <<request, mask, contacts, iris, errors, lastError, pc, next, gc, idOf, store, saved,
          wrote>>

-----------------------------------------------------------------------------

Detail == {"thumbnail", "avatar"}

Position == DOMAIN given

FreshIris == {Fresh[i] : i \in DOMAIN Fresh}

Error == {"none", "doesNotExist", "invalid", "thumbnail", "query", "unspecified"}

Init ==
    /\ given \in Inputs
    /\ asked \in Masks
    /\ mask = asked
    /\ contacts = given
    /\ iris = << >>
    /\ errors = [i \in Position |-> "none"]
    /\ lastError = "none"
    /\ pc = "resolveIris"
    /\ next = 1
    /\ gc = FALSE
    /\ ids = Resource \ FreshIris
    /\ stored \in SUBSET ids
    /\ idOf \in {[n \in Name |-> Nil], [n \in Name |-> IF n \in stored THEN n ELSE Nil]}
    /\ saved = {}
    /\ wrote = [i \in Position |-> {}]

-----------------------------------------------------------------------------
\* resolveContactIris()

LookedUp == {given[i].id : i \in {j \in Position : given[j].manager # "foreign"}} \ {Nil}

\* contactIriCache: the ones that are contacts now.
Found == LookedUp \cap stored

\* A new contact gets a new IRI.  An id that was found stands for its IRI even
\* where it is another manager's.
IriFor(i) ==
    IF given[i].id = Nil THEN Fresh[i]
    ELSE IF given[i].id \in Found THEN given[i].id
    ELSE Nil

MissingErrors ==
    [i \in Position |-> IF IriFor(i) = Nil THEN "doesNotExist" ELSE errors[i]]

ResolveContactIris ==
    /\ pc = "resolveIris"
    /\ iris' = [i \in Position |-> IriFor(i)]
    /\ errors' = MissingErrors
    /\ lastError' = IF \E i \in Position : IriFor(i) = Nil THEN "doesNotExist" ELSE "none"
    /\ idOf' = [n \in Name |-> IF n \in Found THEN n ELSE idOf[n]]
    /\ pc' = "save"
    /\ UNCHANGED <<request, mask, contacts, next, gc, store, saved, wrote>>

\* The lookup fails, or there is no connection for what follows.
GiveUp ==
    /\ MayFail
    /\ pc = "resolveIris"
    /\ lastError' = "unspecified"
    /\ pc' = "done"
    /\ UNCHANGED <<request, mask, contacts, iris, errors, next, gc, idOf, store, saved, wrote>>

-----------------------------------------------------------------------------
\* The loop over the contacts

\* isPartialSaveRequest() and isUnknownDetail() of the request, which always
\* saves a new contact in full.
Known(i, detail) == given[i].id = Nil \/ mask = {} \/ detail \in mask

Visits(i) == pc = "save" /\ i = next /\ i \in Position

\* "skip contacts with non-exisitant, non-zero local id"
SkipMissing(i) ==
    /\ Visits(i)
    /\ iris[i] = Nil
    /\ next' = i + 1
    /\ UNCHANGED <<request, mask, contacts, iris, errors, lastError, pc, gc, idOf, store, saved,
                   wrote>>

RejectForeign(i) ==
    /\ Visits(i)
    /\ iris[i] # Nil
    /\ given[i].manager = "foreign"
    /\ errors' = [errors EXCEPT ![i] = "doesNotExist"]
    /\ next' = i + 1
    /\ UNCHANGED <<request, mask, contacts, iris, lastError, pc, gc, idOf, store, saved, wrote>>

Acceptable(i) == Visits(i) /\ iris[i] # Nil /\ given[i].manager # "foreign"

\* normalizeContact() or writebackThumbnails() fails.
Reject(i) ==
    /\ MayFail
    /\ Acceptable(i)
    /\ \E error \in {"invalid"} \cup (IF given[i].thumbnail /\ Known(i, "thumbnail")
                                       THEN {"thumbnail"} ELSE {}) :
           errors' = [errors EXCEPT ![i] = error]
    /\ next' = i + 1
    /\ UNCHANGED <<request, mask, contacts, iris, lastError, pc, gc, idOf, store, saved, wrote>>

\* writebackThumbnails(): the thumbnail becomes the avatar, and the avatar is
\* added to the mask of a partial save, for this contact and the ones after it.
MaskAfterThumbnail(i) ==
    IF given[i].thumbnail /\ Known(i, "thumbnail") /\ ~Known(i, "avatar")
    THEN mask \cup {"avatar"} ELSE mask

\* The update query is built with that mask: it first deletes and then inserts
\* the details in the mask.
Written(m) == IF m = {} THEN Detail ELSE m

\* Mutant of UpdateFails: the error map gets no entry.
UpdateFailsUnnoticed(i) ==
    /\ MayFail
    /\ Acceptable(i)
    /\ mask' = MaskAfterThumbnail(i)
    /\ lastError' = "query"
    /\ gc' = (gc \/ given[i].id # Nil)
    /\ next' = i + 1
    /\ UNCHANGED <<request, contacts, iris, errors, pc, idOf, store, saved, wrote>>

\* The query fails: runQuery() sets lastError().
UpdateFails(i) ==
    /\ MayFail
    /\ Acceptable(i)
    /\ mask' = MaskAfterThumbnail(i)
    /\ errors' = [errors EXCEPT ![i] = "query"]
    /\ lastError' = "query"
    /\ gc' = (gc \/ given[i].id # Nil)
    /\ next' = i + 1
    /\ UNCHANGED <<request, contacts, iris, pc, idOf, store, saved, wrote>>

\* The query inserts the contact's class too, so that a contact which another
\* process has removed in the meantime exists again.
Update(i) ==
    /\ Acceptable(i)
    /\ mask' = MaskAfterThumbnail(i)
    /\ ids' = ids \cup {iris[i]}
    /\ stored' = stored \cup {iris[i]}
    /\ saved' = saved \cup {i}
    /\ wrote' = [wrote EXCEPT ![i] = Written(mask')]
    /\ gc' = (gc \/ given[i].id # Nil)
    /\ next' = i + 1
    /\ UNCHANGED <<request, contacts, iris, errors, lastError, pc, idOf>>

LoopEnds ==
    /\ pc = "save" /\ next = Len(given) + 1
    /\ pc' = "resolveIds"
    /\ UNCHANGED <<request, mask, contacts, iris, errors, lastError, next, gc, idOf, store, saved,
                   wrote>>

-----------------------------------------------------------------------------
\* resolveContactIds() and the report

\* The columns of the query: one for each slot without a value, in order.
Columns(values) ==
    FoldLeft(LAMBDA columns, i : IF values[i] = Nil THEN Append(columns, i) ELSE columns,
             << >>, [i \in DOMAIN values |-> i])

\* The lookup of all IRIs: what the cache knows, and the columns for the rest.
LookedUpIds ==
    LET values == [i \in Position |-> idOf[iris[i]]]
        missing == Columns(values)
        row == [k \in DOMAIN missing |->
                   IF iris[missing[k]] \in ids THEN iris[missing[k]] ELSE Nil]
        filled == FillIn(values, row, ColumnLimit)
    IN  [values |-> filled.values,
         cache |-> FoldLeft(LAMBDA c, k : [c EXCEPT ![iris[filled.at[k]]] = row[k]],
                            idOf, [k \in DOMAIN row |-> k])]

ResolveContactIds ==
    LET resolved == LookedUpIds.values
    IN  /\ pc = "resolveIds"
        /\ idOf' = LookedUpIds.cache
        /\ contacts' = [i \in Position |->
               IF resolved[i] # Nil
               THEN [contacts[i] EXCEPT !.manager = "own", !.id = resolved[i]]
               ELSE contacts[i]]
        /\ errors' = [i \in Position |->
               IF resolved[i] = Nil /\ errors[i] = "none" THEN "unspecified" ELSE errors[i]]
        /\ pc' = "report"
        /\ UNCHANGED <<request, mask, iris, lastError, next, gc, store, saved, wrote>>

\* The contacts are saved, but the client does not get to know their ids.
ResolveIdsFails ==
    /\ MayFail
    /\ pc = "resolveIds"
    /\ lastError' = "unspecified"
    /\ pc' = "done"
    /\ UNCHANGED <<request, mask, contacts, iris, errors, next, gc, idOf, store, saved, wrote>>

\* The first error of the map, unless one was set before.
FinalError ==
    LET failed == {i \in Position : errors[i] # "none"}
    IN  IF lastError = "none" /\ failed # {} THEN errors[Min(failed)] ELSE lastError

Report ==
    /\ pc = "report"
    /\ lastError' = FinalError
    /\ pc' = "done"
    /\ UNCHANGED <<request, mask, contacts, iris, errors, next, gc, idOf, store, saved, wrote>>

\* Another process removes or restores a contact.
OtherProcess ==
    /\ pc # "done"
    /\ \E n \in ids \ FreshIris :
           stored' \in {stored \ {n}, stored \cup {n}}
    /\ UNCHANGED <<request, mask, contacts, iris, errors, lastError, pc, next, gc, idOf, ids,
                   saved, wrote>>

Next ==
    \/ ResolveContactIris \/ GiveUp \/ LoopEnds \/ ResolveContactIds \/ ResolveIdsFails \/ Report
    \/ OtherProcess
    \/ \E i \in Position : SkipMissing(i) \/ RejectForeign(i) \/ Reject(i) \/ UpdateFails(i)
                              \/ Update(i)

Spec == Init /\ [][Next]_vars

-----------------------------------------------------------------------------
\* Properties

\* In the report a contact that was saved has the id of its IRI, whatever happened
\* to the other contacts of the list, and one that was not saved has the id that
\* it came with.
IdsAreExact ==
    pc = "report" =>
        /\ \A i \in saved : contacts[i].id = iris[i] /\ contacts[i].manager = "own"
        /\ \A i \in Position \ saved :
               /\ contacts[i].id = given[i].id
               /\ given[i].manager = "foreign" => contacts[i].manager = "foreign"

\* The error map names exactly the contacts that were not saved, and a request
\* that reports success has saved every contact and knows its id.
ErrorsAreExact ==
    /\ pc = "report" => \A i \in Position : errors[i] = "none" <=> i \in saved
    /\ pc = "done" /\ lastError = "none" =>
           \A i \in Position : i \in saved /\ contacts[i].id = iris[i]

\* A partial save writes nothing but the details of the client's mask, and the
\* avatar of a contact whose own thumbnail replaces it ("skip those not in the
\* detail mask if given", line 1081).
OnlyMaskedDetails ==
    \A i \in saved :
        asked # {} /\ given[i].id # Nil =>
            wrote[i] \subseteq asked \cup (IF given[i].thumbnail THEN {"avatar"} ELSE {})

=============================================================================
