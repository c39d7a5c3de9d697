------------------------------ MODULE ResolverOps ------------------------------
(***************************************************************************)
(* How the resolvers (src/lib/sparqlresolver.cpp) put the columns of a     *)
(* result back into the slots of their answer.                             *)
(*                                                                         *)
(* Tracker keeps the mapping between IRIs and ids forever and one to one,  *)
(* so a resource stands for its IRI and for its id alike; Nil is the empty *)
(* IRI and the id zero.                                                    *)
(***************************************************************************)
EXTENDS Integers, Sequences, SequencesExt

CONSTANTS Resource, Nil

ASSUME NilAssumption == Nil \notin Resource

Name == Resource \cup {Nil}

\* The slots from one on that a value is still missing for.
OpenSlots(values, from) == {i \in from .. Len(values) : values[i] = Nil}

\* Mutant of NextSlot: slots that the cache filled are not skipped.
NextSlotBlindly(values, from) == from

\* "skip already known tracker ids"
NextSlot(values, from) == Min(OpenSlots(values, from))

\* lookupAndWait() as a whole, when nobody else touches the list: the columns
\* of row, which came in chunks of at most limit, are put into the open slots
\* of values; "at" tells which slot each column went to.
FillIn(values, row, limit) ==
    LET Put(k, filled) ==
            LET first == IF (k - 1) % limit = 0 THEN k ELSE Last(filled.at) + 1
                slot == NextSlot(filled.values, first)
            IN  [values |-> [filled.values EXCEPT ![slot] = row[k]],
                 at |-> Append(filled.at, slot)]
    IN  FoldLeft(LAMBDA filled, k : Put(k, filled), [values |-> values, at |-> << >>],
                 [k \in 1 .. Len(row) |-> k])

=============================================================================
