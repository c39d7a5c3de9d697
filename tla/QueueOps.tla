------------------------------- MODULE QueueOps -------------------------------
(* The operations of QQueue (a QList) that the engine's queues use. *)
EXTENDS Integers, Sequences, SequencesExt  \* Contains

\* QList::removeOne(): the first occurrence goes, the rest moves up.
RemoveOne(q, x) ==
    LET i == CHOOSE k \in 1..Len(q) : q[k] = x /\ \A j \in 1..(k - 1) : q[j] # x
    IN  [j \in 1..(Len(q) - 1) |-> IF j < i THEN q[j] ELSE q[j + 1]]

=============================================================================
